\* A client makes one call.
SPECIFICATION Spec
CONSTANTS
  Byte = {0, 1, 58, 127, 128, 255}
  MaxLen = 4
  MaxText = 4
  Codebook <- Words
  MaxVerb = 3
  MaxPlain = 7
  PortBits = 2
  MaxUrl = 5
  MaxEndpoint = 6
  MaxUtf8 = 6
  Octet = {0, 9, 10, 11, 15, 16, 31, 32, 168, 169, 172, 192, 223, 224, 239, 240, 253, 254, 255}
  Quarter = 2
  Magnitude = 1
  DigestBits = 4
  SampleBytes = {0, 1, 6, 8, 15}
  Bits = 4
  Narrow = 2
  Significant = 2
  MaxElements = 3
  MaxByteArray = 5
  MaxSize = 5
  MaxFormat = 6
  Storage = 3
  Char = {0, 1, 2}
  MaxString = 4
  Scale = 2
  Places = 3
  SecBits = 3
  Group = 2
  WordBits = 5
  MaxCount = 2
  MaxBytes = 2
  MaxInput = 4
  DepthMod = 16
  Alphabet <- JsonSymbols
  MaxJson = 4
  StringSymbols <- WrittenSymbols
CHECK_DEADLOCK FALSE
INVARIANTS
  TextKept
  NumbersKept
  VariantsKept
  PackedKept
  WrittenKept
