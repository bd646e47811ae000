SPECIFICATION SafeSpec
CONSTANTS
  BufferLen = 2
  Byte = {b1, b2}
  NoByte = NoByte
  Addr = {a1, a2, a3}
  MaxChain = 3
  MaxBytes = 5
  SaneLimit = 2
  U32 = 8
SYMMETRY Symmetry
INVARIANTS
  BufferSound
PROPERTIES
  ImplementsByteQueue
  RefusedWhole
