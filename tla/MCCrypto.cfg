\* A client makes one call; a document that was read ends.
SPECIFICATION Spec
CONSTANTS
  Order = 11
  Field = 13
  ByteSize = 4
  XOf <- CurveX
  OddY <- CurveOdd
  MaxData = 2
  MaxEvents = 11
  Text = {"webauthn.get", "digest", "https", "?"}
  InitP <- Subkeys
  InitS <- SBox
  MaxKey = 3
  MaxBlocks = 2
  MaxPlain = 3
  Rate = 2
  HashByte <- PadLike
  MaxMessage = 4
  HmacBlock = 2
CHECK_DEADLOCK FALSE
INVARIANTS
  SignaturesSound
  KeyTextsSound
  ClientDataSound
  PrimitivesSound
