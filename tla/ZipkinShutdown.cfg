SPECIFICATION ZipkinSpec
CONSTANTS
  Obj = {o1, o2}
  NoSpan = NoSpan
  MaxErrors = 1
  IdMod = 3
  MaxSpans = 2
  MaxShutdowns = 2
PROPERTY ShutdownDrains
