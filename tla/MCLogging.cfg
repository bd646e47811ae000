\* A message that was converted, or a last exception, ends a behaviour.
SPECIFICATION Spec
CONSTANTS
  Thread = {t1, t2}
  Name = {"default", "net"}
  Static = {"net"}
  DefaultLogger = "default"
  AppenderName <- AppenderNames
  LoggingConfig <- Configurations
  MaxLevel = 1
  MaxGeneration = 2
  Impl = {1, 2, 3, 4, 5, 6, 7}
  Body = 2
  Header = 1
  Chunk = 4
  Sizes = {0, 3, 5, 6, 7}
  LineSize = 2
  MaxLogged = 2
  MaxField = 40
  Registered = {"timeout", "assert"}
  Code <- Codes
  MaxLog = 5
  Obj = {o1, o2}
  NoSpan = NoSpan
  MaxErrors = 1
  IdMod = 3
  MaxSpans = 3
  MaxShutdowns = 3
CHECK_DEADLOCK FALSE
INVARIANTS
  LogConsistent
  LoggedIsKept
  TrailSurvives
  LoggedOnce
  NothingLost
  ZipkinSound
PROPERTIES
  HeldIsStable
  LogReturns
  SpanHandled
