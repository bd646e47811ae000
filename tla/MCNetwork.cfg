\* A client that was destroyed stops.
SPECIFICATION Spec
CONSTANTS
  UdtFiber = {u1, u2}
  Sock = {s1}
  Listener = listener
  Nobody = nobody
  MaxPending = 1
  Server = {"a", "b"}
  Skew <- Skews
  Second = 6
  Fraction = 16
  Seconds = 8
  Era = 3
  MaxDelay = 1
  Day = 20
  Start = 5
  MaxNow = 7
  MaxRequests = 1
  MaxInFlight = 2
  Interval = {2}
  BufferLen = 2
  Byte = {b1}
  NoByte = NoByte
  Addr = {c1, c2, c3}
  MaxChain = 3
  MaxBytes = 5
  SaneLimit = 2
  U32 = 8
CHECK_DEADLOCK FALSE
INVARIANTS
  NoWakeupLost
  ClockSound
PROPERTIES
  WaitsEnd
