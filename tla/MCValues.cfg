\* Some of the parts stop: a renamed file, a closed stream.
SPECIFICATION Spec
CONSTANTS
  Obj = {o1, o2}
  Mut = {m1, m2}
  Key = {k1, k2}
  Val = {v1, nv}
  Null = Null
  NullVal = nv
  MaxEntries = 2
  Var = {x1, x2, x3}
  InPlace = {i1}
  Boxed = {s1, a1}
  Block = {b1, b2, b3}
  Nil = nil
  Gone = gone
  PublicKey = {q1, q2, q3}
  Point = {p1, p2}
  EcKey = {h1, h2, h3, h4}
  Free = free
  NoKey = NoKey
  NoPoint = np
  Temp = {t1, t2, t3}
  Path = {d1, d2, d3}
  Process = {r1, r2}
  Lock = {l1, l2}
  Dir = {"a", "b"}
  MaxDepth = 4
  NoPath = nopath
  NoFile = "none"
  BlockSize = 2
  MaxSize = 3
  MaxWrites = 2
  Capacity = 4
  MaxChunk = 2
  MaxPos = 6
  MinRead = 3
  WriteBuffer = 2
  MaxBytes = 6
  Op = {w1, w2, w3}
  Length = {1, 3}
  Rate = 2
  Burst = 1
  Second = 2
  MaxTicks = 2
  MaxSwitches = 1
  Filter = {f1, f2}
  Element = {1, 2, 3}
  Salts = 2
  HashAp <- Hashes
  Cell = 4
  Params <- SomeParams
  MaxInserts = 2
VIEW View
SYMMETRY Symmetry
CHECK_DEADLOCK FALSE
INVARIANTS
  FilesKept
  StreamsInOrder
  LimiterSound
  FilterSound
PROPERTIES
  ObjectsIndependent
  IsValue
  KeyIsValue
