SPECIFICATION RpcSpec
CONSTANTS
  Caller = {f1, f2}
  Handler = {h1, h2}
  Api = {a1, a2, r1}
  Proxy = {r1}
  Arg = {1, 2}
  MaxId = 2
  MaxNotices = 1
  None = None
CHECK_DEADLOCK FALSE
INVARIANT CallsSound
PROPERTY CallReturns
