SPECIFICATION ObjectSpec
CONSTANTS
  Obj = {o1, o2}
  Mut = {m1, m2}
  Key = {k1, k2}
  Val = {v1, nv}
  Null = Null
  NullVal = nv
  MaxEntries = 3
PROPERTY CopyOnWrite
