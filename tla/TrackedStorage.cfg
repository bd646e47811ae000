SPECIFICATION Spec
CONSTANTS
  Key = {k1, k2, k3}
  Uniq = {u1, u2, u3}
  Size = {1, 2}
  MaxMemory = {0, 2, 4}
  Flushes = TRUE
  NoObj = NoObj
  NoFile = NoFile
SYMMETRY Symmetry
INVARIANTS
  SizeSound
  SavesWhole
PROPERTIES
  TrueMeansAll
