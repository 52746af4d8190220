SPECIFICATION Spec
CONSTANTS
  Finger = {f1, f2}
  NoFinger = NoFinger
  Db = {u1, u2}
  DefaultDb = u1
  TPL_MAX_ST = 1
SYMMETRY Symmetry
INVARIANTS
  TypeOK
  DbsApart
  LoadedInTable
PROPERTY UpdatedMatched
