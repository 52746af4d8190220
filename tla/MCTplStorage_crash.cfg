SPECIFICATION Spec
CONSTANTS
  Fid = {f1, f2, f3}
  Data = {d1, d2}
  NoFid = NoFid
  NoData = NoData
  Unknown = Unknown
  TPL_MAX_ST = 2
  MAX_LOAD_FAIL = 2
  MaxWriteErr = 0
  MaxRot = 0
  CleanCrash = FALSE
  IncFailUsed = FALSE
SYMMETRY Symmetry
INVARIANTS
  StoreInv
  LoadedSurvives
PROPERTIES
  ImageKept
  ImplementsDb
