SPECIFICATION Spec
CONSTANTS
  Fid = {f1, f2, f3}
  Data = {d1}
  NoFid = NoFid
  NoData = NoData
  Unknown = Unknown
  TPL_MAX_ST = 2
  MAX_LOAD_FAIL = 2
  MaxWriteErr = 0
  MaxRot = 2
  CleanCrash = FALSE
  IncFailUsed = FALSE
SYMMETRY Symmetry
INVARIANTS
  FailedIsUnreadable
  RemovedStaysRemoved
PROPERTIES
  OthersKept
