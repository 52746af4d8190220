SPECIFICATION PSpec
CONSTANTS
  Fid = {f1, f2, f3}
  Data = {d1, d2}
  NoFid = NoFid
  NoData = NoData
  Unknown = Unknown
  TPL_MAX_ST = 2
  MAX_LOAD_FAIL = 2
  MaxWriteErr = 1
  MaxRot = 0
  CleanCrash = TRUE
  IncFailUsed = FALSE
SYMMETRY Symmetry
INVARIANT
  PromiseKept
