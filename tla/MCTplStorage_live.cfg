SPECIFICATION FairSpec
CONSTANTS
  Fid = {f1, f2}
  Data = {d1}
  NoFid = NoFid
  NoData = NoData
  Unknown = Unknown
  TPL_MAX_ST = 1
  MAX_LOAD_FAIL = 2
  MaxWriteErr = 1
  MaxRot = 2
  CleanCrash = FALSE
  IncFailUsed = TRUE
INVARIANTS
  TypeOK
PROPERTIES
  CallReturns
  UnreadablePurged
