SPECIFICATION FairSpec
CONSTANTS
  Thread = {t1, t2}
  Calls = {"init", "deinit", "reset", "enable", "disable", "hello"}
  Exclusive = {"init", "deinit"}
  MaxInit = 1
  MaxDone = 0
  MaxFault = 1
INVARIANTS
  TypeOK
  MaskAgrees
PROPERTY IrqReported
CHECK_DEADLOCK FALSE
