SPECIFICATION Spec
CONSTANTS
  Thread = {t1, t2}
  Calls = {"init", "deinit", "reset", "enable", "disable", "clr", "wait", "pwdn_none", "pwdn_poweroff", "pwdn_flash"}
  Exclusive = {"init", "deinit", "reset"}
  MaxInit = 2
  MaxDone = 1
  MaxFault = 1
SYMMETRY Symmetry
INVARIANTS
  MaskAsAsked
  PowerAgrees
  HeldWhileUsed
  ResetRaises

  
CHECK_DEADLOCK FALSE
