SPECIFICATION Spec
CONSTANTS
  Dev = {d1, d2}
  Client = {c1, c2}
  NoDev = NoDev
  MaxInit = 1
  MaxFault = 1
INVARIANTS
  TypeOK
  MemoryWhileOpen
  ReportersSafe
  
  GivenBack
SYMMETRY Symmetry
CHECK_DEADLOCK FALSE
