SPECIFICATION Spec
CONSTANTS
  k1 = k1
  k2 = k2
  Thread = {t1, t2}
  Nav = {n1}
  Code = {k1, k2}
  Raw = {k2}
  NoCode = NoCode
  DefaultCode <- BuiltInCode
  Room = 2
  Mixes <- TwoMixes
  MaxInit = 1
  MaxFault = 1
SYMMETRY Symmetry
INVARIANTS
  TypeOK
  LastWordStands
  
  InputWhileUsed
