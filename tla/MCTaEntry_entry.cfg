SPECIFICATION Spec
CONSTANTS
  b1 = b1
  Scalar = {"w"}
  Value = {0, 1}
  Zero = 0
  Order <- TwoTables
  Width <- EntryWidth
  MaxRows = 2
  Header = 1
  Buffer = {b1}
  NoBuffer = NoBuffer
  FirstVal <- AllZero
  Unknown = "UNKNOWN"
  MaxFault = 1
INVARIANTS
  TypeOK
  Answered
  UpdateWhole
