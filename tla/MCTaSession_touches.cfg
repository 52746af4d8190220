SPECIFICATION Spec
CONSTANTS
  Device = {dev1, dev2}
  DefaultDevice = dev2
  NoDevice = NoDevice
  ClientDevice = {NoDevice, dev1}
  Table = {reduce}
  BuiltIn = {reduce}
  ReduceParam = reduce
  Average = TRUE
  ReverseStep = 4
  ReverseSkip = 1
  EnrollNum = 1
  PostNum = 1
  PostCheck = FALSE
  MaxLent = 1
INVARIANTS
  TypeOK
  
  ConfigOwned
  SpiAgrees
PROPERTY BuffersKept
