CONSTANTS
  Groups <- FourGroups
  Bad = Bad
  NoCrc = NoCrc
  MaxVersion = 0
  MaxSession = 2
  MaxUp = 2
  MaxNfc = 2
  MaxLosses = 1
SPECIFICATION SessionSpec
INVARIANTS SessionTypeOK SessionWhole SessionIsServers CounterUsedOnce InSync
