CONSTANTS
  Groups <- ThreeGroups
  Bad = Bad
  NoCrc = NoCrc
  MaxVersion = 2
SPECIFICATION Spec
INVARIANTS TypeOK StoredWhenQuiet
PROPERTY FlagsAreServed
