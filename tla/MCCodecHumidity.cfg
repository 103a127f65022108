SPECIFICATION Spec
CHECK_DEADLOCK FALSE
CONSTANTS
  GroupBits = 4
  WordBits = 10
  MoreTagBits = 6
  MaxKey = 3
  MaxVarint = 3
  Fixed64 = 2
  Fixed32 = 1
  IntBits = 5
  MaxBytes = 26
  KeySize = 3
  Tag <- SmallTags
  Configs <- SmallConfigs
  Capacities = {0, 9, 20, 31}
INVARIANT HumidityIsKept
