CONSTANTS
  NULL = NULL
  TaskMax = 2
  Debounce = 1
  ShortMax = 5
  LongMin = 7
  LongMax = 9
  SingleWait = 5
  SimpleModes = {TRUE, FALSE}
SPECIFICATION Spec
INVARIANT TypeOK
PROPERTIES PressWasNoLonger ReportsApart
