CONSTANTS
  button = button
  wut = wut
  m1 = m1
  m2 = m2
  m3 = m3
  NoMsg = NoMsg
  QueueLen = 2
  Retrans = 2
  Isr = {button}
  Prio <- FlatPrio
  Msg = {m1, m2}
  Power = {0, 1}
  WaitTime = {0, 1}
  ConfirmModes = {TRUE}
  AppKeys = {TRUE}
  TxOutcomes = {"ok"}
SPECIFICATION Spec
CHECK_DEADLOCK FALSE
INVARIANT NotLost
