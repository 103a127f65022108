CONSTANTS
  button = button
  wut = wut
  m1 = m1
  m2 = m2
  m3 = m3
  NoMsg = NoMsg
  QueueLen = 2
  Retrans = 2
  Isr = {button, wut}
  Prio <- FlatPrio
  Msg = {m1, m2, m3}
  Power = {0, 1}
  WaitTime = {0, 1}
  ConfirmModes = {TRUE, FALSE}
  AppKeys = {TRUE}
  TxOutcomes = {"ok", "empty", "restricted", "failed"}
SPECIFICATION FairSpec
CHECK_DEADLOCK FALSE
INVARIANTS TypeOK RetransHeld AtMostRetrans NoSharedSlot
PROPERTIES RetransSame PowerRestored CantWriteOnceSet ImplementsOutbox Drains
