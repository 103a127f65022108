--------------------------- MODULE LrwQueueProofs ---------------------------
(***************************************************************************)
(* Proofs about LrwQueue, for every queue length, every number of          *)
(* retransmissions, every set of interrupt handlers and every priority     *)
(* among them.                                                             *)
(***************************************************************************)
EXTENDS LrwQueue, FiniteSetTheorems, TLAPS

USE QueueAssumption

(* Setting or clearing msg_type leaves the queue a queue.                  *)
LEMMA MsgTypeUpdate ==
  ASSUME NEW S, NEW M, NEW q \in [S -> [msg_type : BOOLEAN, msg : M]],
         NEW i \in S, NEW b \in BOOLEAN
  PROVE  [q EXCEPT ![i].msg_type = b] \in [S -> [msg_type : BOOLEAN, msg : M]]
<1>1. [q[i] EXCEPT !.msg_type = b] \in [msg_type : BOOLEAN, msg : M]
  BY Zenon
<1> QED
  BY <1>1

(* Type correctness: retrans_left never wraps below zero, retrans_index    *)
(* and the slots the main loop and the handlers work on are in the queue.  *)
LEMMA TypeInit == Init => TypeOK
<1> SUFFICES ASSUME Init PROVE TypeOK
  OBVIOUS
<1> USE DEF Init, TypeOK
<1>1. 0 \in Slot
  BY DEF Slot
<1>2. queue \in [Slot -> [msg_type : BOOLEAN, msg : Msg \cup {NoMsg}]]
  BY Zenon
<1>3. isr \in [Isr -> [pc : {"idle", "compose", "publish"}, slot : Slot,
                      msg : Msg \cup {NoMsg}]]
  BY <1>1
<1>4. mac \in [busy : BOOLEAN, confirmed : BOOLEAN]
  BY Zenon
<1>5. main \in [pc : {"top", "arm", "tx", "free", "busy"}, i : Slot]
  BY <1>1
<1>6. \A p \in Isr : isr[p].pc # "idle" => isr[p].msg \in Msg
  OBVIOUS
<1>7. retrans_txp_override \in BOOLEAN /\ confirmedMsgs \in BOOLEAN
      /\ joined \in BOOLEAN /\ appKey \in BOOLEAN
  BY Zenon
<1> QED
  BY <1>1, <1>2, <1>3, <1>4, <1>5, <1>6, <1>7

LEMMA TypeStep == TypeOK /\ [Next]_vars => TypeOK'
<1> SUFFICES ASSUME TypeOK, [Next]_vars PROVE TypeOK'
  OBVIOUS
<1> DEFINE Record == [msg_type : BOOLEAN, msg : Msg \cup {NoMsg}]
           Handler == [pc : {"idle", "compose", "publish"}, slot : Slot,
                       msg : Msg \cup {NoMsg}]
<1> USE DEF TypeOK, retransVars, cfgVars, radioVars, history
<1>1. ASSUME NEW p \in Isr, NEW m \in Msg, EnqueueToSend(p, m) PROVE TypeOK'
  <2>1. isr' \in [Isr -> Handler]
    <3>1. CASE UNCHANGED isr
      BY <3>1
    <3>2. ASSUME NEW i \in Slot,
                 isr' = [isr EXCEPT ![p] =
                           [pc |-> "compose", slot |-> i, msg |-> m]]
          PROVE  isr' \in [Isr -> Handler]
      BY <3>2
    <3> QED
      BY <1>1, <3>1, <3>2 DEF EnqueueToSend
  <2> QED
    BY <1>1, <2>1 DEF EnqueueToSend
<1>2. ASSUME NEW p \in Isr, ComposeMsg(p) PROVE TypeOK'
  <2>1. queue' \in [Slot -> Record]
    BY <1>2, SMTT(30) DEF ComposeMsg
  <2>2. isr' \in [Isr -> Handler]
    BY <1>2, SMTT(30) DEF ComposeMsg
  <2> QED
    BY <1>2, <2>1, <2>2 DEF ComposeMsg
<1>3. ASSUME NEW p \in Isr, PublishMsg(p) PROVE TypeOK'
  <2>1. queue' \in [Slot -> Record]
    <3>1. isr[p].slot \in Slot
      OBVIOUS
    <3> QED
      BY <1>3, <3>1, MsgTypeUpdate DEF PublishMsg
  <2>2. accepted' \subseteq Msg
    BY <1>3 DEF PublishMsg
  <2>3. isr' \in [Isr -> Handler]
    <3>1. [pc |-> "idle", slot |-> 0, msg |-> NoMsg] \in Handler
      BY QueueAssumption DEF Handler, Slot
    <3>2. isr' = [isr EXCEPT ![p] = [pc |-> "idle", slot |-> 0, msg |-> NoMsg]]
      BY <1>3 DEF PublishMsg
    <3> QED
      BY <3>1, <3>2
  <2> QED
    BY <1>3, <2>1, <2>2, <2>3 DEF PublishMsg
<1>4. CASE NfcConfirmedMsgs
  BY <1>4 DEF NfcConfirmedMsgs
<1>5. CASE LeaveNetwork \/ NfcLeaves
  BY <1>5 DEF LeaveNetwork, NfcLeaves
<1>6. CASE LRW_Join
  BY <1>6 DEF LRW_Join
<1>7. CASE SendRaisePower
  BY <1>7 DEF SendRaisePower, MaxPower
<1>8. CASE SendPick
  <2>1. main' \in [pc : {"top", "arm", "tx", "free", "busy"}, i : Slot]
    BY <1>8 DEF SendPick
  <2> QED
    BY <1>8, <2>1 DEF SendPick
<1>9. CASE SendArm
  BY <1>9 DEF SendArm
<1>10. ASSUME NEW outcome, LRW_TX(outcome) PROVE TypeOK'
  <2>1. mac' \in [busy : BOOLEAN, confirmed : BOOLEAN]
    <3>1. /\ [busy |-> TRUE, confirmed |-> confirmedMsgs]
               \in [busy : BOOLEAN, confirmed : BOOLEAN]
          /\ [busy |-> TRUE, confirmed |-> FALSE]
               \in [busy : BOOLEAN, confirmed : BOOLEAN]
      BY Zenon
    <3>2. \/ mac' = [busy |-> TRUE, confirmed |-> confirmedMsgs]
          \/ mac' = [busy |-> TRUE, confirmed |-> FALSE]
          \/ mac' = mac
      BY <1>10, Zenon DEF LRW_TX
    <3> QED
      BY <3>1, <3>2, Zenon
  <2>2. aired' \in [Msg -> Nat]
    <3>1. CASE aired' = [m \in Msg |-> aired[m] +
                           IF m = queue[main.i].msg THEN 1 ELSE 0]
      BY <3>1
    <3>2. CASE UNCHANGED aired
      BY <3>2
    <3> QED
      BY <1>10, <3>1, <3>2 DEF LRW_TX
  <2>3. DutyCycleWaitTime' \in WaitTime /\ txStatus' \in {"ok", "empty", "restricted", "failed"}
    BY <1>10 DEF LRW_TX
  <2>4. main' \in [pc : {"top", "arm", "tx", "free", "busy"}, i : Slot]
    BY <1>10 DEF LRW_TX
  <2> QED
    BY <1>10, <2>1, <2>2, <2>3, <2>4 DEF LRW_TX
<1>11. CASE SendFree
  <2>1. queue' \in [Slot -> Record]
    <3>1. main.i \in Slot
      OBVIOUS
    <3>2. (queue[main.i].msg_type /\ ~Frees) \in BOOLEAN
      BY Zenon
    <3>3. [queue EXCEPT ![main.i].msg_type = @ /\ ~Frees] \in [Slot -> Record]
      BY <3>1, <3>2, MsgTypeUpdate
    <3>4. \/ queue' = queue
          \/ queue' = [queue EXCEPT ![main.i].msg_type = @ /\ ~Frees]
      BY <1>11, Zenon DEF SendFree
    <3> QED
      BY <3>3, <3>4
  <2>2. retrans_left' \in 0 .. Retrans
    BY <1>11 DEF SendFree, Spent
  <2>3. main' \in [pc : {"top", "arm", "tx", "free", "busy"}, i : Slot]
    BY <1>11, QueueAssumption DEF SendFree, Slot
  <2> QED
    BY <1>11, <2>1, <2>2, <2>3 DEF SendFree
<1>12. CASE LinkAdrReq
  BY <1>12 DEF LinkAdrReq
<1>13. ASSUME NEW ack \in BOOLEAN, McpsConfirm(ack) PROVE TypeOK'
  <2>1. queue' \in [Slot -> Record]
    BY <1>13, MsgTypeUpdate DEF McpsConfirm
  <2>2. mac' \in [busy : BOOLEAN, confirmed : BOOLEAN]
    BY <1>13, Zenon DEF McpsConfirm
  <2>3. main' \in [pc : {"top", "arm", "tx", "free", "busy"}, i : Slot]
    BY <1>13 DEF McpsConfirm
  <2>4. retrans_left' \in 0 .. Retrans
    BY <1>13 DEF McpsConfirm
  <2>5. retrans_txp_override' \in BOOLEAN
    BY <1>13 DEF McpsConfirm
  <2>6. ChannelsTxPower' \in Power
    BY <1>13 DEF McpsConfirm
  <2> QED
    BY <1>13, <2>1, <2>2, <2>3, <2>4, <2>5, <2>6 DEF McpsConfirm
<1>14. CASE UNCHANGED vars
  BY <1>14 DEF vars
<1> QED
  BY <1>1, <1>2, <1>3, <1>4, <1>5, <1>6, <1>7, <1>8, <1>9, <1>10, <1>11,
     <1>12, <1>13, <1>14 DEF Next, Push, LRW_Send, MacAnswers

THEOREM TypeCorrect == Spec => []TypeOK
BY TypeInit, TypeStep, PTL DEF Spec

-----------------------------------------------------------------------------
(* The slots that LRW_Send and the interrupt handlers work on.             *)

LEMMA SlotInit == Init => SlotInv
BY DEF Init, SlotInv, RetransHeld, ResendsHeld, NoSharedSlot

(* An interrupt handler writes msg_type only to set it, and takes a slot   *)
(* that is free when it comes.                                             *)
LEMMA SlotPush ==
  ASSUME TypeOK, SlotInv, NEW p \in Isr, Push(p)
  PROVE  SlotInv'
<1> USE DEF TypeOK, SlotInv, RetransHeld, ResendsHeld, NoSharedSlot, Used,
            Active, retransVars, cfgVars, radioVars, history
<1>1. ASSUME NEW m \in Msg, EnqueueToSend(p, m) PROVE SlotInv'
  <2>1. UNCHANGED <<queue, retrans_left, retrans_index, main>>
    BY <1>1 DEF EnqueueToSend
  <2>2. \A q \in Isr : isr'[q] = isr[q] \/ isr'[q].slot \notin Used
    BY <1>1 DEF EnqueueToSend, FreeSlot, IsFirst
  <2> QED
    BY <2>1, <2>2
<1>2. CASE ComposeMsg(p)
  <2>1. UNCHANGED <<retrans_left, retrans_index, main>> /\ Used' = Used
    BY <1>2 DEF ComposeMsg
  <2>2. \A q \in Isr : q \in Active' => q \in Active /\ isr'[q].slot = isr[q].slot
    BY <1>2 DEF ComposeMsg
  <2>3. \A i \in Slot : queue'[i].msg_type = queue[i].msg_type
    BY <1>2 DEF ComposeMsg
  <2> QED
    BY <2>1, <2>2, <2>3
<1>3. CASE PublishMsg(p)
  <2>1. UNCHANGED <<retrans_left, retrans_index, main>>
    BY <1>3 DEF PublishMsg
  <2>2. \A q \in Isr : q \in Active' => q \in Active /\ isr'[q].slot = isr[q].slot
    BY <1>3 DEF PublishMsg
  <2>3. \A i \in Slot : queue[i].msg_type => queue'[i].msg_type
    BY <1>3 DEF PublishMsg
  <2> QED
    BY <2>1, <2>2, <2>3
<1> QED
  BY <1>1, <1>2, <1>3 DEF Push

LEMMA SlotStep == TypeOK /\ SlotInv /\ [Next]_vars => SlotInv'
<1> SUFFICES ASSUME TypeOK, SlotInv, [Next]_vars PROVE SlotInv'
  OBVIOUS
<1> USE DEF TypeOK, SlotInv, RetransHeld, ResendsHeld, NoSharedSlot, Used,
            Active, MainRuns, retransVars, cfgVars, radioVars, history
<1>1. ASSUME NEW p \in Isr, Push(p) PROVE SlotInv'
  BY <1>1, SlotPush
<1>2. CASE NfcConfirmedMsgs
  BY <1>2 DEF NfcConfirmedMsgs
<1>3. CASE LeaveNetwork \/ NfcLeaves
  BY <1>3 DEF LeaveNetwork, NfcLeaves
<1>4. CASE LRW_Join
  BY <1>4 DEF LRW_Join
<1>5. CASE SendRaisePower
  BY <1>5 DEF SendRaisePower
<1>6. CASE SendPick
  BY <1>6 DEF SendPick, MayCallSend, Picked, IsFirst
<1>7. CASE SendArm
  BY <1>7 DEF SendArm, Arms
<1>8. ASSUME NEW outcome, LRW_TX(outcome) PROVE SlotInv'
  BY <1>8 DEF LRW_TX
<1>9. CASE SendFree
  <2>1. CASE Restricted
    BY <1>9, <2>1 DEF SendFree
  <2>2. CASE ~Restricted
    <3>1. main'.pc \notin {"arm", "tx", "free"} /\ retrans_left' = Spent
          /\ UNCHANGED <<retrans_index, isr>>
      BY <1>9, <2>2 DEF SendFree
    <3>2. Spent # 0 => UNCHANGED queue
      BY <1>9, <2>2 DEF SendFree, Frees
    <3> QED
      BY <3>1, <3>2 DEF Spent
  <2> QED
    BY <2>1, <2>2
<1>10. CASE LinkAdrReq
  BY <1>10 DEF LinkAdrReq
<1>11. ASSUME NEW ack \in BOOLEAN, McpsConfirm(ack) PROVE SlotInv'
  BY <1>11 DEF McpsConfirm
<1>12. CASE UNCHANGED vars
  BY <1>12 DEF vars
<1> QED
  BY <1>1, <1>2, <1>3, <1>4, <1>5, <1>6, <1>7, <1>8, <1>9, <1>10, <1>11,
     <1>12 DEF Next, LRW_Send, MacAnswers

(* The locking rules of enqueueToSend hold without a lock, whatever the    *)
(* priorities: LRW_Send only works on a slot in use, and no interrupt      *)
(* handler is writing to that one.                                         *)
THEOREM NoSlotIsShared == Spec => []NoSharedSlot
<1>1. SlotInv => NoSharedSlot
  BY DEF SlotInv
<1> QED
  BY TypeInit, TypeStep, SlotInit, SlotStep, <1>1, PTL DEF Spec

(* While retransmissions are left, they are of one message, in one slot.   *)
THEOREM RetransmissionsAreOfOneMessage == Spec => RetransSame
<1> DEFINE Same ==
      retrans_left > 0 /\ retrans_left' > 0 =>
        /\ retrans_index' = retrans_index
        /\ queue'[retrans_index] = queue[retrans_index]
        /\ (aired' # aired => main.i = retrans_index)
<1>1. TypeOK /\ SlotInv /\ [Next]_vars => Same
  <2> SUFFICES ASSUME TypeOK, SlotInv, [Next]_vars,
                      retrans_left > 0, retrans_left' > 0
               PROVE  /\ retrans_index' = retrans_index
                      /\ queue'[retrans_index] = queue[retrans_index]
                      /\ (aired' # aired => main.i = retrans_index)
    OBVIOUS
  <2> USE DEF TypeOK, SlotInv, RetransHeld, ResendsHeld, NoSharedSlot, Used,
              Active, MainRuns, retransVars, cfgVars, radioVars, history
  <2>1. ASSUME NEW p \in Isr, Push(p)
        PROVE  /\ UNCHANGED <<retrans_index, aired>>
               /\ queue'[retrans_index] = queue[retrans_index]
    <3>1. CASE \E m \in Msg : EnqueueToSend(p, m)
      BY <3>1 DEF EnqueueToSend
    <3>2. CASE ComposeMsg(p)
      BY <3>2 DEF ComposeMsg
    <3>3. CASE PublishMsg(p)
      BY <3>3 DEF PublishMsg
    <3> QED
      BY <2>1, <3>1, <3>2, <3>3 DEF Push
  <2>2. CASE NfcConfirmedMsgs \/ LeaveNetwork \/ NfcLeaves \/ LRW_Join \/ LinkAdrReq
    BY <2>2 DEF NfcConfirmedMsgs, LeaveNetwork, NfcLeaves, LRW_Join, LinkAdrReq
  <2>3. CASE SendRaisePower \/ SendPick \/ SendArm
    BY <2>3 DEF SendRaisePower, SendPick, SendArm, Arms
  <2>4. ASSUME NEW outcome, LRW_TX(outcome)
        PROVE  UNCHANGED <<retrans_index, queue>> /\ main.i = retrans_index
    BY <2>4 DEF LRW_TX
  <2>5. CASE SendFree
    <3>1. UNCHANGED <<retrans_index, aired>>
      BY <2>5 DEF SendFree
    <3>2. CASE Restricted
      BY <2>5, <3>1, <3>2 DEF SendFree
    <3>3. CASE ~Restricted
      <4>1. ~Frees
        BY <2>5, <3>3 DEF SendFree, Frees
      <4>2. queue' = [queue EXCEPT ![main.i].msg_type = @ /\ ~Frees]
        BY <2>5, <3>3, Zenon DEF SendFree
      <4>3. main.i = retrans_index /\ queue[main.i].msg_type
        BY <2>5 DEF SendFree
      <4> QED
        BY <3>1, <4>1, <4>2, <4>3
    <3> QED
      BY <3>2, <3>3
  <2>6. ASSUME NEW ack \in BOOLEAN, McpsConfirm(ack)
        PROVE  /\ UNCHANGED <<retrans_index, aired>>
               /\ queue'[retrans_index] = queue[retrans_index]
    <3>1. ~ack
      BY <2>6 DEF McpsConfirm
    <3> QED
      BY <2>6, <3>1 DEF McpsConfirm
  <2>7. CASE UNCHANGED vars
    BY <2>7 DEF vars
  <2> QED
    BY <2>1, <2>2, <2>3, <2>4, <2>5, <2>6, <2>7
       DEF Next, LRW_Send, MacAnswers
<1>2. TypeOK /\ SlotInv /\ [Next]_vars
        => [retrans_left > 0 /\ retrans_left' > 0 =>
              /\ retrans_index' = retrans_index
              /\ queue'[retrans_index] = queue[retrans_index]
              /\ (aired' # aired => main.i = retrans_index)]_vars
  BY <1>1
<1> QED
  BY TypeInit, TypeStep, SlotInit, SlotStep, <1>2, PTL DEF Spec, RetransSame

(* retrans_index names a slot in use as long as retransmissions are left.  *)
THEOREM RetransmissionsAreHeld == Spec => []RetransHeld
<1>1. SlotInv => RetransHeld
  BY DEF SlotInv
<1> QED
  BY TypeInit, TypeStep, SlotInit, SlotStep, <1>1, PTL DEF Spec

-----------------------------------------------------------------------------
(* How often a message is on air.  A message is in one place: not pushed   *)
(* yet, with one handler, or in one slot.                                  *)

FreshInv ==
  \A m \in fresh : aired[m] = 0 /\ \A i \in Slot : queue[i].msg # m

ActiveInv ==
  \A p \in Active :
    /\ isr[p].msg \notin fresh /\ aired[isr[p].msg] = 0
    /\ \A q \in Active \ {p} : isr[q].msg # isr[p].msg
    /\ isr[p].pc = "compose" => \A i \in Slot : queue[i].msg # isr[p].msg
    /\ isr[p].pc = "publish" =>
         \A m \in Msg : queue[isr[p].slot].msg = m => aired[m] = 0

Distinct ==
  \A i, j \in Slot : queue[i].msg = queue[j].msg => i = j \/ queue[i].msg = NoMsg

(* A queued message has not been on air, but for the one that is held: its *)
(* times on air and those left are bounded together.  In between is the    *)
(* moment after LRW_TX, when one more is about to be used up.              *)
Sent(i) == main.pc = "free" /\ main.i = i /\ ~Restricted

CountInv ==
  \A i \in Used : \A m \in Msg : queue[i].msg = m =>
    /\ retrans_left > 0 /\ i = retrans_index =>
         /\ aired[m] + retrans_left <= Retrans + 1
         /\ ~Sent(i) => aired[m] + retrans_left <= Retrans
    /\ ~(retrans_left > 0 /\ i = retrans_index) /\ ~Sent(i) => aired[m] = 0

TimesInv == FreshInv /\ ActiveInv /\ Distinct /\ CountInv /\ AtMostRetrans

LEMMA TimesInit == Init => TimesInv
<1> USE DEF Init, TimesInv, FreshInv, ActiveInv, Distinct, CountInv, AtMostRetrans,
            Active, Used
<1> QED
  OBVIOUS

LEMMA TimesPush ==
  ASSUME TypeOK, SlotInv, TimesInv, NEW p \in Isr, Push(p)
  PROVE  TimesInv'
<1> USE DEF TypeOK, TimesInv, AtMostRetrans, Used, Active, Sent, Restricted,
            retransVars, cfgVars, radioVars, history
<1>1. ASSUME NEW n \in Msg, EnqueueToSend(p, n) PROVE TimesInv'
  <2>1. UNCHANGED <<queue, retrans_left, retrans_index, main, aired, DutyCycleWaitTime>>
        /\ fresh' = fresh \ {n} /\ n \in fresh
    BY <1>1 DEF EnqueueToSend
  <2>2. \A q \in Isr : q # p => isr'[q] = isr[q]
    BY <1>1 DEF EnqueueToSend
  <2>3. p \notin Active
        /\ (isr' = isr \/ (isr'[p].pc = "compose" /\ isr'[p].msg = n))
    BY <1>1 DEF EnqueueToSend
  <2>4. FreshInv' /\ Distinct' /\ CountInv' /\ AtMostRetrans'
    BY <2>1 DEF FreshInv, Distinct, CountInv
  <2>5. ActiveInv'
    BY <2>1, <2>2, <2>3, SMTT(30) DEF FreshInv, ActiveInv
  <2> QED
    BY <2>4, <2>5
<1>2. CASE ComposeMsg(p)
  <2>1. UNCHANGED <<retrans_left, retrans_index, main, aired, fresh, DutyCycleWaitTime>>
        /\ isr[p].pc = "compose" /\ p \in Active
    BY <1>2 DEF ComposeMsg
  <2>2. isr' = [isr EXCEPT ![p].pc = "publish"]
        /\ queue' = [queue EXCEPT ![isr[p].slot].msg = isr[p].msg]
    BY <1>2, Zenon DEF ComposeMsg
  <2>3. /\ \A i \in Slot : queue'[i].msg_type = queue[i].msg_type
        /\ \A i \in Slot \ {isr[p].slot} : queue'[i].msg = queue[i].msg
        /\ queue'[isr[p].slot].msg = isr[p].msg
    BY <2>2
  <2>4. /\ Active' = Active
        /\ \A q \in Isr : isr'[q].slot = isr[q].slot /\ isr'[q].msg = isr[q].msg
        /\ \A q \in Isr \ {p} : isr'[q].pc = isr[q].pc
        /\ isr'[p].pc = "publish"
    BY <2>1, <2>2
  <2>5. FreshInv' /\ Distinct' /\ AtMostRetrans'
    <3>1. FreshInv' /\ AtMostRetrans'
      BY <2>1, <2>3 DEF FreshInv, ActiveInv
    <3>2. \A i \in Slot : queue[i].msg # isr[p].msg
      BY <2>1 DEF ActiveInv
    <3>3. Distinct'
      BY <2>1, <2>3, <3>2 DEF Distinct
    <3> QED
      BY <3>1, <3>3
  <2>6. ActiveInv'
    BY <2>1, <2>3, <2>4 DEF ActiveInv
  <2>7. CountInv'
    BY <2>1, <2>3 DEF CountInv, ActiveInv, SlotInv, RetransHeld
  <2> QED
    BY <2>5, <2>6, <2>7
<1>3. CASE PublishMsg(p)
  <2>1. UNCHANGED <<retrans_left, retrans_index, main, aired, fresh, DutyCycleWaitTime>>
        /\ isr[p].pc = "publish" /\ p \in Active
    BY <1>3 DEF PublishMsg
  <2>2. isr' = [isr EXCEPT ![p] = [pc |-> "idle", slot |-> 0, msg |-> NoMsg]]
        /\ queue' = [queue EXCEPT ![isr[p].slot].msg_type = TRUE]
    BY <1>3, Zenon DEF PublishMsg
  <2>3. /\ \A i \in Slot : queue'[i].msg = queue[i].msg
        /\ Used' = Used \cup {isr[p].slot}
    BY <2>2
  <2>4. /\ Active' = Active \ {p}
        /\ \A q \in Active' : isr'[q] = isr[q]
    BY <2>1, <2>2
  <2>5. FreshInv' /\ Distinct' /\ AtMostRetrans'
    BY <2>1, <2>3 DEF FreshInv, Distinct
  <2>6. ActiveInv'
    BY <2>1, <2>3, <2>4 DEF ActiveInv
  <2>7. CountInv'
    BY <2>1, <2>3 DEF CountInv, ActiveInv, SlotInv, RetransHeld
  <2> QED
    BY <2>5, <2>6, <2>7
<1> QED
  BY <1>1, <1>2, <1>3 DEF Push

(* LRW_TX airs the message of a slot in use, which is the held one or has  *)
(* not been on air.                                                        *)
LEMMA TimesTx ==
  ASSUME TypeOK, SlotInv, TimesInv, NEW outcome, LRW_TX(outcome)
  PROVE  TimesInv'
<1> USE DEF TypeOK, TimesInv, AtMostRetrans, Used, Active
<1>1. UNCHANGED <<queue, retrans_left, retrans_index, isr, fresh>>
      /\ Active = {} /\ main.pc = "tx" /\ main' = [main EXCEPT !.pc = "free"]
  BY DEF LRW_TX, MainRuns, retransVars
<1>2. main.i \in Used /\ (retrans_left > 0 => main.i = retrans_index) /\ main'.i = main.i
      /\ main'.pc = "free"
  BY <1>1 DEF SlotInv, NoSharedSlot, ResendsHeld
<1>3. CASE outcome = "ok"
  <2>1. aired' = [m \in Msg |-> aired[m] + IF m = queue[main.i].msg THEN 1 ELSE 0]
        /\ DutyCycleWaitTime' = 0
    BY <1>3 DEF LRW_TX
  <2>2. \A m \in Msg : m # queue[main.i].msg => aired'[m] = aired[m]
    BY <2>1
  <2>3. \A m \in Msg : m = queue[main.i].msg => aired'[m] = aired[m] + 1
    BY <2>1
  <2>4. Sent(main.i)' /\ ~Sent(main.i)
    BY <1>1, <1>2, <2>1 DEF Sent, Restricted
  <2>5. \A m \in Msg : m = queue[main.i].msg => aired[m] + 1 <= Retrans
    BY <1>2, <2>4 DEF CountInv
  <2>6. FreshInv' /\ Distinct' /\ ActiveInv'
    BY <1>1, <1>2, <2>2 DEF FreshInv, Distinct, ActiveInv
  <2>7. AtMostRetrans'
    BY <2>2, <2>3, <2>5
  <2>8. CountInv'
    BY <1>1, <1>2, <2>2, <2>3, <2>4 DEF CountInv, Distinct, Sent
  <2> QED
    BY <2>6, <2>7, <2>8
<1>4. CASE outcome # "ok"
  <2>1. aired' = aired
    BY <1>4 DEF LRW_TX
  <2> QED
    BY <1>1, <2>1 DEF FreshInv, ActiveInv, Distinct, CountInv, Sent
<1> QED
  BY <1>3, <1>4

(* What SendFree and McpsConfirm do to the slots.                          *)
LEMMA FreedSlots ==
  ASSUME TypeOK, SendFree, ~Restricted
  PROVE  /\ \A i \in Slot : queue'[i].msg = queue[i].msg
         /\ \A i \in Slot : i # main.i => queue'[i].msg_type = queue[i].msg_type
         /\ queue'[main.i].msg_type => queue[main.i].msg_type /\ ~Frees
<1>1. queue \in [Slot -> [msg_type : BOOLEAN, msg : Msg \cup {NoMsg}]] /\ main.i \in Slot
  BY DEF TypeOK
<1>2. queue' = [queue EXCEPT ![main.i].msg_type = @ /\ ~Frees]
  BY Zenon DEF SendFree
<1>3. /\ queue'[main.i] = [queue[main.i] EXCEPT !.msg_type = @ /\ ~Frees]
      /\ \A i \in Slot : i # main.i => queue'[i] = queue[i]
  BY <1>1, <1>2, Zenon
<1>4. queue'[main.i].msg = queue[main.i].msg
  BY <1>1, <1>3
<1>5. queue'[main.i].msg_type => queue[main.i].msg_type /\ ~Frees
  <2>1. queue[main.i] \in [msg_type : BOOLEAN, msg : Msg \cup {NoMsg}]
    BY <1>1
  <2> QED
    BY <2>1, <1>3, Zenon
<1> QED
  BY <1>3, <1>4, <1>5, Zenon

LEMMA AckedSlots ==
  ASSUME TypeOK, NEW ack \in BOOLEAN, McpsConfirm(ack)
  PROVE  /\ \A i \in Slot : queue'[i].msg = queue[i].msg
         /\ \A i \in Slot : i # retrans_index => queue'[i].msg_type = queue[i].msg_type
         /\ queue'[retrans_index].msg_type => queue[retrans_index].msg_type /\ ~ack
<1>1. queue \in [Slot -> [msg_type : BOOLEAN, msg : Msg \cup {NoMsg}]] /\ retrans_index \in Slot
  BY DEF TypeOK
<1>2. queue' = [queue EXCEPT ![retrans_index].msg_type = @ /\ ~ack]
  BY Zenon DEF McpsConfirm
<1>3. /\ queue'[retrans_index] = [queue[retrans_index] EXCEPT !.msg_type = @ /\ ~ack]
      /\ \A i \in Slot : i # retrans_index => queue'[i] = queue[i]
  BY <1>1, <1>2, Zenon
<1>4. queue'[retrans_index].msg = queue[retrans_index].msg
  BY <1>1, <1>3
<1>5. queue'[retrans_index].msg_type => queue[retrans_index].msg_type /\ ~ack
  BY <1>1, <1>3, Zenon
<1> QED
  BY <1>3, <1>4, <1>5, Zenon

LEMMA TimesFree ==
  ASSUME TypeOK, SlotInv, TimesInv, SendFree
  PROVE  TimesInv'
<1> USE DEF TypeOK, TimesInv, AtMostRetrans, Used, Active
<1>1. UNCHANGED <<retrans_index, isr, fresh, aired, DutyCycleWaitTime>>
      /\ main.pc = "free" /\ main'.pc \in {"busy", "top"}
  BY DEF SendFree, radioVars, history
<1>2. \A i \in Slot : ~Sent(i)'
  BY <1>1 DEF Sent
<1>3. retrans_left > 0 => main.i = retrans_index
  BY <1>1 DEF SlotInv, ResendsHeld
<1>4. CASE Restricted
  <2>1. UNCHANGED <<queue, retrans_left>>
    BY <1>4 DEF SendFree
  <2>2. \A i \in Slot : ~Sent(i)
    BY <1>4 DEF Sent
  <2> QED
    BY <1>1, <1>2, <2>1, <2>2 DEF FreshInv, ActiveInv, Distinct, CountInv
<1>5. CASE ~Restricted
  <2>1. retrans_left' = Spent
        /\ queue' = [queue EXCEPT ![main.i].msg_type = @ /\ ~Frees]
    BY <1>5, Zenon DEF SendFree
  <2>2. /\ \A i \in Slot : queue'[i].msg = queue[i].msg
        /\ \A i \in Slot : i # main.i => queue'[i].msg_type = queue[i].msg_type
        /\ queue'[main.i].msg_type => queue[main.i].msg_type /\ ~Frees
    BY <1>5, FreedSlots, Zenon
  <2>3. FreshInv' /\ ActiveInv' /\ Distinct' /\ AtMostRetrans'
    BY <1>1, <2>2 DEF FreshInv, ActiveInv, Distinct
  <2>4. \A i \in Slot : i # main.i => ~Sent(i)
    BY DEF Sent
  <2>5. CountInv'
    BY <1>1, <1>2, <1>3, <2>1, <2>2, <2>4 DEF CountInv, Spent, Frees
  <2> QED
    BY <2>3, <2>5
<1> QED
  BY <1>4, <1>5

LEMMA TimesStep == TypeOK /\ SlotInv /\ TimesInv /\ [Next]_vars => TimesInv'
<1> SUFFICES ASSUME TypeOK, SlotInv, TimesInv, [Next]_vars PROVE TimesInv'
  OBVIOUS
<1> DEFINE Same == UNCHANGED <<queue, isr, fresh, aired>>
<1> USE DEF TypeOK, TimesInv, AtMostRetrans, Used, Active, retransVars, cfgVars,
            radioVars, history
<1>1. ASSUME NEW p \in Isr, Push(p) PROVE TimesInv'
  BY <1>1, TimesPush
<1>2. ASSUME Same, UNCHANGED <<retrans_left, retrans_index>>,
             main.pc # "free" \/ UNCHANGED <<main, DutyCycleWaitTime>>
      PROVE  TimesInv'
  BY <1>2 DEF FreshInv, ActiveInv, Distinct, CountInv, Sent, Restricted
<1>3. CASE NfcConfirmedMsgs \/ LeaveNetwork \/ NfcLeaves \/ LinkAdrReq \/ UNCHANGED vars
  BY <1>2, <1>3 DEF NfcConfirmedMsgs, LeaveNetwork, NfcLeaves, LinkAdrReq, vars
<1>4. CASE LRW_Join \/ SendRaisePower \/ SendPick
  BY <1>2, <1>4 DEF LRW_Join, SendRaisePower, SendPick, MayCallSend
<1>5. CASE SendArm
  <2>1. CASE Arms
    <3>1. Same /\ retrans_left = 0 /\ retrans_left' = Retrans /\ retrans_index' = main.i
          /\ main.pc = "arm" /\ main'.pc = "tx"
      BY <1>5, <2>1 DEF SendArm, Arms
    <3> QED
      BY <3>1 DEF FreshInv, ActiveInv, Distinct, CountInv, Sent
  <2>2. CASE ~Arms
    BY <1>2, <1>5, <2>2 DEF SendArm
  <2> QED
    BY <2>1, <2>2
<1>6. ASSUME NEW outcome, LRW_TX(outcome) PROVE TimesInv'
  BY <1>6, TimesTx
<1>7. CASE SendFree
  BY <1>7, TimesFree
<1>8. ASSUME NEW ack \in BOOLEAN, McpsConfirm(ack) PROVE TimesInv'
  <2>1. UNCHANGED <<isr, fresh, aired, retrans_index>> /\ main.pc = "busy" /\ main'.pc = "top"
        /\ retrans_left' = (IF ack THEN 0 ELSE retrans_left)
    BY <1>8 DEF McpsConfirm
  <2>2. queue' = [queue EXCEPT ![retrans_index].msg_type = @ /\ ~ack]
    BY <1>8, Zenon DEF McpsConfirm
  <2>3. /\ \A i \in Slot : queue'[i].msg = queue[i].msg
        /\ \A i \in Slot : i # retrans_index => queue'[i].msg_type = queue[i].msg_type
        /\ queue'[retrans_index].msg_type => queue[retrans_index].msg_type /\ ~ack
    BY <1>8, AckedSlots, Zenon
  <2>4. FreshInv' /\ ActiveInv' /\ Distinct' /\ AtMostRetrans'
    BY <2>1, <2>3 DEF FreshInv, ActiveInv, Distinct
  <2>5. CountInv'
    BY <2>1, <2>3 DEF CountInv, Sent
  <2> QED
    BY <2>4, <2>5
<1> QED
  BY <1>1, <1>3, <1>4, <1>5, <1>6, <1>7, <1>8 DEF Next, LRW_Send, MacAnswers

(* No message is on air more often than its retransmissions allow,         *)
(* whatever is refused, switched or lost meanwhile (lrw.c:1086-1121).      *)
THEOREM AirtimeIsBounded == Spec => []AtMostRetrans
<1>1. TimesInv => AtMostRetrans
  BY DEF TimesInv
<1> QED
  BY TypeInit, TypeStep, SlotInit, SlotStep, TimesInit, TimesStep, <1>1, PTL DEF Spec

-----------------------------------------------------------------------------
(* What LRW_TX left for the end of LRW_Send: a frame that the MAC took is  *)
(* one that it is busy with, and a refusal leaves a time to wait.          *)
TxInv ==
  main.pc = "free" =>
    /\ txStatus \in {"ok", "empty"} => mac.busy
    /\ txStatus = "restricted" => Restricted

LEMMA TxStep ==
  ASSUME TypeOK, TxInv, [Next]_vars PROVE TxInv'
<1> USE DEF TypeOK, TxInv, Restricted, retransVars, cfgVars, radioVars, history
<1>1. CASE \E p \in Isr : Push(p)
  BY <1>1 DEF Push, EnqueueToSend, ComposeMsg, PublishMsg
<1>2. CASE NfcConfirmedMsgs \/ LeaveNetwork \/ NfcLeaves \/ LRW_Join \/ LinkAdrReq
  BY <1>2 DEF NfcConfirmedMsgs, LeaveNetwork, NfcLeaves, LRW_Join, LinkAdrReq
<1>3. CASE SendRaisePower \/ SendPick \/ SendArm
  BY <1>3 DEF SendRaisePower, SendPick, SendArm, MayCallSend
<1>4. ASSUME NEW outcome, LRW_TX(outcome) PROVE TxInv'
  BY <1>4 DEF LRW_TX
<1>5. CASE SendFree
  BY <1>5 DEF SendFree
<1>6. ASSUME NEW ack \in BOOLEAN, McpsConfirm(ack) PROVE TxInv'
  BY <1>6 DEF McpsConfirm
<1>7. CASE UNCHANGED vars
  BY <1>7 DEF vars
<1> QED
  BY <1>1, <1>2, <1>3, <1>4, <1>5, <1>6, <1>7 DEF Next, LRW_Send, MacAnswers

LEMMA PowerStep ==
  ASSUME TypeOK, TxInv, [Next]_vars, ~StuckAtMaxPower, StuckAtMaxPower'
  PROVE  txStatus = "failed"
<1> USE DEF TypeOK, StuckAtMaxPower, retransVars, cfgVars, radioVars, history
<1>1. CASE \E p \in Isr : Push(p)
  BY <1>1 DEF Push, EnqueueToSend, ComposeMsg, PublishMsg
<1>2. CASE NfcConfirmedMsgs \/ LeaveNetwork \/ NfcLeaves \/ LRW_Join \/ LinkAdrReq
  BY <1>2 DEF NfcConfirmedMsgs, LeaveNetwork, NfcLeaves, LRW_Join, LinkAdrReq
<1>3. CASE SendRaisePower \/ SendPick
  <2>1. UNCHANGED <<mac, retrans_left>>
    BY <1>3 DEF SendRaisePower, SendPick
  <2>2. retrans_txp_override' = retrans_txp_override \/ retrans_left > 0
    BY <1>3, Zenon DEF SendRaisePower, SendPick, AssertsMaxPower
  <2>3. ~retrans_left > 0
    BY <2>1
  <2> QED
    BY <2>1, <2>2, <2>3
<1>4. CASE SendArm
  BY <1>4 DEF SendArm, Arms
<1>5. ASSUME NEW outcome, LRW_TX(outcome) PROVE FALSE
  BY <1>5 DEF LRW_TX
<1>6. CASE SendFree
  <2>1. UNCHANGED <<mac, retrans_txp_override>> /\ main.pc = "free"
    BY <1>6 DEF SendFree
  <2>2. ~mac.busy /\ retrans_left # 0
    BY <2>1
  <2>3. ~Restricted
    BY <1>6, <2>2 DEF SendFree
  <2> QED
    BY <2>1, <2>2, <2>3 DEF TxInv
<1>7. ASSUME NEW ack \in BOOLEAN, McpsConfirm(ack) PROVE FALSE
  <2> DEFINE left == IF ack THEN 0 ELSE retrans_left
  <2>1. retrans_left' = left
        /\ retrans_txp_override' = (retrans_txp_override /\ ~Restores(left, ack))
    BY <1>7, Zenon DEF McpsConfirm
  <2>2. left = 0 /\ (retrans_txp_override /\ ~Restores(left, ack))
    BY <2>1, Zenon
  <2> QED
    BY <2>2 DEF Restores
<1>8. CASE UNCHANGED vars
  BY <1>8 DEF vars
<1> QED
  BY <1>1, <1>2, <1>3, <1>4, <1>5, <1>6, <1>7, <1>8 DEF Next, LRW_Send, MacAnswers

(* The MAC is left at full power with nothing to retransmit only by a      *)
(* request that failed: an exchange that ended and a refusal for the duty  *)
(* cycle never lead there (lrw.c:695-709).                                 *)
THEOREM PowerIsRestored == Spec => PowerRestored
<1>1. Init => TxInv
  BY DEF Init, TxInv
<1>2. TypeOK /\ TxInv /\ [Next]_vars => TxInv'
  BY TxStep
<1>3. TypeOK /\ TxInv /\ [Next]_vars
        => [~StuckAtMaxPower /\ StuckAtMaxPower' => txStatus = "failed"]_vars
  BY PowerStep
<1> QED
  BY TypeInit, TypeStep, <1>1, <1>2, <1>3, PTL DEF Spec, PowerRestored

-----------------------------------------------------------------------------
(* Handlers of one priority, as in the simple-gesture STA build: one at    *)
(* most is active, its slot is not in use, and holds what it composed.     *)

OnePriority == \A p, q \in Isr : Prio[p] = Prio[q]

FlatInv ==
  /\ \A p, q \in Active : p = q
  /\ \A p \in Active :
       /\ isr[p].slot \notin Used
       /\ isr[p].pc = "publish" => queue[isr[p].slot].msg = isr[p].msg
  /\ \A i \in Used : queue[i].msg \in Msg

(* Flat priorities: an interrupt handler that runs is the only one.        *)
LEMMA RunsAlone ==
  ASSUME OnePriority, TypeOK, NEW p \in Isr, MayRun(p)
  PROVE  Active \subseteq {p}
BY DEF MayRun, Active, OnePriority

LEMMA FlatPush ==
  ASSUME OnePriority, TypeOK, FlatInv, NEW p \in Isr, Push(p)
  PROVE  FlatInv'
<1> USE DEF TypeOK, Used, retransVars, cfgVars, radioVars, history
<1>1. ASSUME NEW m \in Msg, EnqueueToSend(p, m) PROVE FlatInv'
  <2>1. queue' = queue /\ Used' = Used /\ Active = {}
    BY <1>1, RunsAlone DEF EnqueueToSend
  <2>2. CASE isr' = isr
    BY <2>1, <2>2 DEF FlatInv, Active
  <2>3. ASSUME NEW i \in Slot, FreeSlot(i),
               isr' = [isr EXCEPT ![p] = [pc |-> "compose", slot |-> i, msg |-> m]]
        PROVE  FlatInv'
    <3>1. Active' = {p} /\ isr'[p].pc = "compose" /\ isr'[p].slot \notin Used
      BY <2>1, <2>3 DEF Active, FreeSlot, IsFirst
    <3> QED
      BY <2>1, <3>1 DEF FlatInv
  <2> QED
    BY <1>1, <2>2, <2>3 DEF EnqueueToSend
<1>2. CASE ComposeMsg(p)
  <2>1. Active = {p} /\ isr[p].slot \notin Used
    BY <1>2, RunsAlone DEF ComposeMsg, FlatInv, Active
  <2>2. /\ isr' = [isr EXCEPT ![p].pc = "publish"]
        /\ queue' = [queue EXCEPT ![isr[p].slot].msg = isr[p].msg]
    BY <1>2, Zenon DEF ComposeMsg
  <2>3. Active' = {p} /\ isr'[p].slot = isr[p].slot /\ isr'[p].msg = isr[p].msg
    BY <2>1, <2>2 DEF Active
  <2>4. Used' = Used /\ queue'[isr[p].slot].msg = isr[p].msg
        /\ \A i \in Used : queue'[i] = queue[i]
    BY <2>1, <2>2
  <2> QED
    BY <2>1, <2>3, <2>4 DEF FlatInv
<1>3. CASE PublishMsg(p)
  <2>1. Active = {p} /\ queue[isr[p].slot].msg = isr[p].msg /\ isr[p].msg \in Msg
    BY <1>3, RunsAlone DEF PublishMsg, FlatInv, Active
  <2>2. /\ isr' = [isr EXCEPT ![p] = [pc |-> "idle", slot |-> 0, msg |-> NoMsg]]
        /\ queue' = [queue EXCEPT ![isr[p].slot].msg_type = TRUE]
    BY <1>3, Zenon DEF PublishMsg
  <2>3. Active' = {}
    BY <2>1, <2>2 DEF Active
  <2>4. Used' = Used \cup {isr[p].slot} /\ \A i \in Slot : queue'[i].msg = queue[i].msg
    BY <2>2
  <2> QED
    BY <2>1, <2>3, <2>4 DEF FlatInv
<1> QED
  BY <1>1, <1>2, <1>3 DEF Push

(* The main loop never writes a message, and frees slots only.             *)
LEMMA MainSlots ==
  ASSUME TypeOK, [Next]_vars, ~(\E p \in Isr : Push(p))
  PROVE  /\ isr' = isr
         /\ \A i \in Slot : queue'[i].msg = queue[i].msg
         /\ Used' \subseteq Used
<1> USE DEF TypeOK, Used, retransVars, cfgVars, radioVars, history
<1>1. CASE UNCHANGED <<queue, isr>>
  BY <1>1
<1>2. CASE SendFree
  <2>1. CASE Restricted
    BY <1>2, <2>1 DEF SendFree
  <2>2. CASE ~Restricted
    BY <1>2, <2>2, FreedSlots DEF SendFree
  <2> QED
    BY <2>1, <2>2
<1>3. ASSUME NEW ack \in BOOLEAN, McpsConfirm(ack)
      PROVE  /\ isr' = isr
             /\ \A i \in Slot : queue'[i].msg = queue[i].msg
             /\ Used' \subseteq Used
  BY <1>3, AckedSlots DEF McpsConfirm
<1>4. CASE NfcConfirmedMsgs \/ LeaveNetwork \/ NfcLeaves \/ LRW_Join \/ LinkAdrReq \/ UNCHANGED vars
  BY <1>1, <1>4 DEF NfcConfirmedMsgs, LeaveNetwork, NfcLeaves, LRW_Join, LinkAdrReq, vars
<1>5. CASE SendRaisePower \/ SendPick \/ SendArm
  BY <1>1, <1>5 DEF SendRaisePower, SendPick, SendArm
<1>6. ASSUME NEW outcome, LRW_TX(outcome) PROVE UNCHANGED <<queue, isr>>
  BY <1>6 DEF LRW_TX
<1> QED
  BY <1>1, <1>2, <1>3, <1>4, <1>5, <1>6 DEF Next, LRW_Send, MacAnswers

LEMMA FlatInit == Init => FlatInv
BY DEF Init, FlatInv, Active, Used

LEMMA FlatStep ==
  ASSUME OnePriority, TypeOK, FlatInv, [Next]_vars
  PROVE  FlatInv'
<1>1. CASE \E p \in Isr : Push(p)
  BY <1>1, FlatPush
<1>2. CASE ~(\E p \in Isr : Push(p))
  <2>1. /\ isr' = isr
        /\ \A i \in Slot : queue'[i].msg = queue[i].msg
        /\ Used' \subseteq Used
    BY <1>2, MainSlots
  <2>2. Active' = Active /\ Used \subseteq Slot /\ \A p \in Active : isr[p].slot \in Slot
    BY <2>1 DEF Active, Used, TypeOK
  <2> QED
    BY <2>1, <2>2 DEF FlatInv
<1> QED
  BY <1>1, <1>2

LEMMA OnceSetStep ==
  ASSUME OnePriority, TypeOK, FlatInv, [Next]_vars
  PROVE  \A i \in Used : i \in Used' => queue'[i].msg = queue[i].msg
<1>1. ASSUME NEW p \in Isr, Push(p)
      PROVE  \A i \in Used : queue'[i].msg = queue[i].msg
  <2> USE DEF TypeOK, Used, retransVars, cfgVars, radioVars, history
  <2>1. CASE \E m \in Msg : EnqueueToSend(p, m)
    BY <2>1 DEF EnqueueToSend
  <2>2. CASE ComposeMsg(p)
    <3>1. isr[p].slot \notin Used
      BY <2>2 DEF ComposeMsg, FlatInv, Active
    <3> QED
      BY <2>2, <3>1 DEF ComposeMsg
  <2>3. CASE PublishMsg(p)
    BY <2>3 DEF PublishMsg
  <2> QED
    BY <1>1, <2>1, <2>2, <2>3 DEF Push
<1>2. CASE ~(\E p \in Isr : Push(p))
  BY <1>2, MainSlots DEF Used
<1> QED
  BY <1>1, <1>2

(* "Can't write once .msg_type is set" (lrw.c:804): with handlers of one    *)
(* priority, no handler composes into a slot that is in use.               *)
THEOREM OnceSetIsKept == OnePriority /\ Spec => CantWriteOnceSet
<1>1. OnePriority /\ TypeOK /\ FlatInv /\ [Next]_vars => FlatInv'
  BY FlatStep
<1>2. OnePriority /\ TypeOK /\ FlatInv /\ [Next]_vars
        => [\A i \in Used : i \in Used' => queue'[i].msg = queue[i].msg]_vars
  BY OnceSetStep
<1>3. OnePriority => []OnePriority
  OBVIOUS
<1> QED
  BY TypeInit, TypeStep, FlatInit, <1>1, <1>2, <1>3, PTL DEF Spec, CantWriteOnceSet

-----------------------------------------------------------------------------
(* The outbox.  The main loop waits for the MAC whenever that is busy, and *)
(* at the end of LRW_Send a message that may be freed has been on air, or  *)
(* the MAC has failed to send it.                                          *)
SentInv ==
  /\ main.pc = "busy" => mac.busy
  /\ main.pc \in {"top", "arm", "tx"} => ~mac.busy
  /\ main.pc = "free" =>
       \/ Restricted \/ txStatus \in {"empty", "failed"}
       \/ queue[main.i].msg \in OnAir

LEMMA SentInit == Init => SentInv
BY DEF Init, SentInv

LEMMA SentTx ==
  ASSUME TypeOK, SlotInv, FlatInv, SentInv, NEW outcome, LRW_TX(outcome)
  PROVE  SentInv'
<1> DEFINE m == queue[main.i].msg
<1>1. /\ queue' = queue /\ txStatus' = outcome
      /\ main.pc = "tx" /\ main'.pc = "free" /\ main'.i = main.i
  BY DEF LRW_TX, TypeOK
<1>2. m \in Msg
  BY <1>1 DEF SlotInv, NoSharedSlot, FlatInv
<1>3. CASE outcome = "ok"
  <2>1. aired'[m] = aired[m] + 1 /\ aired[m] \in Nat
    BY <1>2, <1>3 DEF LRW_TX, TypeOK
  <2>2. m \in OnAir'
    BY <1>2, <2>1 DEF OnAir
  <2> QED
    BY <1>1, <2>2 DEF SentInv
<1>4. CASE outcome = "restricted"
  <2>1. Restricted'
    BY <1>4 DEF LRW_TX, Restricted
  <2> QED
    BY <1>1, <2>1 DEF SentInv
<1>5. CASE outcome \in {"empty", "failed"}
  BY <1>1, <1>5 DEF SentInv
<1>6. outcome \in {"ok", "empty", "restricted", "failed"}
  BY DEF LRW_TX
<1> QED
  BY <1>3, <1>4, <1>5, <1>6

LEMMA SentStep ==
  ASSUME TypeOK, SlotInv, FlatInv, SentInv, [Next]_vars
  PROVE  SentInv'
<1> USE DEF TypeOK, SentInv, Restricted, OnAir, retransVars, cfgVars, radioVars, history
<1>1. ASSUME NEW p \in Isr, Push(p) PROVE SentInv'
  <2>1. UNCHANGED <<mac, main, aired, DutyCycleWaitTime, txStatus>> /\ main.i \in Slot
    BY <1>1 DEF Push, EnqueueToSend, ComposeMsg, PublishMsg
  <2>2. main.pc = "free" => queue'[main.i].msg = queue[main.i].msg
    BY <1>1, <2>1 DEF Push, EnqueueToSend, ComposeMsg, PublishMsg, SlotInv, NoSharedSlot,
                      Active
  <2> QED
    BY <2>1, <2>2
<1>2. CASE NfcConfirmedMsgs \/ LeaveNetwork \/ NfcLeaves \/ LinkAdrReq \/ UNCHANGED vars
  BY <1>2 DEF NfcConfirmedMsgs, LeaveNetwork, NfcLeaves, LinkAdrReq, vars
<1>3. CASE LRW_Join \/ SendRaisePower
  BY <1>3 DEF LRW_Join, SendRaisePower, MayCallSend
<1>4. CASE SendPick
  BY <1>4 DEF SendPick, MayCallSend
<1>5. CASE SendArm
  BY <1>5 DEF SendArm
<1>6. ASSUME NEW outcome, LRW_TX(outcome) PROVE SentInv'
  BY <1>6, SentTx
<1>7. CASE SendFree
  BY <1>7 DEF SendFree
<1>8. ASSUME NEW ack \in BOOLEAN, McpsConfirm(ack) PROVE SentInv'
  BY <1>8 DEF McpsConfirm
<1> QED
  BY <1>1, <1>2, <1>3, <1>4, <1>5, <1>6, <1>7, <1>8 DEF Next, LRW_Send, MacAnswers

(* There is room for the message of a handler: its slot is not in use.     *)
LEMMA Room ==
  ASSUME NEW S, S \subseteq Slot, NEW i \in Slot \ S, NEW f \in [S -> Msg],
         NEW P, P \subseteq {f[j] : j \in S}
  PROVE  Cardinality(P) < QueueLen
<1> DEFINE F == {f[j] : j \in S}
<1>1. IsFiniteSet(Slot) /\ Cardinality(Slot) = QueueLen
  BY FS_Interval DEF Slot
<1>2. IsFiniteSet(Slot \ {i}) /\ Cardinality(Slot \ {i}) = QueueLen - 1
  BY <1>1, FS_RemoveElement
<1>3. IsFiniteSet(S) /\ Cardinality(S) <= QueueLen - 1
  <2>1. S \in SUBSET (Slot \ {i})
    OBVIOUS
  <2> QED
    BY <1>2, <2>1, FS_Subset
<1>4. f \in Surjection(S, F)
  BY DEF Surjection
<1>5. IsFiniteSet(F) /\ Cardinality(F) <= Cardinality(S)
  BY <1>3, <1>4, FS_Surjection
<1>6. IsFiniteSet(P) /\ Cardinality(P) <= Cardinality(F)
  BY <1>5, FS_Subset
<1>7. Cardinality(P) \in Nat /\ Cardinality(F) \in Nat /\ Cardinality(S) \in Nat
  BY <1>3, <1>5, <1>6, FS_CardinalityType
<1> QED
  BY <1>3, <1>5, <1>6, <1>7

(* A handler publishes a message that is not in the outbox yet.            *)
LEMMA PublishAccepts ==
  ASSUME OnePriority, TypeOK, SlotInv, TimesInv, FlatInv, NEW p \in Isr, PublishMsg(p)
  PROVE  Box!Accept(isr[p].msg)
<1> DEFINE s == isr[p].slot
           m == isr[p].msg
<1> USE DEF Used, Queued, OnAir
<1>1. p \in Active /\ s \notin Used /\ s \in Slot /\ queue[s].msg = m /\ m \in Msg
  BY DEF PublishMsg, Active, FlatInv, TypeOK
<1>2. queue' = [queue EXCEPT ![s].msg_type = TRUE] /\ aired' = aired
  BY DEF PublishMsg, history
<1>3. Used' = Used \cup {s} /\ \A i \in Slot : queue'[i].msg = queue[i].msg
  BY <1>1, <1>2 DEF TypeOK
<1>4. Queued' = Queued \cup {m} /\ OnAir' = OnAir
  BY <1>1, <1>2, <1>3
<1>5. m \notin OnAir
  BY <1>1 DEF TimesInv, ActiveInv
<1>6. m \notin Queued
  BY <1>1, QueueAssumption DEF TimesInv, Distinct
<1>7. Cardinality(Queued \ OnAir) < QueueLen
  <2> DEFINE f == [i \in Used |-> queue[i].msg]
  <2>1. f \in [Used -> Msg] /\ Used \subseteq Slot
    BY DEF FlatInv
  <2>2. Queued = {f[i] : i \in Used}
    OBVIOUS
  <2> HIDE DEF f, Used
  <2>3. Queued \ OnAir \subseteq {f[i] : i \in Used}
    BY <2>2
  <2> QED
    BY <1>1, <2>1, <2>3, Room
<1>8. m \notin (Queued \ OnAir) \cup OnAir
  BY <1>5, <1>6
<1>9. Queued' \ OnAir' = (Queued \ OnAir) \cup {m}
  BY <1>4, <1>5
<1>11. UNCHANGED <<joined, mac, Failing>>
  <2>1. UNCHANGED <<joined, mac, main, txStatus>>
    BY DEF PublishMsg, cfgVars, radioVars
  <2>2. main.pc = "free" => main.i \in Slot
    BY DEF TypeOK
  <2> QED
    BY <1>3, <1>4, <2>1, <2>2 DEF Failing
<1> HIDE DEF m, Queued, OnAir
<1>10. \A P : Box!Cardinality(P) = Cardinality(P)
  BY Zenon DEF Cardinality, Box!Cardinality
<1> QED
  BY <1>4, <1>7, <1>8, <1>9, <1>10, <1>11 DEF Box!Accept, m

(* LRW_TX: the message that is aired is delivered, or delivered before and *)
(* repeated; the one that is not aired fails, or is kept.                  *)
LEMMA TxSteps ==
  ASSUME TypeOK, SlotInv, FlatInv, SentInv, NEW outcome, LRW_TX(outcome)
  PROVE  [Box!Next]_Box!vars
<1> DEFINE m == queue[main.i].msg
<1>1. /\ main.pc = "tx" /\ main.i \in Used /\ m \in Msg /\ ~mac.busy
      /\ UNCHANGED <<queue, joined>> /\ txStatus' = outcome
      /\ main'.pc = "free" /\ main'.i = main.i
  BY DEF LRW_TX, SlotInv, NoSharedSlot, FlatInv, SentInv, cfgVars, TypeOK, Used
<1>2. Queued' = Queued /\ m \in Queued /\ Failing = {}
  BY <1>1 DEF Queued, Used, Failing
<1>3. Failing' = IF outcome \in {"empty", "failed"} THEN {m} \ OnAir' ELSE {}
  BY <1>1 DEF Failing
<1>4. mac.busy \in BOOLEAN /\ mac.confirmed \in BOOLEAN /\ confirmedMsgs \in BOOLEAN
  BY DEF TypeOK
<1>5. CASE outcome = "ok"
  <2>1. \A n \in Msg : aired'[n] = aired[n] + IF n = m THEN 1 ELSE 0
    BY <1>5 DEF LRW_TX
  <2>2. OnAir' = OnAir \cup {m}
    BY <1>1, <2>1 DEF OnAir, TypeOK
  <2>3. mac'.busy /\ mac'.confirmed = confirmedMsgs
    BY <1>5 DEF LRW_TX
  <2>4. CASE m \notin OnAir
    <3>1. (mac'.busy /\ mac'.confirmed) \in BOOLEAN
      BY <1>4, <2>3
    <3>2. Box!Deliver(m)
      BY <1>1, <1>2, <1>3, <1>5, <2>2, <2>4, <3>1 DEF Box!Deliver
    <3> QED
      BY <1>1, <3>2 DEF Box!Next
  <2>5. CASE m \in OnAir /\ confirmedMsgs
    <3>1. Box!Repeat
      BY <1>1, <1>2, <1>3, <1>5, <2>2, <2>3, <2>5 DEF Box!Repeat
    <3> QED
      BY <3>1 DEF Box!Next
  <2>6. CASE m \in OnAir /\ ~confirmedMsgs
    BY <1>1, <1>2, <1>3, <1>4, <1>5, <2>2, <2>3, <2>6 DEF Box!vars
  <2> QED
    BY <2>4, <2>5, <2>6
<1>6. CASE outcome # "ok"
  <2>1. OnAir' = OnAir
    BY <1>6 DEF LRW_TX, OnAir
  <2>2. (mac'.busy /\ mac'.confirmed) = (mac.busy /\ mac.confirmed)
    BY <1>1, <1>4, <1>6 DEF LRW_TX
  <2>3. CASE outcome \in {"empty", "failed"} /\ m \notin OnAir
    <3>1. Box!Fail(m)
      BY <1>1, <1>2, <1>3, <2>1, <2>2, <2>3 DEF Box!Fail
    <3> QED
      BY <1>1, <3>1 DEF Box!Next
  <2>4. CASE ~(outcome \in {"empty", "failed"} /\ m \notin OnAir)
    BY <1>1, <1>2, <1>3, <2>1, <2>2, <2>4 DEF Box!vars
  <2> QED
    BY <2>3, <2>4
<1> QED
  BY <1>5, <1>6

(* The end of LRW_Send: a message that failed is kept or given up, one     *)
(* that has been on air is forgotten, and nothing else leaves.             *)
LEMMA FreeSteps ==
  ASSUME TypeOK, SlotInv, TimesInv, FlatInv, SentInv, SendFree
  PROVE  [Box!Next]_Box!vars
<1> DEFINE m == queue[main.i].msg
<1>1. /\ main.pc = "free" /\ main.i \in Used /\ m \in Msg
      /\ UNCHANGED <<aired, joined, mac>> /\ main'.pc \in {"busy", "top"}
  BY DEF SendFree, SlotInv, NoSharedSlot, FlatInv, cfgVars, radioVars, history
<1>2. Failing' = {} /\ OnAir' = OnAir
  BY <1>1 DEF Failing, OnAir
<1>3. CASE Queued' \ OnAir = Queued \ OnAir
  <2>1. CASE Failing = {}
    BY <1>1, <1>2, <1>3, <2>1 DEF Box!vars
  <2>2. CASE Failing # {}
    <3>1. Box!TryAgain
      BY <1>1, <1>2, <1>3, <2>2 DEF Box!TryAgain
    <3> QED
      BY <3>1 DEF Box!Next
  <2> QED
    BY <2>1, <2>2
<1>4. CASE Queued' \ OnAir # Queued \ OnAir
  <2>1. ~Restricted
    BY <1>4 DEF SendFree, Queued, Used
  <2>2. /\ \A i \in Slot : queue'[i].msg = queue[i].msg
        /\ \A i \in Slot : i # main.i => queue'[i].msg_type = queue[i].msg_type
        /\ queue'[main.i].msg_type => queue[main.i].msg_type
    BY <2>1, FreedSlots, Zenon
  <2>3. Queued' \subseteq Queued /\ Queued \subseteq Queued' \cup {m}
    BY <2>2 DEF Queued, Used
  <2>4. main.i \notin Used' /\ m \notin OnAir
    BY <1>1, <1>4, <2>2, <2>3 DEF Queued, Used
  <2>5. m \notin Queued'
    BY <1>1, <2>2, <2>4, QueueAssumption DEF TimesInv, Distinct, Queued, Used
  <2>6. Failing = {m}
    BY <1>1, <2>1, <2>4 DEF SentInv, Failing
  <2>7. Box!GiveUp
    BY <1>1, <1>2, <2>3, <2>5, <2>6 DEF Box!GiveUp
  <2> QED
    BY <2>7 DEF Box!Next
<1> QED
  BY <1>3, <1>4

(* The end of an exchange: the acknowledgement clears at most the one slot *)
(* at retrans_index, whatever message is there by now.                     *)
LEMMA ConfirmSteps ==
  ASSUME TypeOK, SlotInv, TimesInv, FlatInv, SentInv,
         NEW ack \in BOOLEAN, McpsConfirm(ack)
  PROVE  [Box!Next]_Box!vars
<1> DEFINE m == queue[retrans_index].msg
<1>1. /\ main.pc = "busy" /\ main'.pc = "top" /\ retrans_index \in Slot
      /\ UNCHANGED <<aired, joined>> /\ mac.busy
      /\ mac' = [busy |-> FALSE, confirmed |-> FALSE] /\ (ack => mac.confirmed)
  BY DEF McpsConfirm, cfgVars, history, TypeOK, SentInv
<1>2. Failing' = {} /\ Failing = {} /\ OnAir' = OnAir
  BY <1>1 DEF Failing, OnAir
<1>3. ~mac'.busy /\ mac.confirmed \in BOOLEAN
  <2>1. mac \in [busy : BOOLEAN, confirmed : BOOLEAN]
    BY DEF TypeOK
  <2> QED
    BY <1>1, <2>1
<1>4. /\ \A i \in Slot : queue'[i].msg = queue[i].msg
      /\ \A i \in Slot : i # retrans_index => queue'[i].msg_type = queue[i].msg_type
      /\ queue'[retrans_index].msg_type => queue[retrans_index].msg_type /\ ~ack
  BY AckedSlots, Zenon
<1>5. Queued' \subseteq Queued /\ Queued \subseteq Queued' \cup {m}
  BY <1>1, <1>4 DEF Queued, Used
<1>6. CASE mac.confirmed
  <2>1. \/ Queued' \ OnAir = Queued \ OnAir
        \/ m \in Queued \ OnAir /\ Queued' \ OnAir = (Queued \ OnAir) \ {m}
    BY <1>5
  <2>2. Box!Answer
    BY <1>1, <1>2, <1>3, <1>6, <2>1 DEF Box!Answer
  <2> QED
    BY <2>2 DEF Box!Next
<1>7. CASE ~mac.confirmed
  <2>1. queue'[retrans_index].msg_type = queue[retrans_index].msg_type
    <3>1. queue' = [queue EXCEPT ![retrans_index].msg_type = @ /\ ~ack]
      BY Zenon DEF McpsConfirm
    <3>2. queue[retrans_index] \in [msg_type : BOOLEAN, msg : Msg \cup {NoMsg}]
          /\ queue \in [Slot -> [msg_type : BOOLEAN, msg : Msg \cup {NoMsg}]]
      BY <1>1 DEF TypeOK
    <3>3. queue[retrans_index].msg_type \in BOOLEAN
      BY <3>2
    <3>4. ~ack
      BY <1>1, <1>7
    <3>5. queue'[retrans_index] = [queue[retrans_index] EXCEPT !.msg_type = @ /\ ~ack]
      BY <1>1, <3>1, <3>2, Zenon
    <3>6. queue'[retrans_index].msg_type = (queue[retrans_index].msg_type /\ ~ack)
      BY <3>2, <3>5, Zenon
    <3> QED
      BY <3>3, <3>4, <3>6
  <2>2. Queued' = Queued
    BY <1>4, <2>1 DEF Queued, Used
  <2> QED
    BY <1>1, <1>2, <1>3, <1>7, <2>2 DEF Box!vars
<1> QED
  BY <1>3, <1>6, <1>7

(* A handler that composes its message, and a step of the main loop        *)
(* outside the end of LRW_Send, are not seen.                              *)
LEMMA ComposeStutters ==
  ASSUME TypeOK, SlotInv, FlatInv, NEW p \in Isr, ComposeMsg(p)
  PROVE  UNCHANGED Box!vars
<1>1. isr[p].slot \notin Used /\ isr[p].slot \in Slot /\ p \in Active
  BY DEF ComposeMsg, Active, FlatInv, TypeOK
<1>2. Used' = Used /\ \A i \in Used : queue'[i].msg = queue[i].msg
  BY <1>1 DEF ComposeMsg, Used, TypeOK
<1>3. UNCHANGED <<joined, mac, main, txStatus, aired>>
  BY DEF ComposeMsg, cfgVars, radioVars, history
<1>4. Queued' = Queued /\ OnAir' = OnAir
  BY <1>2, <1>3 DEF Queued, OnAir
<1>5. main.pc = "free" => main.i \in Used
  BY DEF SlotInv, NoSharedSlot
<1>6. Failing' = Failing
  BY <1>2, <1>3, <1>4, <1>5 DEF Failing
<1> QED
  BY <1>3, <1>4, <1>6 DEF Box!vars

LEMMA Unseen ==
  ASSUME UNCHANGED <<queue, aired, mac, txStatus>>,
         main' = main \/ (main.pc # "free" /\ main'.pc # "free"),
         joined \in BOOLEAN, joined' \in BOOLEAN
  PROVE  [Box!Next]_Box!vars
<1>1. UNCHANGED <<Queued, OnAir, Failing>>
  BY DEF Queued, Used, OnAir, Failing
<1>2. CASE joined' = joined
  BY <1>1, <1>2 DEF Box!vars
<1>3. CASE joined' # joined
  <2>1. Box!ChangeNetwork
    BY <1>1, <1>3 DEF Box!ChangeNetwork
  <2> QED
    BY <2>1 DEF Box!Next
<1> QED
  BY <1>2, <1>3

(* Every step of the queue is one of the outbox, or none.                  *)
LEMMA BoxStep ==
  ASSUME OnePriority, TypeOK, TypeOK', SlotInv, TimesInv, FlatInv, SentInv, [Next]_vars
  PROVE  [Box!Next]_Box!vars
<1> USE DEF retransVars, cfgVars, radioVars, history
<1>1. joined \in BOOLEAN /\ joined' \in BOOLEAN
  BY DEF TypeOK
<1>2. ASSUME NEW p \in Isr, NEW m \in Msg, EnqueueToSend(p, m) PROVE [Box!Next]_Box!vars
  <2>1. UNCHANGED <<queue, aired, mac, txStatus, main>>
    BY <1>2 DEF EnqueueToSend
  <2> QED
    BY <1>1, <2>1, Unseen
<1>3. ASSUME NEW p \in Isr, ComposeMsg(p) PROVE [Box!Next]_Box!vars
  BY <1>3, ComposeStutters
<1>4. ASSUME NEW p \in Isr, PublishMsg(p) PROVE [Box!Next]_Box!vars
  <2>1. isr[p].msg \in Msg
    BY <1>4 DEF PublishMsg, TypeOK
  <2>2. Box!Accept(isr[p].msg)
    BY <1>4, PublishAccepts
  <2> QED
    BY <2>1, <2>2 DEF Box!Next
<1>5. ASSUME NfcConfirmedMsgs \/ LeaveNetwork \/ NfcLeaves \/ LRW_Join \/ LinkAdrReq
             \/ UNCHANGED vars
      PROVE  [Box!Next]_Box!vars
  <2>1. UNCHANGED <<queue, aired, mac, txStatus, main>>
    BY <1>5 DEF NfcConfirmedMsgs, LeaveNetwork, NfcLeaves, LRW_Join, LinkAdrReq, vars
  <2> QED
    BY <1>1, <2>1, Unseen
<1>6. ASSUME SendRaisePower \/ SendPick \/ SendArm PROVE [Box!Next]_Box!vars
  <2>1. /\ UNCHANGED <<queue, aired, mac, txStatus>>
        /\ main' = main \/ (main.pc # "free" /\ main'.pc # "free")
    BY <1>6 DEF SendRaisePower, SendPick, SendArm, MayCallSend, TypeOK
  <2> QED
    BY <1>1, <2>1, Unseen
<1>7. ASSUME NEW outcome, LRW_TX(outcome) PROVE [Box!Next]_Box!vars
  BY <1>7, TxSteps
<1>8. ASSUME SendFree PROVE [Box!Next]_Box!vars
  BY <1>8, FreeSteps
<1>9. ASSUME NEW ack \in BOOLEAN, McpsConfirm(ack) PROVE [Box!Next]_Box!vars
  BY <1>9, ConfirmSteps
<1> QED
  BY <1>2, <1>3, <1>4, <1>5, <1>6, <1>7, <1>8, <1>9
     DEF Next, Push, LRW_Send, MacAnswers

(* The safety of ImplementsOutbox: what a handler enqueues is queued once  *)
(* and in a bounded space, and it leaves the queue only by being on air,   *)
(* because the MAC failed to send it, or by a late acknowledgement, with   *)
(* confirmed messages and without.                                         *)
THEOREM TakesOutboxSteps == OnePriority /\ Spec => Box!Steps
<1>1. Init => Box!Init
  BY DEF Init, Box!Init, Queued, Used, OnAir, Failing
<1>2. OnePriority /\ TypeOK /\ FlatInv /\ [Next]_vars => FlatInv'
  BY FlatStep
<1>3. TypeOK /\ SlotInv /\ FlatInv /\ SentInv /\ [Next]_vars => SentInv'
  BY SentStep
<1>4. OnePriority /\ TypeOK /\ TypeOK' /\ SlotInv /\ TimesInv /\ FlatInv /\ SentInv
        /\ [Next]_vars => [Box!Next]_Box!vars
  BY BoxStep
<1>5. OnePriority => []OnePriority
  OBVIOUS
<1> QED
  BY TypeInit, TypeStep, SlotInit, SlotStep, TimesInit, TimesStep, FlatInit, SentInit,
     <1>1, <1>2, <1>3, <1>4, <1>5, PTL DEF Spec, Box!Steps
=============================================================================
