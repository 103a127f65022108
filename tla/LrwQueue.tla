------------------------------ MODULE LrwQueue ------------------------------
(***************************************************************************)
(* The LoRaWAN transmit queue of Src/lrw.c.  Interrupt handlers push       *)
(* messages with enqueueToSend; the main loop picks one with LRW_Send,     *)
(* hands it to the MAC with LRW_TX and frees its slot; the MAC answers in  *)
(* McpsConfirm while the main loop waits for it to be idle.  A confirmed   *)
(* message is sent again, at full power, until it is acknowledged or its   *)
(* retransmissions are used up.                                            *)
(*                                                                         *)
(* Interrupts preempt the main loop between any two of its steps and, by   *)
(* their NVIC priority, each other.  A message is a model value; the       *)
(* history variables fresh, accepted and aired record what happened to it. *)
(***************************************************************************)
EXTENDS Naturals

CONSTANTS QueueLen,      \* LRW_QUEUE_LEN
          Retrans,       \* transmissions of a confirmed message (3 in LRW_Send)
          Isr,           \* the interrupt handlers that call enqueueToSend
          Prio,          \* their NVIC priorities, the larger preempts
          Msg, NoMsg,    \* the messages they push, and the absence of one
          Power,         \* TX power indices; 0 is EU868_MAX_TX_POWER
          WaitTime,      \* values of DutyCycleWaitTime; 0 is unrestricted
          ConfirmModes,  \* values NFC may give DevCfg.confirmedMsgs
          AppKeys,       \* values NFC may give "DevCfg.appKey is not zero"
          TxOutcomes     \* what LoRaMacMcpsRequest may do with a request

ASSUME QueueAssumption ==
  /\ QueueLen \in Nat \ {0}
  /\ Retrans \in Nat \ {0}
  /\ Prio \in [Isr -> Nat]
  /\ NoMsg \notin Msg
  /\ Power \subseteq Nat /\ 0 \in Power
  /\ WaitTime \subseteq Nat /\ 0 \in WaitTime
  /\ ConfirmModes \subseteq BOOLEAN /\ AppKeys \subseteq BOOLEAN
  /\ TxOutcomes \subseteq {"ok", "empty", "restricted", "failed"}

VARIABLES
  queue,                 \* lrw.queue: msg_type is set when the slot is in use
  retrans_left, retrans_index, retrans_txp_override, retrans_txp_prior,
  ChannelsTxPower,       \* the MAC's MIB_CHANNELS_TX_POWER
  DutyCycleWaitTime,
  confirmedMsgs,         \* DevCfg.confirmedMsgs
  joined, appKey,        \* LRW_IsJoined(), and whether there is an appKey
  mac,                   \* the frame the MAC is busy with
  main,                  \* where the main loop is, and LRW_Send's slot i
  isr,                   \* where each interrupt handler is in enqueueToSend
  txStatus,              \* what LoRaMacMcpsRequest did with LRW_Send's request
  fresh, accepted, aired \* history: not pushed yet, published, times on air

retransVars == <<retrans_left, retrans_index, retrans_txp_override,
                 retrans_txp_prior>>
cfgVars == <<confirmedMsgs, joined, appKey>>
radioVars == <<ChannelsTxPower, DutyCycleWaitTime, mac, txStatus>>
history == <<fresh, accepted, aired>>
vars == <<queue, retransVars, cfgVars, radioVars, main, isr, history>>

Slot == 0 .. QueueLen - 1
MaxPower == 0

TypeOK ==
  /\ queue \in [Slot -> [msg_type : BOOLEAN, msg : Msg \cup {NoMsg}]]
  /\ retrans_left \in 0 .. Retrans
  /\ retrans_index \in Slot
  /\ retrans_txp_override \in BOOLEAN
  /\ retrans_txp_prior \in Power
  /\ ChannelsTxPower \in Power
  /\ DutyCycleWaitTime \in WaitTime
  /\ confirmedMsgs \in BOOLEAN
  /\ joined \in BOOLEAN /\ appKey \in BOOLEAN
  /\ mac \in [busy : BOOLEAN, confirmed : BOOLEAN]
  /\ main \in [pc : {"top", "arm", "tx", "free", "busy"}, i : Slot]
  /\ isr \in [Isr -> [pc : {"idle", "compose", "publish"}, slot : Slot,
                      msg : Msg \cup {NoMsg}]]
  /\ \A p \in Isr : isr[p].pc # "idle" => isr[p].msg \in Msg
  /\ txStatus \in {"ok", "empty", "restricted", "failed"}
  /\ fresh \subseteq Msg
  /\ accepted \subseteq Msg
  /\ aired \in [Msg -> Nat]

Init ==
  /\ queue = [i \in Slot |-> [msg_type |-> FALSE, msg |-> NoMsg]]
  /\ retrans_left = 0 /\ retrans_index = 0
  /\ retrans_txp_override = FALSE /\ retrans_txp_prior = 0
  /\ ChannelsTxPower \in Power
  /\ DutyCycleWaitTime = 0
  /\ confirmedMsgs \in ConfirmModes
  /\ joined \in BOOLEAN /\ appKey \in AppKeys
  /\ mac = [busy |-> FALSE, confirmed |-> FALSE]
  /\ main = [pc |-> "top", i |-> 0]
  /\ isr = [p \in Isr |-> [pc |-> "idle", slot |-> 0, msg |-> NoMsg]]
  /\ txStatus = "ok"
  /\ fresh = Msg /\ accepted = {} /\ aired = [m \in Msg |-> 0]

-----------------------------------------------------------------------------
(* Who runs: an interrupt runs only above every other active one, the main *)
(* loop only when none is active.                                          *)

Active == {p \in Isr : isr[p].pc # "idle"}
MayRun(p) == \A q \in Active \ {p} : Prio[p] > Prio[q]
MainRuns == Active = {}

Used == {i \in Slot : queue[i].msg_type}
IsFirst(i, S) == i \in S /\ \A j \in S : i <= j

(* The first free slot; the mutant takes the first one, free or not.       *)
FirstSlot(i) == IsFirst(i, Slot)
FreeSlot(i) == IsFirst(i, Slot \ Used)

(* enqueueToSend, up to the battery measurement: nothing is pushed while   *)
(* not joined, nor when the queue is full; otherwise the first free slot   *)
(* is taken, by no more than remembering its index.                        *)
EnqueueToSend(p, m) ==
  /\ p \notin Active /\ MayRun(p) /\ m \in fresh
  /\ fresh' = fresh \ {m}
  /\ \/ /\ ~joined \/ Used = Slot
        /\ UNCHANGED isr
     \/ /\ joined
        /\ \E i \in Slot :
             /\ FreeSlot(i)
             /\ isr' = [isr EXCEPT ![p] =
                          [pc |-> "compose", slot |-> i, msg |-> m]]
  /\ UNCHANGED <<queue, retransVars, cfgVars, radioVars, main, accepted,
                 aired>>

(* ... the message is composed into the slot's buffer ...                  *)
ComposeMsg(p) ==
  /\ isr[p].pc = "compose" /\ MayRun(p)
  /\ queue' = [queue EXCEPT ![isr[p].slot].msg = isr[p].msg]
  /\ isr' = [isr EXCEPT ![p].pc = "publish"]
  /\ UNCHANGED <<retransVars, cfgVars, radioVars, main, history>>

(* ... and msg_type, written last, makes it visible to LRW_Send.           *)
PublishMsg(p) ==
  /\ isr[p].pc = "publish" /\ MayRun(p)
  /\ queue' = [queue EXCEPT ![isr[p].slot].msg_type = TRUE]
  /\ accepted' = accepted \cup {isr[p].msg}
  /\ isr' = [isr EXCEPT ![p] = [pc |-> "idle", slot |-> 0, msg |-> NoMsg]]
  /\ UNCHANGED <<retransVars, cfgVars, radioVars, main, fresh, aired>>

(* A SETCONFIG message over NFC writes DevCfg.confirmedMsgs at any time.   *)
NfcConfirmedMsgs ==
  /\ MainRuns
  /\ confirmedMsgs' \in ConfirmModes \ {confirmedMsgs}
  /\ UNCHANGED <<queue, retransVars, joined, appKey, radioVars, main, isr,
                 history>>

-----------------------------------------------------------------------------
(* The main loop                                                           *)

(* LRW_FromDevCfg drops the activation when a key or the region changes;   *)
(* the new appKey may be zero, which is none.                              *)
LeaveNetwork ==
  /\ MainRuns /\ main.pc = "top" /\ joined
  /\ joined' = FALSE /\ appKey' \in AppKeys
  /\ UNCHANGED <<queue, retransVars, confirmedMsgs, radioVars, main, isr,
                 history>>

(* The join status 0 over NFC drops the activation at any time, so also    *)
(* between LRW_Send's choice and LRW_TX; during an exchange the MAC        *)
(* refuses it as busy, which nobody looks at.                              *)
NfcLeaves ==
  /\ MainRuns /\ ~mac.busy /\ joined
  /\ joined' = FALSE
  /\ UNCHANGED <<queue, retransVars, confirmedMsgs, appKey, radioVars, main,
                 isr, history>>

(* LRW_Join and the wait for the MAC: joined, or not, or not allowed yet.  *)
LRW_Join ==
  /\ MainRuns /\ main.pc = "top" /\ ~joined /\ appKey
  /\ joined' \in BOOLEAN
  /\ DutyCycleWaitTime' \in IF joined' THEN {0} ELSE WaitTime
  /\ UNCHANGED <<queue, retransVars, confirmedMsgs, appKey,
                 ChannelsTxPower, mac, txStatus, main, isr, history>>

(* LRW_Send is called when joined, but also when there is no key to join   *)
(* with, and the MAC idle.                                                 *)
MayCallSend == MainRuns /\ main.pc = "top" /\ (joined \/ ~appKey) /\ ~mac.busy

(* Its choice: the message being retransmitted, else the first queued one. *)
(* Mutants: the retransmission that is going on is forgotten, the last     *)
(* slot is not looked at.                                                  *)
PickedAfresh(i) == IsFirst(i, Used)
PickedButLast(i) ==
  IF retrans_left > 0 THEN i = retrans_index
                      ELSE IsFirst(i, Used \ {QueueLen - 1})
Picked(i) == IF retrans_left > 0 THEN i = retrans_index ELSE IsFirst(i, Used)

(* "if prior confirmed message NACK'ed, then assert max tx power": the     *)
(* power before is kept once, and a change of power ends this call.        *)
AssertsMaxPower == retrans_left > 0 /\ confirmedMsgs

(* LRW_Send returns after changing the power, to be called again.          *)
SendRaisePower ==
  /\ MayCallSend
  /\ AssertsMaxPower /\ ChannelsTxPower # MaxPower
  /\ retrans_txp_override' = TRUE
  /\ retrans_txp_prior' = IF retrans_txp_override THEN retrans_txp_prior
                                                  ELSE ChannelsTxPower
  /\ ChannelsTxPower' = MaxPower
  /\ UNCHANGED <<queue, retrans_left, retrans_index, cfgVars,
                 DutyCycleWaitTime, mac, txStatus, main, isr, history>>

SendPick ==
  /\ MayCallSend
  /\ \E i \in Slot : Picked(i) /\ main' = [pc |-> "arm", i |-> i]
  /\ \/ /\ ~AssertsMaxPower
        /\ UNCHANGED <<retrans_txp_override, retrans_txp_prior>>
     \/ /\ AssertsMaxPower /\ ChannelsTxPower = MaxPower
        /\ retrans_txp_override' = TRUE
        /\ retrans_txp_prior' = IF retrans_txp_override THEN retrans_txp_prior
                                                        ELSE ChannelsTxPower
  /\ UNCHANGED <<queue, retrans_left, retrans_index, cfgVars, radioVars,
                 isr, history>>

(* A confirmed message sent for the first time schedules retransmissions.  *)
(* The mutant schedules them every time it is sent.                        *)
ArmsAlways == confirmedMsgs
Arms == retrans_left = 0 /\ confirmedMsgs

SendArm ==
  /\ MainRuns /\ main.pc = "arm"
  /\ main' = [main EXCEPT !.pc = "tx"]
  /\ IF Arms
     THEN retrans_left' = Retrans /\ retrans_index' = main.i
     ELSE UNCHANGED <<retrans_left, retrans_index>>
  /\ UNCHANGED <<queue, retrans_txp_override, retrans_txp_prior, cfgVars,
                 radioVars, isr, history>>

(* LRW_TX.  The MAC airs the message, or an empty frame when the payload   *)
(* and its own commands do not fit, or refuses for the duty cycle, or      *)
(* fails, as it does when not joined; a failure may leave the wait time of *)
(* an earlier request.  Neither an empty frame nor a failure is told       *)
(* LRW_Send from a transmission.                                           *)
LRW_TX(outcome) ==
  /\ MainRuns /\ main.pc = "tx"
  /\ main' = [main EXCEPT !.pc = "free"]
  /\ txStatus' = outcome
  /\ \/ /\ outcome = "ok"
        /\ mac' = [busy |-> TRUE, confirmed |-> confirmedMsgs]
        /\ aired' = [m \in Msg |-> aired[m] +
                       IF m = queue[main.i].msg THEN 1 ELSE 0]
        /\ DutyCycleWaitTime' = 0
     \/ /\ outcome = "empty"
        /\ mac' = [busy |-> TRUE, confirmed |-> FALSE]
        /\ DutyCycleWaitTime' = 0
        /\ UNCHANGED aired
     \/ /\ outcome \in {"restricted", "failed"}
        /\ DutyCycleWaitTime' \in IF outcome = "failed" THEN WaitTime
                                  ELSE WaitTime \ {0}
        /\ UNCHANGED <<mac, aired>>
  /\ UNCHANGED <<queue, retransVars, cfgVars, ChannelsTxPower, isr, fresh,
                 accepted>>

(* The end of LRW_Send.  Mutants: a counter that wraps, a slot freed after *)
(* each transmission, or in spite of a refusal.                            *)
SpentWrapping == retrans_left - 1
Spent == IF retrans_left > 0 THEN retrans_left - 1 ELSE 0

FreesAlways == TRUE
Frees == Spent = 0

NeverRestricted == FALSE
Restricted == DutyCycleWaitTime # 0

(* Under a duty cycle restriction everything is kept, else one             *)
(* transmission is used up, and with the last one the slot is freed.       *)
SendFree ==
  /\ MainRuns /\ main.pc = "free"
  /\ main' = [pc |-> IF mac.busy THEN "busy" ELSE "top", i |-> 0]
  /\ \/ /\ Restricted
        /\ UNCHANGED <<queue, retrans_left>>
     \/ /\ ~Restricted
        /\ retrans_left' = Spent
        /\ queue' = [queue EXCEPT ![main.i].msg_type = @ /\ ~Frees]
  /\ txStatus' = "ok"
  /\ UNCHANGED <<retrans_index, retrans_txp_override, retrans_txp_prior,
                 cfgVars, ChannelsTxPower, DutyCycleWaitTime, mac, isr, history>>

(* A LinkADRReq in the downlink sets another power.                        *)
LinkAdrReq ==
  /\ MainRuns /\ main.pc = "busy"
  /\ ChannelsTxPower' \in Power \ {ChannelsTxPower}
  /\ UNCHANGED <<queue, retransVars, cfgVars, DutyCycleWaitTime, mac,
                 txStatus, main, isr, history>>

(* The power is restored when no retransmission is left, whether the       *)
(* message was acknowledged or given up; the mutant: only when it was      *)
(* acknowledged.                                                           *)
RestoresIfAcked(left, ack) == ack /\ left = 0 /\ retrans_txp_override
Restores(left, ack) == left = 0 /\ retrans_txp_override

(* The MAC is done with the frame; only a confirmed one is acknowledged.   *)
McpsConfirm(AckReceived) ==
  LET left == IF AckReceived THEN 0 ELSE retrans_left
      restores == Restores(left, AckReceived)
  IN
  /\ MainRuns /\ main.pc = "busy"
  /\ AckReceived => mac.confirmed
  /\ mac' = [busy |-> FALSE, confirmed |-> FALSE]
  /\ main' = [main EXCEPT !.pc = "top"]
  /\ retrans_left' = left
  /\ queue' = [queue EXCEPT ![retrans_index].msg_type = @ /\ ~AckReceived]
  /\ retrans_txp_override' = (retrans_txp_override /\ ~restores)
  /\ ChannelsTxPower' = IF restores THEN retrans_txp_prior ELSE ChannelsTxPower
  /\ UNCHANGED <<retrans_index, retrans_txp_prior, cfgVars,
                 DutyCycleWaitTime, txStatus, isr, history>>

-----------------------------------------------------------------------------
Push(p) == (\E m \in Msg : EnqueueToSend(p, m)) \/ ComposeMsg(p) \/ PublishMsg(p)

Outcomes == IF joined THEN TxOutcomes ELSE {"failed"}

LRW_Send == SendRaisePower \/ SendPick \/ SendArm \/ SendFree

MacAnswers == \E ack \in BOOLEAN : McpsConfirm(ack)

Next ==
  \/ \E p \in Isr : Push(p)
  \/ NfcConfirmedMsgs
  \/ LeaveNetwork \/ NfcLeaves \/ LRW_Join
  \/ LRW_Send
  \/ \E outcome \in Outcomes : LRW_TX(outcome)
  \/ LinkAdrReq
  \/ MacAnswers

Spec == Init /\ [][Next]_vars

(* An interrupt handler runs to its end; the main loop keeps running, as   *)
(* it does while joined with something queued; the MAC ends every          *)
(* exchange; and a duty cycle restriction does not last: LRW_TX is not     *)
(* refused for it again and again for ever.  That a network is joined, or  *)
(* answers, is not assumed.                                                *)
Fairness ==
  /\ \A p \in Isr : WF_vars(ComposeMsg(p) \/ PublishMsg(p))
  /\ SF_vars(SendRaisePower) /\ SF_vars(SendPick)
  /\ WF_vars(SendArm) /\ WF_vars(SendFree) /\ WF_vars(MacAnswers)
  /\ SF_vars(\E outcome \in Outcomes :
               LRW_TX(outcome) /\ DutyCycleWaitTime' = 0)

FairSpec == Spec /\ Fairness

-----------------------------------------------------------------------------
(* Safety                                                                  *)

(* A message being retransmitted keeps its slot, and no interrupt handler  *)
(* composes another one into it: LRW_Send resends queue[retrans_index]     *)
(* without looking whether it is still in use.                             *)
RetransHeld ==
  retrans_left > 0 =>
    /\ retrans_index \in Used
    /\ \A p \in Active : isr[p].slot # retrans_index

(* LRW_Send works on the message being retransmitted, if there is one.     *)
ResendsHeld ==
  main.pc \in {"arm", "tx", "free"} /\ retrans_left > 0
    => main.i = retrans_index

(* While retransmissions are left, they are of one message: no interrupt   *)
(* and no other message of the queue gets in between.                      *)
RetransSame ==
  [][retrans_left > 0 /\ retrans_left' > 0 =>
       /\ retrans_index' = retrans_index
       /\ queue'[retrans_index] = queue[retrans_index]
       /\ (aired' # aired => main.i = retrans_index)]_vars

(* "If using confirmed messages, schedule retransmissions": no message is  *)
(* transmitted more often than that, whenever confirmedMsgs is switched    *)
(* and whatever the MAC refuses in between.                                *)
AtMostRetrans == \A m \in Msg : aired[m] <= Retrans

(* "Can't write once .msg_type is set": what is queued stays as composed.  *)
CantWriteOnceSet ==
  [][\A i \in Used : i \in Used' => queue'[i].msg = queue[i].msg]_vars

(* "Can't read once .msg_type is cleared": the slot LRW_Send works on is   *)
(* in use, and no interrupt is composing a message into it.                *)
NoSharedSlot ==
  main.pc \in {"arm", "tx", "free"} =>
    /\ main.i \in Used
    /\ \A p \in Active : isr[p].slot # main.i

(* "restore ADR tx power": an idle MAC is left at full power with no        *)
(* retransmission to come only if the MAC failed the last one, for which   *)
(* no McpsConfirm comes.                                                   *)
StuckAtMaxPower == ~mac.busy /\ retrans_left = 0 /\ retrans_txp_override
PowerRestored ==
  [][~StuckAtMaxPower /\ StuckAtMaxPower' => txStatus = "failed"]_vars

(* "Ask main ctx to make LoRa msg to send": an accepted message is queued  *)
(* until it has been on air.                                               *)
NotLost ==
  \A m \in accepted : aired[m] > 0 \/ \E i \in Used : queue[i].msg = m

(* What makes these inductive together.                                    *)
SlotInv == RetransHeld /\ ResendsHeld /\ NoSharedSlot

-----------------------------------------------------------------------------
(* Liveness                                                                *)

(* Sleep waits for the queue to be empty: with a network that is no more   *)
(* lost it is at last, and every retransmission has come to its end, with  *)
(* or without acknowledgements, refusals and failures of the MAC.          *)
Drains == <>[]joined => <>[](Used = {} /\ retrans_left = 0)

-----------------------------------------------------------------------------
(* The abstract outbox: pending is what the slots in use hold and has not  *)
(* been on air, failing the message LRW_TX could not hand to the radio, as *)
(* long as LRW_Send has not decided what to do with it.                    *)

OnAir == {m \in Msg : aired[m] > 0}
Queued == {queue[i].msg : i \in Used}
Failing == IF main.pc = "free" /\ txStatus \in {"empty", "failed"}
           THEN {queue[main.i].msg} \ OnAir ELSE {}
Box == INSTANCE Outbox WITH
         Message <- Msg, Capacity <- QueueLen, online <- joined,
         pending <- Queued \ OnAir, delivered <- OnAir,
         failing <- Failing, unanswered <- mac.busy /\ mac.confirmed

(* The queue implements the outbox: what is enqueued is queued once; only  *)
(* its transmission, a failure of the MAC to send it or a late             *)
(* acknowledgement ends that, never a duty cycle restriction or another    *)
(* message; and one of these comes as long as there is a network.          *)
ImplementsOutbox == Box!Spec
=============================================================================
