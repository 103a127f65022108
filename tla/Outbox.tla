------------------------------- MODULE Outbox -------------------------------
(***************************************************************************)
(* What the transmit queue promises the interrupt handlers that push into  *)
(* it, and nothing of how: a bounded set of pending messages, each of      *)
(* which stays pending until it has been delivered to the radio, or the    *)
(* radio has failed to send it and it is given up.  Delivery is in no      *)
(* particular order, as LRW_Send picks the lowest slot in use and not the  *)
(* oldest message.                                                         *)
(*                                                                         *)
(* What it cannot promise is in Answer: with confirmed messages the answer *)
(* to one message may be taken for that to another.                        *)
(***************************************************************************)
EXTENDS Naturals, FiniteSets

CONSTANTS Message, Capacity

VARIABLES
  online,     \* whether there is a network
  pending,    \* messages accepted and not yet delivered
  delivered,  \* messages that have been on air
  failing,    \* the message the radio has just failed to send, if any
  unanswered  \* whether an acknowledgement may still come

vars == <<online, pending, delivered, failing, unanswered>>

Init ==
  /\ online \in BOOLEAN
  /\ pending = {} /\ delivered = {} /\ failing = {}
  /\ unanswered = FALSE

Accept(m) ==
  /\ m \notin pending \cup delivered
  /\ Cardinality(pending) < Capacity
  /\ pending' = pending \cup {m}
  /\ UNCHANGED <<online, delivered, failing, unanswered>>

Deliver(m) ==
  /\ m \in pending
  /\ pending' = pending \ {m}
  /\ delivered' = delivered \cup {m}
  /\ unanswered' \in BOOLEAN
  /\ UNCHANGED <<online, failing>>

(* A delivered message is sent once more.                                  *)
Repeat ==
  /\ delivered # {}
  /\ unanswered' = TRUE
  /\ UNCHANGED <<online, pending, delivered, failing>>

(* An exchange ends; its acknowledgement may be taken for that of a        *)
(* message that was accepted meanwhile, and never is delivered.            *)
Answer ==
  /\ unanswered
  /\ unanswered' = FALSE
  /\ pending' \in {pending} \cup {pending \ {m} : m \in pending}
  /\ UNCHANGED <<online, delivered, failing>>

(* The radio fails to send m, which is tried again or given up; nothing    *)
(* else is.                                                                *)
Fail(m) ==
  /\ m \in pending
  /\ failing' = {m}
  /\ UNCHANGED <<online, pending, delivered, unanswered>>

TryAgain ==
  /\ failing # {}
  /\ failing' = {}
  /\ UNCHANGED <<online, pending, delivered, unanswered>>

GiveUp ==
  /\ failing # {}
  /\ failing' = {}
  /\ pending' = pending \ failing
  /\ UNCHANGED <<online, delivered, unanswered>>

ChangeNetwork ==
  /\ online' = ~online
  /\ UNCHANGED <<pending, delivered, failing, unanswered>>

Next ==
  \/ \E m \in Message : Accept(m) \/ Deliver(m) \/ Fail(m)
  \/ Repeat \/ Answer \/ TryAgain \/ GiveUp
  \/ ChangeNetwork

Steps == Init /\ [][Next]_vars

(* As long as there is a network, something leaves while anything waits.   *)
Leave == online /\ ((\E m \in Message : Deliver(m)) \/ GiveUp)

Spec == Steps /\ WF_vars(Leave)
=============================================================================
