--------------------------- MODULE GesturesProofs ---------------------------
(***************************************************************************)
(* Proofs about Gestures, for all limits in their order, and any number of *)
(* tasks and ticks.                                                        *)
(*                                                                         *)
(* The handler never sees how long a press was, only how long ago the last *)
(* rise was that it did not debounce.  That is never less: HoldCovers adds *)
(* to the types that a press, while it goes on and until its release is    *)
(* handled, is no older than lastRise.  Reports are apart because in the   *)
(* two-gesture build every one of them is an edge that is not debounced    *)
(* and resets lastFall (ReportsAreFalls).                                  *)
(***************************************************************************)
EXTENDS Gestures, TLAPS

HoldCovers ==
  /\ irq => pinAge = 0
  /\ pin = SET => pinAge <= lastRise
  /\ pin = RESET /\ irq => pressLen <= lastRise

ReportsAreFalls ==
  simple => /\ lastFall <= reportAge
            /\ tasks = [i \in TaskSlot |-> 0]
            /\ branch = "none"

Inv == TypeOK /\ HoldCovers /\ ReportsAreFalls

USE GesturesAssumption

(* Ages are numbers, and grow by one until they saturate. *)
LEMMA Ages ==
  /\ Oldest \in Nat /\ 0 \in Age /\ Oldest \in Age
  /\ \A a \in Age : a \in Nat /\ a <= Oldest /\ Older(a) \in Age
  /\ \A a, b \in Age : a <= b => Older(a) <= Older(b)
  BY DEF Oldest, Age, Older

LEMMA InitInv == Init => Inv
  <1> SUFFICES ASSUME Init PROVE Inv OBVIOUS
  <1>1. TypeOK
    <2>1. tasks \in [TaskSlot -> 0 .. SingleWait] BY DEF Init
    <2>2. simple \in BOOLEAN BY DEF Init
    <2>3. irq \in BOOLEAN BY DEF Init
    <2>7. gesture \in 0 .. 3 BY DEF Init
    <2>4. pin \in {RESET, SET} /\ lastEdge \in {RESET, SET} BY DEF Init
    <2>5. /\ pinAge \in Age /\ pressLen \in Age /\ reportAge \in Age
          /\ lastRise \in Age /\ lastFall \in Age
      BY Ages DEF Init
    <2>6. buttonPendingSinglePress \in TaskSlot \cup {NULL} BY DEF Init
    <2>8. branch \in Branch BY DEF Init, Branch
    <2> QED BY <2>1, <2>2, <2>3, <2>4, <2>5, <2>6, <2>7, <2>8 DEF TypeOK
  <1>2. HoldCovers /\ ReportsAreFalls
    BY Ages DEF Init, HoldCovers, ReportsAreFalls, RESET, SET, Age, Oldest
  <1> QED BY <1>1, <1>2 DEF Inv

(* What the handler's second step does to the tasks and to its report. *)
LEMMA Scheduled ==
  ASSUME TypeOK, Acts
  PROVE  /\ buttonPendingSinglePress' \in TaskSlot \cup {NULL}
         /\ tasks' \in [TaskSlot -> 0 .. SingleWait]
         /\ gesture' \in 0 .. 3 /\ reportAge' \in Age
         /\ branch # "none" /\ branch' \in Branch
         /\ UNCHANGED <<simple, button, irq, lastRise, lastFall, lastEdge>>
  <1> USE DEF TypeOK, NoReport, Report, Ends, Branch
  <1>1. CASE ProbablySingle
    BY <1>1 DEF ProbablySingle, tasks_add, FreeSlots
  <1>2. CASE ProbablyDouble
    <2>1. buttonPendingSinglePress \in TaskSlot
      BY <1>2 DEF ProbablyDouble, HasPending
    <2>2. tasks' \in [TaskSlot -> 0 .. SingleWait]
      BY <1>2, <2>1 DEF ProbablyDouble, tasks_del
    <2> QED BY <1>2, <2>2 DEF ProbablyDouble
  <1>3. CASE CancelsNothing BY <1>3 DEF CancelsNothing, statics
  <1>4. CASE DefiniteDouble \/ DefiniteLong \/ Undefined
    BY <1>4, Ages DEF DefiniteDouble, DefiniteLong, Undefined
  <1> QED BY <1>1, <1>2, <1>3, <1>4 DEF Acts

(* What the two builds do to the report and the decision in the first.     *)
LEMMA Reported ==
  ASSUME TypeOK, branch = "none",
         (simple /\ SimpleGesture) \/ (~simple /\ ThreeGestures)
  PROVE  /\ gesture' \in 0 .. 3 /\ reportAge' \in Age /\ branch' \in Branch
         /\ simple => branch' = "none"
         /\ gesture' # 0 => pin = RESET /\ reportAge' = 0
         /\ gesture' = 0 => reportAge' = reportAge
         /\ TakenForShort => pin = RESET /\ HoldIsShort
         /\ TakenForLong => pin = RESET /\ HoldIsLong
  <1> USE DEF TypeOK, NoReport, Report, Branch, TakenForShort, TakenForLong
  <1>1. CASE simple /\ SimpleGesture BY <1>1, Ages DEF SimpleGesture
  <1>2. CASE ~simple /\ ThreeGestures
    BY <1>2, Ages DEF ThreeGestures, Decided, RESET, SET
  <1> QED BY <1>1, <1>2

(* Every step keeps the invariant, one step of the proof per action. *)
LEMMA NextInv == Inv /\ [Next]_vars => Inv'
  <1> SUFFICES ASSUME Inv, [Next]_vars PROVE Inv' OBVIOUS
  <1> USE DEF Inv
  <1>1. CASE Toggle
    <2>1. TypeOK' BY <1>1, Ages DEF Toggle, statics, TypeOK, RESET, SET
    <2>2. HoldCovers'
      BY <1>1, Ages DEF Toggle, statics, TypeOK, HoldCovers, RESET, SET
    <2>3. ReportsAreFalls' BY <1>1 DEF Toggle, statics, ReportsAreFalls
    <2> QED BY <2>1, <2>2, <2>3
  <1>2. CASE Tick
    <2>1. tasks' \in [TaskSlot -> 0 .. SingleWait] BY <1>2 DEF Tick, TypeOK
    <2>2. TypeOK' BY <1>2, <2>1, Ages DEF Tick, TypeOK
    <2>3. HoldCovers' BY <1>2, Ages DEF Tick, TypeOK, HoldCovers, RESET, SET
    <2>4. ReportsAreFalls'
      <3> SUFFICES ASSUME simple' PROVE ReportsAreFalls' BY DEF ReportsAreFalls
      <3>1. /\ simple /\ lastFall <= reportAge /\ branch = "none"
            /\ tasks = [i \in TaskSlot |-> 0]
        BY <1>2 DEF Tick, ReportsAreFalls
      <3>2. \A i \in TaskSlot : ~Due(i) BY <3>1 DEF Due
      <3>3. reportAge' = Older(reportAge) /\ lastFall' = Older(lastFall)
        BY <1>2, <3>2 DEF Tick
      <3>4. tasks' = [i \in TaskSlot |-> 0] /\ branch' = "none"
        BY <1>2, <3>1 DEF Tick
      <3> QED BY <3>1, <3>3, <3>4, Ages DEF ReportsAreFalls, TypeOK
    <2> QED BY <2>2, <2>3, <2>4
  <1>3. CASE ButtonISR
    <2>1. CASE Debounced /\ UNCHANGED <<lastRise, lastFall, branch>> /\ NoReport
      <3>1. irq' \in BOOLEAN BY <1>3 DEF ButtonISR
      <3>2. simple' \in BOOLEAN BY <1>3 DEF ButtonISR, TypeOK
      <3>3. gesture' \in 0 .. 3 /\ branch' \in Branch BY <2>1 DEF NoReport, TypeOK
      <3>4. TypeOK'
        BY <1>3, <2>1, <3>1, <3>2, <3>3 DEF ButtonISR, NoReport, button, TypeOK
      <3> QED
        BY <1>3, <2>1, <3>4 DEF ButtonISR, NoReport, button, HoldCovers, ReportsAreFalls
    <2>2. CASE /\ ~Debounced
               /\ lastRise' = IF pin = SET THEN 0 ELSE lastRise
               /\ lastFall' = IF pin = RESET THEN 0 ELSE lastFall
               /\ (simple /\ SimpleGesture) \/ (~simple /\ ThreeGestures)
      <3>0. branch = "none" BY <1>3 DEF ButtonISR
      <3>1. TypeOK'
        BY <1>3, <2>2, <3>0, Reported, Ages DEF ButtonISR, button, TypeOK
      <3>2. HoldCovers'
        BY <1>3, <2>2 DEF ButtonISR, button, HoldCovers, RESET, SET
      <3>3. ReportsAreFalls'
        BY <1>3, <2>2, <3>0, Reported, Ages
        DEF ButtonISR, button, ReportsAreFalls, TypeOK, RESET, SET
      <3> QED BY <3>1, <3>2, <3>3
    <2> QED BY <1>3, <2>1, <2>2 DEF ButtonISR
  <1>4. CASE Acts
    <2>1. TypeOK' BY <1>4, Scheduled DEF button, TypeOK
    <2>2. HoldCovers' /\ ReportsAreFalls'
      BY <1>4, Scheduled DEF button, HoldCovers, ReportsAreFalls
    <2> QED BY <2>1, <2>2
  <1>5. CASE UNCHANGED vars
    BY <1>5 DEF vars, button, statics, TypeOK, HoldCovers, ReportsAreFalls
  <1> QED BY <1>1, <1>2, <1>3, <1>4, <1>5 DEF Next

THEOREM Invariant == Spec => []Inv
  BY InitInv, NextInv, PTL DEF Spec

(* The state keeps its types: in particular the pending single press is    *)
(* one of the scheduler's slots, or none.                                  *)
THEOREM TypeCorrect == Spec => []TypeOK
  BY Invariant, PTL DEF Inv

(* For all limits: no press is ever taken for a shorter one, however its   *)
(* edges bounce, merge or are debounced away.                              *)
THEOREM NoLonger == Spec => PressWasNoLonger
  <1> DEFINE Step == ButtonISR => /\ TakenForShort => pressLen <= ShortMax
                                  /\ TakenForLong => pressLen <= LongMax
  <1>1. Inv /\ [Next]_vars => [Step]_vars
    <2> SUFFICES ASSUME Inv, ButtonISR PROVE Step OBVIOUS
    <2> USE DEF Inv
    <2>1. CASE NoReport /\ UNCHANGED branch
      BY <2>1 DEF ButtonISR, NoReport, TakenForShort, TakenForLong
    <2>2. CASE (simple /\ SimpleGesture) \/ (~simple /\ ThreeGestures)
      <3>1. /\ TakenForShort => pin = RESET /\ HoldIsShort
            /\ TakenForLong => pin = RESET /\ HoldIsLong
        BY <2>2, Reported DEF ButtonISR
      <3>2. pin = RESET => pressLen <= lastRise
        BY DEF ButtonISR, HoldCovers
      <3> QED BY <3>1, <3>2, Ages DEF HoldIsShort, HoldIsLong, TypeOK
    <2> QED BY <2>1, <2>2 DEF ButtonISR
  <1> QED BY <1>1, Invariant, PTL DEF Spec, PressWasNoLonger

(* For all limits: in the two-gesture build two reports are further apart  *)
(* than the debounce time.                                                 *)
THEOREM AreApart == Spec => ReportsApart
  <1> DEFINE Step == simple /\ gesture' # 0 => reportAge > Debounce
  <1>1. Inv /\ [Next]_vars => [Step]_vars
    <2> SUFFICES ASSUME Inv, Next, simple, gesture' # 0 PROVE reportAge > Debounce
      OBVIOUS
    <2> USE DEF Inv
    <2>1. ~Toggle BY DEF Toggle
    <2>2. ~Tick
      <3>1. \A i \in TaskSlot : ~Due(i) BY DEF ReportsAreFalls, Due
      <3> QED BY <3>1 DEF Tick
    <2>3. ~Acts BY Scheduled DEF ReportsAreFalls
    <2>4. CASE ButtonISR
      <3>1. ~Debounced BY <2>4 DEF ButtonISR, NoReport
      <3>2. lastFall > Debounce BY <3>1, Ages DEF Debounced, TypeOK
      <3> QED BY <3>2, Ages DEF ReportsAreFalls, TypeOK
    <2> QED BY <2>1, <2>2, <2>3, <2>4 DEF Next
  <1> QED BY <1>1, Invariant, PTL DEF Spec, ReportsApart
=============================================================================
