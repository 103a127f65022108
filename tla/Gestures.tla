------------------------------ MODULE Gestures ------------------------------
(***************************************************************************)
(* The main button: ButtonISR of Src/isr.c, which turns edges of the       *)
(* button's pin into gestures, and the scheduler of Src/task_mgr.c, whose  *)
(* one client is the single press of the three-gesture build.              *)
(*                                                                         *)
(* The pin is not the handler: it may change again before the handler      *)
(* runs, which then reads the level of that later moment, less than a tick *)
(* later.  The timer's interrupt (priority 2) preempts the handler (3),    *)
(* which in the three-gesture build has read buttonPendingSinglePress      *)
(* before it acts; the handler never preempts the timer.  Time is in       *)
(* ticks of LPTIM1, about 100 ms.  The code only ever compares distances   *)
(* between times, so a time is kept as its age, up to Oldest, and a task   *)
(* as the ticks left until it is due (0 is a free slot, when <= ticks).    *)
(* LEDBlink returns at once in this revision and schedules nothing.        *)
(***************************************************************************)
EXTENDS Naturals

CONSTANTS TaskMax,               \* TASK_MAX
          Debounce,              \* 100 ms
          ShortMax,              \* 1500 ms
          LongMin, LongMax,      \* 2001 ms and 8000 ms
          SingleWait,            \* 15 ticks
          NULL,
          SimpleModes            \* whether SIMPLE_TWO_GESTURE_MODE is defined

ASSUME GesturesAssumption ==
  /\ TaskMax \in Nat \ {0} /\ SingleWait \in Nat \ {0}
  /\ Debounce \in Nat /\ ShortMax \in Nat /\ LongMin \in Nat /\ LongMax \in Nat
  /\ Debounce < ShortMax /\ ShortMax < LongMin /\ LongMin <= LongMax
  /\ NULL \notin 0 .. TaskMax - 1
  /\ SimpleModes \subseteq BOOLEAN

VARIABLES
  simple,                \* the build: fixed from the start
  pin, pinAge,           \* the button's level, and for how long
  irq,                   \* an edge is waiting for its handler
  branch,                \* the handler is about to act on its decision
  pressLen,              \* history: how long the last press really was
  lastRise, lastFall,    \* the handler's static variables, as ages
  lastEdge,
  buttonPendingSinglePress,
  tasks,                 \* ticks until each task is due
  gesture,               \* the gesture reported by this very step, or 0
  reportAge              \* history: ticks since the last report

statics == <<lastRise, lastFall, lastEdge, buttonPendingSinglePress>>
button == <<pin, pinAge, pressLen>>
vars == <<simple, button, irq, branch, statics, tasks, gesture, reportAge>>

Oldest == LongMax + 1
Age == 0 .. Oldest
Older(age) == IF age < Oldest THEN age + 1 ELSE age
TaskSlot == 0 .. TaskMax - 1
RESET == 0
SET == 1
Branch == {"none", "single", "cancel", "double", "long", "undefined", "fault"}

TypeOK ==
  /\ simple \in BOOLEAN
  /\ pin \in {RESET, SET} /\ pinAge \in Age /\ pressLen \in Age
  /\ irq \in BOOLEAN /\ branch \in Branch
  /\ lastRise \in Age /\ lastFall \in Age /\ lastEdge \in {RESET, SET}
  /\ buttonPendingSinglePress \in TaskSlot \cup {NULL}
  /\ tasks \in [TaskSlot -> 0 .. SingleWait]
  /\ gesture \in 0 .. 3
  /\ reportAge \in Age

(* At boot the button may be down, and the clock at any time.              *)
Init ==
  /\ simple \in SimpleModes
  /\ pin \in {RESET, SET} /\ pinAge = 0 /\ pressLen = 0
  /\ irq = FALSE /\ branch = "none"
  /\ lastRise \in Age /\ lastFall = lastRise /\ lastEdge = RESET
  /\ buttonPendingSinglePress = NULL
  /\ tasks = [i \in TaskSlot |-> 0]
  /\ gesture = 0
  /\ reportAge = Oldest

-----------------------------------------------------------------------------
(* The person at the button                                                *)

Toggle ==
  /\ pin' = SET - pin
  /\ pinAge' = 0
  /\ pressLen' = IF pin = SET THEN pinAge ELSE pressLen
  /\ irq' = TRUE
  /\ gesture' = 0
  /\ UNCHANGED <<simple, branch, statics, tasks, reportAge>>

-----------------------------------------------------------------------------
(* The scheduler                                                           *)

Due(i) == tasks[i] = 1

(* A tick runs every task that is due.  ButtonTask_SinglePress reports the *)
(* gesture and forgets its handle.  The handler may be in the middle.      *)
Tick ==
  /\ ~irq /\ branch # "fault"
  /\ tasks' = [i \in TaskSlot |-> IF tasks[i] > 0 THEN tasks[i] - 1 ELSE 0]
  /\ \/ /\ \A i \in TaskSlot : ~Due(i)
        /\ gesture' = 0
        /\ reportAge' = Older(reportAge)
        /\ UNCHANGED buttonPendingSinglePress
     \/ /\ \E i \in TaskSlot : Due(i)
        /\ gesture' = 1
        /\ reportAge' = 0
        /\ buttonPendingSinglePress' = NULL
  /\ pinAge' = Older(pinAge)
  /\ lastRise' = Older(lastRise) /\ lastFall' = Older(lastFall)
  /\ UNCHANGED <<simple, pin, pressLen, irq, branch, lastEdge>>

(* tasks_add: the first free slot, or NULL; tasks_del frees a slot.  The   *)
(* mutant counts from the tick to come.                                    *)
FreeSlots == {i \in TaskSlot : tasks[i] = 0}

tasks_add_late(left) ==
  \E i \in FreeSlots :
    buttonPendingSinglePress' = i /\ tasks' = [tasks EXCEPT ![i] = left + 1]

tasks_add(left) ==
  \/ /\ FreeSlots = {}
     /\ buttonPendingSinglePress' = NULL
     /\ UNCHANGED tasks
  \/ \E i \in FreeSlots :
       /\ \A j \in FreeSlots : i <= j
       /\ buttonPendingSinglePress' = i
       /\ tasks' = [tasks EXCEPT ![i] = left]

tasks_del(i) == tasks' = [tasks EXCEPT ![i] = 0]

-----------------------------------------------------------------------------
(* ButtonISR                                                               *)

(* The mutant takes every change of level for an edge.                     *)
DebouncedByLevel == pin = lastEdge
Debounced == pin = lastEdge \/ lastRise <= Debounce \/ lastFall <= Debounce

(* hold is measured from the last rise that was not debounced away.  The   *)
(* mutant leaves no gap between a short and a long press.                  *)
HoldUpToLong == lastRise < LongMin
HoldIsShort == lastRise <= ShortMax
HoldIsLong == LongMin <= lastRise /\ lastRise <= LongMax

Report(g) == gesture' = g /\ reportAge' = 0
NoReport == gesture' = 0 /\ UNCHANGED reportAge

(* SIMPLE_TWO_GESTURE_MODE                                                 *)
SimpleGesture ==
  /\ \/ pin = RESET /\ HoldIsShort /\ Report(1)
     \/ pin = RESET /\ ~HoldIsShort /\ HoldIsLong /\ Report(3)
     \/ (pin = SET \/ ~(HoldIsShort \/ HoldIsLong)) /\ NoReport
  /\ UNCHANGED branch

(* The three-gesture build: a single press is only probable until no       *)
(* second one has followed it for SingleWait ticks.                        *)
HasPending == buttonPendingSinglePress # NULL

Decided ==
  CASE pin = RESET /\ ~HasPending /\ HoldIsShort -> "single"
    [] pin = SET /\ HasPending                    -> "cancel"
    [] pin = RESET /\ HasPending /\ HoldIsShort   -> "double"
    [] pin = RESET /\ ~HasPending /\ ~HoldIsShort /\ HoldIsLong -> "long"
    [] OTHER                                      -> "undefined"

ThreeGestures == branch' = Decided /\ NoReport

ButtonISR ==
  /\ irq /\ branch = "none"
  /\ irq' = FALSE
  /\ lastEdge' = pin
  /\ \/ /\ Debounced
        /\ NoReport
        /\ UNCHANGED <<lastRise, lastFall, branch>>
     \/ /\ ~Debounced
        /\ lastRise' = IF pin = SET THEN 0 ELSE lastRise
        /\ lastFall' = IF pin = RESET THEN 0 ELSE lastFall
        /\ \/ simple /\ SimpleGesture
           \/ ~simple /\ ThreeGestures
  /\ UNCHANGED <<simple, button, buttonPendingSinglePress, tasks>>

(* What the decision comes to, perhaps a tick later.                       *)
Ends(b) ==
  /\ branch = b /\ branch' = "none"
  /\ UNCHANGED <<simple, button, irq, lastRise, lastFall, lastEdge>>

ProbablySingle == Ends("single") /\ tasks_add(SingleWait) /\ NoReport

ProbablyDouble ==
  /\ Ends("cancel") /\ HasPending
  /\ tasks_del(buttonPendingSinglePress)
  /\ NoReport
  /\ UNCHANGED buttonPendingSinglePress

(* The single press was reported in between: tasks_del clears memory at    *)
(* NULL, which is flash.  The write is dropped, or a fault never returns.  *)
CancelsNothing ==
  /\ branch = "cancel" /\ ~HasPending
  /\ branch' \in {"none", "fault"}
  /\ NoReport
  /\ UNCHANGED <<simple, button, irq, statics, tasks>>

DefiniteDouble ==
  /\ Ends("double")
  /\ buttonPendingSinglePress' = NULL
  /\ Report(2)
  /\ UNCHANGED tasks

DefiniteLong ==
  /\ Ends("long")
  /\ Report(3)
  /\ UNCHANGED <<buttonPendingSinglePress, tasks>>

Undefined ==
  /\ Ends("undefined")
  /\ buttonPendingSinglePress' = NULL
  /\ NoReport
  /\ UNCHANGED tasks

Acts ==
  \/ ProbablySingle \/ ProbablyDouble \/ CancelsNothing
  \/ DefiniteDouble \/ DefiniteLong \/ Undefined

Next == Toggle \/ Tick \/ ButtonISR \/ Acts

Spec == Init /\ [][Next]_vars

-----------------------------------------------------------------------------
(* A press that is taken for a short one, reported at once or decided to   *)
(* be a single or double one, really was short, and one that is taken for  *)
(* a long one was not longer than that, however the button bounced and     *)
(* however many of its edges the handler missed or debounced away.  (A     *)
(* hold is measured from an earlier rise when the last was debounced away: *)
(* it is never too short, but a short press may be taken for a long one.)  *)
TakenForShort == gesture' \in {1, 2} \/ branch' \in {"single", "double"}
TakenForLong == gesture' = 3 \/ branch' = "long"
PressWasNoLonger ==
  [][ButtonISR => /\ TakenForShort => pressLen <= ShortMax
                  /\ TakenForLong => pressLen <= LongMax]_vars

(* A bouncing release is reported once: in the two-gesture build any two   *)
(* reports are further apart than the debounce time.                       *)
ReportsApart == [][simple /\ gesture' # 0 => reportAge > Debounce]_vars
=============================================================================
