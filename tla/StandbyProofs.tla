---------------------------- MODULE StandbyProofs ---------------------------
(***************************************************************************)
(* Proofs about Standby, for every length of the queue, and all intervals  *)
(* and restrictions.                                                       *)
(*                                                                         *)
(* The inductive invariant has a part for each property.                   *)
(*  TimerInv: the timer fires with what is due, or every second            *)
(*    (TimerFits); what main concluded before its call of HW_RTCWUTSet is  *)
(*    what is due, before or after the one second that may pass, unless    *)
(*    something was due within that second, whose handler has run          *)
(*    (ConcludedFits).  This is for durations that fit the timer           *)
(*    (SettableInv): after a longer one it fires at the wrong times.       *)
(*  AdcInv: the ADC is off from the call of HW_EnterStopMode only, and     *)
(*    whoever ends STOP mode knows by hwSlept that it is.                  *)
(*  HeartbeatInv: the heartbeat fits the interval, but between a network's *)
(*    answer and CountTrials.                                              *)
(*  RestrictionInv: a second of a restriction is left when the device      *)
(*    stops, as one at most has passed.                                    *)
(***************************************************************************)
EXTENDS Standby, TLAPS

Due == Nat \cup {None}
left == Earliest(dutycycle_due, schedmsg_due)

TimerFits ==
  /\ wut = None <=> period = None
  /\ wut # 0 /\ period # 0
  /\ wutIrq => wut # None /\ wut = period
  /\ left # None /\ pc \notin Concluding
       => /\ wut # None
          /\ ~wutIrq => wut <= left + 1 /\ (left <= wut \/ period = 1)
          /\ wutIrq => left = 0 \/ period = 1

ConcludedFits ==
  left # None /\ pc \in Concluding
    => /\ due # None
       /\ \/ due <= 1
          \/ due = left /\ ~ticked
          \/ due = left + 1 /\ ticked

TimerInv == TimerFits /\ ConcludedFits

AdcInv == MainHasAdc /\ (pc \in {"stop", "woken"} => adc \/ hwSlept)

TrialsInv ==
  /\ pc = "joining" => joinTrials = 1 /\ DutyCycleWaitTime = 0
  /\ joinTrials = 1 => pc \in {"joining", "sent"} /\ DutyCycleWaitTime = 0

HeartbeatFits == schedmsg_due = None <=> sendInterval = 0
HeartbeatInv ==
  /\ joined /\ ~changed /\ ~missed => HeartbeatFits \/ joinTrials = 1
  /\ joined /\ ~missed /\ pc \in {"set wakeup", "save"} => HeartbeatFits

RestrictionInv ==
  pc \in {"prepare", "deinit"} /\ DutyCycleWaitTime >= 1000
    => /\ dutycycle_due # None
       /\ dutycycle_due >= 1 /\ (~ticked => dutycycle_due >= 2)

(* What is due, and what main concluded, fits the timer.                   *)
FitsTimer(d) == d = None \/ d < 2 * Half
SettableInv ==
  FitsTimer(dutycycle_due) /\ FitsTimer(schedmsg_due) /\ FitsTimer(due)

(* All durations are such that the 17 bits of the timer can count them.    *)
Settable ==
  /\ \A i \in Intervals : i < 2 * Half
  /\ \A w \in WaitTimes : w \div 1000 < 2 * Half

(* Restrictions are short, or of two seconds and more. *)
LongRestrictions == \A w \in WaitTimes : w < 1000 \/ w >= 2000

USE StandbyAssumption

-----------------------------------------------------------------------------
(* The operators of PrepareWakeup *)

LEMMA EarliestIsFirst ==
  ASSUME NEW d \in Due, NEW s \in Due
  PROVE  /\ Earliest(d, s) \in Due
         /\ Earliest(d, s) = None <=> d = None /\ s = None
         /\ d # None => Earliest(d, s) <= d
         /\ s # None => Earliest(d, s) <= s
         /\ Earliest(d, s) = d \/ Earliest(d, s) = s
  BY DEF Due, Earliest

LEMMA LessType ==
  ASSUME NEW t \in Due
  PROVE  /\ Less(t) \in Due
         /\ Less(t) = None <=> t = None
         /\ t # None /\ t # 0 => Less(t) = t - 1
         /\ t = 0 => Less(t) = 0
  BY DEF Due, Less

(* A second brings what is due first nearer by one. *)
LEMMA EarliestLess ==
  ASSUME NEW d \in Due, NEW s \in Due
  PROVE  Earliest(Less(d), Less(s)) = Less(Earliest(d, s))
  BY DEF Due, Earliest, Less

LEMMA AfterType ==
  ASSUME NEW n \in Nat
  PROVE  After(n) \in Due /\ (After(n) = None <=> n = 0) /\ After(n) # 0
  BY DEF Due, After

LEMMA TimerType ==
  ASSUME NEW d \in Due, SetsTimer(d)
  PROVE  wut' \in Due /\ period' = wut'
  <1>1. CASE d = None BY <1>1 DEF SetsTimer, Due
  <1>2. CASE d # None
    <2> DEFINE n == IF d = 0 THEN 1 ELSE d
               cut == (n - 1) % Half
    <2>1. n \in Nat \ {0} BY <1>2 DEF Due
    <2>2. wut' = (IF n <= Half THEN n ELSE cut + Half + 1) /\ period' = wut'
      BY <1>2 DEF SetsTimer, HW_RTCWUTSet, Reload
    <2> HIDE DEF n
    <2>3. cut \in Nat BY <2>1
    <2> HIDE DEF cut
    <2> QED BY <2>1, <2>2, <2>3 DEF Due
  <1> QED BY <1>1, <1>2

(* What the timer can count: with its 17 bits, up to twice one half.       *)
Fits(d) == d = None \/ d <= 2 * Half

LEMMA TimerIsSet ==
  ASSUME NEW d \in Due, Fits(d), SetsTimer(d)
  PROVE  /\ wut' \in Due /\ period' = wut' /\ wut' # 0
         /\ wut' = None <=> d = None
         /\ d # None => d <= wut' /\ wut' <= d + 1 /\ (d # 0 => wut' = d)
         /\ d = 0 => wut' = 1
  <1>1. CASE d = None BY <1>1, TimerType DEF SetsTimer
  <1>2. CASE d # None
    <2> DEFINE n == IF d = 0 THEN 1 ELSE d
    <2>1. n \in Nat \ {0} /\ n <= 2 * Half BY <1>2 DEF Due, Fits
    <2>2. /\ period' = wut'
          /\ wut' = (IF n <= Half THEN n ELSE ((n - 1) % Half) + Half + 1)
      BY <1>2 DEF SetsTimer, HW_RTCWUTSet, Reload
    <2>3. n <= d + 1 /\ d <= n /\ (d # 0 => n = d) /\ (d = 0 => n = 1)
      BY <1>2 DEF Due
    <2> HIDE DEF n
    <2>4. n > Half => (n - 1) % Half = n - 1 - Half
      <3> SUFFICES ASSUME n > Half PROVE (n - 1) % Half = n - 1 - Half OBVIOUS
      <3> DEFINE m == n - 1
                 q == m \div Half
                 t == m % Half
      <3>1. m \in Nat /\ Half <= m /\ m < 2 * Half BY <2>1
      <3> HIDE DEF m
      <3>2. m = Half * q + t /\ q \in Nat /\ t \in 0 .. Half - 1 BY <3>1
      <3> HIDE DEF q, t
      <3>3. q >= 1
        <4> SUFFICES ASSUME q = 0 PROVE FALSE BY <3>2
        <4> QED BY <3>1, <3>2
      <3>4. q < 2
        <4> SUFFICES ASSUME q >= 2 PROVE FALSE BY <3>2
        <4>1. Half * q >= Half * 2 BY <3>2
        <4> QED BY <3>1, <3>2, <4>1
      <3>5. q = 1 BY <3>2, <3>3, <3>4
      <3>6. t = m - Half BY <3>1, <3>2, <3>5
      <3> QED BY <3>6 DEF t, m
    <2>5. wut' = n BY <2>1, <2>2, <2>4
    <2> QED BY <1>2, <2>1, <2>2, <2>3, <2>5 DEF Due
  <1> QED BY <1>1, <1>2

LEMMA Dues ==
  ASSUME TypeOK
  PROVE  /\ dutycycle_due \in Due /\ schedmsg_due \in Due /\ left \in Due
         /\ due \in Due /\ wut \in Due /\ period \in Due
         /\ sendInterval \in Nat /\ DutyCycleWaitTime \in Nat
  <1>1. /\ dutycycle_due \in Due /\ schedmsg_due \in Due
        /\ due \in Due /\ wut \in Due /\ period \in Due
    BY DEF TypeOK, Due
  <1> QED BY <1>1, EarliestIsFirst DEF TypeOK, left

-----------------------------------------------------------------------------
(* The types *)

LEMMA TypeInit == Init => TypeOK
  <1> SUFFICES ASSUME Init PROVE TypeOK OBVIOUS
  <1>1. /\ queued \in 0 .. QueueLen /\ joinTrials \in 0 .. 1
        /\ DutyCycleWaitTime \in WaitTimes /\ sendInterval \in Intervals
    BY DEF Init
  <1>2. /\ joined \in BOOLEAN /\ changed \in BOOLEAN /\ missed \in BOOLEAN
        /\ ticked \in BOOLEAN /\ wutIrq \in BOOLEAN /\ adc \in BOOLEAN
        /\ hwSlept \in BOOLEAN /\ spinning \in BOOLEAN
    BY Zenon DEF Init
  <1> QED BY <1>1, <1>2 DEF Init, TypeOK

(* A handler's message is one more at most, if there is room. *)
LEMMA Enqueued ==
  ASSUME TypeOK, enqueueToSend
  PROVE  queued' \in 0 .. QueueLen /\ spinning' \in BOOLEAN
  <1>1. QueueLen \in Nat /\ queued \in 0 .. QueueLen BY DEF TypeOK
  <1>2. queued' = queued \/ (queued < QueueLen /\ queued' = queued + 1)
    BY Zenon DEF enqueueToSend, HasRoom
  <1> QED BY <1>1, <1>2 DEF enqueueToSend

LEMMA PreparesType ==
  ASSUME NEW d \in Due, NEW s \in Due, NEW label, Prepares(d, s, label)
  PROVE  dutycycle_due' \in Due /\ schedmsg_due' \in Due /\ due' \in Due /\ ticked' \in BOOLEAN
  BY EarliestIsFirst DEF Prepares

LEMMA ZeroTrials == \A n : n = 0 => n \in 0 .. 1 /\ n # 1
  OBVIOUS

LEMMA OneTrial == \A n : n = 1 => n > 0
  OBVIOUS

LEMMA TrialsInit == Init => TrialsInv
  BY DEF Init, TrialsInv

(* The number of trials is one between a request to join and its answer,   *)
(* and none else.                                                          *)
LEMMA TrialsStep ==
  ASSUME TypeOK, TrialsInv, [Next]_vars
  PROVE  TrialsInv' /\ joinTrials' \in 0 .. 1
  <1> USE DEF TypeOK, TrialsInv, network, radio, MainAt
  <1>1. CASE SecondPasses BY <1>1 DEF SecondPasses
  <1>2. CASE ButtonIrq BY <1>2 DEF ButtonIrq, EndsWFI
  <1>3. CASE NfcIrq BY <1>3 DEF NfcIrq, EndsWFI
  <1>4. CASE WakeUpIrq BY <1>4 DEF WakeUpIrq, EndsWFI
  <1>5. CASE Reschedule BY <1>5 DEF Reschedule, Prepares
  <1>6. CASE SetWakeup \/ ForgetChanges \/ StayAwake \/ PrepareStop \/ EnterStop \/ WakeUp
    BY <1>6 DEF SetWakeup, ForgetChanges, StayAwake, PrepareStop, EnterStop, WakeUp
  <1>7. CASE Transmit BY <1>7 DEF Transmit
  <1>8. CASE LRW_Join BY <1>8 DEF LRW_Join
  <1>9. CASE JoinEnds BY <1>9 DEF JoinEnds
  <1>10. CASE CountTrials
    <2>1. pc = "sent" /\ joinTrials \in 0 .. 1 /\ UNCHANGED DutyCycleWaitTime
      BY <1>10 DEF CountTrials
    <2>2. joinTrials = 1 => DutyCycleWaitTime = 0 OBVIOUS
    <2>3. Tried <=> joinTrials = 1 BY <2>1 DEF Tried
    <2>4. joinTrials' = 0 \/ joinTrials' = joinTrials BY <1>10, Zenon DEF CountTrials
    <2>5. joinTrials = 1 => joinTrials' = 0
      BY <1>10, <2>2, <2>3, Zenon DEF CountTrials
    <2>6. joinTrials' = 0 BY <2>1, <2>4, <2>5
    <2>7. pc' # "joining" BY <1>10 DEF CountTrials, Prepares
    <2>8. joinTrials' \in 0 .. 1 /\ joinTrials' # 1 BY <2>6, ZeroTrials
    <2> QED BY <2>7, <2>8, Zenon
  <1>11. CASE Sleep BY <1>11 DEF Sleep, Prepares
  <1>12. CASE UNCHANGED vars BY <1>12 DEF vars
  <1> QED
    BY <1>1, <1>2, <1>3, <1>4, <1>5, <1>6, <1>7, <1>8, <1>9, <1>10, <1>11, <1>12
    DEF Next, MainLoop

(* The type invariant in three parts, for the steps that leave most of the *)
(* state alone.                                                            *)
Places == {"config", "set wakeup", "save", "send", "joining", "sent",
           "set heartbeat", "sleep", "prepare", "deinit", "stop", "woken"}
PlaceOK == /\ pc \in Places /\ queued \in 0 .. QueueLen
           /\ DutyCycleWaitTime \in WaitTimes /\ joinTrials \in 0 .. 1
           /\ sendInterval \in Intervals
FlagsOK == /\ joined \in BOOLEAN /\ changed \in BOOLEAN /\ missed \in BOOLEAN
           /\ ticked \in BOOLEAN /\ wutIrq \in BOOLEAN /\ adc \in BOOLEAN
           /\ hwSlept \in BOOLEAN /\ spinning \in BOOLEAN
DuesOK == /\ dutycycle_due \in Due /\ schedmsg_due \in Due
          /\ due \in Due /\ wut \in Due /\ period \in Due

LEMMA TypeParts == TypeOK => PlaceOK /\ FlagsOK /\ DuesOK
  BY Zenon DEF TypeOK, PlaceOK, FlagsOK, DuesOK, Places, Due

LEMMA PartsAreTyped == PlaceOK' /\ FlagsOK' /\ DuesOK' => TypeOK'
  BY Zenon DEF TypeOK, PlaceOK, FlagsOK, DuesOK, Places, Due

LEMMA DuesKept ==
  ASSUME TypeOK, UNCHANGED <<dutycycle_due, schedmsg_due, due, wut, period>>
  PROVE  DuesOK'
  BY TypeParts, Zenon DEF DuesOK

LEMMA TypeStep ==
  ASSUME TypeOK, TrialsInv, [Next]_vars
  PROVE  TypeOK'
  <1>0. joinTrials' \in 0 .. 1 BY TrialsStep
  <1> USE DEF radio, network, config, dues, concluded, timer, power
  <1>1. CASE SecondPasses
    <2>1. dutycycle_due' \in Due /\ schedmsg_due' \in Due /\ wut' \in Due
      BY <1>1, Dues, LessType DEF SecondPasses
    <2>2. ticked' \in BOOLEAN /\ wutIrq' \in BOOLEAN BY <1>1, Zenon DEF SecondPasses
    <2>3. UNCHANGED <<pc, queued, DutyCycleWaitTime, joined, sendInterval, changed,
                missed, due, period, adc, hwSlept, spinning>>
      BY <1>1, Zenon DEF SecondPasses
    <2>4. DuesOK' BY <2>1, <2>2, <2>3, TypeParts, Zenon DEF DuesOK
    <2>5. FlagsOK' BY <2>1, <2>2, <2>3, TypeParts, Zenon DEF FlagsOK
    <2>6. PlaceOK' BY <1>0, <2>1, <2>2, <2>3, TypeParts, Zenon DEF PlaceOK, Places
    <2> QED BY <2>4, <2>5, <2>6, PartsAreTyped
  <1>2. CASE ButtonIrq
    <2>1. adc' \in BOOLEAN /\ hwSlept' \in BOOLEAN BY <1>2 DEF ButtonIrq, HW_ExitStopMode, TypeOK
    <2>2. queued' \in 0 .. QueueLen BY <1>2, Enqueued DEF ButtonIrq, TypeOK
    <2>3. spinning' \in BOOLEAN BY <1>2, Enqueued DEF ButtonIrq, TypeOK
    <2>4. pc' \in Places
      BY <1>2 DEF ButtonIrq, EndsWFI, TypeOK, Places
    <2> QED BY <1>2, <2>1, <2>2, <2>3, <2>4 DEF ButtonIrq, TypeOK, Places
  <1>3. CASE NfcIrq
    <2>1. adc' \in BOOLEAN /\ hwSlept' \in BOOLEAN BY <1>3 DEF NfcIrq, HW_ExitStopMode, TypeOK
    <2>2. /\ joined' \in BOOLEAN /\ sendInterval' \in Intervals
          /\ changed' \in BOOLEAN /\ missed' \in BOOLEAN
      BY <1>3 DEF NfcIrq, TypeOK
    <2>3. pc' \in Places
      BY <1>3 DEF NfcIrq, EndsWFI, TypeOK, Places
    <2> QED BY <1>3, <2>1, <2>2, <2>3 DEF NfcIrq, TypeOK, Places
  <1>4. CASE WakeUpIrq
    <2>1. dutycycle_due' \in Due /\ schedmsg_due' \in Due
      BY <1>4, Dues, AfterType DEF WakeUpIrq, Due
    <2>2. wut' \in Due /\ period' \in Due
      <3>1. Earliest(dutycycle_due', schedmsg_due') \in Due BY <2>1, EarliestIsFirst
      <3>2. CASE UNCHANGED timer BY <3>2, Dues
      <3>3. CASE SetsTimer(Earliest(dutycycle_due', schedmsg_due'))
        BY <3>1, <3>3, TimerType
      <3>4. CASE /\ Earliest(dutycycle_due', schedmsg_due') # None
                 /\ SetsTimer(Earliest(dutycycle_due', schedmsg_due') + 1)
        <4>1. Earliest(dutycycle_due', schedmsg_due') + 1 \in Due BY <3>1, <3>4 DEF Due
        <4> QED BY <3>4, <4>1, TimerType
      <3> QED BY <1>4, <3>2, <3>3, <3>4 DEF WakeUpIrq
    <2>3. queued' \in 0 .. QueueLen BY <1>4, Enqueued DEF WakeUpIrq, TypeOK
    <2>4. spinning' \in BOOLEAN BY <1>4, Enqueued DEF WakeUpIrq, TypeOK
    <2>5. pc' \in Places
      BY <1>4 DEF WakeUpIrq, EndsWFI, TypeOK, Places
    <2> QED BY <1>4, <2>1, <2>2, <2>3, <2>4, <2>5 DEF WakeUpIrq, TypeOK, Due, Places
  <1>5. CASE Reschedule
    <2>1. dutycycle_due' \in Due /\ schedmsg_due' \in Due /\ due' \in Due /\ ticked' \in BOOLEAN
      <3>1. (IF joined' THEN sendInterval ELSE 0) \in Nat BY Dues
      <3>2. CASE UNCHANGED <<joined, missed, dues, concluded>> BY <3>2, Dues DEF TypeOK
      <3>3. CASE Prepares(dutycycle_due, After(IF joined' THEN sendInterval ELSE 0), "set wakeup")
        BY <3>1, <3>3, Dues, AfterType, PreparesType
      <3> QED BY <1>5, <3>2, <3>3 DEF Reschedule
    <2> QED BY <1>5, <2>1 DEF Reschedule, Prepares, TypeOK, Due
  <1>6. CASE SetWakeup \/ PrepareStop
    <2>1. wut' \in Due /\ period' \in Due
      BY <1>6, Dues, TimerType, ZenonT(60) DEF SetWakeup, PrepareStop
    <2> QED BY <1>6, <2>1, ZenonT(60) DEF SetWakeup, PrepareStop, TypeOK, Due
  <1>7. CASE ForgetChanges
    <2>1. pc' = "send" /\ changed' \in BOOLEAN
      BY <1>7, Zenon DEF ForgetChanges
    <2>2. UNCHANGED <<queued, DutyCycleWaitTime, joined, sendInterval, missed,
                dutycycle_due, schedmsg_due, due, ticked, wut, period,
                wutIrq, adc, hwSlept, spinning>>
      BY <1>7, Zenon DEF ForgetChanges
    <2>3. DuesOK' BY <2>2, DuesKept, Zenon
    <2>4. FlagsOK' BY <2>1, <2>2, TypeParts, Zenon DEF FlagsOK
    <2>5. PlaceOK' BY <1>0, <2>1, <2>2, TypeParts, Zenon DEF PlaceOK, Places
    <2> QED BY <2>3, <2>4, <2>5, PartsAreTyped
  <1>8. CASE Transmit
    <2>1. queued' \in 0 .. QueueLen
      <3>1. queued' = queued \/ (queued > 0 /\ queued' = queued - 1)
        BY <1>8, Zenon DEF Transmit
      <3>2. QueueLen \in Nat /\ queued \in 0 .. QueueLen BY DEF TypeOK
      <3> QED BY <3>1, <3>2
    <2>2. pc' = "sent" BY <1>8, Zenon DEF Transmit
    <2>3. DutyCycleWaitTime' \in WaitTimes
      <3>1. \/ DutyCycleWaitTime' = 0 \/ DutyCycleWaitTime' \in WaitTimes
            \/ UNCHANGED DutyCycleWaitTime
        BY <1>8, Zenon DEF Transmit
      <3>2. 0 \in WaitTimes /\ DutyCycleWaitTime \in WaitTimes BY Zenon DEF TypeOK
      <3> QED BY <3>1, <3>2, Zenon
    <2>4. UNCHANGED <<joined, sendInterval, changed, missed, dutycycle_due,
                schedmsg_due, due, ticked, wut, period, wutIrq, adc, hwSlept,
                spinning>>
      BY <1>8, Zenon DEF Transmit
    <2>5. DuesOK' BY <2>4, DuesKept, Zenon
    <2>6. FlagsOK' BY <2>1, <2>2, <2>3, <2>4, TypeParts, Zenon DEF FlagsOK
    <2>7. PlaceOK' BY <1>0, <2>1, <2>2, <2>3, <2>4, TypeParts, Zenon DEF PlaceOK, Places
    <2> QED BY <2>5, <2>6, <2>7, PartsAreTyped
  <1>9. CASE LRW_Join
    <2>1. pc' \in {"joining", "sent"} /\ DutyCycleWaitTime' \in WaitTimes
      BY <1>9, Zenon DEF LRW_Join
    <2>2. UNCHANGED <<queued, joined, sendInterval, changed, missed, dutycycle_due,
                schedmsg_due, due, ticked, wut, period, wutIrq, adc, hwSlept,
                spinning>>
      BY <1>9, Zenon DEF LRW_Join
    <2>3. DuesOK' BY <2>2, DuesKept, Zenon
    <2>4. FlagsOK' BY <2>1, <2>2, TypeParts, Zenon DEF FlagsOK
    <2>5. PlaceOK' BY <1>0, <2>1, <2>2, TypeParts, Zenon DEF PlaceOK, Places
    <2> QED BY <2>3, <2>4, <2>5, PartsAreTyped
  <1>10. CASE JoinEnds
    <2>1. pc' = "sent" /\ joined' \in {joined, TRUE} BY <1>10, Zenon DEF JoinEnds
    <2>2. joined' \in BOOLEAN BY <2>1, Zenon DEF TypeOK
    <2>3. UNCHANGED <<queued, DutyCycleWaitTime, sendInterval, changed, missed,
                dutycycle_due, schedmsg_due, due, ticked, wut, period,
                wutIrq, adc, hwSlept, spinning>>
      BY <1>10, Zenon DEF JoinEnds
    <2>4. DuesOK' BY <2>3, DuesKept, Zenon
    <2>5. FlagsOK' BY <2>1, <2>2, <2>3, TypeParts, Zenon DEF FlagsOK
    <2>6. PlaceOK' BY <1>0, <2>1, <2>2, <2>3, TypeParts, Zenon DEF PlaceOK, Places
    <2> QED BY <2>4, <2>5, <2>6, PartsAreTyped
  <1>11. CASE CountTrials
    <2>1. dutycycle_due' \in Due /\ schedmsg_due' \in Due /\ due' \in Due /\ ticked' \in BOOLEAN
      <3>1. CASE UNCHANGED <<dues, concluded>> BY <3>1, Dues DEF TypeOK
      <3>2. CASE Prepares(dutycycle_due, After(sendInterval), "set heartbeat")
        BY <3>2, Dues, AfterType, PreparesType
      <3> QED BY <1>11, <3>1, <3>2 DEF CountTrials
    <2> QED BY <1>0, <1>11, <2>1 DEF CountTrials, Prepares, TypeOK, Due
  <1>12. CASE Sleep
    <2>1. dutycycle_due' \in Due /\ schedmsg_due' \in Due /\ due' \in Due /\ ticked' \in BOOLEAN
      <3>1. CASE UNCHANGED <<dues, due>> /\ ticked' = FALSE BY <3>1, Dues
      <3>2. CASE Prepares(DutyCycleWaitTime \div 1000, schedmsg_due, "prepare")
        <4>1. DutyCycleWaitTime \div 1000 \in Due BY Dues DEF Due
        <4> QED BY <3>2, <4>1, Dues, PreparesType
      <3> QED BY <1>12, <3>1, <3>2 DEF Sleep
    <2> QED BY <1>12, <2>1, ZenonT(60) DEF Sleep, Prepares, TypeOK, Due
  <1>13. CASE StayAwake \/ EnterStop
    <2>1. pc' \in {"config", "stop"} /\ hwSlept' \in {hwSlept, TRUE}
      BY <1>13, Zenon DEF StayAwake, EnterStop
    <2>2. hwSlept' \in BOOLEAN BY <2>1, Zenon DEF TypeOK
    <2>3. UNCHANGED <<queued, DutyCycleWaitTime, joined, sendInterval, changed, missed,
                dutycycle_due, schedmsg_due, due, ticked, wut, period, wutIrq, adc,
                spinning>>
      BY <1>13, Zenon DEF StayAwake, EnterStop
    <2>4. DuesOK' BY <2>3, DuesKept, Zenon
    <2>5. FlagsOK' BY <2>2, <2>3, TypeParts, Zenon DEF FlagsOK
    <2>6. PlaceOK' BY <1>0, <2>1, <2>3, TypeParts, Zenon DEF PlaceOK, Places
    <2> QED BY <2>4, <2>5, <2>6, PartsAreTyped
  <1>14. CASE WakeUp
    <2>1. pc' = "config" BY <1>14, Zenon DEF WakeUp
    <2>2. adc' \in BOOLEAN /\ hwSlept' \in BOOLEAN
      BY <1>14, Zenon DEF WakeUp, HW_ExitStopMode, TypeOK
    <2>3. UNCHANGED <<queued, DutyCycleWaitTime, joined, sendInterval, changed,
                missed, dutycycle_due, schedmsg_due, due, ticked, wut,
                period, wutIrq, spinning>>
      BY <1>14, Zenon DEF WakeUp
    <2>4. DuesOK' BY <2>3, DuesKept, Zenon
    <2>5. FlagsOK' BY <2>1, <2>2, <2>3, TypeParts, Zenon DEF FlagsOK
    <2>6. PlaceOK' BY <1>0, <2>1, <2>2, <2>3, TypeParts, Zenon DEF PlaceOK, Places
    <2> QED BY <2>4, <2>5, <2>6, PartsAreTyped
  <1>15. CASE UNCHANGED vars
    <2>1. /\ joined' \in BOOLEAN /\ changed' \in BOOLEAN /\ missed' \in BOOLEAN
          /\ ticked' \in BOOLEAN /\ wutIrq' \in BOOLEAN /\ adc' \in BOOLEAN
          /\ hwSlept' \in BOOLEAN /\ spinning' \in BOOLEAN
      BY <1>15, Zenon DEF vars, TypeOK
    <2>2. /\ queued' \in 0 .. QueueLen
          /\ dutycycle_due' \in Due /\ schedmsg_due' \in Due
          /\ due' \in Due /\ wut' \in Due /\ period' \in Due
      BY <1>15, Dues, Zenon DEF vars, TypeOK
    <2>3. UNCHANGED <<pc, DutyCycleWaitTime, sendInterval>> BY <1>15 DEF vars
    <2> QED BY <1>0, <2>1, <2>2, <2>3, Zenon DEF TypeOK, Due
  <1> QED
    BY <1>1, <1>2, <1>3, <1>4, <1>5, <1>6, <1>7, <1>8, <1>9, <1>10, <1>11, <1>12,
       <1>13, <1>14, <1>15
    DEF Next, MainLoop

-----------------------------------------------------------------------------
(* The ADC *)

LEMMA AdcInit == Init => AdcInv
  BY DEF Init, AdcInv, MainHasAdc

LEMMA SleepEnds == Sleep => (pc' = "prepare" /\ UNCHANGED adc) \/ pc' = "deinit"
  <1> SUFFICES ASSUME Sleep PROVE (pc' = "prepare" /\ UNCHANGED adc) \/ pc' = "deinit"
    OBVIOUS
  <1> DEFINE d == DutyCycleWaitTime \div 1000
  <1>1. \/ Prepares(d, schedmsg_due, "prepare") /\ UNCHANGED adc
        \/ pc' = "deinit"
    BY ZenonT(60) DEF Sleep
  <1> HIDE DEF d
  <1> QED BY <1>1, Zenon DEF Prepares

(* A handler that finds the ADC on does not wait for it for ever. *)
LEMMA AdcStep ==
  ASSUME TypeOK, AdcInv, [Next]_vars
  PROVE  AdcInv'
  <1> USE DEF AdcInv, MainHasAdc, MainAt, power, EndsWFI
  <1>1. CASE SecondPasses BY <1>1 DEF SecondPasses
  <1>2. CASE ButtonIrq
    <2>1. adc' => ~spinning'
      <3>1. (spinning' = (HasRoom /\ ~adc')) \/ UNCHANGED spinning
        BY <1>2, Zenon DEF ButtonIrq, enqueueToSend
      <3>2. ~spinning BY <1>2 DEF ButtonIrq
      <3> QED BY <3>1, <3>2, Zenon
    <2>2. adc => adc' BY <1>2 DEF ButtonIrq, HW_ExitStopMode
    <2>3. pc = "stop" => adc' BY <1>2 DEF ButtonIrq, HW_ExitStopMode
    <2>4. pc = "woken" => adc' \/ hwSlept' BY <1>2 DEF ButtonIrq, HW_ExitStopMode
    <2> QED BY <1>2, <2>1, <2>2, <2>3, <2>4 DEF ButtonIrq
  <1>3. CASE NfcIrq
    <2>1. adc => adc' BY <1>3 DEF NfcIrq, HW_ExitStopMode
    <2>2. pc = "stop" => adc' \/ hwSlept' BY <1>3 DEF NfcIrq, HW_ExitStopMode
    <2>3. pc = "woken" => adc' \/ hwSlept' BY <1>3 DEF NfcIrq, HW_ExitStopMode
    <2> QED BY <1>3, <2>1, <2>2, <2>3 DEF NfcIrq
  <1>4. CASE WakeUpIrq
    <2>1. adc => ~spinning'
      <3>1. adc' = adc BY <1>4 DEF WakeUpIrq
      <3>2. (spinning' = (HasRoom /\ ~adc')) \/ UNCHANGED spinning
        BY <1>4, Zenon DEF WakeUpIrq, enqueueToSend
      <3>3. ~spinning BY <1>4 DEF WakeUpIrq
      <3> QED BY <3>1, <3>2, <3>3, Zenon
    <2>2. UNCHANGED <<adc, hwSlept>> BY <1>4 DEF WakeUpIrq
    <2> QED BY <1>4, <2>1, <2>2 DEF WakeUpIrq
  <1>5. CASE Reschedule BY <1>5 DEF Reschedule, Prepares
  <1>6. CASE SetWakeup \/ ForgetChanges \/ Transmit \/ LRW_Join \/ JoinEnds \/ StayAwake
    <2>1. /\ adc /\ ~spinning /\ UNCHANGED <<adc, hwSlept, spinning>>
          /\ pc' \notin {"deinit", "stop", "woken"}
      BY <1>6, Zenon
      DEF SetWakeup, ForgetChanges, Transmit, LRW_Join, JoinEnds, StayAwake
    <2> QED BY <2>1
  <1>7. CASE CountTrials BY <1>7 DEF CountTrials, Prepares
  <1>8. CASE Sleep
    <2>1. adc /\ ~spinning /\ UNCHANGED spinning BY <1>8 DEF Sleep
    <2>2. (pc' = "prepare" /\ UNCHANGED adc) \/ pc' = "deinit"
      BY <1>8, SleepEnds, Zenon
    <2> QED BY <2>1, <2>2
  <1>9. CASE PrepareStop \/ EnterStop BY <1>9 DEF PrepareStop, EnterStop
  <1>10. CASE WakeUp BY <1>10 DEF WakeUp, HW_ExitStopMode
  <1>11. CASE UNCHANGED vars BY <1>11 DEF vars
  <1> QED
    BY <1>1, <1>2, <1>3, <1>4, <1>5, <1>6, <1>7, <1>8, <1>9, <1>10, <1>11
    DEF Next, MainLoop

-----------------------------------------------------------------------------
(* The heartbeat *)

LEMMA HeartbeatInit == Init => HeartbeatInv
  BY DEF Init, HeartbeatInv

LEMMA HeartbeatStep ==
  ASSUME TypeOK, TrialsInv, HeartbeatInv, [Next]_vars
  PROVE  HeartbeatInv'
  <1> USE DEF HeartbeatInv, HeartbeatFits, MainAt, config, network, dues
  <1>0. After(sendInterval) = None <=> sendInterval = 0 BY Dues, AfterType
  <1>1. CASE SecondPasses
    <2>1. schedmsg_due' = None <=> schedmsg_due = None
      BY <1>1, Dues, LessType DEF SecondPasses
    <2> QED BY <1>1, <2>1 DEF SecondPasses
  <1>2. CASE ButtonIrq BY <1>2 DEF ButtonIrq, EndsWFI
  <1>3. CASE NfcIrq BY <1>3 DEF NfcIrq, EndsWFI
  <1>4. CASE WakeUpIrq
    <2>1. CASE schedmsg_due = 0
      <3>1. schedmsg_due' = After(sendInterval) BY <1>4, <2>1 DEF WakeUpIrq
      <3> QED BY <1>0, <1>4, <3>1 DEF WakeUpIrq, EndsWFI
    <2>2. CASE schedmsg_due # 0
      <3>1. schedmsg_due' = schedmsg_due BY <1>4, <2>2 DEF WakeUpIrq
      <3> QED BY <1>4, <3>1 DEF WakeUpIrq, EndsWFI
    <2> QED BY <2>1, <2>2
  <1>5. CASE Reschedule
    <2>1. CASE changed
      <3>1. joined' => schedmsg_due' = After(sendInterval)
        BY <1>5, <2>1 DEF Reschedule, Prepares
      <3> QED BY <1>0, <1>5, <2>1, <3>1 DEF Reschedule
    <2>2. CASE ~changed
      <3>1. joined /\ ~missed => HeartbeatFits BY <1>5, <2>2 DEF Reschedule, TrialsInv
      <3>2. UNCHANGED <<joined, missed, schedmsg_due, sendInterval>> /\ pc' = "send"
        BY <1>5, <2>2, Zenon DEF Reschedule
      <3> QED BY <3>1, <3>2
    <2> QED BY <2>1, <2>2
  <1>6. CASE SetWakeup BY <1>6 DEF SetWakeup
  <1>7. CASE ForgetChanges BY <1>7 DEF ForgetChanges
  <1>8. CASE Transmit BY <1>8 DEF Transmit, radio
  <1>9. CASE LRW_Join BY <1>9 DEF LRW_Join
  <1>10. CASE JoinEnds BY <1>10 DEF JoinEnds, TrialsInv
  <1>11. CASE CountTrials
    <2>1. CASE Prepares(dutycycle_due, After(sendInterval), "set heartbeat")
      BY <1>0, <1>11, <2>1 DEF CountTrials, Prepares
    <2>2. CASE UNCHANGED dues /\ ~(DutyCycleWaitTime = 0 /\ joined /\ Tried) /\ pc' = "sleep"
      <3>1. joined => joinTrials # 1
        <4>1. joinTrials = 1 => Tried BY OneTrial, Zenon DEF Tried
        <4> QED BY <2>2, <4>1 DEF TrialsInv
      <3> QED BY <1>11, <2>2, <3>1 DEF CountTrials
    <2> QED BY <1>11, <2>1, <2>2 DEF CountTrials
  <1>12. CASE Sleep BY <1>12, ZenonT(60) DEF Sleep, Prepares
  <1>13. CASE StayAwake \/ PrepareStop \/ EnterStop \/ WakeUp
    <2>1. /\ UNCHANGED <<joined, joinTrials, changed, missed, schedmsg_due, sendInterval>>
          /\ pc' \notin {"set wakeup", "save"}
      BY <1>13, Zenon DEF StayAwake, PrepareStop, EnterStop, WakeUp
    <2> QED BY <2>1
  <1>14. CASE UNCHANGED vars BY <1>14 DEF vars
  <1> QED
    BY <1>1, <1>2, <1>3, <1>4, <1>5, <1>6, <1>7, <1>8, <1>9, <1>10, <1>11, <1>12,
       <1>13, <1>14
    DEF Next, MainLoop

-----------------------------------------------------------------------------
(* Restrictions *)

LEMMA RestrictionInit == Init => RestrictionInv
  BY DEF Init, RestrictionInv

LEMMA RestrictionStep ==
  ASSUME TypeOK, LongRestrictions, RestrictionInv, [Next]_vars
  PROVE  RestrictionInv'
  <1> USE DEF RestrictionInv, MainAt, radio, dues, concluded
  <1>0. DutyCycleWaitTime \in Nat /\ dutycycle_due \in Due BY Dues
  <1>1. CASE SecondPasses
    <2>1. dutycycle_due' = Less(dutycycle_due) /\ ticked' = TRUE
          /\ UNCHANGED <<pc, DutyCycleWaitTime>>
      BY <1>1 DEF SecondPasses
    <2>2. pc \in {"prepare", "deinit"} => ~ticked
      BY <1>1 DEF SecondPasses, MayPass, Concluding
    <2> QED BY <1>0, <2>1, <2>2, LessType DEF Due
  <1>2. CASE ButtonIrq BY <1>2 DEF ButtonIrq, EndsWFI
  <1>3. CASE NfcIrq
    <2>1. UNCHANGED <<dutycycle_due, DutyCycleWaitTime, ticked>> BY <1>3, Zenon DEF NfcIrq
    <2>2. EndsWFI BY <1>3, Zenon DEF NfcIrq
    <2>3. pc' \in {"prepare", "deinit"} => pc \in {"prepare", "deinit"}
      BY <2>2 DEF EndsWFI
    <2> QED BY <2>1, <2>3
  <1>4. CASE WakeUpIrq
    <2>1. dutycycle_due # 0 => dutycycle_due' = dutycycle_due BY <1>4 DEF WakeUpIrq
    <2>2. UNCHANGED <<DutyCycleWaitTime, ticked>> BY <1>4 DEF WakeUpIrq
    <2>3. pc' \in {"prepare", "deinit"} => pc \in {"prepare", "deinit"}
      BY <1>4 DEF WakeUpIrq, EndsWFI
    <2> QED BY <1>0, <2>1, <2>2, <2>3
  <1>5. CASE Sleep
    <2>1. DutyCycleWaitTime \in WaitTimes BY DEF TypeOK
    <2>2. CASE SchedulesWakeup /\ Prepares(DutyCycleWaitTime \div 1000, schedmsg_due, "prepare")
      <3>1. dutycycle_due' = DutyCycleWaitTime \div 1000 /\ UNCHANGED DutyCycleWaitTime
        BY <1>5, <2>2 DEF Sleep, Prepares
      <3>2. DutyCycleWaitTime >= 1000 => DutyCycleWaitTime >= 2000
        BY <1>0, <2>1 DEF LongRestrictions
      <3>3. DutyCycleWaitTime >= 2000 => DutyCycleWaitTime \div 1000 >= 2 BY <1>0
      <3>4. DutyCycleWaitTime \div 1000 \in Nat BY <1>0
      <3> QED BY <3>1, <3>2, <3>3, <3>4, StandbyAssumption
    <2>3. CASE ~SchedulesWakeup /\ UNCHANGED DutyCycleWaitTime
      <3>1. DutyCycleWaitTime < 1000
        BY <1>0, <2>1, <2>3 DEF LongRestrictions, SchedulesWakeup
      <3> QED BY <1>0, <2>3, <3>1
    <2> QED BY <1>5, <2>2, <2>3 DEF Sleep
  <1>6. CASE PrepareStop BY <1>6 DEF PrepareStop
  <1>7. CASE \/ Reschedule \/ SetWakeup \/ ForgetChanges \/ Transmit \/ LRW_Join
             \/ JoinEnds \/ CountTrials \/ StayAwake \/ EnterStop \/ WakeUp
    <2>1. pc' \notin {"prepare", "deinit"}
      BY <1>7, Zenon
      DEF Reschedule, Prepares, SetWakeup, ForgetChanges, Transmit, LRW_Join,
          JoinEnds, CountTrials, StayAwake, EnterStop, WakeUp
    <2> QED BY <2>1
  <1>8. CASE UNCHANGED vars BY <1>8 DEF vars
  <1> QED
    BY <1>1, <1>2, <1>3, <1>4, <1>5, <1>6, <1>7, <1>8 DEF Next, MainLoop

-----------------------------------------------------------------------------
(* The wake-up timer *)

LEMMA DueIsNat ==
  ASSUME NEW d \in Due, d # None
  PROVE  /\ d \in Nat /\ d + 1 \in Due /\ d + 1 # None /\ d + 1 # 0
         /\ d <= d + 1 /\ d # 0 => d - 1 \in Nat
  BY DEF Due

LEMMA EarliestIsDue ==
  ASSUME NEW d \in Due, NEW s \in Due
  PROVE  Earliest(d, s) = 0 <=> d = 0 \/ s = 0
  BY DEF Due, Earliest

LEMMA SettableInit == Init => SettableInv
  BY DEF Init, SettableInv, FitsTimer

LEMMA SettablePrepared ==
  ASSUME NEW d \in Due, NEW s \in Due, NEW label, FitsTimer(d), FitsTimer(s),
         Prepares(d, s, label)
  PROVE  SettableInv'
  <1>1. FitsTimer(Earliest(d, s)) BY EarliestIsFirst DEF FitsTimer
  <1> QED BY <1>1 DEF Prepares, SettableInv, FitsTimer

LEMMA AfterFits ==
  ASSUME TypeOK, Settable
  PROVE  FitsTimer(After(0)) /\ FitsTimer(After(sendInterval))
  <1>1. sendInterval \in Intervals BY DEF TypeOK
  <1>2. sendInterval < 2 * Half BY <1>1 DEF Settable
  <1> QED BY <1>2 DEF FitsTimer, After

(* No due time is further off than it was set. *)
LEMMA SettableStep ==
  ASSUME TypeOK, Settable, SettableInv, [Next]_vars
  PROVE  SettableInv'
  <1> USE DEF dues, concluded
  <1>0. /\ dutycycle_due \in Due /\ schedmsg_due \in Due /\ due \in Due
        /\ After(0) \in Due /\ After(sendInterval) \in Due
        /\ FitsTimer(dutycycle_due) /\ FitsTimer(schedmsg_due) /\ FitsTimer(due)
        /\ FitsTimer(After(0)) /\ FitsTimer(After(sendInterval))
    BY Dues, AfterType, AfterFits DEF SettableInv
  <1>1. CASE SecondPasses
    <2>1. /\ dutycycle_due' = Less(dutycycle_due) /\ schedmsg_due' = Less(schedmsg_due)
          /\ due' = due
      BY <1>1 DEF SecondPasses
    <2>2. ASSUME NEW t \in Due, FitsTimer(t) PROVE FitsTimer(Less(t))
      BY <2>2 DEF Due, Less, FitsTimer
    <2>3. FitsTimer(Less(dutycycle_due)) /\ FitsTimer(Less(schedmsg_due))
      BY <1>0, <2>2
    <2> QED BY <1>0, <2>1, <2>3 DEF SettableInv, FitsTimer
  <1>2. CASE WakeUpIrq
    <2>1. dutycycle_due' \in {None, dutycycle_due}
      BY <1>2 DEF WakeUpIrq
    <2>2. schedmsg_due' \in {schedmsg_due, After(sendInterval)} /\ due' = due
      BY <1>2 DEF WakeUpIrq
    <2> QED BY <1>0, <2>1, <2>2 DEF SettableInv, FitsTimer
  <1>3. CASE UNCHANGED <<dues, due>>
    BY <1>3 DEF SettableInv, FitsTimer
  <1>4. CASE Reschedule
    <2>1. CASE Prepares(dutycycle_due, After(IF joined' THEN sendInterval ELSE 0), "set wakeup")
      BY <1>0, <2>1, SettablePrepared
    <2> QED BY <1>3, <1>4, <2>1 DEF Reschedule
  <1>5. CASE CountTrials
    <2>1. CASE Prepares(dutycycle_due, After(sendInterval), "set heartbeat")
      BY <1>0, <2>1, SettablePrepared
    <2> QED BY <1>3, <1>5, <2>1 DEF CountTrials
  <1>6. CASE Sleep
    <2>1. CASE Prepares(DutyCycleWaitTime \div 1000, schedmsg_due, "prepare")
      <3>1. DutyCycleWaitTime \div 1000 \in Due BY Dues DEF Due
      <3>2. FitsTimer(DutyCycleWaitTime \div 1000)
        <4>1. DutyCycleWaitTime \in WaitTimes BY DEF TypeOK
        <4>2. DutyCycleWaitTime \div 1000 < 2 * Half BY <4>1 DEF Settable
        <4> QED BY <4>2 DEF FitsTimer
      <3> QED BY <1>0, <2>1, <3>1, <3>2, SettablePrepared
    <2> QED BY <1>3, <1>6, <2>1 DEF Sleep
  <1>7. CASE \/ ButtonIrq \/ NfcIrq \/ SetWakeup \/ ForgetChanges \/ Transmit \/ LRW_Join
             \/ JoinEnds \/ StayAwake \/ PrepareStop \/ EnterStop \/ WakeUp
    <2>1. UNCHANGED <<dues, due>>
      BY <1>7, Zenon
      DEF ButtonIrq, NfcIrq, SetWakeup, ForgetChanges, Transmit, LRW_Join,
          JoinEnds, StayAwake, PrepareStop, EnterStop, WakeUp
    <2> QED BY <1>3, <2>1
  <1>8. CASE UNCHANGED vars BY <1>3, <1>8 DEF vars
  <1> QED
    BY <1>1, <1>2, <1>4, <1>5, <1>6, <1>7, <1>8 DEF Next, MainLoop

LEMMA TimerInit == Init => TimerInv
  BY EarliestIsFirst DEF Init, TimerInv, TimerFits, ConcludedFits, left, Earliest, Concluding

LEMMA TimerKept ==
  ASSUME TypeOK, TimerInv, UNCHANGED <<dues, concluded, timer, wutIrq>>,
         pc' \in Concluding <=> pc \in Concluding
  PROVE  TimerInv'
  BY DEF TimerInv, TimerFits, ConcludedFits, left, dues, concluded, timer

(* What main concludes now is what is due. *)
LEMMA TimerPrepared ==
  ASSUME TypeOK, TimerInv, UNCHANGED <<timer, wutIrq>>,
         NEW d \in Due, NEW s \in Due, NEW label \in Concluding, Prepares(d, s, label)
  PROVE  TimerInv'
  <1>1. left' = Earliest(d, s) /\ due' = left' /\ ~ticked' /\ pc' \in Concluding
    BY DEF Prepares, left
  <1>2. TimerFits' BY <1>1 DEF TimerInv, TimerFits, timer
  <1>3. ConcludedFits' BY <1>1 DEF ConcludedFits
  <1> QED BY <1>2, <1>3 DEF TimerInv

(* The timer that main sets is for what is due, or the next second. *)
LEMMA TimerConcluded ==
  ASSUME TypeOK, SettableInv, TimerInv, pc \in Concluding, pc' \notin Concluding, ~wutIrq,
         UNCHANGED <<dues, wutIrq>>, SetsTimer(due)
  PROVE  TimerInv'
  <1>1. left \in Due /\ due \in Due /\ left' = left BY Dues DEF left, dues
  <1>2. /\ wut' \in Due /\ period' = wut' /\ wut' # 0
        /\ wut' = None <=> due = None
        /\ due # None => due <= wut' /\ (due # 0 => wut' = due)
        /\ due = 0 => wut' = 1
    <2>1. Fits(due) BY <1>1 DEF SettableInv, FitsTimer, Fits, Due
    <2> QED BY <1>1, <2>1, TimerIsSet
  <1>3. left # None
          => due # None /\ (due <= 1 \/ due = left \/ due = left + 1)
    BY DEF TimerInv, ConcludedFits
  <1>4. left # None => /\ wut' # None /\ wut' <= left + 1
                       /\ left <= wut' \/ period' = 1
    BY <1>1, <1>2, <1>3 DEF Due
  <1>5. TimerFits' BY <1>1, <1>2, <1>4 DEF TimerFits
  <1>6. ConcludedFits' BY DEF ConcludedFits
  <1> QED BY <1>5, <1>6 DEF TimerInv

LEMMA TimerCounts ==
  ASSUME TypeOK, TimerInv, SecondPasses
  PROVE  TimerInv'
  <1>1. left \in Due /\ wut \in Due /\ period \in Due /\ due \in Due BY Dues
  <1>2. left' = Less(left) BY Dues, EarliestLess DEF SecondPasses, left
  <1>3. /\ ~wutIrq /\ UNCHANGED <<pc, period, due>> /\ ticked' = TRUE
        /\ wut' = (IF wut = 1 THEN period ELSE Less(wut))
        /\ wutIrq' = (wut = 1)
    BY DEF SecondPasses, MayPass
  <1>4. /\ left' \in Due /\ (left' = None <=> left = None)
        /\ left # None /\ left # 0 => left' = left - 1
        /\ left = 0 => left' = 0
    BY <1>1, <1>2, LessType
  <1>5. /\ wut = None <=> period = None
        /\ wut # 0 /\ period # 0
        /\ left # None /\ pc \notin Concluding
             => wut # None /\ wut <= left + 1 /\ (left <= wut \/ period = 1)
    BY <1>3 DEF TimerInv, TimerFits
  <1>6. TimerFits'
    <2>1. CASE wut = 1
      <3>1. wut' = period /\ wutIrq' /\ period' = period BY <1>3, <2>1
      <3>2. left' # None /\ pc' \notin Concluding => left' = 0 \/ period' = 1
        BY <1>1, <1>3, <1>4, <1>5, <2>1 DEF Due
      <3>3. period # None /\ period # 0 BY <1>5, <2>1
      <3> QED BY <3>1, <3>2, <3>3 DEF TimerFits
    <2>2. CASE wut # 1 /\ wut # None
      <3>1. wut' = wut - 1 /\ ~wutIrq' /\ period' = period
        BY <1>1, <1>3, <1>5, <2>2, LessType
      <3>2. wut' \in Nat \ {0} BY <1>1, <1>5, <2>2, <3>1 DEF Due
      <3>3. left' # None /\ pc' \notin Concluding
              => wut' <= left' + 1 /\ (left' <= wut' \/ period' = 1)
        <4> SUFFICES ASSUME left' # None, pc \notin Concluding
                     PROVE  wut' <= left' + 1 /\ (left' <= wut' \/ period' = 1)
          BY <1>3
        <4>1. left # None /\ left \in Nat /\ wut \in Nat
          BY <1>1, <1>4, <2>2, DueIsNat
        <4>2. wut <= left + 1 /\ (left <= wut \/ period = 1) /\ wut # 0
          BY <1>5, <4>1
        <4>3. left # 0 BY <2>2, <4>1, <4>2
        <4>4. left' = left - 1 BY <1>4, <4>1, <4>3
        <4>5. left - 1 \in Nat BY <4>1, <4>3
        <4> QED BY <3>1, <4>1, <4>2, <4>4, <4>5
      <3>4. period # None /\ wut' # None /\ wut' # 0 BY <1>5, <2>2, <3>2
      <3> QED BY <1>5, <3>1, <3>3, <3>4 DEF TimerFits
    <2>3. CASE wut = None
      <3>1. wut' = None BY <1>3, <2>3, <1>1, LessType
      <3>2. ~wutIrq'
        <4>1. None # 1 BY StandbyAssumption
        <4> QED BY <1>3, <2>3, <4>1, Zenon
      <3>3. left' = None \/ pc' \in Concluding BY <1>3, <1>4, <1>5, <2>3
      <3> QED BY <1>3, <1>5, <2>3, <3>1, <3>2, <3>3 DEF TimerFits
    <2> QED BY <2>1, <2>2, <2>3
  <1>7. ConcludedFits'
    <2> SUFFICES ASSUME left' # None, pc \in Concluding
                 PROVE  due # None /\ (due <= 1 \/ due = left' + 1)
      BY <1>3 DEF ConcludedFits
    <2>1. ~ticked BY DEF SecondPasses, MayPass
    <2>2. due # None /\ (due <= 1 \/ due = left)
      BY <1>4, <2>1 DEF TimerInv, ConcludedFits
    <2>3. left # None /\ left \in Nat BY <1>1, <1>4, DueIsNat
    <2>4. CASE left = 0 BY <2>2, <2>4
    <2>5. CASE left # 0
      <3>1. left' = left - 1 BY <1>4, <2>3, <2>5
      <3> QED BY <2>2, <2>3, <3>1
    <2> QED BY <2>4, <2>5
  <1> QED BY <1>6, <1>7 DEF TimerInv

(* The wake-up handler: either something is due, and the timer is set      *)
(* anew, or it fires every second.                                         *)
LEMMA TimerFires ==
  ASSUME TypeOK, SettableInv, SettableInv', TimerInv, WakeUpIrq
  PROVE  TimerInv'
  <1>1. /\ left \in Due /\ wut \in Due /\ period \in Due /\ due \in Due
        /\ dutycycle_due \in Due /\ schedmsg_due \in Due /\ sendInterval \in Nat
    BY Dues
  <1>2. wutIrq /\ ~wutIrq' /\ UNCHANGED <<due, ticked>>
    BY DEF WakeUpIrq, concluded
  <1>3. pc' \in Concluding <=> pc \in Concluding BY DEF WakeUpIrq, EndsWFI, Concluding
  <1>4. CASE dutycycle_due = 0 \/ schedmsg_due = 0
    <2>1. left = 0 BY <1>1, <1>4, EarliestIsDue DEF left
    <2>2. /\ dutycycle_due' \in Due /\ dutycycle_due' # 0
          /\ schedmsg_due' \in Due /\ schedmsg_due' # 0
      <3>1. dutycycle_due' = IF dutycycle_due = 0 THEN None ELSE dutycycle_due
        BY DEF WakeUpIrq
      <3>2. schedmsg_due' = IF schedmsg_due = 0 THEN After(sendInterval) ELSE schedmsg_due
        BY DEF WakeUpIrq
      <3>3. After(sendInterval) \in Due /\ After(sendInterval) # 0 BY <1>1, AfterType
      <3>4. None \in Due /\ None # 0 BY DEF Due
      <3> QED BY <1>1, <3>1, <3>2, <3>3, <3>4
    <2>3. left' \in Due /\ left' # 0 BY <2>2, EarliestIsFirst, EarliestIsDue DEF left
    <2>4. SetsTimer(left') \/ (left' # None /\ SetsTimer(left' + 1))
      BY <1>4 DEF WakeUpIrq, left
    <2>0. left' # None => left' < 2 * Half
      <3>1. FitsTimer(dutycycle_due') /\ FitsTimer(schedmsg_due')
        BY DEF SettableInv, FitsTimer
      <3>2. left' = dutycycle_due' \/ left' = schedmsg_due'
        BY <2>2, EarliestIsFirst DEF left
      <3> QED BY <3>1, <3>2 DEF FitsTimer
    <2>5. /\ wut' = period' /\ wut' # 0
          /\ left' # None => wut' # None /\ left' <= wut' /\ wut' <= left' + 1
      <3>1. CASE SetsTimer(left')
        <4>1. Fits(left') BY <2>0, <2>3 DEF Fits, Due
        <4> QED BY <2>3, <3>1, <4>1, TimerIsSet DEF Due
      <3>2. CASE left' # None /\ SetsTimer(left' + 1)
        <4> DEFINE next == left'
        <4>1. next \in Due /\ next # None BY <2>3, <3>2
        <4> HIDE DEF next
        <4>2. /\ next \in Nat /\ next + 1 \in Due /\ next + 1 # None
              /\ next + 1 # 0 /\ next <= next + 1
          BY <4>1, DueIsNat
        <4>3. SetsTimer(next + 1) BY <3>2 DEF next
        <4>6. Fits(next + 1)
          <5>1. next < 2 * Half BY <2>0, <3>2 DEF next
          <5> QED BY <4>2, <5>1 DEF Fits
        <4>4. wut' = next + 1 /\ period' = wut' BY <4>2, <4>3, <4>6, TimerIsSet
        <4>5. wut' # 0 /\ wut' # None /\ next <= wut' /\ wut' <= next + 1
          BY <4>2, <4>4
        <4> QED BY <4>4, <4>5 DEF next
      <3> QED BY <2>4, <3>1, <3>2
    <2>6. TimerFits' BY <1>2, <2>5 DEF TimerFits
    <2>7. ConcludedFits'
      <3> SUFFICES ASSUME pc \in Concluding PROVE due # None /\ due <= 1
        BY <1>2, <1>3 DEF ConcludedFits
      <3>1. left # None BY <2>1
      <3> QED BY <1>1, <2>1, <3>1 DEF TimerInv, ConcludedFits
    <2> QED BY <2>6, <2>7 DEF TimerInv
  <1>5. CASE ~(dutycycle_due = 0 \/ schedmsg_due = 0)
    <2>1. UNCHANGED <<dutycycle_due, schedmsg_due, wut, period>>
      BY <1>5 DEF WakeUpIrq, timer
    <2>2. left' = left /\ left # 0 BY <1>1, <1>5, <2>1, EarliestIsDue DEF left
    <2>3. left # None /\ pc \notin Concluding => period = 1 /\ wut = 1
      BY <1>2, <2>2 DEF TimerInv, TimerFits
    <2>4. left # None => 1 <= left + 1 BY <1>1 DEF Due
    <2>5. wut = None <=> period = None BY DEF TimerInv, TimerFits
    <2>6. TimerFits'
      BY <1>2, <1>3, <2>1, <2>2, <2>3, <2>4, <2>5 DEF TimerInv, TimerFits
    <2>7. ConcludedFits' BY <1>2, <1>3, <2>2 DEF TimerInv, ConcludedFits
    <2> QED BY <2>6, <2>7 DEF TimerInv
  <1> QED BY <1>4, <1>5

LEMMA TimerStep ==
  ASSUME TypeOK, SettableInv, SettableInv', TimerInv, [Next]_vars
  PROVE  TimerInv'
  <1> USE DEF MainAt, dues, concluded, timer
  <1>0. /\ After(0) \in Due /\ After(sendInterval) \in Due
        /\ dutycycle_due \in Due /\ schedmsg_due \in Due
        /\ DutyCycleWaitTime \in Nat
    BY Dues, AfterType
  <1>1. CASE SecondPasses BY <1>1, TimerCounts
  <1>2. CASE ButtonIrq \/ NfcIrq
    <2>1. /\ UNCHANGED <<dues, concluded, timer, wutIrq>>
          /\ pc' \in Concluding <=> pc \in Concluding
      BY <1>2 DEF ButtonIrq, NfcIrq, EndsWFI, Concluding
    <2> QED BY <2>1, TimerKept
  <1>3. CASE WakeUpIrq BY <1>3, TimerFires
  <1>4. CASE Reschedule
    <2>1. CASE Prepares(dutycycle_due, After(IF joined' THEN sendInterval ELSE 0), "set wakeup")
      <3>1. After(IF joined' THEN sendInterval ELSE 0) \in Due BY <1>0
      <3>2. "set wakeup" \in Concluding BY DEF Concluding
      <3>3. UNCHANGED <<timer, wutIrq>> BY <1>4 DEF Reschedule
      <3> QED BY <1>0, <2>1, <3>1, <3>2, <3>3, TimerPrepared
    <2>2. CASE pc' = "send" /\ UNCHANGED <<dues, concluded>>
      BY <1>4, <2>2, TimerKept DEF Reschedule, Concluding
    <2> QED BY <1>4, <2>1, <2>2 DEF Reschedule
  <1>5. CASE SetWakeup \/ PrepareStop
    <2>1. /\ pc \in Concluding /\ pc' \notin Concluding /\ ~wutIrq
          /\ UNCHANGED <<dues, wutIrq>> /\ SetsTimer(due)
      BY <1>5 DEF SetWakeup, PrepareStop, Concluding
    <2> QED BY <2>1, TimerConcluded
  <1>6. CASE CountTrials
    <2>1. CASE Prepares(dutycycle_due, After(sendInterval), "set heartbeat")
      <3>1. "set heartbeat" \in Concluding BY DEF Concluding
      <3>2. UNCHANGED <<timer, wutIrq>> BY <1>6 DEF CountTrials
      <3> QED BY <1>0, <2>1, <3>1, <3>2, TimerPrepared
    <2>2. CASE pc' = "sleep" /\ UNCHANGED <<dues, concluded>>
      BY <1>6, <2>2, TimerKept DEF CountTrials, Concluding
    <2> QED BY <1>6, <2>1, <2>2 DEF CountTrials
  <1>7. CASE Sleep
    <2>1. CASE Prepares(DutyCycleWaitTime \div 1000, schedmsg_due, "prepare")
      <3>1. "prepare" \in Concluding /\ DutyCycleWaitTime \div 1000 \in Due
        BY <1>0 DEF Concluding, Due
      <3>2. UNCHANGED <<timer, wutIrq>> BY <1>7 DEF Sleep
      <3> QED BY <1>0, <2>1, <3>1, <3>2, TimerPrepared
    <2>2. CASE pc' = "deinit" /\ UNCHANGED <<dues, due>>
      <3>1. /\ UNCHANGED <<dues, timer, wutIrq>>
            /\ pc \notin Concluding /\ pc' \notin Concluding
        BY <1>7, <2>2 DEF Sleep, Concluding
      <3> QED BY <3>1 DEF TimerInv, TimerFits, ConcludedFits, left
    <2> QED BY <1>7, <2>1, <2>2 DEF Sleep
  <1>8. CASE \/ ForgetChanges \/ Transmit \/ LRW_Join \/ JoinEnds \/ StayAwake
             \/ EnterStop \/ WakeUp
    <2>1. UNCHANGED <<dues, concluded, timer, wutIrq>>
      BY <1>8, Zenon
      DEF ForgetChanges, Transmit, LRW_Join, JoinEnds, StayAwake, EnterStop, WakeUp
    <2>2. pc \notin Concluding /\ pc' \notin Concluding
      BY <1>8
      DEF ForgetChanges, Transmit, LRW_Join, JoinEnds, StayAwake, EnterStop, WakeUp,
          Concluding
    <2> QED BY <2>1, <2>2, TimerKept
  <1>9. CASE UNCHANGED vars
    BY <1>9, TimerKept DEF vars
  <1> QED
    BY <1>1, <1>2, <1>3, <1>4, <1>5, <1>6, <1>7, <1>8, <1>9 DEF Next, MainLoop

-----------------------------------------------------------------------------
Inv == TypeOK /\ TrialsInv /\ AdcInv /\ HeartbeatInv

(* The inductive invariant of the main loop and its interrupt handlers. *)
THEOREM Invariant == Spec => []Inv
  <1>1. Init => Inv
    BY TypeInit, TrialsInit, AdcInit, HeartbeatInit DEF Inv
  <1>2. Inv /\ [Next]_vars => Inv'
    BY TypeStep, TrialsStep, AdcStep, HeartbeatStep DEF Inv
  <1> QED BY <1>1, <1>2, PTL DEF Spec

(* The state's types: the queue never exceeds its length, whatever handler *)
(* enqueues between the main loop's steps, and one request to join at most *)
(* is counted.                                                             *)
THEOREM TypeCorrect == Spec => []TypeOK
  <1>1. Inv => TypeOK BY DEF Inv
  <1> QED BY <1>1, Invariant, PTL

(* Whenever something is due, the RTC wake-up timer fires by then, a       *)
(* second late at most, for all intervals and restrictions that it can     *)
(* count.  The code checks neither; without it the theorem is false.       *)
THEOREM DuesAreMet == Settable /\ Spec => []InTime
  <1>1. Init => SettableInv /\ TimerInv BY SettableInit, TimerInit
  <1>2. Inv /\ Settable /\ SettableInv /\ [Next]_vars => SettableInv'
    BY SettableStep DEF Inv
  <1>3. Inv /\ SettableInv /\ SettableInv' /\ TimerInv /\ [Next]_vars => TimerInv'
    BY TimerStep DEF Inv
  <1>4. TimerInv => InTime BY DEF TimerInv, TimerFits, InTime, left
  <1>5. Settable => []Settable OBVIOUS
  <1> QED BY <1>1, <1>2, <1>3, <1>4, <1>5, Invariant, PTL DEF Spec

(* However STOP mode is left, the main loop has the ADC, and no handler    *)
(* waits for ever while it is at work.                                     *)
THEOREM MainHasTheAdc == Spec => []MainHasAdc
  <1>1. Inv => MainHasAdc BY DEF Inv, AdcInv
  <1> QED BY <1>1, Invariant, PTL

(* A device that is joined never stops without the heartbeat its interval  *)
(* asks for.                                                               *)
THEOREM HeartbeatScheduled == Spec => []HeartbeatIsScheduled
  <1>1. Inv => HeartbeatIsScheduled
    BY DEF Inv, HeartbeatInv, HeartbeatFits, TrialsInv, HeartbeatIsScheduled
  <1> QED BY <1>1, Invariant, PTL

(* The device never stops for a restriction that no wake-up ends, if none  *)
(* lasts from one second to two.                                           *)
THEOREM RestrictionScheduled == LongRestrictions /\ Spec => RestrictedIsScheduled
  <1>1. Inv /\ RestrictionInv /\ LongRestrictions /\ [Next]_vars => RestrictionInv'
    BY RestrictionStep DEF Inv
  <1>2. RestrictionInv /\ Inv
          => [EnterStop /\ DutyCycleWaitTime >= 1000 => dutycycle_due # None]_vars
    BY DEF RestrictionInv, EnterStop, MainAt
  <1>3. Init => RestrictionInv BY RestrictionInit
  <1>4. LongRestrictions => []LongRestrictions
    OBVIOUS
  <1> QED BY <1>1, <1>2, <1>3, <1>4, Invariant, PTL DEF Spec, RestrictedIsScheduled
=============================================================================
