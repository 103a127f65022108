------------------------------ MODULE Standby -------------------------------
(***************************************************************************)
(* Going to sleep and waking up: the main loop and Sleep of Src/main.c,    *)
(* PrepareWakeup and the STOP mode of Src/hardware.c, and the interrupt    *)
(* handlers that end it: the RTC wake-up timer, the button and NFC.        *)
(*                                                                         *)
(* Interrupts come between any two steps of the main loop; the handlers    *)
(* have one priority and run to their end.  enqueueToSend measures the     *)
(* battery, and waits for ever when the ADC does not answer.  A due time   *)
(* is kept as the seconds left until then.  An application key is set.     *)
(***************************************************************************)
EXTENDS Naturals

CONSTANTS QueueLen,      \* LRW_QUEUE_LEN
          Intervals,     \* values of DevCfg.sendInterval, in seconds
          WaitTimes,     \* values of DutyCycleWaitTime, in milliseconds
          Half,          \* what the timer's 16 bits count: 65536 seconds
          None           \* no time is set: 0 in the code

ASSUME StandbyAssumption ==
  /\ QueueLen \in Nat \ {0}
  /\ Intervals \subseteq Nat /\ Intervals # {}
  /\ WaitTimes \subseteq Nat /\ 0 \in WaitTimes
  /\ Half \in Nat \ {0}
  /\ None \notin Nat

VARIABLES
  pc,                    \* where the main loop is
  queued,                \* messages in lrw.queue
  DutyCycleWaitTime,
  joined, joinTrials,    \* the network's activation; requests to join
  sendInterval, changed, \* of DevCfg; changed.lrw or changed.resched
  missed,                \* history: changes were forgotten unapplied
  dutycycle_due, schedmsg_due, \* of wuh
  due,                   \* due - now, once the main loop has concluded it
  ticked,                \* a second has passed since then
  wut, period,           \* the RTC wake-up timer and its auto-reload value
  wutIrq,                \* its interrupt is pending
  adc,                   \* the ADC and its DMA channel are initialised
  hwSlept,
  spinning               \* a handler waits for adcConvDone for ever

config == <<sendInterval, changed, missed>>
network == <<joined, joinTrials>>
dues == <<dutycycle_due, schedmsg_due>>
concluded == <<due, ticked>>
timer == <<wut, period>>
power == <<adc, hwSlept>>
radio == <<queued, DutyCycleWaitTime>>
vars == <<pc, radio, network, config, dues, concluded, timer, wutIrq, power, spinning>>

TypeOK ==
  /\ pc \in {"config", "set wakeup", "save", "send", "joining", "sent",
             "set heartbeat", "sleep", "prepare", "deinit", "stop", "woken"}
  /\ queued \in 0 .. QueueLen
  /\ DutyCycleWaitTime \in WaitTimes
  /\ joined \in BOOLEAN /\ joinTrials \in 0 .. 1
  /\ sendInterval \in Intervals /\ changed \in BOOLEAN /\ missed \in BOOLEAN
  /\ dutycycle_due \in Nat \cup {None} /\ schedmsg_due \in Nat \cup {None}
  /\ due \in Nat \cup {None} /\ ticked \in BOOLEAN
  /\ wut \in Nat \cup {None} /\ period \in Nat \cup {None}
  /\ wutIrq \in BOOLEAN
  /\ adc \in BOOLEAN /\ hwSlept \in BOOLEAN
  /\ spinning \in BOOLEAN

-----------------------------------------------------------------------------
(* PrepareWakeup: no time is due for a duration of 0, else that many       *)
(* seconds from now; the timer is for the earlier of both, or off.         *)
After(duration) == IF duration = 0 THEN None ELSE duration

Earliest(d, s) == IF s # None /\ (d = None \/ s < d) THEN s ELSE d

(* HW_RTCWUTSet waits for a second at least.  The reload register has 16   *)
(* bits and counts from 0; what does not fit them has one half added by    *)
(* the 17-bit clock, and what lies beyond that is cut off.  The mutant     *)
(* subtracts 1 from 0, and so sets the longest period the timer has.       *)
Reload(s) ==
  LET counts == IF s <= Half THEN s ELSE ((s - 1) % Half) + Half + 1
  IN wut' = counts /\ period' = counts

HW_RTCWUTSetRaw(seconds) == Reload(IF seconds = 0 THEN 2 * Half ELSE seconds)
HW_RTCWUTSet(seconds) == Reload(IF seconds = 0 THEN 1 ELSE seconds)

SetsTimer(d) ==
  \/ d = None /\ wut' = None /\ period' = None
  \/ d # None /\ HW_RTCWUTSet(d)

(* After EEPROM_Load, with an activation that was restored or none.        *)
Init ==
  /\ pc = "config"
  /\ queued = 0 /\ DutyCycleWaitTime = 0
  /\ joined \in BOOLEAN /\ joinTrials = 0
  /\ sendInterval \in Intervals /\ changed = TRUE /\ missed = FALSE
  /\ dutycycle_due = None /\ schedmsg_due = None
  /\ due = None /\ ticked = FALSE
  /\ wut = None /\ period = None /\ wutIrq = FALSE
  /\ adc = TRUE /\ hwSlept = FALSE
  /\ spinning = FALSE

-----------------------------------------------------------------------------
(* Time                                                                    *)

Less(t) == IF t \in {None, 0} THEN t ELSE t - 1

(* A handler is called within a second, and a second passes once at most   *)
(* from the clock being read to the timer being set, or STOP mode entered. *)
Concluding == {"set wakeup", "set heartbeat", "prepare"}
MayPass == ~wutIrq /\ ~(pc \in Concluding \cup {"deinit"} /\ ticked)

(* The timer reloads itself.                                               *)
SecondPasses ==
  /\ MayPass
  /\ ticked' = TRUE
  /\ dutycycle_due' = Less(dutycycle_due)
  /\ schedmsg_due' = Less(schedmsg_due)
  /\ wut' = IF wut = 1 THEN period ELSE Less(wut)
  /\ wutIrq' = (wut = 1)
  /\ UNCHANGED <<pc, radio, network, config, due, period, power, spinning>>

-----------------------------------------------------------------------------
(* The interrupt handlers                                                  *)

(* WFI ends with an interrupt, whose handler runs before main goes on.     *)
EndsWFI == pc' = IF pc = "stop" THEN "woken" ELSE pc

(* enqueueToSend, as seen from here: one more message if the device is     *)
(* joined and there is room, but getBatteryVoltageAndTemperature comes     *)
(* first, once there is.  The mutant takes a full queue for one with a     *)
(* last slot to use.                                                       *)
HasRoomInclusive == joined /\ queued <= QueueLen
HasRoom == joined /\ queued < QueueLen

enqueueToSend ==
  /\ queued' = IF HasRoom /\ adc' THEN queued + 1 ELSE queued
  /\ spinning' = (HasRoom /\ ~adc')

(* HW_ExitStopMode, for whoever comes first after the wake-up.  The mutant *)
(* leaves the ADC as it is.                                                *)
ExitsWithoutAdc == hwSlept' = FALSE /\ UNCHANGED adc
HW_ExitStopMode ==
  \/ hwSlept /\ hwSlept' = FALSE /\ adc' = TRUE
  \/ ~hwSlept /\ UNCHANGED power

(* HAL_GPIO_EXTI_Callback leaves STOP mode before anything else.  A button *)
(* gesture is to be sent, another edge of the button not; SETCONFIG over   *)
(* NFC sets the interval or what else LRW_FromDevCfg applies, or leaves    *)
(* the network at once, which no flag tells.  The changes that come while  *)
(* main applies others are forgotten with them.                            *)
ButtonIrq ==
  /\ ~spinning
  /\ EndsWFI
  /\ HW_ExitStopMode
  /\ enqueueToSend \/ UNCHANGED <<queued, spinning>>
  /\ UNCHANGED <<DutyCycleWaitTime, network, config, dues, concluded, timer, wutIrq>>

NfcIrq ==
  /\ ~spinning
  /\ EndsWFI
  /\ HW_ExitStopMode
  /\ \/ /\ sendInterval' \in Intervals
        /\ changed' = TRUE
        /\ missed' = (pc \in {"set wakeup", "save"} \/ missed)
        /\ UNCHANGED joined
     \/ joined' = FALSE /\ UNCHANGED config
  /\ UNCHANGED <<radio, joinTrials, dues, concluded, timer, wutIrq, spinning>>

(* HAL_RTCEx_WakeUpTimerEventCallback does not.  What is due is cleared,   *)
(* or due again, and the timer set anew, when a second may pass before it  *)
(* is; when nothing is due it goes on with the period it has.              *)
WakeUpIrq ==
  LET dutycycle == dutycycle_due = 0
      schedmsg  == schedmsg_due = 0
      d == IF dutycycle THEN None ELSE dutycycle_due
      s == IF schedmsg THEN After(sendInterval) ELSE schedmsg_due
      left == Earliest(d, s)
  IN
  /\ ~spinning /\ wutIrq
  /\ wutIrq' = FALSE
  /\ EndsWFI
  /\ dutycycle_due' = d /\ schedmsg_due' = s
  /\ \/ /\ dutycycle \/ schedmsg
        /\ SetsTimer(left) \/ (left # None /\ SetsTimer(left + 1))
     \/ /\ ~(dutycycle \/ schedmsg)
        /\ UNCHANGED timer
  /\ UNCHANGED power
  /\ \/ schedmsg /\ enqueueToSend
     \/ ~schedmsg /\ UNCHANGED <<queued, spinning>>
  /\ UNCHANGED <<DutyCycleWaitTime, network, config, concluded>>

-----------------------------------------------------------------------------
(* The main loop: it goes on when no handler runs                          *)

MainAt(label) == pc = label /\ ~spinning /\ ~wutIrq

(* DevCfg.changed: LRW_FromDevCfg may leave the network, or be on one at   *)
(* once; the next message is due a sendInterval from now, if joined.       *)
(* PrepareWakeup's call of HW_RTCWUTSet is a step of its own.              *)
Prepares(d, s, label) ==
  /\ dutycycle_due' = d /\ schedmsg_due' = s
  /\ due' = Earliest(d, s) /\ ticked' = FALSE
  /\ pc' = label

Reschedule ==
  /\ MainAt("config")
  /\ \/ /\ changed
        /\ joined' \in BOOLEAN
        /\ Prepares(dutycycle_due, After(IF joined' THEN sendInterval ELSE 0), "set wakeup")
        /\ missed' = FALSE
     \/ /\ ~changed
        /\ pc' = "send"
        /\ UNCHANGED <<joined, missed, dues, concluded>>
  /\ UNCHANGED <<radio, joinTrials, sendInterval, changed, timer, wutIrq, power, spinning>>

(* The end of PrepareWakeup, with the due concluded before.                *)
SetWakeup ==
  /\ \/ MainAt("set wakeup") /\ pc' = "save"
     \/ MainAt("set heartbeat") /\ pc' = "sleep"
  /\ SetsTimer(due)
  /\ UNCHANGED <<radio, network, config, dues, concluded, wutIrq, power, spinning>>

(* EEPROM_Save, and all changes are forgotten.                             *)
ForgetChanges ==
  /\ MainAt("save")
  /\ changed' = FALSE
  /\ pc' = "send"
  /\ UNCHANGED <<radio, network, sendInterval, missed, dues, concluded, timer, wutIrq,
                 power, spinning>>

(* LRW_Send: a message leaves the queue, or the duty cycle restricts it;   *)
(* nothing is sent while a gesture's task is pending.                      *)
Transmit ==
  /\ MainAt("send") /\ joined
  /\ \/ queued > 0 /\ queued' = queued - 1 /\ DutyCycleWaitTime' = 0
     \/ /\ queued > 0
        /\ DutyCycleWaitTime' \in WaitTimes \ {0}
        /\ UNCHANGED queued
     \/ UNCHANGED radio
  /\ pc' = "sent"
  /\ UNCHANGED <<network, config, dues, concluded, timer, wutIrq, power, spinning>>

(* LRW_Join: the request is made, or the duty cycle restricts it.          *)
LRW_Join ==
  /\ MainAt("send") /\ ~joined
  /\ DutyCycleWaitTime' \in WaitTimes
  /\ joinTrials' = IF DutyCycleWaitTime' = 0 THEN joinTrials + 1 ELSE joinTrials
  /\ pc' = IF DutyCycleWaitTime' = 0 THEN "joining" ELSE "sent"
  /\ UNCHANGED <<queued, joined, config, dues, concluded, timer, wutIrq, power, spinning>>

(* The exchange with the network, while main calls LRW_Process.            *)
JoinEnds ==
  /\ MainAt("joining")
  /\ joined' \in {joined, TRUE}
  /\ pc' = "sent"
  /\ UNCHANGED <<radio, joinTrials, config, dues, concluded, timer, wutIrq, power, spinning>>

(* A device that has joined schedules its heartbeat, one that has not      *)
(* gives up; joinTrials starts again.  The mutant expects more trials.     *)
TriedTwice == joinTrials > 1
Tried == joinTrials > 0

CountTrials ==
  /\ MainAt("sent")
  /\ \/ /\ DutyCycleWaitTime = 0 /\ joined /\ Tried
        /\ joinTrials' = 0
        /\ Prepares(dutycycle_due, After(sendInterval), "set heartbeat")
     \/ /\ ~(DutyCycleWaitTime = 0 /\ joined /\ Tried)
        /\ joinTrials' = IF DutyCycleWaitTime = 0 /\ ~joined /\ joinTrials = 1
                         THEN 0 ELSE joinTrials
        /\ pc' = "sleep"
        /\ UNCHANGED <<dues, concluded>>
  /\ UNCHANGED <<radio, joined, config, timer, wutIrq, power, spinning>>

(* Sleep returns for pending tasks, NFC activity, and a message or another *)
(* trial to join that may be sent.                                         *)
StaysAwake == DutyCycleWaitTime < 1000 /\ (joinTrials > 0 \/ (joined /\ queued > 0))

StayAwake ==
  /\ MainAt("sleep")
  /\ pc' = "config"
  /\ UNCHANGED <<radio, network, config, dues, concluded, timer, wutIrq, power, spinning>>

(* "If duty cycle restricted, schedule a wake up"; the mutant does so for  *)
(* short restrictions only.                                                *)
SchedulesIfBrief == 0 < DutyCycleWaitTime /\ DutyCycleWaitTime < 3000
SchedulesWakeup == DutyCycleWaitTime > 1000

Sleep ==
  /\ MainAt("sleep") /\ ~StaysAwake
  /\ \/ /\ SchedulesWakeup
        /\ Prepares(DutyCycleWaitTime \div 1000, schedmsg_due, "prepare")
        /\ UNCHANGED adc
     \/ /\ ~SchedulesWakeup
        /\ pc' = "deinit" /\ adc' = FALSE /\ ticked' = FALSE
        /\ UNCHANGED <<dues, due>>
  /\ UNCHANGED <<radio, network, config, timer, wutIrq, hwSlept, spinning>>

(* HW_EnterStopMode turns the ADC off first, and waits for 100 ms.         *)
PrepareStop ==
  /\ MainAt("prepare")
  /\ SetsTimer(due)
  /\ adc' = FALSE
  /\ pc' = "deinit"
  /\ UNCHANGED <<radio, network, config, dues, concluded, wutIrq, hwSlept, spinning>>

EnterStop ==
  /\ MainAt("deinit")
  /\ hwSlept' = TRUE
  /\ pc' = "stop"
  /\ UNCHANGED <<radio, network, config, dues, concluded, timer, wutIrq, adc, spinning>>

WakeUp ==
  /\ MainAt("woken")
  /\ HW_ExitStopMode
  /\ pc' = "config"
  /\ UNCHANGED <<radio, network, config, dues, concluded, timer, wutIrq, spinning>>

-----------------------------------------------------------------------------
MainLoop ==
  \/ Reschedule \/ SetWakeup \/ ForgetChanges
  \/ Transmit \/ LRW_Join \/ JoinEnds \/ CountTrials
  \/ StayAwake \/ Sleep \/ PrepareStop \/ EnterStop \/ WakeUp

Next == SecondPasses \/ ButtonIrq \/ NfcIrq \/ WakeUpIrq \/ MainLoop

Spec == Init /\ [][Next]_vars

(* Time passes, an interrupt that is pending is taken, main goes on.       *)
FairSpec ==
  /\ Spec
  /\ WF_vars(SecondPasses) /\ WF_vars(WakeUpIrq) /\ SF_vars(MainLoop)
-----------------------------------------------------------------------------
(* Whenever something is due, the timer fires by then, a second late at    *)
(* most, whoever called PrepareWakeup in the middle of main's call of it.  *)
(* (Durations the timer can count: after a longer one it fires early, and  *)
(* then again with the same period, perhaps hours after the due time.)     *)
InTime ==
  LET left == Earliest(dutycycle_due, schedmsg_due) IN
  left # None /\ ~wutIrq /\ pc \notin Concluding
    => wut # None /\ wut <= left + 1

(* "If duty cycle restricted, schedule a wake up": the device never stops  *)
(* for a restriction that no wake-up is scheduled to end.  (Restrictions   *)
(* of two seconds and more: the wake-up of a shorter one may be used up    *)
(* while HW_EnterStopMode still waits.)                                    *)
RestrictedIsScheduled ==
  [][EnterStop /\ DutyCycleWaitTime >= 1000 => dutycycle_due # None]_vars

(* However STOP mode is left, and whatever handler comes first, the main   *)
(* loop has the ADC back, and no handler that comes while it is at work    *)
(* waits for an ADC that is turned off.                                    *)
MainHasAdc == pc \notin {"deinit", "stop", "woken"} => adc /\ ~spinning

(* A device that is joined never stops without its heartbeat, nor without  *)
(* need with one, however often it was joined, restricted, unjoined by NFC *)
(* or given another interval, but for changes that come while main applies *)
(* others (main.c:411) or is about to stop.                                *)
HeartbeatIsScheduled ==
  pc = "stop" /\ joined /\ ~changed /\ ~missed
    => (schedmsg_due = None <=> sendInterval = 0)

(* "Enable RTC WUT (24h heartbeat)": the wake-up that finds the scheduled  *)
(* message due enqueues it, on a device that is joined and has room.  It   *)
(* is violated: the handler of the wake-up that ends STOP mode waits for   *)
(* the ADC that HW_EnterStopMode turned off, and nothing turns it on.      *)
HeartbeatIsSent ==
  [][WakeUpIrq /\ schedmsg_due = 0 /\ HasRoom => queued' = queued + 1]_vars

(* What was restricted is tried again: a device that stopped for the duty  *)
(* cycle wakes up and comes to LRW_Send or LRW_Join, unless a handler      *)
(* spins.                                                                  *)
IsRetried ==
  pc = "stop" /\ DutyCycleWaitTime >= 1000 ~> pc = "send" \/ spinning
=============================================================================
