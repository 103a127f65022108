# A TLA+ model of stx-firmware

stx-firmware runs on the STA (push button) and STX (sensor) LoRaWAN devices: an
STM32L0 with no operating system, one main loop, interrupt handlers that
preempt it, and STOP mode whenever there is nothing to do. This directory holds
TLA+ modules for its core logic, the TLC configurations that check them on
small instances, and TLAPS proofs for every instance.

All paths are relative to the repository. The default build is modelled (STA,
NFC, LORAWAN, SIMPLE_TWO_GESTURE_MODE; EEDBGLOG off, no watchdog), unless a
module takes the build as a parameter.

The revision is a bring-up snapshot. `main` (Src/main.c:116-198) loops for ever
in a test of the RTC alarm and STOP mode, before the application is reached;
`HAL_GPIO_EXTI_Callback` only calls `HW_ExitStopMode`, so that `ButtonISR`,
`NFCISR` and `ReedSwitchISR` have no caller; `LEDBlink` returns at once. The
application's components are modelled as written and the environment calls the
handlers, at the moments their comments give.

## Inventory

| Component | State | Operations | Hard behaviours | Correct means |
|---|---|---|---|---|
| Transmit queue (`Src/lrw.c`) | `lrw.queue`, `retrans_*`, the MAC's TX power, `DutyCycleWaitTime` | `enqueueToSend`, `LRW_Send`, `LRW_TX`, `McpsConfirm` | interrupts push while main pops; retransmissions over refusals, failures and configuration changes | no slot shared or overwritten, no message lost or sent too often, the power restored, the queue drained |
| LoRaWAN configuration (`Src/lrw.c`) | `DevCfg`, the MIB, the NVM context | `LRW_FromDevCfg`, `LRW_ToDevCfg`, `LRW_Join`, `LRW_SaveNvm` | two copies of one configuration, changed from both sides | they agree; a session is not dropped without need |
| Button gestures (`Src/isr.c`) | `lastRise`, `lastFall`, `lastEdge`, `buttonPendingSinglePress` | `ButtonISR`, `ButtonTask_SinglePress` | bouncing, merged and late edges; a task against the next edge | each press reported once, as what it was |
| Task manager (`Src/task_mgr.c`) | `tasks`, `tasks_ticks` | `tasks_add`, `tasks_del`, the LPTIM tick | adding in the tick a task is due | every task runs once, when due |
| Main loop, sleep and wake-up (`Src/main.c`, `Src/hardware.c`) | `wuh`, the RTC wake-up timer, `hwSlept`, the ADC, `joinTrials` | the loop, `Sleep`, `PrepareWakeup`, `HW_EnterStopMode`, `HW_ExitStopMode`, the wake-up handler | an interrupt between a check and WFI; a handler before the clock and the peripherals are back | what is due wakes the device; nothing runs without the peripherals it needs; the heartbeat goes on |
| EEPROM store (`Src/eeprom.c`, `Src/hardware.c`) | the data EEPROM, its lock, `DevCfg`, `DevCfg.changed` | `EEPROM_Load`, `EEPROM_Save`, `HW_ChangePW`, `HW_*EEPROM` | power loss between words; the NFC interrupt writes while main does | nothing half written is believed; what was confirmed is stored |
| NFC mailbox (`Src/isr.c`, `Src/nfc.c`) | the mailbox, `pw_valid`, `pw_timestamp` | the commands of `NFCISR` | session time-out, a wrapping clock, resets | secrets only in a session; a session ends, and lasts until then |
| Protobuf codec (`Src/protobuf.c`) | none | `PBDecodeMsg`, `PBEncode*` | 8-bit positions, truncated fields | decode inverts encode; it ends and stays in the message |
| MAC context (`NvmDataMgmt.c`, `nvmm.c`, `eeprom-board.c`, `LoRaMac.c`) | groups with CRCs, notify flags | store, restore, factory reset | power loss between groups, flags overwritten, a locked EEPROM | what changed is stored, a restart loses nothing |
| RTC and MAC timers (`rtc-board.c`) | alarm context, calendar | set alarm, time stamps | midnight, leap years, the sub-second wrap | time never goes back |
| Reed switch, sensors, secure element, peripheral set-up | registers | drivers | pure I/O, or generated | not modelled |

How they interact: the handlers write `lrw.queue` (through `enqueueToSend`),
`DevCfg` and `DevCfg.changed` (through `PBDecodeMsg`), `tasks` and the password
in the EEPROM. The main loop reads all of it: it applies what changed, saves it
(`EEPROM_Save`), joins, calls `LRW_Send`, waits for the MAC, which answers in
callbacks on main's stack (`McpsConfirm`), and calls `Sleep`. Nothing is locked
but by convention: msg_type is written last, handlers only push, only main pops.

Everything here that is hard to test is listed, at its line, under `hazards` in
PROJECT.json, with the property that covers it or the reason why none does.

## Modules

| Module | Models | How |
|---|---|---|
| `Outbox` | what the queue promises | a bounded set of pending messages, each delivered, or given up when the radio failed |
| `LrwQueue` | `lrw.c`'s queue, with its callers in `main.c` | one action per uninterrupted piece of a function; `main` and `isr` are program counters |
| `Gestures` | `ButtonISR` and `task_mgr.c` | times as ages, in ticks of about 100 ms |
| `Standby` | the loop, its trials to join, `Sleep`, `PrepareWakeup`, STOP mode, the handlers that end it | due times as seconds left |
| `EepromStore` | `eeprom.c`, the EEPROM part of `hardware.c`, the commands of `NFCISR` that write | each function as the sequence of its EEPROM operations, run word by word |
| `NvmContext` | `LoRaMacHandleNvm`, `NvmDataMgmt.c`, `nvmm.c`, `eeprom-board.c` | groups with contents and CRCs, written one after the other |
| `ConfigSession` | `LRW_FromDevCfg`, `LRW_ToDevCfg`, `LRW_SaveNvm`, `LRW_Join`, the join in the MAC | extends `NvmContext`: its groups have fields, its actions become steps of the main loop |
| `NfcSession` | `NFCISR`, its password session, the password in the EEPROM | the handler as up to four steps, between which the clock goes on |
| `Codec` | the encoders of `protobuf.c`, `EEPROM_Save`, the walk of `EEPROM_Load` | digits of parameterised width, an action for each byte or copy of the encoders, one for each field of the walk |
| `MCLrwQueue`, `MCEepromStore`, `MCNvmContext`, `MCConfigSession`, `MCCodec` | - | constants for TLC |
| `LrwQueueProofs`, `GesturesProofs`, `StandbyProofs`, `EepromStoreProofs`, `NvmContextProofs`, `ConfigSessionProofs`, `NfcSessionProofs`, `CodecProofs` | - | theorems and proofs |

`map` in PROJECT.json names the lines each definition stands for.

**Outbox** is what the queue promises, with nothing of slots and retransmissions:
`Accept`, `Deliver`, `Repeat` (a delivered message is sent again), `Fail`, after
which the message is tried again or given up (`TryAgain`, `GiveUp`), `Answer` and
`ChangeNetwork`. Nothing is given up but what the radio has just failed to send.
The one thing the outbox lets go without that is in `Answer`: an acknowledgement
may be taken for that of a message accepted meanwhile (the finding of
`lrw_late_ack`).

**LrwQueue.** `EnqueueToSend`, `ComposeMsg` and `PublishMsg` are one call of
`enqueueToSend`: the search for a slot, the buffer, `msg_type`. `LRW_Send` is
`SendRaisePower` (it returns after changing the power) or `SendPick`, `SendArm`,
`LRW_TX`, `SendFree`, between any two of which interrupts may push, and NFC may
switch `confirmedMsgs` or leave the network (`NfcLeaves`, which the MAC refuses
while it is busy). A handler runs when its priority is above every active one,
main when none is active. The MAC is the environment: it airs a frame, airs an
empty one when the payload does not fit, refuses for the duty cycle, or fails, as
it does without a network (`txStatus`). It then answers, with an acknowledgement
only for a confirmed frame. Of `LRW_FromDevCfg` only the drop of the activation is
here (`LeaveNetwork`). `fresh`, `accepted`, `aired` are history. What `LRW_TX`
failed to send, or sent as an empty frame, is freed all the same, unless
retransmissions are left: that is the outbox's `GiveUp`.

**Gestures.** `Toggle` is the person, `ButtonISR` the handler, which may run
after the pin has changed again, `Tick` the LPTIM interrupt. A handler is called
within 100 ms of its edge. In the three-gesture build it is two steps: what it
decides by `buttonPendingSinglePress` (`branch`) and what it then does, between
which `Tick` may come, as LPTIM1 has the higher priority. When the tick reports the
pending single press there, `tasks_del` is called with NULL and clears memory at
address 0, which is flash (`CancelsNothing`: the write is dropped, or the device
hangs). Both builds are initial states of one module (`simple`). `pressLen`, how
long the press really was, and `reportAge` are history: the handler sees neither.

**Standby.** A second passes at most once between the clock being read and the timer
being set, or STOP mode entered (`ticked`): the code in between takes 100 ms and an
interrupt's time. Handlers have one priority and are called within a second.
`Reload` has the timer's 16 bits, the 17-bit clock that adds one half, and the
truncation of what lies beyond. A send interval of 0 is no heartbeat. An application
key is set, so that a device that has not joined tries to. NFC may change the
interval or the LoRaWAN configuration, or leave the network at once, in any of these
steps. `missed` is history: a change came while main applied others, and main.c:411
forgot it with them. The BSEC sample is left out; the queue is a counter.

**EepromStore.** Word writes are atomic, except that a power loss may leave the word
erased. A locked EEPROM refuses a write, and the next operation reports that;
`HAL_FLASHEx_DATAEEPROM_Program` takes the HAL's lock, so that the interrupt finds
it busy, and `..._Erase` takes none. `EEPROM_CRC` is a constant function of a
message. That no configuration has the checksum of another message, or one that is
erased (`EepromAssumption`), is an idealisation: a checksum tells messages apart
nearly always. It is assumed only of messages that consist of words of
configurations and erased ones. After the save at boot `EEPROM_Load` goes on without
another look at length and CRC; when that save was cut short by the NFC handler,
what it makes of words that are no configuration is any configuration, or an
ill-formed key, for which it invalidates the EEPROM and resets (`LoadSaved`). NFC
commands come in a privileged session. `told` (the password acknowledged last) is
forgotten when the power goes while the handler is at work, `clash` remembers that
the handler wrote while main did, and `late` that NFC changed `DevCfg` after
`EEPROM_Save` had read it.

**NvmContext.** A content of a group is a number that every change counts up.
`MibSet` is a change by main or by the NFC interrupt, which the MAC refuses while an
exchange is on, `Request`, `ProcessBusy`
and `ProcessDone` an exchange, `Touch` a request that led to none. `Store` is
`NvmDataMgmtStore` with the stopped MAC; for each group it either skips, or
unlocks the EEPROM (`WriteBuffer`) and programs it with interrupts off
(`Program`). Between these two `NfcLocks`. The group that is written while the
power goes is old, new or bad. `missed` and `touched` are history, and name the
two exceptions: a group whose last write was refused, and a change that the MAC
has no flag for until the next exchange.

**ConfigSession** is the composition: the main loop of `lrw.c` and `main.c` around
the actions of `NvmContext`, with four groups that have fields (the frame counter,
the data rate, activation with address and default data rate, and the keys),
`DevCfg` beside them in RAM and EEPROM, and the network's own view of the session. A
session is one number for its address and its keys. NFC may set the spreading
factor, the application key and ABP/OTAA, or leave the network, between any two
steps (but `LeaveRefused` while the MAC is busy); the power may go between any two.
Not here: session keys, addresses or EUIs set by NFC, the region, transmit power,
ADR and duty-cycle settings, the DevNonce, the factory reset, and NFC locking the
EEPROM (which is in `NvmContext` and `EepromStore`). A configuration that was not
saved whole counts as missing at boot; `EepromStore` shows that. After a join by
personalisation the MAC's pending confirmation is not modelled.

**NfcSession.** `Interrupt` is the password check and the first reading of the
clock, `Reread` the second one (`&&` reads it again only if the first passed),
`Serve` one message of any kind, `Stamp` the time stamp, which is taken after the
answer was sent. `password` and `whole` are the word in the EEPROM and whether its
complement confirms it. A password that is not whole is replaced by the default one
first; when main was interrupted with the HAL's lock taken (`held`) that erases the
word but cannot program it, and the message is compared with the erased word
(isr.c:361). The clock counts modulo `Period` and is at any value. `age`,
`gap`, `cameRound`, `inTime` are history: how old the session really is, for how
long no interrupt looked at it, and whether the clock came round unseen.

**Codec.** Bytes, words, tags and positions have the widths the constants give.
`Fields` are the fields of `EEPROM_Save` in its order, one setting of each type.
`EncodeByte` and `PBDecodeVarint` follow the source's treatment of bit limits and
continuation bits; `DecodeKey` and `DecodeValue` are the two halves of the loop that
`EEPROM_Load` and `PBDecodeMsg` share. `fields` and `nth` are the calls of
`PBEncodeMsgField` and the next of them. Such a call is `BeginField`, `EncodeByte`
for each byte of key, varint and length (counted in any case, written when there is
room: `size++ < len`), `CopyBytes` for the `memcpy` of a fixed number or an array
with its `cpylen`, and `EndField`. `whole`, the message without a bound on the
buffer, is history; it is made by reference operators (`EncodeVarint`,
`EncodeValue`, `FieldOf`) that know nothing of bytes written one by one.
`CodecAssumption` is what the widths of the code have in common: a tag fits its key,
a length its array, a word its varint.

## Runs

| Run | Checks | Shows |
|---|---|---|
| `lrw_queue` | `TypeOK`, `RetransHeld`, `AtMostRetrans`, `NoSharedSlot`, `RetransSame`, `PowerRestored`, `CantWriteOnceSet`, `ImplementsOutbox`, `Drains` | the conventions that replace locks suffice when handlers do not preempt each other; the queue implements `Outbox`, safety and liveness, and is emptied while there is a network, whatever the MAC refuses, fails or leaves unanswered |
| `gestures` | `TypeOK`, `PressWasNoLonger`, `ReportsApart` | bouncing never makes a shorter gesture of a longer press, nor two of one |
| `standby` | `TypeOK`, `InTime`, `MainHasAdc`, `HeartbeatIsScheduled`, `RestrictedIsScheduled`, `IsRetried` | the timer is right whoever sets it last; main always has the ADC; a device stops with the wake-ups it needs; what was restricted is tried again |
| `eeprom` | `TypeOK`, `LoadsWhatWasSaved`, `PasswordWasSet`, `PasswordChangedAsTold`, `ChangesAreSaved` | no interrupt or power loss makes a half written configuration or password valid; what was done undisturbed is there |
| `nvm_context` | `TypeOK`, `StoredWhenQuiet`, `FlagsAreServed` | whatever interrupts a store, an idle device has its context in the EEPROM, and no flag is overwritten unserved |
| `config_session` | `SessionTypeOK`, `SessionWhole`, `SessionIsServers`, `CounterUsedOnce`, `InSync` | the session is whole, the network's, and uses each frame counter once; the two copies of the configuration agree |
| `nfc_session` | `TypeOK`, `OnlyAfterPassword`, `SessionLasts`, `OnlyInTime` | secrets after the right password and in time; a session is not cut short |
| `codec` | `TypeOK`, `LoadedIsSaved`, `SizeIsTold`, `LoadEnds` | decoding inverts encoding and ends with the message; a short buffer loses the end, not the size |
| `heartbeat` | `HeartbeatIsSent` (violated) | the handler of the wake-up that finds the heartbeat due waits for the ADC for ever instead of sending it |
| `lrw_late_ack` | `NotLost` (violated) | an acknowledgement of the last retransmission clears a slot that was freed and taken again |
| `config_undone` | `SessionKept` (violated) | a change by NFC during a join undoes it: the device goes on with the session before |
| `codec_humidity` | `HumidityIsKept` (violated) | the upper threshold of the humidity is saved as a signed integer and loaded as an unsigned one |

The violated ones are among the findings in PROJECT.json; each quotes the line of
the repository it contradicts. The other findings have no run: the models have what
the code does there, and the properties except it, as listed below.
`SessionIsServers` is `SessionKept` with the exception
the finding makes, `LoadedIsSaved` excepts the humidity in the same way.

Each property of a passing run has a mutant under `mutants` in PROJECT.json: an
operator beside the one it stands in for, with the mistake a programmer could
make there (its comment says which), under which TLC finds the property violated.

### What the exceptions mean

Several properties name what they except; each exception was found by TLC as a
counterexample to the property without it:

* A duty cycle that refuses the first transmission of a confirmed message leaves
  `retrans_left` set, so that the next call raises the power as if the message
  had not been acknowledged (lrw.c:1066, 1086, 1111).
* A short press right after a bounce may be reported as a long one, as the hold
  is measured from the last rise that was not debounced (isr.c:62-68). In the
  three-gesture build a double press may be followed by a single one.
* What the MAC failed to send, or replaced by an empty frame, `LRW_Send` cannot tell
  from a transmission: the message is freed unsent, as is one whose network NFC
  leaves between `SendPick` and `LRW_TX` (lrw.c:1115-1121, protobuf.c:455-462).
  The outbox gives up such a message, and `PowerRestored` excepts a last
  retransmission that failed, for which no `McpsConfirm` comes.
* A handler that comes between `HW_EnterStopMode`'s de-initialisation and the
  wake-up and sends something waits for the ADC for ever: the RTC's always, as it
  does not call `HW_ExitStopMode`, any other when it comes before WFI
  (hardware.c:110, 403-427). So the heartbeat that main.c:446 schedules is never
  sent by a device that was stopped: `HeartbeatIsSent` is violated. `IsRetried` is
  about a device whose handlers do not end like this and says `\/ spinning`.
* The wake-up of a restriction of one to two seconds may come before WFI and be
  used up; one of exactly 1000 ms is neither waited for nor scheduled
  (main.c:574, 590). `RestrictedIsScheduled` is about two seconds and more.
* `sendInterval` is not checked against its documented range of 1 to 129600 s
  (protobuf.c:514-516); an interval beyond 131072 s is cut to the timer's 17 bits
  (hardware.c:632-633), and the timer fires too early and then out of step with what
  is due. `DuesAreMet` is about intervals and restrictions the timer can count.
* Changes by NFC that come while main applies or saves earlier ones are forgotten
  with them (main.c:411), until the next change: neither applied nor, when
  `EEPROM_Save` had read `DevCfg`, saved. `ChangesAreSaved` says `~late`,
  `HeartbeatIsScheduled` `~missed`.
* When the NFC handler writes to the EEPROM in the middle of main's writing, main
  finds it locked, or the handler finds the HAL busy, and what was to be written
  is lost without notice (hardware.c:468, 531). Neither is ever taken for valid.
* A device told over NFC to leave the network during an exchange stays joined: the MAC
  refuses as busy (LoRaMac.c:3770-3773) and protobuf.c:460 ignores the status.
* `OnlyAfterPassword` and `OnlyInTime` are about what the code protects: secrets, the
  password, the firmware update. MESSAGE_FORMAT_NFC.md:1239-1240 and 1322 have
  Write Configuration privileged, too; isr.c:344-349 applies it in any case, and
  only answers otherwise.
* A device gives up joining after one trial; the comment in main.c:437 speaks of
  five.
* A group that NFC changes after its CRC was made and before it is written is
  stored bad until the next exchange; when the power goes then, the session is
  lost, or falls back to one of before (`interrupted`).
* A data rate that NFC sets equal to the current one does not become the default,
  and is undone by the next `LRW_ToDevCfg` (lrw.c:480-492).
* The millisecond clock wraps every 49.7 days. A session that nobody looks at for
  that long, or a wrap between the two readings in isr.c:291, may find an old
  session open again; one whose end lies past a wrap ends early.
  MESSAGE_FORMAT_NFC.md:195 has consecutive messages prolong a session; the code
  takes the time with PRESENTPASSWORD only (isr.c:369).

### Bounds

* `LrwQueue`: 2 handlers of one priority, a queue of 2 (3 in the code), 3
  messages, 2 transmissions of a confirmed message (3), 2 powers. Two slots are
  the least in which a lower slot can be taken while a higher one is sent, and a
  third message is the least that finds the queue full, or a slot that was freed.
  Two transmissions give one that is first and last in turn, and one in between is
  as the first. An application key is always set in the run. The proofs hold for
  all values. No symmetry is used, as the run checks liveness. `lrw_late_ack` has
  the same bounds.
* `Gestures`: the limits keep their order and their gaps (1, 5, 7, 9 ticks for
  100, 1500, 2001, 8000 ms), and 2 tasks are more than the one client needs. Ages
  stop at one past the longest, where no comparison changes any more.
* `Standby`: an interval of 4 s and none, so that restrictions end before, with
  and after the message that is due; a queue of 2; restrictions of 0.5 s, which
  is waited for, and of 2.5 and 3 s, which are slept through; half of the timer's
  range is 3 s, so that the interval of 4 s needs the 17th bit.
* `EepromStore`: configurations of one and two words, with words of two bits,
  two passwords and the default. Two lengths are needed for parts of one to be
  left behind the other. Powers are lost as often as they like.
* `NvmContext`: 3 groups (7 in the code), so that one is before, one at and one
  behind the one being written, and 2 changes of each, so that a CRC can be of a
  content before the last. The proofs hold for any number. Contents are counted,
  so no change takes an earlier one back; `ConfigSession` has such changes.
* `ConfigSession`: 4 groups, as fields are spread over no more; 2 sessions, so
  that one is replaced by another; 2 frames in each, 2 NFC commands and 1 power
  loss. A second command is the least that can meet a change that is pending.
* `NfcSession`: 3 passwords, the default one, an erased word and another, a
  time-out of 4 and a clock of 12, so that a session fits between two wraps and a
  wrap falls anywhere in a session.
* `Codec`: 5 bits a byte, words of 10 bits, keys of one to three bytes, arrays of
  up to 26 bytes in a message of at most 31, positions of 5 bits. Values are at
  the limits of one, two and three bytes; buffers hold nothing, all, and what ends in a
  key, between a length and its array, and in the middle of a copy.

### Fairness

* `LrwQueue!FairSpec`: handlers run to their end, and main goes on within `LRW_Send`
  (weak). The MAC answers each request, as its state machine has a time-out (weak).
  Main's calls of `LRW_Send` are strongly fair, as each handler interrupts them, but
  handlers end. So is an `LRW_TX` that is not refused for the duty cycle: the duty
  cycle gives its time. Nothing is assumed of joining, acknowledgements or failures:
  `Drains` and the outbox's `Leave` speak of a device that stays joined. Such a
  device does not sleep while something is queued, unless restricted for a second
  or more, and then it comes back to `LRW_Send` (`IsRetried`; but for exactly 1000 ms,
  a finding). A device that is not joined gives up after one trial, and may sleep
  with messages queued until a button or NFC wakes it.
* `Standby!FairSpec`: time passes; a pending interrupt is taken (weak); main
  goes on between interrupts (strong).
* `Codec!Spec`: the functions go on (weak); nothing else runs in it.

No fairness is assumed of the button, of NFC, or of the power supply. Every
violated run is of a safety property and needs no fairness.

Deadlock is checked for `Gestures`, `EepromStore`, `NvmContext`, `ConfigSession`
and `NfcSession`. `LrwQueue` may stop when all messages have been sent, `Standby`
when a handler spins with its own interrupt pending, `Codec` when the walk ended.

## Proofs

Eight modules prove, from the assumptions on the constants alone, what the runs
check on small instances. Each has an inductive invariant, of which the properties
are consequences, and lemmas `...Init` and `...Step` for its parts with a step per
action.

**LrwQueueProofs**: for every queue length, number of transmissions, set of
handlers, priorities, and set of messages `TypeCorrect`, `NoSlotIsShared`,
`RetransmissionsAreHeld`, `AirtimeIsBounded` (`AtMostRetrans`) and, as an action
property, `RetransmissionsAreOfOneMessage`. The invariant of the slots is `SlotInv
== RetransHeld /\ ResendsHeld /\ NoSharedSlot`, with `TypeOK`. `RetransHeld` alone
is not inductive: when `SendFree` frees a slot, that it is not the held one but when
the retransmissions end follows from `ResendsHeld` (main works on the held slot),
and when `SendArm` takes a slot, that it is in use and nobody composes into it
follows from `NoSharedSlot`. That one in turn needs `RetransHeld` when `SendPick`
resends without looking at `msg_type`. What makes `SlotPush` go through is that a
handler that is composing took a slot that was free, and that main does not run
while it does. `TimesInv` bounds the air time: a message is not pushed yet, with one
handler, or in one slot (`FreshInv`, `ActiveInv`, `Distinct`), and one in a slot has
not been on air unless it is the held one, whose times on air and retransmissions
left are bounded together (`CountInv`; `Sent` is the moment after `LRW_TX`, before
one is used up). None of this asks for flat priorities: it survives nested handlers.

`PowerIsRestored` (`PowerRestored`) rests on `TxInv`, what `LRW_TX` leaves to the
end of `LRW_Send`: the MAC is busy with a frame it took, and a refusal left a time
to wait. So a power that is raised while main is in the loop, with the MAC idle and
no retransmission to come, was raised by a request that failed. `OnceSetIsKept`
(`CantWriteOnceSet`) assumes `OnePriority`. Then one handler at most is at work, and
what it composed is in a slot that is free and that nobody else takes (`FlatInv`).
Without that assumption it is false: in the STX build EXTI4_15 (priority 1) preempts
the RTC (3) and takes the same free slot. `TakesOutboxSteps` is the safety part of
the refinement of `Outbox` (`Outbox!Steps`), under `OnePriority`, with confirmed
messages, failures, empty frames and networks left in the middle of `LRW_Send`:
publishing a message is `Accept`, an `LRW_TX` that succeeds is `Deliver` or
`Repeat`, one that fails is `Fail`, `SendFree` after that is `GiveUp` or `TryAgain`,
`McpsConfirm` is `Answer`, every other step leaves the outbox alone or changes the
network. `FlatInv` keeps what is queued as it was composed; by `TimesInv` a message
is in one slot only, and has not been on air in one that is not held. `SentInv` says
that at the end of `LRW_Send` the message it works on was on air unless the MAC
refused or failed it, so that freeing its slot takes away what was delivered, or
what failed, and nothing else. That a message finds room is counting slots. The
fairness part is only model-checked.

**GesturesProofs**: for all limits in their order `TypeCorrect`, `NoLonger` and
`AreApart`. The handler never sees how long a press was, only how long ago the
last rise was that it did not debounce. `HoldCovers` says that this is never
less, while the press goes on and until its release is handled. `ReportsAreFalls`
says that every report of the two-gesture build resets `lastFall`.

**StandbyProofs**: for every queue, all intervals and restrictions `TypeCorrect`,
`DuesAreMet` (`InTime`, under `Settable`: intervals and restrictions of no more
seconds than the 17 bits of the timer count), `MainHasTheAdc`, `HeartbeatScheduled`, and
`RestrictionScheduled`, this one under `LongRestrictions` (none from 1000 to
1999 ms). The invariant has a part for each. `TimerFits`: the timer fires with
what is due, a second late at most, or every second. `ConcludedFits`: between
main's conclusion and its call of `HW_RTCWUTSet` what it concluded is what is
due, before or after the one second that may pass, unless something was due
within it. `AdcInv`: whoever ends STOP mode knows by `hwSlept` that the ADC is
off. `TrialsInv` and `HeartbeatInv`: the heartbeat fits the interval, but between
a join and `CountTrials`, where `joinTrials` is 1. `RestrictionInv`: a second
of the restriction is left when the device stops, as one at most has passed.

**EepromStoreProofs**: for every size of words, room, and set of configurations and
passwords `TypeCorrect`, `LoadsSaved` (`LoadsWhatWasSaved`), `PasswordSet`,
`PasswordAsTold` and `ChangesSaved` (`ChangesAreSaved`). The program counters are
sequences of operations, so the invariant speaks of what is left of them.
`ValueInv`: every address of the EEPROM holds a value that was once meant for it, or
is erased; the CRC is that of a saved configuration, the password and its complement
are of passwords that were set; main keeps away from the password, and the interrupt
from the configuration unless it resets the device. This is all that
`LoadsWhatWasSaved` needs, with `EepromAssumption`: whatever words lie behind a
length, if their checksum is that of a configuration they are that configuration.
`LockInv`: who holds the EEPROM unlocked, and who the HAL. `SaveInv`: while nothing
interferes, what is left to main is a tail of `EEPROM_Save`, the words before it are
written, and no error is pending. `ChangeInv` is the same for `HW_ChangePW`, while
main is not writing. The last two give the properties about writes that nothing
disturbed.

**NvmContextProofs**: for every number of groups and of changes `TypeCorrect`,
`ContextIsStored` (`StoredWhenQuiet`) and `FlagsServed` (`FlagsAreServed`). Where
main is tells the flags and the state of the MAC (`PhaseInv`: flags are empty in
the loop, which is why none is overwritten); CRCs are never ahead of contents
(`CrcInv`); and each group is still to be written, was refused, or is in the
EEPROM as its CRC has it, or was changed since (`StoredInv`).

**ConfigSessionProofs**: for every number of sessions, frames, commands and losses
of power `TypeCorrect`, `SessionIsWhole`, `SessionIsCurrent` (`SessionIsServers`),
`CountersAreFresh` (`CounterUsedOnce`) and `CopiesAgree` (`InSync`). Field lemmas
(`FromDevCfgFields`, `SessionFields`, ...) say what each change of the context does
to its address, keys, activation and counter. Address and keys go everywhere
together (`WholeInv`). Every group is still to be written, or stored as its CRC has
it, or bad (`StoreInv`), so that what an idle device restores has the counter it
stopped with. While nothing troubled the device, DevCfg and the EEPROM have the keys
of the context, but between the end of an exchange and `LRW_SaveNvm`'s copy
(`KeysInv`, which also bounds them by the network's session), and the frames on air
are of sessions up to this one and counted up to now (`FramesInv`). `Troubles` shows
that the exceptions stay recorded. For `InSync`, DevCfg and the context agree
(`Synced`) from when changes are applied, or copied, until there are new ones
(`SyncInv`), and nothing but the network makes the current rate differ from the
default, in what was stored too (`RateInv`). The code sets the default only when the
current rate is not the one wanted already, so the two must be equal. Two more
theorems are about the store with changes that may be taken back, as a command's
leaving the network is by activation by personalization. `FlagsServed` is
`FlagsAreServed` for this composition. `StoredWhenQuiet` does not hold here: a group
that NFC changes while it is written is stored with a CRC that is not its own; when
the change is taken back before the next exchange, the CRC is right again, the group
is not flagged, and it stays bad in the EEPROM until it changes. What holds is
`NeverOutdated`: main sleeps with nothing to be handled only when every group of the
EEPROM is the one of the RAM, or bad by its CRC, and never an older one
(`StoredIsCurrent`). Both rest on `HandledInv`, the context differs from what its
CRCs were made of only while a change is to be handled, and `PastInv`, what
`NvmDataMgmtStore` is past was written (`ChangesAreHandled`).

**NfcSessionProofs**: for every time-out, period and set of passwords
`TypeCorrect`, `SecretsNeedPassword`, `SessionIsKept` and `SessionEnds`
(`OnlyInTime`). An open session was
opened by the right password (`ValidIsRight`), answers are cleared before a
message is looked at (`QuietUntilServed`), and a young session that does not end
past a wrap is open, with the clock at its time stamp plus its age
(`YoungIsOpen`). For its end: as long as the clock did not come round unseen, the
difference to the time stamp is the time since, with one wrap or none
(`ClockTells`), and an end past a wrap lies before the time stamp (`EndWraps`).

**CodecProofs**: for all widths of bytes, integers and positions, all tags,
configurations and buffers that fit them `TypeCorrect`, `SavedIsLoaded`
(`LoadedIsSaved`), `SizeTold` and `SavedIsAccepted`, the
safety part of `LoadEnds` (a message is refused only when it fills all positions).
`LoadAdvances` gives its variant: a step of the walk ends it or goes to a later
position, of which there are finitely many, unless the message fills all of them.
The invariant says where everything is: the fields are laid one after the other
(`LaidInv`), the buffer has as much as fits of what was encoded so far
(`BufferInv`), and the walk is
at the start of a field, with the settings before it loaded, or has wrapped
around at the end of a message of 256 bytes (`WalkInv`). Within a field, what was
written byte by byte and what is left of it (`Todo`, from the number that is shifted)
are together the reference encoding (`Encoded`): `ChunkEncoded` is a step that
encodes a chunk of it, which `Clipped` takes in as far as there is room, with
`CopyLenIs` for the reckoning of a copy. A step of the walk is
`FieldDecoded`: wherever a field is, at the end of the message too, where the
limits of its varints are those of the bytes that are left, its key and its value
are read back and the next field starts behind it. It rests on `KeyDecoded` (a key
of one byte, and of more, whose tag is split between them), `VarintDecoded`,
`FixedValue` and `BytesValue`, these on `NumberOfGroups` (a number is the sum of
its groups of bits), and that one on quotients and remainders of powers of two.
`TwoTo` and `Number` are recursive functions. That they exist and that sums over
them are right is proved by induction, in the form of sets: a set that has zero
and every successor has all natural numbers (`SetInduction`, from the library's
`WFMin`), and there is a function with a given first value and given steps
(`PrimitiveRecursion`).

Only model-checked: liveness (`Drains`, `IsRetried`, and of `LoadEnds` what
`LoadAdvances` leaves to fairness) and the fairness part of `ImplementsOutbox`, as
the prover handles neither `ENABLED` nor fairness. The four violated properties are
of TLC's runs alone.
