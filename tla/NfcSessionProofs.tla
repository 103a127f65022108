-------------------------- MODULE NfcSessionProofs --------------------------
(***************************************************************************)
(* Proofs about NfcSession, for every timeout, period and set of passwords *)
(*                                                                         *)
(* The inductive invariant adds to the properties what the handler relies  *)
(* on between interrupts: an open session was opened by the right password *)
(* (ValidIsRight), and while a session is young, and does not end past a   *)
(* wrap of the clock, it is open and the clock is its age after its        *)
(* timestamp (YoungIsOpen).                                                *)
(***************************************************************************)
EXTENDS NfcSession, TLAPS

ValidIsRight ==
  /\ pw_valid => right
  /\ pc = "stamp" => pw_valid = right

QuietUntilServed == pc \in {"reread", "serve", "reset"} => answer = "none"

YoungIsOpen ==
  right /\ age < NFC_PWTIMEOUT /\ pw_timestamp + NFC_PWTIMEOUT < Period
        /\ pc # "stamp"
    => pw_valid /\ clock = pw_timestamp + age

Inv ==
  /\ TypeOK /\ ValidIsRight /\ QuietUntilServed /\ YoungIsOpen
  /\ OnlyAfterPassword /\ SessionLasts

USE NfcSessionAssumption

(* A number is its own remainder when it is less than the modulus. *)
LEMMA Remainder ==
  ASSUME NEW a \in Nat, NEW n \in Nat, a < n
  PROVE  a % n = a
  OBVIOUS

LEMMA RemainderIsTime ==
  ASSUME NEW a \in Nat
  PROVE  a % Period \in Time
  BY DEF Time

LEMMA Bounds ==
  /\ 0 \in Time /\ LongGap \in Nat /\ 0 \in 0 .. LongGap
  /\ 0 \in 0 .. NFC_PWTIMEOUT /\ NFC_PWTIMEOUT \in 0 .. NFC_PWTIMEOUT
  BY DEF Time, LongGap

LEMMA InitInv == Init => Inv
  <1> SUFFICES ASSUME Init PROVE Inv OBVIOUS
  <1>1. TypeOK BY Bounds DEF Init, TypeOK, Granted, Refused
  <1>2. /\ ValidIsRight /\ QuietUntilServed /\ YoungIsOpen
        /\ OnlyAfterPassword /\ SessionLasts
    BY DEF Init, ValidIsRight, QuietUntilServed, YoungIsOpen,
           OnlyAfterPassword, SessionLasts
  <1> QED BY <1>1, <1>2 DEF Inv

(* Every step keeps the invariant, one step of the proof per action. *)
LEMMA NextInv == Inv /\ [Next]_vars => Inv'
  <1> SUFFICES ASSUME Inv, [Next]_vars PROVE Inv' OBVIOUS
  <1> USE DEF Inv
  <1>t. /\ clock \in Nat /\ clock < Period
        /\ pw_timestamp \in Nat /\ pw_timestamp < Period
        /\ age \in Nat /\ gap \in Nat /\ LongGap \in Nat
    BY DEF TypeOK, Time, LongGap
  <1>1. CASE Tick
    <2> USE <1>1 DEF Tick
    <2>1. clock' \in Time BY <1>t, RemainderIsTime
    <2>2. TypeOK'
      BY <1>t, <2>1 DEF TypeOK, statics, eeprom
    <2>3. YoungIsOpen'
      <3> SUFFICES ASSUME right, age' < NFC_PWTIMEOUT, pc # "stamp",
                          pw_timestamp + NFC_PWTIMEOUT < Period
                   PROVE  pw_valid /\ clock' = pw_timestamp + age'
        BY DEF YoungIsOpen, statics
      <3>1. age' = age + 1 /\ age < NFC_PWTIMEOUT BY <1>t
      <3>2. pw_valid /\ clock = pw_timestamp + age BY <3>1 DEF YoungIsOpen
      <3>3. clock + 1 \in Nat /\ clock + 1 < Period BY <1>t, <3>1, <3>2
      <3>4. clock' = clock + 1 BY <3>3, Remainder
      <3> QED BY <1>t, <3>1, <3>2, <3>4
    <2>4. /\ ValidIsRight' /\ QuietUntilServed' /\ OnlyAfterPassword'
          /\ SessionLasts'
      BY DEF ValidIsRight, QuietUntilServed, OnlyAfterPassword, SessionLasts,
             statics
    <2> QED BY <2>2, <2>3, <2>4
  <1>2. CASE Interrupt
    <2> USE <1>2 DEF Interrupt
    <2>p. /\ password' \in Passwords /\ whole' \in BOOLEAN /\ held' \in BOOLEAN
          /\ whole' \/ password' = Erased
      BY DEF TypeOK, HW_ChangePW, eeprom
    <2>1. CASE pw_valid /\ clock >= pw_timestamp
      <3>1. TypeOK'
        BY <2>1, <2>p, <1>t DEF TypeOK, statics, history, Granted, Refused
      <3>2. /\ ValidIsRight' /\ QuietUntilServed' /\ YoungIsOpen'
            /\ OnlyAfterPassword' /\ SessionLasts'
        BY <2>1 DEF ValidIsRight, QuietUntilServed, YoungIsOpen,
                    OnlyAfterPassword, SessionLasts, statics, history
      <3> QED BY <3>1, <3>2
    <2>2. CASE ~(pw_valid /\ clock >= pw_timestamp)
      <3>l. Looks BY <2>2
      <3>i. inTime' \in BOOLEAN BY <3>l DEF Looks
      <3>r. cameRound' \in BOOLEAN BY <3>l DEF Looks
      <3>g. age' \in 0 .. NFC_PWTIMEOUT /\ gap' \in 0 .. LongGap
        BY <3>l, Bounds DEF TypeOK, Looks
      <3>c. pc' = "serve" /\ pw_valid' = FALSE BY <2>2
      <3>1. TypeOK'
        BY <2>2, <2>p, <3>i, <3>r, <3>g, <3>c DEF TypeOK, Refused
      <3>2. right /\ age < NFC_PWTIMEOUT
              => ~(pw_timestamp + NFC_PWTIMEOUT < Period)
        BY <1>t, <2>2 DEF YoungIsOpen
      <3>3. YoungIsOpen' /\ SessionLasts'
        BY <2>2, <3>2 DEF YoungIsOpen, SessionLasts, Looks
      <3>4. ValidIsRight' /\ QuietUntilServed' /\ OnlyAfterPassword'
        BY <2>2 DEF ValidIsRight, QuietUntilServed, OnlyAfterPassword
      <3> QED BY <3>1, <3>3, <3>4
    <2> QED BY <2>1, <2>2
  <1>3. CASE Reread
    <2> USE <1>3 DEF Reread
    <2>1. TypeOK' BY Bounds DEF TypeOK, Looks, eeprom
    <2>2. ASSUME right, age < NFC_PWTIMEOUT,
                 pw_timestamp + NFC_PWTIMEOUT < Period
          PROVE  pw_valid' /\ clock = pw_timestamp + age
      <3>1. clock = pw_timestamp + age BY <2>2 DEF YoungIsOpen
      <3>2. (pw_timestamp + NFC_PWTIMEOUT) % Period
              = pw_timestamp + NFC_PWTIMEOUT
        BY <1>t, <2>2, Remainder
      <3>3. pw_valid BY <2>2 DEF YoungIsOpen
      <3>4. clock < pw_timestamp + NFC_PWTIMEOUT BY <1>t, <2>2, <3>1
      <3> QED BY <3>1, <3>2, <3>3, <3>4
    <2>3. YoungIsOpen' /\ SessionLasts'
      BY <2>2 DEF YoungIsOpen, SessionLasts, Looks
    <2>4. ValidIsRight' /\ QuietUntilServed' /\ OnlyAfterPassword'
      BY DEF ValidIsRight, QuietUntilServed, OnlyAfterPassword
    <2> QED BY <2>1, <2>3, <2>4
  <1>4. CASE NoMessage
    BY <1>4, <1>t DEF NoMessage, TypeOK, ValidIsRight, QuietUntilServed,
       YoungIsOpen, OnlyAfterPassword, SessionLasts, statics, history, eeprom
  <1>5. CASE \E m \in Message : Serve(m)
    <2> PICK m \in Message : Serve(m) BY <1>5
    <2>m. m.wellFormed \in BOOLEAN /\ m.pw \in Passwords BY DEF Message
    <2>s. pc = "serve" BY DEF Serve
    <2>1. CASE FirmwareUpdate(m)
      <3>1. TypeOK'
        BY <2>1, Bounds
           DEF FirmwareUpdate, Boots, history, TypeOK, Granted, eeprom
      <3> QED
        BY <2>1, <3>1
           DEF FirmwareUpdate, Boots, ValidIsRight, QuietUntilServed,
               YoungIsOpen, OnlyAfterPassword, SessionLasts
    <2>2. ASSUME NEW reply \in Granted \cup Refused \cup {"applied"},
                 Replies(reply),
                 reply \in {"secrets", "changed"} => pw_valid
          PROVE  Inv'
      <3>1. TypeOK' BY <2>2, <1>t DEF Replies, TypeOK, statics, history, eeprom
      <3>2. /\ ValidIsRight' /\ QuietUntilServed' /\ YoungIsOpen'
            /\ OnlyAfterPassword' /\ SessionLasts'
        BY <2>2, <2>s DEF Replies, ValidIsRight, QuietUntilServed,
           YoungIsOpen, OnlyAfterPassword, SessionLasts, statics, history
      <3> QED BY <3>1, <3>2
    <2>3. CASE Get(m)
      BY <2>2, <2>3 DEF Get, Granted, Refused
    <2>4. CASE SetConfig(m)
      BY <2>2, <2>4 DEF SetConfig
    <2>5. CASE PresentPassword(m)
      <3>1. TypeOK'
        BY <2>5, <2>s, <1>t DEF PresentPassword, TypeOK, history, Granted,
           Refused, eeprom
      <3> QED
        BY <2>5, <3>1 DEF PresentPassword, ValidIsRight, QuietUntilServed,
           YoungIsOpen, OnlyAfterPassword, SessionLasts
    <2>6. CASE ChangePassword(m)
      <3>1. CASE ~pw_valid
        BY <2>2, <2>6, <3>1 DEF ChangePassword, Refused
      <3>2. CASE pw_valid
        <4>1. TypeOK'
          BY <2>6, <3>2, <2>m, <1>t DEF ChangePassword, HW_ChangePW, TypeOK,
             statics, history, Granted
        <4> QED
          BY <2>6, <3>2, <4>1, <2>s DEF ChangePassword, ValidIsRight,
             QuietUntilServed, YoungIsOpen, OnlyAfterPassword, SessionLasts,
             statics, history
      <3> QED BY <3>1, <3>2
    <2>7. CASE FactoryReset(m)
      <3>1. TypeOK'
        BY <2>7, <1>t DEF FactoryReset, TypeOK, statics, history
      <3> QED
        BY <2>7, <2>s, <3>1 DEF FactoryReset, ValidIsRight,
           QuietUntilServed, YoungIsOpen, OnlyAfterPassword, SessionLasts,
           statics, history
    <2>8. CASE Ignores(m)
      BY <2>2, <2>8 DEF Ignores, Refused
    <2> QED
      BY <2>1, <2>3, <2>4, <2>5, <2>6, <2>7, <2>8 DEF Serve
  <1>6. CASE Stamp
    <2> USE <1>6 DEF Stamp
    <2>1. TypeOK' BY Bounds DEF TypeOK, eeprom
    <2>2. /\ ValidIsRight' /\ QuietUntilServed' /\ YoungIsOpen'
          /\ OnlyAfterPassword' /\ SessionLasts'
      BY <1>t DEF ValidIsRight, QuietUntilServed, YoungIsOpen,
         OnlyAfterPassword, SessionLasts, TypeOK
    <2> QED BY <2>1, <2>2
  <1>7. CASE Reset
    <2>1. TypeOK' BY <1>7, Bounds DEF Reset, Boots, history, TypeOK, eeprom
    <2> QED
      BY <1>7, <2>1 DEF Reset, Boots, ValidIsRight, QuietUntilServed,
         YoungIsOpen, OnlyAfterPassword, SessionLasts
  <1>8. CASE PowerLoss
    <2>1. TypeOK'
      BY <1>8, Bounds DEF PowerLoss, Boots, history, TypeOK, Refused, eeprom
    <2> QED
      BY <1>8, <2>1 DEF PowerLoss, Boots, ValidIsRight, QuietUntilServed,
         YoungIsOpen, OnlyAfterPassword, SessionLasts
  <1>9. CASE UNCHANGED vars
    BY <1>9, <1>t DEF vars, eeprom, statics, history, TypeOK, ValidIsRight,
       QuietUntilServed, YoungIsOpen, OnlyAfterPassword, SessionLasts
  <1> QED
    BY <1>1, <1>2, <1>3, <1>4, <1>5, <1>6, <1>7, <1>8, <1>9 DEF Next

THEOREM Invariant == Spec => []Inv
  BY InitInv, NextInv, PTL DEF Spec

(* The state keeps its types: the timestamp stays a value of the clock,    *)
(* and NFCISR never compares with the rest of a password that was cut off, *)
(* only with a whole one or, with main holding the lock of the HAL's flash *)
(* driver, with an erased word.                                            *)
THEOREM TypeCorrect == Spec => []TypeOK
  BY Invariant, PTL DEF Inv

(* For every timeout and period of the clock, NFCISR gives its secrets and *)
(* changes the password only after the right password was presented, with  *)
(* no wrong one and no reset since.                                        *)
THEOREM SecretsNeedPassword == Spec => []OnlyAfterPassword
  BY Invariant, PTL DEF Inv

(* Whoever presented the right password is in session for the whole        *)
(* timeout, unless the session's end lies past a wrap of the clock.        *)
THEOREM SessionIsKept == Spec => []SessionLasts
  BY Invariant, PTL DEF Inv

-----------------------------------------------------------------------------
(* The end of the session.  The clock tells the time since the timestamp   *)
(* as long as that is less than its period, which is so when the session   *)
(* was young when last looked at, at most LongGap ago.                     *)

Elapsed == IF clock >= pw_timestamp THEN clock - pw_timestamp
                                    ELSE clock - pw_timestamp + Period

ClockTells ==
  pw_valid /\ ~cameRound /\ gap < LongGap /\ pc # "stamp"
    => /\ Elapsed < NFC_PWTIMEOUT + gap
       /\ age = IF Elapsed < NFC_PWTIMEOUT THEN Elapsed ELSE NFC_PWTIMEOUT
       /\ pc = "reread" => clock >= pw_timestamp

ServedInTime == pc = "serve" /\ pw_valid => inTime \/ cameRound

EndInv == ClockTells /\ ServedInTime

(* A session's end that lies past a wrap is before its timestamp.          *)
LEMMA EndWraps ==
  ASSUME NEW t \in 0 .. Period - 1, t + NFC_PWTIMEOUT >= Period
  PROVE  (t + NFC_PWTIMEOUT) % Period < t
<1> DEFINE d == t + NFC_PWTIMEOUT - Period
<1>1. d \in Nat /\ d < Period /\ d < t
  OBVIOUS
<1>2. t + NFC_PWTIMEOUT = d + Period
  OBVIOUS
<1>3. (d + Period) % Period = d
  <2> HIDE DEF d
  <2> QED BY <1>1
<1> QED
  BY <1>1, <1>2, <1>3

LEMMA EndInit == Init => EndInv
  BY DEF Init, EndInv, ClockTells, ServedInTime

LEMMA EndStep == Inv /\ EndInv /\ [Next]_vars => EndInv'
<1> SUFFICES ASSUME Inv, EndInv, [Next]_vars PROVE EndInv'
  OBVIOUS
<1> USE DEF EndInv
<1>t. /\ clock \in Nat /\ clock < Period
      /\ pw_timestamp \in Nat /\ pw_timestamp < Period
      /\ age \in Nat /\ gap \in Nat /\ LongGap = Period - NFC_PWTIMEOUT + 1
  BY DEF Inv, TypeOK, Time, LongGap
<1>1. CASE Tick
  <2>1. UNCHANGED <<pw_valid, pw_timestamp, pc, inTime>>
        /\ clock' = (clock + 1) % Period
        /\ age' = (IF age < NFC_PWTIMEOUT THEN age + 1 ELSE age)
        /\ gap' = (IF gap < LongGap THEN gap + 1 ELSE gap)
        /\ cameRound' = (cameRound \/ (pc = "reread" /\ clock' = 0))
    BY <1>1 DEF Tick, statics
  <2>2. ServedInTime'
    BY <2>1 DEF ServedInTime
  <2>3. clock' = IF clock + 1 < Period THEN clock + 1 ELSE 0
    <3>1. CASE clock + 1 < Period
      BY <1>t, <2>1, <3>1, Remainder
    <3>2. CASE clock + 1 = Period
      BY <1>t, <2>1, <3>2
    <3> QED
      BY <1>t, <3>1, <3>2
  <2>4. SUFFICES ASSUME pw_valid, ~cameRound', gap' < LongGap, pc # "stamp"
                 PROVE  /\ Elapsed' < NFC_PWTIMEOUT + gap'
                        /\ age' = IF Elapsed' < NFC_PWTIMEOUT THEN Elapsed'
                                                              ELSE NFC_PWTIMEOUT
                        /\ pc = "reread" => clock' >= pw_timestamp
    BY <2>1, <2>2 DEF ClockTells
  <2>5. gap' = gap + 1 /\ gap + 1 < LongGap /\ ~cameRound
    BY <1>t, <2>1, <2>4
  <2>6. /\ Elapsed < NFC_PWTIMEOUT + gap
        /\ age = IF Elapsed < NFC_PWTIMEOUT THEN Elapsed ELSE NFC_PWTIMEOUT
        /\ pc = "reread" => clock >= pw_timestamp
    BY <1>t, <2>4, <2>5 DEF ClockTells
  <2>7. Elapsed' = Elapsed + 1
    BY <1>t, <2>1, <2>3, <2>5, <2>6 DEF Elapsed
  <2>8. Elapsed \in Nat
    BY <1>t DEF Elapsed
  <2>9. pc = "reread" => clock' >= pw_timestamp
    <3>1. pc = "reread" => clock' # 0
      BY <2>1, <2>4, Zenon
    <3> QED
      BY <1>t, <2>3, <2>6, <3>1
  <2> QED
    BY <1>t, <2>1, <2>5, <2>6, <2>7, <2>8, <2>9
<1>2. CASE Interrupt
  <2>1. CASE pw_valid /\ clock >= pw_timestamp
    BY <1>2, <2>1 DEF Interrupt, ClockTells, ServedInTime, Elapsed, statics, history
  <2>2. CASE ~(pw_valid /\ clock >= pw_timestamp)
    BY <1>2, <2>2 DEF Interrupt, ClockTells, ServedInTime
  <2> QED
    BY <2>1, <2>2
<1>3. CASE Reread
  <2>1. /\ UNCHANGED <<clock, pw_timestamp, age>> /\ gap' = 0 /\ pc' = "serve"
        /\ pw_valid' = (pw_valid /\ clock < (pw_timestamp + NFC_PWTIMEOUT) % Period)
        /\ inTime' = (age < NFC_PWTIMEOUT)
        /\ cameRound' = (cameRound \/ gap = LongGap) /\ pc = "reread"
    BY <1>3 DEF Reread, Looks
  <2>2. SUFFICES ASSUME pw_valid, clock < (pw_timestamp + NFC_PWTIMEOUT) % Period,
                        ~cameRound, gap # LongGap
                 PROVE  Elapsed < NFC_PWTIMEOUT /\ age = Elapsed
    <3>1. CASE ~pw_valid' \/ cameRound'
      BY <2>1, <3>1 DEF ClockTells, ServedInTime
    <3>2. CASE pw_valid' /\ ~cameRound'
      <4>1. /\ pw_valid /\ clock < (pw_timestamp + NFC_PWTIMEOUT) % Period
            /\ ~cameRound /\ gap # LongGap
        BY <2>1, <3>2, Zenon
      <4>2. Elapsed < NFC_PWTIMEOUT /\ age = Elapsed
        BY <2>2, <4>1
      <4>3. Elapsed' = Elapsed
        BY <2>1 DEF Elapsed
      <4>4. ServedInTime'
        BY <2>1, <4>2 DEF ServedInTime
      <4>5. ClockTells'
        BY <2>1, <4>2, <4>3, <1>t DEF ClockTells
      <4> QED
        BY <4>4, <4>5
    <3> QED
      BY <3>1, <3>2
  <2>3. gap < LongGap
    BY <1>t, <2>2 DEF Inv, TypeOK
  <2>4. /\ clock >= pw_timestamp
        /\ age = IF Elapsed < NFC_PWTIMEOUT THEN Elapsed ELSE NFC_PWTIMEOUT
    BY <2>1, <2>2, <2>3 DEF ClockTells
  <2>5. pw_timestamp + NFC_PWTIMEOUT < Period
    <3>1. SUFFICES ASSUME pw_timestamp + NFC_PWTIMEOUT >= Period PROVE FALSE
      BY <1>t
    <3>2. (pw_timestamp + NFC_PWTIMEOUT) % Period < pw_timestamp
      BY <1>t, <3>1, EndWraps
    <3>3. (pw_timestamp + NFC_PWTIMEOUT) % Period \in Time
      BY <1>t, RemainderIsTime
    <3> QED
      BY <1>t, <2>2, <2>4, <3>2, <3>3 DEF Time
  <2>6. (pw_timestamp + NFC_PWTIMEOUT) % Period = pw_timestamp + NFC_PWTIMEOUT
    BY <1>t, <2>5, Remainder
  <2> QED
    BY <1>t, <2>2, <2>4, <2>6 DEF Elapsed
<1>4. CASE NoMessage
  BY <1>4 DEF NoMessage, ClockTells, ServedInTime, Elapsed, statics, history
<1>5. CASE \E m \in Message : Serve(m)
  <2>1. PICK m \in Message : Serve(m)
    BY <1>5
  <2>2. CASE pc' = "stamp"
    BY <2>2 DEF ClockTells, ServedInTime
  <2>3. CASE UNCHANGED <<clock, statics, history>> /\ pc' \in {"idle", "reset"} /\ pc = "serve"
    BY <2>3 DEF ClockTells, ServedInTime, Elapsed, statics, history
  <2>4. CASE ~pw_valid'
    BY <2>4 DEF ClockTells, ServedInTime
  <2> QED
    BY <2>1, <2>2, <2>3, <2>4 DEF Serve, FirmwareUpdate, Boots, Get, SetConfig,
       PresentPassword, ChangePassword, FactoryReset, Ignores, Replies
<1>6. CASE Stamp
  <2>1. pw_timestamp' = clock /\ clock' = clock /\ age' = 0 /\ gap' = 0 /\ pc' = "idle"
    BY <1>6 DEF Stamp
  <2> QED
    BY <1>t, <2>1 DEF ClockTells, ServedInTime, Elapsed
<1>7. CASE Reset \/ PowerLoss
  BY <1>7 DEF Reset, PowerLoss, Boots, ClockTells, ServedInTime
<1>8. CASE UNCHANGED vars
  BY <1>8 DEF vars, ClockTells, ServedInTime, Elapsed, statics, history
<1> QED
  BY <1>1, <1>2, <1>3, <1>4, <1>5, <1>6, <1>7, <1>8 DEF Next

(* NFCISR grants what a session protects only in time, unless the clock    *)
(* came round unseen: the timestamp, the session's end and the clock may   *)
(* wrap in any order.                                                      *)
THEOREM SessionEnds == Spec => OnlyInTime
<1>1. ASSUME Inv, EndInv, [Next]_vars, answer' \in Granted, answer' # answer
      PROVE  right /\ (inTime \/ cameRound)
  <2>1. \E m \in Message : Serve(m)
    BY <1>1 DEF Next, Tick, Interrupt, Reread, NoMessage, Stamp, Reset, PowerLoss,
       vars, Granted
  <2>2. PICK m \in Message : Serve(m)
    BY <2>1
  <2>3. pw_valid
    BY <1>1, <2>2 DEF Serve, FirmwareUpdate, Get, SetConfig, PresentPassword,
       ChangePassword, FactoryReset, Ignores, Replies, Granted
  <2> QED
    BY <1>1, <2>2, <2>3 DEF Serve, Inv, ValidIsRight, EndInv, ServedInTime
<1>2. Inv /\ EndInv /\ [Next]_vars
        => [answer' \in Granted /\ answer' # answer
              => right /\ (inTime \/ cameRound)]_vars
  BY <1>1
<1> QED
  BY InitInv, NextInv, EndInit, EndStep, <1>2, PTL DEF Spec, OnlyInTime
=============================================================================
