------------------------------ MODULE NfcSession ----------------------------
(***************************************************************************)
(* The privileged session of the NFC mailbox: NFCISR of Src/isr.c, which   *)
(* serves the messages a phone puts into the ST25DV, the password in       *)
(* EEPROM and the millisecond clock of Src/hardware.c.                     *)
(*                                                                         *)
(* A message is its function code, whether its size and header are those   *)
(* the handler asks for, and the password it carries.  The clock is a      *)
(* 32-bit number that wraps: it counts modulo Period.  It goes on while    *)
(* the handler runs, which reads it up to three times.  The history        *)
(* variables remember what the handler cannot know: how long ago the       *)
(* session was granted, and for how long no interrupt looked at it.        *)
(*                                                                         *)
(* main may have been interrupted while the HAL's flash driver programs a  *)
(* word.  The driver is then locked until NFCISR returns: words can be     *)
(* erased, but none can be programmed.                                     *)
(***************************************************************************)
EXTENDS Naturals

CONSTANTS Passwords,
          Default,               \* ST25DV_PASSWORD
          Erased,                \* the word of an erased EEPROM
          NFC_PWTIMEOUT,
          Period                 \* of the clock: 2^32 milliseconds

ASSUME NfcSessionAssumption ==
  /\ Default \in Passwords /\ Erased \in Passwords
  /\ NFC_PWTIMEOUT \in Nat \ {0} /\ Period \in Nat
  /\ NFC_PWTIMEOUT < Period

VARIABLES
  clock,                         \* HW_RTCGetMsTime()
  password,                      \* the word at EEPROM_PW
  whole,                         \* the one at EEPROM_PW_COMPLEMENT confirms it
  held,                          \* main has the lock of the flash driver
  pw_valid, pw_timestamp,        \* the handler's static variables
  pc,                            \* where the handler is
  answer,                        \* what the last message was answered
  right,        \* history: the last password presented was the device's
  age,          \* history: time since the timestamp, up to NFC_PWTIMEOUT
  gap,          \* history: time since the session was last looked at
  cameRound,    \* history: the clock came round unseen by the session
  inTime        \* history: the session was young when last looked at

eeprom == <<password, whole>>
statics == <<pw_valid, pw_timestamp>>
history == <<age, gap, cameRound, inTime>>
vars == <<clock, eeprom, held, statics, pc, answer, right, history>>

Time == 0 .. Period - 1
LongGap == Period - NFC_PWTIMEOUT + 1

Granted == {"secrets", "changed", "update"}
Refused == {"public", "unchanged", "mismatch", "none"}
Message ==
  [code : {"FirmwareUpdate", "Get", "SetConfig", "PresentPassword",
           "ChangePassword", "FactoryReset"},
   wellFormed : BOOLEAN, pw : Passwords]

(* The state's types: a timestamp is a value of the clock, and past its    *)
(* first step, which presets a password, the handler compares with a whole *)
(* password or with an erased word, never with the rest of another.        *)
TypeOK ==
  /\ clock \in Time /\ pw_timestamp \in Time
  /\ password \in Passwords /\ whole \in BOOLEAN /\ held \in BOOLEAN
  /\ pw_valid \in BOOLEAN
  /\ pc \in {"idle", "reread", "serve", "stamp", "reset"}
  /\ answer \in Granted \cup Refused \cup {"match", "applied"}
  /\ right \in BOOLEAN
  /\ cameRound \in BOOLEAN /\ inTime \in BOOLEAN
  /\ age \in 0 .. NFC_PWTIMEOUT /\ gap \in 0 .. LongGap
  /\ pc \in {"reread", "serve", "stamp"} => whole \/ password = Erased

Init ==
  /\ clock \in Time
  /\ password \in Passwords /\ whole \in BOOLEAN /\ held = FALSE
  /\ pw_valid = FALSE /\ pw_timestamp = 0
  /\ pc = "idle" /\ answer = "none" /\ right = FALSE
  /\ age = NFC_PWTIMEOUT /\ gap = 0 /\ cameRound = FALSE /\ inTime = FALSE

-----------------------------------------------------------------------------
(* Time passes. *)
Tick ==
  /\ clock' = (clock + 1) % Period
  /\ age' = IF age < NFC_PWTIMEOUT THEN age + 1 ELSE age
  /\ gap' = IF gap < LongGap THEN gap + 1 ELSE gap
  /\ cameRound' = (cameRound \/ (pc = "reread" /\ clock' = 0))
  /\ UNCHANGED <<eeprom, held, statics, pc, answer, right, inTime>>

(* The handler looks at the session.  The clock came round unseen when the *)
(* session was not looked at for longer than its end lasts, or when the    *)
(* clock wraps between the two reads of one look (Tick).                   *)
Looks ==
  /\ inTime' = (age < NFC_PWTIMEOUT)
  /\ cameRound' = (cameRound \/ gap = LongGap)
  /\ gap' = 0
  /\ UNCHANGED age

(* A password is erased and programmed, then its complement.  The driver's *)
(* lock lets the words be erased only.                                     *)
HW_ChangePW(new, locked) ==
  /\ password' = IF locked THEN Erased ELSE new
  /\ whole' = ~locked

(* Mutant: the default password is not preset. *)
InterruptUnset ==
  /\ pc = "idle"
  /\ held' \in BOOLEAN
  /\ UNCHANGED eeprom
  /\ IF pw_valid /\ clock >= pw_timestamp
     THEN pc' = "reread" /\ UNCHANGED <<statics, history>>
     ELSE /\ pc' = "serve" /\ pw_valid' = FALSE
          /\ UNCHANGED pw_timestamp
          /\ Looks
  /\ answer' = "none"
  /\ UNCHANGED <<clock, right>>

(* The interrupt starts: a password that is not whole is replaced by the   *)
(* default one, and a session is over when the clock is before its         *)
(* timestamp.                                                              *)
Interrupt ==
  /\ pc = "idle"
  /\ held' \in BOOLEAN
  /\ IF whole THEN UNCHANGED eeprom ELSE HW_ChangePW(Default, held')
  /\ IF pw_valid /\ clock >= pw_timestamp
     THEN pc' = "reread" /\ UNCHANGED <<statics, history>>
     ELSE /\ pc' = "serve" /\ pw_valid' = FALSE
          /\ UNCHANGED pw_timestamp
          /\ Looks
  /\ answer' = "none"
  /\ UNCHANGED <<clock, right>>

(* Mutant: the end of the session is not looked at. *)
RereadNothing ==
  /\ pc = "reread"
  /\ pc' = "serve"
  /\ pw_valid' = TRUE
  /\ Looks
  /\ UNCHANGED <<clock, eeprom, held, pw_timestamp, answer, right>>

(* The clock is read again, to compare it with the end of the session,     *)
(* which may have wrapped.                                                 *)
Reread ==
  /\ pc = "reread"
  /\ pc' = "serve"
  /\ pw_valid' =
       (pw_valid /\ clock < (pw_timestamp + NFC_PWTIMEOUT) % Period)
  /\ Looks
  /\ UNCHANGED <<clock, eeprom, held, pw_timestamp, answer, right>>

(* An I2C read fails, or the interrupt is not about a message. *)
NoMessage ==
  /\ pc = "serve"
  /\ pc' = "idle"
  /\ UNCHANGED <<clock, eeprom, held, statics, answer, right, history>>

(* What a start of the program leaves of the session. *)
Boots ==
  /\ pw_valid' = FALSE /\ pw_timestamp' = 0
  /\ pc' = "idle" /\ held' = FALSE
  /\ right' = FALSE
  /\ UNCHANGED history

(* In a session, the update of the firmware tells the boot loader not to   *)
(* ask for a password, and starts it.                                      *)
FirmwareUpdate(m) ==
  /\ m.code = "FirmwareUpdate" /\ pw_valid
  /\ answer' = "update"
  /\ Boots
  /\ UNCHANGED <<clock, eeprom>>

Replies(reply) ==
  /\ answer' = reply
  /\ pc' = "idle"
  /\ UNCHANGED <<clock, eeprom, held, statics, right, history>>

(* The configuration has its secrets in a session only. *)
Get(m) ==
  /\ m.code = "Get" /\ m.wellFormed
  /\ Replies(IF pw_valid THEN "secrets" ELSE "public")

(* A configuration is applied in any case; the session decides only what   *)
(* is answered.  MESSAGE_FORMAT_NFC.md has it privileged (see README).     *)
SetConfig(m) ==
  /\ m.code = "SetConfig"
  /\ Replies("applied")

(* Mutant: a wrong password leaves an open session open. *)
PresentPasswordKeeps(m) ==
  /\ m.code = "PresentPassword" /\ m.wellFormed
  /\ pw_valid' = (pw_valid \/ m.pw = password)
  /\ answer' = IF m.pw = password THEN "match" ELSE "mismatch"
  /\ right' = (m.pw = password)
  /\ pc' = "stamp"
  /\ UNCHANGED <<clock, eeprom, held, pw_timestamp, history>>

(* The password decides, and time is taken after the answer was sent. *)
PresentPassword(m) ==
  /\ m.code = "PresentPassword" /\ m.wellFormed
  /\ pw_valid' = (m.pw = password)
  /\ answer' = IF m.pw = password THEN "match" ELSE "mismatch"
  /\ right' = (m.pw = password)
  /\ pc' = "stamp"
  /\ UNCHANGED <<clock, eeprom, held, pw_timestamp, history>>

(* Mutant: the timestamp is taken for the first password only. *)
StampOnce ==
  /\ pc = "stamp"
  /\ pc' = "idle"
  /\ pw_timestamp' = IF pw_timestamp = 0 THEN clock ELSE pw_timestamp
  /\ age' = 0 /\ gap' = 0 /\ cameRound' = FALSE
  /\ UNCHANGED <<clock, eeprom, held, pw_valid, answer, right, inTime>>

Stamp ==
  /\ pc = "stamp"
  /\ pc' = "idle"
  /\ pw_timestamp' = clock
  /\ age' = 0 /\ gap' = 0 /\ cameRound' = FALSE
  /\ UNCHANGED <<clock, eeprom, held, pw_valid, answer, right, inTime>>

ChangePassword(m) ==
  /\ m.code = "ChangePassword" /\ m.wellFormed
  /\ IF pw_valid
     THEN /\ answer' = "changed" /\ HW_ChangePW(m.pw, held)
          /\ pc' = "idle"
          /\ UNCHANGED <<clock, held, statics, right, history>>
     ELSE Replies("unchanged")

(* The whole EEPROM is cleared, the password with it, session or not. *)
FactoryReset(m) ==
  /\ m.code = "FactoryReset" /\ m.wellFormed
  /\ password' = Erased /\ whole' = FALSE
  /\ pc' = "reset"
  /\ UNCHANGED <<clock, held, statics, answer, right, history>>

(* A message of another size, header or code leaves the handler at once;   *)
(* so does an update out of session.                                       *)
Ignores(m) ==
  /\ \/ m.code = "FirmwareUpdate" /\ ~pw_valid
     \/ m.code \notin {"FirmwareUpdate", "SetConfig"} /\ ~m.wellFormed
  /\ Replies("none")

Serve(m) ==
  /\ pc = "serve"
  /\ \/ FirmwareUpdate(m) \/ Get(m) \/ SetConfig(m)
     \/ PresentPassword(m) \/ ChangePassword(m) \/ FactoryReset(m)
     \/ Ignores(m)

(* The reset that ends a factory reset. *)
Reset ==
  /\ pc = "reset"
  /\ Boots
  /\ UNCHANGED <<clock, eeprom, answer>>

(* Power may go at any time, in the middle of presetting, changing or      *)
(* clearing the password too.  The clock starts anew.                      *)
PowerLoss ==
  /\ clock' = 0
  /\ \/ UNCHANGED eeprom
     \/ /\ whole' = FALSE
        /\ \/ pc = "idle" /\ ~whole /\ password' \in {Erased, Default}
           \/ pc = "serve" /\ password' = Erased
           \/ pc = "serve" /\ pw_valid /\ password' \in Passwords
  /\ answer' = "none"
  /\ Boots

Next ==
  \/ Tick \/ Interrupt \/ Reread \/ NoMessage
  \/ \E m \in Message : Serve(m)
  \/ Stamp \/ Reset \/ PowerLoss

Spec == Init /\ [][Next]_vars

-----------------------------------------------------------------------------
(* What NFCISR protects, the secrets and the password, it gives and        *)
(* changes only after a right password, the word that EEPROM_PW then held: *)
(* no wrong password, no reset and no message of another kind leaves a     *)
(* session of an earlier time open.  A configuration is not protected.     *)
OnlyAfterPassword == answer \in {"secrets", "changed"} => right

(* And only within the time allowed, unless the clock came round, either   *)
(* with no interrupt to look at the session or between the two reads that  *)
(* look at it: their order and the other wraps of the clock and of the     *)
(* session's end do no harm.                                               *)
OnlyInTime == [][answer' \in Granted /\ answer' # answer
                 => right /\ (inTime \/ cameRound)]_vars

(* A session lasts: whoever presented the right password is served until   *)
(* the time is over, unless the end of the session lies past a wrap of the *)
(* clock.                                                                  *)
SessionLasts ==
  pc = "serve" /\ right /\ inTime /\ pw_timestamp + NFC_PWTIMEOUT < Period
    => pw_valid
=============================================================================
