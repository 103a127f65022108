---------------------------- MODULE EepromStore -----------------------------
(***************************************************************************)
(* The data EEPROM, as Src/hardware.c writes it: the configuration that    *)
(* EEPROM_Save of Src/eeprom.c keeps there with its CRC, and the password  *)
(* and its complement that NFCISR of Src/isr.c keeps there.                *)
(*                                                                         *)
(* main and the NFC interrupt each work through the EEPROM operations of   *)
(* the function they are in.  The interrupt comes between any two of       *)
(* main's, and in the middle of HAL_FLASHEx_DATAEEPROM_Program, which      *)
(* holds a lock while it waits for the word before; the power may go at    *)
(* any time.  A word that is locked stays as it is, and the next operation *)
(* reports it.                                                             *)
(***************************************************************************)
EXTENDS Naturals, Sequences, FiniteSetsExt, Functions

CONSTANTS MaxWord,       \* 2^32 - 1
          Payload,       \* words that EEPROM_APP has room for
          Configs,       \* DevCfg, as the words it is serialised to
          Defaults,      \* the one it has at first
          Passwords,     \* passwords NFC may set
          DefaultPassword, \* ST25DV_PASSWORD
          None,          \* no password was acknowledged
          CRC            \* the checksum of each message

(* What the room for the message may hold: words of configurations, and    *)
(* words that are erased.                                                  *)
Words == {0} \cup UNION {Range(c) : c \in Configs}
Messages == UNION {[1 .. n -> Words] : n \in 1 .. Payload}

(* No configuration has the checksum of another message, or one that is    *)
(* erased, as nearly always with a CRC of 32 bits.                         *)
ASSUME EepromAssumption ==
  /\ MaxWord \in Nat \ {0} /\ Payload \in Nat \ {0}
  /\ \A c \in Configs : c \in Seq(0 .. MaxWord) /\ Len(c) \in 1 .. Payload
  /\ Defaults \in Configs
  /\ Passwords \subseteq 0 .. MaxWord /\ DefaultPassword \in 0 .. MaxWord
  /\ None \notin 0 .. MaxWord
  /\ CRC \in [Messages -> Nat \ {0}]
  /\ \A c \in Configs : \A m \in Messages : CRC[m] = CRC[c] => m = c

VARIABLES
  ee,                    \* the words of the EEPROM
  pelock,                \* it is locked
  wrperr,                \* a write was refused, and not reported yet
  held,                  \* main is in HAL_FLASHEx_DATAEEPROM_Program
  todo,                  \* what main and the interrupt have still to do
  DevCfg, changed,
  pc,                    \* where main is
  saved,                 \* history: configurations that were to be saved
  lastSaved,             \* history: ... the last of them
  clash,                 \* history: the interrupt wrote while main did
  late,                  \* history: DevCfg changed since EEPROM_Save read it
  told                   \* history: the password last acknowledged

flash == <<ee, pelock, wrperr, held>>
config == <<DevCfg, changed>>
history == <<saved, lastSaved, clash, late, told>>
vars == <<flash, todo, config, pc, history>>

(* The words, in the order of Inc/hardware.h.                              *)
EEPROM_PW == 0
EEPROM_PW_COMPLEMENT == 1
EEPROM_APP == 2
EEPROM_APP_LEN == 3
Msg(i) == EEPROM_APP_LEN + i
Address == 0 .. Msg(Payload)

EEPROM_CRC(msg) == CRC[msg]

-----------------------------------------------------------------------------
(* The EEPROM operations of each function                                  *)

Op == [op : {"unlock", "lock", "erase", "program", "write", "reset"},
       at : Address, word : Nat]
Unlock == [op |-> "unlock", at |-> 0, word |-> 0]
Lock == [op |-> "lock", at |-> 0, word |-> 0]
Erase(a) == [op |-> "erase", at |-> a, word |-> 0]
Program(a, w) == [op |-> "program", at |-> a, word |-> w]
Write(a, w) == [op |-> "write", at |-> a, word |-> w]
SystemReset == [op |-> "reset", at |-> 0, word |-> 0]

HW_EraseEEPROM(a) == <<Unlock, Erase(a), Lock>>

HW_ProgramEEPROM(a, w) == <<Unlock, Program(a, w), Lock>>

(* The mutant erases a word too many.                                      *)
HW_ResetTooFar(size) ==
  <<Unlock>> \o [i \in 1 .. size + 1 |-> Erase(Msg(i))] \o <<Lock>>
HW_ResetEEPROM(size) ==
  <<Unlock>> \o [i \in 1 .. size |-> Erase(Msg(i))] \o <<Lock>>

(* A write that fails ends the function.  The mutant takes the index of    *)
(* the last word for their number.                                         *)
HW_WriteShort(msg) ==
  <<Unlock>> \o [i \in 1 .. Max({1, Len(msg) - 1}) |-> Write(Msg(i), msg[i])] \o <<Lock>>
HW_WriteEEPROM(msg) ==
  <<Unlock>> \o [i \in 1 .. Len(msg) |-> Write(Msg(i), msg[i])] \o <<Lock>>

EEPROM_Save(msg) ==
  HW_ResetEEPROM(Len(msg))
    \o HW_ProgramEEPROM(EEPROM_APP, EEPROM_CRC(msg))
    \o HW_ProgramEEPROM(EEPROM_APP_LEN, Len(msg))
    \o HW_WriteEEPROM(msg)

(* The mutant does not take the complement.                                *)
HW_ChangePWOnce(password) ==
  HW_EraseEEPROM(EEPROM_PW) \o HW_EraseEEPROM(EEPROM_PW_COMPLEMENT)
    \o HW_ProgramEEPROM(EEPROM_PW, password)
    \o HW_ProgramEEPROM(EEPROM_PW_COMPLEMENT, password)
HW_ChangePW(password) ==
  HW_EraseEEPROM(EEPROM_PW) \o HW_EraseEEPROM(EEPROM_PW_COMPLEMENT)
    \o HW_ProgramEEPROM(EEPROM_PW, password)
    \o HW_ProgramEEPROM(EEPROM_PW_COMPLEMENT, MaxWord - password)

FactoryReset ==
  [i \in 1 .. 3 * (Msg(Payload) + 1) |-> HW_EraseEEPROM((i - 1) \div 3)[1 + ((i - 1) % 3)]]
    \o <<SystemReset>>

-----------------------------------------------------------------------------
(* What the EEPROM holds.  The mutants forget the complement and the CRC.  *)

PwAlwaysValid == TRUE
PwValid == MaxWord - ee[EEPROM_PW] = ee[EEPROM_PW_COMPLEMENT]

Stored == [i \in 1 .. ee[EEPROM_APP_LEN] |-> ee[Msg(i)]]
ValidLength == ee[EEPROM_APP_LEN] \in 1 .. Payload
Valid == ee[EEPROM_APP_LEN] \in 1 .. Payload /\ ee[EEPROM_APP] = EEPROM_CRC(Stored)

Idle == todo["main"] = <<>> /\ todo["nfc"] = <<>>

TypeOK ==
  /\ ee \in [Address -> Nat]
  /\ pelock \in BOOLEAN /\ wrperr \in BOOLEAN /\ held \in BOOLEAN
  /\ todo \in [{"main", "nfc"} -> Seq(Op)]
  /\ DevCfg \in Configs /\ changed \in BOOLEAN
  /\ pc \in {"boot", "boot save", "loop", "save"}
  /\ saved \subseteq Configs /\ lastSaved \in Configs
  /\ clash \in BOOLEAN /\ late \in BOOLEAN /\ told \in Passwords \cup {None}

Boots ==
  /\ pelock' = TRUE /\ wrperr' = FALSE /\ held' = FALSE
  /\ todo' = [c \in {"main", "nfc"} |-> <<>>]
  /\ DevCfg' = Defaults /\ changed' = FALSE
  /\ pc' = "boot"

(* A new device: an EEPROM that is erased.                                 *)
Init ==
  /\ ee = [a \in Address |-> 0]
  /\ pelock = TRUE /\ wrperr = FALSE /\ held = FALSE
  /\ todo = [c \in {"main", "nfc"} |-> <<>>]
  /\ DevCfg = Defaults /\ changed = FALSE
  /\ pc = "boot"
  /\ saved = {} /\ lastSaved = Defaults
  /\ clash = FALSE /\ late = FALSE /\ told = None

-----------------------------------------------------------------------------
(* The next operation of main or of the interrupt                          *)

Does(c, op) == todo[c] # <<>> /\ Head(todo[c]).op = op
MayRun(c) == c = "main" => todo["nfc"] = <<>>
Done(c) == todo' = [todo EXCEPT ![c] = Tail(@)]
Fails(c) ==
  todo' = [todo EXCEPT ![c] = IF Head(@).op = "write" THEN <<>> ELSE Tail(@)]

Unlocks(c) ==
  /\ Does(c, "unlock") /\ MayRun(c)
  /\ pelock' = FALSE
  /\ Done(c)
  /\ UNCHANGED <<ee, wrperr, held, config, pc, history>>

Locks(c) ==
  /\ Does(c, "lock") /\ MayRun(c)
  /\ pelock' = TRUE
  /\ Done(c)
  /\ UNCHANGED <<ee, wrperr, held, config, pc, history>>

(* HAL_FLASHEx_DATAEEPROM_Erase waits for the write before, and for its    *)
(* own, and takes no lock.                                                 *)
Erases(c) ==
  /\ Does(c, "erase") /\ MayRun(c)
  /\ wrperr' = FALSE
  /\ ee' = IF wrperr \/ pelock THEN ee ELSE [ee EXCEPT ![Head(todo[c]).at] = 0]
  /\ Done(c)
  /\ UNCHANGED <<pelock, held, config, pc, history>>

(* HAL_FLASHEx_DATAEEPROM_Program, which is busy in the interrupt while    *)
(* main holds the lock, and otherwise waits for the write before only.     *)
Programming(c) == Does(c, "program") \/ Does(c, "write")

TakesLock ==
  /\ Programming("main") /\ MayRun("main") /\ ~held
  /\ held' = TRUE
  /\ UNCHANGED <<ee, pelock, wrperr, todo, config, pc, history>>

Busy ==
  /\ Programming("nfc") /\ held
  /\ Fails("nfc")
  /\ UNCHANGED <<flash, config, pc, history>>

Programs(c) ==
  /\ Programming(c) /\ MayRun(c)
  /\ held = (c = "main")
  /\ held' = FALSE
  /\ \/ /\ wrperr
        /\ wrperr' = FALSE
        /\ Fails(c)
        /\ UNCHANGED ee
     \/ /\ ~wrperr
        /\ wrperr' = pelock
        /\ ee' = IF pelock THEN ee
                 ELSE [ee EXCEPT ![Head(todo[c]).at] = Head(todo[c]).word]
        /\ Done(c)
  /\ UNCHANGED <<pelock, config, pc, history>>

(* Power goes and comes back: a word that is being written may be erased,  *)
(* as programming it begins with that.  Nobody relies on an answer that    *)
(* was given meanwhile.                                                    *)
PowerLoss ==
  /\ pc # "boot"
  /\ Boots
  /\ \/ UNCHANGED ee
     \/ \E c \in {"main", "nfc"} :
          /\ Programming(c) /\ MayRun(c) /\ ~pelock
          /\ ee' = [ee EXCEPT ![Head(todo[c]).at] = 0]
  /\ told' = IF todo["nfc"] = <<>> THEN told ELSE None
  /\ UNCHANGED <<saved, lastSaved, clash, late>>

(* NVIC_SystemReset at the end of a factory reset.                         *)
Resets ==
  /\ Does("nfc", "reset")
  /\ Boots
  /\ told' = None
  /\ UNCHANGED <<ee, saved, lastSaved, clash, late>>

-----------------------------------------------------------------------------
(* main                                                                    *)

Saves(msg, label) ==
  /\ todo' = [todo EXCEPT !["main"] = EEPROM_Save(msg)]
  /\ saved' = saved \cup {msg} /\ lastSaved' = msg
  /\ clash' = FALSE /\ late' = FALSE
  /\ pc' = label
  /\ UNCHANGED <<flash, told>>

(* EEPROM_Load, after which everything counts as changed.                  *)
EEPROM_Load ==
  /\ pc = "boot" /\ Idle
  /\ \/ /\ Valid
        /\ DevCfg' = Stored /\ changed' = TRUE
        /\ pc' = "loop"
        /\ UNCHANGED <<flash, todo, history>>
     \/ /\ ~Valid
        /\ Saves(DevCfg, "boot save")
        /\ UNCHANGED config

(* ... goes on with what is there now, without a look at its CRC.  What is *)
(* no configuration may be taken for any, or have an ill-formed key, for   *)
(* which the saved configuration is invalidated and the firmware reset.    *)
LoadSaved ==
  /\ pc = "boot save" /\ Idle
  /\ \/ /\ DevCfg' \in (IF Stored \in Configs THEN {Stored} ELSE Configs)
        /\ changed' = TRUE
        /\ pc' = "loop"
        /\ UNCHANGED <<flash, todo>>
     \/ /\ Stored \notin Configs
        /\ Boots
        /\ ee' = [ee EXCEPT ![EEPROM_APP] = 0, ![EEPROM_APP_LEN] = 0]
  /\ UNCHANGED history

(* The main loop saves what has changed, and forgets all changes after.    *)
SaveChanges ==
  /\ pc = "loop" /\ Idle /\ changed
  /\ Saves(DevCfg, "save")
  /\ UNCHANGED config

ForgetChanges ==
  /\ pc = "save" /\ Idle
  /\ changed' = FALSE
  /\ pc' = "loop"
  /\ UNCHANGED <<flash, todo, DevCfg, history>>

-----------------------------------------------------------------------------
(* NFCISR: a password that is not valid is set to the default first.       *)

PresetPassword == IF PwValid THEN <<>> ELSE HW_ChangePW(DefaultPassword)

Writing == todo["main"] # <<>>

NfcRuns(ops) ==
  /\ todo["nfc"] = <<>> /\ pc # "boot"
  /\ todo' = [todo EXCEPT !["nfc"] = PresetPassword \o ops]
  /\ clash' = (clash \/ (Writing /\ todo'["nfc"] # <<>>))
  /\ UNCHANGED <<flash, pc, saved, lastSaved>>

SetConfig ==
  /\ NfcRuns(<<>>)
  /\ DevCfg' \in Configs \ {DevCfg} /\ changed' = TRUE /\ late' = TRUE
  /\ told' = IF PwValid THEN told ELSE None

(* The answer goes out before the password is changed; what it tells can   *)
(* be relied on only when main is not writing.                             *)
ChangePassword(password) ==
  /\ NfcRuns(HW_ChangePW(password))
  /\ told' = IF Writing THEN None ELSE password
  /\ UNCHANGED <<config, late>>

FactoryResetCommand ==
  /\ NfcRuns(FactoryReset)
  /\ UNCHANGED <<config, late, told>>

-----------------------------------------------------------------------------
Next ==
  \/ \E c \in {"main", "nfc"} :
       Unlocks(c) \/ Locks(c) \/ Erases(c) \/ Programs(c)
  \/ TakesLock \/ Busy
  \/ PowerLoss \/ Resets
  \/ EEPROM_Load \/ LoadSaved \/ SaveChanges \/ ForgetChanges
  \/ SetConfig \/ (\E p \in Passwords : ChangePassword(p))
  \/ FactoryResetCommand

Spec == Init /\ [][Next]_vars

-----------------------------------------------------------------------------
(* However often the power goes, and whoever writes in between: what       *)
(* EEPROM_Load takes for valid is a configuration that was saved as such,  *)
(* never a part of one, nor a part of one and a part of another.           *)
LoadsWhatWasSaved == Valid => Stored \in saved

(* A password is valid only if it was set; one that is half written is not.*)
PasswordWasSet == PwValid => ee[EEPROM_PW] \in Passwords \cup {DefaultPassword}

(* "Save CRC, length and protobuf to EEPROM": as long as main knows of no  *)
(* change that it has still to save, the EEPROM holds DevCfg, and the next *)
(* boot will take it for valid, whatever passwords were set since.  The    *)
(* code promises no more: a change that comes after EEPROM_Save has read   *)
(* DevCfg is forgotten with those that were saved (main.c:411), and when   *)
(* the interrupt writes to the EEPROM meanwhile it leaves it locked, or a  *)
(* word refused.                                                           *)
ChangesAreSaved ==
  pc = "loop" /\ ~changed /\ Idle /\ ~late /\ ~clash => Valid /\ Stored = DevCfg

(* "Password has been changed": the one that was acknowledged, and every   *)
(* one that EEPROM_Save and the power left alone since, is in force once   *)
(* the handler has ended.                                                  *)
PasswordChangedAsTold ==
  Idle /\ pc # "boot" /\ told # None => PwValid /\ ee[EEPROM_PW] = told
=============================================================================
