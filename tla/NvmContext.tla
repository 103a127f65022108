----------------------------- MODULE NvmContext -----------------------------
(***************************************************************************)
(* How the MAC's context outlives a reset: LoRaMacHandleNvm of LoRaMac.c   *)
(* finds the groups that changed, NvmDataMgmt.c writes them to the EEPROM  *)
(* one after the other, each with its CRC, and reads all of them back at   *)
(* boot.                                                                   *)
(*                                                                         *)
(* main runs LRW_Process while the MAC is busy.  The NFC interrupt may     *)
(* change a group at any time (PBDecodeMsg sets the activation), and locks *)
(* the EEPROM when it writes there itself; the power may go at any time.   *)
(*                                                                         *)
(* A content of a group is a number, counted up by each change: no change  *)
(* brings back the content the last CRC was made of.                       *)
(***************************************************************************)
EXTENDS Naturals, Sequences

CONSTANTS Groups,      \* the groups, in the order of LoRaMacNvmData_t
          Bad,         \* a group in the EEPROM whose CRC does not match
          NoCrc,       \* the CRC of a context that was never stored
          MaxVersion   \* bound: changes of a group

ASSUME NvmAssumption ==
  /\ Groups \in Seq(STRING) /\ Len(Groups) > 0
  /\ \A i, j \in 1 .. Len(Groups) : Groups[i] = Groups[j] => i = j
  /\ Bad \notin Nat /\ NoCrc \notin Nat
  /\ MaxVersion \in Nat

Group == {Groups[i] : i \in 1 .. Len(Groups)}

VARIABLES
  Nvm,                 \* the context in RAM
  crc,                 \* ... and the contents its CRCs were made of
  NvmHandle,           \* MacFlags.Bits.NvmHandle
  NvmNotifyFlags,
  MacState,
  stored,              \* the EEPROM
  unlocked,            \* ... may be written
  pc, next,            \* where main is, and the group NvmDataMgmtStore is at
  missed,              \* history: groups whose last write was refused
  touched              \* history: a request changed the context but no flag

ram == <<Nvm, crc, NvmHandle>>
flash == <<stored, unlocked, missed>>
vars == <<ram, NvmNotifyFlags, MacState, flash, pc, next, touched>>

LoRaMacIsBusy == MacState # "idle"

TypeOK ==
  /\ Nvm \in [Group -> Nat]
  /\ crc \in [Group -> Nat \cup {NoCrc}]
  /\ NvmHandle \in BOOLEAN
  /\ NvmNotifyFlags \subseteq Group
  /\ MacState \in {"idle", "busy", "stopped"}
  /\ stored \in [Group -> Nat \cup {Bad}]
  /\ unlocked \in BOOLEAN
  /\ pc \in {"loop", "save", "store", "unlock", "program"}
  /\ next \in 1 .. Len(Groups) + 1
  /\ missed \subseteq Group
  /\ touched \in BOOLEAN

(* A device that was never started has no valid group.                     *)
Init ==
  /\ Nvm = [g \in Group |-> 0]
  /\ crc = [g \in Group |-> NoCrc]
  /\ NvmHandle = TRUE
  /\ NvmNotifyFlags = {}
  /\ MacState = "idle"
  /\ stored = [g \in Group |-> Bad] /\ unlocked = FALSE
  /\ pc = "loop" /\ next = 1
  /\ missed = {} /\ touched = FALSE

-----------------------------------------------------------------------------
(* The MAC                                                                 *)

(* A change through the MIB, by main or by the NFC interrupt, which is     *)
(* refused during an exchange.                                             *)
MibSet(new) ==
  /\ MacState # "busy"
  /\ Nvm' = new
  /\ NvmHandle' = TRUE
  /\ UNCHANGED <<crc, NvmNotifyFlags, MacState, flash, pc, next, touched>>

(* A join or a message is requested: it takes the next counter.            *)
Request(new) ==
  /\ pc = "loop" /\ ~LoRaMacIsBusy
  /\ Nvm' = new
  /\ MacState' = "busy"
  /\ UNCHANGED <<crc, NvmHandle, NvmNotifyFlags, flash, pc, next, touched>>

(* ... but no exchange begins, as the duty cycle restricts it, or it joins *)
(* by personalisation: a join has reset parameters by then, and nothing    *)
(* tells LoRaMacHandleNvm.                                                 *)
Touch(new) ==
  /\ pc = "loop" /\ ~LoRaMacIsBusy
  /\ Nvm' = new
  /\ touched' = TRUE
  /\ UNCHANGED <<crc, NvmHandle, NvmNotifyFlags, MacState, flash, pc, next>>

(* LoRaMacProcess while the exchange goes on.  LoRaMacHandleNvm returns,   *)
(* and its flag is cleared all the same.                                   *)
ProcessBusy(new) ==
  /\ pc = "loop" /\ MacState = "busy"
  /\ Nvm' = new
  /\ NvmHandle' = FALSE
  /\ pc' = "store"
  /\ UNCHANGED <<crc, NvmNotifyFlags, MacState, flash, next, touched>>

(* ... and with the end of the exchange.  The mutant takes the CRC of a    *)
(* context that is still to change.                                        *)
OutdatedBefore(context) == {g \in DOMAIN context : crc[g] # Nvm[g]}
Outdated(context) == {g \in DOMAIN context : crc[g] # context[g]}
ProcessDone(new) ==
  /\ pc = "loop" /\ MacState = "busy"
  /\ Nvm' = new
  /\ MacState' = "idle"
  /\ NvmHandle' = FALSE
  /\ crc' = new
  /\ NvmNotifyFlags' = Outdated(new)
  /\ pc' = "save"
  /\ touched' = FALSE
  /\ UNCHANGED <<flash, next>>

(* LRW_SaveNvm goes on with DevCfg, which takes some hundred ms.           *)
SaveNvm ==
  /\ pc = "save"
  /\ pc' = "store"
  /\ UNCHANGED <<ram, NvmNotifyFlags, MacState, flash, next, touched>>

-----------------------------------------------------------------------------
(* NvmDataMgmt                                                             *)

(* Mutant: LoRaMacStop refuses when there are changes to be handled.       *)
StopsUnlessHandled == ~LoRaMacIsBusy /\ ~NvmHandle
Stops == ~LoRaMacIsBusy

Store ==
  /\ pc = "store"
  /\ IF NvmNotifyFlags # {} /\ Stops
       THEN /\ MacState' = "stopped"
            /\ pc' = "unlock" /\ next' = 1
       ELSE /\ pc' = "loop"
            /\ UNCHANGED <<MacState, next>>
  /\ UNCHANGED <<ram, NvmNotifyFlags, flash, touched>>

Current == Groups[next]

(* EepromMcuWriteBuffer unlocks the EEPROM.                                *)
WriteBuffer ==
  /\ pc = "unlock" /\ next <= Len(Groups) /\ Current \in NvmNotifyFlags
  /\ unlocked' = TRUE
  /\ pc' = "program"
  /\ UNCHANGED <<ram, NvmNotifyFlags, MacState, stored, missed, next, touched>>

Skip ==
  /\ pc = "unlock" /\ next <= Len(Groups) /\ Current \notin NvmNotifyFlags
  /\ next' = next + 1
  /\ UNCHANGED <<ram, NvmNotifyFlags, MacState, flash, pc, touched>>

(* What a group is after it was written: a content that does not have the  *)
(* CRC it came with is bad.                                                *)
Written == IF Nvm[Current] = crc[Current] THEN Nvm[Current] ELSE Bad

(* ... and writes it, with interrupts off.  When the EEPROM was locked in  *)
(* between, no byte is written and the status is still OK.                 *)
Program ==
  /\ pc = "program"
  /\ IF unlocked THEN stored' = [stored EXCEPT ![Current] = Written] /\ missed' = missed \ {Current}
                 ELSE stored' = stored /\ missed' = missed \cup {Current}
  /\ unlocked' = FALSE
  /\ pc' = "unlock" /\ next' = next + 1
  /\ UNCHANGED <<ram, NvmNotifyFlags, MacState, touched>>

Stored ==
  /\ pc = "unlock" /\ next > Len(Groups)
  /\ NvmNotifyFlags' = {}
  /\ MacState' = "idle"
  /\ pc' = "loop"
  /\ UNCHANGED <<ram, flash, next, touched>>

-----------------------------------------------------------------------------
(* The NFC interrupt and the power supply                                  *)

(* The interrupt writes a password between unlocking and programming.      *)
NfcLocks ==
  /\ pc = "program" /\ unlocked
  /\ unlocked' = FALSE
  /\ UNCHANGED <<ram, NvmNotifyFlags, MacState, stored, missed, pc, next, touched>>

(* NvmDataMgmtRestore: all groups, or none and the defaults.  Mutant: a    *)
(* group that is bad is left out.                                          *)
RestorableInPart(ee) == \E g \in DOMAIN ee : ee[g] # Bad
Restorable(ee) == \A g \in DOMAIN ee : ee[g] # Bad
Restored(defaults) == IF Restorable(stored') THEN stored' ELSE defaults

(* LRW_Init sets the MIB after that.                                       *)
Boots(context) ==
  /\ Nvm' = context
  /\ crc' = IF Restorable(stored') THEN stored' ELSE [g \in DOMAIN crc |-> NoCrc]
  /\ NvmHandle' = TRUE
  /\ NvmNotifyFlags' = {}
  /\ MacState' = "idle"
  /\ unlocked' = FALSE /\ missed' = {} /\ touched' = FALSE
  /\ pc' = "loop" /\ next' = 1

(* Of the group that is being written some bytes are new.                  *)
PowerLoss ==
  \/ stored' = stored
  \/ /\ pc = "program" /\ unlocked
     /\ \E v \in {Bad, Written} : stored' = [stored EXCEPT ![Current] = v]

(* The command erases the EEPROM from its start, and resets; or the power  *)
(* goes before.                                                            *)
FactoryReset ==
  \E n \in 1 .. Len(Groups) :
    stored' = [g \in DOMAIN stored |->
                 IF \E i \in 1 .. n : Groups[i] = g THEN Bad ELSE stored[g]]

-----------------------------------------------------------------------------
(* Contexts one change away: some groups have a content they never had.    *)
Changed ==
  {[g \in Group |-> IF g \in S THEN Nvm[g] + 1 ELSE Nvm[g]] :
     S \in SUBSET {g \in Group : Nvm[g] < MaxVersion}}

Zero == [g \in Group |-> 0]

Exchange ==
  \/ \E new \in Changed : MibSet(new)
  \/ \E new \in Changed : Request(new)
  \/ \E new \in Changed : Touch(new)
  \/ \E new \in Changed : ProcessBusy(new)
  \/ \E new \in Changed : ProcessDone(new)

Storing == SaveNvm \/ Store \/ WriteBuffer \/ Skip \/ Program \/ Stored

Next ==
  \/ Exchange
  \/ Storing
  \/ NfcLocks
  \/ PowerLoss /\ Boots(Restored(Zero))
  \/ FactoryReset /\ Boots(Restored(Zero))

Spec == Init /\ [][Next]_vars

-----------------------------------------------------------------------------
(* When main sleeps and nothing was changed since the last exchange, the   *)
(* EEPROM has the context of the RAM: a restart then loses nothing.  The   *)
(* exception are groups whose write was refused, as NFCISR had locked the  *)
(* EEPROM (eeprom-board.c:40-54).  That includes a group that the power    *)
(* loss before left bad, and what a request changed that did not lead to   *)
(* an exchange (NvmDataMgmt.c:49-145, LoRaMac.c:1593-1666).                *)
StoredWhenQuiet ==
  pc = "loop" /\ MacState = "idle" /\ ~NvmHandle /\ ~touched =>
    \A g \in Group \ missed : stored[g] = Nvm[g]

(* A flagged group is dropped from the flags only when it was written: no  *)
(* event overwrites the flags of one that was not stored yet, and none is  *)
(* lost when the MAC is too busy to be stopped (NvmDataMgmt.c:51-75).  The *)
(* exceptions are those of StoredWhenQuiet, and a reset.                   *)
FlagsAreServed ==
  [][\A g \in NvmNotifyFlags \ NvmNotifyFlags' :
       stored'[g] = crc'[g] \/ g \in missed' \/ NvmHandle']_vars

=============================================================================
