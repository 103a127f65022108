---------------------------- MODULE ConfigSession ---------------------------
(***************************************************************************)
(* The configuration and the LoRaWAN session, which are kept twice: in     *)
(* DevCfg, which NFC sets and EEPROM_Save saves, and in the MAC's context, *)
(* which joining changes and NvmDataMgmt stores.  LRW_FromDevCfg takes     *)
(* what NFC changed over into the context, LRW_ToDevCfg what the network   *)
(* changed back into DevCfg.                                               *)
(*                                                                         *)
(* The storing of the context is NvmContext; here its groups have fields,  *)
(* of which the data rate stands for all that the network adapts, and one  *)
(* number for the session's address or its keys.  NFCISR may run between   *)
(* any two steps of main, the power may go, and the network may have       *)
(* accepted a join whose answer is lost.  What writing the configuration   *)
(* word by word may leave is the subject of EepromStore.                   *)
(***************************************************************************)
EXTENDS NvmContext

CONSTANTS MaxSession,  \* bound: sessions
          MaxUp,       \* bound: frames in a session
          MaxNfc,      \* bound: NFC commands
          MaxLosses    \* bound: losses of power

VARIABLES
  DevCfg, changed,     \* the configuration and DevCfg.changed.lrw
  config,              \* ... as it is in the EEPROM
  saving,              \* ... as EEPROM_Save writes it
  turn,                \* where the main loop, or LRW_SaveNvm, is
  joining,             \* the exchange is a join
  session,             \* the network's: the last session it accepted
  aired,               \* history: <<keys, counter>> of the frames on air
  reused,              \* history: a counter was used twice with its keys
  interrupted,         \* history: power went during an exchange or a store,
                       \* or when a store had failed
  undone,              \* history: a session came while changes were pending
  overtaken,           \* history: a change came where main misses it
  adapted,             \* history: the network changed the data rate
  commands, losses

conf == <<DevCfg, changed>>
eeprom == <<config, saving>>
history == <<aired, reused, interrupted, undone, overtaken, adapted,
             commands, losses>>
allVars == <<vars, conf, eeprom, turn, joining, session, history>>

(* The data rate of EU868 with a bandwidth of 125 kHz; mutant: one off.    *)
LRW_ToDatarateOff(sf) == 13 - sf
LRW_ToDatarate(sf) == 12 - sf
PhySfFromDr(dr) == 12 - dr

SF == {11, 12}
NoKey == 0
Key == {NoKey, 1}
Session == 0 .. MaxSession

Config == [isOtaa : BOOLEAN, key : Key, addr : Session, skeys : Session, sf : SF]
Defaults == [isOtaa |-> TRUE, key |-> NoKey, addr |-> 0, skeys |-> 0, sf |-> 12]
Provisioned == [Defaults EXCEPT !.key = 1]

Content(g) ==
  CASE g = "Crypto" -> 0 .. MaxUp
    [] g = "MacGroup1" -> {0, 1}
    [] g = "MacGroup2" ->
         [act : {"NONE", "ABP", "OTAA"}, addr : Session, default : {0, 1}]
    [] g = "SecureElement" -> [key : Key, skeys : Session]

ASSUME SessionAssumption ==
  /\ {MaxSession, MaxUp, MaxNfc, MaxLosses} \subseteq Nat
  /\ Group = {"Crypto", "MacGroup1", "MacGroup2", "SecureElement"}
  /\ \A g \in Group : Bad \notin Content(g) /\ NoCrc \notin Content(g)
  /\ Bad \notin Config

(* LoRaMacInitialization.                                                  *)
Fresh ==
  [g \in Group |->
     CASE g = "Crypto" -> 0
       [] g = "MacGroup1" -> 0
       [] g = "MacGroup2" -> [act |-> "NONE", addr |-> 0, default |-> 0]
       [] g = "SecureElement" -> [key |-> NoKey, skeys |-> 0]]

SessionTypeOK ==
  /\ DOMAIN Nvm = Group /\ \A g \in Group : Nvm[g] \in Content(g)
  /\ DevCfg \in Config /\ config \in Config \cup {Bad}
  /\ changed \in BOOLEAN /\ joining \in BOOLEAN
  /\ saving \in Config
  /\ turn \in {"loop", "apply", "save", "request", "copy", "copied", "save copy"}
  /\ session \in Session
  /\ aired \subseteq Session \X (0 .. MaxUp)
  /\ commands \in 0 .. MaxNfc /\ losses \in 0 .. MaxLosses

-----------------------------------------------------------------------------
(* The two mappings                                                        *)

(* A new key, or a change between ABP and OTAA, ends the session.          *)
Rejoins(n, c) ==
  \/ n["SecureElement"].key # c.key
  \/ c.isOtaa = (n["MacGroup2"].act = "ABP")

(* The default is set only when the current data rate differs.  Mutants:   *)
(* the default is not set at all; the device address is not compared.      *)
OldDefault(n, dr) == n["MacGroup2"].default
NewDefault(n, dr) == IF n["MacGroup1"] # dr THEN dr ELSE n["MacGroup2"].default

AddrOnce(n, c) == IF n["MacGroup2"].addr = 0 THEN c.addr ELSE n["MacGroup2"].addr
Addr(n, c) == c.addr

FromDevCfg(n, c) ==
  LET dr == LRW_ToDatarate(c.sf)
      act == IF ~Rejoins(n, c) THEN n["MacGroup2"].act
             ELSE IF c.isOtaa THEN "NONE" ELSE "ABP"
  IN [n EXCEPT !["MacGroup1"] = dr,
               !["MacGroup2"] = [act |-> act, addr |-> Addr(n, c),
                                 default |-> NewDefault(n, dr)],
               !["SecureElement"] = [key |-> c.key, skeys |-> c.skeys]]

(* Mutant: the session's keys are forgotten.                               *)
ToDevCfgButKeys ==
  [isOtaa |-> Nvm["MacGroup2"].act # "ABP",
   key |-> Nvm["SecureElement"].key,
   addr |-> Nvm["MacGroup2"].addr,
   skeys |-> DevCfg.skeys,
   sf |-> PhySfFromDr(Nvm["MacGroup2"].default)]
ToDevCfg ==
  [isOtaa |-> Nvm["MacGroup2"].act # "ABP",
   key |-> Nvm["SecureElement"].key,
   addr |-> Nvm["MacGroup2"].addr,
   skeys |-> Nvm["SecureElement"].skeys,
   sf |-> PhySfFromDr(Nvm["MacGroup2"].default)]

Joined == Nvm["MacGroup2"].act # "NONE"

(* A provisioned device that has just booted for the first time.           *)
SessionInit ==
  /\ DevCfg = Provisioned /\ config = Provisioned /\ changed = TRUE
  /\ saving = Provisioned
  /\ Nvm = FromDevCfg(Fresh, Provisioned)
  /\ crc = [g \in Group |-> NoCrc]
  /\ NvmHandle = TRUE /\ NvmNotifyFlags = {} /\ MacState = "idle"
  /\ stored = [g \in Group |-> Bad] /\ unlocked = FALSE
  /\ pc = "loop" /\ next = 1 /\ missed = {} /\ touched = FALSE
  /\ turn = "loop" /\ joining = FALSE /\ session = 0
  /\ aired = {} /\ reused = FALSE
  /\ interrupted = FALSE /\ undone = FALSE /\ overtaken = FALSE /\ adapted = FALSE
  /\ commands = 0 /\ losses = 0

-----------------------------------------------------------------------------
(* The main loop: what changed is applied, saved, and forgotten.           *)

Looping == turn = "loop" /\ pc = "loop" /\ ~LoRaMacIsBusy

Unchanged ==
  /\ Looping /\ ~changed
  /\ turn' = "request"
  /\ UNCHANGED <<vars, conf, eeprom, joining, session, history>>

ApplyChanges ==
  /\ Looping /\ changed
  /\ MibSet(FromDevCfg(Nvm, DevCfg))
  /\ turn' = "apply"
  /\ UNCHANGED <<conf, eeprom, joining, session, history>>

(* EEPROM_Save, called by main or by LRW_SaveNvm.                          *)
Save ==
  /\ turn \in {"apply", "copied"}
  /\ turn' = IF turn = "apply" THEN "save" ELSE "save copy"
  /\ saving' = DevCfg /\ config' = Bad
  /\ UNCHANGED <<vars, conf, joining, session, history>>

ForgetChanges ==
  /\ turn = "save"
  /\ turn' = "request"
  /\ config' = saving
  /\ changed' = FALSE
  /\ UNCHANGED <<vars, DevCfg, saving, joining, session, history>>

-----------------------------------------------------------------------------
(* ... a join or a message is requested,                                   *)

MayJoin == turn = "request" /\ ~Joined /\ DevCfg.key # NoKey

(* MLME_JOIN resets the activation.                                        *)
JoinContext ==
  [Nvm EXCEPT !["MacGroup1"] = LRW_ToDatarate(DevCfg.sf), !["MacGroup2"].act = "NONE"]

Requests(join) ==
  /\ turn' = "loop"
  /\ joining' = join
  /\ UNCHANGED <<conf, eeprom, session, interrupted, undone, overtaken, adapted,
                 commands, losses>>

JoinOtaa ==
  /\ MayJoin /\ DevCfg.isOtaa
  /\ Request(JoinContext) \/ Touch(JoinContext)
  /\ Requests(TRUE)
  /\ UNCHANGED <<aired, reused>>

JoinAbp ==
  /\ MayJoin /\ ~DevCfg.isOtaa
  /\ Touch([Nvm EXCEPT !["MacGroup2"].act = "ABP"])
  /\ Requests(FALSE)
  /\ UNCHANGED <<aired, reused>>

Send ==
  LET up == Nvm["Crypto"] + 1
      frame == <<Nvm["SecureElement"].skeys, up>>
  IN
  /\ turn = "request" /\ Joined /\ up <= MaxUp
  /\ Request([Nvm EXCEPT !["Crypto"] = up])
  /\ Requests(FALSE)
  /\ aired' = aired \cup {frame}
  /\ reused' = (reused \/ frame \in aired)

(* There is nothing to send, it is refused, or there is no key to join.    *)
NoRequest ==
  /\ turn = "request" /\ ~MayJoin
  /\ turn' = "loop"
  /\ UNCHANGED <<vars, conf, eeprom, joining, session, history>>

-----------------------------------------------------------------------------
(* ... and LRW_Process runs until the MAC is idle.                         *)

Answered ==
  /\ turn = "loop"
  /\ UNCHANGED <<conf, eeprom, turn, joining, history>>

Waits == ProcessBusy(Nvm) /\ Answered /\ UNCHANGED session

(* The join accept gives a new session, and the frame counter restarts.    *)
(* The network may adapt the data rate in an answer to a frame.            *)
NewSession(s) ==
  [Nvm EXCEPT !["Crypto"] = 0,
              !["MacGroup2"].act = "OTAA", !["MacGroup2"].addr = s,
              !["SecureElement"].skeys = s]

JoinAccepted ==
  /\ joining /\ session < MaxSession /\ ~Joined
  /\ session' = session + 1
  /\ ProcessDone(NewSession(session'))
  /\ Answered

AcceptLost ==
  /\ joining /\ session < MaxSession
  /\ session' = session + 1
  /\ ProcessDone(Nvm)
  /\ Answered

NoAnswer == ProcessDone(Nvm) /\ Answered /\ UNCHANGED session

LinkAdrReq ==
  /\ turn = "loop" /\ ~joining /\ Nvm["MacGroup2"].act = "OTAA"
  /\ \E dr \in {0, 1} : ProcessDone([Nvm EXCEPT !["MacGroup1"] = dr])
  /\ adapted' = (adapted \/ Nvm' # Nvm)
  /\ UNCHANGED <<conf, eeprom, turn, joining, session, aired, reused,
                 interrupted, undone, overtaken, commands, losses>>

(* LRW_SaveNvm leaves DevCfg alone when NFC has changed it, and otherwise  *)
(* copies the session into it and saves it, before the groups are stored.  *)
LeaveDevCfg ==
  /\ turn = "loop" /\ changed
  /\ SaveNvm
  /\ undone' = (undone \/ Nvm["SecureElement"].skeys # DevCfg.skeys)
  /\ UNCHANGED <<conf, eeprom, turn, joining, session, aired, reused,
                 interrupted, overtaken, adapted, commands, losses>>

CheckDevCfg ==
  /\ turn = "loop" /\ pc = "save" /\ ~changed
  /\ turn' = "copy"
  /\ UNCHANGED <<vars, conf, eeprom, joining, session, history>>

CopyDevCfg ==
  /\ turn = "copy"
  /\ DevCfg' = ToDevCfg
  /\ turn' = "copied"
  /\ UNCHANGED <<vars, changed, eeprom, joining, session, history>>

DevCfgSaved ==
  /\ turn = "save copy"
  /\ config' = saving
  /\ SaveNvm
  /\ turn' = "loop"
  /\ UNCHANGED <<conf, saving, joining, session, history>>

Stores ==
  /\ turn = "loop"
  /\ Store \/ WriteBuffer \/ Skip \/ Program \/ Stored
  /\ UNCHANGED <<conf, eeprom, turn, joining, session, history>>

-----------------------------------------------------------------------------
(* The NFC interrupt and the power supply                                  *)

Commands ==
  /\ commands < MaxNfc
  /\ commands' = commands + 1
  /\ UNCHANGED <<eeprom, turn, joining, session, aired, reused, interrupted,
                 undone, adapted, losses>>

(* NFC sets one field; what main is about to overwrite, or to call saved,  *)
(* is lost.  So is a data rate that comes between main's check and a join, *)
(* which makes it the current one, so that the default stays.              *)
NfcSets ==
  /\ Commands
  /\ \/ \E sf \in SF : DevCfg' = [DevCfg EXCEPT !.sf = sf]
     \/ \E key \in Key : DevCfg' = [DevCfg EXCEPT !.key = key]
     \/ DevCfg' = [DevCfg EXCEPT !.isOtaa = ~@]
  /\ DevCfg' # DevCfg
  /\ changed' = TRUE
  /\ overtaken' = (overtaken \/ turn \in {"apply", "save", "request", "copy"})
  /\ UNCHANGED vars

NfcLeaves ==
  /\ Commands /\ Joined
  /\ MibSet([Nvm EXCEPT !["MacGroup2"].act = "NONE"])
  /\ UNCHANGED <<conf, overtaken>>

(* ... but during an exchange the MAC refuses it, and PBDecodeMsg does not *)
(* look at the status.                                                     *)
LeaveRefused ==
  /\ Commands /\ Joined /\ MacState = "busy"
  /\ UNCHANGED <<vars, conf, overtaken>>

(* A store has failed when NFCISR changed a group after its CRC was made.  *)
(* At boot, a configuration that is not whole is replaced by the defaults. *)
LosesPower ==
  /\ losses < MaxLosses
  /\ losses' = losses + 1
  /\ PowerLoss
  /\ DevCfg' = IF config = Bad THEN Defaults ELSE config
  /\ config' = DevCfg' /\ changed' = TRUE
  /\ Boots(FromDevCfg(Restored(Fresh), DevCfg'))
  /\ turn' = "loop" /\ joining' = FALSE
  /\ interrupted' = (interrupted \/ ~Looping \/ (aired # {} /\ ~Restorable(stored)))
  /\ UNCHANGED <<saving, session, aired, reused, undone, overtaken, adapted,
                 commands>>

-----------------------------------------------------------------------------
MainSteps ==
  \/ Unchanged \/ ApplyChanges \/ Save \/ ForgetChanges
  \/ JoinOtaa \/ JoinAbp \/ Send \/ NoRequest
  \/ Waits \/ JoinAccepted \/ AcceptLost \/ NoAnswer \/ LinkAdrReq
  \/ LeaveDevCfg \/ CheckDevCfg \/ CopyDevCfg \/ DevCfgSaved \/ Stores

SessionNext == MainSteps \/ NfcSets \/ NfcLeaves \/ LeaveRefused \/ LosesPower

SessionSpec == SessionInit /\ [][SessionNext]_allVars

-----------------------------------------------------------------------------
(* A device that is activated has the address and the keys of one session, *)
(* though they are stored in different groups, and in DevCfg, one after    *)
(* the other, and the power may go between any two (NvmDataMgmt.c:49-145,  *)
(* lrw.c:375-381, 503-553).                                                *)
SessionWhole ==
  Looping /\ Nvm["MacGroup2"].act = "OTAA" =>
    Nvm["MacGroup2"].addr = Nvm["SecureElement"].skeys

(* ... and it is the session the network knows, unless the power went in   *)
(* the middle of an exchange, or changes by NFC undid the join.            *)
SessionIsServers ==
  Looping /\ Nvm["MacGroup2"].act = "OTAA" /\ ~interrupted /\ ~undone =>
    Nvm["SecureElement"].skeys = session

(* A frame counter is used once with a session's keys, with the same       *)
(* exceptions: restarting an idle device never repeats one.                *)
CounterUsedOnce == reused => interrupted \/ undone

(* "DevCfg must be in sync, otherwise NFC may undo LRW changes": whenever  *)
(* main is about to sleep and no changes are pending, the two agree.  The  *)
(* exceptions are changes that came while main copied, saved or requested, *)
(* a device by personalisation that NFC told to leave the network, and a   *)
(* data rate that the network changed before, or whose store was           *)
(* interrupted (lrw.c:482-492 compares the current one only).              *)
InSync ==
  Looping /\ ~changed /\ ~overtaken =>
    /\ [ToDevCfg EXCEPT !.sf = DevCfg.sf, !.isOtaa = DevCfg.isOtaa] = DevCfg
    /\ Joined => DevCfg.isOtaa = (Nvm["MacGroup2"].act = "OTAA")
    /\ LRW_ToDatarate(DevCfg.sf) = Nvm["MacGroup2"].default \/ adapted \/ interrupted

(* The same without an exception: changes by NFC do not undo a session.    *)
SessionKept ==
  Looping /\ Nvm["MacGroup2"].act = "OTAA" /\ ~interrupted =>
    Nvm["SecureElement"].skeys = session
=============================================================================
