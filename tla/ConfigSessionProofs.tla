------------------------- MODULE ConfigSessionProofs -------------------------
(***************************************************************************)
(* Proofs about ConfigSession, for every number of sessions, frames, NFC   *)
(* commands and losses of power: a session is never put together from      *)
(* parts of two, it is the network's, and its frame counters are used      *)
(* once.                                                                   *)
(***************************************************************************)
EXTENDS ConfigSession, TLAPS

-----------------------------------------------------------------------------
(* The invariant                                                           *)

Context(n) == DOMAIN n = Group /\ \A g \in Group : n[g] \in Content(g)

Act(n) == n["MacGroup2"].act
AddrOf(n) == n["MacGroup2"].addr
Keys(n) == n["SecureElement"].skeys
Count(n) == n["Crypto"]
AppKey(n) == n["SecureElement"].key
Rate(n) == n["MacGroup1"]
Default(n) == n["MacGroup2"].default

TypeInv ==
  /\ SessionTypeOK
  /\ DOMAIN crc = Group /\ \A g \in Group : crc[g] \in Content(g) \cup {NoCrc}
  /\ DOMAIN stored = Group /\ \A g \in Group : stored[g] \in Content(g) \cup {Bad}
  /\ NvmNotifyFlags \subseteq Group
  /\ MacState \in {"idle", "busy", "stopped"}
  /\ pc \in {"loop", "save", "store", "unlock", "program"}
  /\ next \in 1 .. Len(Groups) + 1
  /\ {reused, interrupted, undone} \subseteq BOOLEAN

(* Where main is tells the flags, the state of the MAC, and that it is not *)
(* activated when it joins.                                                *)
PhaseInv ==
  /\ pc = "loop" => NvmNotifyFlags = {}
  /\ pc = "save" => MacState = "idle"
  /\ pc = "store" /\ NvmNotifyFlags # {} => MacState = "idle"
  /\ pc \in {"unlock", "program"} => MacState = "stopped" /\ NvmNotifyFlags # {}
  /\ pc = "program" => next <= Len(Groups) /\ unlocked
  /\ turn \in {"apply", "save", "request"} => pc = "loop" /\ MacState = "idle"
  /\ turn \in {"copy", "copied", "save copy"} => pc = "save"
  /\ MacState = "busy" /\ joining => Act(Nvm) = "NONE"

(* Address and keys go everywhere together.                                *)
WholeInv ==
  /\ AddrOf(Nvm) = Keys(Nvm)
  /\ DevCfg.addr = DevCfg.skeys /\ saving.addr = saving.skeys
  /\ config # Bad => config.addr = config.skeys

(* A group is still to be written, or is what its CRC was made of, or bad. *)
(* Without CRCs, some group is bad.                                        *)
Pending(g) ==
  /\ g \in NvmNotifyFlags
  /\ \/ pc \in {"save", "store"}
     \/ pc \in {"unlock", "program"} /\ \E i \in next .. Len(Groups) : Groups[i] = g

NoCrcs == \A g \in Group : crc[g] = NoCrc

StoreInv ==
  /\ \A g \in Group : Pending(g) \/ stored[g] \in {Bad, crc[g]} \/ crc[g] = NoCrc
  /\ NoCrcs \/ \A g \in Group : crc[g] # NoCrc
  /\ NoCrcs => ~Restorable(stored) /\ NvmNotifyFlags = {}

(* DevCfg has the keys of the context, but after an exchange until they    *)
(* are copied, and the EEPROM those of DevCfg.  Whatever is or was stored  *)
(* as activated by a join has the keys of the network's session.           *)
KeysInv ==
  /\ (pc = "save" /\ turn \in {"loop", "copy"}) \/ DevCfg.skeys = Keys(Nvm)
  /\ turn \in {"copied", "save", "save copy"} \/ (config # Bad /\ config.skeys = DevCfg.skeys)
  /\ turn \in {"save", "save copy"} => saving.skeys = DevCfg.skeys
  /\ Keys(Nvm) <= session
  /\ Act(Nvm) = "OTAA" => Keys(Nvm) = session
  /\ ~NoCrcs /\ Act(crc) = "OTAA" => Keys(Nvm) = session

(* Frames on air are of sessions up to this one, and counted up to now.    *)
FramesInv ==
  /\ ~reused
  /\ \A k \in Session : \A u \in 0 .. MaxUp : <<k, u>> \in aired =>
       k <= session /\ (k = Keys(Nvm) => u <= Count(Nvm))
  /\ ~NoCrcs /\ MacState # "busy" => Count(crc) = Count(Nvm)

Untroubled == ~interrupted /\ ~undone

(* Nothing but the network makes the current data rate another than the    *)
(* default one.                                                            *)
Steady == ~overtaken /\ ~adapted /\ ~interrupted

RateInv ==
  Steady => Rate(Nvm) = Default(Nvm) /\ (~NoCrcs => Rate(crc) = Default(crc))

(* DevCfg and the context agree from when changes are applied, or copied,  *)
(* until there are new ones.                                               *)
Synced ==
  /\ DevCfg.key = AppKey(Nvm)
  /\ DevCfg.addr = AddrOf(Nvm) /\ DevCfg.skeys = Keys(Nvm)
  /\ Act(Nvm) # "NONE" => DevCfg.isOtaa = (Act(Nvm) = "OTAA")
  /\ LRW_ToDatarate(DevCfg.sf) = Default(Nvm) \/ adapted \/ interrupted

SyncInv ==
  ~overtaken =>
    /\ turn \in {"apply", "save", "request"} => Synced
    /\ turn \in {"copied", "save copy"} => changed \/ Synced
    /\ turn = "loop" /\ pc # "save" => changed \/ Synced

IInv ==
  /\ TypeInv /\ PhaseInv /\ WholeInv /\ StoreInv
  /\ Untroubled => KeysInv /\ FramesInv
  /\ RateInv /\ SyncInv

-----------------------------------------------------------------------------
(* The groups of the context, and what each change of it does to them      *)

LEMMA Bounds ==
  /\ MaxSession \in Nat /\ MaxUp \in Nat /\ MaxNfc \in Nat /\ MaxLosses \in Nat
  /\ Len(Groups) \in Nat \ {0}
  BY NvmAssumption, SessionAssumption

LEMMA GroupNames == Group = {"Crypto", "MacGroup1", "MacGroup2", "SecureElement"}
  BY SessionAssumption

LEMMA Distinguished ==
  /\ \A g \in Group : Bad \notin Content(g) /\ NoCrc \notin Content(g)
  /\ Bad \notin Config
  BY SessionAssumption

LEMMA Contents ==
  /\ Content("Crypto") = 0 .. MaxUp
  /\ Content("MacGroup1") = {0, 1}
  /\ Content("MacGroup2") =
       [act : {"NONE", "ABP", "OTAA"}, addr : Session, default : {0, 1}]
  /\ Content("SecureElement") = [key : Key, skeys : Session]
  BY DEF Content

LEMMA Fields ==
  ASSUME NEW n
  PROVE  Context(n) <=>
           /\ DOMAIN n = {"Crypto", "MacGroup1", "MacGroup2", "SecureElement"}
           /\ n["Crypto"] \in 0 .. MaxUp
           /\ n["MacGroup1"] \in {0, 1}
           /\ n["MacGroup2"] \in
                [act : {"NONE", "ABP", "OTAA"}, addr : Session, default : {0, 1}]
           /\ n["SecureElement"] \in [key : Key, skeys : Session]
  BY Contents, GroupNames, Zenon DEF Context

LEMMA FreshContext ==
  Context(Fresh) /\ Act(Fresh) = "NONE" /\ Rate(Fresh) = Default(Fresh)
<1>1. /\ DOMAIN Fresh = Group
      /\ Fresh["Crypto"] = 0 /\ Fresh["MacGroup1"] = 0
      /\ Fresh["MacGroup2"] = [act |-> "NONE", addr |-> 0, default |-> 0]
      /\ Fresh["SecureElement"] = [key |-> NoKey, skeys |-> 0]
  BY GroupNames DEF Fresh
<1>2. 0 \in Session /\ NoKey \in Key /\ 0 \in 0 .. MaxUp
  BY Bounds DEF Session, Key
<1> QED
  BY <1>1, <1>2, GroupNames, Fields DEF Act, Rate, Default

(* LRW_FromDevCfg sets address and keys, leaves the frame counter, and     *)
(* never activates by a join.                                              *)
LEMMA FromDevCfgFields ==
  ASSUME NEW n, Context(n), NEW c \in Config
  PROVE  /\ Context(FromDevCfg(n, c))
         /\ AddrOf(FromDevCfg(n, c)) = c.addr /\ Keys(FromDevCfg(n, c)) = c.skeys
         /\ Count(FromDevCfg(n, c)) = Count(n) /\ AppKey(FromDevCfg(n, c)) = c.key
         /\ Rate(FromDevCfg(n, c)) = LRW_ToDatarate(c.sf)
         /\ Rate(n) = Default(n) => Default(FromDevCfg(n, c)) = LRW_ToDatarate(c.sf)
         /\ Act(FromDevCfg(n, c)) # "NONE" => c.isOtaa = (Act(FromDevCfg(n, c)) = "OTAA")
         /\ Act(FromDevCfg(n, c)) = "OTAA" => Act(n) = "OTAA"
<1> DEFINE dr == LRW_ToDatarate(c.sf)
           act == IF ~Rejoins(n, c) THEN n["MacGroup2"].act
                  ELSE IF c.isOtaa THEN "NONE" ELSE "ABP"
           g2 == [act |-> act, addr |-> Addr(n, c), default |-> NewDefault(n, dr)]
           se == [key |-> c.key, skeys |-> c.skeys]
<1>1. FromDevCfg(n, c) = [n EXCEPT !["MacGroup1"] = dr, !["MacGroup2"] = g2,
                                   !["SecureElement"] = se]
  BY DEF FromDevCfg
<1>2. /\ c.addr \in Session /\ c.skeys \in Session /\ c.key \in Key /\ dr \in {0, 1}
  BY DEF Config, LRW_ToDatarate, SF
<1>3. /\ act \in {"NONE", "ABP", "OTAA"} /\ (act = "OTAA" => Act(n) = "OTAA")
      /\ act # "NONE" => c.isOtaa = (act = "OTAA")
  BY Fields DEF Act, Rejoins, Config
<1>4. NewDefault(n, dr) \in {0, 1} /\ Addr(n, c) = c.addr
  BY <1>2, Fields DEF NewDefault, Addr
<1>7. Rate(n) = Default(n) => NewDefault(n, dr) = dr
  BY DEF NewDefault, Rate, Default
<1>5. /\ g2 \in [act : {"NONE", "ABP", "OTAA"}, addr : Session, default : {0, 1}]
      /\ g2.addr = c.addr /\ g2.act = act /\ g2.default = NewDefault(n, dr) /\ se.key = c.key
      /\ se \in [key : Key, skeys : Session] /\ se.skeys = c.skeys
  BY <1>2, <1>3, <1>4
<1>8. dr = LRW_ToDatarate(c.sf)
  OBVIOUS
<1> HIDE DEF dr, act, g2, se
<1>6. /\ DOMAIN FromDevCfg(n, c) = DOMAIN n
      /\ FromDevCfg(n, c)["Crypto"] = n["Crypto"] /\ FromDevCfg(n, c)["MacGroup1"] = dr
      /\ FromDevCfg(n, c)["MacGroup2"] = g2 /\ FromDevCfg(n, c)["SecureElement"] = se
  BY <1>1, Fields
<1> QED
  BY <1>2, <1>3, <1>5, <1>6, <1>7, <1>8, Fields DEF Act, AddrOf, Keys, Count, AppKey, Rate, Default

(* What NFC, the requests and the network change.                          *)
LEMMA ActFields ==
  ASSUME NEW n, Context(n), NEW a \in {"NONE", "ABP"}
  PROVE  LET new == [n EXCEPT !["MacGroup2"].act = a]
         IN  /\ Context(new) /\ Act(new) = a
             /\ AppKey(new) = AppKey(n) /\ Rate(new) = Rate(n) /\ Default(new) = Default(n)
             /\ AddrOf(new) = AddrOf(n) /\ Keys(new) = Keys(n) /\ Count(new) = Count(n)
  BY Fields DEF Act, AddrOf, Keys, Count, AppKey, Rate, Default

LEMMA RateFields ==
  ASSUME NEW n, Context(n), NEW dr \in {0, 1}
  PROVE  LET new == [n EXCEPT !["MacGroup1"] = dr]
         IN  /\ Context(new) /\ Act(new) = Act(n)
             /\ AppKey(new) = AppKey(n) /\ Rate(new) = dr /\ Default(new) = Default(n)
             /\ AddrOf(new) = AddrOf(n) /\ Keys(new) = Keys(n) /\ Count(new) = Count(n)
  BY Fields DEF Act, AddrOf, Keys, Count, AppKey, Rate, Default

LEMMA CountFields ==
  ASSUME NEW n, Context(n), NEW up \in 0 .. MaxUp
  PROVE  LET new == [n EXCEPT !["Crypto"] = up]
         IN  /\ Context(new) /\ Act(new) = Act(n)
             /\ AppKey(new) = AppKey(n) /\ Rate(new) = Rate(n) /\ Default(new) = Default(n)
             /\ AddrOf(new) = AddrOf(n) /\ Keys(new) = Keys(n) /\ Count(new) = up
  BY Fields DEF Act, AddrOf, Keys, Count, AppKey, Rate, Default

LEMMA JoinFields ==
  ASSUME Context(Nvm), DevCfg \in Config
  PROVE  /\ Context(JoinContext) /\ Act(JoinContext) = "NONE"
         /\ AddrOf(JoinContext) = AddrOf(Nvm) /\ Keys(JoinContext) = Keys(Nvm)
         /\ Count(JoinContext) = Count(Nvm) /\ AppKey(JoinContext) = AppKey(Nvm)
         /\ Rate(JoinContext) = LRW_ToDatarate(DevCfg.sf) /\ Default(JoinContext) = Default(Nvm)
<1>1. LRW_ToDatarate(DevCfg.sf) \in {0, 1}
  BY DEF Config, LRW_ToDatarate, SF
<1> QED
  BY <1>1, Fields DEF JoinContext, Act, AddrOf, Keys, Count, AppKey, Rate, Default

LEMMA SessionFields ==
  ASSUME Context(Nvm), NEW s \in Session
  PROVE  /\ Context(NewSession(s)) /\ Act(NewSession(s)) = "OTAA"
         /\ AddrOf(NewSession(s)) = s /\ Keys(NewSession(s)) = s
         /\ Count(NewSession(s)) = 0 /\ AppKey(NewSession(s)) = AppKey(Nvm)
         /\ Rate(NewSession(s)) = Rate(Nvm) /\ Default(NewSession(s)) = Default(Nvm)
<1>1. 0 \in 0 .. MaxUp
  BY Bounds
<1>2. /\ DOMAIN NewSession(s) = DOMAIN Nvm
      /\ NewSession(s)["Crypto"] = 0 /\ NewSession(s)["MacGroup1"] = Nvm["MacGroup1"]
      /\ NewSession(s)["MacGroup2"] = [Nvm["MacGroup2"] EXCEPT !.act = "OTAA", !.addr = s]
      /\ NewSession(s)["SecureElement"] = [Nvm["SecureElement"] EXCEPT !.skeys = s]
  BY Fields DEF NewSession
<1> QED
  BY <1>1, <1>2, Fields DEF Act, AddrOf, Keys, Count, AppKey, Rate, Default

LEMMA ToDevCfgFields ==
  ASSUME Context(Nvm)
  PROVE  /\ ToDevCfg \in Config /\ ToDevCfg.addr = AddrOf(Nvm) /\ ToDevCfg.skeys = Keys(Nvm)
         /\ ToDevCfg.key = AppKey(Nvm) /\ ToDevCfg.isOtaa = (Act(Nvm) # "ABP")
         /\ LRW_ToDatarate(ToDevCfg.sf) = Default(Nvm)
  BY Fields DEF ToDevCfg, Config, PhySfFromDr, LRW_ToDatarate, SF, AddrOf, Keys, AppKey, Act, Default

-----------------------------------------------------------------------------
(* Types                                                                   *)

LEMMA DefaultsType == Defaults \in Config /\ Provisioned \in Config
<1>1. 0 \in Session
  BY Bounds DEF Session
<1>2. Defaults \in Config
  BY <1>1 DEF Defaults, Config, Key, NoKey, SF
<1> QED
  BY <1>2 DEF Provisioned, Config, Key

LEMMA TypeInit == SessionInit => TypeInv
<1> SUFFICES ASSUME SessionInit PROVE TypeInv
  OBVIOUS
<1>1. Provisioned \in Config
  BY DefaultsType
<1>2. Context(Nvm)
  BY <1>1, FreshContext, FromDevCfgFields DEF SessionInit
<1>3. 0 \in Session /\ 0 \in 0 .. MaxNfc /\ 0 \in 0 .. MaxLosses /\ next \in 1 .. Len(Groups) + 1
  BY Bounds DEF SessionInit, Session
<1>4. /\ DOMAIN crc = Group /\ \A g \in Group : crc[g] = NoCrc
      /\ DOMAIN stored = Group /\ \A g \in Group : stored[g] = Bad
  BY DEF SessionInit
<1> QED
  BY <1>1, <1>2, <1>3, <1>4 DEF SessionInit, TypeInv, SessionTypeOK, Context

LEMMA CurrentGroup ==
  ASSUME TypeInv, next <= Len(Groups)
  PROVE  Current \in Group
  BY DEF TypeInv, Current, Group

(* What is left of a power loss: any group may be bad.                     *)
LEMMA LossStored ==
  ASSUME TypeInv, PhaseInv, PowerLoss
  PROVE  DOMAIN stored' = Group /\ \A g \in Group : stored'[g] \in Content(g) \cup {Bad}
<1>1. CASE stored' = stored
  BY <1>1 DEF TypeInv
<1>2. CASE pc = "program" /\ \E v \in {Bad, Written} : stored' = [stored EXCEPT ![Current] = v]
  <2>1. Current \in Group
    BY <1>2, CurrentGroup DEF PhaseInv
  <2>2. Written \in Content(Current) \cup {Bad}
    BY <2>1 DEF Written, TypeInv, SessionTypeOK
  <2> QED
    BY <1>2, <2>1, <2>2 DEF TypeInv
<1> QED
  BY <1>1, <1>2 DEF PowerLoss

(* A restart takes the context that was stored, if no group is bad.        *)
LEMMA BootContext ==
  ASSUME TypeInv, PhaseInv, PowerLoss, NEW c \in Config, Boots(FromDevCfg(Restored(Fresh), c))
  PROVE  /\ Context(Nvm') /\ AddrOf(Nvm') = c.addr /\ Keys(Nvm') = c.skeys
         /\ Restorable(stored') =>
              /\ crc' = stored' /\ Context(stored') /\ Count(Nvm') = Count(stored')
              /\ Act(Nvm') = "OTAA" => Act(stored') = "OTAA"
         /\ ~Restorable(stored') =>
              /\ DOMAIN crc' = Group /\ \A g \in Group : crc'[g] = NoCrc
              /\ Act(Nvm') # "OTAA"
<1>1. Nvm' = FromDevCfg(Restored(Fresh), c)
  BY DEF Boots
<1>2. CASE Restorable(stored')
  <2>1. Context(stored')
    BY <1>2, LossStored DEF Restorable, Context
  <2>2. Nvm' = FromDevCfg(stored', c) /\ crc' = stored'
    BY <1>1, <1>2 DEF Boots, Restored
  <2> QED
    BY <1>2, <2>1, <2>2, FromDevCfgFields
<1>3. CASE ~Restorable(stored')
  <2>1. Nvm' = FromDevCfg(Fresh, c)
    BY <1>1, <1>3 DEF Restored
  <2>2. crc' = [g \in DOMAIN crc |-> NoCrc]
    BY <1>3 DEF Boots
  <2>3. Act(Nvm') # "OTAA"
    BY <2>1, FromDevCfgFields, FreshContext
  <2> QED
    BY <1>3, <2>1, <2>2, <2>3, FromDevCfgFields, FreshContext DEF TypeInv
<1> QED
  BY <1>2, <1>3

(* The numbers, within their bounds.                                       *)
LEMMA Numbers ==
  TypeInv => /\ session \in Nat /\ session <= MaxSession
             /\ commands \in Nat /\ losses \in Nat
             /\ next \in Nat /\ 1 <= next /\ next <= Len(Groups) + 1
<1> SUFFICES ASSUME TypeInv PROVE  /\ session \in 0 .. MaxSession
                                 /\ commands \in 0 .. MaxNfc /\ losses \in 0 .. MaxLosses
                                 /\ next \in 1 .. Len(Groups) + 1
  BY Bounds
<1> QED
  BY DEF TypeInv, SessionTypeOK, Session

LEMMA NumbersStep ==
  ASSUME TypeInv, PhaseInv
  PROVE  /\ JoinAccepted \/ AcceptLost \/ NoAnswer => session' \in Session
         /\ Commands => commands' \in 0 .. MaxNfc
         /\ LosesPower => losses' \in 0 .. MaxLosses /\ next' \in 1 .. Len(Groups) + 1
         /\ Store \/ WriteBuffer \/ Skip \/ Program \/ Stored => next' \in 1 .. Len(Groups) + 1
<1>1. JoinAccepted \/ AcceptLost \/ NoAnswer => session' \in Session
  BY Numbers, Bounds DEF JoinAccepted, AcceptLost, NoAnswer, Session
<1>2. Commands => commands' \in 0 .. MaxNfc
  BY Numbers, Bounds DEF Commands
<1>3. LosesPower => losses' \in 0 .. MaxLosses /\ next' \in 1 .. Len(Groups) + 1
  BY Numbers, Bounds DEF LosesPower, Boots
<1>4. Store \/ WriteBuffer \/ Skip \/ Program \/ Stored => next' \in 1 .. Len(Groups) + 1
  <2>1. Skip \/ Program => next' = next + 1 /\ next <= Len(Groups)
    BY DEF Skip, Program, PhaseInv
  <2>2. Store \/ WriteBuffer \/ Stored => next' = next \/ next' = 1
    BY DEF Store, WriteBuffer, Stored
  <2> QED
    BY <2>1, <2>2, Numbers, Bounds
<1> QED
  BY <1>1, <1>2, <1>3, <1>4

LEMMA TypeStep == TypeInv /\ PhaseInv /\ [SessionNext]_allVars => TypeInv'
<1> SUFFICES ASSUME TypeInv, PhaseInv, [SessionNext]_allVars PROVE TypeInv'
  OBVIOUS
<1> USE DEF TypeInv, SessionTypeOK
<1>c. Context(Nvm) /\ DevCfg \in Config
  BY DEF Context
<1>b. {reused, interrupted, undone} \subseteq BOOLEAN
  OBVIOUS
(* What is the same for all changes of the context alone.                  *)
<1>n. ASSUME Context(Nvm'), UNCHANGED <<crc, NvmNotifyFlags, MacState, flash, next>>,
             pc' \in {"loop", "save", "store", "unlock", "program"},
             UNCHANGED <<conf, config, saving, joining, session, reused, interrupted, undone,
                         aired, commands, losses>>,
             turn' \in {"loop", "apply", "save", "request", "copy", "copied", "save copy"}
      PROVE  TypeInv'
  BY <1>n DEF Context, flash, conf
<1>1. CASE Unchanged \/ Save \/ ForgetChanges \/ NoRequest \/ CheckDevCfg
           \/ LeaveRefused \/ UNCHANGED allVars
  <2>1. CASE Unchanged \/ NoRequest
    BY <2>1 DEF Unchanged, NoRequest, vars, ram, flash, conf, eeprom, history
  <2>2. CASE Save
    BY <2>2 DEF Save, vars, ram, flash, conf, eeprom, history
  <2>3. CASE ForgetChanges
    BY <2>3 DEF ForgetChanges, vars, ram, flash, conf, eeprom, history
  <2>4. CASE CheckDevCfg
    BY <2>4 DEF CheckDevCfg, vars, ram, flash, conf, eeprom, history
  <2>5. CASE UNCHANGED allVars
    BY <2>5 DEF vars, ram, flash, conf, eeprom, history, allVars
  <2>6. CASE LeaveRefused
    <3>1. commands' \in 0 .. MaxNfc
      BY <2>6, NumbersStep DEF LeaveRefused
    <3> QED
      BY <2>6, <3>1 DEF LeaveRefused, Commands, vars, ram, flash, conf, eeprom
  <2> QED
    BY <1>1, <2>1, <2>2, <2>3, <2>4, <2>5, <2>6
<1>2. CASE CopyDevCfg
  BY <1>2, <1>c, ToDevCfgFields DEF CopyDevCfg, vars, ram, flash, eeprom, history
<1>3. CASE ApplyChanges
  <2>1. Context(Nvm')
    BY <1>3, <1>c, FromDevCfgFields DEF ApplyChanges, MibSet
  <2> QED
    BY <1>3, <1>n, <2>1 DEF ApplyChanges, MibSet, eeprom, history
<1>4. CASE JoinOtaa
  <2>1. Context(Nvm')
    BY <1>4, <1>c, JoinFields DEF JoinOtaa, Request, Touch
  <2> QED
    BY <1>4, <2>1 DEF JoinOtaa, Request, Touch, Requests, Context, flash, conf, eeprom
<1>5. CASE JoinAbp
  <2>1. Context(Nvm')
    BY <1>5, <1>c, ActFields DEF JoinAbp, Touch
  <2> QED
    BY <1>5, <2>1 DEF JoinAbp, Touch, Requests, Context, flash, conf, eeprom
<1>6. CASE Send
  <2>1. Nvm["Crypto"] + 1 \in 0 .. MaxUp /\ Nvm["SecureElement"].skeys \in Session
    BY <1>6, <1>c, Fields DEF Send
  <2>2. Context(Nvm')
    BY <1>6, <1>c, <2>1, CountFields DEF Send, Request
  <2>3. reused' \in BOOLEAN
    BY <1>6, <1>b, Zenon DEF Send
  <2>4. aired' \subseteq Session \X (0 .. MaxUp)
    BY <1>6, <2>1 DEF Send
  <2> QED
    BY <1>6, <2>2, <2>3, <2>4 DEF Send, Request, Requests, Context, flash, conf, eeprom
<1>7. CASE Waits
  BY <1>7, <1>c, <1>n DEF Waits, ProcessBusy, Answered, eeprom, history
<1>8. ASSUME NEW new, ProcessDone(new), Context(new),
             UNCHANGED <<conf, eeprom, turn, joining, reused, interrupted, undone,
                         aired, commands, losses>>, session' \in Session
      PROVE  TypeInv'
  <2>1. Nvm' = new /\ crc' = new /\ NvmNotifyFlags' \subseteq Group
    BY <1>8 DEF ProcessDone, Outdated, Context
  <2> QED
    BY <1>8, <2>1 DEF ProcessDone, Context, flash, conf, eeprom
<1>9. CASE JoinAccepted
  <2>1. session' \in Session
    BY <1>9, NumbersStep
  <2>2. Context(NewSession(session'))
    BY <1>c, <2>1, SessionFields
  <2> QED
    BY <1>8, <1>9, <2>1, <2>2 DEF JoinAccepted, Answered, history
<1>10. CASE AcceptLost \/ NoAnswer
  <2>1. session' \in Session
    BY <1>10, NumbersStep
  <2> QED
    BY <1>8, <1>10, <1>c, <2>1 DEF AcceptLost, NoAnswer, Answered, history
<1>11. CASE LinkAdrReq
  <2>1. PICK dr \in {0, 1} : ProcessDone([Nvm EXCEPT !["MacGroup1"] = dr])
    BY <1>11 DEF LinkAdrReq
  <2>2. Context([Nvm EXCEPT !["MacGroup1"] = dr])
    BY <1>c, RateFields
  <2> QED
    BY <1>8, <1>11, <2>1, <2>2 DEF LinkAdrReq
<1>12. CASE LeaveDevCfg
  <2>1. undone' \in BOOLEAN
    BY <1>12, <1>b, Zenon DEF LeaveDevCfg
  <2> QED
    BY <1>12, <2>1 DEF LeaveDevCfg, SaveNvm, ram, flash, conf, eeprom
<1>13. CASE DevCfgSaved
  BY <1>13 DEF DevCfgSaved, SaveNvm, ram, flash, conf, history
<1>14. CASE Stores
  <2>1. UNCHANGED <<Nvm, crc, conf, eeprom, turn, joining, session, reused, interrupted,
                    undone, aired, commands, losses>>
    BY <1>14 DEF Stores, Store, WriteBuffer, Skip, Program, Stored, ram, history
  <2>2. CASE Store \/ WriteBuffer \/ Skip \/ Stored
    <3>1. UNCHANGED stored
      BY <2>2 DEF Store, WriteBuffer, Skip, Stored, flash
    <3>2. next' \in 1 .. Len(Groups) + 1
      BY <2>2, NumbersStep
    <3> QED
      BY <2>1, <2>2, <3>1, <3>2 DEF Store, WriteBuffer, Skip, Stored, conf, eeprom
  <2>3. CASE Program
    <3>1. Current \in Group
      BY <2>3, CurrentGroup DEF Program, PhaseInv
    <3>2. Written \in Content(Current) \cup {Bad}
      BY <3>1 DEF Written
    <3>3. DOMAIN stored' = Group /\ \A g \in Group : stored'[g] \in Content(g) \cup {Bad}
      BY <2>3, <3>1, <3>2 DEF Program
    <3>4. next' \in 1 .. Len(Groups) + 1
      BY <2>3, NumbersStep
    <3> QED
      BY <2>1, <2>3, <3>3, <3>4 DEF Program, conf, eeprom
  <2> QED
    BY <1>14, <2>2, <2>3 DEF Stores
<1>15. CASE NfcSets
  <2>1. DevCfg' \in Config
    BY <1>15, <1>c DEF NfcSets, Config
  <2>2. commands' \in 0 .. MaxNfc
    BY <1>15, NumbersStep DEF NfcSets
  <2> QED
    BY <1>15, <2>1, <2>2 DEF NfcSets, Commands, vars, ram, flash, eeprom
<1>16. CASE NfcLeaves
  <2>1. Context(Nvm')
    BY <1>16, <1>c, ActFields DEF NfcLeaves, MibSet
  <2>2. commands' \in 0 .. MaxNfc
    BY <1>16, NumbersStep DEF NfcLeaves
  <2> QED
    BY <1>16, <2>1, <2>2 DEF NfcLeaves, LeaveRefused, Commands, MibSet, Context, flash, conf, eeprom
<1>17. CASE LosesPower
  <2>1. DevCfg' \in Config /\ config' = DevCfg'
    BY <1>17, DefaultsType DEF LosesPower
  <2>2. Context(Nvm') /\ DOMAIN crc' = Group
        /\ \A g \in Group : crc'[g] \in Content(g) \cup {NoCrc}
    BY <1>17, <2>1, BootContext DEF LosesPower, Context
  <2>3. interrupted' \in BOOLEAN
    BY <1>17, <1>b, Zenon DEF LosesPower
  <2>4. losses' \in 0 .. MaxLosses /\ next' \in 1 .. Len(Groups) + 1
    BY <1>17, NumbersStep
  <2> QED
    BY <1>17, <2>1, <2>2, <2>3, <2>4, LossStored DEF LosesPower, Boots, Context
<1> QED
  BY <1>1, <1>2, <1>3, <1>4, <1>5, <1>6, <1>7, <1>9, <1>10, <1>11, <1>12, <1>13, <1>14, <1>15,
     <1>16, <1>17 DEF SessionNext, MainSteps

-----------------------------------------------------------------------------
(* The phases of main, and the session as a whole                          *)

LEMMA TypeContext == TypeInv => Context(Nvm) /\ DevCfg \in Config /\ session \in Session
  BY DEF TypeInv, SessionTypeOK, Context

LEMMA PhaseStep == TypeInv /\ PhaseInv /\ [SessionNext]_allVars => PhaseInv'
<1> SUFFICES ASSUME TypeInv, PhaseInv, [SessionNext]_allVars PROVE PhaseInv'
  OBVIOUS
<1> USE DEF PhaseInv
<1>t. Context(Nvm) /\ DevCfg \in Config /\ session \in Session
  BY TypeContext
<1>1. CASE Unchanged \/ Save \/ ForgetChanges \/ NoRequest \/ CheckDevCfg \/ CopyDevCfg
           \/ NfcSets \/ LeaveRefused \/ UNCHANGED allVars
  <2>1. UNCHANGED <<Nvm, NvmNotifyFlags, MacState, pc, next, unlocked, joining>>
    BY <1>1 DEF Unchanged, Save, ForgetChanges, NoRequest, CheckDevCfg, CopyDevCfg, NfcSets,
       LeaveRefused, Commands, vars, ram, flash, allVars
  <2>2. CASE turn' = turn
    BY <2>1, <2>2
  <2>3. CASE turn' # turn
    <3>1. CASE Unchanged
      BY <2>1, <3>1 DEF Unchanged, Looping, LoRaMacIsBusy
    <3>2. CASE Save \/ ForgetChanges \/ NoRequest \/ CheckDevCfg \/ CopyDevCfg
      BY <2>1, <3>2 DEF Save, ForgetChanges, NoRequest, CheckDevCfg, CopyDevCfg
    <3> QED
      BY <1>1, <2>3, <3>1, <3>2 DEF NfcSets, LeaveRefused, Commands, allVars
  <2> QED
    BY <2>2, <2>3
<1>2. CASE ApplyChanges
  BY <1>2 DEF ApplyChanges, MibSet, Looping, LoRaMacIsBusy, flash
<1>3. CASE JoinOtaa
  <2>1. Act(JoinContext) = "NONE"
    BY <1>t, JoinFields
  <2>2. turn' = "loop" /\ Nvm' = JoinContext /\ pc = "loop"
        /\ UNCHANGED <<NvmNotifyFlags, flash, pc, next>>
    BY <1>3 DEF JoinOtaa, Request, Touch, Requests
  <2>3. Act(Nvm') = "NONE"
    BY <2>1, <2>2
  <2> QED
    BY <2>2, <2>3 DEF flash
<1>4. CASE JoinAbp \/ Send
  BY <1>4 DEF JoinAbp, Send, Touch, Request, Requests, flash
<1>5. CASE Waits
  BY <1>5 DEF Waits, ProcessBusy, Answered, flash
<1>6. CASE JoinAccepted \/ AcceptLost \/ NoAnswer \/ LinkAdrReq
  BY <1>6 DEF JoinAccepted, AcceptLost, NoAnswer, LinkAdrReq, Answered, ProcessDone, flash
<1>7. CASE LeaveDevCfg \/ DevCfgSaved
  BY <1>7 DEF LeaveDevCfg, DevCfgSaved, SaveNvm, ram, flash
<1>8. CASE Stores
  <2>1. turn = "loop" /\ turn' = turn /\ joining' = joining /\ Nvm' = Nvm
    BY <1>8 DEF Stores, Store, WriteBuffer, Skip, Program, Stored, ram
  <2>2. CASE Store
    BY <2>1, <2>2 DEF Store, Stops, LoRaMacIsBusy, flash
  <2>3. CASE WriteBuffer \/ Skip \/ Program \/ Stored
    BY <2>1, <2>3 DEF WriteBuffer, Skip, Program, Stored, flash
  <2> QED
    BY <1>8, <2>2, <2>3 DEF Stores
<1>9. CASE NfcLeaves
  <2>1. Act(Nvm') = "NONE"
    BY <1>9, <1>t, ActFields DEF NfcLeaves, MibSet
  <2> QED
    BY <1>9, <2>1 DEF NfcLeaves, LeaveRefused, Commands, MibSet, flash
<1>10. CASE LosesPower
  BY <1>10 DEF LosesPower, Boots
<1> QED
  BY <1>1, <1>2, <1>3, <1>4, <1>5, <1>6, <1>7, <1>8, <1>9, <1>10 DEF SessionNext, MainSteps

LEMMA WholeStep ==
  TypeInv /\ PhaseInv /\ WholeInv /\ [SessionNext]_allVars => WholeInv'
<1> SUFFICES ASSUME TypeInv, PhaseInv, WholeInv, [SessionNext]_allVars PROVE WholeInv'
  OBVIOUS
<1> USE DEF WholeInv
<1>t. Context(Nvm) /\ DevCfg \in Config /\ session \in Session
  BY TypeContext
<1>n. ASSUME AddrOf(Nvm') = Keys(Nvm'), UNCHANGED <<conf, eeprom>> PROVE WholeInv'
  BY <1>n DEF conf, eeprom
<1>1. CASE Unchanged \/ Save \/ ForgetChanges \/ NoRequest \/ CheckDevCfg
           \/ LeaveRefused \/ UNCHANGED allVars
  BY <1>1 DEF Unchanged, Save, ForgetChanges, NoRequest, CheckDevCfg,
     LeaveRefused, Commands, vars, ram, allVars, conf, eeprom
<1>2. CASE CopyDevCfg
  <2>1. DevCfg'.addr = AddrOf(Nvm) /\ DevCfg'.skeys = Keys(Nvm)
    BY <1>2, <1>t, ToDevCfgFields DEF CopyDevCfg
  <2> QED
    BY <1>2, <2>1 DEF CopyDevCfg, vars, ram, eeprom
<1>3. CASE NfcSets
  <2>1. DevCfg'.addr = DevCfg.addr /\ DevCfg'.skeys = DevCfg.skeys
    BY <1>3, <1>t DEF NfcSets, Config
  <2> QED
    BY <1>3, <2>1 DEF NfcSets, Commands, vars, ram, eeprom
<1>4. CASE ApplyChanges
  <2>1. AddrOf(Nvm') = Keys(Nvm')
    BY <1>4, <1>t, FromDevCfgFields DEF ApplyChanges, MibSet
  <2> QED
    BY <1>4, <1>n, <2>1 DEF ApplyChanges
<1>5. CASE JoinOtaa
  <2>1. AddrOf(Nvm') = Keys(Nvm')
    BY <1>5, <1>t, JoinFields DEF JoinOtaa, Request, Touch
  <2> QED
    BY <1>5, <1>n, <2>1 DEF JoinOtaa, Requests
<1>6. CASE JoinAbp
  <2>1. AddrOf(Nvm') = Keys(Nvm')
    BY <1>6, <1>t, ActFields DEF JoinAbp, Touch
  <2> QED
    BY <1>6, <1>n, <2>1 DEF JoinAbp, Requests
<1>7. CASE Send
  <2>1. Nvm["Crypto"] + 1 \in 0 .. MaxUp
    BY <1>7, <1>t, Fields, Bounds DEF Send
  <2>2. AddrOf(Nvm') = Keys(Nvm')
    BY <1>7, <1>t, <2>1, CountFields DEF Send, Request
  <2> QED
    BY <1>7, <1>n, <2>2 DEF Send, Requests
<1>8. CASE Waits \/ AcceptLost \/ NoAnswer
  BY <1>8, <1>n DEF Waits, ProcessBusy, AcceptLost, NoAnswer, ProcessDone, Answered
<1>9. CASE JoinAccepted
  <2>1. session' \in Session
    BY <1>9, NumbersStep
  <2>2. AddrOf(Nvm') = Keys(Nvm')
    BY <1>9, <1>t, <2>1, SessionFields DEF JoinAccepted, ProcessDone
  <2> QED
    BY <1>9, <1>n, <2>2 DEF JoinAccepted, Answered
<1>10. CASE LinkAdrReq
  <2>1. PICK dr \in {0, 1} : Nvm' = [Nvm EXCEPT !["MacGroup1"] = dr]
    BY <1>10 DEF LinkAdrReq, ProcessDone
  <2>2. AddrOf(Nvm') = Keys(Nvm')
    BY <1>t, <2>1, RateFields
  <2> QED
    BY <1>10, <1>n, <2>2 DEF LinkAdrReq
<1>11. CASE LeaveDevCfg \/ DevCfgSaved
  BY <1>11 DEF LeaveDevCfg, DevCfgSaved, SaveNvm, ram, conf, eeprom
<1>12. CASE Stores
  BY <1>12, <1>n DEF Stores, Store, WriteBuffer, Skip, Program, Stored, ram
<1>13. CASE NfcLeaves
  <2>1. AddrOf(Nvm') = Keys(Nvm')
    BY <1>13, <1>t, ActFields DEF NfcLeaves, MibSet
  <2> QED
    BY <1>13, <1>n, <2>1 DEF NfcLeaves, Commands
<1>14. CASE LosesPower
  <2>1. DevCfg' \in Config /\ config' = DevCfg' /\ DevCfg'.addr = DevCfg'.skeys
    <3>1. Defaults.addr = Defaults.skeys
      BY DEF Defaults
    <3> QED
      BY <1>14, <3>1, DefaultsType DEF LosesPower, TypeInv, SessionTypeOK
  <2>2. AddrOf(Nvm') = Keys(Nvm')
    BY <1>14, <2>1, BootContext DEF LosesPower
  <2> QED
    BY <1>14, <2>1, <2>2 DEF LosesPower
<1> QED
  BY <1>1, <1>2, <1>3, <1>4, <1>5, <1>6, <1>7, <1>8, <1>9, <1>10, <1>11, <1>12, <1>13, <1>14
     DEF SessionNext, MainSteps

-----------------------------------------------------------------------------
(* What is stored, and the CRCs                                            *)

(* The end of an exchange takes the CRC of every group.                    *)
LEMMA DoneCrcs ==
  ASSUME TypeInv, NEW new, Context(new), ProcessDone(new)
  PROVE  /\ crc' = new /\ \A g \in Group : crc'[g] # NoCrc
         /\ \A g \in Group : g \in NvmNotifyFlags' <=> crc[g] # new[g]
<1>1. \A g \in Group : new[g] # NoCrc
  BY Distinguished DEF Context
<1>2. NvmNotifyFlags' = {g \in Group : crc[g] # new[g]}
  BY DEF ProcessDone, Outdated, Context
<1> QED
  BY <1>1, <1>2 DEF ProcessDone

LEMMA DoneStore ==
  ASSUME TypeInv, PhaseInv, StoreInv, NEW new, Context(new), ProcessDone(new)
  PROVE  StoreInv'
<1>1. /\ pc = "loop" /\ pc' = "save" /\ stored' = stored
      /\ \A g \in Group : ~Pending(g)
  BY DEF ProcessDone, Pending, flash
<1>2. \A g \in Group : Pending(g)' \/ stored'[g] \in {Bad, crc'[g]}
  <2> SUFFICES ASSUME NEW g \in Group, ~Pending(g)' PROVE stored'[g] \in {Bad, crc'[g]}
    OBVIOUS
  <2>1. g \notin NvmNotifyFlags'
    BY <1>1 DEF Pending
  <2>2. crc[g] = new[g] /\ crc'[g] = new[g] /\ crc'[g] # NoCrc
    BY <2>1, DoneCrcs
  <2> QED
    BY <1>1, <2>2 DEF StoreInv
<1>3. ~NoCrcs'
  BY DoneCrcs, GroupNames DEF NoCrcs
<1> QED
  BY <1>2, <1>3, DoneCrcs DEF StoreInv

(* The exchanges end with a context.                                       *)
Ends == JoinAccepted \/ AcceptLost \/ NoAnswer \/ LinkAdrReq

LEMMA EndsDone ==
  ASSUME TypeInv, PhaseInv, Ends
  PROVE  /\ Context(Nvm') /\ ProcessDone(Nvm')
         /\ ~JoinAccepted =>
              Act(Nvm') = Act(Nvm) /\ Keys(Nvm') = Keys(Nvm) /\ Count(Nvm') = Count(Nvm)
         /\ JoinAccepted =>
              Act(Nvm') = "OTAA" /\ Keys(Nvm') = session' /\ Count(Nvm') = 0
<1>t. Context(Nvm) /\ session \in Session
  BY TypeContext
<1>1. CASE JoinAccepted
  <2>1. session' \in Session
    BY <1>1, NumbersStep
  <2>2. Nvm' = NewSession(session') /\ ProcessDone(NewSession(session'))
    BY <1>1 DEF JoinAccepted, ProcessDone
  <2>3. /\ Context(NewSession(session')) /\ Act(NewSession(session')) = "OTAA"
        /\ Keys(NewSession(session')) = session' /\ Count(NewSession(session')) = 0
    BY <1>t, <2>1, SessionFields
  <2> QED
    BY <1>1, <2>2, <2>3, Zenon
<1>2. CASE (AcceptLost \/ NoAnswer) /\ ~JoinAccepted
  <2>1. Nvm' = Nvm /\ ProcessDone(Nvm)
    BY <1>2 DEF AcceptLost, NoAnswer, ProcessDone
  <2> QED
    BY <1>2, <1>t, <2>1
<1>3. CASE LinkAdrReq
  <2>1. PICK dr \in {0, 1} : ProcessDone([Nvm EXCEPT !["MacGroup1"] = dr])
    BY <1>3 DEF LinkAdrReq
  <2>2. Nvm' = [Nvm EXCEPT !["MacGroup1"] = dr]
    BY <2>1 DEF ProcessDone
  <2>3. ~JoinAccepted
    BY <1>3 DEF LinkAdrReq, JoinAccepted
  <2> QED
    BY <1>t, <2>1, <2>2, <2>3, RateFields
<1> QED
  BY <1>1, <1>2, <1>3 DEF Ends

LEMMA StoreStep ==
  TypeInv /\ PhaseInv /\ StoreInv /\ [SessionNext]_allVars => StoreInv'
<1> SUFFICES ASSUME TypeInv, PhaseInv, StoreInv, [SessionNext]_allVars PROVE StoreInv'
  OBVIOUS
<1>n. ASSUME UNCHANGED <<crc, stored, NvmNotifyFlags, pc, next>> PROVE StoreInv'
  BY <1>n DEF StoreInv, Pending, NoCrcs, Restorable
<1>1. CASE Unchanged \/ Save \/ ForgetChanges \/ NoRequest \/ CheckDevCfg \/ CopyDevCfg
           \/ NfcSets \/ LeaveRefused \/ UNCHANGED allVars
  BY <1>1, <1>n DEF Unchanged, Save, ForgetChanges, NoRequest, CheckDevCfg, CopyDevCfg,
     NfcSets, LeaveRefused, Commands, vars, ram, flash, allVars
<1>2. CASE ApplyChanges \/ NfcLeaves
  BY <1>2, <1>n DEF ApplyChanges, NfcLeaves, MibSet, flash
<1>3. CASE JoinOtaa \/ JoinAbp \/ Send
  BY <1>3, <1>n DEF JoinOtaa, JoinAbp, Send, Request, Touch, flash
<1>4. CASE Waits
  <2>1. UNCHANGED <<crc, stored, NvmNotifyFlags>> /\ NvmNotifyFlags = {}
    BY <1>4 DEF Waits, ProcessBusy, PhaseInv, flash
  <2> QED
    BY <2>1 DEF StoreInv, Pending, NoCrcs, Restorable
<1>5. CASE Ends
  BY <1>5, EndsDone, DoneStore
<1>6. CASE LeaveDevCfg \/ DevCfgSaved
  <2>1. UNCHANGED <<crc, stored, NvmNotifyFlags>> /\ pc = "save" /\ pc' = "store"
    BY <1>6 DEF LeaveDevCfg, DevCfgSaved, SaveNvm, ram, flash
  <2> QED
    BY <2>1 DEF StoreInv, Pending, NoCrcs, Restorable
<1>7. CASE Store
  <2>1. UNCHANGED <<crc, stored, NvmNotifyFlags>> /\ pc = "store"
    BY <1>7 DEF Store, ram, flash
  <2>2. NvmNotifyFlags # {} => pc' = "unlock" /\ next' = 1
    BY <1>7 DEF Store, Stops, LoRaMacIsBusy, PhaseInv
  <2>3. \A g \in Group : Pending(g) => Pending(g)'
    BY <2>1, <2>2 DEF Pending, Group
  <2> QED
    BY <2>1, <2>3 DEF StoreInv, NoCrcs, Restorable
<1>8. CASE WriteBuffer
  BY <1>8 DEF WriteBuffer, StoreInv, Pending, NoCrcs, Restorable, ram
<1>9. CASE Skip
  <2>1. UNCHANGED <<crc, stored, NvmNotifyFlags, pc>> /\ next' = next + 1
        /\ Groups[next] \notin NvmNotifyFlags /\ pc = "unlock"
    BY <1>9 DEF Skip, Current, ram, flash
  <2>2. \A g \in Group : Pending(g) => Pending(g)'
    BY <2>1, Numbers, Bounds DEF Pending
  <2> QED
    BY <2>1, <2>2 DEF StoreInv, NoCrcs, Restorable
<1>10. CASE Program
  <2>1. /\ UNCHANGED <<crc, NvmNotifyFlags>> /\ next' = next + 1
        /\ pc = "program" /\ pc' = "unlock" /\ NvmNotifyFlags # {}
        /\ stored' = [stored EXCEPT ![Current] = Written]
    BY <1>10 DEF Program, PhaseInv, ram
  <2>2. \A g \in Group : g # Current /\ Pending(g) => Pending(g)'
    BY <2>1, Numbers, Bounds DEF Pending, Current
  <2>3. Current \in Group /\ Written \in {Bad, crc[Current]}
    BY <1>10, CurrentGroup DEF Program, PhaseInv, Written
  <2>4. \A g \in Group : stored'[g] = IF g = Current THEN Written ELSE stored[g]
    BY <2>1, <2>3 DEF TypeInv
  <2>5. ~NoCrcs
    BY <2>1 DEF StoreInv
  <2> QED
    BY <2>1, <2>2, <2>3, <2>4, <2>5 DEF StoreInv, NoCrcs
<1>11. CASE Stored
  <2>1. UNCHANGED <<crc, stored>> /\ NvmNotifyFlags' = {} /\ next > Len(Groups) /\ pc = "unlock"
    BY <1>11 DEF Stored, ram, flash
  <2>2. \A g \in Group : ~Pending(g)
    BY <2>1, Numbers, Bounds DEF Pending
  <2> QED
    BY <2>1, <2>2 DEF StoreInv, NoCrcs, Restorable
<1>12. CASE LosesPower
  <2>1. DevCfg' \in Config
    BY <1>12, DefaultsType DEF LosesPower, TypeInv, SessionTypeOK
  <2>2. NvmNotifyFlags' = {}
    BY <1>12 DEF LosesPower, Boots
  <2>3. CASE Restorable(stored')
    <3>1. crc' = stored' /\ Context(stored')
      BY <1>12, <2>1, <2>3, BootContext DEF LosesPower
    <3>2. \A g \in Group : crc'[g] # NoCrc
      BY <3>1, Distinguished DEF Context
    <3> QED
      BY <2>2, <3>1, <3>2, GroupNames DEF StoreInv, NoCrcs
  <2>4. CASE ~Restorable(stored')
    <3>1. \A g \in Group : crc'[g] = NoCrc
      BY <1>12, <2>1, <2>4, BootContext DEF LosesPower
    <3> QED
      BY <2>2, <2>4, <3>1 DEF StoreInv, NoCrcs, Restorable
  <2> QED
    BY <2>3, <2>4
<1> QED
  BY <1>1, <1>2, <1>3, <1>4, <1>5, <1>6, <1>7, <1>8, <1>9, <1>10, <1>11, <1>12
     DEF SessionNext, MainSteps, Ends, Stores

-----------------------------------------------------------------------------
(* The keys and the frame counter                                          *)

(* What troubled a session once stays recorded.                            *)
LEMMA Troubles ==
  ASSUME TypeInv, [SessionNext]_allVars, Untroubled'
  PROVE  /\ Untroubled
         /\ LeaveDevCfg => Keys(Nvm) = DevCfg.skeys
         /\ LosesPower => Looping /\ (aired = {} \/ Restorable(stored))
<1>1. interrupted \in BOOLEAN /\ undone \in BOOLEAN
  BY DEF TypeInv
<1>2. CASE LosesPower
  <2>1. interrupted' = (interrupted \/ ~Looping \/ (aired # {} /\ ~Restorable(stored)))
        /\ undone' = undone
    BY <1>2 DEF LosesPower
  <2>2. ~LeaveDevCfg
    BY <1>2 DEF LosesPower, LeaveDevCfg, Boots, SaveNvm
  <2> QED
    BY <2>1, <2>2, Zenon DEF Untroubled
<1>3. CASE LeaveDevCfg /\ ~LosesPower
  <2>1. undone' = (undone \/ Nvm["SecureElement"].skeys # DevCfg.skeys)
        /\ interrupted' = interrupted
    BY <1>3 DEF LeaveDevCfg
  <2> QED
    BY <1>3, <2>1, Zenon DEF Untroubled, Keys
<1>4. CASE ~LeaveDevCfg /\ ~LosesPower
  <2>1. interrupted' = interrupted /\ undone' = undone
    BY <1>4 DEF SessionNext, MainSteps, Unchanged, ApplyChanges, Save, ForgetChanges, JoinOtaa,
       JoinAbp, Send, Requests, NoRequest, Waits, JoinAccepted, AcceptLost, NoAnswer, LinkAdrReq,
       CheckDevCfg, CopyDevCfg, DevCfgSaved, Stores, Answered, NfcSets, NfcLeaves, LeaveRefused, Commands,
       history, allVars
  <2> QED
    BY <1>4, <2>1 DEF Untroubled
<1> QED
  BY <1>2, <1>3, <1>4

(* A restart of a device that is not in an exchange finds its own session. *)
LEMMA LossKeys ==
  ASSUME TypeInv, PhaseInv, StoreInv, KeysInv, LosesPower, Looping,
         aired = {} \/ Restorable(stored)
  PROVE  /\ DevCfg' = config /\ config' = config /\ turn' = "loop" /\ pc' = "loop"
         /\ config # Bad /\ config.skeys = Keys(Nvm) /\ Keys(Nvm') = Keys(Nvm)
         /\ session' = session /\ MacState' = "idle"
         /\ \/ /\ ~NoCrcs' /\ ~NoCrcs
               /\ Act(crc') = Act(crc) /\ Count(crc') = Count(crc)
               /\ Count(Nvm') = Count(crc) /\ (Act(Nvm') = "OTAA" => Act(crc) = "OTAA")
            \/ aired = {} /\ NoCrcs' /\ Act(Nvm') # "OTAA"
<1>1. /\ pc = "loop" /\ turn = "loop" /\ NvmNotifyFlags = {}
  BY DEF Looping, PhaseInv
<1>2. config # Bad /\ config.skeys = DevCfg.skeys /\ DevCfg.skeys = Keys(Nvm)
  BY <1>1 DEF KeysInv
<1>3. /\ DevCfg' = config /\ config' = config /\ config \in Config
      /\ turn' = "loop" /\ session' = session
  BY <1>2 DEF LosesPower, TypeInv, SessionTypeOK
<1>4. stored' = stored
  BY <1>1 DEF LosesPower, PowerLoss
<1>5. pc' = "loop" /\ MacState' = "idle"
  BY DEF LosesPower, Boots
<1>6. Keys(Nvm') = config.skeys
  BY <1>3, BootContext DEF LosesPower
<1>7. CASE Restorable(stored)
  <2>1. ~NoCrcs /\ \A g \in Group : crc[g] # NoCrc /\ stored[g] # Bad
    BY <1>7 DEF StoreInv, Restorable, TypeInv
  <2>2. \A g \in Group : stored[g] = crc[g]
    BY <1>1, <2>1 DEF StoreInv, Pending
  <2>3. /\ crc' = stored /\ Count(Nvm') = Count(stored)
        /\ Act(Nvm') = "OTAA" => Act(stored) = "OTAA"
    BY <1>3, <1>4, <1>7, BootContext DEF LosesPower
  <2>4. Act(stored) = Act(crc) /\ Count(stored) = Count(crc)
    BY <2>2, GroupNames DEF Act, Count
  <2>5. ~NoCrcs'
    BY <2>1, <2>2, <2>3 DEF NoCrcs
  <2> QED
    BY <1>2, <1>3, <1>5, <1>6, <2>1, <2>3, <2>4, <2>5
<1>8. CASE ~Restorable(stored)
  <2>1. NoCrcs' /\ Act(Nvm') # "OTAA"
    BY <1>3, <1>4, <1>8, BootContext DEF LosesPower, NoCrcs
  <2> QED
    BY <1>2, <1>3, <1>5, <1>6, <1>8, <2>1
<1> QED
  BY <1>7, <1>8

LEMMA KeysType ==
  ASSUME TypeInv
  PROVE  Keys(Nvm) \in Session /\ Keys(Nvm) \in Nat /\ Count(Nvm) \in 0 .. MaxUp
<1>1. Nvm["SecureElement"] \in [key : Key, skeys : Session] /\ Nvm["Crypto"] \in 0 .. MaxUp
  BY TypeContext, Fields
<1>2. Session \subseteq Nat
  BY DEF Session
<1> QED
  BY <1>1, <1>2 DEF Keys, Count

LEMMA KeysStep ==
  ASSUME TypeInv, PhaseInv, StoreInv, KeysInv, Untroubled', [SessionNext]_allVars
  PROVE  KeysInv'
<1> USE DEF KeysInv
<1>t. Context(Nvm) /\ DevCfg \in Config /\ session \in Nat /\ saving \in Config
      /\ saving # Bad /\ Keys(Nvm) \in Nat
  <2>1. Keys(Nvm) \in Nat
    BY KeysType
  <2> QED
    BY <2>1, TypeContext, Numbers, Distinguished DEF TypeInv, SessionTypeOK
<1>n. ASSUME Keys(Nvm') = Keys(Nvm), Act(Nvm') = "OTAA" => Act(Nvm) = "OTAA",
             UNCHANGED <<crc, DevCfg, config, saving, session>>,
             (pc' = pc /\ turn' = turn)
               \/ (turn' \in {"loop", "apply", "request"} /\ pc # "save"
                     /\ turn \in {"loop", "apply", "request"})
      PROVE  KeysInv'
  BY <1>n DEF NoCrcs
<1>1. CASE Unchanged \/ NoRequest \/ LeaveRefused \/ UNCHANGED allVars
  <2>1. UNCHANGED <<Nvm, crc, DevCfg, config, saving, session, pc>>
        /\ (turn' = turn \/ (pc = "loop" /\ turn \in {"loop", "request"} /\ turn' \in {"loop", "request"}))
    BY <1>1 DEF Unchanged, NoRequest, LeaveRefused, Commands, Looping, PhaseInv, vars, ram,
       conf, eeprom, allVars
  <2> QED
    BY <1>n, <2>1
<1>2. CASE ApplyChanges
  <2>1. pc = "loop" /\ turn = "loop" /\ turn' = "apply"
        /\ Nvm' = FromDevCfg(Nvm, DevCfg) /\ UNCHANGED <<crc, DevCfg, config, saving, session, pc>>
    BY <1>2 DEF ApplyChanges, Looping, MibSet, conf, eeprom
  <2>2. Keys(Nvm') = DevCfg.skeys /\ (Act(Nvm') = "OTAA" => Act(Nvm) = "OTAA")
    BY <1>t, <2>1, FromDevCfgFields
  <2> QED
    BY <1>n, <2>1, <2>2
<1>3. CASE Save
  BY <1>3, <1>t DEF Save, NoCrcs, vars, ram, conf
<1>4. CASE ForgetChanges
  BY <1>4, <1>t DEF ForgetChanges, NoCrcs, vars, ram
<1>5. CASE CheckDevCfg
  BY <1>5 DEF CheckDevCfg, NoCrcs, vars, ram, conf, eeprom
<1>6. CASE CopyDevCfg
  <2>1. DevCfg'.skeys = Keys(Nvm)
    BY <1>6, <1>t, ToDevCfgFields DEF CopyDevCfg
  <2>2. UNCHANGED <<Nvm, crc, config, saving, session, pc>> /\ turn' = "copied"
    BY <1>6 DEF CopyDevCfg, vars, ram, eeprom
  <2> QED
    BY <2>1, <2>2 DEF NoCrcs
<1>7. CASE DevCfgSaved
  BY <1>7, <1>t DEF DevCfgSaved, SaveNvm, NoCrcs, ram, conf
<1>8. CASE LeaveDevCfg
  <2>1. Keys(Nvm) = DevCfg.skeys
    BY <1>8, Troubles
  <2>2. UNCHANGED <<Nvm, crc, DevCfg, config, saving, session, turn>> /\ pc' = "store"
    BY <1>8 DEF LeaveDevCfg, SaveNvm, ram, conf, eeprom
  <2> QED
    BY <2>1, <2>2 DEF NoCrcs
<1>9. CASE NfcSets
  <2>1. DevCfg'.skeys = DevCfg.skeys
    BY <1>9, <1>t DEF NfcSets, Config
  <2>2. UNCHANGED <<Nvm, crc, config, saving, session, turn, pc>>
    BY <1>9 DEF NfcSets, Commands, vars, ram, eeprom
  <2> QED
    BY <2>1, <2>2 DEF NoCrcs
<1>10. CASE NfcLeaves
  <2>1. Keys(Nvm') = Keys(Nvm) /\ Act(Nvm') # "OTAA"
    BY <1>10, <1>t, ActFields DEF NfcLeaves, MibSet
  <2> QED
    BY <1>10, <1>n, <2>1 DEF NfcLeaves, LeaveRefused, Commands, MibSet, conf, eeprom
<1>11. CASE JoinOtaa \/ JoinAbp \/ Send
  <2>1. turn = "request" /\ turn' = "loop" /\ pc = "loop"
        /\ UNCHANGED <<crc, DevCfg, config, saving, session, pc>>
    BY <1>11 DEF JoinOtaa, JoinAbp, Send, MayJoin, Request, Touch, Requests, conf, eeprom
  <2>2. Keys(Nvm') = Keys(Nvm) /\ (Act(Nvm') = "OTAA" => Act(Nvm) = "OTAA")
    <3>1. CASE JoinOtaa
      BY <1>t, <3>1, JoinFields DEF JoinOtaa, Request, Touch
    <3>2. CASE JoinAbp
      BY <1>t, <3>2, ActFields DEF JoinAbp, Touch
    <3>3. CASE Send
      <4>1. Nvm["Crypto"] + 1 \in 0 .. MaxUp
        BY <1>t, <3>3, Fields, Bounds DEF Send
      <4> QED
        BY <1>t, <3>3, <4>1, CountFields DEF Send, Request
    <3> QED
      BY <1>11, <3>1, <3>2, <3>3
  <2> QED
    BY <1>n, <2>1, <2>2
<1>12. CASE Waits
  <2>1. UNCHANGED <<Nvm, crc, DevCfg, config, saving, session, turn>> /\ pc = "loop" /\ pc' = "store"
        /\ turn = "loop"
    BY <1>12 DEF Waits, ProcessBusy, Answered, conf, eeprom
  <2> QED
    BY <1>n, <2>1
<1>13. CASE Ends
  <2>1. /\ pc = "loop" /\ pc' = "save" /\ turn = "loop" /\ turn' = "loop" /\ MacState = "busy"
        /\ UNCHANGED <<DevCfg, config, saving>>
    BY <1>13 DEF Ends, JoinAccepted, AcceptLost, NoAnswer, LinkAdrReq, ProcessDone, Answered,
       conf, eeprom
  <2>2. crc' = Nvm'
    BY <1>13, EndsDone DEF ProcessDone
  <2>3. CASE JoinAccepted
    BY <2>1, <2>2, <2>3, <1>13, <1>t, EndsDone DEF JoinAccepted
  <2>4. CASE ~JoinAccepted
    <3>1. Keys(Nvm') = Keys(Nvm) /\ Act(Nvm') = Act(Nvm)
      BY <1>13, <2>4, EndsDone
    <3>2. session' = session \/ (session' = session + 1 /\ Act(Nvm) = "NONE")
      BY <1>13, <2>1, <2>4 DEF Ends, AcceptLost, NoAnswer, LinkAdrReq, Answered, PhaseInv
    <3> QED
      BY <1>t, <2>1, <2>2, <3>1, <3>2
  <2> QED
    BY <2>3, <2>4
<1>14. CASE Stores
  <2>1. UNCHANGED <<Nvm, crc, DevCfg, config, saving, session, turn>> /\ turn = "loop"
        /\ pc # "save" /\ pc' # "save"
    BY <1>14 DEF Stores, Store, WriteBuffer, Skip, Program, Stored, ram, conf, eeprom
  <2> QED
    BY <1>n, <2>1
<1>15. CASE LosesPower
  <2>1. Looping /\ (aired = {} \/ Restorable(stored))
    BY <1>15, Troubles
  <2> QED
    BY <1>15, <2>1, LossKeys
<1> QED
  BY <1>1, <1>2, <1>3, <1>4, <1>5, <1>6, <1>7, <1>8, <1>9, <1>10, <1>11, <1>12, <1>13, <1>14,
     <1>15 DEF SessionNext, MainSteps, Ends

LEMMA FramesStep ==
  ASSUME TypeInv, PhaseInv, StoreInv, KeysInv, FramesInv, Untroubled', [SessionNext]_allVars
  PROVE  FramesInv'
<1> USE DEF FramesInv
<1>t. /\ Context(Nvm) /\ DevCfg \in Config /\ session \in Nat
      /\ Session \subseteq Nat /\ Keys(Nvm) \in Session /\ Count(Nvm) \in 0 .. MaxUp
  BY TypeContext, KeysType, Numbers DEF Session
<1>n. ASSUME Keys(Nvm') = Keys(Nvm), Count(Nvm') = Count(Nvm),
             UNCHANGED <<crc, MacState, session, aired, reused>>
      PROVE  FramesInv'
  BY <1>n DEF NoCrcs
<1>1. CASE Unchanged \/ NoRequest \/ Save \/ ForgetChanges \/ CheckDevCfg \/ CopyDevCfg
           \/ NfcSets \/ LeaveRefused \/ UNCHANGED allVars
  BY <1>1, <1>n DEF Unchanged, NoRequest, Save, ForgetChanges, CheckDevCfg, CopyDevCfg,
     NfcSets, LeaveRefused, Commands, vars, ram, history, allVars
<1>2. CASE ApplyChanges
  <2>1. pc = "loop" /\ turn = "loop" /\ Nvm' = FromDevCfg(Nvm, DevCfg)
        /\ UNCHANGED <<crc, MacState, session, aired, reused>>
    BY <1>2 DEF ApplyChanges, Looping, MibSet, history
  <2>2. Keys(Nvm') = Keys(Nvm) /\ Count(Nvm') = Count(Nvm)
    BY <1>t, <2>1, FromDevCfgFields DEF KeysInv
  <2> QED
    BY <1>n, <2>1, <2>2
<1>3. CASE LeaveDevCfg \/ DevCfgSaved
  BY <1>3, <1>n DEF LeaveDevCfg, DevCfgSaved, SaveNvm, ram, history
<1>4. CASE NfcLeaves
  <2>1. Keys(Nvm') = Keys(Nvm) /\ Count(Nvm') = Count(Nvm)
    BY <1>4, <1>t, ActFields DEF NfcLeaves, MibSet
  <2> QED
    BY <1>4, <1>n, <2>1 DEF NfcLeaves, LeaveRefused, Commands, MibSet
<1>5. CASE JoinOtaa \/ JoinAbp
  <2>1. Keys(Nvm') = Keys(Nvm) /\ Count(Nvm') = Count(Nvm)
    <3>1. CASE JoinOtaa
      BY <1>t, <3>1, JoinFields DEF JoinOtaa, Request, Touch
    <3>2. CASE JoinAbp
      BY <1>t, <3>2, ActFields DEF JoinAbp, Touch
    <3> QED
      BY <1>5, <3>1, <3>2
  <2>2. UNCHANGED <<crc, session, aired, reused>> /\ (MacState' = MacState \/ MacState' = "busy")
    BY <1>5 DEF JoinOtaa, JoinAbp, Request, Touch, Requests
  <2> QED
    BY <2>1, <2>2 DEF NoCrcs
<1>6. CASE Send
  <2> DEFINE up == Nvm["Crypto"] + 1
             frame == <<Nvm["SecureElement"].skeys, up>>
  <2>1. /\ up \in 0 .. MaxUp /\ up = Count(Nvm) + 1
        /\ aired' = aired \cup {frame} /\ frame = <<Keys(Nvm), up>>
        /\ MacState' = "busy" /\ UNCHANGED <<crc, session>>
    BY <1>6, <1>t, Bounds DEF Send, Request, Requests, Count, Keys
  <2>2. Keys(Nvm') = Keys(Nvm) /\ Count(Nvm') = up
    BY <1>6, <1>t, <2>1, CountFields DEF Send, Request
  <2>3. reused' = (reused \/ frame \in aired)
    BY <1>6 DEF Send
  <2> HIDE DEF up, frame
  <2>4. frame \notin aired
    <3>1. SUFFICES ASSUME <<Keys(Nvm), up>> \in aired PROVE FALSE
      BY <2>1
    <3>2. up <= Count(Nvm)
      BY <1>t, <2>1, <3>1
    <3> QED
      BY <1>t, <2>1, <3>2
  <2>5. ~reused'
    BY <2>3, <2>4, Zenon
  <2>6. ASSUME NEW k \in Session, NEW u \in 0 .. MaxUp, <<k, u>> \in aired'
        PROVE  k <= session /\ (k = Keys(Nvm) => u <= up)
    <3>1. CASE <<k, u>> \in aired
      <4>1. k <= session /\ (k = Keys(Nvm) => u <= Count(Nvm))
        BY <3>1, <2>6
      <4> QED
        BY <1>t, <2>1, <4>1
    <3>2. CASE <<k, u>> = <<Keys(Nvm), up>>
      <4>1. k = Keys(Nvm) /\ u = up
        BY <3>2
      <4>2. Keys(Nvm) <= session
        BY DEF KeysInv
      <4>3. up <= up
        BY <2>1
      <4> QED
        BY <4>1, <4>2, <4>3
    <3> QED
      BY <2>1, <2>6, <3>1, <3>2
  <2> QED
    BY <2>1, <2>2, <2>5, <2>6
<1>7. CASE Waits \/ Stores
  <2>1. UNCHANGED <<Nvm, crc, session, aired, reused>>
        /\ (MacState # "busy" \/ MacState' = "busy")
    BY <1>7 DEF Waits, ProcessBusy, Answered, Stores, Store, Stops, LoRaMacIsBusy, WriteBuffer, Skip,
       Program, Stored, ram, history, PhaseInv
  <2> QED
    BY <2>1 DEF NoCrcs
<1>8. CASE Ends
  <2>1. crc' = Nvm' /\ UNCHANGED <<aired, reused>>
    BY <1>8, EndsDone DEF Ends, JoinAccepted, AcceptLost, NoAnswer, LinkAdrReq, ProcessDone,
       Answered, history
  <2>2. session' = session \/ session' = session + 1
    BY <1>8 DEF Ends, JoinAccepted, AcceptLost, NoAnswer, LinkAdrReq, Answered
  <2>3. CASE JoinAccepted
    <3>1. session' = session + 1 /\ Keys(Nvm') = session'
      BY <1>8, <2>3, EndsDone DEF JoinAccepted
    <3>2. \A k \in Session : \A u \in 0 .. MaxUp : <<k, u>> \in aired => k <= session
      OBVIOUS
    <3> QED
      BY <1>t, <2>1, <3>1, <3>2
  <2>4. CASE ~JoinAccepted
    <3>1. Keys(Nvm') = Keys(Nvm) /\ Count(Nvm') = Count(Nvm)
      BY <1>8, <2>4, EndsDone
    <3> QED
      BY <1>t, <2>1, <2>2, <3>1
  <2> QED
    BY <2>3, <2>4
<1>9. CASE LosesPower
  <2>1. Looping /\ (aired = {} \/ Restorable(stored)) /\ UNCHANGED <<aired, reused>>
    BY <1>9, Troubles DEF LosesPower
  <2>2. MacState = "idle"
    BY <2>1 DEF Looping, LoRaMacIsBusy
  <2>3. Keys(Nvm') = Keys(Nvm) /\ session' = session /\ MacState' = "idle"
        /\ \/ /\ ~NoCrcs' /\ ~NoCrcs /\ Count(crc') = Count(crc) /\ Count(Nvm') = Count(crc)
           \/ aired = {} /\ NoCrcs'
    BY <1>9, <2>1, LossKeys
  <2> QED
    BY <2>1, <2>2, <2>3
<1> QED
  BY <1>1, <1>2, <1>3, <1>4, <1>5, <1>6, <1>7, <1>8, <1>9 DEF SessionNext, MainSteps, Ends

-----------------------------------------------------------------------------
(* The two copies of the configuration                                     *)

(* What excuses a difference once stays recorded, too.                     *)
LEMMA Excuses ==
  ASSUME TypeInv, [SessionNext]_allVars
  PROVE  /\ (adapted => adapted') /\ (interrupted => interrupted') /\ (overtaken => overtaken')
         /\ NfcSets /\ ~overtaken' => turn \notin {"apply", "save", "request", "copy"}
         /\ LinkAdrReq /\ ~adapted' => Nvm' = Nvm
         /\ LosesPower /\ ~interrupted' => Looping
<1>1. CASE LosesPower
  <2>1. interrupted' = (interrupted \/ ~Looping \/ (aired # {} /\ ~Restorable(stored)))
        /\ overtaken' = overtaken /\ adapted' = adapted
    BY <1>1 DEF LosesPower
  <2>2. ~NfcSets
    BY <1>1, Numbers DEF LosesPower, NfcSets, Commands
  <2>3. ~LinkAdrReq
    BY <1>1 DEF LosesPower, LinkAdrReq, ProcessDone, PowerLoss, Boots
  <2> QED
    BY <2>1, <2>2, <2>3, Zenon
<1>2. CASE NfcSets /\ ~LosesPower
  <2>1. overtaken' = (overtaken \/ turn \in {"apply", "save", "request", "copy"})
        /\ interrupted' = interrupted /\ adapted' = adapted
    BY <1>2 DEF NfcSets, Commands
  <2>2. ~LinkAdrReq
    BY <1>2 DEF NfcSets, Commands, LinkAdrReq, ProcessDone, vars
  <2> QED
    BY <1>2, <2>1, <2>2, Zenon
<1>3. CASE LinkAdrReq /\ ~LosesPower /\ ~NfcSets
  <2>1. adapted' = (adapted \/ Nvm' # Nvm)
        /\ interrupted' = interrupted /\ overtaken' = overtaken
    BY <1>3 DEF LinkAdrReq
  <2> QED
    BY <1>3, <2>1, Zenon
<1>4. CASE ~LosesPower /\ ~NfcSets /\ ~LinkAdrReq
  <2>1. interrupted' = interrupted /\ adapted' = adapted /\ overtaken' = overtaken
    BY <1>4 DEF SessionNext, MainSteps, Unchanged, ApplyChanges, Save, ForgetChanges, JoinOtaa,
       JoinAbp, Send, Requests, NoRequest, Waits, JoinAccepted, AcceptLost, NoAnswer, LeaveDevCfg,
       CheckDevCfg, CopyDevCfg, DevCfgSaved, Stores, Answered, NfcLeaves, LeaveRefused, Commands,
       history, allVars
  <2> QED
    BY <1>4, <2>1
<1> QED
  BY <1>1, <1>2, <1>3, <1>4

(* The rates of the context, and of the last one that was stored.          *)
LEMMA LossRates ==
  ASSUME TypeInv, PhaseInv, StoreInv, LosesPower, Looping,
         Rate(Nvm) = Default(Nvm), ~NoCrcs => Rate(crc) = Default(crc)
  PROVE  Rate(Nvm') = Default(Nvm') /\ (~NoCrcs' => Rate(crc') = Default(crc'))
<1>1. pc = "loop" /\ NvmNotifyFlags = {} /\ DevCfg' \in Config
  BY DefaultsType DEF Looping, PhaseInv, LosesPower, TypeInv, SessionTypeOK
<1>2. stored' = stored /\ Nvm' = FromDevCfg(Restored(Fresh), DevCfg')
  BY <1>1 DEF LosesPower, PowerLoss, Boots
<1>3. CASE Restorable(stored)
  <2>1. ~NoCrcs /\ \A g \in Group : stored[g] = crc[g]
    BY <1>1, <1>3 DEF StoreInv, Restorable, TypeInv, Pending
  <2>2. Rate(stored) = Default(stored)
    BY <2>1, GroupNames DEF Rate, Default
  <2>3. crc' = stored /\ Context(stored)
    BY <1>1, <1>2, <1>3, BootContext DEF LosesPower
  <2>4. Nvm' = FromDevCfg(stored, DevCfg')
    BY <1>2, <1>3 DEF Restored
  <2> QED
    BY <1>1, <2>2, <2>3, <2>4, FromDevCfgFields
<1>4. CASE ~Restorable(stored)
  <2>1. NoCrcs'
    BY <1>1, <1>2, <1>4, BootContext DEF LosesPower, NoCrcs
  <2>2. Nvm' = FromDevCfg(Fresh, DevCfg')
    BY <1>2, <1>4 DEF Restored
  <2> QED
    BY <1>1, <2>1, <2>2, FreshContext, FromDevCfgFields
<1> QED
  BY <1>3, <1>4

LEMMA RateStep ==
  ASSUME TypeInv, PhaseInv, StoreInv, RateInv, SyncInv, [SessionNext]_allVars
  PROVE  RateInv'
<1> SUFFICES ASSUME Steady'
             PROVE  Rate(Nvm') = Default(Nvm') /\ (~NoCrcs' => Rate(crc') = Default(crc'))
  BY DEF RateInv
<1>s. Steady /\ Rate(Nvm) = Default(Nvm) /\ (~NoCrcs => Rate(crc) = Default(crc))
  BY Excuses DEF Steady, RateInv
<1>t. Context(Nvm) /\ DevCfg \in Config
  BY TypeContext
<1>n. ASSUME UNCHANGED crc, Rate(Nvm') = Default(Nvm')
      PROVE  Rate(Nvm') = Default(Nvm') /\ (~NoCrcs' => Rate(crc') = Default(crc'))
  BY <1>n, <1>s DEF NoCrcs
<1>1. CASE UNCHANGED <<Nvm, crc>>
  BY <1>1, <1>n, <1>s
<1>2. CASE ApplyChanges
  BY <1>2, <1>n, <1>s, <1>t, FromDevCfgFields DEF ApplyChanges, MibSet
<1>3. CASE JoinOtaa
  <2>1. Synced
    BY <1>3, <1>s DEF JoinOtaa, MayJoin, SyncInv, Steady
  <2>2. LRW_ToDatarate(DevCfg.sf) = Default(Nvm)
    BY <1>s, <2>1 DEF Synced, Steady
  <2>3. Nvm' = JoinContext /\ crc' = crc
    BY <1>3 DEF JoinOtaa, Request, Touch
  <2> QED
    BY <1>n, <1>t, <2>2, <2>3, JoinFields
<1>4. CASE JoinAbp
  BY <1>4, <1>n, <1>s, <1>t, ActFields DEF JoinAbp, Touch
<1>5. CASE Send
  <2>1. Nvm["Crypto"] + 1 \in 0 .. MaxUp
    BY <1>5, <1>t, Fields, Bounds DEF Send
  <2> QED
    BY <1>5, <1>n, <1>s, <1>t, <2>1, CountFields DEF Send, Request
<1>6. CASE Ends
  <2>1. crc' = Nvm'
    BY <1>6, EndsDone DEF ProcessDone
  <2>2. Rate(Nvm') = Default(Nvm')
    <3>1. CASE JoinAccepted
      <4>1. session' \in Session /\ Nvm' = NewSession(session')
        BY <3>1, NumbersStep DEF JoinAccepted, ProcessDone
      <4> QED
        BY <1>s, <1>t, <4>1, SessionFields
    <3>2. CASE AcceptLost \/ NoAnswer
      BY <1>s, <3>2 DEF AcceptLost, NoAnswer, ProcessDone
    <3>3. CASE LinkAdrReq
      <4>1. Nvm' = Nvm
        BY <3>3, Excuses DEF Steady
      <4> QED
        BY <1>s, <4>1
    <3> QED
      BY <1>6, <3>1, <3>2, <3>3 DEF Ends
  <2> QED
    BY <2>1, <2>2
<1>7. CASE NfcLeaves
  BY <1>7, <1>n, <1>s, <1>t, ActFields DEF NfcLeaves, MibSet
<1>8. CASE LosesPower
  <2>1. Looping
    BY <1>8, Excuses DEF Steady
  <2> QED
    BY <1>8, <1>s, <2>1, LossRates
<1>9. CASE Unchanged \/ Save \/ ForgetChanges \/ NoRequest \/ Waits \/ LeaveDevCfg \/ CheckDevCfg
           \/ CopyDevCfg \/ DevCfgSaved \/ NfcSets \/ LeaveRefused \/ UNCHANGED allVars
  BY <1>1, <1>9 DEF Unchanged, Save, ForgetChanges, NoRequest, Waits, ProcessBusy, LeaveDevCfg,
     SaveNvm, CheckDevCfg, CopyDevCfg, DevCfgSaved, NfcSets, LeaveRefused,
     Commands, vars, ram, allVars
<1>10. CASE Stores
  BY <1>1, <1>10 DEF Stores, Store, WriteBuffer, Skip, Program, Stored, ram
<1> QED
  BY <1>2, <1>3, <1>4, <1>5, <1>6, <1>7, <1>8, <1>9, <1>10 DEF SessionNext, MainSteps, Ends

LEMMA SyncStep ==
  ASSUME TypeInv, PhaseInv, RateInv, SyncInv, [SessionNext]_allVars
  PROVE  SyncInv'
<1> SUFFICES ASSUME ~overtaken'
             PROVE  /\ turn' \in {"apply", "save", "request"} => Synced'
                    /\ turn' \in {"copied", "save copy"} => changed' \/ Synced'
                    /\ turn' = "loop" /\ pc' # "save" => changed' \/ Synced'
  BY DEF SyncInv
<1>s. /\ turn \in {"apply", "save", "request"} => Synced
      /\ turn \in {"copied", "save copy"} => changed \/ Synced
      /\ turn = "loop" /\ pc # "save" => changed \/ Synced
      /\ (adapted => adapted') /\ (interrupted => interrupted')
  BY Excuses DEF SyncInv
<1>t. Context(Nvm) /\ DevCfg \in Config
  BY TypeContext
<1>k. ASSUME Synced, UNCHANGED DevCfg, AppKey(Nvm') = AppKey(Nvm), AddrOf(Nvm') = AddrOf(Nvm),
             Keys(Nvm') = Keys(Nvm), Default(Nvm') = Default(Nvm),
             Act(Nvm') = Act(Nvm) \/ Act(Nvm') = "NONE" \/ (Act(Nvm') = "ABP" /\ ~DevCfg.isOtaa)
      PROVE  Synced'
  BY <1>k, <1>s, <1>t DEF Synced, Config
<1>u. ASSUME Synced, UNCHANGED <<Nvm, DevCfg>> PROVE Synced'
  BY <1>u, <1>k
<1>1. CASE Unchanged \/ Save \/ ForgetChanges \/ NoRequest \/ CheckDevCfg
           \/ LeaveRefused \/ UNCHANGED allVars
  <2>1. UNCHANGED <<Nvm, DevCfg, pc>>
    BY <1>1 DEF Unchanged, Save, ForgetChanges, NoRequest, CheckDevCfg,
       LeaveRefused, Commands, vars, ram, conf, allVars
  <2>2. CASE Unchanged
    BY <1>s, <1>u, <2>1, <2>2 DEF Unchanged, Looping
  <2>3. CASE Save
    BY <1>s, <1>u, <2>1, <2>3 DEF Save, conf
  <2>4. CASE ForgetChanges
    BY <1>s, <1>u, <2>1, <2>4 DEF ForgetChanges
  <2>5. CASE NoRequest
    BY <1>s, <1>u, <2>1, <2>5 DEF NoRequest
  <2>6. CASE CheckDevCfg
    BY <2>6 DEF CheckDevCfg
  <2>7. CASE LeaveRefused \/ UNCHANGED allVars
    BY <1>s, <1>u, <2>1, <2>7 DEF LeaveRefused, Commands, allVars, conf
  <2> QED
    BY <1>1, <2>2, <2>3, <2>4, <2>5, <2>6, <2>7
<1>2. CASE CopyDevCfg
  <2>1. DevCfg' = ToDevCfg /\ Nvm' = Nvm /\ turn' = "copied"
    BY <1>2 DEF CopyDevCfg, vars, ram
  <2>2. Act(Nvm) \in {"NONE", "ABP", "OTAA"}
    BY <1>t, Fields DEF Act
  <2>3. Synced'
    BY <1>t, <2>1, <2>2, ToDevCfgFields DEF Synced
  <2> QED
    BY <2>1, <2>3
<1>3. CASE NfcSets
  <2>1. turn \notin {"apply", "save", "request", "copy"} /\ turn' = turn /\ changed' = TRUE
    BY <1>3, Excuses DEF NfcSets, Commands
  <2> QED
    BY <2>1
<1>4. CASE ApplyChanges
  <2>1. Nvm' = FromDevCfg(Nvm, DevCfg) /\ DevCfg' = DevCfg /\ turn' = "apply"
    BY <1>4 DEF ApplyChanges, MibSet, conf
  <2>2. Rate(Nvm) = Default(Nvm) \/ adapted \/ interrupted
    BY Excuses DEF RateInv, Steady
  <2>3. Synced'
    BY <1>s, <1>t, <2>1, <2>2, FromDevCfgFields DEF Synced
  <2> QED
    BY <2>1, <2>3
<1>5. CASE JoinOtaa \/ JoinAbp \/ Send
  <2>1. turn = "request" /\ turn' = "loop" /\ DevCfg' = DevCfg
    BY <1>5 DEF JoinOtaa, JoinAbp, Send, MayJoin, Requests, conf
  <2>2. CASE JoinOtaa
    BY <1>k, <1>s, <1>t, <2>1, <2>2, JoinFields DEF JoinOtaa, Request, Touch
  <2>3. CASE JoinAbp
    BY <1>k, <1>s, <1>t, <2>1, <2>3, ActFields DEF JoinAbp, Touch
  <2>4. CASE Send
    <3>1. Nvm["Crypto"] + 1 \in 0 .. MaxUp
      BY <1>t, <2>4, Fields, Bounds DEF Send
    <3> QED
      BY <1>k, <1>s, <1>t, <2>1, <2>4, <3>1, CountFields DEF Send, Request
  <2> QED
    BY <1>5, <2>2, <2>3, <2>4
<1>6. CASE Waits
  BY <1>6, <1>s, <1>u DEF Waits, ProcessBusy, Answered, conf
<1>7. CASE Ends
  <2>1. turn' = "loop" /\ pc' = "save"
    BY <1>7 DEF Ends, JoinAccepted, AcceptLost, NoAnswer, LinkAdrReq, Answered, ProcessDone
  <2> QED
    BY <2>1
<1>8. CASE LeaveDevCfg
  BY <1>8 DEF LeaveDevCfg, conf
<1>9. CASE DevCfgSaved
  BY <1>9, <1>s, <1>u DEF DevCfgSaved, SaveNvm, ram, conf
<1>10. CASE Stores
  <2>1. UNCHANGED <<Nvm, DevCfg, changed, turn>> /\ turn = "loop" /\ pc # "save"
    BY <1>10 DEF Stores, Store, WriteBuffer, Skip, Program, Stored, ram, conf
  <2> QED
    BY <1>s, <1>u, <2>1
<1>11. CASE NfcLeaves
  <2>1. UNCHANGED <<DevCfg, changed, turn, pc>>
    BY <1>11 DEF NfcLeaves, LeaveRefused, Commands, MibSet, conf
  <2>2. Synced => Synced'
    BY <1>11, <1>k, <1>t, <2>1, ActFields DEF NfcLeaves, MibSet
  <2> QED
    BY <1>s, <2>1, <2>2
<1>12. CASE LosesPower
  BY <1>12 DEF LosesPower
<1> QED
  BY <1>1, <1>2, <1>3, <1>4, <1>5, <1>6, <1>7, <1>8, <1>9, <1>10, <1>11, <1>12
     DEF SessionNext, MainSteps, Ends

-----------------------------------------------------------------------------
(***************************************************************************)
(* What NvmContext promises, where contents come back                      *)
(*                                                                         *)
(* There each change of a group gives it a content it never had.  Here a   *)
(* change may be taken back, by NFC, before the next exchange compares the *)
(* group with its CRC: one that was changed while it was written stays bad *)
(* in the EEPROM then, though nothing is to be handled any more.           *)
(***************************************************************************)

(* The context is what its CRCs were made of, or is to be handled.         *)
HandledInv ==
  /\ NvmHandle \/ touched \/ MacState = "busy" \/ crc = Nvm
  /\ NvmNotifyFlags # {} => NvmHandle \/ crc = Nvm

(* A flagged group that NvmDataMgmtStore is past was written, unless there *)
(* are changes again.                                                      *)
PastInv ==
  pc \in {"unlock", "program"} =>
    \A i \in 1 .. next - 1 : Groups[i] \in NvmNotifyFlags =>
      NvmHandle \/ stored[Groups[i]] = crc[Groups[i]]

LEMMA HandledStep ==
  TypeInv /\ PhaseInv /\ HandledInv /\ [SessionNext]_allVars => HandledInv'
<1> SUFFICES ASSUME TypeInv, PhaseInv, HandledInv, [SessionNext]_allVars PROVE HandledInv'
  OBVIOUS
<1>n. ASSUME UNCHANGED <<Nvm, crc, NvmHandle, touched, MacState, NvmNotifyFlags>>
      PROVE  HandledInv'
  BY <1>n DEF HandledInv
<1>1. CASE Unchanged \/ Save \/ ForgetChanges \/ NoRequest \/ CheckDevCfg \/ CopyDevCfg
           \/ NfcSets \/ LeaveRefused \/ UNCHANGED allVars
  BY <1>1, <1>n DEF Unchanged, Save, ForgetChanges, NoRequest, CheckDevCfg, CopyDevCfg,
     NfcSets, LeaveRefused, Commands, vars, ram, allVars
<1>2. CASE ApplyChanges \/ NfcLeaves
  BY <1>2 DEF ApplyChanges, NfcLeaves, MibSet, HandledInv
<1>3. CASE JoinOtaa \/ JoinAbp \/ Send
  <2>1. MacState' = "busy" \/ touched' = TRUE
    BY <1>3 DEF JoinOtaa, JoinAbp, Send, Request, Touch
  <2>2. NvmNotifyFlags' = {}
    BY <1>3 DEF JoinOtaa, JoinAbp, Send, Request, Touch, PhaseInv
  <2> QED
    BY <2>1, <2>2 DEF HandledInv
<1>4. CASE Waits
  BY <1>4 DEF Waits, ProcessBusy, PhaseInv, HandledInv
<1>5. CASE Ends
  BY <1>5, EndsDone DEF ProcessDone, HandledInv
<1>6. CASE LeaveDevCfg \/ DevCfgSaved
  BY <1>6, <1>n DEF LeaveDevCfg, DevCfgSaved, SaveNvm, ram
<1>7. CASE Store
  <2>1. UNCHANGED <<Nvm, crc, NvmHandle, touched, NvmNotifyFlags>>
    BY <1>7 DEF Store, ram
  <2>2. MacState' = MacState \/ MacState = "idle"
    BY <1>7 DEF Store, Stops, LoRaMacIsBusy
  <2> QED
    BY <2>1, <2>2 DEF HandledInv
<1>8. CASE WriteBuffer \/ Skip \/ Program
  BY <1>8, <1>n DEF WriteBuffer, Skip, Program, ram
<1>9. CASE Stored
  <2>1. UNCHANGED <<Nvm, crc, NvmHandle, touched>> /\ NvmNotifyFlags' = {}
    BY <1>9 DEF Stored, ram
  <2>2. MacState = "stopped"
    BY <1>9 DEF Stored, PhaseInv
  <2> QED
    BY <2>1, <2>2 DEF HandledInv
<1>10. CASE LosesPower
  BY <1>10 DEF LosesPower, Boots, HandledInv
<1> QED
  BY <1>1, <1>2, <1>3, <1>4, <1>5, <1>6, <1>7, <1>8, <1>9, <1>10
     DEF SessionNext, MainSteps, Ends, Stores

LEMMA PastStep ==
  TypeInv /\ PhaseInv /\ HandledInv /\ PastInv /\ [SessionNext]_allVars => PastInv'
<1> SUFFICES ASSUME TypeInv, PhaseInv, HandledInv, PastInv, [SessionNext]_allVars
             PROVE  PastInv'
  OBVIOUS
<1>n. ASSUME UNCHANGED <<crc, NvmHandle, NvmNotifyFlags, stored, pc, next>> PROVE PastInv'
  BY <1>n DEF PastInv
<1>1. CASE Unchanged \/ Save \/ ForgetChanges \/ NoRequest \/ CheckDevCfg \/ CopyDevCfg
           \/ NfcSets \/ LeaveRefused \/ UNCHANGED allVars
  BY <1>1, <1>n DEF Unchanged, Save, ForgetChanges, NoRequest, CheckDevCfg, CopyDevCfg,
     NfcSets, LeaveRefused, Commands, vars, ram, flash, allVars
<1>2. CASE ApplyChanges \/ NfcLeaves
  BY <1>2 DEF ApplyChanges, NfcLeaves, MibSet, PastInv
<1>3. CASE JoinOtaa \/ JoinAbp \/ Send
  BY <1>3 DEF JoinOtaa, JoinAbp, Send, Request, Touch, PastInv
<1>4. CASE Waits
  BY <1>4 DEF Waits, ProcessBusy, PastInv
<1>5. CASE Ends
  BY <1>5, EndsDone DEF ProcessDone, PastInv
<1>6. CASE LeaveDevCfg \/ DevCfgSaved
  BY <1>6 DEF LeaveDevCfg, DevCfgSaved, SaveNvm, PastInv
<1>7. CASE Store
  <2>1. pc' = "loop" \/ next' = 1
    BY <1>7 DEF Store
  <2> QED
    BY <2>1 DEF PastInv
<1>8. CASE WriteBuffer
  BY <1>8 DEF WriteBuffer, PastInv, ram
<1>9. CASE Skip
  <2>1. /\ UNCHANGED <<crc, NvmHandle, NvmNotifyFlags, stored>> /\ next' = next + 1
        /\ pc = "unlock" /\ Groups[next] \notin NvmNotifyFlags
    BY <1>9 DEF Skip, Current, ram, flash
  <2>2. \A i \in 1 .. next' - 1 : i \in 1 .. next - 1 \/ i = next
    BY <2>1, Numbers, Bounds
  <2> QED
    BY <2>1, <2>2 DEF PastInv
<1>10. CASE Program
  <2>1. /\ UNCHANGED <<Nvm, crc, NvmHandle, NvmNotifyFlags>> /\ next' = next + 1
        /\ pc = "program" /\ next <= Len(Groups) /\ NvmNotifyFlags # {}
        /\ stored' = [stored EXCEPT ![Current] = Written]
    BY <1>10 DEF Program, PhaseInv, ram
  <2>2. Current \in Group /\ Current = Groups[next]
    BY <2>1, CurrentGroup DEF Current
  <2>3. ~NvmHandle => stored'[Current] = crc[Current]
    BY <2>1, <2>2 DEF HandledInv, Written, TypeInv
  <2>4. \A g \in Group : g # Current => stored'[g] = stored[g]
    BY <2>1, <2>2 DEF TypeInv
  <2>5. ASSUME NEW i \in 1 .. next' - 1, Groups[i] \in NvmNotifyFlags, ~NvmHandle
        PROVE  stored'[Groups[i]] = crc[Groups[i]]
    <3>1. CASE Groups[i] = Current
      BY <2>3, <2>5, <3>1
    <3>2. CASE Groups[i] # Current
      <4>1. i \in 1 .. next - 1
        BY <2>1, <2>2, <2>5, <3>2, Numbers, Bounds
      <4>2. Groups[i] \in Group
        BY <2>5 DEF TypeInv
      <4> QED
        BY <2>1, <2>4, <2>5, <3>2, <4>1, <4>2 DEF PastInv
    <3> QED
      BY <3>1, <3>2
  <2> QED
    BY <2>1, <2>5 DEF PastInv
<1>11. CASE Stored
  BY <1>11 DEF Stored, PastInv
<1>12. CASE LosesPower
  BY <1>12 DEF LosesPower, Boots, PastInv
<1> QED
  BY <1>1, <1>2, <1>3, <1>4, <1>5, <1>6, <1>7, <1>8, <1>9, <1>10, <1>11, <1>12
     DEF SessionNext, MainSteps, Ends, Stores

(* Flags are cleared with the last group that was written, and by a reset. *)
LEMMA ServedStep ==
  ASSUME TypeInv, PhaseInv, PastInv, [SessionNext]_allVars,
         NEW g \in NvmNotifyFlags \ NvmNotifyFlags'
  PROVE  stored'[g] = crc'[g] \/ NvmHandle'
<1>1. CASE Stored
  <2>1. /\ UNCHANGED <<crc, stored, NvmHandle>>
        /\ pc = "unlock" /\ next > Len(Groups)
    BY <1>1 DEF Stored, ram, flash
  <2>2. PICK i \in 1 .. Len(Groups) : Groups[i] = g
    BY DEF TypeInv, Group
  <2>3. i \in 1 .. next - 1
    BY <2>1, Numbers, Bounds
  <2> QED
    BY <2>1, <2>2, <2>3 DEF PastInv
<1>2. CASE LosesPower
  BY <1>2 DEF LosesPower, Boots
<1>3. CASE Ends
  BY <1>3, EndsDone DEF ProcessDone, PhaseInv
<1>4. CASE Unchanged \/ Save \/ ForgetChanges \/ NoRequest \/ CheckDevCfg \/ CopyDevCfg
           \/ NfcSets \/ LeaveRefused \/ UNCHANGED allVars
  BY <1>4 DEF Unchanged, Save, ForgetChanges, NoRequest, CheckDevCfg, CopyDevCfg,
     NfcSets, LeaveRefused, Commands, vars, allVars
<1>5. CASE ApplyChanges \/ NfcLeaves \/ JoinOtaa \/ JoinAbp \/ Send \/ Waits
  BY <1>5 DEF ApplyChanges, NfcLeaves, MibSet, JoinOtaa, JoinAbp, Send, Request, Touch,
     Waits, ProcessBusy
<1>6. CASE LeaveDevCfg \/ DevCfgSaved \/ Store \/ WriteBuffer \/ Skip \/ Program
  BY <1>6 DEF LeaveDevCfg, DevCfgSaved, SaveNvm, Store, WriteBuffer, Skip, Program
<1> QED
  BY <1>1, <1>2, <1>3, <1>4, <1>5, <1>6 DEF SessionNext, MainSteps, Ends, Stores

(* When main sleeps and nothing was changed since the last exchange, the   *)
(* EEPROM has no group of an older context: each is the one of the RAM, or *)
(* its CRC tells that it is bad (NvmDataMgmt.c:49-145, LoRaMac.c:1593).    *)
NeverOutdated ==
  Looping /\ ~NvmHandle /\ ~touched => \A g \in Group : stored[g] \in {Nvm[g], Bad}

LEMMA StoredContext ==
  ASSUME IInv, HandledInv
  PROVE  pc = "loop" /\ MacState = "idle" /\ ~NvmHandle /\ ~touched =>
           \A g \in Group : stored[g] \in {Nvm[g], Bad}
<1> SUFFICES ASSUME pc = "loop", MacState = "idle", ~NvmHandle, ~touched, NEW g \in Group
             PROVE  stored[g] \in {Nvm[g], Bad}
  OBVIOUS
<1>1. crc = Nvm
  BY DEF HandledInv
<1>2. crc[g] # NoCrc
  BY <1>1, Distinguished, TypeContext DEF IInv, Context
<1>3. ~Pending(g)
  BY DEF IInv, PhaseInv, Pending
<1> QED
  BY <1>1, <1>2, <1>3 DEF IInv, StoreInv

-----------------------------------------------------------------------------
(* The invariant, and what follows                                         *)

LEMMA InvInit == SessionInit => IInv
<1> SUFFICES ASSUME SessionInit PROVE IInv
  OBVIOUS
<1>1. TypeInv
  BY TypeInit
<1>2. Nvm = FromDevCfg(Fresh, Provisioned) /\ Provisioned \in Config /\ Provisioned # Bad
  BY DefaultsType, Distinguished DEF SessionInit
<1>3. /\ AddrOf(Nvm) = Provisioned.addr /\ Keys(Nvm) = Provisioned.skeys
      /\ Act(Nvm) # "OTAA"
  BY <1>2, FreshContext, FromDevCfgFields
<1>4. Provisioned.addr = 0 /\ Provisioned.skeys = 0
  BY DEF Provisioned, Defaults
<1>5. PhaseInv
  BY DEF SessionInit, PhaseInv
<1>6. WholeInv
  BY <1>3, <1>4 DEF SessionInit, WholeInv
<1>7. NoCrcs /\ ~Restorable(stored)
  BY GroupNames DEF SessionInit, NoCrcs, Restorable
<1>8. StoreInv
  BY <1>7 DEF StoreInv, SessionInit, NoCrcs
<1>9. KeysInv
  BY <1>2, <1>3, <1>4, <1>7 DEF KeysInv, SessionInit
<1>10. FramesInv
  BY <1>7 DEF FramesInv, SessionInit
<1>11. RateInv
  BY <1>2, <1>7, FreshContext, FromDevCfgFields DEF RateInv
<1>12. SyncInv
  BY DEF SyncInv, SessionInit
<1> QED
  BY <1>1, <1>5, <1>6, <1>8, <1>9, <1>10, <1>11, <1>12 DEF IInv

LEMMA InvStep == IInv /\ [SessionNext]_allVars => IInv'
<1> SUFFICES ASSUME IInv, [SessionNext]_allVars PROVE IInv'
  OBVIOUS
<1>1. TypeInv' /\ PhaseInv' /\ WholeInv' /\ StoreInv'
  BY TypeStep, PhaseStep, WholeStep, StoreStep DEF IInv
<1>2. ASSUME Untroubled' PROVE KeysInv' /\ FramesInv'
  <2>1. Untroubled
    BY <1>2, Troubles DEF IInv
  <2> QED
    BY <1>2, <2>1, KeysStep, FramesStep DEF IInv
<1>3. RateInv' /\ SyncInv'
  BY RateStep, SyncStep DEF IInv
<1> QED
  BY <1>1, <1>2, <1>3 DEF IInv

THEOREM Invariant == SessionSpec => []IInv
<1> QED
  BY InvInit, InvStep, PTL DEF SessionSpec

(* The context, its CRCs and what is stored keep their types through joins, *)
(* restarts and restores.                                                  *)
THEOREM TypeCorrect == SessionSpec => []SessionTypeOK
<1>1. IInv => SessionTypeOK
  BY DEF IInv, TypeInv
<1> QED
  BY <1>1, Invariant, PTL

(* A device that is activated by a join has the address and the keys of    *)
(* one session, wherever the power went.                                   *)
THEOREM SessionIsWhole == SessionSpec => []SessionWhole
<1>1. IInv => SessionWhole
  BY DEF IInv, WholeInv, SessionWhole, AddrOf, Keys
<1> QED
  BY <1>1, Invariant, PTL

(* ... and it is the session of the network.                               *)
THEOREM SessionIsCurrent == SessionSpec => []SessionIsServers
<1>1. IInv => SessionIsServers
  BY DEF IInv, KeysInv, Untroubled, SessionIsServers, Act, Keys
<1> QED
  BY <1>1, Invariant, PTL

(* No frame counter is used twice with the same keys, however often the    *)
(* device restarts between exchanges.                                      *)
THEOREM CountersAreFresh == SessionSpec => []CounterUsedOnce
<1>1. IInv => CounterUsedOnce
  BY DEF IInv, FramesInv, Untroubled, CounterUsedOnce
<1> QED
  BY <1>1, Invariant, PTL

(* Whenever main is about to sleep and no changes are pending, DevCfg and  *)
(* the context agree.                                                      *)
THEOREM CopiesAgree == SessionSpec => []InSync
<1>1. ASSUME IInv, Looping, ~changed, ~overtaken
      PROVE  /\ [ToDevCfg EXCEPT !.sf = DevCfg.sf, !.isOtaa = DevCfg.isOtaa] = DevCfg
             /\ Joined => DevCfg.isOtaa = (Nvm["MacGroup2"].act = "OTAA")
             /\ LRW_ToDatarate(DevCfg.sf) = Nvm["MacGroup2"].default \/ adapted \/ interrupted
  <2>1. Synced
    BY <1>1 DEF IInv, SyncInv, Looping
  <2>2. DevCfg \in Config /\ ToDevCfg \in Config /\ ToDevCfg.addr = AddrOf(Nvm)
        /\ ToDevCfg.skeys = Keys(Nvm) /\ ToDevCfg.key = AppKey(Nvm)
    BY <1>1, TypeContext, ToDevCfgFields DEF IInv
  <2>3. [ToDevCfg EXCEPT !.sf = DevCfg.sf, !.isOtaa = DevCfg.isOtaa] = DevCfg
    BY <2>1, <2>2 DEF Synced, Config
  <2> QED
    BY <2>1, <2>3 DEF Synced, Joined, Act, Default
<1>2. IInv => InSync
  BY <1>1 DEF InSync
<1> QED
  BY <1>2, Invariant, PTL

(* The context differs from what its CRCs were made of only when a change  *)
(* is still to be handled, and what NvmDataMgmtStore is past is written.   *)
THEOREM ChangesAreHandled == SessionSpec => [](HandledInv /\ PastInv)
<1>1. SessionInit => HandledInv /\ PastInv
  BY DEF SessionInit, HandledInv, PastInv
<1>2. IInv /\ HandledInv /\ PastInv /\ [SessionNext]_allVars => (HandledInv /\ PastInv)'
  BY HandledStep, PastStep DEF IInv
<1> QED
  BY <1>1, <1>2, Invariant, PTL DEF SessionSpec

(* The EEPROM never has an outdated group while the device sleeps.         *)
THEOREM StoredIsCurrent == SessionSpec => []NeverOutdated
<1>1. IInv /\ HandledInv => NeverOutdated
  BY StoredContext DEF NeverOutdated, Looping, LoRaMacIsBusy
<1> QED
  BY <1>1, Invariant, ChangesAreHandled, PTL

(* Of a context whose changes may be taken back, too, a flag is dropped    *)
(* only when its group was written, or there are changes again.            *)
THEOREM FlagsServed == SessionSpec => FlagsAreServed
<1>1. IInv /\ PastInv /\ [SessionNext]_allVars =>
        [\A g \in NvmNotifyFlags \ NvmNotifyFlags' :
           stored'[g] = crc'[g] \/ g \in missed' \/ NvmHandle']_vars
  BY ServedStep DEF IInv
<1> QED
  BY <1>1, Invariant, ChangesAreHandled, PTL DEF SessionSpec, FlagsAreServed
=============================================================================
