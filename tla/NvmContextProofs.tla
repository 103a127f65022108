-------------------------- MODULE NvmContextProofs --------------------------
(***************************************************************************)
(* What NvmContext's run finds for three groups, proved for every number   *)
(* of groups and of changes: the EEPROM has the context of the RAM when    *)
(* nothing happens.                                                        *)
(***************************************************************************)
EXTENDS NvmContext, TLAPS

(* A group that NvmDataMgmtStore has still to write.                       *)
Pending(g) ==
  /\ g \in NvmNotifyFlags
  /\ \/ pc \in {"save", "store"}
     \/ pc \in {"unlock", "program"} /\ \E i \in next .. Len(Groups) : Groups[i] = g

(* Where main is tells the flags and the state of the MAC.                 *)
PhaseInv ==
  /\ pc = "loop" => NvmNotifyFlags = {}
  /\ pc = "save" => MacState = "idle"
  /\ pc = "store" /\ NvmNotifyFlags # {} => MacState = "idle"
  /\ pc = "program" => next <= Len(Groups)
  /\ pc \in {"unlock", "program"} => MacState = "stopped"
  /\ pc # "loop" /\ MacState # "busy" => ~touched

(* The CRCs in RAM are never ahead of the contents, and level with them    *)
(* once the changes were handled.                                          *)
CrcInv ==
  /\ \A g \in Group : crc[g] = NoCrc \/ crc[g] <= Nvm[g]
  /\ ~NvmHandle /\ ~touched /\ MacState # "busy" => \A g \in Group : crc[g] = Nvm[g]

(* What is neither to be written nor was refused is in the EEPROM as the   *)
(* CRC has it, or was changed since.                                       *)
StoredInv ==
  \A g \in Group \ missed :
    \/ Pending(g)
    \/ stored[g] = crc[g]
    \/ crc[g] = NoCrc
    \/ crc[g] < Nvm[g]

IInv == TypeOK /\ PhaseInv /\ CrcInv /\ StoredInv

LEMMA GroupsType == Len(Groups) \in Nat \ {0} /\ Bad \notin Nat /\ NoCrc \notin Nat
  BY NvmAssumption DEF NvmAssumption

-----------------------------------------------------------------------------
(* Type correctness                                                        *)

LEMMA ChangedType ==
  ASSUME TypeOK, NEW new \in Changed
  PROVE  /\ new \in [Group -> Nat]
         /\ \A g \in Group : new[g] >= Nvm[g]
<1>1. PICK S \in SUBSET Group :
        new = [g \in Group |-> IF g \in S THEN Nvm[g] + 1 ELSE Nvm[g]]
  BY DEF Changed
<1>2. \A g \in Group : Nvm[g] \in Nat
  BY DEF TypeOK
<1> QED
  BY <1>1, <1>2

LEMMA CurrentType ==
  ASSUME TypeOK, next <= Len(Groups)
  PROVE  Current \in Group
  BY DEF TypeOK, Current, Group

LEMMA BootsType ==
  ASSUME TypeOK, stored' \in [Group -> Nat \cup {Bad}], Boots(Restored(Zero))
  PROVE  TypeOK'
<1>1. Zero \in [Group -> Nat]
  BY DEF Zero
<1>2. ASSUME Restorable(stored') PROVE stored' \in [Group -> Nat]
  BY <1>2 DEF Restorable
<1>3. Nvm' \in [Group -> Nat] /\ crc' \in [Group -> Nat \cup {NoCrc}]
  BY <1>1, <1>2 DEF Boots, Restored, TypeOK
<1>4. next' \in 1 .. Len(Groups) + 1
  BY GroupsType DEF Boots
<1> QED
  BY <1>3, <1>4 DEF Boots, TypeOK

LEMMA TypeInit == Init => TypeOK
<1> SUFFICES ASSUME Init PROVE TypeOK
  OBVIOUS
<1>1. next \in 1 .. Len(Groups) + 1
  BY GroupsType DEF Init
<1>2. /\ Nvm \in [Group -> Nat] /\ crc \in [Group -> Nat \cup {NoCrc}]
      /\ stored \in [Group -> Nat \cup {Bad}]
  BY DEF Init
<1> QED
  BY <1>1, <1>2 DEF Init, TypeOK

LEMMA TypeStep == TypeOK /\ PhaseInv /\ [Next]_vars => TypeOK'
<1> SUFFICES ASSUME TypeOK, PhaseInv, [Next]_vars PROVE TypeOK'
  OBVIOUS
<1>1. ASSUME NEW new \in Changed, MibSet(new) PROVE TypeOK'
  BY <1>1, ChangedType DEF MibSet, TypeOK, flash
<1>2. ASSUME NEW new \in Changed, Request(new) PROVE TypeOK'
  BY <1>2, ChangedType DEF Request, TypeOK, flash
<1>15. ASSUME NEW new \in Changed, Touch(new) PROVE TypeOK'
  BY <1>15, ChangedType DEF Touch, TypeOK, flash
<1>3. ASSUME NEW new \in Changed, ProcessBusy(new) PROVE TypeOK'
  BY <1>3, ChangedType DEF ProcessBusy, TypeOK, flash
<1>4. ASSUME NEW new \in Changed, ProcessDone(new) PROVE TypeOK'
  BY <1>4, ChangedType DEF ProcessDone, Outdated, TypeOK, flash
<1>5. CASE SaveNvm
  BY <1>5 DEF SaveNvm, TypeOK, ram, flash
<1>6. CASE Store
  BY <1>6 DEF Store, TypeOK, ram, flash
<1>7. CASE WriteBuffer
  BY <1>7 DEF WriteBuffer, TypeOK, ram
<1>8. CASE Skip
  BY <1>8 DEF Skip, TypeOK, ram, flash
<1>9. CASE Program
  <2>1. next \in 1 .. Len(Groups) /\ Current \in Group
    BY <1>9, CurrentType DEF Program, PhaseInv, TypeOK
  <2>2. Written \in Nat \cup {Bad}
    BY <2>1 DEF Written, TypeOK
  <2>3. next' \in 1 .. Len(Groups) + 1
    BY <1>9, <2>1, GroupsType DEF Program
  <2>4. stored' \in [Group -> Nat \cup {Bad}] /\ missed' \subseteq Group
    BY <1>9, <2>1, <2>2 DEF Program, TypeOK
  <2> QED
    BY <1>9, <2>3, <2>4 DEF Program, TypeOK, ram
<1>10. CASE Stored
  BY <1>10 DEF Stored, TypeOK, ram, flash
<1>11. CASE NfcLocks
  BY <1>11 DEF NfcLocks, TypeOK, ram
<1>12. CASE PowerLoss /\ Boots(Restored(Zero))
  <2>1. stored' \in [Group -> Nat \cup {Bad}]
    <3>1. CASE stored' = stored
      BY <3>1 DEF TypeOK
    <3>2. CASE pc = "program" /\ \E v \in {Bad, Written} : stored' = [stored EXCEPT ![Current] = v]
      <4>1. Current \in Group /\ Written \in Nat \cup {Bad}
        BY <3>2, CurrentType DEF PhaseInv, Written, TypeOK
      <4> QED
        BY <3>2, <4>1 DEF TypeOK
    <3> QED
      BY <1>12, <3>1, <3>2 DEF PowerLoss
  <2> QED
    BY <1>12, <2>1, BootsType DEF PowerLoss
<1>13. CASE FactoryReset /\ Boots(Restored(Zero))
  <2>1. stored' \in [Group -> Nat \cup {Bad}]
    BY <1>13 DEF FactoryReset, TypeOK
  <2> QED
    BY <1>13, <2>1, BootsType DEF FactoryReset
<1>14. CASE UNCHANGED vars
  BY <1>14 DEF vars, ram, flash, TypeOK
<1> QED
  BY <1>1, <1>2, <1>3, <1>4, <1>5, <1>6, <1>7, <1>8, <1>9, <1>10, <1>11, <1>12, <1>13, <1>14, <1>15
     DEF Next, Exchange, Storing

-----------------------------------------------------------------------------
(* The invariant                                                           *)

LEMMA InvInit == Init => IInv
  BY TypeInit DEF Init, IInv, TypeOK, PhaseInv, CrcInv, StoredInv

LEMMA BootsInv ==
  ASSUME TypeOK, stored' \in [Group -> Nat \cup {Bad}], Boots(Restored(Zero))
  PROVE  PhaseInv' /\ CrcInv' /\ StoredInv'
<1>1. PhaseInv'
  BY DEF Boots, PhaseInv
<1>2. CASE Restorable(stored')
  <2>1. \A g \in Group : stored'[g] \in Nat /\ crc'[g] = stored'[g] /\ Nvm'[g] = stored'[g]
    BY <1>2 DEF Boots, Restored, Restorable
  <2> QED
    BY <1>1, <2>1 DEF Boots, CrcInv, StoredInv
<1>3. CASE ~Restorable(stored')
  <2>1. \A g \in Group : crc'[g] = NoCrc
    BY <1>3 DEF Boots, TypeOK
  <2> QED
    BY <1>1, <2>1 DEF Boots, CrcInv, StoredInv
<1> QED
  BY <1>2, <1>3

LEMMA InvStep == IInv /\ [Next]_vars => IInv'
<1> SUFFICES ASSUME IInv, [Next]_vars PROVE IInv'
  OBVIOUS
<1>0. TypeOK /\ PhaseInv /\ CrcInv /\ StoredInv /\ TypeOK'
  BY TypeStep DEF IInv
<1> USE <1>0
<1>1. ASSUME NEW new \in Changed, MibSet(new) PROVE IInv'
  <2>1. new \in [Group -> Nat] /\ \A g \in Group : new[g] >= Nvm[g]
    BY ChangedType
  <2>2. PhaseInv' /\ CrcInv'
    BY <1>1, <2>1 DEF MibSet, PhaseInv, CrcInv, TypeOK, flash
  <2>3. StoredInv'
    BY <1>1, <2>1 DEF MibSet, StoredInv, Pending, TypeOK, flash
  <2> QED
    BY <2>2, <2>3 DEF IInv
<1>2. ASSUME NEW new \in Changed, Request(new) PROVE IInv'
  <2>1. new \in [Group -> Nat] /\ \A g \in Group : new[g] >= Nvm[g]
    BY ChangedType
  <2>2. PhaseInv' /\ CrcInv'
    BY <1>2, <2>1 DEF Request, PhaseInv, CrcInv, TypeOK, flash
  <2>3. StoredInv'
    BY <1>2, <2>1 DEF Request, StoredInv, Pending, TypeOK, flash
  <2> QED
    BY <2>2, <2>3 DEF IInv
<1>15. ASSUME NEW new \in Changed, Touch(new) PROVE IInv'
  <2>1. new \in [Group -> Nat] /\ \A g \in Group : new[g] >= Nvm[g]
    BY ChangedType
  <2>2. PhaseInv' /\ CrcInv'
    BY <1>15, <2>1 DEF Touch, PhaseInv, CrcInv, TypeOK, flash
  <2>3. StoredInv'
    BY <1>15, <2>1 DEF Touch, StoredInv, Pending, TypeOK, flash
  <2> QED
    BY <2>2, <2>3 DEF IInv
<1>3. ASSUME NEW new \in Changed, ProcessBusy(new) PROVE IInv'
  <2>1. new \in [Group -> Nat] /\ \A g \in Group : new[g] >= Nvm[g]
    BY ChangedType
  <2>2. PhaseInv' /\ CrcInv'
    BY <1>3, <2>1 DEF ProcessBusy, PhaseInv, CrcInv, TypeOK, flash
  <2>3. StoredInv'
    BY <1>3, <2>1 DEF ProcessBusy, StoredInv, PhaseInv, Pending, TypeOK, flash
  <2> QED
    BY <2>2, <2>3 DEF IInv
<1>4. ASSUME NEW new \in Changed, ProcessDone(new) PROVE IInv'
  <2>1. new \in [Group -> Nat] /\ \A g \in Group : new[g] >= Nvm[g]
    BY ChangedType
  <2>2. PhaseInv' /\ CrcInv'
    BY <1>4, <2>1 DEF ProcessDone, PhaseInv, CrcInv, TypeOK, flash
  <2>3. ASSUME NEW g \in Group \ missed', ~Pending(g)'
        PROVE  stored'[g] = crc'[g]
    <3>1. crc[g] = new[g]
      BY <1>4, <2>1, <2>3 DEF ProcessDone, Pending, Outdated
    <3>2. crc[g] # NoCrc /\ ~(crc[g] < Nvm[g])
      BY <2>1, <3>1, GroupsType DEF TypeOK
    <3>3. ~Pending(g) /\ g \notin missed
      BY <1>4, <2>3 DEF ProcessDone, Pending, flash
    <3> QED
      BY <1>4, <3>1, <3>2, <3>3 DEF ProcessDone, StoredInv, flash
  <2> QED
    BY <2>2, <2>3 DEF IInv, StoredInv
<1>5. CASE SaveNvm
  BY <1>5 DEF SaveNvm, IInv, PhaseInv, CrcInv, StoredInv, Pending, TypeOK, ram, flash
<1>6. CASE Store
  <2>1. CASE NvmNotifyFlags # {} /\ Stops
    <3>1. PhaseInv' /\ CrcInv'
      BY <1>6, <2>1 DEF Store, Stops, LoRaMacIsBusy, PhaseInv, CrcInv, TypeOK, ram, flash
    <3>2. \A g \in Group : Pending(g) => Pending(g)'
      BY <1>6, <2>1 DEF Store, Pending, Group
    <3> QED
      BY <1>6, <3>1, <3>2 DEF Store, IInv, StoredInv, ram, flash
  <2>2. CASE ~(NvmNotifyFlags # {} /\ Stops)
    <3>1. NvmNotifyFlags = {}
      BY <1>6, <2>2 DEF Store, Stops, LoRaMacIsBusy, PhaseInv
    <3> QED
      BY <1>6, <2>2, <3>1 DEF Store, IInv, PhaseInv, CrcInv, StoredInv, Pending, TypeOK, ram, flash
  <2> QED
    BY <2>1, <2>2
<1>7. CASE WriteBuffer
  BY <1>7 DEF WriteBuffer, IInv, PhaseInv, CrcInv, StoredInv, Pending, TypeOK, ram
<1>8. CASE Skip
  <2>1. PhaseInv' /\ CrcInv'
    BY <1>8 DEF Skip, PhaseInv, CrcInv, TypeOK, ram, flash
  <2>2. \A g \in Group : Pending(g) => Pending(g)'
    BY <1>8 DEF Skip, Pending, Current, TypeOK
  <2> QED
    BY <1>8, <2>1, <2>2 DEF Skip, IInv, StoredInv, ram, flash
<1>9. CASE Program
  <2>1. next \in 1 .. Len(Groups) /\ Current \in Group
    BY <1>9, CurrentType DEF Program, PhaseInv, TypeOK
  <2>2. PhaseInv' /\ CrcInv'
    BY <1>9, <2>1 DEF Program, PhaseInv, CrcInv, TypeOK, ram
  <2>3. ASSUME NEW g \in Group, g # Current, Pending(g) PROVE Pending(g)'
    BY <1>9, <2>1, <2>3 DEF Program, Pending, Current, TypeOK
  <2>4. ASSUME NEW g \in Group \ missed', g # Current
        PROVE  Pending(g)' \/ stored'[g] = crc'[g] \/ crc'[g] = NoCrc \/ crc'[g] < Nvm'[g]
    BY <1>9, <2>1, <2>3, <2>4 DEF Program, StoredInv, TypeOK, ram
  <2>5. ASSUME Current \notin missed'
        PROVE  stored'[Current] = crc'[Current] \/ crc'[Current] = NoCrc \/ crc'[Current] < Nvm'[Current]
    <3>1. unlocked /\ stored'[Current] = Written
      BY <1>9, <2>1, <2>5 DEF Program, TypeOK
    <3> QED
      BY <1>9, <2>1, <3>1 DEF Program, Written, CrcInv, TypeOK, ram
  <2> QED
    BY <1>9, <2>2, <2>4, <2>5 DEF IInv, StoredInv
<1>10. CASE Stored
  <2>1. \A g \in Group : ~Pending(g)
    BY <1>10 DEF Stored, Pending, TypeOK
  <2>2. PhaseInv' /\ CrcInv'
    <3>1. MacState \in {"idle", "stopped", "busy"} /\ MacState' = "idle"
      BY <1>10 DEF Stored, TypeOK
    <3> QED
      BY <1>10, <3>1 DEF Stored, PhaseInv, CrcInv, ram, flash
  <2> QED
    BY <1>10, <2>1, <2>2 DEF Stored, IInv, StoredInv, ram, flash
<1>11. CASE NfcLocks
  BY <1>11 DEF NfcLocks, IInv, PhaseInv, CrcInv, StoredInv, Pending, TypeOK, ram
<1>12. CASE PowerLoss /\ Boots(Restored(Zero))
  BY <1>12, BootsInv DEF PowerLoss, TypeOK, IInv
<1>13. CASE FactoryReset /\ Boots(Restored(Zero))
  BY <1>13, BootsInv DEF FactoryReset, TypeOK, IInv
<1>14. CASE UNCHANGED vars
  BY <1>14 DEF vars, ram, flash, IInv, PhaseInv, CrcInv, StoredInv, Pending, TypeOK
<1> QED
  BY <1>1, <1>2, <1>3, <1>4, <1>5, <1>6, <1>7, <1>8, <1>9, <1>10, <1>11, <1>12, <1>13, <1>14, <1>15
     DEF Next, Exchange, Storing

LEMMA InvQuiet == IInv => StoredWhenQuiet
<1> SUFFICES ASSUME IInv, pc = "loop", MacState = "idle", ~NvmHandle, ~touched,
                    NEW g \in Group \ missed
             PROVE  stored[g] = Nvm[g]
  BY DEF StoredWhenQuiet
<1>1. crc[g] = Nvm[g] /\ Nvm[g] \in Nat
  BY DEF IInv, CrcInv, TypeOK
<1>2. ~Pending(g)
  BY DEF Pending
<1> QED
  BY <1>1, <1>2, GroupsType DEF IInv, StoredInv

LEMMA ServedStep ==
  ASSUME IInv, [Next]_vars, NEW g \in NvmNotifyFlags \ NvmNotifyFlags'
  PROVE  stored'[g] = crc'[g] \/ g \in missed' \/ NvmHandle'
<1>0. TypeOK /\ PhaseInv /\ CrcInv /\ StoredInv /\ g \in Group
  BY DEF IInv, TypeOK
<1>1. CASE Stored
  <2>1. ~Pending(g)
    BY <1>0, <1>1 DEF Stored, Pending, TypeOK
  <2>2. CASE NvmHandle
    BY <1>1, <2>2 DEF Stored, ram
  <2>3. CASE ~NvmHandle
    <3>1. crc[g] = Nvm[g] /\ Nvm[g] \in Nat
      BY <1>0, <1>1, <2>3 DEF Stored, PhaseInv, CrcInv, TypeOK
    <3> QED
      BY <1>0, <1>1, <2>1, <3>1, GroupsType DEF StoredInv, Stored, flash, ram
  <2> QED
    BY <2>2, <2>3
<1>2. CASE Boots(Restored(Zero))
  BY <1>2 DEF Boots
<1>3. CASE Exchange
  <2>1. ASSUME NEW new \in Changed, ProcessDone(new) PROVE FALSE
    BY <1>0, <2>1 DEF ProcessDone, PhaseInv
  <2>2. NvmNotifyFlags' = NvmNotifyFlags
    BY <1>3, <2>1 DEF Exchange, MibSet, Request, Touch, ProcessBusy
  <2> QED
    BY <2>2
<1>4. CASE SaveNvm \/ Store \/ WriteBuffer \/ Skip \/ Program \/ NfcLocks \/ UNCHANGED vars
  BY <1>4 DEF SaveNvm, Store, WriteBuffer, Skip, Program, NfcLocks, vars
<1> QED
  BY <1>1, <1>2, <1>3, <1>4 DEF Next, Storing

-----------------------------------------------------------------------------
(* The invariant holds in every reachable state.                           *)
THEOREM Invariant == Spec => []IInv
<1>1. Init => IInv
  BY InvInit
<1>2. IInv /\ [Next]_vars => IInv'
  BY InvStep
<1> QED
  BY <1>1, <1>2, PTL DEF Spec

(* The variables of the MAC's context keep their types through stores,     *)
(* resets and restores.                                                    *)
THEOREM TypeCorrect == Spec => []TypeOK
<1>1. IInv => TypeOK
  BY DEF IInv
<1> QED
  BY <1>1, Invariant, PTL

(* The EEPROM has the whole context whenever main may sleep and nothing    *)
(* was changed since the last exchange, refused writes excepted.           *)
THEOREM ContextIsStored == Spec => []StoredWhenQuiet
  BY InvQuiet, Invariant, PTL

(* No event's flags are overwritten or dropped before they were stored.    *)
THEOREM FlagsServed == Spec => FlagsAreServed
<1>1. IInv /\ [Next]_vars => [\A g \in NvmNotifyFlags \ NvmNotifyFlags' :
        stored'[g] = crc'[g] \/ g \in missed' \/ NvmHandle']_vars
  BY ServedStep
<1> QED
  BY <1>1, Invariant, PTL DEF Spec, FlagsAreServed
=============================================================================
