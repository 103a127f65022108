-------------------------- MODULE EepromStoreProofs -------------------------
(***************************************************************************)
(* Proofs about EepromStore, for every size of the words and of the room   *)
(* for the configuration, and all configurations and passwords.            *)
(***************************************************************************)
EXTENDS EepromStore, SequenceTheorems, TLAPS

(***************************************************************************)
(* The inductive invariant                                                 *)
(***************************************************************************)

AnyPassword == Passwords \cup {DefaultPassword}

(* What may be at an address, with some configurations saved: no word that *)
(* was not meant for it, unless it is erased.                              *)
Proper(configs, a, w) ==
  /\ a = EEPROM_PW => w \in {0} \cup AnyPassword
  /\ a = EEPROM_PW_COMPLEMENT => w \in {0} \cup {MaxWord - p : p \in AnyPassword}
  /\ a = EEPROM_APP => w \in {0} \cup {CRC[c] : c \in configs}
  /\ a > EEPROM_APP_LEN => w \in Words

Client == {"main", "nfc"}
Touches(op) == op.op \in {"erase", "program", "write"}
Written(op) == op.op \in {"program", "write"}

(* What each of the two has to do: main keeps off the password, and the    *)
(* interrupt off the configuration, unless it resets the device.           *)
Meant(configs, op) == Written(op) => Proper(configs, op.at, op.word)
MainOp(op) == op.op # "reset" /\ (Touches(op) => op.at >= EEPROM_APP)
PasswordOp(op) == op.op # "reset" /\ (Touches(op) => op.at < EEPROM_APP)

Resetting == todo["nfc"] # <<>> /\ todo["nfc"][Len(todo["nfc"])].op = "reset"

ValueInv ==
  /\ saved \subseteq Configs
  /\ \A a \in Address : Proper(saved, a, ee[a])
  /\ \A c \in Client : \A i \in 1 .. Len(todo[c]) : Meant(saved, todo[c][i])
  /\ \A i \in 1 .. Len(todo["main"]) : MainOp(todo["main"][i])
  /\ \A i \in 1 .. Len(todo["nfc"]) : todo["nfc"][i].op # "write"
  /\ ~Resetting => \A i \in 1 .. Len(todo["nfc"]) : PasswordOp(todo["nfc"][i])

LockInv == /\ held => Programming("main")
           /\ Writing => pc \in {"boot save", "save"}
           /\ pc = "boot" => todo["nfc"] = <<>>

(* Where main is in EEPROM_Save of a configuration of n words: the         *)
(* operations from which on the EEPROM is unlocked, until it is locked.    *)
Unlocked(k, n) ==
  \/ k \in 2 .. n + 2 \/ k \in n + 4 .. n + 5
  \/ k \in n + 7 .. n + 8 \/ k \in n + 10 .. 2 * n + 10
SaveAt == 2 * Len(lastSaved) + 11 - Len(todo["main"])

(* EEPROM_Save is under way or was the last to write the configuration,    *)
(* and the interrupt did not come between.                                 *)
Undisturbed ==
  /\ pc \in {"boot save", "save"} \/ (pc = "loop" /\ ~changed)
  /\ ~clash /\ ~Resetting

SaveInv ==
  Undisturbed =>
    LET n == Len(lastSaved) IN
    /\ SaveAt >= 1
    /\ \A i \in 1 .. Len(todo["main"]) : todo["main"][i] = EEPROM_Save(lastSaved)[SaveAt - 1 + i]
    /\ Writing => /\ todo["nfc"] = <<>>
                  /\ Unlocked(SaveAt, n) => ~pelock
                  /\ SaveAt > 2 => ~wrperr
    /\ SaveAt > n + 4 => ee[EEPROM_APP] = CRC[lastSaved]
    /\ SaveAt > n + 7 => ee[EEPROM_APP_LEN] = n
    /\ \A j \in 1 .. n : SaveAt > n + 9 + j => ee[Msg(j)] = lastSaved[j]

(* What EEPROM_Save saves is DevCfg, unless that changes after.            *)
LateInv ==
  (pc = "save" \/ (pc = "loop" /\ ~changed)) /\ ~late => DevCfg = lastSaved

(* Where the interrupt is in HW_ChangePW, the last it does.                *)
ChangeAt == 13 - Len(todo["nfc"])

ChangeInv ==
  told # None /\ ~Resetting =>
    /\ todo["nfc"] # <<>> => ~Writing
    /\ Len(todo["nfc"]) <= 24
    /\ \A i \in 1 .. Len(todo["nfc"]) :
         todo["nfc"][i] =
           IF ChangeAt - 1 + i >= 1 THEN HW_ChangePW(told)[ChangeAt - 1 + i]
           ELSE HW_ChangePW(DefaultPassword)[ChangeAt - 1 + i + 12]
    /\ ChangeAt \in {2, 3, 5, 6, 8, 9, 11, 12} => ~pelock
    /\ ChangeAt \in 3 .. 12 => ~wrperr
    /\ ChangeAt > 8 => ee[EEPROM_PW] = told
    /\ ChangeAt > 11 => ee[EEPROM_PW_COMPLEMENT] = MaxWord - told

IInv == TypeOK /\ ValueInv /\ LockInv /\ SaveInv /\ LateInv /\ ChangeInv

-----------------------------------------------------------------------------
(***************************************************************************)
(* The operations of each function                                         *)
(***************************************************************************)

LEMMA Constants ==
  /\ MaxWord \in Nat /\ MaxWord # 0 /\ Payload \in Nat /\ Payload # 0
  /\ AnyPassword \subseteq 0 .. MaxWord
  /\ Defaults \in Configs /\ DefaultPassword \in AnyPassword
  /\ Passwords \subseteq AnyPassword
  /\ None \notin Passwords
BY EepromAssumption DEF AnyPassword

(* A configuration is a message, and not longer than the room for it.      *)
LEMMA ConfigIsMessage ==
  ASSUME NEW c \in Configs
  PROVE  /\ c \in Seq(Words) /\ Len(c) \in 1 .. Payload /\ Len(c) \in Nat
         /\ c \in Messages /\ CRC[c] \in Nat
         /\ \A i \in 1 .. Len(c) : c[i] \in Words /\ c[i] \in Nat
<1>1. c \in Seq(0 .. MaxWord) /\ Len(c) \in 1 .. Payload
  BY EepromAssumption
<1>2. Len(c) \in Nat /\ DOMAIN c = 1 .. Len(c) /\ c \in [1 .. Len(c) -> 0 .. MaxWord]
  BY <1>1, LenProperties
<1>3. \A i \in 1 .. Len(c) : c[i] \in Words /\ c[i] \in Nat
  BY <1>1, <1>2, Constants DEF Words, Range
<1>4. c \in [1 .. Len(c) -> Words]
  BY <1>2, <1>3
<1>5. c \in Messages
  BY <1>1, <1>4 DEF Messages
<1>6. CRC[c] \in Nat
  BY <1>5, EepromAssumption
<1>7. c \in Seq(Words)
  BY <1>2, <1>4
<1> QED
  BY <1>1, <1>2, <1>3, <1>5, <1>6, <1>7

LEMMA WordsAreNat == Words \subseteq Nat
<1>1. \A c \in Configs : Range(c) \subseteq Nat
  <2> TAKE c \in Configs
  <2>1. c \in Seq(0 .. MaxWord)
    BY EepromAssumption
  <2>2. DOMAIN c = 1 .. Len(c)
    BY <2>1, LenProperties
  <2> QED
    BY <2>2, ConfigIsMessage DEF Range
<1> QED
  BY <1>1 DEF Words

LEMMA Addresses ==
  /\ EEPROM_PW \in Address /\ EEPROM_PW_COMPLEMENT \in Address
  /\ EEPROM_APP \in Address /\ EEPROM_APP_LEN \in Address
  /\ \A i \in 1 .. Payload : Msg(i) \in Address
  /\ Address \subseteq Nat
BY Constants DEF Address, EEPROM_PW, EEPROM_PW_COMPLEMENT, EEPROM_APP, EEPROM_APP_LEN, Msg

LEMMA OpTypes ==
  /\ Unlock \in Op /\ Lock \in Op /\ SystemReset \in Op
  /\ \A a \in Address : Erase(a) \in Op
  /\ \A a \in Address, w \in Nat : Program(a, w) \in Op /\ Write(a, w) \in Op
<1>1. 0 \in Address
  BY Addresses DEF EEPROM_PW
<1> QED
  BY <1>1 DEF Op, Unlock, Lock, SystemReset, Erase, Program, Write

LEMMA Concat ==
  ASSUME NEW s \in Seq(Op), NEW t \in Seq(Op)
  PROVE  /\ s \o t \in Seq(Op) /\ Len(s \o t) = Len(s) + Len(t)
         /\ \A k \in 1 .. Len(s) : (s \o t)[k] = s[k]
         /\ \A k \in Len(s) + 1 .. Len(s) + Len(t) : (s \o t)[k] = t[k - Len(s)]
<1>1. \A k \in 1 .. Len(s) + Len(t) : (s \o t)[k] = IF k <= Len(s) THEN s[k] ELSE t[k - Len(s)]
  BY ConcatProperties
<1>2. s \o t \in Seq(Op) /\ Len(s \o t) = Len(s) + Len(t) /\ Len(s) \in Nat /\ Len(t) \in Nat
  BY ConcatProperties
<1> QED
  BY <1>1, <1>2

LEMMA Bracketed ==
  /\ \A a \in Address : /\ HW_EraseEEPROM(a) \in Seq(Op) /\ Len(HW_EraseEEPROM(a)) = 3
                        /\ HW_EraseEEPROM(a)[1] = Unlock /\ HW_EraseEEPROM(a)[2] = Erase(a)
                        /\ HW_EraseEEPROM(a)[3] = Lock
  /\ \A a \in Address, w \in Nat :
       /\ HW_ProgramEEPROM(a, w) \in Seq(Op) /\ Len(HW_ProgramEEPROM(a, w)) = 3
       /\ HW_ProgramEEPROM(a, w)[1] = Unlock /\ HW_ProgramEEPROM(a, w)[2] = Program(a, w)
       /\ HW_ProgramEEPROM(a, w)[3] = Lock
BY OpTypes DEF HW_EraseEEPROM, HW_ProgramEEPROM

(* What the operations of HW_ChangePW are, one after the other.            *)
ChangeOp(p, k) ==
  CASE k \in {1, 4, 7, 10} -> Unlock
    [] k \in {3, 6, 9, 12} -> Lock
    [] k = 2 -> Erase(EEPROM_PW)
    [] k = 5 -> Erase(EEPROM_PW_COMPLEMENT)
    [] k = 8 -> Program(EEPROM_PW, p)
    [] k = 11 -> Program(EEPROM_PW_COMPLEMENT, MaxWord - p)

LEMMA ChangeOps ==
  ASSUME NEW p \in AnyPassword
  PROVE  /\ HW_ChangePW(p) \in Seq(Op) /\ Len(HW_ChangePW(p)) = 12
         /\ \A k \in 1 .. 12 : HW_ChangePW(p)[k] = ChangeOp(p, k)
<1> DEFINE a == HW_EraseEEPROM(EEPROM_PW)
           b == HW_EraseEEPROM(EEPROM_PW_COMPLEMENT)
           c == HW_ProgramEEPROM(EEPROM_PW, p)
           d == HW_ProgramEEPROM(EEPROM_PW_COMPLEMENT, MaxWord - p)
<1>1. p \in Nat /\ MaxWord - p \in Nat
  BY Constants
<1>2. /\ a \in Seq(Op) /\ Len(a) = 3
      /\ a[1] = Unlock /\ a[2] = Erase(EEPROM_PW) /\ a[3] = Lock
      /\ b \in Seq(Op) /\ Len(b) = 3
      /\ b[1] = Unlock /\ b[2] = Erase(EEPROM_PW_COMPLEMENT) /\ b[3] = Lock
      /\ c \in Seq(Op) /\ Len(c) = 3
      /\ c[1] = Unlock /\ c[2] = Program(EEPROM_PW, p) /\ c[3] = Lock
      /\ d \in Seq(Op) /\ Len(d) = 3
      /\ d[1] = Unlock /\ d[2] = Program(EEPROM_PW_COMPLEMENT, MaxWord - p) /\ d[3] = Lock
  BY <1>1, Addresses, Bracketed
<1>3. HW_ChangePW(p) = ((a \o b) \o c) \o d
  BY DEF HW_ChangePW
<1> HIDE DEF a, b, c, d
<1>4. a \o b \in Seq(Op) /\ Len(a \o b) = 6
      /\ (\A k \in 1 .. 3 : (a \o b)[k] = a[k]) /\ (\A k \in 4 .. 6 : (a \o b)[k] = b[k - 3])
  <2>1. /\ a \o b \in Seq(Op) /\ Len(a \o b) = Len(a) + Len(b)
        /\ \A k \in 1 .. Len(a) : (a \o b)[k] = a[k]
        /\ \A k \in Len(a) + 1 .. Len(a) + Len(b) : (a \o b)[k] = b[k - Len(a)]
    BY <1>2, Concat, Zenon
  <2> QED
    BY <1>2, <2>1
<1>5. (a \o b) \o c \in Seq(Op) /\ Len((a \o b) \o c) = 9
      /\ (\A k \in 1 .. 6 : ((a \o b) \o c)[k] = (a \o b)[k])
      /\ (\A k \in 7 .. 9 : ((a \o b) \o c)[k] = c[k - 6])
  <2>1. /\ (a \o b) \o c \in Seq(Op) /\ Len(a \o b \o c) = Len(a \o b) + Len(c)
        /\ \A k \in 1 .. Len(a \o b) : (a \o b \o c)[k] = (a \o b)[k]
        /\ \A k \in Len(a \o b) + 1 .. Len(a \o b) + Len(c) : (a \o b \o c)[k] = c[k - Len(a \o b)]
    BY <1>2, <1>4, Concat, Zenon
  <2> QED
    BY <1>2, <1>4, <2>1
<1>6. HW_ChangePW(p) \in Seq(Op) /\ Len(HW_ChangePW(p)) = 12
      /\ (\A k \in 1 .. 9 : HW_ChangePW(p)[k] = ((a \o b) \o c)[k])
      /\ (\A k \in 10 .. 12 : HW_ChangePW(p)[k] = d[k - 9])
  BY <1>2, <1>3, <1>5, Concat
<1>7. /\ HW_ChangePW(p)[1] = Unlock /\ HW_ChangePW(p)[2] = Erase(EEPROM_PW)
      /\ HW_ChangePW(p)[3] = Lock /\ HW_ChangePW(p)[4] = Unlock
      /\ HW_ChangePW(p)[5] = Erase(EEPROM_PW_COMPLEMENT) /\ HW_ChangePW(p)[6] = Lock
  BY <1>2, <1>4, <1>5, <1>6
<1>8. /\ HW_ChangePW(p)[7] = Unlock /\ HW_ChangePW(p)[8] = Program(EEPROM_PW, p)
      /\ HW_ChangePW(p)[9] = Lock /\ HW_ChangePW(p)[10] = Unlock
      /\ HW_ChangePW(p)[11] = Program(EEPROM_PW_COMPLEMENT, MaxWord - p)
      /\ HW_ChangePW(p)[12] = Lock
  BY <1>2, <1>5, <1>6
<1> QED
  BY <1>6, <1>7, <1>8 DEF ChangeOp

LEMMA BracketedRun ==
  ASSUME NEW s \in Seq(Op), NEW n \in Nat, Len(s) = n
  PROVE  /\ <<Unlock>> \o s \o <<Lock>> \in Seq(Op)
         /\ Len(<<Unlock>> \o s \o <<Lock>>) = n + 2
         /\ (<<Unlock>> \o s \o <<Lock>>)[1] = Unlock
         /\ (<<Unlock>> \o s \o <<Lock>>)[n + 2] = Lock
         /\ \A k \in 2 .. n + 1 : (<<Unlock>> \o s \o <<Lock>>)[k] = s[k - 1]
<1> DEFINE u == <<Unlock>> \o s
           v == u \o <<Lock>>
<1>1. <<Unlock>> \in Seq(Op) /\ <<Lock>> \in Seq(Op) /\ Len(<<Unlock>>) = 1 /\ Len(<<Lock>>) = 1
      /\ <<Unlock>>[1] = Unlock /\ <<Lock>>[1] = Lock
  BY OpTypes
<1>2. /\ u \in Seq(Op) /\ Len(u) = 1 + n
      /\ \A k \in 1 .. 1 : u[k] = <<Unlock>>[k]
      /\ \A k \in 1 + 1 .. 1 + n : u[k] = s[k - 1]
  BY <1>1, Concat
<1> HIDE DEF u
<1>3. /\ v \in Seq(Op) /\ Len(v) = (1 + n) + 1
      /\ \A k \in 1 .. 1 + n : v[k] = u[k]
      /\ \A k \in (1 + n) + 1 .. (1 + n) + 1 : v[k] = <<Lock>>[k - (1 + n)]
  BY <1>1, <1>2, Concat
<1> HIDE DEF v
<1>4. Len(v) = n + 2 /\ v[1] = Unlock /\ v[n + 2] = Lock /\ \A k \in 2 .. n + 1 : v[k] = s[k - 1]
  BY <1>1, <1>2, <1>3
<1> QED
  BY <1>3, <1>4 DEF u, v

(* What the operations of EEPROM_Save are, one after the other.            *)
SaveOp(msg, k) ==
  LET n == Len(msg) IN
  CASE k \in {1, n + 3, n + 6, n + 9} -> Unlock
    [] k \in {n + 2, n + 5, n + 8, 2 * n + 10} -> Lock
    [] k \in 2 .. n + 1 -> Erase(Msg(k - 1))
    [] k = n + 4 -> Program(EEPROM_APP, CRC[msg])
    [] k = n + 7 -> Program(EEPROM_APP_LEN, n)
    [] k \in n + 10 .. 2 * n + 9 -> Write(Msg(k - n - 9), msg[k - n - 9])

LEMMA SaveOpAt ==
  ASSUME NEW msg \in Configs, NEW n \in Nat, n = Len(msg)
  PROVE  /\ \A k \in {1, n + 3, n + 6, n + 9} : SaveOp(msg, k) = Unlock
         /\ \A k \in {n + 2, n + 5, n + 8, 2 * n + 10} : SaveOp(msg, k) = Lock
         /\ \A k \in 2 .. n + 1 : SaveOp(msg, k) = Erase(Msg(k - 1))
         /\ SaveOp(msg, n + 4) = Program(EEPROM_APP, CRC[msg])
         /\ SaveOp(msg, n + 7) = Program(EEPROM_APP_LEN, n)
         /\ \A k \in n + 10 .. 2 * n + 9 :
              SaveOp(msg, k) = Write(Msg(k - n - 9), msg[k - n - 9])
<1>0. n \in Nat \ {0}
  BY ConfigIsMessage
<1>1. \A k \in {1, n + 3, n + 6, n + 9} : SaveOp(msg, k) = Unlock
  BY <1>0 DEF SaveOp
<1>2. \A k \in {n + 2, n + 5, n + 8, 2 * n + 10} : SaveOp(msg, k) = Lock
  <2> TAKE k \in {n + 2, n + 5, n + 8, 2 * n + 10}
  <2>1. k \notin {1, n + 3, n + 6, n + 9}
    BY <1>0
  <2> QED
    BY <1>0, <2>1 DEF SaveOp
<1>3. \A k \in 2 .. n + 1 : SaveOp(msg, k) = Erase(Msg(k - 1))
  <2> TAKE k \in 2 .. n + 1
  <2>1. k \notin {1, n + 3, n + 6, n + 9} /\ k \notin {n + 2, n + 5, n + 8, 2 * n + 10}
    BY <1>0
  <2> QED
    BY <1>0, <2>1 DEF SaveOp
<1>4. SaveOp(msg, n + 4) = Program(EEPROM_APP, CRC[msg])
  <2> DEFINE k == n + 4
  <2>1. k \notin {1, n + 3, n + 6, n + 9} /\ k \notin {n + 2, n + 5, n + 8, 2 * n + 10}
        /\ k \notin 2 .. n + 1
    BY <1>0
  <2> QED
    BY <1>0, <2>1 DEF SaveOp
<1>5. SaveOp(msg, n + 7) = Program(EEPROM_APP_LEN, n)
  <2> DEFINE k == n + 7
  <2>1. k \notin {1, n + 3, n + 6, n + 9} /\ k \notin {n + 2, n + 5, n + 8, 2 * n + 10}
        /\ k \notin 2 .. n + 1 /\ k # n + 4
    BY <1>0
  <2> QED
    BY <1>0, <2>1 DEF SaveOp
<1>6. \A k \in n + 10 .. 2 * n + 9 : SaveOp(msg, k) = Write(Msg(k - n - 9), msg[k - n - 9])
  <2> TAKE k \in n + 10 .. 2 * n + 9
  <2>1. k \notin {1, n + 3, n + 6, n + 9} /\ k \notin {n + 2, n + 5, n + 8, 2 * n + 10}
        /\ k \notin 2 .. n + 1 /\ k # n + 4 /\ k # n + 7
    BY <1>0
  <2> QED
    BY <1>0, <2>1 DEF SaveOp
<1> QED
  BY <1>1, <1>2, <1>3, <1>4, <1>5, <1>6

LEMMA SaveOpRange ==
  ASSUME NEW n \in Nat, NEW k \in 1 .. 2 * n + 10
  PROVE  \/ k \in {1, n + 3, n + 6, n + 9} \/ k \in {n + 2, n + 5, n + 8, 2 * n + 10}
         \/ k \in 2 .. n + 1 \/ k = n + 4 \/ k = n + 7 \/ k \in n + 10 .. 2 * n + 9
OBVIOUS

LEMMA SaveOps ==
  ASSUME NEW msg \in Configs
  PROVE  /\ EEPROM_Save(msg) \in Seq(Op)
         /\ Len(EEPROM_Save(msg)) = 2 * Len(msg) + 10
         /\ \A k \in 1 .. 2 * Len(msg) + 10 : EEPROM_Save(msg)[k] = SaveOp(msg, k)
<1> DEFINE n == Len(msg)
           Erases_ == [i \in 1 .. n |-> Erase(Msg(i))]
           Writes_ == [i \in 1 .. n |-> Write(Msg(i), msg[i])]
           r == <<Unlock>> \o Erases_ \o <<Lock>>
           c == HW_ProgramEEPROM(EEPROM_APP, CRC[msg])
           l == HW_ProgramEEPROM(EEPROM_APP_LEN, n)
           w == <<Unlock>> \o Writes_ \o <<Lock>>
<1>1. n \in 1 .. Payload /\ n \in Nat
  BY ConfigIsMessage
<1>2. Erases_ \in Seq(Op) /\ Len(Erases_) = n /\ Writes_ \in Seq(Op) /\ Len(Writes_) = n
  <2>1. \A i \in 1 .. n : Msg(i) \in Address /\ msg[i] \in Nat
    <3>1. \A i \in 1 .. n : i \in 1 .. Payload
      BY <1>1, Constants
    <3> QED
      BY <3>1, ConfigIsMessage, Addresses
  <2>2. \A i \in 1 .. n : Erase(Msg(i)) \in Op /\ Write(Msg(i), msg[i]) \in Op
    BY <2>1, OpTypes
  <2> QED
    BY <1>1, <2>2
<1>3. /\ r \in Seq(Op) /\ Len(r) = n + 2
      /\ r[1] = Unlock /\ r[n + 2] = Lock
      /\ \A k \in 2 .. n + 1 : r[k] = Erase(Msg(k - 1))
  <2>1. \A k \in 2 .. n + 1 : Erases_[k - 1] = Erase(Msg(k - 1))
    BY <1>1
  <2> HIDE DEF Erases_
  <2> QED
    BY <1>1, <1>2, <2>1, BracketedRun
<1>4. /\ w \in Seq(Op) /\ Len(w) = n + 2
      /\ w[1] = Unlock /\ w[n + 2] = Lock
      /\ \A k \in 2 .. n + 1 : w[k] = Write(Msg(k - 1), msg[k - 1])
  <2>1. \A k \in 2 .. n + 1 : Writes_[k - 1] = Write(Msg(k - 1), msg[k - 1])
    BY <1>1
  <2> HIDE DEF Writes_
  <2> QED
    BY <1>1, <1>2, <2>1, BracketedRun
<1>5. /\ c \in Seq(Op) /\ Len(c) = 3 /\ l \in Seq(Op) /\ Len(l) = 3
      /\ c[1] = Unlock /\ c[2] = Program(EEPROM_APP, CRC[msg]) /\ c[3] = Lock
      /\ l[1] = Unlock /\ l[2] = Program(EEPROM_APP_LEN, n) /\ l[3] = Lock
  BY <1>1, ConfigIsMessage, Addresses, OpTypes DEF HW_ProgramEEPROM
<1>6. EEPROM_Save(msg) = ((r \o c) \o l) \o w
  BY DEF EEPROM_Save, HW_ResetEEPROM, HW_WriteEEPROM, EEPROM_CRC
<1> HIDE DEF r, c, l, w, n
<1>7. /\ r \o c \in Seq(Op) /\ Len(r \o c) = n + 5
      /\ \A k \in 1 .. n + 2 : (r \o c)[k] = r[k]
      /\ \A k \in n + 3 .. n + 5 : (r \o c)[k] = c[k - (n + 2)]
  <2>1. n + 2 \in Nat /\ (n + 2) + 3 = n + 5 /\ (n + 2) + 1 = n + 3
    BY <1>1
  <2>2. /\ r \o c \in Seq(Op) /\ Len(r \o c) = Len(r) + Len(c)
        /\ \A k \in 1 .. Len(r) : (r \o c)[k] = r[k]
        /\ \A k \in Len(r) + 1 .. Len(r) + Len(c) : (r \o c)[k] = c[k - Len(r)]
    BY <1>3, <1>5, Concat, Zenon
  <2> QED
    BY <1>3, <1>5, <2>1, <2>2
<1>8. /\ (r \o c) \o l \in Seq(Op) /\ Len((r \o c) \o l) = n + 8
      /\ \A k \in 1 .. n + 5 : ((r \o c) \o l)[k] = (r \o c)[k]
      /\ \A k \in n + 6 .. n + 8 : ((r \o c) \o l)[k] = l[k - (n + 5)]
  <2>1. n + 5 \in Nat /\ (n + 5) + 3 = n + 8 /\ (n + 5) + 1 = n + 6
    BY <1>1
  <2>2. /\ (r \o c) \o l \in Seq(Op) /\ Len((r \o c) \o l) = Len((r \o c)) + Len(l)
        /\ \A k \in 1 .. Len((r \o c)) : ((r \o c) \o l)[k] = (r \o c)[k]
        /\ \A k \in Len((r \o c)) + 1 .. Len((r \o c)) + Len(l) : ((r \o c) \o l)[k] = l[k - Len((r \o c))]
    BY <1>7, <1>5, Concat, Zenon
  <2> QED
    BY <1>7, <1>5, <2>1, <2>2
<1>9. /\ EEPROM_Save(msg) \in Seq(Op) /\ Len(EEPROM_Save(msg)) = 2 * n + 10
      /\ \A k \in 1 .. n + 8 : EEPROM_Save(msg)[k] = ((r \o c) \o l)[k]
      /\ \A k \in n + 9 .. 2 * n + 10 : EEPROM_Save(msg)[k] = w[k - (n + 8)]
  <2>1. n + 8 \in Nat /\ n + 2 \in Nat /\ (n + 8) + (n + 2) = 2 * n + 10 /\ (n + 8) + 1 = n + 9
    BY <1>1
  <2>2. /\ ((r \o c) \o l) \o w \in Seq(Op) /\ Len(((r \o c) \o l) \o w) = Len(((r \o c) \o l)) + Len(w)
        /\ \A k \in 1 .. Len(((r \o c) \o l)) : (((r \o c) \o l) \o w)[k] = ((r \o c) \o l)[k]
        /\ \A k \in Len(((r \o c) \o l)) + 1 .. Len(((r \o c) \o l)) + Len(w) : (((r \o c) \o l) \o w)[k] = w[k - Len(((r \o c) \o l))]
    BY <1>4, <1>8, Concat, Zenon
  <2> QED
    BY <1>4, <1>6, <1>8, <2>1, <2>2
<1>10. ASSUME NEW k \in 1 .. 2 * n + 10 PROVE EEPROM_Save(msg)[k] = SaveOp(msg, k)
  <2>1. CASE k <= n + 2
    <3>1. k \in 1 .. n + 2 /\ k \in 1 .. n + 5 /\ k \in 1 .. n + 8
      BY <1>1, <2>1
    <3>2. EEPROM_Save(msg)[k] = r[k]
      BY <1>7, <1>8, <1>9, <3>1
    <3> QED
      BY <1>1, <1>3, <2>1, <3>2 DEF SaveOp, n
  <2>2. CASE k \in n + 3 .. n + 5
    <3>1. EEPROM_Save(msg)[k] = c[k - (n + 2)] /\ k - (n + 2) \in 1 .. 3
      BY <1>1, <1>7, <1>8, <1>9, <2>2
    <3> QED
      BY <1>1, <1>5, <2>2, <3>1 DEF SaveOp, n
  <2>3. CASE k \in n + 6 .. n + 8
    <3>1. k - (n + 5) \in 1 .. 3 /\ k \in 1 .. n + 8
      BY <1>1, <2>3
    <3>2. EEPROM_Save(msg)[k] = l[k - (n + 5)]
      BY <1>8, <1>9, <2>3, <3>1
    <3> QED
      BY <1>1, <1>5, <2>3, <3>1, <3>2 DEF SaveOp, n
  <2>4. CASE k \in n + 9 .. 2 * n + 10
    <3>1. EEPROM_Save(msg)[k] = w[k - (n + 8)] /\ k - (n + 8) \in 1 .. n + 2
      BY <1>1, <1>9, <2>4
    <3>2. CASE k = n + 9
      BY <1>1, <1>4, <2>4, <3>1, <3>2 DEF SaveOp, n
    <3>3. CASE k = 2 * n + 10
      <4>1. k - (n + 8) = n + 2 /\ k \in {n + 2, n + 5, n + 8, 2 * n + 10}
            /\ k \notin {1, n + 3, n + 6, n + 9}
        BY <1>1, <3>3
      <4> QED
        BY <1>4, <3>1, <4>1 DEF SaveOp, n
    <3>4. CASE k \in n + 10 .. 2 * n + 9
      <4>1. k - (n + 8) - 1 = k - n - 9 /\ k - (n + 8) \in 2 .. n + 1
            /\ k \notin {1, n + 3, n + 6, n + 9} /\ k \notin {n + 2, n + 5, n + 8, 2 * n + 10}
            /\ k \notin 2 .. n + 1 /\ k # n + 4 /\ k # n + 7
        BY <1>1, <3>4
      <4>2. EEPROM_Save(msg)[k] = Write(Msg(k - n - 9), msg[k - n - 9])
        BY <1>4, <3>1, <4>1
      <4> QED
        BY <3>4, <4>1, <4>2 DEF SaveOp, n
    <3> QED
      BY <1>1, <2>4, <3>2, <3>3, <3>4
  <2> QED
    BY <1>1, <2>1, <2>2, <2>3, <2>4
<1> QED
  BY <1>9, <1>10 DEF n

LEMMA ResetOps ==
  /\ FactoryReset \in Seq(Op) /\ FactoryReset # <<>>
  /\ FactoryReset[Len(FactoryReset)] = SystemReset
  /\ \A i \in 1 .. Len(FactoryReset) :
       ~Written(FactoryReset[i])
<1> DEFINE n == 3 * (Msg(Payload) + 1)
           e(i) == HW_EraseEEPROM((i - 1) \div 3)[1 + ((i - 1) % 3)]
           s == [i \in 1 .. n |-> e(i)]
<1>1. n \in Nat /\ Msg(Payload) \in Nat
  BY Constants DEF Msg, EEPROM_APP_LEN
<1>2. ASSUME NEW i \in 1 .. n
      PROVE  e(i) \in Op /\ ~Written(e(i))
  <2>1. (i - 1) \div 3 \in Address /\ (i - 1) % 3 \in {0, 1, 2}
    BY <1>1 DEF Address
  <2>2. e(i) \in {Unlock, Erase((i - 1) \div 3), Lock}
    BY <2>1 DEF HW_EraseEEPROM
  <2> HIDE DEF e
  <2>3. ~Written(Unlock) /\ ~Written(Lock) /\ ~Written(Erase((i - 1) \div 3))
    BY DEF Written, Unlock, Lock, Erase
  <2> QED
    BY <2>1, <2>2, <2>3, OpTypes
<1> HIDE DEF e, n
<1>3. s \in Seq(Op) /\ Len(s) = n
  BY <1>1, <1>2
<1>4. <<SystemReset>> \in Seq(Op) /\ Len(<<SystemReset>>) = 1
  BY OpTypes
<1>5. FactoryReset = s \o <<SystemReset>>
  BY DEF FactoryReset, e, n
<1>6. /\ FactoryReset \in Seq(Op) /\ Len(FactoryReset) = n + 1
      /\ \A i \in 1 .. n + 1 : FactoryReset[i] = IF i <= n THEN s[i] ELSE SystemReset
  BY <1>1, <1>3, <1>4, <1>5, ConcatProperties
<1>7. ~Written(SystemReset)
  BY DEF Written, SystemReset
<1> QED
  BY <1>1, <1>2, <1>6, <1>7

(* What NFCISR does, with a password that is not valid and without.        *)
LEMMA PresetOps ==
  ASSUME TypeOK, NEW ops \in Seq(Op)
  PROVE  /\ PresetPassword \o ops \in Seq(Op)
         /\ PwValid => PresetPassword \o ops = ops
         /\ ~PwValid => /\ PresetPassword \o ops = HW_ChangePW(DefaultPassword) \o ops
                        /\ Len(PresetPassword \o ops) = 12 + Len(ops)
                        /\ \A k \in 1 .. 12 : (PresetPassword \o ops)[k] = ChangeOp(DefaultPassword, k)
                        /\ \A k \in 13 .. 12 + Len(ops) : (PresetPassword \o ops)[k] = ops[k - 12]
<1>1. CASE PwValid
  <2>1. PresetPassword = <<>>
    BY <1>1 DEF PresetPassword
  <2> QED
    BY <1>1, <2>1, ConcatEmptySeq
<1>2. CASE ~PwValid
  <2> DEFINE d == HW_ChangePW(DefaultPassword)
  <2>1. PresetPassword = d
    BY <1>2 DEF PresetPassword
  <2>2. d \in Seq(Op) /\ Len(d) = 12 /\ \A k \in 1 .. 12 : d[k] = ChangeOp(DefaultPassword, k)
    BY ChangeOps, Constants
  <2> HIDE DEF d
  <2>3. /\ d \o ops \in Seq(Op) /\ Len(d \o ops) = Len(d) + Len(ops)
        /\ \A k \in 1 .. Len(d) : (d \o ops)[k] = d[k]
        /\ \A k \in Len(d) + 1 .. Len(d) + Len(ops) : (d \o ops)[k] = ops[k - Len(d)]
    BY <2>2, Concat, Zenon
  <2> QED
    BY <1>2, <2>1, <2>2, <2>3 DEF d
<1> QED
  BY <1>1, <1>2

-----------------------------------------------------------------------------
(***************************************************************************)
(* Type correctness                                                        *)
(***************************************************************************)

(* The next operation, and those after it.                                 *)
LEMMA NextOp ==
  ASSUME TypeOK, NEW c \in Client, todo[c] # <<>>
  PROVE  /\ Len(todo[c]) \in Nat \ {0}
         /\ Head(todo[c]) = todo[c][1] /\ todo[c][1] \in Op
         /\ Tail(todo[c]) \in Seq(Op) /\ Len(Tail(todo[c])) = Len(todo[c]) - 1
         /\ \A i \in 1 .. Len(todo[c]) - 1 : Tail(todo[c])[i] = todo[c][i + 1]
         /\ Tail(todo[c]) = <<>> <=> Len(todo[c]) = 1
<1>1. todo[c] \in Seq(Op)
  BY DEF TypeOK, Client
<1>2. /\ Len(todo[c]) \in Nat \ {0}
      /\ Head(todo[c]) = todo[c][1] /\ todo[c][1] \in Op
      /\ Tail(todo[c]) \in Seq(Op) /\ Len(Tail(todo[c])) = Len(todo[c]) - 1
      /\ \A i \in 1 .. Len(todo[c]) - 1 : Tail(todo[c])[i] = todo[c][i + 1]
  BY <1>1
<1>3. ASSUME NEW t \in Seq(Op) PROVE t = <<>> <=> Len(t) = 0
  BY EmptySeq
<1>4. Tail(todo[c]) = <<>> <=> Len(Tail(todo[c])) = 0
  BY <1>2, <1>3
<1> QED
  BY <1>2, <1>4

(* A step of main or of the interrupt through what it has to do.           *)
Steps(c) ==
  Unlocks(c) \/ Locks(c) \/ Erases(c) \/ Programs(c) \/ (c = "nfc" /\ Busy)

LEMMA OpStep ==
  ASSUME TypeOK, NEW c \in Client, Steps(c)
  PROVE  /\ todo[c] # <<>> /\ MayRun(c)
         /\ UNCHANGED <<config, pc, history>>
         /\ \/ todo' = [todo EXCEPT ![c] = Tail(todo[c])]
            \/ todo[c][1].op = "write" /\ todo' = [todo EXCEPT ![c] = <<>>]
         /\ \/ ee' = ee
            \/ todo[c][1].op = "erase" /\ ee' = [ee EXCEPT ![todo[c][1].at] = 0]
            \/ Written(todo[c][1]) /\ ee' = [ee EXCEPT ![todo[c][1].at] = todo[c][1].word]
         /\ pelock' \in BOOLEAN /\ wrperr' \in BOOLEAN /\ held' \in BOOLEAN
         /\ todo[c][1].op # "reset"
         /\ held' => held /\ (c = "main" => ~Programming("main"))
<1>1. todo[c] # <<>> /\ MayRun(c)
  BY DEF Steps, Unlocks, Locks, Erases, Programs, Busy, Programming, Does, MayRun, Client
<1>2. Head(todo[c]) = todo[c][1] /\ todo \in [Client -> Seq(Op)]
  BY <1>1, NextOp DEF TypeOK, Client
<1>3. CASE Unlocks(c)
  BY <1>1, <1>2, <1>3 DEF Unlocks, Programming, Does, Done, TypeOK
<1>4. CASE Locks(c)
  BY <1>1, <1>2, <1>4 DEF Locks, Programming, Does, Done, TypeOK
<1>5. CASE Erases(c)
  BY <1>1, <1>2, <1>5 DEF Erases, Programming, Does, Done, TypeOK
<1>6. CASE Programs(c)
  BY <1>1, <1>2, <1>6 DEF Programs, Programming, Does, Done, Fails, Written, TypeOK
<1>7. CASE c = "nfc" /\ Busy
  BY <1>1, <1>2, <1>7 DEF Busy, Programming, Does, Fails, TypeOK, flash
<1> QED
  BY <1>3, <1>4, <1>5, <1>6, <1>7 DEF Steps

(* What is loaded for valid was saved.                                     *)
LEMMA ValidIsSaved ==
  ASSUME TypeOK, ValueInv, Valid
  PROVE  Stored \in saved /\ Stored \in Configs
<1> DEFINE n == ee[EEPROM_APP_LEN]
<1>1. n \in 1 .. Payload /\ ee[EEPROM_APP] = CRC[Stored]
  BY DEF Valid, EEPROM_CRC
<1>2. \A i \in 1 .. n : ee[Msg(i)] \in Words
  <2> TAKE i \in 1 .. n
  <2>1. i \in 1 .. Payload
    BY <1>1, Constants
  <2>2. Msg(i) \in Address /\ Msg(i) > EEPROM_APP_LEN
    BY <2>1, Addresses, Constants DEF Msg, EEPROM_APP_LEN
  <2> QED
    BY <2>2 DEF ValueInv, Proper
<1>3. Stored \in [1 .. n -> Words]
  BY <1>2 DEF Stored
<1>4. Stored \in Messages
  BY <1>1, <1>3 DEF Messages
<1>5. CRC[Stored] # 0
  BY <1>4, EepromAssumption
<1>6. Proper(saved, EEPROM_APP, ee[EEPROM_APP])
  BY Addresses DEF ValueInv
<1>7. PICK c \in saved : CRC[Stored] = CRC[c]
  BY <1>1, <1>5, <1>6 DEF Proper
<1>8. c \in Configs
  BY DEF ValueInv
<1>9. Stored = c
  BY <1>4, <1>7, <1>8, EepromAssumption
<1> QED
  BY <1>8, <1>9

LEMMA TypeInit == Init => TypeOK
<1> SUFFICES ASSUME Init PROVE TypeOK
  OBVIOUS
<1>1. todo \in [{"main", "nfc"} -> Seq(Op)]
  BY EmptySeq DEF Init
<1>2. ee \in [Address -> Nat]
  BY DEF Init
<1> QED
  BY <1>1, <1>2, Constants DEF Init, TypeOK

LEMMA BootTypes ==
  ASSUME TypeOK, Boots, ee' \in [Address -> Nat], told' \in {told, None},
         UNCHANGED <<saved, lastSaved, clash, late>>
  PROVE  TypeOK'
<1>1. todo' \in [{"main", "nfc"} -> Seq(Op)]
  BY EmptySeq DEF Boots
<1> QED
  BY <1>1, Constants DEF Boots, TypeOK

LEMMA SaveTypes ==
  ASSUME TypeOK, NEW msg \in Configs, NEW label \in {"boot save", "save"},
         Saves(msg, label), UNCHANGED config
  PROVE  TypeOK'
<1>1. todo' \in [{"main", "nfc"} -> Seq(Op)]
  <2>1. EEPROM_Save(msg) \in Seq(Op)
    BY SaveOps
  <2> QED
    BY <2>1 DEF Saves, TypeOK
<1> QED
  BY <1>1 DEF Saves, TypeOK, flash, config

LEMMA NfcTypes ==
  ASSUME TypeOK, NEW ops \in Seq(Op), NfcRuns(ops),
         DevCfg' \in Configs, changed' \in BOOLEAN, late' \in BOOLEAN,
         told' \in Passwords \cup {None}
  PROVE  TypeOK'
<1>1. todo' \in [{"main", "nfc"} -> Seq(Op)]
  <2>1. PresetPassword \o ops \in Seq(Op)
    BY PresetOps
  <2> QED
    BY <2>1 DEF NfcRuns, TypeOK
<1>2. clash' \in BOOLEAN
  BY Zenon DEF NfcRuns, TypeOK
<1> QED
  BY <1>1, <1>2 DEF NfcRuns, TypeOK, flash

LEMMA OpTypeStep ==
  ASSUME TypeOK, NEW c \in Client, Steps(c)
  PROVE  TypeOK'
<1>1. todo[c] # <<>>
  BY OpStep
<1>2. todo[c][1].at \in Address /\ todo[c][1].word \in Nat
  BY <1>1, NextOp DEF Op
<1>3. ee' \in [Address -> Nat]
  <2>1. \/ ee' = ee
        \/ ee' = [ee EXCEPT ![todo[c][1].at] = 0]
        \/ ee' = [ee EXCEPT ![todo[c][1].at] = todo[c][1].word]
    BY OpStep
  <2>2. \A at \in Address, w \in Nat : [ee EXCEPT ![at] = w] \in [Address -> Nat]
    BY DEF TypeOK
  <2>3. 0 \in Nat /\ ee \in [Address -> Nat]
    BY DEF TypeOK
  <2> QED
    BY <1>2, <2>1, <2>2, <2>3, Zenon
<1>4. todo' \in [{"main", "nfc"} -> Seq(Op)]
  <2>1. Tail(todo[c]) \in Seq(Op) /\ <<>> \in Seq(Op)
    BY <1>1, NextOp, EmptySeq
  <2>2. \/ todo' = [todo EXCEPT ![c] = Tail(todo[c])]
        \/ todo' = [todo EXCEPT ![c] = <<>>]
    BY OpStep
  <2> QED
    BY <2>1, <2>2 DEF TypeOK
<1> QED
  BY <1>3, <1>4, OpStep DEF TypeOK, config, history

LEMMA TypeStep ==
  ASSUME TypeOK, ValueInv, [Next]_vars
  PROVE  TypeOK'
<1>1. ASSUME NEW c \in Client, Steps(c) PROVE TypeOK'
  BY <1>1, OpTypeStep
<1>2. CASE TakesLock
  BY <1>2 DEF TakesLock, TypeOK, config, history
<1>3. CASE PowerLoss
  <2>1. ee' \in [Address -> Nat]
    <3>1. ASSUME NEW c \in Client, Programming(c), ee' = [ee EXCEPT ![Head(todo[c]).at] = 0]
          PROVE  ee' \in [Address -> Nat]
      <4>1. todo[c] # <<>>
        BY <3>1 DEF Programming, Does
      <4> QED
        BY <3>1, <4>1, NextOp DEF TypeOK
    <3> QED
      BY <1>3, <3>1 DEF PowerLoss, TypeOK, Client
  <2>2. told' \in {told, None}
    BY <1>3 DEF PowerLoss
  <2> QED
    BY <1>3, <2>1, <2>2, BootTypes DEF PowerLoss
<1>4. CASE Resets
  <2>1. ee' \in [Address -> Nat]
    BY <1>4 DEF Resets, TypeOK
  <2> QED
    BY <1>4, <2>1, BootTypes DEF Resets
<1>5. CASE EEPROM_Load
  <2>1. CASE Valid /\ DevCfg' = Stored /\ changed' = TRUE /\ pc' = "loop"
             /\ UNCHANGED <<flash, todo, history>>
    BY <2>1, ValidIsSaved DEF TypeOK, flash, history
  <2>2. CASE Saves(DevCfg, "boot save") /\ UNCHANGED config
    <3>1. DevCfg \in Configs
      BY DEF TypeOK
    <3> QED
      BY <2>2, <3>1, SaveTypes
  <2> QED
    BY <1>5, <2>1, <2>2 DEF EEPROM_Load
<1>6. CASE LoadSaved
  <2>1. CASE DevCfg' \in Configs /\ changed' = TRUE /\ pc' = "loop"
             /\ UNCHANGED <<flash, todo, history>>
    BY <2>1 DEF TypeOK, flash, history
  <2>2. CASE Boots /\ ee' = [ee EXCEPT ![EEPROM_APP] = 0, ![EEPROM_APP_LEN] = 0]
             /\ UNCHANGED history
    <3>1. ee' \in [Address -> Nat]
      BY <2>2, Addresses DEF TypeOK
    <3> QED
      BY <2>2, <3>1, BootTypes DEF history
  <2> QED
    BY <1>6, <2>1, <2>2 DEF LoadSaved, history
<1>7. CASE SaveChanges
  <2>1. DevCfg \in Configs
    BY DEF TypeOK
  <2> QED
    BY <1>7, <2>1, SaveTypes DEF SaveChanges
<1>8. CASE ForgetChanges
  BY <1>8 DEF ForgetChanges, TypeOK, flash, history
<1>9. CASE SetConfig
  <2>1. <<>> \in Seq(Op)
    BY EmptySeq
  <2>2. told' \in Passwords \cup {None}
    BY <1>9 DEF SetConfig, TypeOK
  <2>3. changed' \in BOOLEAN /\ late' \in BOOLEAN
    BY <1>9 DEF SetConfig
  <2> QED
    BY <1>9, <2>1, <2>2, <2>3, NfcTypes DEF SetConfig
<1>10. ASSUME NEW p \in Passwords, ChangePassword(p) PROVE TypeOK'
  <2>1. HW_ChangePW(p) \in Seq(Op)
    BY ChangeOps, Constants
  <2>2. told' \in Passwords \cup {None}
    BY <1>10 DEF ChangePassword
  <2>3. DevCfg' \in Configs /\ changed' \in BOOLEAN /\ late' \in BOOLEAN
    BY <1>10 DEF ChangePassword, TypeOK, config
  <2> QED
    BY <1>10, <2>1, <2>2, <2>3, NfcTypes DEF ChangePassword
<1>11. CASE FactoryResetCommand
  <2>1. DevCfg' \in Configs /\ changed' \in BOOLEAN /\ late' \in BOOLEAN /\ told' \in Passwords \cup {None}
    BY <1>11 DEF FactoryResetCommand, TypeOK, config
  <2> QED
    BY <1>11, <2>1, ResetOps, NfcTypes DEF FactoryResetCommand
<1>12. CASE UNCHANGED vars
  BY <1>12 DEF TypeOK, vars, flash, config, history
<1> QED
  BY <1>1, <1>2, <1>3, <1>4, <1>5, <1>6, <1>7, <1>8, <1>9, <1>10, <1>11, <1>12
  DEF Next, Steps, Client

-----------------------------------------------------------------------------
(***************************************************************************)
(* The values                                                              *)
(***************************************************************************)

LEMMA ProperKept ==
  ASSUME NEW S, NEW T, S \subseteq T, NEW a, NEW w, Proper(S, a, w)
  PROVE  Proper(T, a, w)
BY DEF Proper

LEMMA ZeroIsProper ==
  ASSUME NEW S, NEW a PROVE Proper(S, a, 0)
BY DEF Proper, Words

(* What is left to do was to be done before.                               *)
LEMMA OpsLeft ==
  ASSUME TypeOK, NEW c \in Client, Steps(c)
  PROVE  \A d \in Client : \A i \in 1 .. Len(todo'[d]) :
           \E j \in 1 .. Len(todo[d]) : todo'[d][i] = todo[d][j]
<1>1. todo[c] # <<>> /\ todo \in [Client -> Seq(Op)]
  BY OpStep DEF TypeOK, Client
<1>2. \/ todo' = [todo EXCEPT ![c] = Tail(todo[c])]
      \/ todo' = [todo EXCEPT ![c] = <<>>]
  BY OpStep
<1>3. ASSUME NEW d \in Client, NEW i \in 1 .. Len(todo'[d])
      PROVE  \E j \in 1 .. Len(todo[d]) : todo'[d][i] = todo[d][j]
  <2>1. CASE d # c
    <3>1. todo'[d] = todo[d]
      BY <1>1, <1>2, <2>1
    <3> QED
      BY <1>3, <3>1
  <2>2. CASE d = c /\ todo'[c] = Tail(todo[c])
    <3>1. i + 1 \in 1 .. Len(todo[c]) /\ todo'[d][i] = todo[c][i + 1]
      BY <1>1, <1>3, <2>2, NextOp
    <3> QED
      BY <2>2, <3>1
  <2>3. CASE d = c /\ todo'[c] = <<>>
    BY <1>3, <2>3
  <2> QED
    BY <1>1, <1>2, <2>1, <2>2, <2>3
<1> QED
  BY <1>3

LEMMA ResettingKept ==
  ASSUME TypeOK, ValueInv, NEW c \in Client, Steps(c)
  PROVE  Resetting' <=> Resetting
<1>1. todo[c] # <<>> /\ todo \in [Client -> Seq(Op)] /\ todo[c][1].op # "reset"
  BY OpStep DEF TypeOK, Client
<1>2. \/ todo' = [todo EXCEPT ![c] = Tail(todo[c])]
      \/ (todo[c][1].op = "write" /\ todo' = [todo EXCEPT ![c] = <<>>])
  BY OpStep
<1>3. CASE c = "main"
  <2>1. todo'["nfc"] = todo["nfc"]
    BY <1>1, <1>2, <1>3 DEF Client
  <2> QED
    BY <2>1 DEF Resetting
<1>4. CASE c = "nfc"
  <2> DEFINE s == todo["nfc"]
  <2>1. /\ Len(s) \in Nat \ {0} /\ Tail(s) \in Seq(Op) /\ Len(Tail(s)) = Len(s) - 1
        /\ \A i \in 1 .. Len(s) - 1 : Tail(s)[i] = s[i + 1]
        /\ Tail(s) = <<>> <=> Len(s) = 1
    BY <1>1, <1>4, NextOp
  <2>2. s[1].op # "write" /\ s[1].op # "reset"
    BY <1>1, <1>4, <2>1 DEF ValueInv
  <2>3. todo'["nfc"] = Tail(s)
    BY <1>1, <1>2, <1>4, <2>2 DEF Client
  <2> HIDE DEF s
  <2>4. CASE Len(s) = 1
    <3>1. Tail(s) = <<>>
      BY <2>1, <2>4
    <3> QED
      BY <2>2, <2>3, <2>4, <3>1 DEF Resetting, s
  <2>5. CASE Len(s) > 1
    <3>1. Tail(s) # <<>> /\ s # <<>>
      <4>1. Tail(s) # <<>>
        BY <2>1, <2>5
      <4> QED
        BY <1>1, <1>4, <4>1 DEF s
    <3>2. Len(s) - 1 \in 1 .. Len(s) - 1 /\ Len(s) - 1 + 1 = Len(s)
      BY <2>1, <2>5
    <3>3. Tail(s)[Len(Tail(s))] = s[Len(s)]
      BY <2>1, <3>2
    <3> QED
      BY <2>3, <3>1, <3>3 DEF Resetting, s
  <2> QED
    BY <2>1, <2>4, <2>5
<1> QED
  BY <1>3, <1>4 DEF Client

LEMMA OpValueStep ==
  ASSUME TypeOK, ValueInv, NEW c \in Client, Steps(c)
  PROVE  ValueInv'
<1>1. saved' = saved /\ todo[c] # <<>>
  BY OpStep DEF history
<1>2. todo[c][1].at \in Address /\ 1 \in 1 .. Len(todo[c])
  BY <1>1, NextOp DEF Op
<1>3. \A a \in Address : Proper(saved, a, ee'[a])
  <2>1. Written(todo[c][1]) => Proper(saved, todo[c][1].at, todo[c][1].word)
    BY <1>2 DEF ValueInv, Meant
  <2>2. \A a \in Address : ee'[a] = ee[a] \/ ee'[a] = 0
                           \/ (a = todo[c][1].at /\ Written(todo[c][1]) /\ ee'[a] = todo[c][1].word)
    <3>1. \/ ee' = ee
          \/ ee' = [ee EXCEPT ![todo[c][1].at] = 0]
          \/ (Written(todo[c][1]) /\ ee' = [ee EXCEPT ![todo[c][1].at] = todo[c][1].word])
      BY OpStep
    <3> QED
      BY <1>2, <3>1 DEF TypeOK
  <2> QED
    BY <2>1, <2>2, ZeroIsProper DEF ValueInv
<1>5. \A d \in Client : \A i \in 1 .. Len(todo'[d]) :
           \E j \in 1 .. Len(todo[d]) : todo'[d][i] = todo[d][j]
  BY OpsLeft
<1>6. Resetting' <=> Resetting
  BY ResettingKept
<1>7. \A d \in Client : \A i \in 1 .. Len(todo'[d]) : Meant(saved', todo'[d][i])
  BY <1>1, <1>5 DEF ValueInv
<1>8. \A i \in 1 .. Len(todo'["main"]) : MainOp(todo'["main"][i])
  BY <1>5 DEF ValueInv, Client
<1>9. \A i \in 1 .. Len(todo'["nfc"]) : todo'["nfc"][i].op # "write"
  BY <1>5 DEF ValueInv, Client
<1>10. ~Resetting' => \A i \in 1 .. Len(todo'["nfc"]) : PasswordOp(todo'["nfc"][i])
  BY <1>5, <1>6 DEF ValueInv, Client
<1>11. \A a \in Address : Proper(saved', a, ee'[a])
  BY <1>1, <1>3
<1>12. saved' \subseteq Configs
  BY <1>1 DEF ValueInv
<1> QED
  BY <1>7, <1>8, <1>9, <1>10, <1>11, <1>12 DEF ValueInv

LEMMA BootValues ==
  ASSUME TypeOK, ValueInv, Boots, \A a \in Address : ee'[a] \in {0, ee[a]}, saved' = saved
  PROVE  ValueInv'
<1>1. todo'["main"] = <<>> /\ todo'["nfc"] = <<>>
  BY DEF Boots
<1>2. \A a \in Address : Proper(saved', a, ee'[a])
  BY ZeroIsProper DEF ValueInv
<1> QED
  BY <1>1, <1>2 DEF ValueInv, Client, Resetting

LEMMA SaveValues ==
  ASSUME TypeOK, ValueInv, NEW msg \in Configs, NEW label, Saves(msg, label), Idle
  PROVE  ValueInv'
<1> DEFINE n == Len(msg)
<1>1. /\ todo'["main"] = EEPROM_Save(msg) /\ todo'["nfc"] = <<>> /\ ee' = ee
      /\ saved' = saved \cup {msg}
  BY DEF Saves, flash, Idle, TypeOK
<1>2. n \in 1 .. Payload /\ n \in Nat
  BY ConfigIsMessage
<1>3. ASSUME NEW k \in 1 .. 2 * n + 10
      PROVE  MainOp(SaveOp(msg, k)) /\ Meant(saved', SaveOp(msg, k))
  <2>1. MainOp(Unlock) /\ Meant(saved', Unlock) /\ MainOp(Lock) /\ Meant(saved', Lock)
    BY DEF MainOp, Meant, Written, Touches, Unlock, Lock
  <2>2. \A i \in 1 .. n : MainOp(Erase(Msg(i))) /\ Meant(saved', Erase(Msg(i)))
    BY <1>2 DEF MainOp, Meant, Written, Touches, Erase, Msg, EEPROM_APP, EEPROM_APP_LEN
  <2>3. MainOp(Program(EEPROM_APP, CRC[msg])) /\ Meant(saved', Program(EEPROM_APP, CRC[msg]))
    BY <1>1 DEF MainOp, Meant, Written, Touches, Program, Proper, EEPROM_APP, EEPROM_APP_LEN,
                EEPROM_PW, EEPROM_PW_COMPLEMENT
  <2>4. MainOp(Program(EEPROM_APP_LEN, n)) /\ Meant(saved', Program(EEPROM_APP_LEN, n))
    BY <1>1 DEF MainOp, Meant, Written, Touches, Program, Proper, EEPROM_APP, EEPROM_APP_LEN,
                EEPROM_PW, EEPROM_PW_COMPLEMENT
  <2>5. \A i \in 1 .. n : MainOp(Write(Msg(i), msg[i])) /\ Meant(saved', Write(Msg(i), msg[i]))
    <3> TAKE i \in 1 .. n
    <3>1. msg[i] \in Words /\ Msg(i) > 3
      BY <1>2, ConfigIsMessage DEF Msg, EEPROM_APP_LEN
    <3>2. Proper(saved', Msg(i), msg[i])
      BY <3>1 DEF Proper, EEPROM_APP, EEPROM_APP_LEN, EEPROM_PW, EEPROM_PW_COMPLEMENT, Msg
    <3>3. Write(Msg(i), msg[i]).at = Msg(i) /\ Write(Msg(i), msg[i]).word = msg[i]
          /\ Write(Msg(i), msg[i]).op = "write"
      BY DEF Write
    <3> QED
      <4>1. Msg(i) >= EEPROM_APP
        BY <3>1 DEF Msg, EEPROM_APP, EEPROM_APP_LEN
      <4> QED
        BY <3>2, <3>3, <4>1 DEF MainOp, Meant
  <2>6. \/ SaveOp(msg, k) \in {Unlock, Lock}
        \/ (k - 1 \in 1 .. n /\ SaveOp(msg, k) = Erase(Msg(k - 1)))
        \/ SaveOp(msg, k) = Program(EEPROM_APP, CRC[msg])
        \/ SaveOp(msg, k) = Program(EEPROM_APP_LEN, n)
        \/ (k - n - 9 \in 1 .. n /\ SaveOp(msg, k) = Write(Msg(k - n - 9), msg[k - n - 9]))
    <3>1. /\ \A i \in {1, n + 3, n + 6, n + 9} : SaveOp(msg, i) = Unlock
          /\ \A i \in {n + 2, n + 5, n + 8, 2 * n + 10} : SaveOp(msg, i) = Lock
          /\ \A i \in 2 .. n + 1 : SaveOp(msg, i) = Erase(Msg(i - 1))
          /\ SaveOp(msg, n + 4) = Program(EEPROM_APP, CRC[msg])
          /\ SaveOp(msg, n + 7) = Program(EEPROM_APP_LEN, n)
          /\ \A i \in n + 10 .. 2 * n + 9 :
               SaveOp(msg, i) = Write(Msg(i - n - 9), msg[i - n - 9])
      BY <1>2, SaveOpAt, Zenon
    <3> HIDE DEF n
    <3>2. CASE k \in 2 .. n + 1
      <4>1. SaveOp(msg, k) = Erase(Msg(k - 1))
        BY <3>1, <3>2, Zenon
      <4>2. k - 1 \in 1 .. n
        BY <1>2, <3>2
      <4> QED
        BY <4>1, <4>2
    <3>3. CASE k \in n + 10 .. 2 * n + 9
      BY <1>2, <3>1, <3>3
    <3>4. CASE k \in {1, n + 3, n + 6, n + 9} \/ k \in {n + 2, n + 5, n + 8, 2 * n + 10}
               \/ k = n + 4 \/ k = n + 7
      BY <3>1, <3>4, Zenon
    <3> QED
      BY <1>2, <3>2, <3>3, <3>4, SaveOpRange
  <2> QED
    BY <2>1, <2>2, <2>3, <2>4, <2>5, <2>6
<1>4. \A k \in 1 .. Len(todo'["main"]) : MainOp(todo'["main"][k]) /\ Meant(saved', todo'["main"][k])
  BY <1>1, <1>3, SaveOps
<1>5. \A a \in Address : Proper(saved', a, ee'[a])
  <2>1. saved \subseteq saved'
    BY <1>1
  <2> QED
    BY <1>1, <2>1, ProperKept DEF ValueInv
<1>6. Len(todo'["nfc"]) = 0 /\ saved' \subseteq Configs
  BY <1>1 DEF ValueInv
<1> QED
  BY <1>4, <1>5, <1>6 DEF ValueInv, Client

(* The operations that the interrupt is given are those of its kind.       *)
LEMMA ChangeOpMeant ==
  ASSUME NEW p \in AnyPassword, NEW k \in 1 .. 12
  PROVE  /\ PasswordOp(ChangeOp(p, k)) /\ ChangeOp(p, k).op # "write"
         /\ Meant(saved, ChangeOp(p, k))
<1>1. \A op \in {Unlock, Lock, Erase(EEPROM_PW), Erase(EEPROM_PW_COMPLEMENT)} :
        PasswordOp(op) /\ op.op # "write" /\ Meant(saved, op)
  BY DEF Unlock, Lock, Erase, PasswordOp, Meant, Touches, Written, EEPROM_PW,
         EEPROM_PW_COMPLEMENT, EEPROM_APP
<1>2. \A op \in {Program(EEPROM_PW, p), Program(EEPROM_PW_COMPLEMENT, MaxWord - p)} :
        PasswordOp(op) /\ op.op # "write" /\ Meant(saved, op)
  BY DEF Program, PasswordOp, Meant, Touches, Written, Proper, EEPROM_PW,
         EEPROM_PW_COMPLEMENT, EEPROM_APP, EEPROM_APP_LEN
<1>3. ChangeOp(p, k) \in {Unlock, Lock, Erase(EEPROM_PW), Erase(EEPROM_PW_COMPLEMENT),
                         Program(EEPROM_PW, p), Program(EEPROM_PW_COMPLEMENT, MaxWord - p)}
  BY DEF ChangeOp
<1> QED
  BY <1>1, <1>2, <1>3

LEMMA NfcValues ==
  ASSUME TypeOK, ValueInv, NEW ops \in Seq(Op), NfcRuns(ops),
         \A i \in 1 .. Len(ops) : ops[i].op # "write" /\ Meant(saved, ops[i]),
         \/ ops # <<>> /\ ops[Len(ops)].op = "reset"
         \/ \A i \in 1 .. Len(ops) : PasswordOp(ops[i])
  PROVE  ValueInv' /\ (Resetting' <=> ops # <<>> /\ ops[Len(ops)].op = "reset")
<1> DEFINE s == PresetPassword \o ops
           d == DefaultPassword
<1>1. /\ todo'["main"] = todo["main"] /\ todo'["nfc"] = s /\ ee' = ee /\ saved' = saved
  BY DEF NfcRuns, flash, TypeOK
<1>2. s \in Seq(Op) /\ Len(s) \in Nat /\ Len(ops) \in Nat
  BY PresetOps
<1>3. ASSUME NEW i \in 1 .. Len(s)
      PROVE  \/ i \in 1 .. 12 /\ s[i] = ChangeOp(d, i)
             \/ \E j \in 1 .. Len(ops) : s[i] = ops[j]
  <2>1. CASE PwValid
    BY <2>1, PresetOps
  <2>2. CASE ~PwValid
    <3>1. /\ Len(s) = 12 + Len(ops)
          /\ \A k \in 1 .. 12 : s[k] = ChangeOp(d, k)
          /\ \A k \in 13 .. 12 + Len(ops) : s[k] = ops[k - 12]
      BY <2>2, PresetOps
    <3>2. CASE i \in 1 .. 12
      BY <3>1, <3>2
    <3>3. CASE i \in 13 .. 12 + Len(ops)
      <4>1. i - 12 \in 1 .. Len(ops)
        BY <1>2, <3>3
      <4> QED
        BY <3>1, <3>3, <4>1
    <3>4. i \in 1 .. 12 \/ i \in 13 .. 12 + Len(ops)
      BY <1>2, <3>1
    <3> QED
      BY <3>2, <3>3, <3>4
  <2> QED
    BY <2>1, <2>2
<1>4. /\ ops # <<>> => s # <<>> /\ s[Len(s)] = ops[Len(ops)]
      /\ ops = <<>> => s = <<>> \/ s[Len(s)] = ChangeOp(d, 12)
  <2>1. CASE PwValid
    BY <2>1, PresetOps
  <2>2. CASE ~PwValid
    <3>1. /\ Len(s) = 12 + Len(ops)
          /\ \A k \in 1 .. 12 : s[k] = ChangeOp(d, k)
          /\ \A k \in 13 .. 12 + Len(ops) : s[k] = ops[k - 12]
      BY <2>2, PresetOps
    <3> HIDE DEF s
    <3>2. s # <<>>
      BY <1>2, <3>1
    <3>3. CASE ops # <<>>
      <4>1. Len(ops) \in Nat \ {0}
        BY <1>2, <3>3, EmptySeq
      <4>2. 12 + Len(ops) \in 13 .. 12 + Len(ops) /\ 12 + Len(ops) - 12 = Len(ops)
        BY <4>1
      <4> QED
        BY <3>1, <3>2, <3>3, <4>2
    <3>4. CASE ops = <<>>
      <4>1. Len(s) = 12
        BY <3>1, <3>4
      <4> QED
        BY <3>1, <3>4, <4>1
    <3> QED
      BY <3>3, <3>4
  <2> QED
    BY <2>1, <2>2
<1>5. \A k \in 1 .. 12 : /\ PasswordOp(ChangeOp(d, k)) /\ ChangeOp(d, k).op # "write"
                         /\ Meant(saved, ChangeOp(d, k))
  BY ChangeOpMeant, Constants
<1>6. ChangeOp(d, 12) = Lock /\ Lock.op # "reset"
  BY DEF ChangeOp, Lock
<1> HIDE DEF s
<1>7. \A i \in 1 .. Len(s) : s[i].op # "write" /\ Meant(saved, s[i])
  BY <1>3, <1>5
<1>8. Resetting' <=> ops # <<>> /\ ops[Len(ops)].op = "reset"
  BY <1>1, <1>4, <1>6 DEF Resetting
<1>9. ~Resetting' => \A i \in 1 .. Len(s) : PasswordOp(s[i])
  BY <1>3, <1>5, <1>8
<1>10. \A c \in Client : \A i \in 1 .. Len(todo'[c]) : Meant(saved', todo'[c][i])
  BY <1>1, <1>7 DEF ValueInv, Client
<1> QED
  BY <1>1, <1>7, <1>8, <1>9, <1>10 DEF ValueInv

LEMMA ValueStep ==
  ASSUME TypeOK, ValueInv, [Next]_vars
  PROVE  ValueInv'
<1>1. ASSUME NEW c \in Client, Steps(c) PROVE ValueInv'
  BY <1>1, OpValueStep
<1>2. CASE TakesLock \/ ForgetChanges \/ UNCHANGED vars
  <2>1. UNCHANGED <<ee, todo, saved>>
    BY <1>2 DEF TakesLock, ForgetChanges, vars, flash, history
  <2> QED
    BY <2>1 DEF ValueInv, Resetting
<1>3. CASE PowerLoss
  <2>1. \A a \in Address : ee'[a] \in {0, ee[a]}
    BY <1>3 DEF PowerLoss, TypeOK
  <2> QED
    BY <1>3, <2>1, BootValues DEF PowerLoss
<1>4. CASE Resets
  BY <1>4, BootValues DEF Resets
<1>5. CASE EEPROM_Load \/ LoadSaved \/ SaveChanges
  <2>1. CASE UNCHANGED <<flash, todo, history>>
    BY <2>1 DEF ValueInv, Resetting, flash, history
  <2>2. ASSUME NEW label, Saves(DevCfg, label), Idle PROVE ValueInv'
    BY <2>2, SaveValues DEF TypeOK
  <2>3. CASE Boots /\ UNCHANGED history
             /\ ee' = [ee EXCEPT ![EEPROM_APP] = 0, ![EEPROM_APP_LEN] = 0]
    <3>1. \A a \in Address : ee'[a] \in {0, ee[a]}
      BY <2>3 DEF TypeOK
    <3> QED
      BY <2>3, <3>1, BootValues DEF history
  <2> QED
    BY <1>5, <2>1, <2>2, <2>3 DEF EEPROM_Load, LoadSaved, SaveChanges, history
<1>6. CASE SetConfig
  <2>1. <<>> \in Seq(Op) /\ Len(<<>>) = 0
    BY EmptySeq
  <2>2. \A i \in 1 .. Len(<<>>) :
          /\ <<>>[i].op # "write" /\ Meant(saved, <<>>[i])
          /\ PasswordOp(<<>>[i])
    BY <2>1
  <2>3. NfcRuns(<<>>)
    BY <1>6 DEF SetConfig
  <2> QED
    BY <2>1, <2>2, <2>3, NfcValues, Zenon
<1>7. ASSUME NEW p \in Passwords, ChangePassword(p) PROVE ValueInv'
  <2>1. p \in AnyPassword
    BY Constants
  <2>2. HW_ChangePW(p) \in Seq(Op)
    BY <2>1, ChangeOps
  <2>3. \A i \in 1 .. Len(HW_ChangePW(p)) :
          /\ HW_ChangePW(p)[i].op # "write" /\ Meant(saved, HW_ChangePW(p)[i])
          /\ PasswordOp(HW_ChangePW(p)[i])
    <3>1. Len(HW_ChangePW(p)) = 12
      BY <2>1, ChangeOps, Zenon
    <3>2. \A i \in 1 .. 12 : HW_ChangePW(p)[i] = ChangeOp(p, i)
      BY <2>1, ChangeOps, Zenon
    <3>3. \A i \in 1 .. 12 : /\ PasswordOp(ChangeOp(p, i)) /\ ChangeOp(p, i).op # "write"
                             /\ Meant(saved, ChangeOp(p, i))
      BY <2>1, ChangeOpMeant, Zenon
    <3> QED
      BY <3>1, <3>2, <3>3, Zenon
  <2> QED
    BY <1>7, <2>2, <2>3, NfcValues DEF ChangePassword
<1>8. CASE FactoryResetCommand
  <2>1. SystemReset.op = "reset"
    BY DEF SystemReset
  <2>2. \A i \in 1 .. Len(FactoryReset) :
          FactoryReset[i].op # "write" /\ Meant(saved, FactoryReset[i])
    BY ResetOps DEF Written, Meant
  <2> QED
    BY <1>8, <2>1, <2>2, ResetOps, NfcValues DEF FactoryResetCommand
<1> QED
  BY <1>1, <1>2, <1>3, <1>4, <1>5, <1>6, <1>7, <1>8 DEF Next, Steps, Client

-----------------------------------------------------------------------------
(***************************************************************************)
(* The initial states, and who may hold the lock                           *)
(***************************************************************************)

LEMMA InvInit == Init => ValueInv /\ LockInv /\ SaveInv /\ LateInv /\ ChangeInv
<1> SUFFICES ASSUME Init PROVE ValueInv /\ LockInv /\ SaveInv /\ LateInv /\ ChangeInv
  OBVIOUS
<1>1. todo["main"] = <<>> /\ todo["nfc"] = <<>> /\ saved = {} /\ pc = "boot"
      /\ held = FALSE /\ told = None
  BY DEF Init
<1>2. \A a \in Address : Proper(saved, a, ee[a])
  BY ZeroIsProper DEF Init
<1>3. ValueInv
  BY <1>1, <1>2 DEF ValueInv, Client, Resetting
<1>4. LockInv /\ SaveInv /\ LateInv /\ ChangeInv
  BY <1>1 DEF LockInv, Writing, SaveInv, Undisturbed, LateInv, ChangeInv
<1> QED
  BY <1>3, <1>4

(* What the client does leaves the operations of the other alone.          *)
LEMMA OtherTodo ==
  ASSUME TypeOK, NEW c \in Client, Steps(c), NEW d \in Client \ {c}
  PROVE  todo'[d] = todo[d]
BY OpStep DEF TypeOK, Client

LEMMA LockStep ==
  ASSUME TypeOK, LockInv, [Next]_vars
  PROVE  LockInv'
<1>1. ASSUME NEW c \in Client, Steps(c) PROVE LockInv'
  <2>1. /\ todo[c] # <<>> /\ pc' = pc /\ MayRun(c)
        /\ held' => held /\ (c = "main" => ~Programming("main"))
    BY <1>1, OpStep
  <2>2. CASE c = "main"
    <3>1. ~held' /\ todo'["nfc"] = todo["nfc"]
      BY <1>1, <2>1, <2>2, OtherTodo DEF LockInv, Client
    <3> QED
      BY <2>1, <2>2, <3>1 DEF LockInv, Writing
  <2>3. CASE c = "nfc"
    <3>1. todo'["main"] = todo["main"]
      BY <1>1, <2>3, OtherTodo DEF Client
    <3> QED
      BY <2>1, <2>3, <3>1 DEF LockInv, Writing, Programming, Does
  <2> QED
    BY <2>2, <2>3 DEF Client
<1>2. CASE TakesLock
  BY <1>2 DEF TakesLock, LockInv, Writing, Programming, Does
<1>3. ASSUME Boots PROVE LockInv'
  BY <1>3 DEF Boots, LockInv, Writing
<1>4. ASSUME NEW msg, NEW label \in {"boot save", "save"}, Saves(msg, label), Idle
      PROVE  LockInv'
  <2>1. held' = held /\ todo'["nfc"] = todo["nfc"] /\ pc' = label
    BY <1>4 DEF Saves, flash, TypeOK
  <2>2. ~held
    BY <1>4 DEF Idle, LockInv, Programming, Does
  <2> QED
    BY <2>1, <2>2 DEF LockInv
<1>5. CASE UNCHANGED <<held, todo>> /\ Idle /\ pc' = "loop"
  BY <1>5 DEF LockInv, Writing, Idle, Programming, Does
<1>6. ASSUME NEW ops, NfcRuns(ops) PROVE LockInv'
  <2>1. held' = held /\ todo'["main"] = todo["main"] /\ pc' = pc /\ pc # "boot"
    BY <1>6 DEF NfcRuns, flash, TypeOK
  <2> QED
    BY <2>1 DEF LockInv, Writing, Programming, Does
<1>7. CASE UNCHANGED vars
  BY <1>7 DEF vars, flash, LockInv, Writing, Programming, Does
<1>8. ASSUME EEPROM_Load \/ LoadSaved \/ SaveChanges \/ ForgetChanges PROVE LockInv'
  BY <1>3, <1>4, <1>5, <1>8 DEF EEPROM_Load, LoadSaved, SaveChanges, ForgetChanges, flash
<1>9. ASSUME SetConfig \/ (\E p \in Passwords : ChangePassword(p)) \/ FactoryResetCommand
      PROVE  LockInv'
  BY <1>6, <1>9 DEF SetConfig, ChangePassword, FactoryResetCommand
<1>10. ASSUME PowerLoss \/ Resets PROVE LockInv'
  BY <1>3, <1>10 DEF PowerLoss, Resets
<1> QED
  BY <1>1, <1>2, <1>7, <1>8, <1>9, <1>10 DEF Next, Steps, Client

-----------------------------------------------------------------------------
(***************************************************************************)
(* What EEPROM_Save has done so far                                        *)
(***************************************************************************)

(* The effect of one operation on an EEPROM that is unlocked where it must *)
(* be and has refused no word.                                             *)
LEMMA Effect ==
  ASSUME TypeOK, NEW c \in Client, Steps(c),
         Touches(todo[c][1]) => ~pelock,
         Written(todo[c][1]) => ~wrperr /\ ~(c = "nfc" /\ held)
  PROVE  /\ todo' = [todo EXCEPT ![c] = Tail(todo[c])]
         /\ todo[c][1].op = "unlock" => ~pelock' /\ wrperr' = wrperr /\ ee' = ee
         /\ todo[c][1].op = "lock" => wrperr' = wrperr /\ ee' = ee
         /\ Touches(todo[c][1]) => ~pelock' /\ ~wrperr'
         /\ todo[c][1].op = "erase" => ee' = [ee EXCEPT ![todo[c][1].at] = 0] \/ ee' = ee
         /\ Written(todo[c][1]) => ee' = [ee EXCEPT ![todo[c][1].at] = todo[c][1].word]
<1>1. Head(todo[c]) = todo[c][1] /\ todo[c] # <<>>
  BY NextOp, OpStep
<1>2. CASE Unlocks(c)
  BY <1>1, <1>2 DEF Unlocks, Does, Done, Touches, Written
<1>3. CASE Locks(c)
  BY <1>1, <1>3 DEF Locks, Does, Done, Touches, Written
<1>4. CASE Erases(c)
  BY <1>1, <1>4 DEF Erases, Does, Done, Touches, Written
<1>5. CASE Programs(c)
  <2>1. Written(todo[c][1]) /\ Touches(todo[c][1])
    BY <1>1, <1>5 DEF Programs, Programming, Does, Touches, Written
  <2>2. ~wrperr /\ ~pelock
    BY <2>1
  <2>3. /\ wrperr' = pelock /\ pelock' = pelock
        /\ ee' = [ee EXCEPT ![Head(todo[c]).at] = Head(todo[c]).word] /\ Done(c)
    BY <1>5, <2>2 DEF Programs
  <2> QED
    BY <1>1, <2>1, <2>2, <2>3 DEF Done, Written
<1>6. CASE c = "nfc" /\ Busy
  BY <1>1, <1>6 DEF Busy, Programming, Does, Written
<1> QED
  BY <1>2, <1>3, <1>4, <1>5, <1>6 DEF Steps

LEMMA SaveStart ==
  ASSUME TypeOK, NEW msg \in Configs, NEW label, Saves(msg, label), Idle
  PROVE  SaveInv'
<1> DEFINE n == Len(msg)
<1>1. /\ todo'["main"] = EEPROM_Save(msg) /\ todo'["nfc"] = <<>> /\ lastSaved' = msg
  BY DEF Saves, Idle, TypeOK
<1>2. n \in Nat \ {0} /\ Len(todo'["main"]) = 2 * n + 10
  BY <1>1, ConfigIsMessage, SaveOps
<1>3. SaveAt' = 1
  BY <1>1, <1>2 DEF SaveAt
<1>4. ~Unlocked(1, n)
  BY <1>2 DEF Unlocked
<1>5. \A i \in 1 .. Len(todo'["main"]) : todo'["main"][i] = EEPROM_Save(msg)[SaveAt' - 1 + i]
  BY <1>1, <1>2, <1>3
<1>6. ~(SaveAt' > 2) /\ ~(SaveAt' > n + 4) /\ ~(SaveAt' > n + 7)
      /\ \A j \in 1 .. n : ~(SaveAt' > n + 9 + j)
  BY <1>2, <1>3
<1>7. SaveAt' >= 1
  BY <1>3
<1> QED
  BY <1>1, <1>3, <1>4, <1>5, <1>6, <1>7 DEF SaveInv

(* What main does next while it saves.                                     *)
LEMMA SaveNext ==
  ASSUME TypeOK, SaveInv, Undisturbed, Writing
  PROVE  /\ Len(lastSaved) \in Nat \ {0} /\ SaveAt \in 1 .. 2 * Len(lastSaved) + 10
         /\ Len(todo["main"]) = 2 * Len(lastSaved) + 11 - SaveAt
         /\ todo["main"][1] = SaveOp(lastSaved, SaveAt)
<1> DEFINE n == Len(lastSaved)
           L == Len(todo["main"])
<1>1. n \in Nat \ {0} /\ lastSaved \in Configs
  <2>1. lastSaved \in Configs
    BY DEF TypeOK
  <2> QED
    BY <2>1, ConfigIsMessage
<1>2. L \in Nat \ {0}
  BY NextOp DEF Writing, Client
<1>3. SaveAt = 2 * n + 11 - L /\ SaveAt >= 1
      /\ \A i \in 1 .. L : todo["main"][i] = EEPROM_Save(lastSaved)[SaveAt - 1 + i]
  BY DEF SaveInv, SaveAt
<1> HIDE DEF n, L
<1>4. SaveAt \in 1 .. 2 * n + 10 /\ L = 2 * n + 11 - SaveAt /\ SaveAt - 1 + 1 = SaveAt
  BY <1>1, <1>2, <1>3
<1>5. todo["main"][1] = EEPROM_Save(lastSaved)[SaveAt]
  BY <1>2, <1>3, <1>4
<1>6. todo["main"][1] = SaveOp(lastSaved, SaveAt)
  BY <1>1, <1>4, <1>5, SaveOps DEF n
<1> QED
  BY <1>1, <1>4, <1>6 DEF n, L

LEMMA SaveMainStep ==
  ASSUME TypeOK, ValueInv, SaveInv, Steps("main")
  PROVE  SaveInv'
<1> DEFINE n == Len(lastSaved)
           k == SaveAt
           op == todo["main"][1]
<1> SUFFICES ASSUME Undisturbed' PROVE SaveInv'
  BY DEF SaveInv
<1>1. /\ todo["main"] # <<>> /\ MayRun("main") /\ UNCHANGED <<config, pc, history>>
      /\ lastSaved' = lastSaved
  BY OpStep DEF Client, history
<1>2. Undisturbed /\ Writing /\ todo["nfc"] = <<>>
  <2>1. Resetting' <=> Resetting
    BY ResettingKept DEF Client
  <2> QED
    BY <1>1, <2>1 DEF Undisturbed, Writing, MayRun, config, history
<1>3. /\ n \in Nat \ {0} /\ k \in 1 .. 2 * n + 10 /\ Len(todo["main"]) = 2 * n + 11 - k
      /\ op = SaveOp(lastSaved, k) /\ lastSaved \in Configs
  BY <1>2, SaveNext DEF TypeOK
<1>4. /\ Unlocked(k, n) => ~pelock
      /\ k > 2 => ~wrperr
      /\ k > n + 4 => ee[EEPROM_APP] = CRC[lastSaved]
      /\ k > n + 7 => ee[EEPROM_APP_LEN] = n
      /\ \A j \in 1 .. n : k > n + 9 + j => ee[Msg(j)] = lastSaved[j]
      /\ \A i \in 1 .. Len(todo["main"]) : todo["main"][i] = EEPROM_Save(lastSaved)[k - 1 + i]
  BY <1>2 DEF SaveInv
<1>5. /\ \A i \in {1, n + 3, n + 6, n + 9} : SaveOp(lastSaved, i) = Unlock
      /\ \A i \in {n + 2, n + 5, n + 8, 2 * n + 10} : SaveOp(lastSaved, i) = Lock
      /\ \A i \in 2 .. n + 1 : SaveOp(lastSaved, i) = Erase(Msg(i - 1))
      /\ SaveOp(lastSaved, n + 4) = Program(EEPROM_APP, CRC[lastSaved])
      /\ SaveOp(lastSaved, n + 7) = Program(EEPROM_APP_LEN, n)
      /\ \A i \in n + 10 .. 2 * n + 9 :
           SaveOp(lastSaved, i) = Write(Msg(i - n - 9), lastSaved[i - n - 9])
  BY <1>3, SaveOpAt, Zenon
<1> HIDE DEF n, k, op
<1>6. \/ k \in {1, n + 3, n + 6, n + 9} /\ op = Unlock
      \/ k \in {n + 2, n + 5, n + 8, 2 * n + 10} /\ op = Lock
      \/ k \in 2 .. n + 1 /\ op = Erase(Msg(k - 1))
      \/ k = n + 4 /\ op = Program(EEPROM_APP, CRC[lastSaved])
      \/ k = n + 7 /\ op = Program(EEPROM_APP_LEN, n)
      \/ k \in n + 10 .. 2 * n + 9 /\ op = Write(Msg(k - n - 9), lastSaved[k - n - 9])
  BY <1>3, <1>5, SaveOpRange, Zenon
<1>7. /\ Touches(op) => Unlocked(k, n) /\ ~pelock
      /\ Written(op) => ~wrperr
  <2>1. CASE op \in {Unlock, Lock}
    BY <2>1 DEF Touches, Written, Unlock, Lock
  <2>2. CASE k \in 2 .. n + 1 /\ op = Erase(Msg(k - 1))
    BY <1>3, <1>4, <2>2 DEF Unlocked, Written, Erase
  <2>3. CASE k = n + 4 \/ k = n + 7 \/ k \in n + 10 .. 2 * n + 9
    <3>1. n \in Nat \ {0} /\ k \in Nat
      BY <1>3
    <3>2. Unlocked(k, n) /\ k > 2
      BY <2>3, <3>1 DEF Unlocked
    <3> QED
      BY <1>4, <3>2
  <2> QED
    BY <1>6, <2>1, <2>2, <2>3
<1>8. /\ todo' = [todo EXCEPT !["main"] = Tail(todo["main"])]
      /\ op.op = "unlock" => ~pelock' /\ wrperr' = wrperr /\ ee' = ee
      /\ op.op = "lock" => wrperr' = wrperr /\ ee' = ee
      /\ Touches(op) => ~pelock' /\ ~wrperr'
      /\ op.op = "erase" => ee' = [ee EXCEPT ![op.at] = 0] \/ ee' = ee
      /\ Written(op) => ee' = [ee EXCEPT ![op.at] = op.word]
  BY <1>7, Effect DEF Client, op
<1>9. /\ todo'["main"] = Tail(todo["main"]) /\ todo'["nfc"] = todo["nfc"]
      /\ Len(todo'["main"]) = Len(todo["main"]) - 1
      /\ \A i \in 1 .. Len(todo["main"]) - 1 : todo'["main"][i] = todo["main"][i + 1]
  BY <1>1, <1>8, NextOp DEF TypeOK, Client
<1>10. SaveAt' = k + 1
  <2>1. SaveAt' = 2 * n + 11 - Len(todo'["main"])
    BY <1>1 DEF SaveAt, n
  <2>2. Len(todo'["main"]) = (2 * n + 11 - k) - 1
    BY <1>3, <1>9
  <2> QED
    BY <1>3, <2>1, <2>2
<1>11. \A i \in 1 .. Len(todo'["main"]) :
         todo'["main"][i] = EEPROM_Save(lastSaved)[(k + 1) - 1 + i]
  <2> TAKE i \in 1 .. Len(todo'["main"])
  <2>1. i \in 1 .. Len(todo["main"]) - 1
    BY <1>9
  <2>2. Len(todo["main"]) \in Nat /\ k \in Nat
    BY <1>3
  <2> HIDE DEF k
  <2>3. i + 1 \in 1 .. Len(todo["main"]) /\ k - 1 + (i + 1) = (k + 1) - 1 + i
    BY <2>1, <2>2
  <2>4. todo["main"][i + 1] = EEPROM_Save(lastSaved)[k - 1 + (i + 1)]
    BY <1>4, <2>3 DEF k
  <2> QED
    BY <1>9, <2>1, <2>3, <2>4
<1>12. (Unlocked(k + 1, n) => ~pelock') /\ (k + 1 > 2 => ~wrperr')
  <2>1. CASE k \in {1, n + 3, n + 6, n + 9} /\ op = Unlock
    BY <1>3, <1>4, <1>8, <2>1 DEF Unlock
  <2>2. CASE k \in {n + 2, n + 5, n + 8, 2 * n + 10} /\ op = Lock
    <3>1. ~Unlocked(k + 1, n) /\ k > 2
      BY <1>3, <2>2 DEF Unlocked
    <3> QED
      BY <1>4, <1>8, <2>2, <3>1 DEF Lock
  <2>3. CASE Touches(op)
    BY <1>8, <2>3
  <2> QED
    BY <1>6, <2>1, <2>2, <2>3 DEF Touches, Erase, Program, Write
<1>13. /\ k + 1 > n + 4 => ee'[EEPROM_APP] = CRC[lastSaved]
       /\ k + 1 > n + 7 => ee'[EEPROM_APP_LEN] = n
       /\ \A j \in 1 .. n : k + 1 > n + 9 + j => ee'[Msg(j)] = lastSaved[j]
  <2>1. CASE op \in {Unlock, Lock}
    <3>1. ee' = ee /\ k # n + 4 /\ k # n + 7 /\ k \notin n + 10 .. 2 * n + 9
      <4>1. k \in {1, n + 3, n + 6, n + 9} \/ k \in {n + 2, n + 5, n + 8, 2 * n + 10}
        BY <1>6, <2>1 DEF Unlock, Lock, Erase, Program, Write
      <4> QED
        BY <1>3, <1>8, <2>1, <4>1 DEF Unlock, Lock
    <3>2. \A j \in 1 .. n : k + 1 > n + 9 + j => k > n + 9 + j
      BY <1>3, <3>1
    <3> QED
      BY <1>3, <1>4, <3>1, <3>2
  <2>2. CASE k \in 2 .. n + 1
    BY <1>3, <2>2
  <2>3. CASE k = n + 4 /\ op = Program(EEPROM_APP, CRC[lastSaved])
    <3>1. ee' = [ee EXCEPT ![EEPROM_APP] = CRC[lastSaved]]
      BY <1>8, <2>3 DEF Program, Written
    <3>2. ee'[EEPROM_APP] = CRC[lastSaved]
      BY <3>1, Addresses DEF TypeOK
    <3>3. ~(k + 1 > n + 7) /\ \A j \in 1 .. n : ~(k + 1 > n + 9 + j)
      BY <1>3, <2>3
    <3> QED
      BY <3>2, <3>3
  <2>4. CASE k = n + 7 /\ op = Program(EEPROM_APP_LEN, n)
    <3>1. ee' = [ee EXCEPT ![EEPROM_APP_LEN] = n]
      BY <1>8, <2>4 DEF Program, Written
    <3>2. ee'[EEPROM_APP_LEN] = n /\ ee'[EEPROM_APP] = ee[EEPROM_APP]
      <4>1. EEPROM_APP # EEPROM_APP_LEN
        BY DEF EEPROM_APP, EEPROM_APP_LEN
      <4> QED
        BY <3>1, <4>1, Addresses DEF TypeOK
    <3>3. k > n + 4 /\ \A j \in 1 .. n : ~(k + 1 > n + 9 + j)
      BY <1>3, <2>4
    <3> QED
      BY <1>4, <3>2, <3>3
  <2>5. CASE k \in n + 10 .. 2 * n + 9 /\ op = Write(Msg(k - n - 9), lastSaved[k - n - 9])
    <3> DEFINE m == k - n - 9
    <3>1. ee' = [ee EXCEPT ![Msg(m)] = lastSaved[m]]
      BY <1>8, <2>5 DEF Write, Written
    <3>2. m \in 1 .. n /\ k = n + 9 + m
      BY <1>3, <2>5
    <3>3. n \in 1 .. Payload /\ Payload \in Nat
      BY <1>3, ConfigIsMessage, Constants DEF n
    <3> HIDE DEF m
    <3>4. \A j \in 1 .. n : Msg(j) \in Address /\ Msg(j) # EEPROM_APP /\ Msg(j) # EEPROM_APP_LEN
                            /\ (j # m => Msg(j) # Msg(m))
      BY <3>2, <3>3 DEF Msg, Address, EEPROM_APP, EEPROM_APP_LEN
    <3>5. \A a \in Address : ee'[a] = IF a = Msg(m) THEN lastSaved[m] ELSE ee[a]
      BY <3>1 DEF TypeOK
    <3>6. \A j \in 1 .. n : k + 1 > n + 9 + j => j = m \/ k > n + 9 + j
      BY <1>3, <3>2
    <3>7. \A j \in 1 .. n : k + 1 > n + 9 + j => ee'[Msg(j)] = lastSaved[j]
      BY <1>4, <3>4, <3>5, <3>6
    <3>8. k > n + 4 /\ k > n + 7
      BY <1>3, <2>5
    <3> QED
      BY <1>4, <3>2, <3>4, <3>5, <3>7, <3>8, Addresses
  <2> QED
    BY <1>6, <2>1, <2>2, <2>3, <2>4, <2>5
<1>14. k + 1 >= 1
  BY <1>3
<1>15. n = Len(lastSaved)
  BY DEF n
<1> QED
  BY <1>1, <1>2, <1>9, <1>10, <1>11, <1>12, <1>13, <1>14, <1>15 DEF SaveInv

(* What the interrupt does leaves the configuration alone.                 *)
LEMMA SaveNfcStep ==
  ASSUME TypeOK, ValueInv, SaveInv, Steps("nfc")
  PROVE  SaveInv'
<1> SUFFICES ASSUME Undisturbed' PROVE SaveInv'
  BY DEF SaveInv
<1>1. todo["nfc"] # <<>> /\ UNCHANGED <<pc, changed, history>> /\ todo'["main"] = todo["main"]
      /\ lastSaved' = lastSaved
  BY OpStep, OtherTodo DEF Client, config, history
<1>2. Undisturbed /\ ~Writing /\ ~Resetting
  <2>1. Resetting' <=> Resetting
    BY ResettingKept DEF Client
  <2> QED
    BY <1>1, <2>1 DEF Undisturbed, history, SaveInv
<1>3. \A a \in Address : a >= EEPROM_APP => ee'[a] = ee[a]
  <2>1. PasswordOp(todo["nfc"][1]) /\ todo["nfc"][1].at \in Address
    BY <1>1, <1>2, NextOp DEF ValueInv, Client, Op
  <2>2. \/ ee' = ee
        \/ Touches(todo["nfc"][1]) /\ \E w : ee' = [ee EXCEPT ![todo["nfc"][1].at] = w]
    BY OpStep DEF Client, Touches, Written
  <2>3. Touches(todo["nfc"][1]) => \A a \in Address : a >= EEPROM_APP => a # todo["nfc"][1].at
    BY <2>1, Addresses DEF PasswordOp, EEPROM_APP
  <2> QED
    BY <2>2, <2>3 DEF TypeOK
<1>4. SaveAt' = SaveAt /\ ~Writing' /\ Len(lastSaved) \in 1 .. Payload /\ Payload \in Nat
  BY <1>1, <1>2, ConfigIsMessage, Constants DEF SaveAt, Writing, TypeOK
<1>5. \A j \in 1 .. Len(lastSaved) : Msg(j) \in Address /\ Msg(j) >= EEPROM_APP
  BY <1>4 DEF Msg, Address, EEPROM_APP, EEPROM_APP_LEN
<1>6. ee'[EEPROM_APP] = ee[EEPROM_APP] /\ ee'[EEPROM_APP_LEN] = ee[EEPROM_APP_LEN]
      /\ \A j \in 1 .. Len(lastSaved) : ee'[Msg(j)] = ee[Msg(j)]
  <2>1. EEPROM_APP >= EEPROM_APP /\ EEPROM_APP_LEN >= EEPROM_APP
    BY DEF EEPROM_APP, EEPROM_APP_LEN
  <2> QED
    BY <1>3, <1>5, <2>1, Addresses
<1> QED
  BY <1>1, <1>2, <1>4, <1>6 DEF SaveInv

LEMMA SaveStep ==
  ASSUME TypeOK, ValueInv, SaveInv, [Next]_vars
  PROVE  SaveInv'
<1>1. ASSUME NEW c \in Client, Steps(c) PROVE SaveInv'
  BY <1>1, SaveMainStep, SaveNfcStep DEF Client
<1>2. ASSUME pc' = "boot" \/ (pc' = "loop" /\ changed') PROVE SaveInv'
  BY <1>2 DEF SaveInv, Undisturbed
<1>3. ASSUME NEW label, Saves(DevCfg, label), Idle PROVE SaveInv'
  BY <1>3, SaveStart DEF TypeOK
<1>4. ASSUME EEPROM_Load \/ LoadSaved \/ SaveChanges PROVE SaveInv'
  BY <1>2, <1>3, <1>4 DEF EEPROM_Load, LoadSaved, SaveChanges, Boots
<1>5. ASSUME PowerLoss \/ Resets PROVE SaveInv'
  BY <1>2, <1>5 DEF PowerLoss, Resets, Boots
<1>6. ASSUME NEW ops, NfcRuns(ops), changed => changed' PROVE SaveInv'
  <2> SUFFICES ASSUME Undisturbed' PROVE SaveInv'
    BY DEF SaveInv
  <2>1. /\ todo["nfc"] = <<>> /\ todo'["main"] = todo["main"]
        /\ ee' = ee /\ pelock' = pelock /\ wrperr' = wrperr
        /\ pc' = pc /\ lastSaved' = lastSaved
    BY <1>6 DEF NfcRuns, flash, TypeOK
  <2>2. ~clash /\ ~(Writing /\ todo'["nfc"] # <<>>)
    BY <1>6, Zenon DEF NfcRuns, Undisturbed
  <2>3. Undisturbed
    BY <1>6, <2>1, <2>2 DEF Undisturbed, Resetting
  <2>4. SaveAt' = SaveAt /\ (Writing' <=> Writing)
    BY <2>1 DEF SaveAt, Writing
  <2> QED
    BY <2>1, <2>2, <2>3, <2>4 DEF SaveInv
<1>7. ASSUME SetConfig \/ (\E p \in Passwords : ChangePassword(p)) \/ FactoryResetCommand
      PROVE  SaveInv'
  BY <1>6, <1>7 DEF SetConfig, ChangePassword, FactoryResetCommand, config
<1>8. CASE TakesLock \/ UNCHANGED vars
  <2>1. UNCHANGED <<ee, pelock, wrperr, todo, pc, changed, lastSaved, clash>>
    BY <1>8 DEF TakesLock, vars, flash, config, history
  <2>2. (Undisturbed' <=> Undisturbed) /\ SaveAt' = SaveAt /\ (Writing' <=> Writing)
    BY <2>1 DEF Undisturbed, Resetting, SaveAt, Writing
  <2> QED
    BY <2>1, <2>2 DEF SaveInv
<1>9. CASE ForgetChanges
  <2>1. UNCHANGED <<ee, pelock, wrperr, todo, lastSaved, clash>> /\ pc = "save" /\ pc' = "loop"
    BY <1>9 DEF ForgetChanges, flash, history
  <2>2. (Undisturbed' => Undisturbed) /\ SaveAt' = SaveAt /\ (Writing' <=> Writing)
    BY <2>1 DEF Undisturbed, Resetting, SaveAt, Writing
  <2> QED
    BY <2>1, <2>2 DEF SaveInv
<1> QED
  BY <1>1, <1>4, <1>5, <1>7, <1>8, <1>9 DEF Next, Steps, Client

LEMMA LateStep ==
  ASSUME TypeOK, LateInv, [Next]_vars
  PROVE  LateInv'
<1>1. CASE UNCHANGED <<DevCfg, changed, pc, lastSaved, late>>
  BY <1>1 DEF LateInv
<1>2. ASSUME pc' \in {"boot", "boot save"} \/ (pc' = "loop" /\ changed') PROVE LateInv'
  BY <1>2 DEF LateInv
<1>3. ASSUME NEW c \in Client, Steps(c) PROVE LateInv'
  BY <1>1, <1>3 DEF Steps, Unlocks, Locks, Erases, Programs, Busy, config, history
<1>4. CASE TakesLock \/ FactoryResetCommand \/ UNCHANGED vars
  BY <1>1, <1>4 DEF TakesLock, FactoryResetCommand, NfcRuns, vars, config, history
<1>5. CASE PowerLoss \/ Resets \/ EEPROM_Load \/ LoadSaved
  BY <1>2, <1>5 DEF PowerLoss, Resets, EEPROM_Load, LoadSaved, Boots, Saves
<1>6. CASE SaveChanges
  BY <1>6 DEF SaveChanges, Saves, config, LateInv
<1>7. CASE ForgetChanges
  BY <1>7 DEF ForgetChanges, history, LateInv
<1>8. CASE SetConfig
  BY <1>8 DEF SetConfig, LateInv
<1>9. ASSUME NEW p \in Passwords, ChangePassword(p) PROVE LateInv'
  BY <1>1, <1>9 DEF ChangePassword, NfcRuns, config
<1> QED
  BY <1>3, <1>4, <1>5, <1>6, <1>7, <1>8, <1>9 DEF Next, Steps, Client

-----------------------------------------------------------------------------
(***************************************************************************)
(* What the last change of the password has done so far                    *)
(***************************************************************************)

LEMMA Apart ==
  /\ EEPROM_PW # EEPROM_PW_COMPLEMENT
  /\ EEPROM_APP \notin {EEPROM_PW, EEPROM_PW_COMPLEMENT}
  /\ EEPROM_APP_LEN \notin {EEPROM_PW, EEPROM_PW_COMPLEMENT}
BY DEF EEPROM_PW, EEPROM_PW_COMPLEMENT, EEPROM_APP, EEPROM_APP_LEN

(* What does not touch the password, while no handler runs.                *)
LEMMA ChangeKept ==
  ASSUME ChangeInv, todo["nfc"] = <<>>, todo'["nfc"] = <<>>, told' \in {told, None},
         ee'[EEPROM_PW] = ee[EEPROM_PW],
         ee'[EEPROM_PW_COMPLEMENT] = ee[EEPROM_PW_COMPLEMENT]
  PROVE  ChangeInv'
<1> SUFFICES ASSUME told' # None, ~Resetting' PROVE ChangeInv'
  BY DEF ChangeInv
<1>1. told' = told /\ told # None /\ ~Resetting
  BY DEF Resetting
<1>2. ChangeAt = 13 /\ ChangeAt' = 13
  BY DEF ChangeAt
<1>3. ee[EEPROM_PW] = told /\ ee[EEPROM_PW_COMPLEMENT] = MaxWord - told
  BY <1>1, <1>2 DEF ChangeInv
<1>4. Len(todo'["nfc"]) <= 24
      /\ \A i \in 1 .. Len(todo'["nfc"]) :
           todo'["nfc"][i] =
             IF ChangeAt' - 1 + i >= 1 THEN HW_ChangePW(told')[ChangeAt' - 1 + i]
             ELSE HW_ChangePW(DefaultPassword)[ChangeAt' - 1 + i + 12]
  OBVIOUS
<1>5. ChangeAt' \notin {2, 3, 5, 6, 8, 9, 11, 12} /\ ChangeAt' \notin 3 .. 12
  BY <1>2
<1> QED
  BY <1>1, <1>3, <1>4, <1>5 DEF ChangeInv

LEMMA ChangeMainStep ==
  ASSUME TypeOK, ValueInv, ChangeInv, Steps("main")
  PROVE  ChangeInv'
<1>1. todo["main"] # <<>> /\ todo["nfc"] = <<>> /\ todo'["nfc"] = <<>> /\ told' = told
  BY OpStep, OtherTodo DEF Client, MayRun, history
<1>2. MainOp(todo["main"][1]) /\ todo["main"][1].at \in Address
  BY <1>1, NextOp DEF ValueInv, Client, Op
<1>3. \/ ee' = ee
      \/ Touches(todo["main"][1]) /\ \E w : ee' = [ee EXCEPT ![todo["main"][1].at] = w]
  BY OpStep DEF Client, Touches, Written
<1>4. Touches(todo["main"][1]) =>
        EEPROM_PW # todo["main"][1].at /\ EEPROM_PW_COMPLEMENT # todo["main"][1].at
  BY <1>2, Addresses DEF MainOp, EEPROM_PW, EEPROM_PW_COMPLEMENT, EEPROM_APP
<1>5. ee'[EEPROM_PW] = ee[EEPROM_PW] /\ ee'[EEPROM_PW_COMPLEMENT] = ee[EEPROM_PW_COMPLEMENT]
  BY <1>3, <1>4, Addresses DEF TypeOK
<1> QED
  BY <1>1, <1>5, ChangeKept

LEMMA ChangeNfcStep ==
  ASSUME TypeOK, ValueInv, LockInv, ChangeInv, Steps("nfc")
  PROVE  ChangeInv'
<1> DEFINE s == todo["nfc"]
           k == ChangeAt
           op == s[1]
<1> SUFFICES ASSUME told' # None, ~Resetting' PROVE ChangeInv'
  BY DEF ChangeInv
<1>1. s # <<>> /\ told' = told /\ todo'["main"] = todo["main"]
  BY OpStep, OtherTodo DEF Client, history
<1>2. ~Resetting /\ told \in AnyPassword
  <2>1. Resetting' <=> Resetting
    BY ResettingKept DEF Client
  <2> QED
    BY <1>1, <2>1, Constants DEF TypeOK
<1>3. /\ ~Writing /\ Len(s) <= 24
      /\ \A i \in 1 .. Len(s) :
           s[i] = IF k - 1 + i >= 1 THEN HW_ChangePW(told)[k - 1 + i]
                  ELSE HW_ChangePW(DefaultPassword)[k - 1 + i + 12]
      /\ k \in {2, 3, 5, 6, 8, 9, 11, 12} => ~pelock
      /\ k \in 3 .. 12 => ~wrperr
      /\ k > 8 => ee[EEPROM_PW] = told
      /\ k > 11 => ee[EEPROM_PW_COMPLEMENT] = MaxWord - told
  BY <1>1, <1>2 DEF ChangeInv
<1>4. Len(s) \in Nat \ {0} /\ k = 13 - Len(s) /\ op.op # "write"
  BY <1>1, NextOp DEF Client, ChangeAt, ValueInv
<1>5. /\ todo'["nfc"] = Tail(s) /\ Len(todo'["nfc"]) = Len(s) - 1
      /\ \A i \in 1 .. Len(s) - 1 : todo'["nfc"][i] = s[i + 1]
  <2>1. todo'["nfc"] = Tail(s)
    BY <1>4, OpStep DEF TypeOK, Client
  <2> QED
    BY <1>1, <2>1, NextOp DEF Client
<1>6. ~held
  BY <1>3 DEF LockInv, Writing, Programming, Does
<1> HIDE DEF s, k, op
<1>7. ChangeAt' = k + 1
  <2>1. ChangeAt' = 13 - Len(todo'["nfc"])
    BY DEF ChangeAt
  <2> QED
    BY <1>4, <1>5, <2>1
<1>8. \A i \in 1 .. Len(todo'["nfc"]) :
        todo'["nfc"][i] =
          IF (k + 1) - 1 + i >= 1 THEN HW_ChangePW(told)[(k + 1) - 1 + i]
          ELSE HW_ChangePW(DefaultPassword)[(k + 1) - 1 + i + 12]
  <2> TAKE i \in 1 .. Len(todo'["nfc"])
  <2>1. i \in 1 .. Len(s) - 1 /\ i + 1 \in 1 .. Len(s) /\ k - 1 + (i + 1) = (k + 1) - 1 + i
    BY <1>4, <1>5
  <2> QED
    BY <1>3, <1>5, <2>1
<1>9. /\ k + 1 \in {2, 3, 5, 6, 8, 9, 11, 12} => ~pelock'
      /\ k + 1 \in 3 .. 12 => ~wrperr'
      /\ k + 1 > 8 => ee'[EEPROM_PW] = told
      /\ k + 1 > 11 => ee'[EEPROM_PW_COMPLEMENT] = MaxWord - told
  <2>1. CASE k < 1
    BY <1>4, <2>1
  <2>2. CASE k >= 1
    <3>1. k \in 1 .. 12
      BY <1>4, <2>2
    <3>2. op = ChangeOp(told, k)
      <4>1. op = HW_ChangePW(told)[k]
        BY <1>3, <1>4, <2>2 DEF op
      <4> QED
        BY <1>2, <3>1, <4>1, ChangeOps
    <3>3. \/ k \in {1, 4, 7, 10} /\ op = Unlock
          \/ k \in {3, 6, 9, 12} /\ op = Lock
          \/ k = 2 /\ op = Erase(EEPROM_PW)
          \/ k = 5 /\ op = Erase(EEPROM_PW_COMPLEMENT)
          \/ k = 8 /\ op = Program(EEPROM_PW, told)
          \/ k = 11 /\ op = Program(EEPROM_PW_COMPLEMENT, MaxWord - told)
      BY <3>1, <3>2 DEF ChangeOp
    <3>4. Touches(op) => ~pelock /\ k \in {2, 5, 8, 11}
      BY <1>3, <3>3 DEF Touches, Unlock, Lock
    <3>5. Written(op) => ~wrperr /\ ~held
      BY <1>3, <1>6, <3>3 DEF Written, Unlock, Lock, Erase
    <3>6. /\ op.op = "unlock" => ~pelock' /\ wrperr' = wrperr /\ ee' = ee
          /\ op.op = "lock" => wrperr' = wrperr /\ ee' = ee
          /\ Touches(op) => ~pelock' /\ ~wrperr'
          /\ op.op = "erase" => ee' = [ee EXCEPT ![op.at] = 0] \/ ee' = ee
          /\ Written(op) => ee' = [ee EXCEPT ![op.at] = op.word]
      BY <3>4, <3>5, Effect DEF Client, op, s
    <3>7. CASE k \in {1, 4, 7, 10} /\ op = Unlock
      BY <1>3, <3>6, <3>7 DEF Unlock
    <3>8. CASE k \in {3, 6, 9, 12} /\ op = Lock
      BY <1>3, <3>6, <3>8 DEF Lock
    <3>9. CASE (k = 2 /\ op = Erase(EEPROM_PW)) \/ (k = 5 /\ op = Erase(EEPROM_PW_COMPLEMENT))
      BY <3>6, <3>9 DEF Erase, Touches
    <3>10. CASE k = 8 /\ op = Program(EEPROM_PW, told)
      <4>1. ee' = [ee EXCEPT ![EEPROM_PW] = told] /\ ~pelock' /\ ~wrperr'
        BY <3>6, <3>10 DEF Program, Written, Touches
      <4>2. ee'[EEPROM_PW] = told
        BY <4>1, Addresses DEF TypeOK
      <4> QED
        BY <3>10, <4>1, <4>2
    <3>11. CASE k = 11 /\ op = Program(EEPROM_PW_COMPLEMENT, MaxWord - told)
      <4>1. ee' = [ee EXCEPT ![EEPROM_PW_COMPLEMENT] = MaxWord - told] /\ ~pelock' /\ ~wrperr'
        BY <3>6, <3>11 DEF Program, Written, Touches
      <4>2. ee'[EEPROM_PW_COMPLEMENT] = MaxWord - told /\ ee'[EEPROM_PW] = ee[EEPROM_PW]
        BY <4>1, Addresses, Apart DEF TypeOK
      <4> QED
        BY <1>3, <3>11, <4>1, <4>2
    <3> QED
      BY <3>3, <3>7, <3>8, <3>9, <3>10, <3>11
  <2> QED
    BY <1>4, <2>1, <2>2
<1>10. ~Writing' /\ Len(todo'["nfc"]) <= 24
  BY <1>1, <1>3, <1>4, <1>5 DEF Writing
<1> QED
  BY <1>1, <1>7, <1>8, <1>9, <1>10 DEF ChangeInv

(* The handler of a new password, as it begins.                            *)
LEMMA ChangeStart ==
  ASSUME TypeOK, NEW p \in Passwords, ChangePassword(p)
  PROVE  ChangeInv'
<1> DEFINE t == HW_ChangePW(p)
           s == PresetPassword \o t
<1> SUFFICES ASSUME told' # None PROVE ChangeInv'
  BY DEF ChangeInv
<1>1. /\ todo'["main"] = todo["main"] /\ todo'["nfc"] = s
  BY DEF ChangePassword, NfcRuns, TypeOK
<1>2. told' = p /\ ~Writing'
  BY <1>1 DEF ChangePassword, Writing
<1>3. t \in Seq(Op) /\ Len(t) = 12 /\ \A k \in 1 .. 12 : t[k] = ChangeOp(p, k)
  BY ChangeOps, Constants
<1>4. /\ PwValid => s = t
      /\ ~PwValid => /\ Len(s) = 12 + Len(t)
                     /\ \A k \in 1 .. 12 : s[k] = ChangeOp(DefaultPassword, k)
                     /\ \A k \in 13 .. 12 + Len(t) : s[k] = t[k - 12]
  BY <1>3, PresetOps
<1>5. \A k \in 1 .. 12 : HW_ChangePW(DefaultPassword)[k] = ChangeOp(DefaultPassword, k)
  BY ChangeOps, Constants
<1>6. ChangeAt' = 13 - Len(s)
  BY <1>1 DEF ChangeAt
<1> HIDE DEF t, s
<1>7. /\ Len(s) \in {12, 24}
      /\ \A i \in 1 .. Len(s) :
           s[i] = IF 13 - Len(s) - 1 + i >= 1 THEN t[13 - Len(s) - 1 + i]
                  ELSE HW_ChangePW(DefaultPassword)[13 - Len(s) - 1 + i + 12]
  <2>1. CASE PwValid
    <3>1. Len(s) = 12 /\ s = t
      BY <1>3, <1>4, <2>1
    <3>2. ASSUME NEW i \in 1 .. 12
          PROVE  i = 13 - Len(s) - 1 + i /\ i >= 1
      BY <3>1
    <3> QED
      BY <3>1, <3>2
  <2>2. CASE ~PwValid
    <3>1. Len(s) = 24
      BY <1>3, <1>4, <2>2
    <3>2. ASSUME NEW i \in 1 .. 24
          PROVE  s[i] = IF 13 - Len(s) - 1 + i >= 1 THEN t[13 - Len(s) - 1 + i]
                        ELSE HW_ChangePW(DefaultPassword)[13 - Len(s) - 1 + i + 12]
      <4>1. 13 - Len(s) - 1 + i = i - 12 /\ 13 - Len(s) - 1 + i + 12 = i
        BY <3>1
      <4>2. CASE i <= 12
        <5>1. i \in 1 .. 12 /\ ~(i - 12 >= 1)
          BY <4>2
        <5>2. s[i] = HW_ChangePW(DefaultPassword)[i]
          BY <1>4, <1>5, <2>2, <5>1
        <5> QED
          BY <4>1, <5>1, <5>2
      <4>3. CASE i > 12
        <5>1. i \in 13 .. 12 + Len(t) /\ i - 12 >= 1
          BY <1>3, <4>3
        <5>2. s[i] = t[i - 12]
          BY <1>4, <2>2, <5>1
        <5> QED
          BY <4>1, <5>1, <5>2
      <4> QED
        BY <4>2, <4>3
    <3> QED
      BY <3>1, <3>2
  <2> QED
    BY <2>1, <2>2
<1>8. ChangeAt' \in {1, 0 - 11} /\ Len(s) <= 24
  <2>1. CASE Len(s) = 12
    BY <1>6, <2>1
  <2>2. CASE Len(s) = 24
    BY <1>6, <2>2
  <2> QED
    BY <1>7, <2>1, <2>2
<1>9. /\ ChangeAt' \notin {2, 3, 5, 6, 8, 9, 11, 12} /\ ChangeAt' \notin 3 .. 12
      /\ ~(ChangeAt' > 8) /\ ~(ChangeAt' > 11)
  BY <1>8
<1>10. /\ Len(todo'["nfc"]) <= 24
       /\ \A i \in 1 .. Len(todo'["nfc"]) :
            todo'["nfc"][i] =
              IF ChangeAt' - 1 + i >= 1 THEN HW_ChangePW(told')[ChangeAt' - 1 + i]
              ELSE HW_ChangePW(DefaultPassword)[ChangeAt' - 1 + i + 12]
  <2>1. t = HW_ChangePW(told')
    BY <1>2 DEF t
  <2> QED
    BY <1>1, <1>6, <1>7, <1>8, <2>1, Zenon
<1> QED
  BY <1>2, <1>9, <1>10 DEF ChangeInv

LEMMA ChangeStep ==
  ASSUME TypeOK, ValueInv, LockInv, ChangeInv, [Next]_vars
  PROVE  ChangeInv'
<1>1. ASSUME NEW c \in Client, Steps(c) PROVE ChangeInv'
  BY <1>1, ChangeMainStep, ChangeNfcStep DEF Client
<1>2. CASE TakesLock \/ UNCHANGED vars
  <2>1. UNCHANGED <<ee, pelock, wrperr, todo, told>>
    BY <1>2 DEF TakesLock, vars, flash, history
  <2>2. (Resetting' <=> Resetting) /\ ChangeAt' = ChangeAt /\ (Writing' <=> Writing)
    BY <2>1 DEF Resetting, ChangeAt, Writing
  <2> QED
    BY <2>1, <2>2 DEF ChangeInv
<1>3. CASE PowerLoss
  <2>1. CASE told' = None
    BY <2>1 DEF ChangeInv
  <2>2. CASE told' # None
    <3>1. todo["nfc"] = <<>> /\ told' = told /\ todo'["nfc"] = <<>>
      BY <1>3, <2>2 DEF PowerLoss, Boots
    <3>2. ee'[EEPROM_PW] = ee[EEPROM_PW] /\ ee'[EEPROM_PW_COMPLEMENT] = ee[EEPROM_PW_COMPLEMENT]
      <4>1. CASE ee' = ee
        BY <4>1
      <4>2. ASSUME NEW c \in {"main", "nfc"}, Programming(c),
                   ee' = [ee EXCEPT ![Head(todo[c]).at] = 0]
            PROVE  ee'[EEPROM_PW] = ee[EEPROM_PW]
                   /\ ee'[EEPROM_PW_COMPLEMENT] = ee[EEPROM_PW_COMPLEMENT]
        <5>1. c = "main" /\ todo["main"] # <<>>
          BY <3>1, <4>2 DEF Programming, Does
        <5>2. Head(todo["main"]) = todo["main"][1] /\ todo["main"][1].at \in Address
              /\ MainOp(todo["main"][1])
          BY <5>1, NextOp DEF Client, Op, ValueInv
        <5>3. Touches(todo["main"][1])
          BY <4>2, <5>1, <5>2 DEF Programming, Does, Touches
        <5>4. EEPROM_PW # todo["main"][1].at /\ EEPROM_PW_COMPLEMENT # todo["main"][1].at
          BY <5>2, <5>3, Addresses DEF MainOp, EEPROM_PW, EEPROM_PW_COMPLEMENT, EEPROM_APP
        <5> QED
          BY <4>2, <5>1, <5>2, <5>4, Addresses DEF TypeOK
      <4> QED
        BY <1>3, <4>1, <4>2 DEF PowerLoss
    <3> QED
      BY <3>1, <3>2, ChangeKept
  <2> QED
    BY <2>1, <2>2
<1>4. CASE Resets
  BY <1>4 DEF Resets, ChangeInv
<1>5. CASE EEPROM_Load \/ LoadSaved \/ SaveChanges \/ ForgetChanges
  <2>1. todo["nfc"] = <<>>
    BY <1>5 DEF EEPROM_Load, LoadSaved, SaveChanges, ForgetChanges, Idle
  <2>2. told' = told
    BY <1>5 DEF EEPROM_Load, LoadSaved, SaveChanges, ForgetChanges, Saves, history
  <2>3. todo'["nfc"] = todo["nfc"]
    BY <1>5, <2>1 DEF EEPROM_Load, LoadSaved, SaveChanges, ForgetChanges, Saves, Boots, TypeOK
  <2>4. ee' = ee \/ ee' = [ee EXCEPT ![EEPROM_APP] = 0, ![EEPROM_APP_LEN] = 0]
    BY <1>5 DEF EEPROM_Load, LoadSaved, SaveChanges, ForgetChanges, Saves, flash
  <2>5. ee'[EEPROM_PW] = ee[EEPROM_PW] /\ ee'[EEPROM_PW_COMPLEMENT] = ee[EEPROM_PW_COMPLEMENT]
    BY <2>4, Addresses, Apart DEF TypeOK
  <2> QED
    BY <2>1, <2>2, <2>3, <2>5, ChangeKept
<1>6. CASE SetConfig
  <2>1. CASE PwValid
    <3>1. PresetPassword \o <<>> = <<>>
      BY <2>1, PresetOps, EmptySeq
    <3>2. todo["nfc"] = <<>> /\ todo'["nfc"] = <<>> /\ ee' = ee /\ told' = told
      BY <1>6, <2>1, <3>1 DEF SetConfig, NfcRuns, flash, TypeOK
    <3> QED
      BY <3>2, ChangeKept
  <2>2. CASE ~PwValid
    BY <1>6, <2>2 DEF SetConfig, ChangeInv
  <2> QED
    BY <2>1, <2>2
<1>7. ASSUME NEW p \in Passwords, ChangePassword(p) PROVE ChangeInv'
  BY <1>7, ChangeStart
<1>8. CASE FactoryResetCommand
  <2>1. SystemReset.op = "reset"
    BY DEF SystemReset
  <2>2. \A i \in 1 .. Len(FactoryReset) :
          FactoryReset[i].op # "write" /\ Meant(saved, FactoryReset[i])
    BY ResetOps DEF Written, Meant
  <2>3. Resetting'
    BY <1>8, <2>1, <2>2, ResetOps, NfcValues DEF FactoryResetCommand
  <2> QED
    BY <2>3 DEF ChangeInv
<1> QED
  BY <1>1, <1>2, <1>3, <1>4, <1>5, <1>6, <1>7, <1>8 DEF Next, Steps, Client

-----------------------------------------------------------------------------
(***************************************************************************)
(* The theorems                                                            *)
(***************************************************************************)

(* Every step keeps each part of the invariant, and every state that the   *)
(* EEPROM, main and the interrupt can reach satisfies it.                  *)
THEOREM Invariant == Spec => []IInv
<1>1. Init => IInv
  BY TypeInit, InvInit DEF IInv
<1>2. IInv /\ [Next]_vars => IInv'
  BY TypeStep, ValueStep, LockStep, SaveStep, LateStep, ChangeStep DEF IInv
<1> QED
  BY <1>1, <1>2, PTL DEF Spec

(* EEPROM, operations and configuration keep their types: a word is never  *)
(* written outside the room of Inc/hardware.h, and what EEPROM_Load puts   *)
(* into DevCfg is a configuration.                                         *)
THEOREM TypeCorrect == Spec => []TypeOK
<1>1. IInv => TypeOK
  BY DEF IInv
<1> QED
  BY <1>1, Invariant, PTL

(* What EEPROM_Load takes for valid was saved, wherever the power went and *)
(* whatever interrupted EEPROM_Save or a factory reset.                    *)
THEOREM LoadsSaved == Spec => []LoadsWhatWasSaved
<1>1. IInv => LoadsWhatWasSaved
  BY ValidIsSaved DEF IInv, LoadsWhatWasSaved
<1> QED
  BY <1>1, Invariant, PTL

(* A password that agrees with its complement was set with HW_ChangePW,    *)
(* wherever that was cut off.                                              *)
THEOREM PasswordSet == Spec => []PasswordWasSet
<1>1. ASSUME IInv, PwValid PROVE ee[EEPROM_PW] \in AnyPassword
  <2> DEFINE v == ee[EEPROM_PW]
             w == ee[EEPROM_PW_COMPLEMENT]
  <2>1. v \in {0} \cup AnyPassword /\ w \in {0} \cup {MaxWord - p : p \in AnyPassword}
    BY <1>1, Addresses DEF IInv, ValueInv, Proper
  <2>2. MaxWord - v = w
    BY <1>1 DEF PwValid
  <2> HIDE DEF v, w
  <2>3. CASE v = 0
    <3>1. w = MaxWord
      BY <2>2, <2>3, Constants
    <3>2. PICK p \in AnyPassword : w = MaxWord - p
      BY <2>1, <3>1, Constants
    <3>3. p = 0
      BY <3>1, <3>2, Constants
    <3> QED
      BY <2>3, <3>3 DEF v
  <2>4. CASE v # 0
    BY <2>1, <2>4 DEF v
  <2> QED
    BY <2>3, <2>4
<1>2. IInv => PasswordWasSet
  BY <1>1 DEF PasswordWasSet, AnyPassword
<1> QED
  BY <1>2, Invariant, PTL

(* The password that the answer told to have been changed is the one that  *)
(* the EEPROM holds once NFCISR has ended, unless main was writing.        *)
THEOREM PasswordAsTold == Spec => []PasswordChangedAsTold
<1>1. ASSUME IInv, Idle, told # None
      PROVE  PwValid /\ ee[EEPROM_PW] = told
  <2>1. ~Resetting /\ ChangeAt = 13
    BY <1>1 DEF Idle, Resetting, ChangeAt
  <2>2. ee[EEPROM_PW] = told /\ ee[EEPROM_PW_COMPLEMENT] = MaxWord - told
    BY <1>1, <2>1 DEF IInv, ChangeInv
  <2> QED
    BY <2>2 DEF PwValid
<1>2. IInv => PasswordChangedAsTold
  BY <1>1 DEF PasswordChangedAsTold
<1> QED
  BY <1>2, Invariant, PTL

(* As long as main knows of no change that it has still to save, the       *)
(* EEPROM holds DevCfg, with its length and its CRC, unless DevCfg changed *)
(* after EEPROM_Save had read it, or the interrupt wrote meanwhile.        *)
THEOREM ChangesSaved == Spec => []ChangesAreSaved
<1>1. ASSUME IInv, pc = "loop", ~changed, Idle, ~late, ~clash
      PROVE  Valid /\ Stored = DevCfg
  <2> DEFINE n == Len(lastSaved)
  <2>1. /\ Undisturbed /\ todo["main"] = <<>>
        /\ lastSaved \in Configs /\ DevCfg = lastSaved
    BY <1>1 DEF Idle, Undisturbed, Resetting, IInv, TypeOK, LateInv
  <2>2. n \in 1 .. Payload /\ n \in Nat /\ lastSaved \in [1 .. n -> Words]
    BY <2>1, ConfigIsMessage, LenProperties
  <2>3. SaveAt = 2 * n + 11
    BY <2>1, <2>2 DEF SaveAt
  <2>4. /\ SaveAt > n + 4 => ee[EEPROM_APP] = CRC[lastSaved]
        /\ SaveAt > n + 7 => ee[EEPROM_APP_LEN] = n
        /\ \A j \in 1 .. n : SaveAt > n + 9 + j => ee[Msg(j)] = lastSaved[j]
    BY <1>1, <2>1 DEF IInv, SaveInv
  <2> HIDE DEF n
  <2>5. /\ ee[EEPROM_APP] = CRC[lastSaved] /\ ee[EEPROM_APP_LEN] = n
        /\ \A j \in 1 .. n : ee[Msg(j)] = lastSaved[j]
    BY <2>2, <2>3, <2>4
  <2>6. Stored = lastSaved
    BY <2>2, <2>5 DEF Stored
  <2> QED
    BY <2>1, <2>2, <2>5, <2>6 DEF Valid, EEPROM_CRC
<1>2. IInv => ChangesAreSaved
  BY <1>1 DEF ChangesAreSaved
<1> QED
  BY <1>2, Invariant, PTL
=============================================================================
