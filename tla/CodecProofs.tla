----------------------------- MODULE CodecProofs ----------------------------
(***************************************************************************)
(* Proofs about Codec, for all widths of bytes, integers and positions,    *)
(* and all tags, configurations and buffers that fit them.                 *)
(***************************************************************************)
EXTENDS Codec, SequenceTheorems, WellFoundedInduction, TLAPS

(***************************************************************************)
(* The inductive invariant                                                 *)
(***************************************************************************)

(* Where the encoding of the j-th field starts, and how wide it is.        *)
Width(k) == Len(FieldOf(fields[k]))
Upto(j, k) == IF j > k THEN Width(k) ELSE 0
Start(j) == 1 + Upto(j, 1) + Upto(j, 2) + Upto(j, 3) + Upto(j, 4) + Upto(j, 5)

(* The message is a zero and the encodings of the fields so far, one after *)
(* the other.                                                              *)
LaidInv ==
  /\ DevCfg \in Configs /\ fields \in Fields(DevCfg)
  /\ nth \in 1 .. 6
  /\ whole \in Seq(Byte) /\ Len(whole) = Start(nth) /\ whole[1] = 0
  /\ \A k \in 1 .. nth - 1 : \A i \in 1 .. Width(k) :
       whole[Start(k) + i] = FieldOf(fields[k])[i]

(* What is left to be encoded of a field: after a part p of which r is     *)
(* left.  The parts are those that a field of its type has.                *)
Todo(p, r, f) ==
  IF p = "key" THEN EncodeVarint(r) \o EncodeValue(f)
  ELSE IF p = "varint" THEN EncodeVarint(r)
  ELSE IF p = "length" THEN EncodeVarint(r) \o f.val
  ELSE IF p = "copy" THEN Raw(f)
  ELSE << >>

(* The numbers that a varint can hold.                                     *)
Encodable == 0 .. TwoTo[MaxVarint * GroupBits] - 1

PartFits(p, r, f) ==
  /\ p \in {"key", "varint", "length"} => r \in Encodable
  /\ p = "varint" => f.type = VARINT
  /\ p = "length" => f.type = BYTES
  /\ p = "copy" => f.type \in {FIXED64, FIXED32, BYTES}

(* What was encoded, with what is left of the field, is the message up to  *)
(* the field's end; the buffer has as much of it as fits.                  *)
Encoded(done) ==
  /\ Len(done) = size + fsize
  /\ msg = Clipped(done, cap)
  /\ done \o Todo(part, rest, fields[nth]) = whole \o FieldOf(fields[nth])

BufferInv ==
  /\ cap \in Capacities /\ size = Len(whole) /\ fsize \in Nat
  /\ part \in {"begin", "key", "varint", "length", "copy", "end"}
  /\ part = "begin" => msg = Clipped(whole, cap)
  /\ part # "begin" =>
       /\ phase = "save" /\ nth \in 1 .. 5 /\ PartFits(part, rest, fields[nth])
       /\ \E done \in Seq(Byte) : Encoded(done)

(* What is loaded before the walk comes to the j-th field.                 *)
LoadedTo(j) ==
  [devEui |-> IF j > 1 THEN DevCfg.devEui ELSE Default.devEui,
   appKey |-> IF j > 2 THEN DevCfg.appKey ELSE Default.appKey,
   devAddr |-> IF j > 3 THEN DevCfg.devAddr ELSE Default.devAddr,
   txPort |-> IF j > 4 THEN DevCfg.txPort ELSE Default.txPort,
   mode |-> IF j > 5 THEN DevCfg.mode ELSE "off",
   threshold |-> IF j > 5 THEN DevCfg.threshold ELSE 0,
   singleCount |-> IF j > 5 THEN DevCfg.singleCount ELSE 0]

(* The walk is at the start of a field, or at the end, with the settings   *)
(* before it loaded.  A position of one byte is zero again at the end of a *)
(* message that fills all positions.                                       *)
AtField(j) ==
  /\ pos = Start(j)
  /\ \/ loaded = LoadedTo(j)
     \/ j = 6 /\ DevCfg.mode \in Humidity

WalkInv ==
  /\ phase \in {"save", "load", "done", "short", "error"}
  /\ pos \in 0 .. Positions - 1 /\ pos <= Len(whole)
  /\ DOMAIN loaded = DOMAIN Default
  /\ phase = "save" => pos = 0 /\ loaded = Default
  /\ phase = "load" => /\ nth = 6 /\ size <= cap
                       /\ (pos = 0 /\ size = Positions) \/ \E j \in 1 .. 6 : AtField(j)
  /\ phase = "error" => size = Positions
  /\ phase = "done" => nth = 6 /\ AtField(6)

IInv == LaidInv /\ BufferInv /\ WalkInv

-----------------------------------------------------------------------------
(***************************************************************************)
(* Induction, for sets and for functions                                   *)
(***************************************************************************)

(* A set with zero and every successor of its numbers has all of them.     *)
LEMMA SetInduction ==
  ASSUME NEW T, 0 \in T, \A n \in Nat : n \in T => n + 1 \in T
  PROVE  Nat \subseteq T
<1> DEFINE Out == Nat \ T
<1>1. SUFFICES ASSUME Out # {} PROVE FALSE
  OBVIOUS
<1>2. IsWellFoundedOn(OpToRel(<, Nat), Nat)
  BY NatLessThanWellFounded
<1>3. PICK n \in Out : \A m \in Out : ~(<<m, n>> \in OpToRel(<, Nat))
  <2> HIDE DEF Out
  <2>1. Out \subseteq Nat
    BY DEF Out
  <2> QED
    BY <1>1, <1>2, <2>1, WFMin
<1>4. \A m \in Out : ~(m < n)
  BY <1>3 DEF OpToRel
<1>5. n # 0 /\ n \in Nat
  OBVIOUS
<1>6. n - 1 \in Nat /\ n - 1 < n /\ n - 1 + 1 = n
  BY <1>5
<1>7. n - 1 \in T
  BY <1>4, <1>6
<1> QED
  BY <1>6, <1>7

(* There is a function with a given first value and given steps.           *)
HasRecursion(S, f0, step) ==
  \E f \in [Nat -> S] : f[0] = f0 /\ \A n \in Nat : f[n + 1] = step[n][f[n]]

LEMMA PrimitiveRecursion ==
  ASSUME NEW S, NEW f0 \in S, NEW step \in [Nat -> [S -> S]]
  PROVE  HasRecursion(S, f0, step)
<1> DEFINE Fits(g, n) == /\ g \in [0 .. n -> S] /\ g[0] = f0
                         /\ \A i \in 0 .. n - 1 : g[i + 1] = step[i][g[i]]
           T == {n \in Nat : \E g : Fits(g, n)}
           U == {i \in Nat : \A n, m \in Nat : i <= n /\ i <= m =>
                   \A g, h : Fits(g, n) /\ Fits(h, m) => g[i] = h[i]}
           G(n) == CHOOSE g : Fits(g, n)
           f == [n \in Nat |-> G(n)[n]]
<1>1. Nat \subseteq T
  <2>1. 0 \in T
    <3>1. Fits([i \in 0 .. 0 |-> f0], 0)
      OBVIOUS
    <3> QED
      BY <3>1
  <2>2. ASSUME NEW n \in Nat, n \in T PROVE n + 1 \in T
    <3>1. PICK g : Fits(g, n)
      BY <2>2
    <3> DEFINE h == [i \in 0 .. n + 1 |-> IF i <= n THEN g[i] ELSE step[n][g[n]]]
    <3>2. g[n] \in S /\ step[n][g[n]] \in S
      BY <3>1
    <3>3. h \in [0 .. n + 1 -> S] /\ h[0] = f0
      BY <3>1, <3>2
    <3>4. ASSUME NEW i \in 0 .. (n + 1) - 1 PROVE h[i + 1] = step[i][h[i]]
      <4>1. CASE i = n
        BY <4>1
      <4>2. CASE i # n
        <5>1. i \in 0 .. n - 1 /\ i + 1 <= n
          BY <4>2
        <5> QED
          BY <3>1, <5>1
      <4> QED
        BY <4>1, <4>2
    <3>5. Fits(h, n + 1)
      BY <3>3, <3>4
    <3> HIDE DEF Fits, h
    <3> QED
      BY <3>5
  <2> HIDE DEF T
  <2> QED
    BY <2>1, <2>2, SetInduction
<1>2. Nat \subseteq U
  <2>1. 0 \in U
    <3>1. \A g, n : Fits(g, n) => g[0] = f0
      OBVIOUS
    <3> HIDE DEF Fits
    <3> QED
      BY <3>1
  <2>2. ASSUME NEW i \in Nat, i \in U PROVE i + 1 \in U
    <3>1. SUFFICES ASSUME NEW n \in Nat, NEW m \in Nat, i + 1 <= n, i + 1 <= m,
                          NEW g, NEW h, Fits(g, n), Fits(h, m)
                   PROVE  g[i + 1] = h[i + 1]
      <4> HIDE DEF Fits
      <4> QED
        OBVIOUS
    <3>2. g[i] = h[i]
      <4>1. i <= n /\ i <= m
        BY <3>1
      <4> HIDE DEF Fits
      <4> QED
        BY <2>2, <3>1, <4>1
    <3>3. i \in 0 .. n - 1 /\ i \in 0 .. m - 1
      BY <3>1
    <3> QED
      BY <3>1, <3>2, <3>3
  <2> HIDE DEF U
  <2> QED
    BY <2>1, <2>2, SetInduction
<1>3. \A n \in Nat : Fits(G(n), n)
  <2> HIDE DEF Fits
  <2> QED
    BY <1>1
<1> HIDE DEF T, G
<1>4. f \in [Nat -> S] /\ f[0] = f0
  <2>1. \A n \in Nat : G(n)[n] \in S
    BY <1>3
  <2> QED
    BY <1>3, <2>1
<1>5. ASSUME NEW n \in Nat PROVE f[n + 1] = step[n][f[n]]
  <2>1. G(n + 1)[n + 1] = step[n][G(n + 1)[n]]
    <3>1. n + 1 \in Nat /\ n \in 0 .. (n + 1) - 1
      OBVIOUS
    <3> QED
      BY <1>3, <3>1
  <2>2. G(n + 1)[n] = G(n)[n]
    <3> HIDE DEF Fits
    <3>1. n \in U /\ n + 1 \in Nat /\ n <= n /\ n <= n + 1
      <4> HIDE DEF U
      <4> QED
        BY <1>2
    <3>2. Fits(G(n + 1), n + 1) /\ Fits(G(n), n)
      BY <1>3, <3>1
    <3> QED
      BY <3>1, <3>2 DEF U
  <2> QED
    BY <2>1, <2>2
<1> QED
  BY <1>4, <1>5 DEF HasRecursion

(* TwoTo is the function that its recursive definition describes.          *)
LEMMA TwoToDef ==
  /\ TwoTo \in [Nat -> Nat] /\ TwoTo[0] = 1
  /\ \A n \in Nat : TwoTo[n + 1] = 2 * TwoTo[n]
<1> DEFINE step == [n \in Nat |-> [v \in Nat |-> 2 * v]]
<1>1. PICK f \in [Nat -> Nat] : f[0] = 1 /\ \A n \in Nat : f[n + 1] = step[n][f[n]]
  <2>1. step \in [Nat -> [Nat -> Nat]]
    OBVIOUS
  <2> HIDE DEF step
  <2>2. HasRecursion(Nat, 1, step)
    <3>1. 1 \in Nat
      OBVIOUS
    <3> QED
      BY <2>1, <3>1, PrimitiveRecursion, Zenon
  <2> QED
    BY <2>2 DEF HasRecursion
<1>2. f = [n \in Nat |-> IF n = 0 THEN 1 ELSE 2 * f[n - 1]]
  <2>1. ASSUME NEW n \in Nat PROVE f[n] = IF n = 0 THEN 1 ELSE 2 * f[n - 1]
    <3>1. CASE n = 0
      BY <1>1, <3>1
    <3>2. CASE n # 0
      <4>1. n - 1 \in Nat /\ (n - 1) + 1 = n
        BY <3>2
      <4>2. f[(n - 1) + 1] = step[n - 1][f[n - 1]] /\ f[n - 1] \in Nat
        BY <1>1, <4>1
      <4> QED
        BY <3>2, <4>1, <4>2
    <3> QED
      BY <3>1, <3>2
  <2> QED
    BY <2>1
<1>3. TwoTo = [n \in Nat |-> IF n = 0 THEN 1 ELSE 2 * TwoTo[n - 1]]
  BY <1>2, Zenon DEF TwoTo
<1>4. TwoTo[0] = 1
  BY <1>3
<1>5. \A n \in Nat : TwoTo[n + 1] = 2 * TwoTo[n]
  BY <1>3
<1> DEFINE T == {n \in Nat : TwoTo[n] \in Nat}
<1>6. Nat \subseteq T
  <2>1. 0 \in T
    BY <1>4
  <2>2. \A n \in Nat : n \in T => n + 1 \in T
    BY <1>5
  <2> HIDE DEF T
  <2> QED
    BY <2>1, <2>2, SetInduction
<1>7. TwoTo \in [Nat -> Nat]
  BY <1>3, <1>6
<1> QED
  BY <1>4, <1>5, <1>7

(* Powers of two are positive, grow, and shift after each other.           *)
LEMMA Powers ==
  /\ \A n \in Nat : TwoTo[n] \in Nat \ {0}
  /\ \A m, n \in Nat : TwoTo[m + n] = TwoTo[m] * TwoTo[n]
  /\ \A m, n \in Nat : m <= n => TwoTo[m] <= TwoTo[n]
<1> DEFINE P == {n \in Nat : TwoTo[n] # 0}
           A(m) == {n \in Nat : TwoTo[m + n] = TwoTo[m] * TwoTo[n]}
<1>1. Nat \subseteq P
  <2>1. 0 \in P /\ \A n \in Nat : n \in P => n + 1 \in P
    BY TwoToDef
  <2> HIDE DEF P
  <2> QED
    BY <2>1, SetInduction
<1>2. ASSUME NEW m \in Nat PROVE Nat \subseteq A(m)
  <2>1. 0 \in A(m)
    <3>1. TwoTo[m] \in Nat
      BY TwoToDef
    <3> QED
      BY <3>1, TwoToDef
  <2>2. ASSUME NEW n \in Nat, n \in A(m) PROVE n + 1 \in A(m)
    <3>1. TwoTo[m + (n + 1)] = 2 * TwoTo[m + n]
      <4>1. m + n \in Nat /\ m + (n + 1) = (m + n) + 1
        OBVIOUS
      <4> QED
        BY <4>1, TwoToDef
    <3>2. TwoTo[n + 1] = 2 * TwoTo[n] /\ TwoTo[m] \in Nat /\ TwoTo[n] \in Nat
      BY TwoToDef
    <3>3. 2 * (TwoTo[m] * TwoTo[n]) = TwoTo[m] * (2 * TwoTo[n])
      BY <3>2
    <3> QED
      BY <2>2, <3>1, <3>2, <3>3
  <2> HIDE DEF A
  <2> QED
    BY <2>1, <2>2, SetInduction
<1>3. \A n \in Nat : TwoTo[n] \in Nat \ {0}
  BY <1>1, TwoToDef
<1>4. \A m, n \in Nat : TwoTo[m + n] = TwoTo[m] * TwoTo[n]
  BY <1>2
<1>5. ASSUME NEW m \in Nat, NEW n \in Nat, m <= n PROVE TwoTo[m] <= TwoTo[n]
  <2>1. n - m \in Nat /\ m + (n - m) = n
    BY <1>5
  <2>2. TwoTo[n] = TwoTo[m] * TwoTo[n - m]
    BY <1>4, <2>1
  <2>3. TwoTo[m] \in Nat /\ TwoTo[n - m] \in Nat \ {0}
    BY <1>3, <2>1
  <2>4. \A a \in Nat, b \in Nat \ {0} : a <= a * b
    <3> TAKE a \in Nat, b \in Nat \ {0}
    <3>1. b - 1 \in Nat /\ a * b = a + a * (b - 1) /\ a * (b - 1) \in Nat
      OBVIOUS
    <3> QED
      BY <3>1
  <2> QED
    BY <2>2, <2>3, <2>4
<1> QED
  BY <1>3, <1>4, <1>5

-----------------------------------------------------------------------------
(***************************************************************************)
(* Quotients and remainders                                                *)
(***************************************************************************)

LEMMA Appended ==
  ASSUME NEW a \in Seq(Byte), NEW b \in Seq(Byte)
  PROVE  /\ \A i \in 1 .. Len(a) : (a \o b)[i] = a[i]
         /\ \A i \in 1 .. Len(b) : (a \o b)[Len(a) + i] = b[i]
OBVIOUS

LEMMA ProductIsNat == \A a, b \in Nat : a * b \in Nat
OBVIOUS

LEMMA DivMod ==
  ASSUME NEW x \in Nat, NEW b \in Nat \ {0}
  PROVE  x = b * (x \div b) + (x % b) /\ x \div b \in Nat /\ x % b \in 0 .. b - 1
OBVIOUS

(* A quotient and a remainder that fit are those of \div and %.            *)
LEMMA DivModUnique ==
  ASSUME NEW x \in Nat, NEW b \in Nat \ {0}, NEW q \in Nat, NEW r \in 0 .. b - 1,
         x = b * q + r
  PROVE  x \div b = q /\ x % b = r
<1> DEFINE p == x \div b
           s == x % b
<1>1. x = b * p + s /\ p \in Nat /\ s \in 0 .. b - 1
  BY DivMod
<1> HIDE DEF p, s
<1>2. ASSUME NEW u \in Nat, NEW v \in Nat, NEW m \in 0 .. b - 1, NEW n \in 0 .. b - 1,
             u < v, b * u + m = b * v + n
      PROVE  FALSE
  <2>1. v - u - 1 \in Nat /\ v = u + 1 + (v - u - 1)
    BY <1>2
  <2>2. b * v = b * u + b + b * (v - u - 1)
    BY <2>1
  <2>3. b * (v - u - 1) \in Nat /\ b * u \in Nat
    BY <2>1
  <2> QED
    BY <1>2, <2>2, <2>3
<1>3. p = q
  <2>1. ~(p < q) /\ ~(q < p)
    BY <1>1, <1>2
  <2> QED
    BY <1>1, <2>1
<1>4. s = r
  BY <1>1, <1>3
<1> QED
  BY <1>3, <1>4 DEF p, s

(* By a product: first by one factor, then by the other.                   *)
LEMMA DivModProduct ==
  ASSUME NEW x \in Nat, NEW a \in Nat \ {0}, NEW b \in Nat \ {0}
  PROVE  /\ x \div (a * b) = (x \div a) \div b
         /\ x % (a * b) = (x % a) + ((x \div a) % b) * a
         /\ x < a * b => x \div a < b
<1> DEFINE y == x \div a
           q == y \div b
           r == x % a
           s == y % b
<1>1. x = a * y + r /\ y \in Nat /\ r \in 0 .. a - 1
  BY DivMod
<1>2. y = b * q + s /\ q \in Nat /\ s \in 0 .. b - 1
  BY <1>1, DivMod
<1> HIDE DEF y, q, r, s
<1>3. x = (a * b) * q + (s * a + r)
  <2>1. a * (b * q + s) = (a * b) * q + s * a
    BY <1>2
  <2> QED
    BY <1>1, <1>2, <2>1
<1>4. s * a + r \in 0 .. a * b - 1
  <2>1. b - 1 - s \in Nat /\ a * (b - 1 - s) \in Nat /\ s * a \in Nat
    BY <1>2
  <2>2. a * b = s * a + a + a * (b - 1 - s)
    BY <1>2
  <2> QED
    BY <1>1, <2>1, <2>2
<1>5. a * b \in Nat \ {0}
  <2>1. b - 1 \in Nat /\ a * b = a + a * (b - 1) /\ a * (b - 1) \in Nat
    OBVIOUS
  <2> QED
    BY <2>1
<1>6. x \div (a * b) = q /\ x % (a * b) = s * a + r
  <2>1. (a * b) * q + (s * a + r) = x
    BY <1>3
  <2> QED
    BY <1>2, <1>4, <1>5, <2>1, DivModUnique
<1>7. x < a * b => y < b
  <2>1. SUFFICES ASSUME ~(y < b) PROVE ~(x < a * b)
    OBVIOUS
  <2>2. y - b \in Nat /\ a * (y - b) \in Nat /\ a * y = a * b + a * (y - b)
    BY <1>1, <2>1
  <2> QED
    BY <1>1, <1>5, <2>2
<1> QED
  BY <1>1, <1>2, <1>6, <1>7 DEF y, q, r, s

LEMMA SmallMod ==
  ASSUME NEW b \in Nat \ {0}, NEW x \in 0 .. b - 1
  PROVE  x % b = x /\ x \div b = 0
<1>1. x = b * 0 + x /\ x \in Nat
  OBVIOUS
<1> QED
  BY <1>1, DivModUnique

-----------------------------------------------------------------------------
(***************************************************************************)
(* A number is that of its groups                                          *)
(***************************************************************************)

(* Products with natural numbers, which the lemmas below take as shifts.   *)
LEMMA Shifts ==
  ASSUME NEW bits \in Nat, NEW n \in Nat
  PROVE  /\ n * bits \in Nat /\ (n + 1) * bits = n * bits + bits
         /\ TwoTo[n * bits] \in Nat \ {0} /\ TwoTo[bits] \in Nat \ {0}
         /\ TwoTo[(n + 1) * bits] = TwoTo[n * bits] * TwoTo[bits]
<1>1. n * bits \in Nat /\ (n + 1) * bits = n * bits + bits
  OBVIOUS
<1>2. TwoTo[n * bits + bits] = TwoTo[n * bits] * TwoTo[bits]
  BY <1>1, Powers
<1> QED
  BY <1>1, <1>2, Powers

(* Groups are as wide as they should be, and as many.                      *)
LEMMA GroupsType ==
  ASSUME NEW x \in Nat, NEW n \in Nat, NEW bits \in Nat
  PROVE  /\ Groups(x, n, bits) \in [1 .. n -> 0 .. TwoTo[bits] - 1]
         /\ Len(Groups(x, n, bits)) = n
<1>1. ASSUME NEW i \in 1 .. n
      PROVE  (x \div TwoTo[(i - 1) * bits]) % TwoTo[bits] \in 0 .. TwoTo[bits] - 1
  <2>1. i - 1 \in Nat
    OBVIOUS
  <2>2. TwoTo[(i - 1) * bits] \in Nat \ {0} /\ TwoTo[bits] \in Nat \ {0}
    BY <2>1, Shifts
  <2>3. x \div TwoTo[(i - 1) * bits] \in Nat
    BY <2>2, DivMod
  <2> QED
    BY <2>2, <2>3, DivMod
<1> QED
  <2>1. Groups(x, n, bits) \in [1 .. n -> 0 .. TwoTo[bits] - 1]
    BY <1>1 DEF Groups
  <2>2. Len(Groups(x, n, bits)) = n
    BY DEF Groups
  <2> QED
    BY <2>1, <2>2

(* What Number computes, group by group.                                   *)
LEMMA NumberDef ==
  ASSUME NEW n \in Nat, NEW bits \in Nat, NEW d \in [1 .. n -> Nat], Len(d) = n
  PROVE  \E f : /\ f[0] = 0 /\ f[n] = Number(d, bits)
                /\ \A i \in 0 .. n - 1 :
                     f[i + 1] = f[i] + d[i + 1] * TwoTo[i * bits]
<1> DEFINE step == [i \in Nat |->
             [v \in Nat |-> IF i < n THEN v + d[i + 1] * TwoTo[i * bits] ELSE v]]
           Is(f) == f = [i \in 0 .. n |-> IF i = 0 THEN 0
                                  ELSE f[i - 1] + d[i] * TwoTo[(i - 1) * bits]]
<1>1. step \in [Nat -> [Nat -> Nat]]
  <2>1. ASSUME NEW i \in Nat, NEW v \in Nat, i < n
        PROVE  v + d[i + 1] * TwoTo[i * bits] \in Nat
    <3>1. i + 1 \in 1 .. n
      BY <2>1
    <3>2. d[i + 1] \in Nat /\ TwoTo[i * bits] \in Nat
      BY <3>1, Shifts
    <3>3. d[i + 1] * TwoTo[i * bits] \in Nat
      BY <3>2
    <3> QED
      BY <3>3
  <2> QED
    BY <2>1
<1>2. PICK g \in [Nat -> Nat] : g[0] = 0 /\ \A i \in Nat : g[i + 1] = step[i][g[i]]
  <2>1. HasRecursion(Nat, 0, step)
    <3>1. 0 \in Nat
      OBVIOUS
    <3> HIDE DEF step
    <3> QED
      BY <1>1, <3>1, PrimitiveRecursion, Zenon
  <2> HIDE DEF step
  <2> QED
    BY <2>1 DEF HasRecursion
<1> DEFINE h == [i \in 0 .. n |-> g[i]]
<1>3. Is(h)
  <2>1. ASSUME NEW i \in 0 .. n, i # 0
        PROVE  g[i] = g[i - 1] + d[i] * TwoTo[(i - 1) * bits]
    <3>1. i - 1 \in Nat /\ i - 1 < n /\ (i - 1) + 1 = i
      BY <2>1
    <3>2. g[(i - 1) + 1] = step[i - 1][g[i - 1]] /\ g[i - 1] \in Nat
      BY <1>2, <3>1
    <3>3. step[i - 1][g[i - 1]] = g[i - 1] + d[(i - 1) + 1] * TwoTo[(i - 1) * bits]
      BY <3>1, <3>2
    <3> QED
      BY <3>1, <3>2, <3>3
  <2>2. ASSUME NEW i \in 0 .. n
        PROVE  h[i] = IF i = 0 THEN 0 ELSE h[i - 1] + d[i] * TwoTo[(i - 1) * bits]
    <3>1. CASE i = 0
      BY <1>2, <3>1
    <3>2. CASE i # 0
      <4>1. h[i] = g[i] /\ h[i - 1] = g[i - 1]
        BY <3>2
      <4> QED
        BY <2>1, <3>2, <4>1
    <3> QED
      BY <3>1, <3>2
  <2>3. h = [i \in 0 .. n |-> h[i]]
    OBVIOUS
  <2> HIDE DEF h
  <2> QED
    BY <2>2, <2>3
<1> DEFINE f == CHOOSE l : Is(l)
<1>4. Is(f)
  <2> HIDE DEF Is, h
  <2> QED
    BY <1>3
<1>5. Number(d, bits) = f[n]
  BY DEF Number
<1>6. f[0] = 0
  <2> HIDE DEF f
  <2> QED
    BY <1>4
<1>7. ASSUME NEW i \in 0 .. n - 1 PROVE f[i + 1] = f[i] + d[i + 1] * TwoTo[i * bits]
  <2>1. i + 1 \in 0 .. n /\ i + 1 # 0 /\ (i + 1) - 1 = i
    BY <1>7
  <2> HIDE DEF f
  <2> QED
    BY <1>4, <2>1
<1> QED
  BY <1>5, <1>6, <1>7

(* A number is computed from its groups, when they are enough.             *)
LEMMA NumberOfGroups ==
  ASSUME NEW n \in Nat, NEW bits \in Nat, NEW x \in 0 .. TwoTo[n * bits] - 1
  PROVE  Number(Groups(x, n, bits), bits) = x
<1> DEFINE d == Groups(x, n, bits)
<1>0. x \in Nat /\ TwoTo[n * bits] \in Nat \ {0}
  BY Shifts
<1>1. d \in [1 .. n -> Nat] /\ Len(d) = n
  <2>1. TwoTo[bits] \in Nat
    BY Powers
  <2>2. d \in [1 .. n -> 0 .. TwoTo[bits] - 1] /\ Len(d) = n
    BY <1>0, GroupsType
  <2> HIDE DEF d
  <2> QED
    BY <2>1, <2>2
<1>2. \A i \in 0 .. n - 1 : d[i + 1] = (x \div TwoTo[i * bits]) % TwoTo[bits]
  BY DEF Groups
<1> HIDE DEF d
<1>3. PICK f : /\ f[0] = 0 /\ f[n] = Number(d, bits)
               /\ \A i \in 0 .. n - 1 : f[i + 1] = f[i] + d[i + 1] * TwoTo[i * bits]
  BY <1>1, NumberDef
<1> DEFINE T == {i \in Nat : i <= n => f[i] = x % TwoTo[i * bits]}
<1>4. 0 \in T
  <2>1. 0 * bits = 0 /\ TwoTo[0 * bits] = 1
    BY TwoToDef
  <2>2. x % 1 = 0
    BY <1>0
  <2> QED
    BY <1>3, <2>1, <2>2
<1>5. ASSUME NEW i \in Nat, i \in T PROVE i + 1 \in T
  <2>1. SUFFICES ASSUME i + 1 <= n PROVE f[i + 1] = x % TwoTo[(i + 1) * bits]
    OBVIOUS
  <2>2. i \in 0 .. n - 1 /\ i <= n
    BY <2>1
  <2>3. f[i + 1] = (x % TwoTo[i * bits])
                     + ((x \div TwoTo[i * bits]) % TwoTo[bits]) * TwoTo[i * bits]
    BY <1>2, <1>3, <1>5, <2>2
  <2>4. TwoTo[i * bits] \in Nat \ {0} /\ TwoTo[bits] \in Nat \ {0}
        /\ TwoTo[(i + 1) * bits] = TwoTo[i * bits] * TwoTo[bits]
    BY Shifts
  <2> DEFINE a == TwoTo[i * bits]
             b == TwoTo[bits]
  <2>5. a \in Nat \ {0} /\ b \in Nat \ {0} /\ TwoTo[(i + 1) * bits] = a * b
    BY <2>4
  <2>6. f[i + 1] = (x % a) + ((x \div a) % b) * a
    BY <2>3
  <2> HIDE DEF a, b
  <2>7. /\ x \div (a * b) = (x \div a) \div b
        /\ x % (a * b) = (x % a) + ((x \div a) % b) * a
        /\ x < a * b => x \div a < b
    BY <1>0, <2>5, DivModProduct, Zenon
  <2>8. f[i + 1] = x % (a * b)
    BY <2>6, <2>7, Zenon
  <2> QED
    BY <2>5, <2>8, Zenon
<1>6. n \in T
  <2> HIDE DEF T
  <2> QED
    BY <1>4, <1>5, SetInduction
<1>7. f[n] = x
  BY <1>0, <1>6, SmallMod
<1> QED
  BY <1>3, <1>7 DEF d

-----------------------------------------------------------------------------
(***************************************************************************)
(* Varints                                                                 *)
(***************************************************************************)

(* Min of a set of natural numbers is its least one.                       *)
LEMMA Least ==
  ASSUME NEW S, S \subseteq Nat, S # {}
  PROVE  Min(S) \in S /\ \A y \in S : Min(S) <= y
<1> DEFINE T == {n \in Nat : \A s \in S : n <= s}
<1>1. 0 \in T
  OBVIOUS
<1>2. ASSUME \A n \in Nat : n \in T => n + 1 \in T PROVE FALSE
  <2>1. Nat \subseteq T
    <3> HIDE DEF T
    <3> QED
      BY <1>1, <1>2, SetInduction
  <2>2. PICK s : s \in S
    OBVIOUS
  <2>3. s + 1 \in T
    BY <2>1, <2>2
  <2> QED
    BY <2>2, <2>3
<1>3. PICK n \in Nat : n \in T /\ n + 1 \notin T
  BY <1>2
<1>4. n \in S
  <2>1. PICK s \in S : ~(n + 1 <= s)
    BY <1>3
  <2>2. n <= s
    BY <1>3
  <2>3. n = s
    BY <2>1, <2>2
  <2> QED
    BY <2>3
<1>5. \E m \in S : \A y \in S : m <= y
  BY <1>3, <1>4
<1> QED
  BY <1>5 DEF Min

LEMMA MinOfTwo ==
  ASSUME NEW a \in Int, NEW b \in Int
  PROVE  Min({a, b}) = IF a <= b THEN a ELSE b
<1>1. \E m \in {a, b} : \A y \in {a, b} : m <= y
  OBVIOUS
<1>2. Min({a, b}) \in {a, b} /\ \A y \in {a, b} : Min({a, b}) <= y
  BY <1>1 DEF Min
<1> QED
  BY <1>2

(* The widths, and the powers of two that they give.                       *)
LEMMA Widths ==
  /\ GroupBits \in Nat \ {0} /\ WordBits \in Nat \ {0} /\ MoreTagBits \in Nat \ {0}
  /\ MaxKey \in Nat \ {0} /\ MaxVarint \in Nat \ {0}
  /\ Fixed64 \in Nat \ {0} /\ Fixed32 \in Nat \ {0} /\ IntBits \in Nat \ {0}
  /\ MaxBytes \in Nat \ {0} /\ KeySize \in Nat \ {0}
  /\ ByteBits \in Nat \ {0} /\ ByteBits = GroupBits + 1
  /\ Base \in Nat \ {0} /\ Positions \in Nat \ {0} /\ Word \in Nat \ {0}
  /\ Positions = 2 * Base /\ Positions <= Word
  /\ TypeBase = 8 /\ LowTag \in Nat \ {0} /\ Base = 8 * LowTag
<1>1. /\ GroupBits \in Nat \ {0} /\ WordBits \in Nat \ {0} /\ MoreTagBits \in Nat \ {0}
      /\ MaxKey \in Nat \ {0} /\ MaxVarint \in Nat \ {0}
      /\ Fixed64 \in Nat \ {0} /\ Fixed32 \in Nat \ {0} /\ IntBits \in Nat \ {0}
      /\ MaxBytes \in Nat \ {0} /\ KeySize \in Nat \ {0}
      /\ 3 <= GroupBits /\ ByteBits <= WordBits
  BY CodecAssumption DEF TypeBits
<1>2. ByteBits \in Nat \ {0} /\ ByteBits = GroupBits + 1
  BY <1>1 DEF ByteBits
<1>3. Base \in Nat \ {0} /\ Positions \in Nat \ {0} /\ Word \in Nat \ {0}
      /\ Positions = 2 * Base /\ Positions <= Word
  BY <1>1, <1>2, Powers, TwoToDef DEF Base, Positions, Word
<1>4. TypeBase = 8
  <2>1. TwoTo[0 + 1] = 2 /\ TwoTo[1 + 1] = 4 /\ TwoTo[2 + 1] = 8
    BY TwoToDef
  <2> QED
    BY <2>1 DEF TypeBase, TypeBits
<1>5. LowTag \in Nat \ {0} /\ Base = 8 * LowTag
  <2> DEFINE k == TwoTo[GroupBits - 3]
  <2>1. GroupBits - 3 \in Nat /\ 3 \in Nat /\ 3 + (GroupBits - 3) = GroupBits
    BY <1>1
  <2>2. k \in Nat \ {0} /\ TwoTo[GroupBits] = TwoTo[3] * k
    BY <2>1, Powers
  <2> HIDE DEF k
  <2>3. Base = 8 * k + 0
    BY <1>4, <2>2 DEF Base, TypeBase, TypeBits
  <2>4. Base \div 8 = k
    BY <1>3, <2>2, <2>3, DivModUnique
  <2> QED
    BY <1>4, <2>2, <2>3, <2>4 DEF LowTag
<1> QED
  BY <1>1, <1>2, <1>3, <1>4, <1>5

(* The groups of a varint are enough, and not one too many.                *)
LEMMA DigitsFit ==
  ASSUME NEW x \in Encodable
  PROVE  /\ x \in Nat
         /\ Digits(x) \in 1 .. MaxVarint /\ x < TwoTo[Digits(x) * GroupBits]
         /\ Digits(x) > 1 => TwoTo[(Digits(x) - 1) * GroupBits] <= x
         /\ \A m \in 1 .. MaxVarint : x < TwoTo[m * GroupBits] => Digits(x) <= m
<1> DEFINE S == {n \in 1 .. MaxVarint : x < TwoTo[n * GroupBits]}
<1>1. TwoTo[MaxVarint * GroupBits] \in Nat
  BY Widths, Shifts
<1>2. x \in Nat /\ MaxVarint \in S /\ S \subseteq Nat
  BY <1>1, Widths DEF Encodable
<1>3. Digits(x) = Min(S)
  BY DEF Digits
<1>4. Min(S) \in S /\ \A y \in S : Min(S) <= y
  <2> HIDE DEF S
  <2> QED
    BY <1>2, Least
<1> DEFINE n == Digits(x)
<1>5. n \in 1 .. MaxVarint /\ x < TwoTo[n * GroupBits]
  BY <1>3, <1>4
<1>6. \A m \in 1 .. MaxVarint : x < TwoTo[m * GroupBits] => n <= m
  BY <1>3, <1>4
<1> HIDE DEF n, S
<1>7. ASSUME n > 1 PROVE TwoTo[(n - 1) * GroupBits] <= x
  <2>1. n - 1 \in 1 .. MaxVarint /\ ~(n <= n - 1)
    BY <1>5, <1>7, Widths
  <2>2. ~(x < TwoTo[(n - 1) * GroupBits])
    BY <1>6, <2>1
  <2>3. TwoTo[(n - 1) * GroupBits] \in Nat
    BY <2>1, Widths, Shifts
  <2> QED
    BY <1>2, <2>2, <2>3
<1> QED
  BY <1>2, <1>5, <1>6, <1>7 DEF n

(* The bytes of a varint: its groups, all but the last continued.          *)
LEMMA VarintBytes ==
  ASSUME NEW x \in Encodable
  PROVE  /\ EncodeVarint(x) \in Seq(Byte) /\ Len(EncodeVarint(x)) = Digits(x)
         /\ \A i \in 1 .. Digits(x) :
              /\ Groups(x, Digits(x), GroupBits)[i] \in 0 .. Base - 1
              /\ EncodeVarint(x)[i] = Groups(x, Digits(x), GroupBits)[i]
                                        + (IF i < Digits(x) THEN Base ELSE 0)
<1> DEFINE n == Digits(x)
           d == Groups(x, n, GroupBits)
           s == EncodeVarint(x)
<1>1. x \in Nat /\ n \in Nat /\ n \in 1 .. MaxVarint
  BY DigitsFit, Widths
<1>2. s = [i \in 1 .. n |-> d[i] + (IF i < n THEN Base ELSE 0)]
  BY DEF EncodeVarint, Continued
<1> HIDE DEF n
<1>3. d \in [1 .. n -> 0 .. Base - 1]
  BY <1>1, Widths, GroupsType DEF Base
<1> HIDE DEF d, s
<1>4. ASSUME NEW i \in 1 .. n
      PROVE  d[i] \in 0 .. Base - 1 /\ s[i] = d[i] + (IF i < n THEN Base ELSE 0) /\ s[i] \in Byte
  BY <1>2, <1>3, Widths DEF Byte
<1>5. s \in [1 .. n -> Byte] /\ Len(s) = n
  BY <1>1, <1>2, <1>4
<1>6. s \in Seq(Byte)
  BY <1>1, <1>5
<1> QED
  BY <1>4, <1>5, <1>6 DEF n, d, s

(* PBDecodeVarint finds the number that was encoded, when its bits are     *)
(* within the limit.                                                       *)
LEMMA VarintDecoded ==
  ASSUME NEW x \in Encodable, NEW i \in Nat, NEW maxbits \in Nat \ {0},
         x < TwoTo[maxbits],
         \A n \in 1 .. Digits(x) : At(i + n - 1) = EncodeVarint(x)[n]
  PROVE  PBDecodeVarint(i, maxbits) = [size |-> Digits(x), int |-> x]
<1> DEFINE l == Digits(x)
           d == Groups(x, l, GroupBits)
           low == (l - 1) * GroupBits
           y == x \div TwoTo[low]
<1>1. /\ x \in Nat /\ l \in 1 .. MaxVarint /\ l \in Nat /\ x < TwoTo[l * GroupBits]
      /\ l > 1 => TwoTo[low] <= x
  BY DigitsFit, Widths
<1>2. \A n \in 1 .. l : /\ d[n] \in 0 .. Base - 1
                        /\ At(i + n - 1) = d[n] + (IF n < l THEN Base ELSE 0)
  BY VarintBytes
<1>3. d[l] = y % Base
  BY <1>1 DEF Groups, Base
<1>4. d = [n \in 1 .. l |-> d[n]] /\ Number(d, GroupBits) = x
  <2>1. x \in 0 .. TwoTo[l * GroupBits] - 1
    <3>1. TwoTo[l * GroupBits] \in Nat
      BY <1>1, Widths, Shifts
    <3> QED
      BY <1>1, <3>1
  <2>2. Number(d, GroupBits) = x
    <3> HIDE DEF l
    <3> QED
      BY <1>1, <2>1, Widths, NumberOfGroups
  <2>3. d \in [1 .. l -> 0 .. TwoTo[GroupBits] - 1]
    <3> HIDE DEF l
    <3> QED
      BY <1>1, Widths, GroupsType
  <2> HIDE DEF d
  <2> QED
    BY <2>2, <2>3
<1> HIDE DEF l, d
<1>5. low \in Nat /\ l * GroupBits = low + GroupBits /\ TwoTo[low] \in Nat \ {0}
  <2>1. l - 1 \in Nat /\ (l - 1) + 1 = l
    BY <1>1
  <2> QED
    BY <2>1, Widths, Shifts
<1> HIDE DEF low
<1>6. low < maxbits
  <2>1. CASE l = 1
    BY <2>1, Widths DEF low
  <2>2. CASE l # 1
    <3>1. TwoTo[low] <= x
      BY <1>1, <2>2
    <3>2. ~(maxbits <= low)
      <4>1. maxbits <= low => TwoTo[maxbits] <= TwoTo[low]
        BY <1>5, Powers
      <4>2. TwoTo[maxbits] \in Nat
        BY Powers
      <4> QED
        BY <1>1, <1>5, <3>1, <4>1, <4>2
    <3> QED
      BY <1>5, <3>2
  <2> QED
    BY <2>1, <2>2
<1>7. \A n \in 1 .. l : n < l => n * GroupBits <= low
  <2> TAKE n \in 1 .. l
  <2> HAVE n < l
  <2> DEFINE r == l - 1 - n
  <2>1. r \in Nat /\ n \in Nat /\ l - 1 = n + r
    BY <1>1
  <2> HIDE DEF r
  <2>2. (n + r) * GroupBits = n * GroupBits + r * GroupBits
    BY <2>1, Widths
  <2>3. r * GroupBits \in Nat /\ n * GroupBits \in Nat
    BY <2>1, Widths
  <2> QED
    BY <2>1, <2>2, <2>3 DEF low
(* It ends where it was encoded to end.                                    *)
<1>8. VarintEnd(i, maxbits) = l
  <2> DEFINE S == {n \in 1 .. MaxVarint : ~Continues(i + n - 1) \/ n * GroupBits >= maxbits}
  <2>1. l \in S
    <3>1. l \in 1 .. l /\ ~(l < l)
      BY <1>1
    <3>2. At(i + l - 1) = d[l] + 0 /\ d[l] \in 0 .. Base - 1
      BY <1>2, <3>1
    <3>3. ~Continues(i + l - 1)
      BY <3>2, Widths DEF Continues
    <3> QED
      BY <1>1, <3>3
  <2>2. ASSUME NEW n \in S PROVE l <= n
    <3>1. SUFFICES ASSUME n < l PROVE FALSE
      BY <1>1
    <3>2. n \in 1 .. l /\ n * GroupBits <= low /\ n * GroupBits \in Nat
      BY <1>1, <1>7, <3>1, Widths
    <3>3. Continues(i + n - 1)
      <4>1. At(i + n - 1) = d[n] + Base /\ d[n] \in 0 .. Base - 1
        BY <1>2, <3>1, <3>2
      <4> QED
        BY <4>1, Widths DEF Continues
    <3> QED
      BY <1>5, <1>6, <3>2, <3>3
  <2>3. VarintEnd(i, maxbits) = Min(S) /\ S \subseteq Nat
    BY DEF VarintEnd
  <2> HIDE DEF S
  <2>4. Min(S) \in S /\ Min(S) <= l
    BY <2>1, <2>3, Least
  <2>5. l <= Min(S) /\ Min(S) \in Nat
    BY <2>2, <2>3, <2>4
  <2> QED
    BY <1>1, <2>3, <2>4, <2>5
(* No bit of it is ignored.                                                *)
<1>9. ASSUME NEW n \in 1 .. l
      PROVE  At(i + n - 1) % TwoTo[Bits(n, maxbits)] = d[n]
  <2>1. CASE n < l
    <3>1. n \in Nat /\ n - 1 \in Nat /\ n * GroupBits = (n - 1) * GroupBits + GroupBits
          /\ (n - 1) * GroupBits \in Nat
      BY <1>1, Widths
    <3>2. GroupBits <= maxbits - (n - 1) * GroupBits
      BY <1>5, <1>6, <1>7, <2>1, <3>1, Widths
    <3>3. Bits(n, maxbits) = GroupBits
      BY <3>1, <3>2, Widths, MinOfTwo DEF Bits
    <3>4. At(i + n - 1) = Base * 1 + d[n] /\ d[n] \in 0 .. Base - 1
      BY <1>2, <2>1, Widths
    <3>5. At(i + n - 1) \in Nat
      BY <3>4, Widths
    <3>6. At(i + n - 1) % Base = d[n]
      BY <3>4, <3>5, Widths, DivModUnique
    <3> QED
      BY <3>3, <3>6 DEF Base
  <2>2. CASE n = l
    <3> DEFINE k == maxbits - low
    <3>1. k \in Nat /\ k # 0 /\ low + k = maxbits
      BY <1>5, <1>6
    <3>2. y < TwoTo[k] /\ y < Base /\ y \in Nat
      <4>1. x < TwoTo[low] * TwoTo[k] /\ x < TwoTo[low] * Base
        <5> HIDE DEF k
        <5>1. TwoTo[low + k] = TwoTo[low] * TwoTo[k]
          BY <1>5, <3>1, Powers
        <5>2. TwoTo[low + GroupBits] = TwoTo[low] * Base
          BY <1>5, Widths, Powers DEF Base
        <5> QED
          BY <1>1, <1>5, <3>1, <5>1, <5>2
      <4>2. TwoTo[k] \in Nat \ {0}
        BY <3>1, Powers
      <4> HIDE DEF k
      <4>3. x \div TwoTo[low] < TwoTo[k]
        BY <1>1, <1>5, <4>1, <4>2, DivModProduct
      <4>4. x \div TwoTo[low] < Base
        BY <1>1, <1>5, <4>1, Widths, DivModProduct
      <4> QED
        BY <1>1, <1>5, <4>3, <4>4, DivMod
    <3> HIDE DEF y
    <3>3. d[l] = y
      <4>1. y \in 0 .. Base - 1
        BY <3>2, Widths
      <4> QED
        BY <1>3, <4>1, Widths, SmallMod
    <3>4. At(i + n - 1) = y
      BY <1>2, <2>2, <3>2, <3>3
    <3>5. Bits(n, maxbits) \in {GroupBits, k}
      <4>1. Bits(n, maxbits) = Min({GroupBits, k})
        BY <2>2 DEF Bits, low, k
      <4> HIDE DEF k
      <4> QED
        BY <3>1, <4>1, Widths, MinOfTwo
    <3>6. TwoTo[Bits(n, maxbits)] \in Nat \ {0} /\ y < TwoTo[Bits(n, maxbits)]
      <4>1. GroupBits \in Nat /\ k \in Nat
        BY <3>1, Widths
      <4> HIDE DEF k
      <4> QED
        BY <3>2, <3>5, <4>1, Powers DEF Base
    <3>7. y % TwoTo[Bits(n, maxbits)] = y
      BY <3>2, <3>6, SmallMod
    <3> QED
      BY <2>2, <3>3, <3>4, <3>7
  <2> QED
    BY <1>1, <2>1, <2>2
<1>10. [n \in 1 .. l |-> At(i + n - 1) % TwoTo[Bits(n, maxbits)]] = d
  BY <1>4, <1>9
<1>11. ~Continues(i + l - 1)
  <2>1. At(i + l - 1) = d[l] /\ d[l] \in 0 .. Base - 1
    BY <1>1, <1>2, Widths
  <2> QED
    BY <2>1, Widths DEF Continues
<1> QED
  BY <1>4, <1>8, <1>10, <1>11 DEF PBDecodeVarint, l

-----------------------------------------------------------------------------
(***************************************************************************)
(* Keys                                                                    *)
(***************************************************************************)

LEMMA FirstGroup ==
  ASSUME NEW x \in Nat
  PROVE  /\ TwoTo[1 * GroupBits] = Base
         /\ \A n \in Nat \ {0} : Groups(x, n, GroupBits)[1] = x % Base
<1>1. 1 * GroupBits = GroupBits
  BY Widths
<1>2. (1 - 1) * GroupBits = 0 /\ TwoTo[(1 - 1) * GroupBits] = 1
  BY Widths, TwoToDef
<1>3. x \div 1 = x
  BY SmallMod, DivMod
<1>4. ASSUME NEW n \in Nat \ {0} PROVE Groups(x, n, GroupBits)[1] = x % Base
  <2>1. 1 \in 1 .. n
    OBVIOUS
  <2>2. Groups(x, n, GroupBits)[1] = (x \div TwoTo[(1 - 1) * GroupBits]) % TwoTo[GroupBits]
    BY <2>1, Zenon DEF Groups
  <2> QED
    BY <1>2, <1>3, <2>2 DEF Base
<1> QED
  BY <1>1, <1>4 DEF Base

(* A varint of one byte is that byte.                                      *)
LEMMA OneByte ==
  ASSUME NEW x \in Encodable, x < Base
  PROVE  Digits(x) = 1 /\ EncodeVarint(x)[1] = x
<1>1. /\ x \in Nat /\ Digits(x) \in 1 .. MaxVarint
      /\ \A m \in 1 .. MaxVarint : x < TwoTo[m * GroupBits] => Digits(x) <= m
  BY DigitsFit, Zenon
<1>2. Digits(x) = 1
  <2>1. 1 \in 1 .. MaxVarint /\ MaxVarint \in Nat
    BY Widths
  <2>2. TwoTo[1 * GroupBits] = Base
    BY <1>1, FirstGroup, Zenon
  <2>3. x < TwoTo[1 * GroupBits] => Digits(x) <= 1
    BY <1>1, <2>1, Zenon
  <2>4. Digits(x) <= 1
    BY <2>2, <2>3, Zenon
  <2> QED
    BY <1>1, <2>1, <2>4
<1>3. EncodeVarint(x)[1] = Groups(x, 1, GroupBits)[1] + 0 /\ Groups(x, 1, GroupBits)[1] = x % Base
  BY <1>1, <1>2, VarintBytes, FirstGroup
<1>4. x % Base = x
  BY <1>1, Widths, SmallMod
<1> QED
  BY <1>1, <1>2, <1>3, <1>4

LEMMA DivOfProduct ==
  \A x \in Nat, a \in Nat \ {0}, b \in Nat \ {0} :
    x \div (a * b) = (x \div a) \div b
<1> TAKE x \in Nat, a \in Nat \ {0}, b \in Nat \ {0}
<1>1. /\ x \div (a * b) = (x \div a) \div b
      /\ x % (a * b) = (x % a) + ((x \div a) % b) * a
      /\ x < a * b => x \div a < b
  BY DivModProduct
<1> QED
  BY <1>1, Zenon

(* The first byte, and the others, which encode the rest.                  *)
LEMMA MoreBytes ==
  ASSUME NEW x \in Encodable, Base <= x, NEW y, y = x \div Base
  PROVE  /\ y \in Encodable /\ Digits(x) = Digits(y) + 1
         /\ EncodeVarint(x)[1] = (x % Base) + Base
         /\ \A n \in 1 .. Digits(y) : EncodeVarint(x)[n + 1] = EncodeVarint(y)[n]
<1> DEFINE l == Digits(x)
           k == Digits(y)
<1>1. x \in Nat /\ l \in 1 .. MaxVarint /\ x < TwoTo[l * GroupBits] /\ l \in Nat
      /\ \A m \in 1 .. MaxVarint : x < TwoTo[m * GroupBits] => l <= m
  BY DigitsFit, Widths
<1>2. y \in Nat /\ x = Base * y + (x % Base) /\ x % Base \in 0 .. Base - 1
  BY <1>1, Widths, DivMod
<1>3. \A m \in Nat : TwoTo[(m + 1) * GroupBits] = Base * TwoTo[m * GroupBits]
                     /\ TwoTo[m * GroupBits] \in Nat \ {0}
  BY Widths, Shifts DEF Base
<1>4. ASSUME NEW m \in Nat
      PROVE  y < TwoTo[m * GroupBits] <=> x < TwoTo[(m + 1) * GroupBits]
  <2> DEFINE t == TwoTo[m * GroupBits]
  <2>1. t \in Nat \ {0} /\ TwoTo[(m + 1) * GroupBits] = Base * t
    BY <1>3
  <2> HIDE DEF t
  <2>2. x < Base * t => y < t
    <3>1. Base \in Nat \ {0}
      BY Widths, Zenon
    <3>2. /\ x \div (Base * t) = (x \div Base) \div t
          /\ x % (Base * t) = (x % Base) + ((x \div Base) % t) * Base
          /\ x < Base * t => x \div Base < t
      BY <1>1, <2>1, <3>1, DivModProduct, Zenon
    <3> QED
      BY <3>2, Zenon
  <2>3. ASSUME y < t PROVE x < Base * t
    <3> DEFINE r == t - 1 - y
    <3>1. Base \in Nat \ {0}
      BY Widths, Zenon
    <3>2. r \in Nat /\ t = y + 1 + r
      BY <1>2, <2>1, <2>3
    <3> HIDE DEF r
    <3>3. Base * t = Base * y + Base + Base * r
      BY <1>2, <3>1, <3>2
    <3>4. Base * y \in Nat /\ Base * r \in Nat
      BY <1>2, <3>1, <3>2, ProductIsNat
    <3> QED
      BY <1>2, <3>1, <3>3, <3>4
  <2> QED
    BY <2>1, <2>2, <2>3 DEF t
<1> HIDE DEF l
<1>5. l > 1
  <2>1. l = 1 => FALSE
    BY <1>1, <1>2, FirstGroup, Widths
  <2> QED
    BY <1>1, <2>1
<1>6. l - 1 \in 1 .. MaxVarint /\ y < TwoTo[(l - 1) * GroupBits]
  <2>1. l - 1 \in 1 .. MaxVarint /\ l - 1 \in Nat /\ (l - 1) + 1 = l
    BY <1>1, <1>5, Widths
  <2> QED
    BY <1>1, <1>4, <2>1
<1>7. y \in Encodable
  <2>1. (l - 1) * GroupBits <= MaxVarint * GroupBits
        /\ (l - 1) * GroupBits \in Nat /\ MaxVarint * GroupBits \in Nat
    <3> DEFINE r == MaxVarint - (l - 1)
    <3>1. r \in Nat /\ l - 1 \in Nat /\ MaxVarint = (l - 1) + r
      BY <1>6, Widths
    <3> HIDE DEF r
    <3>2. ((l - 1) + r) * GroupBits = (l - 1) * GroupBits + r * GroupBits
          /\ r * GroupBits \in Nat /\ (l - 1) * GroupBits \in Nat
      BY <3>1, Widths
    <3> QED
      BY <3>1, <3>2
  <2>2. TwoTo[(l - 1) * GroupBits] <= TwoTo[MaxVarint * GroupBits]
        /\ TwoTo[MaxVarint * GroupBits] \in Nat /\ TwoTo[(l - 1) * GroupBits] \in Nat
    BY <2>1, Powers
  <2> QED
    BY <1>2, <1>6, <2>2 DEF Encodable
<1>8. /\ k \in 1 .. MaxVarint /\ k \in Nat /\ y < TwoTo[k * GroupBits]
      /\ \A m \in 1 .. MaxVarint : y < TwoTo[m * GroupBits] => k <= m
  BY <1>7, DigitsFit, Widths
<1> HIDE DEF k
<1>9. l = k + 1
  <2>1. k <= l - 1
    BY <1>6, <1>8
  <2>2. k + 1 \in 1 .. MaxVarint
    BY <1>1, <1>8, <2>1, Widths
  <2>3. l <= k + 1
    BY <1>1, <1>4, <1>8, <2>2
  <2> QED
    BY <1>1, <1>8, <2>1, <2>3
<1>10. \A n \in 1 .. l : EncodeVarint(x)[n] = Groups(x, l, GroupBits)[n]
                                                + (IF n < l THEN Base ELSE 0)
  BY VarintBytes DEF l
<1>11. \A n \in 1 .. k : EncodeVarint(y)[n] = Groups(y, k, GroupBits)[n]
                                                + (IF n < k THEN Base ELSE 0)
  BY <1>7, VarintBytes DEF k
<1>12. EncodeVarint(x)[1] = (x % Base) + Base
  <2>1. 1 \in 1 .. l /\ 1 < l /\ l \in Nat \ {0}
    BY <1>1, <1>5
  <2>2. Groups(x, l, GroupBits)[1] = x % Base
    BY <1>1, <2>1, FirstGroup
  <2> QED
    BY <1>10, <2>1, <2>2
<1>13. ASSUME NEW n \in 1 .. k PROVE EncodeVarint(x)[n + 1] = EncodeVarint(y)[n]
  <2>1. n + 1 \in 1 .. l /\ n - 1 \in Nat /\ (n + 1) - 1 = (n - 1) + 1 /\ (n + 1 < l <=> n < k)
    BY <1>8, <1>9
  <2>2. Groups(x, l, GroupBits)[n + 1] = (x \div TwoTo[((n - 1) + 1) * GroupBits]) % Base
    BY <2>1 DEF Groups, Base
  <2>3. Groups(y, k, GroupBits)[n] = (y \div TwoTo[(n - 1) * GroupBits]) % Base
    BY DEF Groups, Base
  <2> DEFINE t == TwoTo[(n - 1) * GroupBits]
  <2>4. t \in Nat \ {0} /\ TwoTo[((n - 1) + 1) * GroupBits] = Base * t
    BY <1>3, <2>1
  <2> HIDE DEF t
  <2>5. x \div (Base * t) = y \div t
    <3>1. Base \in Nat \ {0}
      BY Widths
    <3> QED
      BY <1>1, <2>4, <3>1, DivOfProduct
  <2>6. Groups(x, l, GroupBits)[n + 1] = Groups(y, k, GroupBits)[n]
    BY <2>2, <2>3, <2>4, <2>5 DEF t
  <2> QED
    BY <1>10, <1>11, <2>1, <2>6
<1> QED
  BY <1>7, <1>9, <1>12, <1>13 DEF l, k

(* The message has some bytes from a position on.                          *)
Holds(i, s) ==
  /\ i \in Nat \ {0} /\ len \in Nat /\ len <= Positions
  /\ i + Len(s) <= len
  /\ \A n \in 1 .. Len(s) : At(i + n - 1) = s[n]

(* Up to the end of the message, what remains does not wrap.               *)
LEMMA RemainingIs ==
  ASSUME NEW i \in Nat \ {0}, len \in Nat, len <= Positions, i <= len
  PROVE  Remaining(i) = len - i
<1>1. len - i \in 0 .. Word - 1
  BY Widths
<1>2. (len - i) % Word = len - i
  <2> DEFINE r == len - i
  <2> HIDE DEF r
  <2>1. r \in 0 .. Word - 1
    BY <1>1 DEF r
  <2>2. r % Word = r
    BY <2>1, Widths, SmallMod
  <2> QED
    BY <2>2 DEF r
<1> QED
  BY <1>2 DEF Remaining

LEMMA ProductMonotonic ==
  ASSUME NEW m \in Nat, NEW n \in Nat, m <= n, NEW b \in Nat
  PROVE  m * b \in Nat /\ n * b \in Nat /\ m * b <= n * b
<1> DEFINE r == n - m
<1>1. r \in Nat /\ n = m + r
  OBVIOUS
<1> HIDE DEF r
<1>2. (m + r) * b = m * b + r * b /\ m * b \in Nat /\ r * b \in Nat
  BY <1>1
<1> QED
  BY <1>1, <1>2

Tags == 1 .. TwoTo[MoreTagBits + GroupBits - TypeBits] - 1
Types == {VARINT, FIXED64, BYTES, FIXED32}

(* A key is a number that a varint can hold.                               *)
LEMMA KeyFits ==
  ASSUME NEW tag \in Tags, NEW type \in Types
  PROVE  /\ tag \in Nat \ {0} /\ type \in 0 .. 7
         /\ tag * TypeBase + type \in Encodable
         /\ tag * TypeBase + type < TwoTo[MoreTagBits] * Base
<1> DEFINE n == MoreTagBits + GroupBits - TypeBits
           t == TwoTo[n]
<1>1. n \in Nat /\ n + 3 = MoreTagBits + GroupBits
  BY CodecAssumption, Widths DEF TypeBits
<1>2. t \in Nat \ {0} /\ TwoTo[MoreTagBits + GroupBits] = t * 8
  <2>1. TwoTo[n + 3] = TwoTo[n] * TwoTo[3]
    BY <1>1, Powers
  <2>2. TwoTo[3] = 8
    BY Widths DEF TypeBase, TypeBits
  <2> QED
    BY <1>1, <2>1, <2>2, Powers
<1>3. tag \in 1 .. t - 1
  BY DEF Tags
<1> HIDE DEF n, t
<1>4. tag \in Nat \ {0} /\ type \in 0 .. 7 /\ tag * 8 + type < t * 8
  BY <1>2, <1>3 DEF Types, VARINT, FIXED64, BYTES, FIXED32
<1>5. TwoTo[MoreTagBits + GroupBits] = TwoTo[MoreTagBits] * Base
  BY Widths, Powers DEF Base
<1>6. TwoTo[MoreTagBits + GroupBits] <= TwoTo[MaxVarint * GroupBits]
  <2>1. MaxKey * GroupBits <= MaxVarint * GroupBits /\ MaxKey * GroupBits \in Nat
        /\ MaxVarint * GroupBits \in Nat
    BY CodecAssumption, Widths, ProductMonotonic
  <2>2. MoreTagBits + GroupBits <= MaxVarint * GroupBits
    BY <2>1, CodecAssumption, Widths
  <2> QED
    BY <2>1, <2>2, Widths, Powers
<1>7. TwoTo[MaxVarint * GroupBits] \in Nat
  BY Widths, Shifts
<1> QED
  BY <1>2, <1>4, <1>5, <1>6, <1>7, Widths DEF Encodable

(* EEPROM_Load finds the tag and the type that were encoded, in a key of   *)
(* one byte and in a longer one.                                           *)
LEMMA KeyDecoded ==
  ASSUME NEW tag \in Tags, NEW type \in Types,
         Holds(pos, EncodeVarint(tag * TypeBase + type))
  PROVE  DecodeKey = [ok |-> TRUE, tag |-> tag, type |-> type,
                      size |-> Digits(tag * TypeBase + type)]
<1> DEFINE x == tag * TypeBase + type
           b == At(pos)
           r == x % Base
           q == x \div Base
           u == r \div 8
           v == r % 8
<1>1. /\ tag \in Nat \ {0} /\ type \in 0 .. 7 /\ x \in Encodable
      /\ x < TwoTo[MoreTagBits] * Base /\ x = 8 * tag + type
  BY KeyFits, Widths
<1>2. x \in Nat /\ Digits(x) \in Nat \ {0} /\ Len(EncodeVarint(x)) = Digits(x)
      /\ Digits(x) \in 1 .. MaxVarint
  BY <1>1, DigitsFit, VarintBytes
<1> HIDE DEF x
<1>3. /\ pos \in Nat \ {0} /\ pos + Digits(x) <= len /\ len \in Nat /\ len <= Positions
      /\ \A n \in 1 .. Digits(x) : At(pos + n - 1) = EncodeVarint(x)[n]
  BY <1>2 DEF Holds, x
<1>4. b = EncodeVarint(x)[1]
  <2>1. 1 \in 1 .. Digits(x) /\ pos + 1 - 1 = pos
    BY <1>2, <1>3
  <2> QED
    BY <1>3, <2>1
<1>5. x = Base * q + r /\ q \in Nat /\ r \in 0 .. Base - 1 /\ r \in Nat
  <2>1. /\ x = Base * (x \div Base) + (x % Base)
        /\ x \div Base \in Nat /\ x % Base \in 0 .. Base - 1
    BY <1>2, Widths, DivMod
  <2>2. x % Base \in Nat
    BY <2>1, Widths
  <2> QED
    BY <2>1, <2>2
<1> HIDE DEF r, q
<1>6. r = 8 * u + v /\ u \in Nat /\ v \in 0 .. 7
  <2>1. r = 8 * (r \div 8) + (r % 8) /\ r \div 8 \in Nat /\ r % 8 \in 0 .. 8 - 1
    BY <1>5, DivMod
  <2> QED
    BY <2>1
<1> HIDE DEF b, u, v
(* The type and the parts of the tag.                                      *)
<1>7. tag = u + q * LowTag /\ type = v
  <2> DEFINE w == LowTag * q + u
  <2>1. w \in Nat
    BY <1>5, <1>6, Widths
  <2>2. x = 8 * w + v
    <3>1. Base * q = 8 * (LowTag * q)
      BY <1>5, Widths
    <3> QED
      BY <1>5, <1>6, <3>1, Widths
  <2> HIDE DEF w
  <2>3. w = tag /\ v = type
    BY <1>1, <1>2, <1>6, <2>1, <2>2, DivModUnique
  <2> QED
    BY <1>5, <1>6, <2>3, Widths DEF w
<1>8. CASE x < Base
  <2>1. b = x /\ Digits(x) = 1
    BY <1>1, <1>4, <1>8, OneByte
  <2>2. b % Base = b /\ ~Continues(pos)
    BY <1>2, <1>8, <2>1, Widths, SmallMod DEF Continues, b
  <2>3. b \div 8 = tag /\ b % 8 = type
    BY <1>1, <1>2, <2>1, DivModUnique
  <2> QED
    BY <1>1, <2>1, <2>2, <2>3, Widths DEF DecodeKey, b, x
<1>9. CASE Base <= x
  <2>1. /\ q \in Encodable /\ Digits(x) = Digits(q) + 1 /\ b = r + Base
        /\ \A n \in 1 .. Digits(q) : EncodeVarint(x)[n + 1] = EncodeVarint(q)[n]
    BY <1>1, <1>4, <1>9, MoreBytes DEF q, r
  <2>2. b \in Nat /\ b % Base = r /\ Continues(pos)
    <3>1. b = Base * 1 + r /\ b \in Nat
      BY <1>5, <2>1, Widths
    <3>2. b % Base = r
      BY <1>5, <3>1, Widths, DivModUnique
    <3> QED
      BY <1>5, <2>1, <3>1, <3>2, Widths DEF Continues, b
  <2>3. b % 8 = v
    <3>1. b = 8 * (LowTag + u) + v /\ LowTag + u \in Nat
      BY <1>5, <1>6, <2>1, Widths
    <3> QED
      BY <1>6, <2>2, <3>1, DivModUnique
  <2> DEFINE limit == IF Remaining(pos) < MaxKey THEN Remaining(pos) * GroupBits
                      ELSE MoreTagBits
  <2>4. Digits(q) \in Nat \ {0} /\ q < TwoTo[Digits(q) * GroupBits]
    BY <2>1, DigitsFit
  <2>5. Remaining(pos) = len - pos
    BY <1>2, <1>3, RemainingIs
  <2>6. limit \in Nat \ {0} /\ q < TwoTo[limit]
    <3>1. CASE Remaining(pos) < MaxKey
      <4> DEFINE m == len - pos
      <4>1. m \in Nat \ {0} /\ Digits(q) <= m /\ limit = m * GroupBits
        BY <1>3, <2>1, <2>4, <2>5, <3>1
      <4> HIDE DEF m, limit
      <4>2. Digits(q) * GroupBits <= m * GroupBits /\ m * GroupBits \in Nat
            /\ Digits(q) * GroupBits \in Nat
        BY <2>4, <4>1, Widths, ProductMonotonic
      <4>3. TwoTo[Digits(q) * GroupBits] <= TwoTo[m * GroupBits]
            /\ TwoTo[Digits(q) * GroupBits] \in Nat /\ TwoTo[m * GroupBits] \in Nat
        BY <4>2, Powers
      <4>4. m * GroupBits # 0
        BY <4>1, Widths
      <4> QED
        BY <1>5, <2>4, <4>1, <4>2, <4>3, <4>4
    <3>2. CASE ~(Remaining(pos) < MaxKey)
      <4> DEFINE t == TwoTo[MoreTagBits]
      <4>1. t \in Nat \ {0} /\ x < t * Base
        BY <1>1, Widths, Powers
      <4> HIDE DEF t
      <4>2. t * Base = Base * t
        BY <4>1, Widths
      <4>3. x \div Base < t
        <5>1. Base \in Nat \ {0}
          BY Widths
        <5>2. x < Base * t => x \div Base < t
          BY <1>2, <4>1, <5>1, DivModProduct
        <5> QED
          BY <4>1, <4>2, <5>2
      <4>4. q < TwoTo[MoreTagBits]
        BY <4>3 DEF q, t
      <4> QED
        BY <3>2, <4>4, Widths
    <3> QED
      BY <3>1, <3>2
  <2> HIDE DEF limit
  <2>7. PBDecodeVarint(pos + 1, limit) = [size |-> Digits(q), int |-> q]
    <3>1. pos + 1 \in Nat
      BY <1>3
    <3>2. ASSUME NEW n \in 1 .. Digits(q) PROVE At((pos + 1) + n - 1) = EncodeVarint(q)[n]
      <4>1. n + 1 \in 1 .. Digits(x) /\ (pos + 1) + n - 1 = pos + (n + 1) - 1
        BY <1>3, <2>1, <2>4
      <4> QED
        BY <1>3, <2>1, <4>1
    <3> QED
      BY <2>1, <2>6, <3>1, <3>2, VarintDecoded
  <2>8. TagOf(u, q) = tag /\ Digits(q) # 0
    BY <1>7, <2>4 DEF TagOf
  <2>9. DecodeKey = [ok |-> Digits(q) # 0 /\ TagOf(u, q) # 0, tag |-> TagOf(u, q),
                     type |-> v, size |-> Digits(q) + 1]
    BY <2>2, <2>3, <2>7, Widths DEF DecodeKey, b, u, limit
  <2> QED
    BY <1>1, <1>7, <2>1, <2>8, <2>9 DEF x
<1> QED
  BY <1>2, <1>8, <1>9, Widths

-----------------------------------------------------------------------------
(***************************************************************************)
(* Values                                                                  *)
(***************************************************************************)

(* What fits in the bits that are left when the varint ends the message,   *)
(* or in the bits of a whole one.                                          *)
LEMMA BitsLeft ==
  ASSUME NEW v \in Encodable, NEW m \in Nat, Digits(v) <= m, NEW bits \in Nat \ {0},
         NEW most \in Nat, v < TwoTo[bits]
  PROVE  LET limit == IF m < most THEN m * GroupBits ELSE bits
         IN limit \in Nat \ {0} /\ v < TwoTo[limit]
<1>1. v \in Nat /\ Digits(v) \in Nat \ {0} /\ v < TwoTo[Digits(v) * GroupBits]
  BY DigitsFit, Widths
<1>2. m \in Nat \ {0}
  BY <1>1
<1>3. Digits(v) * GroupBits <= m * GroupBits /\ m * GroupBits \in Nat
      /\ Digits(v) * GroupBits \in Nat
  BY <1>1, Widths, ProductMonotonic
<1>4. TwoTo[Digits(v) * GroupBits] <= TwoTo[m * GroupBits]
      /\ TwoTo[Digits(v) * GroupBits] \in Nat /\ TwoTo[m * GroupBits] \in Nat
  BY <1>3, Powers
<1>5. m * GroupBits # 0
  BY <1>2, Widths
<1>6. v < TwoTo[m * GroupBits]
  BY <1>1, <1>4
<1> QED
  BY <1>3, <1>5, <1>6

(* A varint can hold every word.                                           *)
LEMMA WordFits ==
  /\ Word <= TwoTo[MaxVarint * GroupBits] /\ TwoTo[MaxVarint * GroupBits] \in Nat
  /\ 0 .. Word - 1 \subseteq Encodable
<1>1. WordBits <= MaxVarint * GroupBits /\ MaxVarint * GroupBits \in Nat
  BY CodecAssumption, Widths
<1>2. TwoTo[WordBits] <= TwoTo[MaxVarint * GroupBits]
      /\ TwoTo[MaxVarint * GroupBits] \in Nat
  BY <1>1, Widths, Powers
<1> QED
  BY <1>2, Widths DEF Word, Encodable

(* A varint is decoded to its value, also at the end of a message.         *)
LEMMA VarintValue ==
  ASSUME NEW v \in 0 .. Word - 1, NEW i, Holds(i, EncodeVarint(v))
  PROVE  DecodeValue(VARINT, i) = [at |-> i, size |-> Digits(v), int |-> v]
<1>1. v \in Encodable
  BY WordFits
<1>2. Len(EncodeVarint(v)) = Digits(v) /\ Digits(v) \in Nat \ {0}
  BY <1>1, VarintBytes, DigitsFit
<1>3. /\ i \in Nat \ {0} /\ i + Digits(v) <= len /\ len \in Nat /\ len <= Positions
      /\ \A n \in 1 .. Digits(v) : At(i + n - 1) = EncodeVarint(v)[n]
  BY <1>2 DEF Holds
<1>4. Remaining(i) = len - i /\ len - i \in Nat /\ Digits(v) <= len - i
  BY <1>2, <1>3, RemainingIs
<1> DEFINE limit == IF Remaining(i) < MaxVarint THEN Remaining(i) * GroupBits ELSE WordBits
<1>5. limit \in Nat \ {0} /\ v < TwoTo[limit]
  <2>1. v < TwoTo[WordBits]
    BY Widths DEF Word
  <2> QED
    BY <1>1, <1>4, <2>1, Widths, BitsLeft
<1> HIDE DEF limit
<1>6. PBDecodeVarint(i, limit) = [size |-> Digits(v), int |-> v]
  BY <1>1, <1>3, <1>5, VarintDecoded
<1> QED
  BY <1>6 DEF DecodeValue, VARINT, FIXED64, FIXED32, BYTES, limit

(* A number of some bytes, the lowest first.                               *)
LEMMA FixedNumber ==
  ASSUME NEW n \in Nat \ {0}, NEW v \in 0 .. TwoTo[n * ByteBits] - 1,
         NEW i, Holds(i, LittleEndian(v, n))
  PROVE  Number([k \in 1 .. n |-> At(i + k - 1)], ByteBits) = v
<1>1. ByteBits \in Nat /\ v \in Nat
  BY Widths, Shifts
<1>2. Groups(v, n, ByteBits) \in [1 .. n -> 0 .. TwoTo[ByteBits] - 1]
      /\ Len(Groups(v, n, ByteBits)) = n
  BY <1>1, GroupsType
<1>3. \A k \in 1 .. n : At(i + k - 1) = Groups(v, n, ByteBits)[k]
  BY <1>2 DEF Holds, LittleEndian
<1>4. [k \in 1 .. n |-> At(i + k - 1)] = Groups(v, n, ByteBits)
  BY <1>2, <1>3
<1> QED
  BY <1>1, <1>4, NumberOfGroups

(* A number of fixed size is decoded to its value.                         *)
LEMMA FixedValue ==
  ASSUME NEW i
  PROVE  /\ \A v \in 0 .. TwoTo[Fixed64 * ByteBits] - 1 :
              Holds(i, LittleEndian(v, Fixed64)) =>
                DecodeValue(FIXED64, i) = [at |-> i, size |-> Fixed64, int |-> v]
         /\ \A v \in 0 .. TwoTo[Fixed32 * ByteBits] - 1 :
              Holds(i, LittleEndian(v, Fixed32)) =>
                DecodeValue(FIXED32, i) = [at |-> i, size |-> Fixed32, int |-> v]
<1>1. ASSUME NEW v \in 0 .. TwoTo[Fixed64 * ByteBits] - 1, Holds(i, LittleEndian(v, Fixed64))
      PROVE  DecodeValue(FIXED64, i) = [at |-> i, size |-> Fixed64, int |-> v]
  <2>1. Number([k \in 1 .. Fixed64 |-> At(i + k - 1)], ByteBits) = v
    BY <1>1, Widths, FixedNumber
  <2> QED
    BY <2>1 DEF DecodeValue, VARINT, FIXED64, FIXED32, BYTES
<1>2. ASSUME NEW v \in 0 .. TwoTo[Fixed32 * ByteBits] - 1, Holds(i, LittleEndian(v, Fixed32))
      PROVE  DecodeValue(FIXED32, i) = [at |-> i, size |-> Fixed32, int |-> v]
  <2>1. Number([k \in 1 .. Fixed32 |-> At(i + k - 1)], ByteBits) = v
    BY <1>2, Widths, FixedNumber
  <2> QED
    BY <2>1 DEF DecodeValue, VARINT, FIXED64, FIXED32, BYTES
<1> QED
  BY <1>1, <1>2

(* An array and its length.                                                *)
LEMMA BytesValue ==
  ASSUME NEW v \in [1 .. KeySize -> Byte], NEW i, Holds(i, EncodeVarint(KeySize) \o v)
  PROVE  /\ DecodeValue(BYTES, i) =
              [at |-> i + Digits(KeySize), int |-> KeySize, size |-> KeySize]
         /\ \A n \in 1 .. KeySize : At(i + Digits(KeySize) + n - 1) = v[n]
<1> DEFINE d == Digits(KeySize)
           e == EncodeVarint(KeySize)
<1>1. KeySize \in Nat \ {0} /\ KeySize < Positions /\ KeySize <= MaxBytes
      /\ KeySize \in 0 .. Word - 1
  BY CodecAssumption, Widths
<1>2. KeySize \in Encodable
  BY <1>1, WordFits
<1>3. e \in Seq(Byte) /\ Len(e) = d /\ d \in Nat \ {0}
  BY <1>2, VarintBytes, DigitsFit
<1>4. v \in Seq(Byte) /\ Len(v) = KeySize
  BY <1>1
<1>5. /\ Len(e \o v) = d + KeySize
      /\ \A n \in 1 .. d : (e \o v)[n] = e[n]
      /\ \A n \in 1 .. KeySize : (e \o v)[d + n] = v[n]
  BY <1>1, <1>3, <1>4
<1> HIDE DEF d, e
<1>6. /\ i \in Nat \ {0} /\ len \in Nat /\ len <= Positions /\ i + d + KeySize <= len
      /\ \A n \in 1 .. d + KeySize : At(i + n - 1) = (e \o v)[n]
  BY <1>1, <1>3, <1>5 DEF Holds, e
<1>7. \A n \in 1 .. d : At(i + n - 1) = e[n]
  BY <1>1, <1>3, <1>5, <1>6
<1>8. ASSUME NEW n \in 1 .. KeySize PROVE At(i + d + n - 1) = v[n]
  <2>1. d + n \in 1 .. d + KeySize /\ i + d + n - 1 = i + (d + n) - 1
    BY <1>1, <1>3, <1>6
  <2> QED
    BY <1>5, <1>6, <2>1
<1>9. Remaining(i) # 1 /\ Remaining(i + d) = len - (i + d)
      /\ len - (i + d) \in 0 .. Positions - 1 /\ KeySize <= len - (i + d)
  <2>1. Remaining(i) = len - i /\ len - i >= 2
    BY <1>1, <1>3, <1>6, RemainingIs
  <2>2. i + d \in Nat \ {0} /\ i + d <= len
    BY <1>1, <1>3, <1>6
  <2>3. Remaining(i + d) = len - (i + d)
    BY <1>6, <2>2, RemainingIs
  <2> QED
    BY <1>1, <1>3, <1>6, <2>1, <2>3, Widths
<1>10. PBDecodeVarint(i, GroupBits + 1) = [size |-> d, int |-> KeySize]
  <2>1. KeySize < TwoTo[GroupBits + 1] /\ GroupBits + 1 \in Nat \ {0} /\ i \in Nat
    BY <1>1, <1>6, Widths DEF Positions, ByteBits
  <2> QED
    BY <1>2, <1>7, <2>1, VarintDecoded DEF d, e
<1>11. Remaining(i + d) % Positions = len - (i + d)
  <2> DEFINE r == len - (i + d)
  <2>1. r \in 0 .. Positions - 1 /\ Positions \in Nat \ {0} /\ Remaining(i + d) = r
    BY <1>9, Widths, Zenon
  <2> HIDE DEF r
  <2>2. r % Positions = r
    BY <2>1, SmallMod, Zenon
  <2> QED
    BY <2>1, <2>2, Zenon DEF r
<1>12. DecodeValue(BYTES, i) = [at |-> i + d, int |-> KeySize, size |-> KeySize]
  BY <1>1, <1>3, <1>9, <1>10, <1>11 DEF DecodeValue, VARINT, FIXED64, FIXED32, BYTES
<1> QED
  BY <1>8, <1>12 DEF d

-----------------------------------------------------------------------------
(***************************************************************************)
(* Thresholds                                                              *)
(***************************************************************************)

(* A signed integer is half below zero, and no wider than a word.          *)
LEMMA IntWidth ==
  /\ TwoTo[IntBits - 1] \in Nat \ {0} /\ TwoTo[IntBits] = 2 * TwoTo[IntBits - 1]
  /\ TwoTo[IntBits] <= Word
<1>1. IntBits - 1 \in Nat /\ (IntBits - 1) + 1 = IntBits /\ IntBits \in Nat
  BY Widths
<1>2. TwoTo[(IntBits - 1) + 1] = 2 * TwoTo[IntBits - 1] /\ TwoTo[IntBits - 1] \in Nat \ {0}
  BY <1>1, TwoToDef, Powers
<1>3. IntBits <= WordBits
  BY CodecAssumption
<1>4. TwoTo[IntBits] <= Word
  BY <1>1, <1>3, Widths, Powers DEF Word
<1> QED
  BY <1>1, <1>2, <1>4

(* The zig-zag code of a signed integer fits a word.                       *)
LEMMA SIntRange ==
  ASSUME NEW t \in -TwoTo[IntBits - 1] .. TwoTo[IntBits - 1] - 1
  PROVE  PBEncodeSInt(t) \in 0 .. Word - 1
<1> DEFINE h == TwoTo[IntBits - 1]
<1>1. h \in Nat \ {0} /\ 2 * h <= Word
  BY IntWidth
<1> HIDE DEF h
<1>2. t \in -h .. h - 1
  BY DEF h
<1> QED
  BY <1>1, <1>2, Widths DEF PBEncodeSInt

(* The zig-zag code of a signed integer is decoded to it.                  *)
LEMMA ThresholdIsKept ==
  ASSUME NEW t \in -TwoTo[IntBits - 1] .. TwoTo[IntBits - 1] - 1
  PROVE  ToInt(PBDecodeSInt(PBEncodeSInt(t))) = t
<1> DEFINE h == TwoTo[IntBits - 1]
<1>1. h \in Nat \ {0} /\ TwoTo[IntBits] = 2 * h
  BY IntWidth
<1> HIDE DEF h
<1>2. t \in -h .. h - 1
  BY DEF h
<1>3. PBDecodeSInt(PBEncodeSInt(t)) = t
  BY <1>1, <1>2 DEF PBDecodeSInt, PBEncodeSInt
<1>4. ToInt(t) = t
  <2> DEFINE w == 2 * h
  <2>1. w \in Nat \ {0} /\ w = 2 * h
    BY <1>1
  <2> HIDE DEF w
  <2>2. CASE t >= 0
    <3>1. t \in 0 .. w - 1
      BY <1>1, <1>2, <2>1, <2>2
    <3>2. t % w = t
      BY <2>1, <3>1, SmallMod
    <3> QED
      BY <1>1, <1>2, <2>1, <2>2, <3>2 DEF ToInt, h
  <2>3. CASE t < 0
    <3>1. t % w = t + w
      <4>1. t + w \in 0 .. w - 1
        BY <1>1, <1>2, <2>1, <2>3
      <4> QED
        BY <1>2, <2>1, <4>1
    <3> QED
      BY <1>1, <1>2, <2>1, <2>3, <3>1 DEF ToInt, h
  <2> QED
    BY <1>1, <1>2, <2>2, <2>3
<1> QED
  BY <1>3, <1>4

-----------------------------------------------------------------------------
(***************************************************************************)
(* Fields                                                                  *)
(***************************************************************************)

(* A value that a type of field has.                                       *)
Values(type) ==
  CASE type = VARINT -> 0 .. Word - 1
    [] type = FIXED64 -> 0 .. TwoTo[Fixed64 * ByteBits] - 1
    [] type = FIXED32 -> 0 .. TwoTo[Fixed32 * ByteBits] - 1
    [] type = BYTES -> [1 .. KeySize -> Byte]

LEMMA BytesCase ==
  ASSUME NEW f, f.type = BYTES
  PROVE  /\ EncodeValue(f) = EncodeVarint(Len(f.val)) \o f.val
         /\ Values(f.type) = [1 .. KeySize -> Byte]
<1>1. f.type # VARINT /\ f.type # FIXED64 /\ f.type # FIXED32
  BY DEF VARINT, FIXED64, FIXED32, BYTES
<1>2. EncodeValue(f) = EncodeVarint(Len(f.val)) \o f.val
  BY <1>1, Zenon DEF EncodeValue
<1>3. Values(f.type) = [1 .. KeySize -> Byte]
  BY <1>1, Zenon DEF Values
<1> QED
  BY <1>2, <1>3

IsField(f) == f.tag \in Tags /\ f.type \in Types /\ f.val \in Values(f.type)

Key(f) == EncodeVarint(f.tag * TypeBase + f.type)

LEMMA KeyBytes ==
  ASSUME NEW f, IsField(f)
  PROVE  /\ Key(f) \in Seq(Byte) /\ Len(Key(f)) = Digits(f.tag * TypeBase + f.type)
         /\ Len(Key(f)) \in Nat \ {0}
<1>1. f.tag * TypeBase + f.type \in Encodable
  BY KeyFits DEF IsField
<1> QED
  BY <1>1, VarintBytes, DigitsFit DEF Key

LEMMA LittleEndianBytes ==
  ASSUME NEW v \in Nat, NEW n \in Nat \ {0}
  PROVE  LittleEndian(v, n) \in Seq(Byte) /\ Len(LittleEndian(v, n)) = n
<1>1. Groups(v, n, ByteBits) \in [1 .. n -> 0 .. TwoTo[ByteBits] - 1]
      /\ Len(Groups(v, n, ByteBits)) = n
  BY Widths, GroupsType
<1>2. LittleEndian(v, n) \in [1 .. n -> Byte] /\ Len(LittleEndian(v, n)) = n
  BY <1>1 DEF LittleEndian, Byte, Positions
<1> QED
  BY <1>2

LEMMA ValueBytes ==
  ASSUME NEW f, IsField(f)
  PROVE  EncodeValue(f) \in Seq(Byte) /\ Len(EncodeValue(f)) \in Nat \ {0}
<1>1. CASE f.type = VARINT
  <2>1. EncodeValue(f) = EncodeVarint(f.val) /\ f.val \in 0 .. Word - 1
    BY <1>1 DEF EncodeValue, IsField, Values, VARINT, FIXED64, FIXED32, BYTES
  <2>2. f.val \in Encodable
    BY <2>1, WordFits
  <2> QED
    BY <2>1, <2>2, VarintBytes, DigitsFit
<1>2. CASE f.type = FIXED64
  <2>1. EncodeValue(f) = LittleEndian(f.val, Fixed64) /\ f.val \in Nat
    BY <1>2 DEF EncodeValue, IsField, Values, VARINT, FIXED64, FIXED32, BYTES
  <2> QED
    BY <2>1, Widths, LittleEndianBytes
<1>3. CASE f.type = FIXED32
  <2>1. EncodeValue(f) = LittleEndian(f.val, Fixed32) /\ f.val \in Nat
    BY <1>3 DEF EncodeValue, IsField, Values, VARINT, FIXED64, FIXED32, BYTES
  <2> QED
    BY <2>1, Widths, LittleEndianBytes
<1>4. CASE f.type = BYTES
  <2>1. EncodeValue(f) = EncodeVarint(Len(f.val)) \o f.val /\ f.val \in [1 .. KeySize -> Byte]
    BY <1>4, BytesCase DEF IsField
  <2>2. f.val \in Seq(Byte) /\ Len(f.val) = KeySize /\ KeySize \in 0 .. Word - 1
    BY <2>1, CodecAssumption, Widths
  <2>3. KeySize \in Encodable
    BY <2>2, WordFits
  <2>4. EncodeVarint(KeySize) \in Seq(Byte) /\ Len(EncodeVarint(KeySize)) \in Nat \ {0}
    BY <2>3, VarintBytes, DigitsFit
  <2> QED
    BY <2>1, <2>2, <2>4
<1> QED
  BY <1>1, <1>2, <1>3, <1>4 DEF IsField, Types

(* The bytes of a field are those of its key and then those of its value.  *)
LEMMA FieldBytes ==
  ASSUME NEW f, IsField(f)
  PROVE  /\ FieldOf(f) \in Seq(Byte)
         /\ Len(FieldOf(f)) = Len(Key(f)) + Len(EncodeValue(f))
         /\ Len(FieldOf(f)) \in Nat \ {0}
         /\ \A n \in 1 .. Len(Key(f)) : FieldOf(f)[n] = Key(f)[n]
         /\ \A n \in 1 .. Len(EncodeValue(f)) :
              FieldOf(f)[Len(Key(f)) + n] = EncodeValue(f)[n]
<1>1. FieldOf(f) = Key(f) \o EncodeValue(f)
  BY DEF FieldOf, Key
<1>2. Key(f) \in Seq(Byte) /\ Len(Key(f)) \in Nat \ {0}
  BY KeyBytes
<1>3. EncodeValue(f) \in Seq(Byte) /\ Len(EncodeValue(f)) \in Nat \ {0}
  BY ValueBytes
<1> QED
  BY <1>1, <1>2, <1>3

(* What is decoded of a field and where the next one starts.               *)
LEMMA FieldDecoded ==
  ASSUME NEW f, IsField(f), Holds(pos, FieldOf(f)), NEW at, NEW v,
         at = (pos + DecodeKey.size) % Positions, v = DecodeValue(DecodeKey.type, at)
  PROVE  /\ DecodeKey.ok /\ DecodeKey.tag = f.tag /\ DecodeKey.type = f.type
         /\ at # len /\ v.size # 0
         /\ v.at \in Nat /\ v.size \in Nat /\ v.at + v.size = pos + Len(FieldOf(f))
         /\ f.type # BYTES => v.int = f.val
         /\ f.type = BYTES =>
              /\ v.size = KeySize
              /\ \A n \in 1 .. KeySize : At(v.at + n - 1) = f.val[n]
<1> DEFINE k == Len(Key(f))
           l == Len(EncodeValue(f))
<1>1. k \in Nat \ {0} /\ l \in Nat \ {0} /\ k = Digits(f.tag * TypeBase + f.type)
      /\ Len(FieldOf(f)) = k + l
  BY KeyBytes, ValueBytes, FieldBytes
<1>2. /\ pos \in Nat \ {0} /\ len \in Nat /\ len <= Positions /\ pos + k + l <= len
      /\ \A n \in 1 .. k : At(pos + n - 1) = Key(f)[n]
      /\ \A n \in 1 .. l : At(pos + k + n - 1) = EncodeValue(f)[n]
  <2>1. /\ pos \in Nat \ {0} /\ len \in Nat /\ len <= Positions /\ pos + (k + l) <= len
        /\ \A n \in 1 .. k + l : At(pos + n - 1) = FieldOf(f)[n]
    BY <1>1 DEF Holds
  <2>2. ASSUME NEW n \in 1 .. k PROVE At(pos + n - 1) = Key(f)[n]
    <3>1. n \in 1 .. k + l /\ n \in 1 .. Len(Key(f))
      BY <1>1
    <3>2. FieldOf(f)[n] = Key(f)[n]
      BY <3>1, FieldBytes
    <3> QED
      BY <2>1, <3>1, <3>2
  <2>3. ASSUME NEW n \in 1 .. l PROVE At(pos + k + n - 1) = EncodeValue(f)[n]
    <3>1. k + n \in 1 .. k + l /\ pos + k + n - 1 = pos + (k + n) - 1
      BY <1>1, <2>1
    <3> QED
      BY <2>1, <3>1, FieldBytes
  <2> QED
    BY <1>1, <2>1, <2>2, <2>3
<1> HIDE DEF k, l
<1>3. DecodeKey = [ok |-> TRUE, tag |-> f.tag, type |-> f.type, size |-> k]
  <2>1. Holds(pos, EncodeVarint(f.tag * TypeBase + f.type))
    BY <1>1, <1>2 DEF Holds, Key, k
  <2> QED
    BY <1>1, <2>1, KeyDecoded DEF IsField
<1>4. at = pos + k /\ at # len /\ at \in Nat \ {0}
  <2>1. pos + k \in 0 .. Positions - 1
    <3>1. Positions \in Nat
      BY Widths
    <3>2. k \in Nat /\ l \in Nat /\ 0 < l /\ pos \in Nat /\ len \in Nat
      BY <1>1, <1>2
    <3>3. pos + k + l <= len /\ len <= Positions
      BY <1>2
    <3> HIDE DEF k, l
    <3> QED
      BY <3>1, <3>2, <3>3
  <2>2. (pos + k) % Positions = pos + k
    BY <2>1, Widths, SmallMod
  <2>3. at = (pos + k) % Positions
    BY <1>3
  <2>4. at = pos + k
    BY <2>2, <2>3, Zenon
  <2>5. pos + k \in Nat \ {0} /\ pos + k < len
    <3>1. pos \in Nat \ {0} /\ len \in Nat /\ pos + k + l <= len
      BY <1>2, Zenon
    <3> QED
      BY <1>1, <3>1
  <2>6. pos + k # len
    BY <1>2, <2>5
  <2> QED
    BY <2>4, <2>5, <2>6, Zenon
<1>5. Holds(at, EncodeValue(f)) /\ v = DecodeValue(f.type, at)
  BY <1>1, <1>2, <1>3, <1>4 DEF Holds, l
<1>6. CASE f.type = VARINT
  <2>1. EncodeValue(f) = EncodeVarint(f.val) /\ f.val \in 0 .. Word - 1
    BY <1>6 DEF EncodeValue, IsField, Values, VARINT, FIXED64, FIXED32, BYTES
  <2>2. v = [at |-> at, size |-> Digits(f.val), int |-> f.val]
    BY <1>5, <1>6, <2>1, VarintValue
  <2>3. Digits(f.val) = l
    BY <2>1, WordFits, VarintBytes DEF l
  <2> QED
    BY <1>1, <1>2, <1>3, <1>4, <1>6, <2>2, <2>3 DEF VARINT, BYTES
<1>7. CASE f.type = FIXED64
  <2>1. EncodeValue(f) = LittleEndian(f.val, Fixed64)
        /\ f.val \in 0 .. TwoTo[Fixed64 * ByteBits] - 1
    BY <1>7 DEF EncodeValue, IsField, Values, VARINT, FIXED64, FIXED32, BYTES
  <2>2. v = [at |-> at, size |-> Fixed64, int |-> f.val]
    BY <1>5, <1>7, <2>1, FixedValue
  <2>3. Fixed64 = l
    BY <2>1, Widths, LittleEndianBytes DEF l
  <2> QED
    BY <1>1, <1>2, <1>3, <1>4, <1>7, <2>2, <2>3 DEF FIXED64, BYTES
<1>8. CASE f.type = FIXED32
  <2>1. EncodeValue(f) = LittleEndian(f.val, Fixed32)
        /\ f.val \in 0 .. TwoTo[Fixed32 * ByteBits] - 1
    BY <1>8 DEF EncodeValue, IsField, Values, VARINT, FIXED64, FIXED32, BYTES
  <2>2. v = [at |-> at, size |-> Fixed32, int |-> f.val]
    BY <1>5, <1>8, <2>1, FixedValue
  <2>3. Fixed32 = l
    BY <2>1, Widths, LittleEndianBytes DEF l
  <2> QED
    BY <1>1, <1>2, <1>3, <1>4, <1>8, <2>2, <2>3 DEF FIXED32, BYTES
<1>9. CASE f.type = BYTES
  <2>1. EncodeValue(f) = EncodeVarint(Len(f.val)) \o f.val /\ f.val \in [1 .. KeySize -> Byte]
    BY <1>9, BytesCase DEF IsField
  <2>2. f.val \in Seq(Byte) /\ Len(f.val) = KeySize /\ KeySize \in 0 .. Word - 1
    BY <2>1, CodecAssumption, Widths
  <2>3. Holds(at, EncodeVarint(KeySize) \o f.val)
    BY <1>5, <2>1, <2>2
  <2>4. /\ v = [at |-> at + Digits(KeySize), int |-> KeySize, size |-> KeySize]
        /\ \A n \in 1 .. KeySize : At(at + Digits(KeySize) + n - 1) = f.val[n]
    BY <1>5, <1>9, <2>1, <2>3, BytesValue
  <2>5. Digits(KeySize) + KeySize = l /\ Digits(KeySize) \in Nat \ {0}
    <3>1. /\ EncodeVarint(KeySize) \in Seq(Byte) /\ Len(EncodeVarint(KeySize)) = Digits(KeySize)
          /\ Digits(KeySize) \in Nat \ {0}
      BY <2>2, WordFits, VarintBytes, DigitsFit
    <3>2. EncodeVarint(KeySize) \o f.val = EncodeValue(f)
      BY <2>1, <2>2
    <3>3. Len(EncodeVarint(KeySize) \o f.val) = Digits(KeySize) + KeySize
      BY <2>2, <3>1
    <3> QED
      BY <3>1, <3>2, <3>3 DEF l
  <2> DEFINE d == Digits(KeySize)
  <2>6. v.at = at + d /\ v.size = KeySize /\ KeySize \in Nat \ {0}
        /\ \A n \in 1 .. KeySize : At(v.at + n - 1) = f.val[n]
    BY <2>4, Widths
  <2>7. d + KeySize = l /\ d \in Nat \ {0}
    BY <2>5
  <2> HIDE DEF d
  <2>8. v.at \in Nat /\ v.size \in Nat /\ v.at + v.size = pos + Len(FieldOf(f))
    <3>1. at \in Nat /\ pos \in Nat /\ k \in Nat /\ l \in Nat /\ at = pos + k
      BY <1>1, <1>2, <1>4
    <3>2. v.at \in Nat /\ v.size \in Nat
      BY <2>6, <2>7, <3>1
    <3>3. at + d + KeySize = pos + (k + l)
      BY <2>6, <2>7, <3>1
    <3> QED
      BY <1>1, <2>6, <3>2, <3>3
  <2> QED
    BY <1>3, <1>4, <1>9, <2>6, <2>8
<1> QED
  BY <1>6, <1>7, <1>8, <1>9 DEF IsField, Types

(* The five fields of a configuration.                                     *)
IsSetting(f, setting, type) ==
  f.tag = Tag[setting] /\ f.type = type /\ f.val \in Values(type)

(* Every configuration gives five fields, each with the tag, the type and  *)
(* the value of a setting.                                                 *)
LEMMA FieldsAre ==
  ASSUME NEW c \in Configs, NEW s \in Fields(c)
  PROVE  /\ Len(s) = 5 /\ s \in Seq({s[1], s[2], s[3], s[4], s[5]})
         /\ \A k \in 1 .. 5 : IsField(s[k])
         /\ IsSetting(s[1], "devEui", FIXED64) /\ s[1].val = c.devEui
         /\ IsSetting(s[2], "appKey", BYTES) /\ s[2].val = c.appKey
         /\ IsSetting(s[3], "devAddr", FIXED32) /\ s[3].val = c.devAddr
         /\ IsSetting(s[4], "txPort", VARINT) /\ s[4].val = c.txPort
         /\ IF c.mode = "off"
            THEN IsSetting(s[5], "singleCount", VARINT) /\ s[5].val = c.singleCount
            ELSE /\ c.mode \in Modes /\ IsSetting(s[5], c.mode, VARINT)
                 /\ c.mode \notin Humidity => s[5].val = PBEncodeSInt(c.threshold)
<1>1. PICK last \in LastField(c) :
        s = <<Field("devEui", FIXED64, c.devEui), Field("appKey", BYTES, c.appKey),
              Field("devAddr", FIXED32, c.devAddr), Field("txPort", VARINT, c.txPort), last>>
  BY DEF Fields
<1>2. c \in Configuration
  BY CodecAssumption
<1>3. Tag \in [Settings -> Tags]
  BY CodecAssumption DEF Tags
<1>4. IsSetting(s[1], "devEui", FIXED64) /\ s[1].val = c.devEui
  BY <1>1, <1>2 DEF Field, IsSetting, Values, Configuration, VARINT, FIXED64, FIXED32,
                    BYTES
<1>5. IsSetting(s[2], "appKey", BYTES) /\ s[2].val = c.appKey
  BY <1>1, <1>2 DEF Field, IsSetting, Values, Configuration, VARINT, FIXED64, FIXED32,
                    BYTES
<1>6. IsSetting(s[3], "devAddr", FIXED32) /\ s[3].val = c.devAddr
  BY <1>1, <1>2 DEF Field, IsSetting, Values, Configuration, VARINT, FIXED64, FIXED32,
                    BYTES
<1>7. IsSetting(s[4], "txPort", VARINT) /\ s[4].val = c.txPort
  BY <1>1, <1>2 DEF Field, IsSetting, Values, Configuration, VARINT, FIXED64, FIXED32,
                    BYTES
<1>8. ASSUME c.mode = "off"
      PROVE  IsSetting(s[5], "singleCount", VARINT) /\ s[5].val = c.singleCount
  <2>1. s[5] = Field("singleCount", VARINT, c.singleCount)
    BY <1>1, <1>8 DEF LastField
  <2>2. c.singleCount \in 0 .. Word - 1
    BY <1>2 DEF Configuration
  <2> QED
    BY <2>1, <2>2 DEF Field, IsSetting, Values, VARINT, FIXED64, FIXED32, BYTES
<1>9. ASSUME c.mode # "off"
      PROVE  /\ c.mode \in Modes /\ IsSetting(s[5], c.mode, VARINT)
             /\ c.mode \notin Humidity => s[5].val = PBEncodeSInt(c.threshold)
  <2>1. c.mode \in Modes /\ c.threshold \in -TwoTo[IntBits - 1] .. TwoTo[IntBits - 1] - 1
    BY <1>2, <1>9 DEF Configuration
  <2>2. PICK v \in SavedThreshold(c.mode, c.threshold) : s[5] = Field(c.mode, VARINT, v)
    BY <1>1, <1>9 DEF LastField
  <2>3. v \in 0 .. Word - 1 /\ (c.mode \notin Humidity => v = PBEncodeSInt(c.threshold))
    <3>1. CASE c.mode = "HUMIDITY_LOW"
      <4>1. v \in {c.threshold % Word, 0, Word - 1}
        BY <2>2, <3>1 DEF SavedThreshold, VaArg
      <4>2. c.threshold \in Int
        BY <2>1, IntWidth
      <4>3. c.threshold % Word \in 0 .. Word - 1
        BY <4>2, Widths
      <4> QED
        BY <3>1, <4>1, <4>3, Widths DEF Humidity
    <3>2. CASE c.mode # "HUMIDITY_LOW"
      <4>1. v = PBEncodeSInt(c.threshold)
        BY <2>2, <3>2 DEF SavedThreshold
      <4> QED
        BY <2>1, <4>1, SIntRange
    <3> QED
      BY <3>1, <3>2
  <2>4. IsSetting(s[5], c.mode, VARINT) /\ s[5].val = v
    BY <2>2, <2>3 DEF Field, IsSetting, Values, VARINT, FIXED64, FIXED32, BYTES
  <2> QED
    BY <2>1, <2>3, <2>4
<1>10. Len(s) = 5 /\ s \in Seq({s[1], s[2], s[3], s[4], s[5]})
  BY <1>1
<1>11. \A k \in 1 .. 5 : IsField(s[k])
  <2>1. \A f, setting, type : setting \in Settings /\ type \in Types
                               /\ IsSetting(f, setting, type) => IsField(f)
    BY <1>3 DEF IsSetting, IsField
  <2>2. {"devEui", "appKey", "devAddr", "txPort", "singleCount"} \cup Modes \subseteq Settings
        /\ {FIXED64, BYTES, FIXED32, VARINT} \subseteq Types
    BY DEF Settings, Types
  <2>3. IsField(s[1]) /\ IsField(s[2]) /\ IsField(s[3]) /\ IsField(s[4])
    BY <1>4, <1>5, <1>6, <1>7, <2>1, <2>2
  <2>4. IsField(s[5])
    BY <1>8, <1>9, <2>1, <2>2
  <2>5. \A k \in 1 .. 5 : k = 1 \/ k = 2 \/ k = 3 \/ k = 4 \/ k = 5
    OBVIOUS
  <2> QED
    BY <2>3, <2>4, <2>5
<1> QED
  BY <1>4, <1>5, <1>6, <1>7, <1>8, <1>9, <1>10, <1>11

-----------------------------------------------------------------------------
(***************************************************************************)
(* Where the fields are                                                    *)
(***************************************************************************)

(* The fields follow each other without a gap.                             *)
LEMMA Starts ==
  ASSUME DevCfg \in Configs, fields \in Fields(DevCfg)
  PROVE  /\ Len(fields) = 5
         /\ \A k \in 1 .. 5 : /\ IsField(fields[k])
                              /\ FieldOf(fields[k]) \in Seq(Byte)
                              /\ Width(k) \in Nat \ {0} /\ Start(k + 1) = Start(k) + Width(k)
         /\ Start(1) = 1
         /\ \A j \in 1 .. 6 : Start(j) \in Nat \ {0}
         /\ \A j, k \in 1 .. 6 : j < k => Start(j) + Width(j) <= Start(k)
<1>1. Len(fields) = 5 /\ \A k \in 1 .. 5 : IsField(fields[k])
  BY FieldsAre
<1>2. \A k \in 1 .. 5 : FieldOf(fields[k]) \in Seq(Byte) /\ Width(k) \in Nat \ {0}
  BY <1>1, FieldBytes DEF Width
<1>3. Width(1) \in Nat \ {0} /\ Width(2) \in Nat \ {0} /\ Width(3) \in Nat \ {0}
      /\ Width(4) \in Nat \ {0} /\ Width(5) \in Nat \ {0}
  BY <1>2
<1>4. /\ Start(1) = 1 /\ Start(2) = 1 + Width(1) /\ Start(3) = Start(2) + Width(2)
      /\ Start(4) = Start(3) + Width(3) /\ Start(5) = Start(4) + Width(4)
      /\ Start(6) = Start(5) + Width(5)
  BY <1>3 DEF Start, Upto
<1>5. \A k \in 1 .. 5 : k = 1 \/ k = 2 \/ k = 3 \/ k = 4 \/ k = 5
  OBVIOUS
<1>6. \A k \in 1 .. 5 : Start(k + 1) = Start(k) + Width(k)
  BY <1>4, <1>5
<1>7. /\ Start(1) \in Nat \ {0} /\ Start(2) \in Nat \ {0} /\ Start(3) \in Nat \ {0}
      /\ Start(4) \in Nat \ {0} /\ Start(5) \in Nat \ {0} /\ Start(6) \in Nat \ {0}
  BY <1>3, <1>4
<1>8. \A j \in 1 .. 6 : j = 1 \/ j = 2 \/ j = 3 \/ j = 4 \/ j = 5 \/ j = 6
  OBVIOUS
<1>9. \A j \in 1 .. 6 : Start(j) \in Nat \ {0}
  BY <1>7, <1>8
<1>10. ASSUME NEW j \in 1 .. 6, NEW k \in 1 .. 6, j < k PROVE Start(j) + Width(j) <= Start(k)
  BY <1>3, <1>4, <1>7, <1>8, <1>10
<1> QED
  BY <1>1, <1>2, <1>4, <1>6, <1>9, <1>10

-----------------------------------------------------------------------------
(***************************************************************************)
(* What fits in the buffer                                                 *)
(***************************************************************************)

(* As much of a message as there is room for.                              *)
HasOf(u, s, room) ==
  /\ u \in Seq(Byte)
  /\ Len(u) = IF Len(s) <= room THEN Len(s) ELSE room
  /\ \A i \in 1 .. Len(u) : u[i] = s[i]

LEMMA ClippedIs ==
  ASSUME NEW s \in Seq(Byte), NEW room \in Nat
  PROVE  /\ HasOf(Clipped(s, room), s, room)
         /\ Len(s) <= room => Clipped(s, room) = s
<1> DEFINE m == IF Len(s) <= room THEN Len(s) ELSE room
<1>1. Clipped(s, room) = SubSeq(s, 1, m)
  BY MinOfTwo DEF Clipped
<1>2. m \in 0 .. Len(s)
  OBVIOUS
<1>3. /\ SubSeq(s, 1, m) \in Seq(Byte) /\ Len(SubSeq(s, 1, m)) = m
      /\ \A i \in 1 .. m : SubSeq(s, 1, m)[i] = s[i]
  BY <1>2
<1>4. Len(s) <= room => SubSeq(s, 1, m) = s
  BY <1>3
<1> QED
  BY <1>1, <1>3, <1>4 DEF HasOf

LEMMA Appends ==
  ASSUME NEW s \in Seq(Byte), NEW t \in Seq(Byte), NEW c \in Nat, NEW room \in Nat,
         room = IF Len(s) < c THEN c - Len(s) ELSE 0,
         NEW a \in Seq(Byte), HasOf(a, s, c), NEW b \in Seq(Byte), HasOf(b, t, room),
         NEW u \in Seq(Byte), HasOf(u, s \o t, c)
  PROVE  u = a \o b
<1>1. /\ Len(s) <= c => Len(a) = Len(s)
      /\ ~(Len(s) <= c) => Len(a) = c
      /\ Len(t) <= room => Len(b) = Len(t)
      /\ ~(Len(t) <= room) => Len(b) = room
      /\ Len(s \o t) <= c => Len(u) = Len(s \o t)
      /\ ~(Len(s \o t) <= c) => Len(u) = c
  BY DEF HasOf
<1>2. /\ \A i \in 1 .. Len(a) : a[i] = s[i]
      /\ \A i \in 1 .. Len(b) : b[i] = t[i]
      /\ \A i \in 1 .. Len(u) : u[i] = (s \o t)[i]
  BY DEF HasOf
<1>3. Len(s) \in Nat /\ Len(t) \in Nat /\ Len(s \o t) = Len(s) + Len(t)
  OBVIOUS
<1>4. Len(a) \in Nat /\ Len(b) \in Nat /\ Len(a \o b) = Len(a) + Len(b)
      /\ a \o b \in Seq(Byte)
  OBVIOUS
<1>5. Len(u) = Len(a) + Len(b)
  <2>1. CASE Len(s) < c
    <3>1. room = c - Len(s)
      BY <2>1
    <3>2. Len(t) <= room <=> Len(s \o t) <= c
      BY <1>3, <2>1, <3>1
    <3> QED
      BY <1>1, <1>3, <2>1, <3>1, <3>2
  <2>2. CASE ~(Len(s) < c)
    <3>1. room = 0
      BY <2>2
    <3>2. Len(b) = 0 /\ Len(a) = c
      BY <1>1, <1>3, <2>2, <3>1
    <3>3. Len(u) = c
      BY <1>1, <1>3, <2>2
    <3> QED
      BY <3>2, <3>3
  <2> QED
    BY <2>1, <2>2
<1>6. ASSUME NEW i \in 1 .. Len(u) PROVE u[i] = (a \o b)[i]
  <2>1. i \in Nat \ {0} /\ i <= Len(a) + Len(b) /\ i <= Len(s) + Len(t)
    BY <1>1, <1>3, <1>4, <1>5
  <2>2. CASE i <= Len(a)
    <3>1. i <= Len(s)
      BY <1>1, <1>3, <2>1, <2>2
    <3>2. (a \o b)[i] = a[i] /\ a[i] = s[i]
      BY <1>1, <1>2, <1>4, <2>1, <2>2
    <3>3. (s \o t)[i] = s[i]
      BY <1>3, <2>1, <3>1
    <3> QED
      BY <1>2, <3>2, <3>3
  <2>3. CASE i > Len(a)
    <3>1. Len(a) = Len(s)
      BY <1>1, <1>3, <1>5, <2>1, <2>3
    <3>2. i - Len(s) \in 1 .. Len(b) /\ i > Len(s)
      BY <1>3, <1>4, <2>1, <2>3, <3>1
    <3>3. (a \o b)[i] = b[i - Len(s)]
      BY <1>1, <1>3, <1>4, <2>1, <3>1, <3>2
    <3>4. (s \o t)[i] = t[i - Len(s)]
      BY <1>3, <2>1, <3>2
    <3> QED
      BY <1>2, <3>2, <3>3, <3>4
  <2> QED
    BY <2>1, <1>4, <2>2, <2>3
<1> QED
  <2>1. Len(u) = Len(a \o b)
    BY <1>4, <1>5
  <2> QED
    BY <1>4, <1>6, <2>1, SeqEqual

(* A message is clipped by clipping what is appended.                      *)
LEMMA ClippedAppend ==
  ASSUME NEW s \in Seq(Byte), NEW t \in Seq(Byte), NEW c \in Nat
  PROVE  Clipped(s \o t, c) = Clipped(s, c) \o Clipped(t, IF Len(s) < c THEN c - Len(s) ELSE 0)
<1> DEFINE room == IF Len(s) < c THEN c - Len(s) ELSE 0
<1>1. room \in Nat /\ s \o t \in Seq(Byte)
  OBVIOUS
<1> HIDE DEF room
<1>2. room = IF Len(s) < c THEN c - Len(s) ELSE 0
  BY DEF room
<1>3. /\ HasOf(Clipped(s, c), s, c) /\ HasOf(Clipped(t, room), t, room)
      /\ HasOf(Clipped(s \o t, c), s \o t, c)
  BY <1>1, ClippedIs
<1>4. /\ Clipped(s, c) \in Seq(Byte) /\ Clipped(t, room) \in Seq(Byte)
      /\ Clipped(s \o t, c) \in Seq(Byte)
  BY <1>3 DEF HasOf
<1>5. Clipped(s \o t, c) = Clipped(s, c) \o Clipped(t, room)
  BY <1>1, <1>2, <1>3, <1>4, Appends
<1> QED
  BY <1>5 DEF room

-----------------------------------------------------------------------------
(***************************************************************************)
(* What is loaded                                                          *)
(***************************************************************************)

(* Before the first field nothing is loaded, after the last everything.    *)
LEMMA AllLoaded ==
  ASSUME DevCfg \in Configs
  PROVE  LoadedTo(1) = Default /\ LoadedTo(6) = DevCfg
<1>1. DevCfg \in Configuration
  BY CodecAssumption
<1> QED
  BY <1>1 DEF LoadedTo, Default, Configuration

(* Loading a setting comes to what is loaded before the next field.        *)
LEMMA LoadedNext ==
  ASSUME DevCfg \in Configs
  PROVE  /\ [LoadedTo(1) EXCEPT !.devEui = DevCfg.devEui] = LoadedTo(2)
         /\ [LoadedTo(2) EXCEPT !.appKey = DevCfg.appKey] = LoadedTo(3)
         /\ [LoadedTo(3) EXCEPT !.devAddr = DevCfg.devAddr] = LoadedTo(4)
         /\ [LoadedTo(4) EXCEPT !.txPort = DevCfg.txPort] = LoadedTo(5)
         /\ DevCfg.mode = "off" /\ DevCfg.threshold = 0 =>
              [LoadedTo(5) EXCEPT !.singleCount = DevCfg.singleCount] = LoadedTo(6)
         /\ DevCfg.singleCount = 0 =>
              [LoadedTo(5) EXCEPT !.mode = DevCfg.mode, !.threshold = DevCfg.threshold]
                = LoadedTo(6)
<1>1. [LoadedTo(1) EXCEPT !.devEui = DevCfg.devEui] = LoadedTo(2)
  BY DEF LoadedTo
<1>2. [LoadedTo(2) EXCEPT !.appKey = DevCfg.appKey] = LoadedTo(3)
  BY DEF LoadedTo
<1>3. [LoadedTo(3) EXCEPT !.devAddr = DevCfg.devAddr] = LoadedTo(4)
  BY DEF LoadedTo
<1>4. [LoadedTo(4) EXCEPT !.txPort = DevCfg.txPort] = LoadedTo(5)
  BY DEF LoadedTo
<1>5. ASSUME DevCfg.mode = "off", DevCfg.threshold = 0
      PROVE  [LoadedTo(5) EXCEPT !.singleCount = DevCfg.singleCount] = LoadedTo(6)
  BY <1>5 DEF LoadedTo
<1>6. ASSUME DevCfg.singleCount = 0
      PROVE  [LoadedTo(5) EXCEPT !.mode = DevCfg.mode, !.threshold = DevCfg.threshold]
               = LoadedTo(6)
  <2>1. LoadedTo(5) =
          [devEui |-> DevCfg.devEui, appKey |-> DevCfg.appKey, devAddr |-> DevCfg.devAddr,
           txPort |-> DevCfg.txPort, mode |-> "off", threshold |-> 0, singleCount |-> 0]
    BY DEF LoadedTo
  <2>2. LoadedTo(6) =
          [devEui |-> DevCfg.devEui, appKey |-> DevCfg.appKey, devAddr |-> DevCfg.devAddr,
           txPort |-> DevCfg.txPort, mode |-> DevCfg.mode, threshold |-> DevCfg.threshold,
           singleCount |-> 0]
    BY <1>6 DEF LoadedTo
  <2> DEFINE r == [LoadedTo(5) EXCEPT !.mode = DevCfg.mode]
  <2>3. r = [devEui |-> DevCfg.devEui, appKey |-> DevCfg.appKey, devAddr |-> DevCfg.devAddr,
             txPort |-> DevCfg.txPort, mode |-> DevCfg.mode, threshold |-> 0,
             singleCount |-> 0]
    BY <2>1
  <2> HIDE DEF r
  <2>4. [r EXCEPT !.threshold = DevCfg.threshold] = LoadedTo(6)
    BY <2>2, <2>3
  <2> QED
    BY <2>4 DEF r
<1> QED
  BY <1>1, <1>2, <1>3, <1>4, <1>5, <1>6

(* A setting is told by its tag.                                           *)
LEMMA TagsDiffer ==
  ASSUME NEW s \in Settings, NEW t \in Settings, Tag[s] = Tag[t]
  PROVE  s = t
BY CodecAssumption

(* What EEPROM_Load makes of a field is its setting, and no other.         *)
LEMMA AppliedIs ==
  ASSUME DevCfg \in Configs, fields \in Fields(DevCfg), NEW j \in 1 .. 5, NEW v,
         loaded = LoadedTo(j),
         fields[j].type # BYTES => v.int = fields[j].val,
         fields[j].type = BYTES =>
           v.size = KeySize /\ \A n \in 1 .. KeySize : At(v.at + n - 1) = fields[j].val[n]
  PROVE  LET new == Applied(fields[j].tag, fields[j].type, v)
         IN /\ new = LoadedTo(j + 1) \/ (j = 5 /\ DevCfg.mode \in Humidity)
            /\ DOMAIN new = DOMAIN Default
<1> DEFINE f == fields[j]
           new == Applied(f.tag, f.type, v)
<1> USE DEF VARINT, FIXED64, FIXED32, BYTES
<1>1. DevCfg \in Configuration
  BY CodecAssumption
<1>2. /\ Modes \subseteq Settings /\ "off" \notin Modes
      /\ {"devEui", "appKey", "devAddr", "txPort", "singleCount"} \subseteq Settings
      /\ {"devEui", "appKey", "devAddr", "txPort", "singleCount"} \cap Modes = {}
  BY DEF Settings, Modes
<1>3. \A k : DOMAIN LoadedTo(k) = DOMAIN Default
  BY DEF LoadedTo, Default
<1>4. CASE j = 1
  <2>1. f.tag = Tag["devEui"] /\ f.type = FIXED64 /\ f.val = DevCfg.devEui
    BY <1>4, FieldsAre DEF IsSetting
  <2>2. new = [loaded EXCEPT !.devEui = v.int] /\ v.int = DevCfg.devEui
    BY <2>1 DEF Applied
  <2>3. new = LoadedTo(2)
    BY <1>4, <2>2, LoadedNext
  <2> QED
    BY <1>3, <1>4, <2>3
<1>5. CASE j = 2
  <2>1. f.tag = Tag["appKey"] /\ f.type = BYTES /\ f.val = DevCfg.appKey
    BY <1>5, FieldsAre DEF IsSetting
  <2>2. new = [loaded EXCEPT !.appKey = [k \in 1 .. KeySize |-> At(v.at + k - 1)]]
    BY <2>1 DEF Applied
  <2>3. DevCfg.appKey \in [1 .. KeySize -> Byte]
    BY <1>1 DEF Configuration
  <2>4. [k \in 1 .. KeySize |-> At(v.at + k - 1)] = DevCfg.appKey
    BY <2>1, <2>3
  <2>5. new = LoadedTo(3)
    BY <1>5, <2>2, <2>4, LoadedNext
  <2> QED
    BY <1>3, <1>5, <2>5
<1>6. CASE j = 3
  <2>1. f.tag = Tag["devAddr"] /\ f.type = FIXED32 /\ f.val = DevCfg.devAddr
    BY <1>6, FieldsAre DEF IsSetting
  <2>2. new = [loaded EXCEPT !.devAddr = v.int] /\ v.int = DevCfg.devAddr
    BY <2>1 DEF Applied
  <2>3. new = LoadedTo(4)
    BY <1>6, <2>2, LoadedNext
  <2> QED
    BY <1>3, <1>6, <2>3
<1>7. CASE j = 4
  <2>1. f.tag = Tag["txPort"] /\ f.type = VARINT /\ f.val = DevCfg.txPort
    BY <1>7, FieldsAre DEF IsSetting
  <2>2. new = [loaded EXCEPT !.txPort = v.int] /\ v.int = DevCfg.txPort
    BY <2>1 DEF Applied
  <2>3. new = LoadedTo(5)
    BY <1>7, <2>2, LoadedNext
  <2> QED
    BY <1>3, <1>7, <2>3
<1>8. CASE j = 5 /\ DevCfg.mode = "off"
  <2>1. f.tag = Tag["singleCount"] /\ f.type = VARINT /\ f.val = DevCfg.singleCount
    BY <1>8, FieldsAre DEF IsSetting
  <2>2. Tag["singleCount"] # Tag["txPort"]
    BY <1>2, TagsDiffer
  <2>3. new = [loaded EXCEPT !.singleCount = v.int] /\ v.int = DevCfg.singleCount
    BY <2>1, <2>2 DEF Applied
  <2>4. DevCfg.threshold = 0
    BY <1>8, CodecAssumption
  <2>5. new = LoadedTo(6)
    BY <1>8, <2>3, <2>4, LoadedNext
  <2> QED
    BY <1>3, <1>8, <2>5
<1>9. CASE j = 5 /\ DevCfg.mode # "off"
  <2>1. /\ DevCfg.mode \in Modes /\ f.tag = Tag[DevCfg.mode] /\ f.type = VARINT
        /\ DevCfg.mode \notin Humidity => f.val = PBEncodeSInt(DevCfg.threshold)
    BY <1>9, FieldsAre DEF IsSetting
  <2>2. f.tag # Tag["txPort"] /\ f.tag # Tag["singleCount"]
    BY <1>2, <2>1, TagsDiffer
  <2>3. \A m \in Modes : f.tag = Tag[m] <=> m = DevCfg.mode
    BY <1>2, <2>1, TagsDiffer
  <2>4. new = [loaded EXCEPT !.mode = DevCfg.mode,
                             !.threshold = LoadedThreshold(DevCfg.mode, v.int)]
    <3> DEFINE m == CHOOSE m \in Modes : f.tag = Tag[m] /\ f.type = VARINT
    <3>1. m = DevCfg.mode
      BY <2>1, <2>3
    <3>2. \E n \in Modes : f.tag = Tag[n] /\ f.type = VARINT
      BY <2>1
    <3>3. new = [loaded EXCEPT !.mode = m, !.threshold = LoadedThreshold(m, v.int)]
      BY <2>1, <2>2, <3>2 DEF Applied
    <3> QED
      BY <3>1, <3>3
  <2>5. DOMAIN new = DOMAIN Default
    BY <1>3, <2>4 DEF LoadedTo
  <2>6. ASSUME DevCfg.mode \notin Humidity PROVE new = LoadedTo(6)
    <3>1. DevCfg.threshold \in -TwoTo[IntBits - 1] .. TwoTo[IntBits - 1] - 1
      BY <1>1 DEF Configuration
    <3>2. LoadedThreshold(DevCfg.mode, v.int) = DevCfg.threshold
      BY <2>1, <2>6, <3>1, ThresholdIsKept DEF LoadedThreshold
    <3>3. DevCfg.singleCount = 0
      BY <1>9, CodecAssumption
    <3> QED
      BY <1>9, <2>4, <3>2, <3>3, LoadedNext
  <2> QED
    BY <1>9, <2>5, <2>6
<1> QED
  BY <1>4, <1>5, <1>6, <1>7, <1>8, <1>9

-----------------------------------------------------------------------------
(***************************************************************************)
(* The inductive invariant                                                 *)
(***************************************************************************)

(* The fields stay where they are.                                         *)
LEMMA Unmoved ==
  ASSUME fields' = fields, DevCfg' = DevCfg
  PROVE  /\ \A k : Width(k)' = Width(k) /\ Start(k)' = Start(k)
         /\ \A k : LoadedTo(k)' = LoadedTo(k)
<1>1. \A k : Width(k)' = Width(k)
  BY DEF Width
<1>2. \A j, k : Upto(j, k)' = Upto(j, k)
  BY <1>1 DEF Upto
<1>3. \A k : Start(k)' = Start(k)
  BY <1>2 DEF Start
<1>4. \A k : LoadedTo(k)' = LoadedTo(k)
  BY DEF LoadedTo
<1> QED
  BY <1>1, <1>3, <1>4

LEMMA InitInv ==
  ASSUME Init
  PROVE  IInv
<1>1. DevCfg \in Configs /\ fields \in Fields(DevCfg) /\ cap \in Capacities
  BY DEF Init
<1>2. cap \in Nat
  BY <1>1, CodecAssumption, Widths
<1>3. 0 \in Byte
  BY Widths DEF Byte
<1>4. LaidInv
  <2>1. nth = 1 /\ whole = <<0>>
    BY DEF Init
  <2>2. whole \in Seq(Byte) /\ Len(whole) = 1 /\ whole[1] = 0
    BY <1>3, <2>1
  <2> QED
    BY <1>1, <2>1, <2>2, Starts DEF LaidInv
<1>5. BufferInv
  <2>1. size = Len(whole) /\ whole \in Seq(Byte) /\ Len(whole) = 1
    BY <1>3 DEF Init
  <2>2. HasOf(Clipped(whole, cap), whole, cap)
        /\ (Len(whole) <= cap => Clipped(whole, cap) = whole)
    BY <1>2, <2>1, ClippedIs
  <2>3. CASE cap = 0
    <3>1. Clipped(whole, cap) \in Seq(Byte) /\ Len(Clipped(whole, cap)) = 0
      BY <2>1, <2>2, <2>3 DEF HasOf
    <3>2. Clipped(whole, cap) = << >>
      BY <3>1
    <3> QED
      BY <1>1, <2>1, <2>3, <3>2 DEF Init, BufferInv
  <2>4. CASE cap # 0
    <3>1. Clipped(whole, cap) = whole
      BY <1>2, <2>1, <2>2, <2>4
    <3> QED
      BY <1>1, <2>1, <2>4, <3>1 DEF Init, BufferInv
  <2> QED
    BY <2>3, <2>4
<1>6. WalkInv
  <2>1. 0 \in 0 .. Positions - 1
    BY Widths
  <2> QED
    BY <2>1, <1>3 DEF Init, WalkInv
<1> QED
  BY <1>4, <1>5, <1>6 DEF IInv

(* A number's first byte, and those of what is left when it is shifted.    *)
LEMMA VarintUnfolds ==
  ASSUME NEW x \in Encodable
  PROVE  /\ VarintByte(x) \in Byte
         /\ ~(x >= Base) => EncodeVarint(x) = <<VarintByte(x)>>
         /\ x >= Base =>
              /\ x \div Base \in Encodable
              /\ EncodeVarint(x) = <<VarintByte(x)>> \o EncodeVarint(x \div Base)
<1>1. x \in Nat /\ Base \in Nat \ {0} /\ Positions = 2 * Base
  BY DigitsFit, Widths
<1>2. EncodeVarint(x) \in Seq(Byte) /\ Len(EncodeVarint(x)) = Digits(x)
  BY VarintBytes
<1>3. x % Base \in 0 .. Base - 1
  BY <1>1, DivMod
<1>4. VarintByte(x) \in Byte
  BY <1>1, <1>3 DEF VarintByte, Byte
<1>5. CASE ~(x >= Base)
  <2>1. Digits(x) = 1 /\ EncodeVarint(x)[1] = x
    BY <1>1, <1>5, OneByte
  <2>2. VarintByte(x) = x
    BY <1>1, <1>5, SmallMod DEF VarintByte
  <2>3. EncodeVarint(x) = <<VarintByte(x)>>
    BY <1>2, <1>4, <2>1, <2>2
  <2> QED
    BY <1>4, <1>5, <2>3
<1>6. CASE x >= Base
  <2> DEFINE y == x \div Base
             b == VarintByte(x)
             s == EncodeVarint(x)
             t == EncodeVarint(y)
  <2>1. /\ y \in Encodable /\ Digits(x) = Digits(y) + 1
        /\ s[1] = (x % Base) + Base
        /\ \A n \in 1 .. Digits(y) : s[n + 1] = t[n]
    BY <1>1, <1>6, MoreBytes
  <2>2. b = (x % Base) + Base
    BY <1>6 DEF VarintByte
  <2>3. t \in Seq(Byte) /\ Len(t) = Digits(y) /\ Digits(y) \in Nat
    BY <2>1, VarintBytes, DigitsFit, Widths
  <2> HIDE DEF y, b, s, t
  <2>4. b \in Byte /\ s \in Seq(Byte) /\ Len(s) = Len(t) + 1 /\ s[1] = b
    BY <1>2, <1>4, <2>1, <2>2, <2>3 DEF b, s
  <2>5. <<b>> \o t \in Seq(Byte) /\ Len(<<b>> \o t) = Len(t) + 1 /\ (<<b>> \o t)[1] = b
        /\ \A n \in 1 .. Len(t) : (<<b>> \o t)[n + 1] = t[n]
    BY <2>3, <2>4
  <2>6. ASSUME NEW i \in 1 .. Len(s) PROVE s[i] = (<<b>> \o t)[i]
    <3>1. CASE i = 1
      BY <2>4, <2>5, <3>1
    <3>2. CASE i # 1
      <4>1. i - 1 \in 1 .. Len(t) /\ (i - 1) + 1 = i
        BY <2>3, <2>4, <3>2
      <4>2. s[(i - 1) + 1] = t[i - 1]
        BY <2>1, <2>3, <4>1
      <4>3. (<<b>> \o t)[(i - 1) + 1] = t[i - 1]
        BY <2>5, <4>1
      <4> QED
        BY <4>1, <4>2, <4>3
    <3> QED
      BY <3>1, <3>2
  <2>7. s = <<b>> \o t
    BY <2>4, <2>5, <2>6, SeqEqual
  <2> QED
    BY <1>4, <1>6, <2>1, <2>7 DEF y, b, s, t
<1> QED
  BY <1>5, <1>6

LEMMA Regrouped ==
  \A r, s, t \in Seq(Byte) : (r \o s) \o t = r \o (s \o t)
BY ConcatAssociative

(* What is written behind what was encoded is appended to the buffer.      *)
LEMMA WrittenIs ==
  ASSUME cap \in Nat, size \in Nat, fsize \in Nat, NEW done \in Seq(Byte),
         Len(done) = size + fsize, msg = Clipped(done, cap), fsize < Room,
         NEW bytes \in Seq(Byte)
  PROVE  Written(fsize, bytes) = msg \o bytes /\ size + fsize < cap
<1>1. size + fsize < cap
  BY DEF Room
<1>2. msg = done
  BY <1>1, ClippedIs
<1>3. SubSeq(msg, 1, size + fsize) = msg
  BY <1>2
<1> QED
  BY <1>1, <1>3 DEF Written

(* What is appended to the buffer, when one more chunk is encoded.         *)
LEMMA ChunkFits ==
  ASSUME cap \in Nat, size \in Nat, fsize \in Nat, NEW done \in Seq(Byte),
         Len(done) = size + fsize, msg = Clipped(done, cap),
         NEW chunk \in Seq(Byte), NEW room,
         room = IF size + fsize < cap THEN cap - (size + fsize) ELSE 0
  PROVE  /\ Clipped(done \o chunk, cap) = msg \o Clipped(chunk, room)
         /\ Clipped(chunk, room) =
              IF Len(chunk) <= room THEN chunk ELSE SubSeq(chunk, 1, room)
         /\ room = 0 => Clipped(done \o chunk, cap) = msg
<1>1. room \in Nat
  OBVIOUS
<1>2. Clipped(done \o chunk, cap) = msg \o Clipped(chunk, room)
  BY ClippedAppend
<1>3. Clipped(chunk, room) = IF Len(chunk) <= room THEN chunk ELSE SubSeq(chunk, 1, room)
  <2>1. Len(chunk) \in Int /\ room \in Int
    BY <1>1
  <2>2. Min({Len(chunk), room}) = IF Len(chunk) <= room THEN Len(chunk) ELSE room
    BY <2>1, MinOfTwo
  <2>3. Clipped(chunk, room) = SubSeq(chunk, 1, Min({Len(chunk), room}))
    BY DEF Clipped
  <2>4. Len(chunk) <= room => Clipped(chunk, room) = chunk
    BY <1>1, ClippedIs
  <2> QED
    BY <2>2, <2>3, <2>4
<1>5. msg \in Seq(Byte)
  BY ClippedIs DEF HasOf
<1>6. room = 0 => msg \o Clipped(chunk, room) = msg
  <2> SUFFICES ASSUME room = 0 PROVE msg \o Clipped(chunk, room) = msg
    OBVIOUS
  <2>1. HasOf(Clipped(chunk, room), chunk, room)
    BY <1>1, ClippedIs
  <2>2. Clipped(chunk, room) \in Seq(Byte) /\ Len(Clipped(chunk, room)) = 0
    BY <2>1 DEF HasOf
  <2>3. Clipped(chunk, room) = << >>
    BY <2>2
  <2> QED
    BY <1>5, <2>3
<1> QED
  BY <1>2, <1>3, <1>6

(* An encoder that writes a chunk of what is left, and leaves the rest,    *)
(* keeps the buffer in order.                                              *)
LEMMA ChunkEncoded ==
  ASSUME IInv, part # "begin", NEW done \in Seq(Byte), Encoded(done),
         NEW chunk \in Seq(Byte),
         UNCHANGED <<DevCfg, cap, fields, nth, size, pos, loaded, phase, whole>>,
         part' \in {"key", "varint", "length", "copy", "end"},
         PartFits(part', rest', fields[nth]),
         Todo(part', rest', fields[nth]) \in Seq(Byte),
         Todo(part, rest, fields[nth]) = chunk \o Todo(part', rest', fields[nth]),
         fsize' = fsize + Len(chunk), msg' = Clipped(done \o chunk, cap)
  PROVE  IInv'
<1>1. LaidInv'
  BY Unmoved DEF IInv, LaidInv
<1>2. WalkInv'
  <2>1. phase = "save" /\ nth \in 1 .. 5
    BY DEF IInv, BufferInv
  <2> QED
    BY <2>1 DEF IInv, WalkInv
<1>3. Len(done) = size + fsize /\ fsize \in Nat /\ size \in Nat
      /\ size = Len(whole) /\ cap \in Capacities /\ nth \in 1 .. 5 /\ phase = "save"
  BY DEF IInv, LaidInv, BufferInv, Encoded
<1>4. done \o chunk \in Seq(Byte) /\ Len(done \o chunk) = size' + fsize'
  <2>1. /\ done \o chunk \in Seq(Byte) /\ Len(done \o chunk) = Len(done) + Len(chunk)
        /\ Len(done) \in Nat /\ Len(chunk) \in Nat
    OBVIOUS
  <2>2. size' = size /\ fsize' = fsize + Len(chunk)
    OBVIOUS
  <2> QED
    BY <1>3, <2>1, <2>2
<1>5. (done \o chunk) \o Todo(part', rest', fields[nth]) = whole' \o FieldOf(fields'[nth'])
  <2> DEFINE todo == Todo(part', rest', fields[nth])
  <2>1. done \o (chunk \o todo) = whole \o FieldOf(fields[nth])
    BY DEF Encoded
  <2>2. todo \in Seq(Byte)
    OBVIOUS
  <2> HIDE DEF todo
  <2>3. (done \o chunk) \o todo = done \o (chunk \o todo)
    BY <2>2, Regrouped
  <2> QED
    BY <2>1, <2>3 DEF todo
<1>6. Encoded(done \o chunk)'
  <2>1. (done \o chunk)' = done \o chunk
    OBVIOUS
  <2> QED
    BY <1>4, <1>5 DEF Encoded
<1>7. \E d \in Seq(Byte) : Encoded(d)'
  BY <1>4, <1>6
<1>8. BufferInv'
  BY <1>3, <1>7 DEF BufferInv
<1> QED
  BY <1>1, <1>2, <1>8 DEF IInv

(* The call of PBEncodeField: its whole field is left to be encoded.       *)
LEMMA BeginFieldInv ==
  ASSUME IInv, BeginField
  PROVE  IInv'
<1> DEFINE f == fields[nth]
<1>1. /\ phase = "save" /\ part = "begin" /\ nth <= Len(fields)
      /\ part' = "key" /\ rest' = f.tag * TypeBase + f.type /\ fsize' = 0
      /\ UNCHANGED <<DevCfg, cap, fields, nth, msg, size, pos, loaded, phase, whole>>
  BY DEF BeginField
<1>2. /\ DevCfg \in Configs /\ fields \in Fields(DevCfg) /\ nth \in 1 .. 6
      /\ whole \in Seq(Byte) /\ cap \in Capacities /\ size = Len(whole)
      /\ msg = Clipped(whole, cap)
  BY <1>1 DEF IInv, LaidInv, BufferInv
<1>3. nth \in 1 .. 5 /\ IsField(f)
  <2>1. Len(fields) = 5
    BY <1>2, Starts
  <2>2. nth \in 1 .. 5
    BY <1>1, <1>2, <2>1
  <2>3. IsField(fields[nth])
    BY <1>2, <2>2, Starts
  <2> QED
    BY <2>2, <2>3
<1>4. rest' \in Encodable
  BY <1>1, <1>3, KeyFits DEF IsField
<1>5. LaidInv'
  BY <1>1, Unmoved DEF IInv, LaidInv
<1>6. WalkInv'
  BY <1>1 DEF IInv, WalkInv
<1>7. Todo(part', rest', f) = FieldOf(f)
  BY <1>1 DEF Todo, FieldOf
<1>8. Encoded(whole)'
  BY <1>1, <1>2, <1>7 DEF Encoded
<1>9. BufferInv'
  <2>1. PartFits(part', rest', f)
    BY <1>1, <1>4 DEF PartFits
  <2>2. \E done \in Seq(Byte) : Encoded(done)'
    BY <1>1, <1>2, <1>8
  <2> QED
    BY <1>1, <1>2, <1>3, <2>1, <2>2 DEF BufferInv
<1> QED
  BY <1>5, <1>6, <1>9 DEF IInv

(* The raw bytes of a value are those its encoding ends with.              *)
LEMMA RawBytes ==
  ASSUME NEW f, IsField(f), f.type \in {FIXED64, FIXED32, BYTES}
  PROVE  /\ Raw(f) \in Seq(Byte) /\ Len(Raw(f)) \in Nat \ {0}
         /\ f.type # BYTES => Raw(f) = EncodeValue(f)
         /\ f.type = BYTES =>
              /\ Raw(f) = f.val /\ Len(f.val) \in Encodable
              /\ EncodeValue(f) = EncodeVarint(Len(f.val)) \o f.val
<1>1. CASE f.type = FIXED64
  <2>1. EncodeValue(f) = LittleEndian(f.val, Fixed64) /\ f.val \in Nat
        /\ Raw(f) = LittleEndian(f.val, Fixed64) /\ f.type # BYTES
    BY <1>1 DEF EncodeValue, Raw, IsField, Values, VARINT, FIXED64, FIXED32, BYTES
  <2>2. Fixed64 \in Nat \ {0}
    BY Widths
  <2>3. LittleEndian(f.val, Fixed64) \in Seq(Byte) /\ Len(LittleEndian(f.val, Fixed64)) = Fixed64
    BY <2>1, <2>2, LittleEndianBytes
  <2> QED
    BY <2>1, <2>2, <2>3
<1>2. CASE f.type = FIXED32
  <2>1. EncodeValue(f) = LittleEndian(f.val, Fixed32) /\ f.val \in Nat
        /\ Raw(f) = LittleEndian(f.val, Fixed32) /\ f.type # BYTES
    BY <1>2 DEF EncodeValue, Raw, IsField, Values, VARINT, FIXED64, FIXED32, BYTES
  <2>2. Fixed32 \in Nat \ {0}
    BY Widths
  <2>3. LittleEndian(f.val, Fixed32) \in Seq(Byte) /\ Len(LittleEndian(f.val, Fixed32)) = Fixed32
    BY <2>1, <2>2, LittleEndianBytes
  <2> QED
    BY <2>1, <2>2, <2>3
<1>3. CASE f.type = BYTES
  <2>1. EncodeValue(f) = EncodeVarint(Len(f.val)) \o f.val /\ f.val \in [1 .. KeySize -> Byte]
    BY <1>3, BytesCase DEF IsField
  <2>2. f.val \in Seq(Byte) /\ Len(f.val) = KeySize /\ KeySize \in 0 .. Word - 1
        /\ KeySize \in Nat \ {0}
    BY <2>1, CodecAssumption, Widths
  <2>3. KeySize \in Encodable
    BY <2>2, WordFits
  <2>4. f.type # FIXED64 /\ f.type # FIXED32
    BY <1>3 DEF FIXED64, FIXED32, BYTES
  <2>5. Raw(f) = f.val
    BY <1>3, <2>4, Zenon DEF Raw
  <2> QED
    BY <1>3, <2>1, <2>2, <2>3, <2>5
<1> QED
  BY <1>1, <1>2, <1>3

(* What is left after the last byte of a number.                           *)
LEMMA NextPartIs ==
  ASSUME NEW f, IsField(f), part \in {"key", "varint", "length"}, PartFits(part, rest, f),
         ~(rest >= Base), NextPart(f)
  PROVE  /\ part' \in {"key", "varint", "length", "copy", "end"}
         /\ PartFits(part', rest', f) /\ Todo(part', rest', f) \in Seq(Byte)
         /\ Todo(part, rest, f) = <<VarintByte(rest)>> \o Todo(part', rest', f)
<1>1. rest \in Encodable
  BY DEF PartFits
<1>2. EncodeVarint(rest) = <<VarintByte(rest)>> /\ VarintByte(rest) \in Byte
  BY <1>1, VarintUnfolds
<1>3. CASE part = "key"
  <2>1. Todo(part, rest, f) = <<VarintByte(rest)>> \o EncodeValue(f)
    BY <1>2, <1>3 DEF Todo
  <2>2. EncodeValue(f) \in Seq(Byte)
    BY ValueBytes
  <2>3. CASE f.type = VARINT /\ part' = "varint" /\ rest' = f.val
    <3>1. EncodeValue(f) = EncodeVarint(f.val) /\ f.val \in 0 .. Word - 1
      BY <2>3 DEF EncodeValue, IsField, Values, VARINT, FIXED64, FIXED32, BYTES
    <3>2. f.val \in Encodable
      BY <3>1, WordFits
    <3>3. Todo(part', rest', f) = EncodeValue(f)
      BY <2>3, <3>1 DEF Todo
    <3>4. PartFits(part', rest', f)
      BY <2>3, <3>2 DEF PartFits
    <3> QED
      BY <2>1, <2>2, <2>3, <3>3, <3>4
  <2>4. CASE f.type = BYTES /\ part' = "length" /\ rest' = Len(f.val)
    <3>1. EncodeValue(f) = EncodeVarint(Len(f.val)) \o f.val /\ Len(f.val) \in Encodable
      BY <2>4, RawBytes
    <3>2. Todo(part', rest', f) = EncodeValue(f)
      BY <2>4, <3>1 DEF Todo
    <3>3. PartFits(part', rest', f)
      BY <2>4, <3>1 DEF PartFits
    <3> QED
      BY <2>1, <2>2, <2>4, <3>2, <3>3
  <2>5. CASE f.type \in {FIXED64, FIXED32} /\ part' = "copy" /\ rest' = 0
    <3>1. f.type # BYTES
      BY <2>5 DEF FIXED64, FIXED32, BYTES
    <3>2. Raw(f) = EncodeValue(f)
      BY <2>5, <3>1, RawBytes
    <3>3. Todo(part', rest', f) = EncodeValue(f)
      BY <2>5, <3>2 DEF Todo
    <3>4. PartFits(part', rest', f)
      BY <2>5 DEF PartFits
    <3> QED
      BY <2>1, <2>2, <2>5, <3>3, <3>4
  <2> QED
    BY <1>3, <2>3, <2>4, <2>5 DEF NextPart
<1>4. CASE part = "length"
  <2>1. part' = "copy" /\ rest' = 0 /\ f.type = BYTES
    BY <1>4 DEF NextPart, PartFits
  <2>2. Raw(f) = f.val /\ Raw(f) \in Seq(Byte)
    BY <2>1, RawBytes
  <2>3. Todo(part', rest', f) = f.val /\ Todo(part, rest, f) = <<VarintByte(rest)>> \o f.val
    BY <1>2, <1>4, <2>1, <2>2 DEF Todo
  <2>4. PartFits(part', rest', f)
    BY <2>1 DEF PartFits
  <2> QED
    BY <2>1, <2>2, <2>3, <2>4
<1>5. CASE part = "varint"
  <2>1. part' = "end" /\ rest' = 0
    BY <1>5 DEF NextPart
  <2>2. Todo(part', rest', f) = << >> /\ Todo(part, rest, f) = <<VarintByte(rest)>>
    BY <1>2, <1>5, <2>1 DEF Todo
  <2>3. PartFits(part', rest', f)
    BY <2>1 DEF PartFits
  <2>4. << >> \in Seq(Byte) /\ <<VarintByte(rest)>> \in Seq(Byte)
    BY <1>2
  <2>5. <<VarintByte(rest)>> \o << >> = <<VarintByte(rest)>>
    BY <2>4
  <2> QED
    BY <2>1, <2>2, <2>3, <2>4, <2>5
<1> QED
  BY <1>3, <1>4, <1>5

(* What is left after a byte of a number that continues.                   *)
LEMMA SamePartIs ==
  ASSUME NEW f, IsField(f), part \in {"key", "varint", "length"}, PartFits(part, rest, f),
         rest >= Base, rest' = rest \div Base, part' = part
  PROVE  /\ part' \in {"key", "varint", "length", "copy", "end"}
         /\ PartFits(part', rest', f) /\ Todo(part', rest', f) \in Seq(Byte)
         /\ Todo(part, rest, f) = <<VarintByte(rest)>> \o Todo(part', rest', f)
<1> DEFINE b == <<VarintByte(rest)>>
           t == EncodeVarint(rest')
<1>1. rest \in Encodable
  BY DEF PartFits
<1>2. /\ rest' \in Encodable /\ VarintByte(rest) \in Byte
      /\ EncodeVarint(rest) = b \o t
  BY <1>1, VarintUnfolds
<1>3. t \in Seq(Byte) /\ b \in Seq(Byte)
  BY <1>2, VarintBytes
<1>4. PartFits(part', rest', f)
  BY <1>2 DEF PartFits
<1> HIDE DEF b, t
<1>5. ASSUME NEW v \in Seq(Byte)
      PROVE  t \o v \in Seq(Byte) /\ (b \o t) \o v = b \o (t \o v)
  <2>1. t \o v \in Seq(Byte)
    BY <1>3
  <2>2. t \in Seq(Byte) /\ b \in Seq(Byte) /\ v \in Seq(Byte)
    BY <1>3
  <2>3. (b \o t) \o v = b \o (t \o v)
    BY <2>2, Regrouped, Zenon
  <2> QED
    BY <2>1, <2>3
<1>6. CASE part = "key"
  <2>1. EncodeValue(f) \in Seq(Byte)
    BY ValueBytes
  <2>2. Todo(part, rest, f) = (b \o t) \o EncodeValue(f)
        /\ Todo(part', rest', f) = t \o EncodeValue(f)
    BY <1>2, <1>6 DEF Todo, t
  <2> QED
    BY <1>4, <1>5, <1>6, <2>1, <2>2 DEF b
<1>7. CASE part = "length"
  <2>1. f.val \in Seq(Byte)
    BY <1>7, RawBytes DEF PartFits
  <2>2. Todo(part, rest, f) = (b \o t) \o f.val /\ Todo(part', rest', f) = t \o f.val
    BY <1>2, <1>7 DEF Todo, t
  <2> QED
    BY <1>4, <1>5, <1>7, <2>1, <2>2 DEF b
<1>8. CASE part = "varint"
  <2>1. Todo(part, rest, f) = b \o t /\ Todo(part', rest', f) = t
    BY <1>2, <1>8 DEF Todo, t
  <2> QED
    BY <1>3, <1>4, <1>8, <2>1 DEF b
<1> QED
  BY <1>6, <1>7, <1>8

(* What holds in the middle of a field.                                    *)
LEMMA InField ==
  ASSUME IInv, part # "begin"
  PROVE  /\ cap \in Nat /\ size \in Nat /\ fsize \in Nat
         /\ nth \in 1 .. 5 /\ IsField(fields[nth]) /\ PartFits(part, rest, fields[nth])
         /\ \E done \in Seq(Byte) : Encoded(done)
<1>1. DevCfg \in Configs /\ fields \in Fields(DevCfg) /\ whole \in Seq(Byte)
  BY DEF IInv, LaidInv
<1>2. /\ cap \in Capacities /\ size = Len(whole) /\ fsize \in Nat /\ nth \in 1 .. 5
      /\ PartFits(part, rest, fields[nth]) /\ \E done \in Seq(Byte) : Encoded(done)
  BY DEF IInv, BufferInv
<1>3. cap \in Nat /\ size \in Nat
  BY <1>1, <1>2, CodecAssumption, Widths
<1>4. IsField(fields[nth])
  BY <1>1, <1>2, Starts
<1> QED
  BY <1>2, <1>3, <1>4

(* One byte of a number: written when there is room, counted in any case.  *)
LEMMA EncodeByteInv ==
  ASSUME IInv, EncodeByte
  PROVE  IInv'
<1> DEFINE f == fields[nth]
           chunk == <<VarintByte(rest)>>
<1>1. /\ phase = "save" /\ part \in {"key", "varint", "length"}
      /\ msg' = (IF fsize < Room THEN Written(fsize, chunk) ELSE msg)
      /\ fsize' = fsize + 1
      /\ IF rest >= Base THEN rest' = rest \div Base /\ part' = part ELSE NextPart(f)
      /\ UNCHANGED <<DevCfg, cap, fields, nth, size, pos, loaded, phase, whole>>
  BY DEF EncodeByte
<1>2. /\ cap \in Nat /\ size \in Nat /\ fsize \in Nat /\ nth \in 1 .. 5
      /\ IsField(f) /\ PartFits(part, rest, f)
      /\ \E done \in Seq(Byte) : Encoded(done)
  BY <1>1, InField
<1>3. chunk \in Seq(Byte) /\ Len(chunk) = 1
  BY <1>1, <1>2, VarintUnfolds DEF PartFits
<1>4. PICK done \in Seq(Byte) : Encoded(done)
  BY <1>2
<1>5. Len(done) = size + fsize /\ msg = Clipped(done, cap)
  BY <1>4 DEF Encoded
<1>6. /\ part' \in {"key", "varint", "length", "copy", "end"}
      /\ PartFits(part', rest', f) /\ Todo(part', rest', f) \in Seq(Byte)
      /\ Todo(part, rest, f) = chunk \o Todo(part', rest', f)
  <2>1. CASE rest >= Base
    BY <1>1, <1>2, <2>1, SamePartIs
  <2>2. CASE ~(rest >= Base)
    BY <1>1, <1>2, <2>2, NextPartIs
  <2> QED
    BY <2>1, <2>2
<1> HIDE DEF chunk
<1>7. msg' = Clipped(done \o chunk, cap)
  <2> DEFINE room == IF size + fsize < cap THEN cap - (size + fsize) ELSE 0
  <2>0. room = IF size + fsize < cap THEN cap - (size + fsize) ELSE 0
    OBVIOUS
  <2> HIDE DEF room
  <2>1. /\ Clipped(done \o chunk, cap) = msg \o Clipped(chunk, room)
        /\ Clipped(chunk, room) =
             (IF Len(chunk) <= room THEN chunk ELSE SubSeq(chunk, 1, room))
        /\ room = 0 => Clipped(done \o chunk, cap) = msg
    <3>1. /\ cap \in Nat /\ size \in Nat /\ fsize \in Nat
          /\ Len(done) = size + fsize /\ msg = Clipped(done, cap)
      BY <1>2, <1>5
    <3>2. chunk \in Seq(Byte)
      BY <1>3
    <3> QED
      BY <2>0, <3>1, <3>2, ChunkFits
  <2>2. CASE fsize < Room
    <3>1. Written(fsize, chunk) = msg \o chunk /\ size + fsize < cap
      BY <1>2, <1>3, <1>5, <2>2, WrittenIs
    <3>2. Len(chunk) <= room
      BY <1>2, <1>3, <2>0, <3>1
    <3> QED
      BY <1>1, <2>1, <2>2, <3>1, <3>2
  <2>3. CASE ~(fsize < Room)
    <3>1. room = 0
      BY <1>2, <2>0, <2>3 DEF Room
    <3> QED
      BY <1>1, <2>1, <2>3, <3>1
  <2> QED
    BY <2>2, <2>3
<1>8. fsize' = fsize + Len(chunk) /\ part # "begin"
  BY <1>1, <1>3
<1> QED
  BY <1>1, <1>3, <1>4, <1>6, <1>7, <1>8, ChunkEncoded

(* A copy takes what there is, or what there is room for in the buffer.    *)
LEMMA CopyLenIs ==
  ASSUME NEW c \in Nat, NEW s \in Nat, NEW at \in Nat, NEW k \in Nat \ {0},
         NEW buf, buf = IF s < c THEN c - s ELSE 0,
         NEW room, room = IF s + at < c THEN c - (s + at) ELSE 0
  PROVE  /\ CopyLen(at, k, buf) = IF k <= room THEN k ELSE room
         /\ CopyLen(at, k, buf) # 0 => at < buf
<1>1. buf \in Nat /\ room \in Nat
  OBVIOUS
<1>2. room = IF at < buf THEN buf - at ELSE 0
  OBVIOUS
<1>3. CASE at > buf
  BY <1>1, <1>2, <1>3 DEF CopyLen
<1>4. CASE ~(at > buf)
  <2>1. CopyLen(at, k, buf) = IF at + k > buf THEN buf - at ELSE k
    BY <1>4 DEF CopyLen
  <2>2. room = buf - at
    BY <1>1, <1>2, <1>4
  <2>3. CASE at + k > buf
    <3>1. CopyLen(at, k, buf) = buf - at
      BY <2>1, <2>3
    <3>2. (IF k <= room THEN k ELSE room) = buf - at
      BY <1>1, <2>2, <2>3
    <3>3. buf - at # 0 => at < buf
      BY <1>1, <1>4
    <3> QED
      BY <3>1, <3>2, <3>3
  <2>4. CASE ~(at + k > buf)
    <3>1. CopyLen(at, k, buf) = k
      BY <2>1, <2>4
    <3>2. k <= room /\ at < buf
      BY <1>1, <2>2, <2>4
    <3> QED
      BY <3>1, <3>2
  <2> QED
    BY <2>3, <2>4
<1> QED
  BY <1>3, <1>4

(* A copy: of as many bytes as fit behind those of the field so far.       *)
LEMMA CopyBytesInv ==
  ASSUME IInv, CopyBytes
  PROVE  IInv'
<1> DEFINE f == fields[nth]
           raw == Raw(f)
           n == CopyLen(fsize, Len(raw), Room)
<1>1. /\ phase = "save" /\ part = "copy" /\ part' = "end" /\ rest' = rest
      /\ msg' = (IF n # 0 THEN Written(fsize, SubSeq(raw, 1, n)) ELSE msg)
      /\ fsize' = fsize + Len(raw)
      /\ UNCHANGED <<DevCfg, cap, fields, nth, size, pos, loaded, phase, whole>>
  BY DEF CopyBytes
<1>2. /\ cap \in Nat /\ size \in Nat /\ fsize \in Nat /\ nth \in 1 .. 5
      /\ IsField(f) /\ PartFits(part, rest, f)
      /\ \E done \in Seq(Byte) : Encoded(done)
  BY <1>1, InField
<1>3. raw \in Seq(Byte) /\ Len(raw) \in Nat \ {0}
  BY <1>1, <1>2, RawBytes DEF PartFits
<1>4. PICK done \in Seq(Byte) : Encoded(done)
  BY <1>2
<1>5. Len(done) = size + fsize /\ msg = Clipped(done, cap)
  BY <1>4 DEF Encoded
<1>6. /\ PartFits(part', rest', f) /\ Todo(part', rest', f) = << >>
      /\ Todo(part, rest, f) = raw
  BY <1>1 DEF PartFits, Todo
<1> HIDE DEF raw, n
<1>7. << >> \in Seq(Byte) /\ raw \o << >> = raw
  BY <1>3
<1>8. msg' = Clipped(done \o raw, cap)
  <2> DEFINE room == IF size + fsize < cap THEN cap - (size + fsize) ELSE 0
  <2>0. room = IF size + fsize < cap THEN cap - (size + fsize) ELSE 0
    OBVIOUS
  <2> HIDE DEF room
  <2>1. /\ Clipped(done \o raw, cap) = msg \o Clipped(raw, room)
        /\ Clipped(raw, room) = (IF Len(raw) <= room THEN raw ELSE SubSeq(raw, 1, room))
        /\ room = 0 => Clipped(done \o raw, cap) = msg
    <3>1. /\ cap \in Nat /\ size \in Nat /\ fsize \in Nat
          /\ Len(done) = size + fsize /\ msg = Clipped(done, cap)
      BY <1>2, <1>5
    <3>2. raw \in Seq(Byte)
      BY <1>3
    <3> QED
      BY <2>0, <3>1, <3>2, ChunkFits
  <2> DEFINE k == Len(raw)
             buf == Room
  <2>a. k \in Nat \ {0} /\ n = CopyLen(fsize, k, buf)
    BY <1>3 DEF n
  <2>b. buf = IF size < cap THEN cap - size ELSE 0
    BY DEF Room
  <2> HIDE DEF k, buf
  <2>c. n = (IF k <= room THEN k ELSE room) /\ (n # 0 => fsize < buf)
    BY <1>2, <2>0, <2>a, <2>b, CopyLenIs
  <2>d. n # 0 => n \in 1 .. k
    <3>1. room \in Nat
      BY <1>2, <2>0
    <3> QED
      BY <2>a, <2>c, <3>1
  <2>2. n = IF Len(raw) <= room THEN Len(raw) ELSE room
    BY <2>c DEF k
  <2>3. n # 0 => fsize < Room
    BY <2>c DEF buf
  <2>4. n # 0 => n \in 1 .. Len(raw)
    BY <2>d DEF k
  <2>5. n = 0 => room = 0
    BY <1>3, <2>2
  <2>6. CASE n # 0
    <3>1. SubSeq(raw, 1, n) \in Seq(Byte)
      BY <1>3, <2>4, <2>6
    <3>2. Written(fsize, SubSeq(raw, 1, n)) = msg \o SubSeq(raw, 1, n)
      BY <1>2, <1>5, <2>3, <2>6, <3>1, WrittenIs
    <3>3. SubSeq(raw, 1, n) = Clipped(raw, room)
      <4>1. SubSeq(raw, 1, Len(raw)) = raw
        BY <1>3
      <4> QED
        BY <2>1, <2>2, <4>1
    <3> QED
      BY <1>1, <2>1, <2>6, <3>2, <3>3
  <2>7. CASE n = 0
    BY <1>1, <2>1, <2>5, <2>7
  <2> QED
    BY <2>6, <2>7
<1>9. /\ part # "begin" /\ part' \in {"key", "varint", "length", "copy", "end"}
      /\ Todo(part', rest', f) \in Seq(Byte)
      /\ Todo(part, rest, f) = raw \o Todo(part', rest', f)
      /\ fsize' = fsize + Len(raw)
  BY <1>1, <1>6, <1>7 DEF raw
<1> QED
  BY <1>1, <1>3, <1>4, <1>6, <1>8, <1>9, ChunkEncoded

(* The end of a field: one more is laid out, and counted as a whole.       *)
LEMMA EndFieldInv ==
  ASSUME IInv, EndField
  PROVE  IInv'
<1> DEFINE bytes == FieldOf(fields[nth])
<1>1. /\ DevCfg \in Configs /\ fields \in Fields(DevCfg) /\ nth \in 1 .. 6
      /\ whole \in Seq(Byte) /\ Len(whole) = Start(nth) /\ whole[1] = 0
      /\ \A k \in 1 .. nth - 1 : \A i \in 1 .. Width(k) :
           whole[Start(k) + i] = FieldOf(fields[k])[i]
  BY DEF IInv, LaidInv
<1>2. /\ phase = "save" /\ part = "end" /\ part' = "begin"
      /\ size' = size + fsize /\ msg' = msg /\ fsize' = fsize
      /\ whole' = whole \o bytes /\ nth' = nth + 1
      /\ DevCfg' = DevCfg /\ cap' = cap /\ fields' = fields /\ pos' = pos
      /\ loaded' = loaded /\ phase' = phase
  BY DEF EndField
<1>3. nth \in 1 .. 5 /\ bytes \in Seq(Byte) /\ Len(bytes) = Width(nth)
      /\ Width(nth) \in Nat \ {0} /\ Start(nth + 1) = Start(nth) + Width(nth)
      /\ Start(nth) \in Nat \ {0}
  <2>2. nth \in 1 .. 5
    BY <1>2, InField
  <2>3. /\ bytes \in Seq(Byte) /\ Width(nth) \in Nat \ {0}
        /\ Start(nth + 1) = Start(nth) + Width(nth)
    BY <1>1, <2>2, Starts
  <2>4. Start(nth) \in Nat \ {0}
    BY <1>1, Starts
  <2> QED
    BY <2>2, <2>3, <2>4 DEF Width
<1> HIDE DEF bytes
<1>4. whole' \in Seq(Byte) /\ Len(whole') = Len(whole) + Len(bytes)
      /\ Len(whole) \in Nat \ {0}
  <2>1. whole \in Seq(Byte) /\ bytes \in Seq(Byte)
    BY <1>1, <1>3
  <2>2. whole \o bytes \in Seq(Byte) /\ Len(whole \o bytes) = Len(whole) + Len(bytes)
    BY <2>1
  <2> QED
    BY <1>1, <1>2, <1>3, <2>2
<1>a. /\ \A i \in 1 .. Len(whole) : (whole \o bytes)[i] = whole[i]
      /\ \A i \in 1 .. Len(bytes) : (whole \o bytes)[Len(whole) + i] = bytes[i]
  BY <1>1, <1>3, Appended, Zenon
<1>5. \A i \in 1 .. Len(whole) : whole'[i] = whole[i]
  BY <1>2, <1>a, Zenon
<1>6. \A i \in 1 .. Len(bytes) : whole'[Len(whole) + i] = bytes[i]
  BY <1>2, <1>a, Zenon
<1>7. LaidInv'
  <2>1. ASSUME NEW k \in 1 .. nth, NEW i \in 1 .. Width(k)
        PROVE  whole'[Start(k) + i] = FieldOf(fields[k])[i]
    <3>1. CASE k < nth
      <4>1. k \in 1 .. nth - 1 /\ k \in 1 .. 6 /\ k \in 1 .. 5
        BY <1>3, <3>1
      <4>2. Start(k) + Width(k) <= Start(nth) /\ Start(k) \in Nat /\ Width(k) \in Nat
        BY <1>1, <3>1, <4>1, Starts
      <4>3. Start(k) + i \in 1 .. Len(whole)
        BY <1>1, <1>3, <4>2
      <4> QED
        BY <1>1, <1>5, <4>1, <4>3
    <3>2. CASE k = nth
      BY <1>1, <1>3, <1>6, <3>2 DEF bytes
    <3> QED
      BY <1>3, <3>1, <3>2
  <2>2. Len(whole') = Start(nth + 1)
    BY <1>1, <1>3, <1>4
  <2>3. whole'[1] = 0
    BY <1>1, <1>4, <1>5
  <2>4. nth' \in 1 .. 6 /\ nth' - 1 = nth
    BY <1>2, <1>3
  <2>5. \A k : Width(k)' = Width(k) /\ Start(k)' = Start(k)
    BY <1>2, Unmoved
  <2>6. Start(nth)' = Start(nth + 1)
    <3>1. Start(nth)' = 1 + Upto(nth + 1, 1) + Upto(nth + 1, 2) + Upto(nth + 1, 3)
                          + Upto(nth + 1, 4) + Upto(nth + 1, 5)
      BY <1>2, <2>5 DEF Start, Upto
    <3> QED
      BY <3>1 DEF Start
  <2>7. \A k \in 1 .. nth' - 1 : \A i \in 1 .. Width(k)' :
          whole'[Start(k)' + i] = FieldOf(fields'[k])[i]
    BY <1>2, <2>1, <2>4, <2>5
  <2> QED
    BY <1>1, <1>2, <1>4, <2>2, <2>3, <2>4, <2>6, <2>7 DEF LaidInv
<1>8. BufferInv'
  <2>1. cap \in Capacities /\ size = Len(whole) /\ fsize \in Nat
    BY DEF IInv, BufferInv
  <2>2. PICK done \in Seq(Byte) : Encoded(done)
    BY <1>2, InField
  <2>3. Len(done) = size + fsize /\ msg = Clipped(done, cap)
        /\ done \o Todo(part, rest, fields[nth]) = whole \o FieldOf(fields[nth])
    BY <2>2 DEF Encoded
  <2>4. Todo(part, rest, fields[nth]) = << >> /\ done \o << >> = done
    BY <1>2, <2>2 DEF Todo
  <2>5. done = whole'
    BY <1>2, <2>3, <2>4 DEF bytes
  <2> QED
    BY <1>2, <2>1, <2>3, <2>5 DEF BufferInv
<1>9. WalkInv'
  <2>1. pos = 0 /\ loaded = Default /\ 0 \in 0 .. Positions - 1
    BY <1>2, Widths DEF IInv, WalkInv
  <2>2. phase' = "save" /\ pos' = 0 /\ loaded' = Default /\ pos' <= Len(whole')
    BY <1>2, <1>3, <1>4, <2>1
  <2> QED
    BY <2>1, <2>2 DEF WalkInv
<1> QED
  BY <1>7, <1>8, <1>9 DEF IInv

(* What the walk leaves alone.                                             *)
LEMMA LaidStays ==
  ASSUME IInv, UNCHANGED <<DevCfg, cap, fields, nth, msg, size, part, rest, fsize, whole>>,
         phase' = phase \/ part = "begin"
  PROVE  LaidInv' /\ BufferInv'
<1>1. LaidInv'
  BY Unmoved DEF IInv, LaidInv
<1>2. \A done : Encoded(done)' <=> Encoded(done)
  BY DEF Encoded
<1>3. BufferInv'
  BY <1>2 DEF IInv, BufferInv
<1> QED
  BY <1>1, <1>3

(* A message that is whole has every field where it was laid.              *)
LEMMA WholeMessage ==
  ASSUME IInv, nth = 6, size <= cap
  PROVE  /\ msg = whole /\ len = Start(6) /\ len \in Nat \ {0} /\ len <= Positions
         /\ At(0) = 0
         /\ \A j \in 1 .. 5 : pos = Start(j) => Holds(pos, FieldOf(fields[j]))
<1>1. /\ DevCfg \in Configs /\ fields \in Fields(DevCfg)
      /\ whole \in Seq(Byte) /\ Len(whole) = Start(6) /\ whole[1] = 0
      /\ \A k \in 1 .. 5 : \A i \in 1 .. Width(k) :
           whole[Start(k) + i] = FieldOf(fields[k])[i]
  BY DEF IInv, LaidInv
<1>2. cap \in Capacities /\ size = Len(whole) /\ msg = Clipped(whole, cap)
  BY DEF IInv, BufferInv
<1>3. cap \in Nat /\ cap <= Positions
  BY <1>2, CodecAssumption, Widths
<1>4. msg = whole /\ len = Start(6) /\ Start(6) \in Nat \ {0} /\ len <= Positions
  <2>1. Clipped(whole, cap) = whole
    BY <1>1, <1>2, <1>3, ClippedIs
  <2>2. Start(6) \in Nat \ {0}
    BY <1>1, Starts
  <2> QED
    BY <1>1, <1>2, <1>3, <2>1, <2>2, Widths DEF len
<1>5. At(0) = 0
  BY <1>1, <1>4 DEF At, len
<1>6. ASSUME NEW j \in 1 .. 5, pos = Start(j) PROVE Holds(pos, FieldOf(fields[j]))
  <2>1. Start(j) \in Nat \ {0} /\ Width(j) \in Nat \ {0} /\ Start(j) + Width(j) <= Start(6)
    <3>1. j \in 1 .. 6 /\ 6 \in 1 .. 6 /\ j < 6
      OBVIOUS
    <3>2. Width(j) \in Nat \ {0}
      BY <1>1, Starts
    <3>3. Start(j) \in Nat \ {0}
      BY <1>1, <3>1, Starts
    <3>4. Start(j) + Width(j) <= Start(6)
      BY <1>1, <3>1, Starts
    <3> QED
      BY <3>2, <3>3, <3>4
  <2>2. ASSUME NEW n \in 1 .. Width(j) PROVE At(pos + n - 1) = FieldOf(fields[j])[n]
    <3>1. pos + n - 1 < len /\ (pos + n - 1) + 1 = Start(j) + n
      BY <1>4, <1>6, <2>1
    <3>2. At(pos + n - 1) = whole[Start(j) + n]
      BY <1>4, <3>1 DEF At
    <3> QED
      BY <1>1, <3>2
  <2> QED
    BY <1>4, <1>6, <2>1, <2>2 DEF Holds, Width
<1> QED
  BY <1>4, <1>5, <1>6

(* EEPROM_Load starts at the first field.                                  *)
LEMMA StartLoadInv ==
  ASSUME IInv, StartLoad
  PROVE  IInv'
<1>1. /\ phase = "save" /\ nth > Len(fields)
      /\ part = "begin"
      /\ UNCHANGED <<DevCfg, cap, fields, nth, msg, size, part, rest, fsize, loaded, whole>>
  BY DEF StartLoad, field
<1>2. LaidInv' /\ BufferInv'
  BY <1>1, LaidStays
<1>3. /\ DevCfg \in Configs /\ fields \in Fields(DevCfg) /\ nth \in 1 .. 6
      /\ whole \in Seq(Byte) /\ Len(whole) = Start(nth)
  BY DEF IInv, LaidInv
<1>4. nth = 6 /\ Len(whole) \in Nat \ {0} /\ Start(1) = 1
  <2>1. Len(fields) = 5 /\ Start(1) = 1 /\ Start(nth) \in Nat \ {0}
    BY <1>3, Starts
  <2> QED
    BY <1>1, <1>3, <2>1
<1>5. pos = 0 /\ loaded = Default
  BY <1>1 DEF IInv, WalkInv
<1>6. CASE size <= cap
  <2>1. phase' = "load" /\ pos' = 1
    BY <1>6 DEF StartLoad
  <2>2. AtField(1)'
    BY <1>1, <1>3, <1>4, <1>5, <2>1, Unmoved, AllLoaded DEF AtField
  <2>3. 1 \in 0 .. Positions - 1 /\ 1 <= Len(whole)
    BY <1>4, Widths
  <2>4. WalkInv'
    BY <1>1, <1>4, <1>5, <1>6, <2>1, <2>2, <2>3 DEF WalkInv
  <2> QED
    BY <1>2, <2>4 DEF IInv
<1>7. CASE ~(size <= cap)
  <2>1. phase' = "short" /\ pos' = pos
    BY <1>7 DEF StartLoad
  <2>2. 0 \in 0 .. Positions - 1 /\ 0 <= Len(whole)
    BY <1>4, Widths
  <2>3. WalkInv'
    BY <1>1, <1>5, <2>1, <2>2 DEF WalkInv
  <2> QED
    BY <1>2, <2>3 DEF IInv
<1> QED
  BY <1>6, <1>7

(* A walk at a field loads it and comes to the next one.                   *)
LEMMA LoadFieldInv ==
  ASSUME IInv, LoadField
  PROVE  IInv' /\ (size < Positions => phase' = "load" /\ pos < pos')
<1> DEFINE at == (pos + DecodeKey.size) % Positions
           v == DecodeValue(DecodeKey.type, at)
<1>1. /\ phase = "load" /\ pos # len
      /\ part = "begin"
      /\ UNCHANGED <<DevCfg, cap, fields, nth, msg, size, part, rest, fsize, whole>>
      /\ IF ~DecodeKey.ok \/ at = len \/ v.size = 0
         THEN phase' = "error" /\ UNCHANGED <<loaded, pos>>
         ELSE /\ loaded' = Applied(DecodeKey.tag, DecodeKey.type, v)
              /\ pos' = NextFrom(v.at, DecodeKey, v)
              /\ phase' = phase
  BY DEF LoadField, field, IInv, BufferInv
<1>2. LaidInv' /\ BufferInv'
  BY <1>1, LaidStays
<1>3. nth = 6 /\ size <= cap /\ ((pos = 0 /\ size = Positions) \/ \E j \in 1 .. 6 : AtField(j))
      /\ DOMAIN loaded = DOMAIN Default /\ pos \in 0 .. Positions - 1 /\ pos <= Len(whole)
  BY <1>1 DEF IInv, WalkInv
<1>4. DevCfg \in Configs /\ fields \in Fields(DevCfg)
  BY DEF IInv, LaidInv
<1>5. /\ msg = whole /\ len = Start(6) /\ len \in Nat \ {0} /\ len <= Positions
      /\ At(0) = 0
      /\ \A j \in 1 .. 5 : pos = Start(j) => Holds(pos, FieldOf(fields[j]))
  BY <1>3, WholeMessage
<1> HIDE DEF at, v
<1>6. CASE pos = 0 /\ size = Positions
  <2>1. ~Continues(pos) /\ (At(pos) % Base) \div TypeBase = 0
    <3>1. At(pos) = 0 /\ 0 < Base
      BY <1>5, <1>6, Widths
    <3>2. 0 % Base = 0 /\ 0 \div TypeBase = 0
      BY Widths, SmallMod
    <3> QED
      BY <3>1, <3>2, Widths DEF Continues
  <2>2. ~DecodeKey.ok
    BY <2>1 DEF DecodeKey
  <2>3. phase' = "error" /\ loaded' = loaded /\ pos' = pos
    BY <1>1, <2>2
  <2>4. WalkInv'
    BY <1>1, <1>3, <1>6, <2>3 DEF WalkInv
  <2>5. ~(size < Positions)
    BY <1>6, Widths
  <2> QED
    BY <1>2, <2>4, <2>5 DEF IInv
<1>7. ASSUME NEW j \in 1 .. 6, AtField(j)
      PROVE  IInv' /\ (size < Positions => phase' = "load" /\ pos < pos')
  <2>1. pos = Start(j) /\ (loaded = LoadedTo(j) \/ (j = 6 /\ DevCfg.mode \in Humidity))
    BY <1>7 DEF AtField
  <2>2. j \in 1 .. 5 /\ loaded = LoadedTo(j)
    BY <1>1, <1>5, <2>1
  <2>3. /\ IsField(fields[j]) /\ Start(j) \in Nat \ {0} /\ Start(j + 1) \in Nat \ {0}
        /\ Start(j + 1) = Start(j) + Width(j) /\ Start(j + 1) <= Start(6)
        /\ j + 1 \in 1 .. 6
    <3>1. j \in 1 .. 6 /\ 6 \in 1 .. 6 /\ j + 1 \in 1 .. 6 /\ j < 6
      BY <2>2
    <3>2. IsField(fields[j]) /\ Start(j + 1) = Start(j) + Width(j)
      BY <1>4, <2>2, Starts
    <3>3. Start(j) \in Nat \ {0} /\ Start(j + 1) \in Nat \ {0}
      BY <1>4, <3>1, Starts
    <3>4. Start(j) + Width(j) <= Start(6)
      BY <1>4, <3>1, Starts
    <3> QED
      BY <3>1, <3>2, <3>3, <3>4
  <2>4. Holds(pos, FieldOf(fields[j]))
    BY <1>5, <2>1, <2>2
  <2>5. /\ DecodeKey.ok /\ DecodeKey.tag = fields[j].tag /\ DecodeKey.type = fields[j].type
        /\ at # len /\ v.size # 0
        /\ v.at \in Nat /\ v.size \in Nat /\ v.at + v.size = pos + Width(j)
        /\ fields[j].type # BYTES => v.int = fields[j].val
        /\ fields[j].type = BYTES =>
             /\ v.size = KeySize
             /\ \A n \in 1 .. KeySize : At(v.at + n - 1) = fields[j].val[n]
    BY <2>3, <2>4, FieldDecoded DEF at, v, Width
  <2>6. /\ loaded' = Applied(fields[j].tag, fields[j].type, v)
        /\ pos' = (v.at + v.size) % Positions /\ phase' = "load"
    BY <1>1, <2>5 DEF NextFrom
  <2>7. /\ loaded' = LoadedTo(j + 1) \/ (j = 5 /\ DevCfg.mode \in Humidity)
        /\ DOMAIN loaded' = DOMAIN Default
    BY <1>4, <2>2, <2>5, <2>6, AppliedIs
  <2>8. v.at + v.size = Start(j + 1)
    BY <2>1, <2>3, <2>5
  <2>9. CASE Start(j + 1) < Positions
    <3>1. Start(j + 1) \in 0 .. Positions - 1
      BY <2>3, <2>9, Widths
    <3>2. pos' = Start(j + 1)
      BY <2>6, <2>8, <3>1, Widths, SmallMod
    <3>3. AtField(j + 1)'
      BY <1>1, <2>2, <2>7, <3>2, Unmoved DEF AtField
    <3>4. pos' <= Len(whole')
      BY <1>1, <1>5, <2>3, <3>2 DEF len
    <3>5. WalkInv'
      BY <1>1, <1>3, <2>3, <2>6, <2>7, <3>1, <3>2, <3>3, <3>4 DEF WalkInv
    <3>6. pos < pos'
      <4>1. Width(j) \in Nat \ {0}
        BY <1>4, <2>2, Starts, Zenon
      <4> QED
        BY <2>1, <2>3, <3>2, <4>1
    <3> QED
      BY <1>2, <2>6, <3>5, <3>6 DEF IInv
  <2>10. CASE ~(Start(j + 1) < Positions)
    <3>1. Start(j + 1) = Positions
      BY <1>5, <2>3, <2>10, Widths
    <3>2. pos' = 0 /\ 0 \in 0 .. Positions - 1
      <4>1. Positions % Positions = 0
        <5>1. Positions = Positions * 1 + 0 /\ 0 \in 0 .. Positions - 1
          BY Widths
        <5> QED
          BY <5>1, Widths, DivModUnique
      <4> QED
        BY <2>6, <2>8, <3>1, <4>1, Widths
    <3>3. 0 <= Len(whole') /\ size' = Positions
      <4>1. size = Len(whole)
        BY DEF IInv, BufferInv
      <4>2. Start(6) = Positions
        BY <1>5, <2>3, <3>1, Widths
      <4> QED
        BY <1>1, <1>5, <4>1, <4>2, Widths DEF len
    <3>4. WalkInv'
      BY <1>1, <1>3, <2>6, <2>7, <3>2, <3>3 DEF WalkInv
    <3>5. ~(size < Positions)
      BY <1>1, <3>3, Widths
    <3> QED
      BY <1>2, <3>4, <3>5 DEF IInv
  <2> QED
    BY <2>9, <2>10
<1> QED
  BY <1>3, <1>6, <1>7

(* The end of the walk is the end of the last field.                       *)
LEMMA LoadedInv ==
  ASSUME IInv, Loaded
  PROVE  IInv'
<1>1. /\ phase = "load" /\ pos = len /\ phase' = "done" /\ part = "begin"
      /\ UNCHANGED <<DevCfg, cap, fields, nth, msg, size, part, rest, fsize, pos, loaded, whole>>
  BY DEF Loaded, field, IInv, BufferInv
<1>2. LaidInv' /\ BufferInv'
  BY <1>1, LaidStays
<1>3. nth = 6 /\ size <= cap /\ ((pos = 0 /\ size = Positions) \/ \E j \in 1 .. 6 : AtField(j))
      /\ DOMAIN loaded = DOMAIN Default /\ pos \in 0 .. Positions - 1 /\ pos <= Len(whole)
  BY <1>1 DEF IInv, WalkInv
<1>4. DevCfg \in Configs /\ fields \in Fields(DevCfg)
  BY DEF IInv, LaidInv
<1>5. len = Start(6) /\ len \in Nat \ {0}
  BY <1>3, WholeMessage
<1>6. PICK j \in 1 .. 6 : AtField(j)
  BY <1>1, <1>3, <1>5
<1>7. j = 6
  <2>1. ASSUME j < 6 PROVE FALSE
    <3>1. j \in 1 .. 5 /\ j \in 1 .. 6 /\ 6 \in 1 .. 6
      BY <2>1
    <3>2. Start(j) + Width(j) <= Start(6) /\ Width(j) \in Nat \ {0} /\ Start(j) \in Nat
      BY <1>4, <2>1, <3>1, Starts
    <3> QED
      BY <1>1, <1>5, <1>6, <3>2 DEF AtField
  <2> QED
    BY <2>1
<1>8. AtField(6)'
  BY <1>1, <1>6, <1>7, Unmoved DEF AtField
<1>9. WalkInv'
  BY <1>1, <1>3, <1>8 DEF WalkInv
<1> QED
  BY <1>2, <1>9 DEF IInv

LEMMA StutterInv ==
  ASSUME IInv, UNCHANGED vars
  PROVE  IInv'
<1>1. LaidInv' /\ BufferInv'
  BY LaidStays DEF vars, field
<1>2. \A j : AtField(j)' <=> AtField(j)
  BY Unmoved DEF vars, AtField
<1>3. WalkInv'
  BY <1>2 DEF vars, IInv, WalkInv
<1> QED
  BY <1>1, <1>3 DEF IInv

-----------------------------------------------------------------------------
(***************************************************************************)
(* Theorems                                                                *)
(***************************************************************************)

(* The inductive invariant holds: in whatever configuration and however    *)
(* wide the integers, the fields are laid one after the other, and         *)
(* EEPROM_Load walks from one to the next, with everything loaded that it  *)
(* has passed.                                                             *)
THEOREM Invariant == Spec => []IInv
<1>1. Init => IInv
  BY InitInv
<1>2. IInv /\ [Next]_vars => IInv'
  BY BeginFieldInv, EncodeByteInv, CopyBytesInv, EndFieldInv, StartLoadInv, LoadFieldInv, LoadedInv, StutterInv DEF Next
<1> QED
  BY <1>1, <1>2, PTL DEF Spec

(* The buffer has bytes, and never more than it holds.                     *)
LEMMA Buffered ==
  ASSUME IInv
  PROVE  msg \in Seq(Byte) /\ Len(msg) <= cap
<1>1. cap \in Capacities /\ whole \in Seq(Byte)
  BY DEF IInv, LaidInv, BufferInv
<1>2. cap \in Nat
  BY <1>1, CodecAssumption, Widths
<1>3. \E done \in Seq(Byte) : msg = Clipped(done, cap)
  <2>1. CASE part = "begin"
    BY <1>1, <2>1 DEF IInv, BufferInv
  <2>2. CASE part # "begin"
    BY <2>2, InField DEF Encoded
  <2> QED
    BY <2>1, <2>2
<1> QED
  BY <1>2, <1>3, ClippedIs DEF HasOf

(* The buffer has bytes, and the position of the walk is a byte that never *)
(* passes the message (EEPROM_Load of eeprom.c).                           *)
THEOREM TypeCorrect == Spec => []TypeOK
<1>1. IInv => TypeOK
  <2> SUFFICES ASSUME IInv PROVE TypeOK
    OBVIOUS
  <2>1. cap \in Capacities /\ size = Len(whole) /\ fsize \in Nat /\ whole \in Seq(Byte)
        /\ part \in {"begin", "key", "varint", "length", "copy", "end"}
    BY DEF IInv, LaidInv, BufferInv
  <2>2. msg \in Seq(Byte)
    BY Buffered
  <2> QED
    BY <2>1, <2>2 DEF TypeOK, IInv, WalkInv
<1> QED
  BY <1>1, Invariant, PTL

(* Whatever the configuration, EEPROM_Load gives back what EEPROM_Save was *)
(* given, except for thresholds of the humidity.                           *)
THEOREM SavedIsLoaded == Spec => []LoadedIsSaved
<1>1. IInv => LoadedIsSaved
  BY AllLoaded DEF IInv, LaidInv, WalkInv, AtField, LoadedIsSaved
<1> QED
  BY <1>1, Invariant, PTL

(* However small the buffer, the loops and copies of protobuf.c never      *)
(* write past it, tell the size of the whole message and write as much of  *)
(* it as fits: what their shifts and reckonings of the room come to is the *)
(* message that a number's groups and a field's bytes define.              *)
THEOREM SizeTold == Spec => []SizeIsTold
<1>1. IInv => SizeIsTold
  BY Buffered DEF IInv, BufferInv, SizeIsTold
<1> QED
  BY <1>1, Invariant, PTL

(* EEPROM_Load refuses a message, and erases the configuration, only when  *)
(* it fills all positions of a byte, so that its end is its beginning.     *)
RefusedOnlyWhenFull == phase = "error" => size = Positions

(* No message that EEPROM_Save writes makes EEPROM_Load erase the          *)
(* configuration, unless it fills all positions of a byte, for all widths, *)
(* tags and values: with smaller messages the safety part of LoadEnds.     *)
THEOREM SavedIsAccepted == Spec => []RefusedOnlyWhenFull
<1>1. IInv => RefusedOnlyWhenFull
  BY DEF IInv, WalkInv, RefusedOnlyWhenFull
<1> QED
  BY <1>1, Invariant, PTL

(* Each step of the walk ends it or goes on to a later position, of those  *)
(* that TypeOK bounds: EEPROM_Load does as many steps as there are bytes,  *)
(* at most.  With fairness that is LoadEnds, for messages that do not fill *)
(* all positions of a byte.                                                *)
WalkAdvances ==
  [][phase = "load" /\ size < Positions =>
       phase' = "done" \/ (phase' = "load" /\ pos < pos')]_vars

THEOREM LoadAdvances == Spec => WalkAdvances
<1>1. ASSUME IInv, Next, phase = "load", size < Positions
      PROVE  phase' = "done" \/ (phase' = "load" /\ pos < pos')
  <2>1. CASE LoadField
    BY <1>1, <2>1, LoadFieldInv
  <2>2. CASE Loaded
    BY <2>2 DEF Loaded
  <2>3. CASE BeginField \/ EncodeByte \/ CopyBytes \/ EndField \/ StartLoad
    BY <1>1, <2>3 DEF BeginField, EncodeByte, CopyBytes, EndField, StartLoad
  <2> QED
    BY <1>1, <2>1, <2>2, <2>3 DEF Next
<1>2. IInv /\ [Next]_vars =>
        [phase = "load" /\ size < Positions =>
           phase' = "done" \/ (phase' = "load" /\ pos < pos')]_vars
  BY <1>1
<1> QED
  BY <1>2, Invariant, PTL DEF Spec, WalkAdvances
=============================================================================
