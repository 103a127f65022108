-------------------------------- MODULE Codec -------------------------------
(***************************************************************************)
(* The protobuf codec of Src/protobuf.c and its use by EEPROM_Save and     *)
(* EEPROM_Load of Src/eeprom.c: a configuration is encoded field by field  *)
(* into a buffer, byte by byte or copied, as far as there is room, and a   *)
(* message is walked byte position by byte position.  PBDecodeMsg walks a  *)
(* message of the phone in the same way.                                   *)
(*                                                                         *)
(* The widths are parameters: bytes have a continuation bit and GroupBits  *)
(* more, integers WordBits, positions the bits of a byte.  Of the settings *)
(* there is one for every type of field, the temperature and humidity      *)
(* sensor of the STX and a counter of the STA.                             *)
(***************************************************************************)
EXTENDS Integers, Sequences, FiniteSetsExt

CONSTANTS GroupBits,     \* 7
          WordBits,      \* 64: of a varint
          MoreTagBits,   \* 25: of a tag after the first byte of its key
          MaxKey,        \* 5: bytes of a key
          MaxVarint,     \* 10: bytes of a varint
          Fixed64, Fixed32, \* 8 and 4: bytes
          IntBits,       \* 32: of a threshold
          MaxBytes,      \* 250: the longest array
          KeySize,       \* 16: of a key of LoRaWAN
          Tag,           \* the tag of each setting
          Configs,       \* configurations
          Capacities     \* of the buffer

(* The powers of two, which shift a number by so many bits.                *)
TwoTo[n \in Nat] == IF n = 0 THEN 1 ELSE 2 * TwoTo[n - 1]

ByteBits == GroupBits + 1
Base == TwoTo[GroupBits]
Positions == TwoTo[ByteBits]
Byte == 0 .. Positions - 1
Word == TwoTo[WordBits]
TypeBits == 3
TypeBase == TwoTo[TypeBits]

VARINT == 0
FIXED64 == 1
BYTES == 2
FIXED32 == 5

Modes == {"TEMPERATURE_HIGH", "TEMPERATURE_LOW", "HUMIDITY_HIGH", "HUMIDITY_LOW"}
Humidity == {"HUMIDITY_HIGH", "HUMIDITY_LOW"}

Settings == {"devEui", "appKey", "devAddr", "txPort", "singleCount"} \cup Modes

Configuration ==
  [devEui : 0 .. TwoTo[Fixed64 * ByteBits] - 1, appKey : [1 .. KeySize -> Byte],
   devAddr : 0 .. TwoTo[Fixed32 * ByteBits] - 1, txPort : 0 .. Word - 1,
   mode : Modes \cup {"off"},
   threshold : -TwoTo[IntBits - 1] .. TwoTo[IntBits - 1] - 1,
   singleCount : 0 .. Word - 1]

(* The widths fit each other as those of the code do.  A build has either  *)
(* the sensor or the counter.                                              *)
ASSUME CodecAssumption ==
  /\ {GroupBits, WordBits, MoreTagBits, MaxKey, MaxVarint, Fixed64, Fixed32,
      IntBits, MaxBytes, KeySize} \subseteq Nat \ {0}
  /\ TypeBits <= GroupBits /\ ByteBits <= WordBits /\ IntBits <= WordBits
  /\ WordBits <= MaxVarint * GroupBits
  /\ MoreTagBits + GroupBits <= MaxKey * GroupBits /\ MaxKey <= MaxVarint
  /\ KeySize <= MaxBytes /\ MaxBytes < Positions
  /\ Tag \in [Settings -> 1 .. TwoTo[MoreTagBits + GroupBits - TypeBits] - 1]
  /\ \A s, t \in Settings : Tag[s] = Tag[t] => s = t
  /\ Configs \subseteq Configuration
  /\ \A c \in Configs : IF c.mode = "off" THEN c.threshold = 0 ELSE c.singleCount = 0
  /\ Capacities \subseteq 0 .. Positions

VARIABLES DevCfg,        \* the configuration that is encoded
          cap,           \* the size of the buffer
          fields,        \* to encode
          nth,           \* the next of them
          msg, size,     \* what was written to the buffer, and the size told
          part, rest,    \* of the field: what is encoded, and the rest of it
          fsize,         \* the size of the field so far
          pos,           \* of the walk
          loaded,        \* the configuration that is decoded
          phase,
          whole          \* history: the message without a bound

field == <<part, rest, fsize>>
vars == <<DevCfg, cap, fields, nth, msg, size, field, pos, loaded, phase, whole>>

Default ==
  [devEui |-> 0, appKey |-> [i \in 1 .. KeySize |-> 0], devAddr |-> 0, txPort |-> 1,
   mode |-> "off", threshold |-> 0, singleCount |-> 0]

-----------------------------------------------------------------------------
(* Encoding                                                                *)

(* The n lowest groups of some bits of a number, and the number of groups. *)
Groups(x, n, bits) == [i \in 1 .. n |-> (x \div TwoTo[(i - 1) * bits]) % TwoTo[bits]]
Number(groups, bits) ==
  LET lowest[n \in 0 .. Len(groups)] ==
        IF n = 0 THEN 0 ELSE lowest[n - 1] + groups[n] * TwoTo[(n - 1) * bits]
  IN lowest[Len(groups)]

LittleEndian(x, n) == Groups(x, n, ByteBits)

(* What is to be encoded, as a message without a bound: the groups that a  *)
(* number takes, all but the last with the continuation bit, and the bytes *)
(* of a field.                                                             *)
Digits(x) == Min({n \in 1 .. MaxVarint : x < TwoTo[n * GroupBits]})
Continued(i, n) == IF i < n THEN Base ELSE 0
EncodeVarint(x) ==
  [i \in 1 .. Digits(x) |->
     Groups(x, Digits(x), GroupBits)[i] + Continued(i, Digits(x))]

EncodeValue(f) ==
  CASE f.type = VARINT -> EncodeVarint(f.val)
    [] f.type = FIXED64 -> LittleEndian(f.val, Fixed64)
    [] f.type = FIXED32 -> LittleEndian(f.val, Fixed32)
    [] f.type = BYTES -> EncodeVarint(Len(f.val)) \o f.val

FieldOf(f) == EncodeVarint(f.tag * TypeBase + f.type) \o EncodeValue(f)

Clipped(bytes, room) == SubSeq(bytes, 1, Min({Len(bytes), room}))

(* Mutant: shifted, but not inverted.                                      *)
PBEncodeSIntAbs(t) == IF t >= 0 THEN 2 * t ELSE -2 * t
PBEncodeSInt(t) == IF t >= 0 THEN 2 * t ELSE -2 * t - 1
PBDecodeSInt(v) == IF v % 2 = 1 THEN -(v \div 2) - 1 ELSE v \div 2

(* EEPROM_Save passes the lower threshold of the humidity as an int, where *)
(* va_arg takes a 64-bit argument: it is whatever the stack has.           *)
VaArg(t) == {t % Word, 0, Word - 1}

SavedThreshold(mode, t) ==
  IF mode = "HUMIDITY_LOW" THEN VaArg(t) ELSE {PBEncodeSInt(t)}

Field(setting, type, val) == [tag |-> Tag[setting], type |-> type, val |-> val]

(* The fields of EEPROM_Save, in its order; the last depends on the build. *)
LastField(c) ==
  IF c.mode = "off" THEN {Field("singleCount", VARINT, c.singleCount)}
  ELSE {Field(c.mode, VARINT, v) : v \in SavedThreshold(c.mode, c.threshold)}
Fields(c) ==
  {<<Field("devEui", FIXED64, c.devEui), Field("appKey", BYTES, c.appKey),
     Field("devAddr", FIXED32, c.devAddr), Field("txPort", VARINT, c.txPort), last>> :
     last \in LastField(c)}

Init ==
  /\ DevCfg \in Configs
  /\ cap \in Capacities
  /\ fields \in Fields(DevCfg) /\ nth = 1
  /\ msg = IF cap = 0 THEN <<>> ELSE <<0>>
  /\ size = 1
  /\ part = "begin" /\ rest = 0 /\ fsize = 0
  /\ pos = 0
  /\ loaded = Default
  /\ phase = "save"
  /\ whole = <<0>>

(* PBEncodeMsgField gives PBEncodeField what is left of the buffer.        *)
Room == IF size < cap THEN cap - size ELSE 0
Written(at, bytes) == SubSeq(msg, 1, size + at) \o bytes

BeginField ==
  /\ phase = "save" /\ part = "begin" /\ nth <= Len(fields)
  /\ part' = "key"
  /\ rest' = fields[nth].tag * TypeBase + fields[nth].type
  /\ fsize' = 0
  /\ UNCHANGED <<DevCfg, cap, fields, nth, msg, size, pos, loaded, phase, whole>>

(* What follows a number of the field: after its key the value, after the  *)
(* length of an array the array.                                           *)
NextPart(f) ==
  \/ part = "key" /\ f.type = VARINT /\ part' = "varint" /\ rest' = f.val
  \/ part = "key" /\ f.type = BYTES /\ part' = "length" /\ rest' = Len(f.val)
  \/ part = "key" /\ f.type \in {FIXED64, FIXED32} /\ part' = "copy" /\ rest' = 0
  \/ part = "length" /\ part' = "copy" /\ rest' = 0
  \/ part = "varint" /\ part' = "end" /\ rest' = 0

(* The lowest group of a number that is shifted, with the continuation bit *)
(* when more of it is left.  Mutant: the group is not masked.              *)
VarintByteWide(x) == x + (IF x >= Base THEN Base ELSE 0)
VarintByte(x) == (x % Base) + (IF x >= Base THEN Base ELSE 0)

(* The next byte of the key, of a varint or of an array's length: counted  *)
(* in any case, written when there is room.                                *)
EncodeByte ==
  /\ phase = "save" /\ part \in {"key", "varint", "length"}
  /\ msg' = IF fsize < Room THEN Written(fsize, <<VarintByte(rest)>>) ELSE msg
  /\ fsize' = fsize + 1
  /\ IF rest >= Base THEN rest' = rest \div Base /\ part' = part
                     ELSE NextPart(fields[nth])
  /\ UNCHANGED <<DevCfg, cap, fields, nth, size, pos, loaded, phase, whole>>

Raw(f) ==
  CASE f.type = FIXED64 -> LittleEndian(f.val, Fixed64)
    [] f.type = FIXED32 -> LittleEndian(f.val, Fixed32)
    [] f.type = BYTES -> f.val

(* How many of n bytes fit behind those of the field so far.  Mutant: they *)
(* are forgotten.                                                          *)
CopyLenOfAll(at, n, room) == IF n > room THEN room ELSE n
CopyLen(at, n, room) ==
  IF at > room THEN 0 ELSE IF at + n > room THEN room - at ELSE n

(* A fixed number or an array is copied in one go, as far as it fits.      *)
CopyBytes ==
  /\ phase = "save" /\ part = "copy"
  /\ LET raw == Raw(fields[nth])
         cpylen == CopyLen(fsize, Len(raw), Room)
     IN /\ msg' = IF cpylen # 0 THEN Written(fsize, SubSeq(raw, 1, cpylen)) ELSE msg
        /\ fsize' = fsize + Len(raw)
  /\ part' = "end"
  /\ UNCHANGED <<DevCfg, cap, fields, nth, size, rest, pos, loaded, phase, whole>>

(* PBEncodeField returns its size, which EEPROM_Save adds up.              *)
EndField ==
  /\ phase = "save" /\ part = "end"
  /\ part' = "begin"
  /\ size' = size + fsize
  /\ whole' = whole \o FieldOf(fields[nth])
  /\ nth' = nth + 1
  /\ UNCHANGED <<DevCfg, cap, fields, msg, rest, fsize, pos, loaded, phase>>

-----------------------------------------------------------------------------
(* Decoding                                                                *)

len == Len(msg)

(* len - pos, of an unsigned length.                                       *)
Remaining(i) == (len - i) % Word

(* What follows the message reads as erased.                               *)
At(i) == IF i < len THEN msg[i + 1] ELSE 0
Continues(i) == At(i) >= Base

(* The bytes of a varint: up to the first that does not continue, or to    *)
(* the limit; 0 when that one continues.                                   *)
VarintEnd(i, maxbits) ==
  Min({n \in 1 .. MaxVarint : ~Continues(i + n - 1) \/ n * GroupBits >= maxbits})

(* Bits beyond the limit are ignored.                                      *)
Bits(n, maxbits) == Min({GroupBits, maxbits - (n - 1) * GroupBits})
PBDecodeVarint(i, maxbits) ==
  LET end == VarintEnd(i, maxbits) IN
  [size |-> IF Continues(i + end - 1) THEN 0 ELSE end,
   int |-> Number([n \in 1 .. end |-> At(i + n - 1) % TwoTo[Bits(n, maxbits)]],
                  GroupBits)]

(* A key: its first byte has the type and the low bits of the tag.  The    *)
(* mutant takes the rest of the tag as one bit less significant.           *)
LowTag == Base \div TypeBase
TagShort(low, more) == low + more * (LowTag \div 2)
TagOf(low, more) == low + more * LowTag

DecodeKey ==
  LET low == (At(pos) % Base) \div TypeBase
      limit == IF Remaining(pos) < MaxKey THEN Remaining(pos) * GroupBits ELSE MoreTagBits
      more == PBDecodeVarint(pos + 1, limit)
  IN IF ~Continues(pos)
     THEN [ok |-> low # 0, tag |-> low, type |-> At(pos) % TypeBase, size |-> 1]
     ELSE [ok |-> more.size # 0 /\ TagOf(low, more.int) # 0, tag |-> TagOf(low, more.int),
           type |-> At(pos) % TypeBase, size |-> more.size + 1]

(* A value at i: its integer, where its raw bytes are, and how many; none  *)
(* of a value that is ill-formed.                                          *)
DecodeValue(type, i) ==
  LET varint ==
        PBDecodeVarint(i, IF Remaining(i) < MaxVarint THEN Remaining(i) * GroupBits
                                                      ELSE WordBits)
      length == PBDecodeVarint(i, IF Remaining(i) = 1 THEN GroupBits ELSE GroupBits + 1)
      fixed(n) == [at |-> i, size |-> n,
                   int |-> Number([k \in 1 .. n |-> At(i + k - 1)], ByteBits)]
      raw == i + length.size
      fits == length.int <= MaxBytes /\ length.int <= Remaining(raw) % Positions
  IN CASE type = VARINT -> [at |-> i, size |-> varint.size, int |-> varint.int]
       [] type = FIXED64 -> fixed(Fixed64)
       [] type = FIXED32 -> fixed(Fixed32)
       [] type = BYTES ->
            [at |-> raw, int |-> length.int,
             size |-> IF length.size = 0 \/ ~fits THEN 0 ELSE length.int]
       [] OTHER -> [at |-> i, size |-> 0, int |-> 0]

(* A threshold is a signed integer.                                        *)
ToInt(v) ==
  LET low == v % TwoTo[IntBits]
  IN IF low >= TwoTo[IntBits - 1] THEN low - TwoTo[IntBits] ELSE low

LoadedThreshold(mode, v) == ToInt(IF mode \in Humidity THEN v ELSE PBDecodeSInt(v))

(* What EEPROM_Load makes of a field; an unknown one is skipped.           *)
Applied(tag, type, v) ==
  LET is(setting, t) == tag = Tag[setting] /\ type = t IN
  IF is("devEui", FIXED64) THEN [loaded EXCEPT !.devEui = v.int]
  ELSE IF is("appKey", BYTES) /\ v.size = KeySize
    THEN [loaded EXCEPT !.appKey = [k \in 1 .. KeySize |-> At(v.at + k - 1)]]
  ELSE IF is("devAddr", FIXED32) THEN [loaded EXCEPT !.devAddr = v.int]
  ELSE IF is("txPort", VARINT) THEN [loaded EXCEPT !.txPort = v.int]
  ELSE IF is("singleCount", VARINT) THEN [loaded EXCEPT !.singleCount = v.int]
  ELSE IF \E m \in Modes : is(m, VARINT)
    THEN LET m == CHOOSE m \in Modes : is(m, VARINT)
         IN [loaded EXCEPT !.mode = m, !.threshold = LoadedThreshold(m, v.int)]
  ELSE loaded

(* EEPROM_Load starts with a message that is whole.                        *)
StartLoad ==
  /\ phase = "save" /\ part = "begin" /\ nth > Len(fields)
  /\ IF size <= cap THEN phase' = "load" /\ pos' = 1
                    ELSE phase' = "short" /\ pos' = pos
  /\ UNCHANGED <<DevCfg, cap, fields, nth, msg, size, field, loaded, whole>>

(* The position is a byte.  Mutant: the length of an array is forgotten.   *)
NextFromKey(at, key, v) == (pos + key.size + v.size) % Positions
NextFrom(at, key, v) == (at + v.size) % Positions

LoadField ==
  /\ phase = "load" /\ pos # len
  /\ \E key \in {DecodeKey} : \E at \in {(pos + key.size) % Positions} :
     \E v \in {DecodeValue(key.type, at)} :
       IF ~key.ok \/ at = len \/ v.size = 0
       THEN phase' = "error" /\ UNCHANGED <<loaded, pos>>
       ELSE /\ loaded' = Applied(key.tag, key.type, v)
            /\ pos' = NextFrom(v.at, key, v)
            /\ phase' = phase
  /\ UNCHANGED <<DevCfg, cap, fields, nth, msg, size, field, whole>>

Loaded ==
  /\ phase = "load" /\ pos = len
  /\ phase' = "done"
  /\ UNCHANGED <<DevCfg, cap, fields, nth, msg, size, field, pos, loaded, whole>>

Next ==
  \/ BeginField \/ EncodeByte \/ CopyBytes \/ EndField
  \/ StartLoad \/ LoadField \/ Loaded

Spec == Init /\ [][Next]_vars /\ WF_vars(Next)

-----------------------------------------------------------------------------
(* The types of the state; the walk's position never passes the message.   *)
TypeOK ==
  /\ cap \in Capacities /\ size \in Nat
  /\ msg \in Seq(Byte) /\ fsize \in Nat
  /\ part \in {"begin", "key", "varint", "length", "copy", "end"}
  /\ pos \in 0 .. Positions - 1 /\ pos <= Len(whole)
  /\ DOMAIN loaded = DOMAIN Default
  /\ phase \in {"save", "load", "done", "short", "error"}

(* EEPROM_Load gives back what EEPROM_Save was given, whatever the values  *)
(* at the limits of their groups of bits, except for thresholds of the     *)
(* humidity, which are saved as signed integers, or as whatever va_arg     *)
(* finds, and loaded as unsigned ones (eeprom.c:218-225, 335-336).         *)
LoadedIsSaved == phase = "done" /\ DevCfg.mode \notin Humidity => loaded = DevCfg

(* Byte by byte and copy by copy, with the room for each of them reckoned  *)
(* from what was counted before, the encoders never write past the buffer; *)
(* and field by field the size they tell is that of the whole message,     *)
(* however small the buffer, which has as much of it as fits.              *)
SizeIsTold ==
  /\ Len(msg) <= cap
  /\ part = "begin" => size = Len(whole) /\ msg = Clipped(whole, cap)

(* What was encoded is always decoded to its end: no message the firmware  *)
(* writes makes EEPROM_Load erase the configuration and restart, or walk   *)
(* past the end for ever.                                                  *)
LoadEnds == <>(phase \in {"done", "short"})

(* The same as LoadedIsSaved for the upper threshold of the humidity.      *)
HumidityIsKept == phase = "done" /\ DevCfg.mode = "HUMIDITY_HIGH" => loaded = DevCfg
=============================================================================
