-------------------------------- MODULE Codec --------------------------------
(***************************************************************************)
(* The bytes of the protocol: varints and messages in protobuf's wire      *)
(* format (pb.py) and the length prefix of every ATT value (framing.py).   *)
(* Bytes are numbers and a byte string is a sequence of them; ValueError   *)
(* is the result Malformed.  A parsed message is the sequence of its       *)
(* entries in wire order: the code's dictionary keeps the same order       *)
(* within a field and, for the fields, that of their first entries.        *)
(*                                                                         *)
(* TLC's integers have 32 bits, so the 64-bit word is scaled: Word, the    *)
(* sizes of the fixed-width values and the longest varint shrink together. *)
(* The loops are recursive functions of the position (or of what is left   *)
(* of a number); the value of digits is summed from the last one.          *)
(***************************************************************************)
EXTENDS Integers, Sequences, SequencesExt

CONSTANTS
  Word,           \* 2^64: what a varint can carry
  Fixed64Size,    \* 8
  Fixed32Size,    \* 4
  LongestVarint   \* 11: digits read_varint takes before it gives up

WIRE_VARINT == 0
WIRE_FIXED64 == 1
WIRE_BYTES == 2
WIRE_FIXED32 == 5

Malformed == << >>
More == 128          \* the continuation bit
Place == Nat \ {0}   \* positions in a byte string

-----------------------------------------------------------------------------
(* Writing.                                                                *)
Digits[n \in Nat] ==
  IF n < More THEN <<n>> ELSE <<More + (n % More)>> \o Digits[n \div More]

(* Mutant of Varint: the sign is dropped.                                  *)
VarintSigned(n) == Digits[IF n < 0 THEN -n ELSE n]

(* Negative numbers are taken in two's complement.                         *)
Varint(n) == Digits[n % Word]

(* What is left of n after so many bytes.                                  *)
Left(n) ==
  LET left[k \in Nat] == IF k = 0 THEN n ELSE left[k - 1] \div 256
  IN left

LittleEndian(n, size) == [i \in 1..size |-> Left(n)[i - 1] % 256]

Tag(field, wire) == Varint(8 * field + wire)
PbUint(field, value) == Tag(field, WIRE_VARINT) \o Varint(value)
PbBool(field, value) == PbUint(field, IF value THEN 1 ELSE 0)
PbFixed64(field, value) ==
  Tag(field, WIRE_FIXED64) \o LittleEndian(value % Word, Fixed64Size)
PbBytes(field, data) == Tag(field, WIRE_BYTES) \o Varint(Len(data)) \o data

PackedVarints(values) == FlattenSeq([i \in DOMAIN values |-> Varint(values[i])])
PbPackedVarints(field, values) == PbBytes(field, PackedVarints(values))

-----------------------------------------------------------------------------
(* The word is the largest fixed-width value and fits in the longest       *)
(* varint that is read.                                                    *)
Power256[k \in Nat] == IF k = 0 THEN 1 ELSE 256 * Power256[k - 1]

ASSUME WidthAssumption ==
  /\ Fixed64Size \in Nat /\ Fixed32Size \in Nat \ {0} /\ Fixed64Size > Fixed32Size
  /\ Word = Power256[Fixed64Size]
  /\ LongestVarint \in Nat /\ Len(Varint(Word - 1)) <= LongestVarint

-----------------------------------------------------------------------------
(* Reading: the value and the position behind it, or Malformed when the    *)
(* data ends on a continuation bit or the digits do not end.               *)
VarintFrom(data, first) ==
  LET from[pos \in Place] ==
        IF pos > Len(data) THEN Malformed
        ELSE IF data[pos] < More THEN <<data[pos], pos + 1>>
        ELSE IF pos + 1 - first >= LongestVarint THEN Malformed
        ELSE LET rest == from[pos + 1]
             IN IF rest = Malformed THEN Malformed
                ELSE <<(data[pos] % More) + More * rest[1], rest[2]>>
  IN from

ReadVarint(data, pos) == VarintFrom(data, pos)[pos]

(* The value of digits, the lowest first.                                  *)
ValueFrom(digits, base) ==
  LET from[i \in Place] ==
        IF i > Len(digits) THEN 0 ELSE digits[i] + base * from[i + 1]
  IN from

Number(bytes) == ValueFrom(bytes, 256)[1]

Entry(field, isBytes, value) == [field |-> field, bytes |-> isBytes, value |-> value]

(* Mutant of TakeBytes: the bound one too far.                             *)
TakeLoose(data, pos, n) ==
  IF pos + n > Len(data) + 2 THEN Malformed
  ELSE <<SubSeq(data, pos, IF pos + n - 1 > Len(data) THEN Len(data) ELSE pos + n - 1),
         pos + n>>

(* The next n bytes.                                                       *)
TakeBytes(data, pos, n) ==
  IF pos + n > Len(data) + 1 THEN Malformed
  ELSE <<SubSeq(data, pos, pos + n - 1), pos + n>>

(* What stands behind a tag with this wire type: value and next position.  *)
Payload(data, pos, wire) ==
  CASE wire = WIRE_VARINT  -> ReadVarint(data, pos)
    [] wire = WIRE_BYTES   -> LET length == ReadVarint(data, pos)
                              IN IF length = Malformed THEN Malformed
                                 ELSE TakeBytes(data, length[2], length[1])
    [] wire = WIRE_FIXED32 -> TakeBytes(data, pos, Fixed32Size)
    [] wire = WIRE_FIXED64 -> TakeBytes(data, pos, Fixed64Size)
    [] OTHER               -> Malformed

(* A number is kept as the sequence of itself, so that every value is a    *)
(* sequence; Entry.bytes tells the two apart.                              *)
Decoded(wire, value) ==
  CASE wire = WIRE_BYTES  -> value
    [] wire = WIRE_VARINT -> <<value>>
    [] OTHER              -> <<Number(value)>>

(* The entry at pos and the position behind it, or Malformed.              *)
EntryAt(data, pos) ==
  LET tag == ReadVarint(data, pos)
      field == tag[1] \div 8
      wire == tag[1] % 8
      payload == Payload(data, tag[2], wire)
  IN IF tag = Malformed THEN Malformed
     ELSE IF field = 0 \/ payload = Malformed THEN Malformed
     ELSE <<Entry(field, wire = WIRE_BYTES, Decoded(wire, payload[1])), payload[2]>>

(* The entries from pos on: <<entries>>, or Malformed.                     *)
EntriesFrom(data) ==
  LET from[pos \in Place] ==
        IF pos > Len(data) THEN << << >> >>
        ELSE LET entry == EntryAt(data, pos)
                 rest == from[entry[2]]
             IN IF entry = Malformed THEN Malformed
                ELSE IF rest = Malformed THEN Malformed
                ELSE << <<entry[1]>> \o rest[1] >>
  IN from

ParsePb(data) == EntriesFrom(data)[1]

PackedFrom(data) ==
  LET from[pos \in Place] ==
        IF pos > Len(data) THEN << << >> >>
        ELSE LET value == ReadVarint(data, pos)
                 rest == from[value[2]]
             IN IF value = Malformed THEN Malformed
                ELSE IF rest = Malformed THEN Malformed
                ELSE << <<value[1]>> \o rest[1] >>
  IN from

ParsePackedVarints(data) == PackedFrom(data)[1]

(* What stands at these places of a sequence, in order.                    *)
Kept(s, places) ==
  LET from[i \in Place] ==
        IF i > Len(s) THEN << >>
        ELSE IF i \in places THEN <<s[i]>> \o from[i + 1] ELSE from[i + 1]
  IN from[1]

(* Looking a field up in a parsed message.                                 *)
FieldsOf(entries) == {e.field : e \in ToSet(entries)}
PlacesOf(entries, field) == {i \in DOMAIN entries : entries[i].field = field}
BytesOf(entries, field) == {i \in PlacesOf(entries, field) : entries[i].bytes}
Value(entries, field, default) ==
  LET at == PlacesOf(entries, field)
  IN IF at = {} THEN default ELSE entries[Min(at)].value
FirstBytes(entries, field) ==
  LET at == BytesOf(entries, field)
  IN IF at = {} THEN << >> ELSE entries[Min(at)].value

-----------------------------------------------------------------------------
(* Frames.                                                                 *)
SEQ_FIELD == 38
SEQ_ECHO_FIELD == 40

RequestPayload(rtype, inner, seq) == PbBytes(rtype, inner) \o PbUint(SEQ_FIELD, seq)

(* framing.py has a varint of its own, which masks nothing.                *)
BqsFrame(body) == Digits[Len(body)] \o body

(* A prefix that does not give the length of the rest is not a prefix.     *)
StripBqs(frame) ==
  LET length == ReadVarint(frame, 1)
  IN IF length # Malformed /\ length[1] = Len(frame) - length[2] + 1
       THEN SubSeq(frame, length[2], Len(frame)) ELSE frame
=============================================================================
