----------------------------- MODULE WireFormat -----------------------------
(***************************************************************************)
(* What a reader of protobuf's wire format must do, as a grammar: which    *)
(* byte strings are varints, entries and messages, and what they say.  No  *)
(* position is advanced and no error raised here.  Codec's readers are     *)
(* compared with it on byte strings, one byte longer at each step, and its *)
(* writers on lists of calls, one call longer at each step.                *)
(***************************************************************************)
EXTENDS Codec

CONSTANTS
  Alphabet,    \* the bytes that are tried
  DataMax,     \* bound: the length of a byte string
  Inputs,      \* the values written, negative ones and large ones included
  FieldNumbers,
  Blobs,       \* the byte strings written as length-delimited values
  BuiltMax     \* bound: the entries of a message that is built

(* Bytes are bytes, and a field's tag and a value's length fit the word.   *)
ASSUME CallsAssumption ==
  /\ Alphabet \subseteq 0..255 /\ Inputs \subseteq Int
  /\ \A f \in FieldNumbers : f \in Nat \ {0} /\ 8 * f + 7 < Word
  /\ \A b \in Blobs : b \in Seq(0..255) /\ Len(b) < Word

VARIABLES
  data,        \* a byte string, one byte longer at each step
  built        \* <<how, field, value>> per pb_... call, in order

wireVars == <<data, built>>

-----------------------------------------------------------------------------
(* The grammar.                                                            *)
IsVarint(s) ==
  /\ Len(s) \in 1..LongestVarint
  /\ s[Len(s)] < More
  /\ \A i \in 1..(Len(s) - 1) : s[i] >= More

VarintValue(s) == ValueFrom([i \in DOMAIN s |-> s[i] % More], More)[1]

Rest(s, n) == SubSeq(s, n + 1, Len(s))

(* What an entry says whose tag is the first n bytes of s.                 *)
Entries(s) ==
  UNION {
    LET tag == VarintValue(SubSeq(s, 1, n))
        field == tag \div 8
        wire == tag % 8
        rest == Rest(s, n)
    IN IF ~IsVarint(SubSeq(s, 1, n)) \/ field = 0 THEN {}
       ELSE IF wire = WIRE_VARINT
         THEN {Entry(field, FALSE, <<VarintValue(r)>>) : r \in {r \in {rest} : IsVarint(r)}}
       ELSE IF wire \in {WIRE_FIXED32, WIRE_FIXED64}
         THEN IF Len(rest) = (IF wire = WIRE_FIXED32 THEN Fixed32Size ELSE Fixed64Size)
                THEN {Entry(field, FALSE, <<Number(rest)>>)} ELSE {}
       ELSE IF wire = WIRE_BYTES
         THEN {Entry(field, TRUE, Rest(rest, k)) :
                 k \in {k \in 1..Len(rest) : /\ IsVarint(SubSeq(rest, 1, k))
                                             /\ VarintValue(SubSeq(rest, 1, k)) = Len(rest) - k}}
       ELSE {}
    : n \in 1..Len(s)}

(* An entry and then a message, wherever the entry may end.                *)
Joined(es, rests) == UNION {{<<e>> \o rest : rest \in rests} : e \in es}
Onward(s, p, from) ==
  UNION {Joined(Entries(SubSeq(s, p, q)), from[q + 1]) : q \in p..Len(s)}

(* Every way to read s as a message: nothing, or an entry and a message.   *)
ReadingsFrom(s) ==
  LET from[p \in Place] == IF p > Len(s) THEN {<< >>} ELSE Onward(s, p, from)
  IN from

Readings(s) == ReadingsFrom(s)[1]

-----------------------------------------------------------------------------
WireInit == data = << >> /\ built = << >>

OneByteMore ==
  /\ built = << >>
  /\ Len(data) < DataMax
  /\ \E b \in Alphabet : data' = Append(data, b)
  /\ UNCHANGED built

BuildOne ==
  /\ data = << >>
  /\ Len(built) < BuiltMax
  /\ \E f \in FieldNumbers :
       \/ \E how \in {"uint", "fixed64"}, n \in Inputs :
            built' = Append(built, <<how, f, <<n>>>>)
       \/ \E b \in Blobs : built' = Append(built, <<"bytes", f, b>>)
  /\ UNCHANGED data

WireNext == OneByteMore \/ BuildOne

WireSpec == WireInit /\ [][WireNext]_wireVars

Written(call) ==
  CASE call[1] = "uint"    -> PbUint(call[2], call[3][1])
    [] call[1] = "fixed64" -> PbFixed64(call[2], call[3][1])
    [] OTHER               -> PbBytes(call[2], call[3])

Meant(call) ==
  IF call[1] = "bytes" THEN Entry(call[2], TRUE, call[3])
  ELSE Entry(call[2], FALSE, <<call[3][1] % Word>>)

-----------------------------------------------------------------------------
(* parse_pb accepts exactly the byte strings that are messages, whatever   *)
(* they end on: a truncated varint or value, a length beyond the end, a    *)
(* varint without end; and what it returns is the only reading there is.   *)
ParsesExactly ==
  Readings(data) = IF ParsePb(data) = Malformed THEN {} ELSE ToSet(ParsePb(data))

(* A message built by those calls, one behind the other.                   *)
Body(calls) == FlattenSeq([i \in DOMAIN calls |-> Written(calls[i])])

(* The prefix of a whole frame is taken off; a frame that is cut short or  *)
(* runs on keeps it (framing.py).                                          *)
FrameIsTaken(body) ==
  LET frame == BqsFrame(body)
  IN /\ StripBqs(frame) = body
     /\ StripBqs(frame \o <<0>>) = frame \o <<0>>
     /\ body # << >> => StripBqs(Front(frame)) = Front(frame)

(* What the pb_ builders write is read back as what was meant, modulo the  *)
(* word, in order; and a frame of it is taken for a frame, whole and only  *)
(* whole (pb.py, framing.py).  Frames are of bodies shorter than the word, *)
(* which a varint can count.                                               *)
WritesAreRead ==
  /\ ParsePb(Body(built)) = <<[i \in DOMAIN built |-> Meant(built[i])]>>
  /\ Len(Body(built)) < Word => FrameIsTaken(Body(built))
=============================================================================
