--------------------------- MODULE MessagesProofs ---------------------------
(***************************************************************************)
(* Proofs about Messages, for every mirror, every set of reported numbers, *)
(* listings of any length and any sequence of requests, answers and        *)
(* notifications.                                                          *)
(*                                                                         *)
(* The inductive invariant, MsgInv, says that the mirror is what was told  *)
(* and that the fields the host keeps are the entries of the camera's      *)
(* latest message, in order.  That it survives Receive is the theorem on   *)
(* the reader of CodecProofs, ParsingIsExact, put to work twice: a message *)
(* is a concatenation of entries, each of one field, and so is what is     *)
(* inside one.  The rest goes from entries to meanings: an entry of a      *)
(* report sets the attribute the report names and no other; an answer's    *)
(* entry goes to the request of its type; the columns of a listing, packed *)
(* varints and chunks of equal size, are cut where the camera joined them. *)
(***************************************************************************)
EXTENDS CodecProofs, Messages, FiniteSetTheorems

(* What is said once more of the builders, with their readings.            *)
SmallFields == {f \in Nat \ {0} : f <= ResponseField(RT_DISABLE_TIMEOUTS)}

LEMMA FieldsFit == SmallFields \subseteq Fields
<1>1. 2049 \in Nat /\ ResponseField(RT_DISABLE_TIMEOUTS) = 2049
  BY DEF ResponseField, RT_DISABLE_TIMEOUTS
<1>2. 8 * 2049 + 7 < Word /\ Word \in Nat
  BY <1>1, FitAssumption, WordIs
<1> QED
  BY <1>1, <1>2 DEF SmallFields, Fields

LEMMA UintReads ==
  ASSUME NEW f \in Fields, NEW n \in 0..(Word - 1)
  PROVE  /\ PbUint(f, n) \in Seq(Byte) /\ Len(PbUint(f, n)) > 0
         /\ Reads(PbUint(f, n), <<Entry(f, FALSE, <<n>>)>>)
<1>1. n \in Int /\ n % Word = n
  BY Wrapped, WordIs
<1>2. /\ PbUint(f, n) \in Seq(Byte) /\ Len(PbUint(f, n)) > 0
      /\ Entry(f, FALSE, <<n>>) \in Entries(PbUint(f, n))
  BY <1>1, UintEntry
<1>3. ParsePb(PbUint(f, n)) = << <<Entry(f, FALSE, <<n>>)>> >>
  BY <1>2, OneEntry
<1> QED
  BY <1>2, <1>3 DEF Reads

LEMMA BytesReads ==
  ASSUME NEW f \in Fields, NEW b \in Seq(Byte), Len(b) < Word
  PROVE  /\ PbBytes(f, b) \in Seq(Byte) /\ Len(PbBytes(f, b)) > 0
         /\ Reads(PbBytes(f, b), <<Entry(f, TRUE, b)>>)
<1>2. /\ PbBytes(f, b) \in Seq(Byte) /\ Len(PbBytes(f, b)) > 0
      /\ Entry(f, TRUE, b) \in Entries(PbBytes(f, b))
  BY BytesEntry
<1>3. ParsePb(PbBytes(f, b)) = << <<Entry(f, TRUE, b)>> >>
  BY <1>2, OneEntry
<1> QED
  BY <1>2, <1>3 DEF Reads

LEMMA NothingReads == << >> \in Seq(Byte) /\ Reads(<< >>, << >>)
<1>1. << >> \in Seq(Byte) /\ Len(<< >>) = 0 /\ 1 \in Place /\ 1 > 0
  BY EmptySeq DEF Place
<1>2. EntriesFrom(<< >>)[1] = << << >> >>
  BY <1>1, EntriesStep
<1> QED
  BY <1>1, <1>2 DEF Reads, ParsePb

(* Messages one behind the other are read as one.                          *)
LEMMA FlattenReads ==
  ASSUME NEW seqs \in Seq(Seq(Byte)), NEW es,
         es = [i \in 1..Len(seqs) |-> es[i]],
         \A i \in 1..Len(seqs) : Reads(seqs[i], <<es[i]>>)
  PROVE  FlattenSeq(seqs) \in Seq(Byte) /\ Reads(FlattenSeq(seqs), es)
<1> DEFINE n == Len(seqs)
           F == FlatFrom(seqs)
           First(i) == [j \in 1..i |-> es[j]]
           P == {i \in Nat : i \in 1..n => Reads(F[i], First(i))}
<1>0. n \in Nat /\ \A i \in 1..n : seqs[i] \in Seq(Byte)
  BY LenProperties, ElementOfSeq
<1>1. /\ F \in [1..n -> Seq(Byte)]
      /\ \A i \in 1..n : F[i] = IF i = 1 THEN seqs[i] ELSE F[i - 1] \o seqs[i]
  BY FlatDef
<1>2. FlattenSeq(seqs) = IF n = 0 THEN seqs ELSE F[n]
  BY DEF FlattenSeq, FlatFrom
<1> HIDE DEF F
<1>3. 0 \in P
  OBVIOUS
<1>4. ASSUME NEW i \in P PROVE i + 1 \in P
  <2> SUFFICES ASSUME i + 1 \in 1..n PROVE Reads(F[i + 1], First(i + 1))
    OBVIOUS
  <2>0. i \in Nat
    OBVIOUS
  <2>1. Reads(seqs[i + 1], <<es[i + 1]>>) /\ seqs[i + 1] \in Seq(Byte)
    BY <1>0
  <2>2. CASE i = 0
    <3>0. i + 1 = 1 /\ 1 \in 1..n
      BY <2>2
    <3>1. F[i + 1] = seqs[i + 1]
      BY <1>1, <3>0
    <3>2. First(i + 1) = <<es[i + 1]>>
      BY <2>2
    <3> QED
      BY <2>1, <3>1, <3>2
  <2>3. CASE i # 0
    <3>0. n \in Nat /\ i \in Nat /\ i # 0 /\ i + 1 \in 1..n
      BY <1>0, <2>0, <2>3
    <3>5. i \in 1..n /\ i + 1 - 1 = i /\ i + 1 # 1
      BY ONLY <3>0
    <3>6. F[i + 1] = IF i + 1 = 1 THEN seqs[i + 1] ELSE F[(i + 1) - 1] \o seqs[i + 1]
      BY ONLY <1>1, <3>0
    <3>1. i \in 1..n /\ F[i + 1] = F[i] \o seqs[i + 1]
      <4>1. (i + 1) - 1 = i
        BY ONLY <3>0
      <4>2. F[(i + 1) - 1] = F[i]
        BY ONLY <4>1, Zenon
      <4> QED
        BY ONLY <3>5, <3>6, <4>2, Zenon
    <3>2. Reads(F[i], First(i)) /\ F[i] \in Seq(Byte)
      BY <1>1, <3>1
    <3>3. First(i + 1) = First(i) \o <<es[i + 1]>>
      BY <2>0
    <3> HIDE DEF First
    <3>4. Reads(F[i] \o seqs[i + 1], First(i) \o <<es[i + 1]>>)
      BY <2>1, <3>2, MessagesJoin
    <3> QED
      BY <3>1, <3>3, <3>4
  <2> QED
    BY <2>2, <2>3
<1>5. P = Nat
  <2> HIDE DEF P
  <2>1. P \in SUBSET Nat
    BY DEF P
  <2> QED
    BY <1>3, <1>4, <2>1, Induction
<1>6. CASE n = 0
  <2>1. seqs = << >> /\ es = << >>
    BY <1>0, <1>6, EmptySeq
  <2> QED
    BY <1>2, <1>6, <2>1, NothingReads
<1>7. CASE n # 0
  <2>0. n \in 1..n /\ n \in Nat
    BY <1>0, <1>7
  <2>1. n \in 1..n /\ n \in P
    BY ONLY <1>5, <2>0
  <2>2. Reads(F[n], First(n)) /\ First(n) = es /\ F[n] \in Seq(Byte)
    BY <1>1, <2>1
  <2> QED
    BY <1>2, <1>7, <2>2
<1> QED
  BY <1>6, <1>7

-----------------------------------------------------------------------------
(* Looking things up: what is kept of places next to one another.          *)
KeptFrom(s, places) ==
  LET from[i \in Place] ==
        IF i > Len(s) THEN << >>
        ELSE IF i \in places THEN <<s[i]>> \o from[i + 1] ELSE from[i + 1]
  IN from

KeptRule(s, places, K) ==
  \A i \in Place : K[i] = IF i > Len(s) THEN << >>
                         ELSE IF i \in places THEN <<s[i]>> \o K[i + 1] ELSE K[i + 1]

LEMMA KeptDef ==
  ASSUME NEW S, NEW s \in Seq(S), NEW places
  PROVE  /\ KeptFrom(s, places) \in [Place -> Seq(S)]
         /\ KeptRule(s, places, KeptFrom(s, places))
<1> DEFINE V == Seq(S)
           Rule(i, f) == IF i > Len(s) THEN << >>
                         ELSE IF i \in places THEN <<s[i]>> \o f[i + 1] ELSE f[i + 1]
           body == [p \in Place \X [Place -> V] |-> Rule(p[1], p[2])]
           rank == Ahead(Len(s))
<1>0. rank \in [Place -> Nat]
  BY LenProperties, AheadIs
<1>1. ASSUME NEW i \in Place, NEW f \in [Place -> V] PROVE Rule(i, f) \in V
  <2>1. CASE i <= Len(s)
    <3>1. i \in 1..Len(s) /\ i + 1 \in Place
      BY <2>1 DEF Place
    <3>2. s[i] \in S /\ f[i + 1] \in Seq(S)
      BY <3>1, ElementOfSeq
    <3>3. <<s[i]>> \o f[i + 1] \in Seq(S)
      <4>1. <<s[i]>> \in Seq(S)
        BY <3>2
      <4> QED
        BY <3>2, <4>1, ConcatProperties
    <3> QED
      BY <3>2, <3>3
  <2>2. CASE i > Len(s)
    BY <2>2, EmptySeq
  <2>3. i <= Len(s) \/ i > Len(s)
    BY LenProperties DEF Place
  <2> QED
    BY <2>1, <2>2, <2>3
<1>2. ASSUME NEW i \in Place, NEW g, NEW h,
             \A m \in Place : rank[m] < rank[i] => g[m] = h[m]
      PROVE  Rule(i, g) = Rule(i, h)
  <2>1. i <= Len(s) => rank[i + 1] < rank[i]
    <3>1. Len(s) \in Nat /\ i + 1 \in Place /\ i < i + 1
      BY LenProperties DEF Place
    <3> QED
      BY <3>1, AheadIs
  <2>2. i + 1 \in Place /\ (i <= Len(s) \/ i > Len(s))
    BY LenProperties DEF Place
  <2>3. i <= Len(s) => g[i + 1] = h[i + 1]
    BY <1>2, <2>1, <2>2
  <2> QED
    BY <2>2, <2>3
<1> HIDE DEF Rule, rank
<1>3. body \in [Place \X [Place -> V] -> V]
  BY <1>1
<1>4. LooksDown(Place, V, rank, body)
  <2>1. ASSUME NEW i \in Place, NEW g \in [Place -> V], NEW h \in [Place -> V],
               \A m \in Place : rank[m] < rank[i] => g[m] = h[m]
        PROVE  body[<<i, g>>] = body[<<i, h>>]
    <3>1. Rule(i, g) = Rule(i, h)
      BY <1>2, <2>1
    <3> QED
      BY <3>1
  <2> HIDE DEF body, V
  <2> QED
    BY <2>1 DEF LooksDown
<1>5. PICK f \in [Place -> V] : Solves(f, Place, body)
  <2>1. V # {}
    BY EmptySeq
  <2> HIDE DEF body, V
  <2> QED
    BY <1>0, <1>3, <1>4, <2>1, Recursion
<1>6. f = [i \in Place |-> Rule(i, f)]
  BY <1>5 DEF Solves
<1>7. KeptFrom(s, places) = [i \in Place |-> Rule(i, KeptFrom(s, places))]
  BY <1>6 DEF KeptFrom, Rule
<1>8. KeptFrom(s, places) = f
  <2> DEFINE F == KeptFrom(s, places)
  <2>1. F = [i \in Place |-> Rule(i, F)]
    BY <1>7
  <2> HIDE DEF F, V, body
  <2>2. ASSUME NEW i \in Place, \A m \in Place : rank[m] < rank[i] => F[m] = f[m]
        PROVE  F[i] = f[i]
    <3>1. Rule(i, F) = Rule(i, f)
      BY <1>2, <2>2
    <3> QED
      BY <1>6, <2>1, <3>1
  <2> DEFINE T == Place
  <2>3. Follows(F, f, T, rank) /\ rank \in [T -> Nat]
    BY <1>0, <2>2 DEF Follows
  <2> HIDE DEF T
  <2>4. \A i \in T : F[i] = f[i]
    BY <2>3, SameSolution
  <2>5. F = f
    BY <1>6, <2>1, <2>4 DEF T
  <2> QED
    BY <2>5 DEF F
<1> QED
  BY <1>7, <1>8 DEF Rule, KeptRule

(* The items a to b of s.                                                  *)
Part(s, a, b) == SubSeq(s, a, b)

LEMMA KeptRange ==
  ASSUME NEW S, NEW s \in Seq(S), NEW places, NEW a \in Place, NEW b \in Nat,
         a <= b + 1, b <= Len(s), \A i \in 1..Len(s) : i \in places <=> a <= i /\ i <= b
  PROVE  Kept(s, places) = Part(s, a, b)
<1> DEFINE n == Len(s)
           K == KeptFrom(s, places)
           From(i) == IF i < a THEN a ELSE i
           P == {i \in Place : K[i] = Part(s, From(i), b)}
<1>0. n \in Nat /\ a \in Nat /\ a >= 1 /\ b \in Nat /\ a <= b + 1 /\ b <= n
  BY LenProperties DEF Place
<1>1. /\ K \in [Place -> Seq(S)]
      /\ \A i \in Place : K[i] = IF i > n THEN << >>
                                 ELSE IF i \in places THEN <<s[i]>> \o K[i + 1] ELSE K[i + 1]
  <2>1. s \in Seq(S)
    OBVIOUS
  <2>2. KeptFrom(s, places) \in [Place -> Seq(S)] /\ KeptRule(s, places, KeptFrom(s, places))
    BY ONLY <2>1, KeptDef
  <2> QED
    BY ONLY <2>2 DEF KeptRule
<1>2. Kept(s, places) = K[1]
  BY DEF Kept, KeptFrom
<1>3. \A i \in 1..n : i \in places <=> a <= i /\ i <= b
  OBVIOUS
<1> HIDE DEF n, K
<1>4. ASSUME NEW i \in Place, i > n PROVE i \in P
  <2>1. i \in Nat /\ i >= 1 /\ i > b
    BY <1>0, <1>4 DEF Place
  <2>2. From(i) \in Nat /\ From(i) > b
    BY <1>0, <2>1
  <2>3. Part(s, From(i), b) = << >>
    BY <1>0, <2>2, SubSeqEmpty DEF Part
  <2> QED
    BY <1>1, <1>4, <2>3
<1>5. ASSUME NEW i \in Place, i <= n, \A j \in Place : j > i => j \in P PROVE i \in P
  <2>1. i \in Nat /\ i >= 1 /\ i <= n /\ i \in 1..n
    BY <1>0, <1>5 DEF Place
  <2>2. i + 1 \in Place /\ i + 1 > i /\ i + 1 \in P
    BY <1>5, <2>1 DEF Place
  <2>3. K[i + 1] = Part(s, From(i + 1), b)
    BY <2>2
  <2>4. ~(i > n)
    BY <1>0, <2>1
  <2>5. K[i] = IF i \in places THEN <<s[i]>> \o K[i + 1] ELSE K[i + 1]
    BY <1>1, <2>4
  <2>6. CASE i < a
    <3>1. i \notin places /\ From(i) = a /\ From(i + 1) = a
      BY <1>0, <1>3, <2>1, <2>6
    <3> QED
      BY <2>3, <2>5, <3>1
  <2>7. CASE a <= i /\ i <= b
    <3>1. i \in places /\ From(i) = i /\ From(i + 1) = i + 1
      BY <1>0, <1>3, <2>1, <2>7
    <3>2. K[i + 1] = Part(s, i + 1, b)
      BY <2>3, <3>1
    <3>3. <<s[i]>> \o Part(s, i + 1, b) = Part(s, i, b)
      <4>1. i \in 1..Len(s) /\ b \in i..Len(s)
        BY <1>0, <2>1, <2>7 DEF n
      <4>2. SubSeq(s, i, b) = <<s[i]>> \o SubSeq(s, i + 1, b)
        BY <4>1, SubSeqRecursiveFirst
      <4> QED
        BY <4>2 DEF Part
    <3> QED
      BY <2>5, <3>1, <3>2, <3>3
  <2>8. CASE i > b
    <3>1. i \notin places /\ From(i) \in Nat /\ From(i) > b /\ From(i + 1) \in Nat /\ From(i + 1) > b
      BY <1>0, <1>3, <2>1, <2>8
    <3>2. Part(s, From(i), b) = << >> /\ Part(s, From(i + 1), b) = << >>
      BY <1>0, <3>1, SubSeqEmpty DEF Part
    <3> QED
      BY <2>3, <2>5, <3>1, <3>2
  <2> QED
    BY <1>0, <2>1, <2>6, <2>7, <2>8
<1>6. P = Place
  <2>1. P \in SUBSET Place /\ n \in Nat
    BY <1>0
  <2> HIDE DEF P
  <2> QED
    BY <1>4, <1>5, <2>1, Descent
<1>7. 1 \in P /\ From(1) = a
  BY <1>0, <1>6 DEF Place
<1> QED
  BY <1>2, <1>7

LEMMA KeptOne ==
  ASSUME NEW S, NEW s \in Seq(S), NEW places, NEW k \in 1..Len(s),
         \A i \in 1..Len(s) : i \in places <=> i = k
  PROVE  Kept(s, places) = <<s[k]>>
<1>1. k \in Place /\ k \in Nat /\ k <= k + 1 /\ k <= Len(s)
  BY LenProperties DEF Place
<1>2. \A i \in 1..Len(s) : i \in places <=> k <= i /\ i <= k
  BY <1>1
<1>3. Kept(s, places) = Part(s, k, k)
  BY <1>1, <1>2, KeptRange
<1>4. SubSeq(s, k, k) = <<s[k]>> \o SubSeq(s, k + 1, k) /\ SubSeq(s, k + 1, k) = << >>
  BY <1>1, SubSeqRecursiveFirst, SubSeqEmpty
<1>5. s[k] \in S /\ <<s[k]>> \in Seq(S)
  BY ElementOfSeq
<1>6. <<s[k]>> \o << >> = <<s[k]>>
  BY <1>5, ConcatEmptySeq
<1> QED
  BY <1>3, <1>4, <1>6 DEF Part

(* The first place of a field is the one a lookup reads.                   *)
LEMMA MinIs ==
  ASSUME NEW T \in SUBSET Nat, NEW k \in T, \A y \in T : k <= y
  PROVE  Min(T) = k
<1>1. \A x \in T : (\A y \in T : x <= y) => x = k
  OBVIOUS
<1> QED
  BY <1>1 DEF Min

IsFirst(es, f, k) == \A i \in DOMAIN es : es[i].field = f => k <= i

LEMMA ValueAt ==
  ASSUME NEW S, NEW es \in Seq(S), NEW f, NEW default, NEW k \in 1..Len(es),
         es[k].field = f, IsFirst(es, f, k)
  PROVE  Value(es, f, default) = es[k].value
<1>1. DOMAIN es = 1..Len(es)
  BY LenProperties
<1>2. /\ PlacesOf(es, f) \in SUBSET Nat /\ k \in PlacesOf(es, f)
      /\ \A y \in PlacesOf(es, f) : k <= y
  BY <1>1 DEF PlacesOf, IsFirst
<1>3. Min(PlacesOf(es, f)) = k
  BY <1>2, MinIs
<1> QED
  BY <1>2, <1>3 DEF Value

LEMMA NoValue ==
  ASSUME NEW es, NEW f, NEW default, \A i \in DOMAIN es : es[i].field # f
  PROVE  Value(es, f, default) = default
<1>1. PlacesOf(es, f) = {}
  BY DEF PlacesOf
<1> QED
  BY <1>1 DEF Value

LEMMA FirstBytesAt ==
  ASSUME NEW S, NEW es \in Seq(S), NEW f, NEW k \in 1..Len(es),
         es[k].field = f, es[k].bytes, IsFirst(es, f, k)
  PROVE  FirstBytes(es, f) = es[k].value
<1>1. DOMAIN es = 1..Len(es)
  BY LenProperties
<1>2. /\ BytesOf(es, f) \in SUBSET Nat /\ k \in BytesOf(es, f)
      /\ \A y \in BytesOf(es, f) : k <= y
  BY <1>1 DEF BytesOf, PlacesOf, IsFirst
<1>3. Min(BytesOf(es, f)) = k
  BY <1>2, MinIs
<1> QED
  BY <1>2, <1>3 DEF FirstBytes

LEMMA NoBytes ==
  ASSUME NEW es, NEW f, \A i \in DOMAIN es : es[i].field # f
  PROVE  FirstBytes(es, f) = << >>
<1>1. BytesOf(es, f) = {}
  BY DEF BytesOf, PlacesOf
<1> QED
  BY <1>1 DEF FirstBytes

(* Looking up in messages of one entry and of two.                         *)
Single(f, v) == <<Entry(f, FALSE, v)>>
Pair(f, v, g, w) == <<Entry(f, FALSE, v), Entry(g, FALSE, w)>>

LEMMA SingleLookup ==
  ASSUME NEW f, NEW g, f # g, NEW v, NEW default
  PROVE  /\ Value(Single(f, v), f, default) = v
         /\ Value(Single(f, v), g, default) = default
<1> DEFINE e == Entry(f, FALSE, v)
           es == <<e>>
<1>1. e.field = f /\ e.value = v
  BY DEF Entry
<1> HIDE DEF e
<1>2. es \in Seq({e}) /\ Len(es) = 1 /\ es[1] = e /\ DOMAIN es = {1} /\ 1 \in 1..Len(es)
  OBVIOUS
<1> HIDE DEF es
<1>3. IsFirst(es, f, 1) /\ \A i \in DOMAIN es : es[i].field # g
  BY <1>1, <1>2 DEF IsFirst
<1>4. Value(es, f, default) = es[1].value
  BY <1>1, <1>2, <1>3, ValueAt
<1>5. Value(es, g, default) = default
  BY <1>3, NoValue
<1> QED
  BY <1>1, <1>2, <1>4, <1>5 DEF es, e, Single

LEMMA PairLookup ==
  ASSUME NEW f, NEW g, f # g, NEW v, NEW w, NEW default
  PROVE  /\ Value(Pair(f, v, g, w), f, default) = v
         /\ Value(Pair(f, v, g, w), g, default) = w
<1> DEFINE d == Entry(f, FALSE, v)
           e == Entry(g, FALSE, w)
           es == <<d, e>>
           E == {d, e}
<1>1. d.field = f /\ d.value = v /\ e.field = g /\ e.value = w
  BY DEF Entry
<1> HIDE DEF d, e
<1>2. /\ es \in Seq(E) /\ Len(es) = 2 /\ es[1] = d /\ es[2] = e /\ DOMAIN es = {1, 2}
      /\ 1 \in 1..Len(es) /\ 2 \in 1..Len(es)
  OBVIOUS
<1> HIDE DEF es, E
<1>3. IsFirst(es, f, 1) /\ IsFirst(es, g, 2)
  BY <1>1, <1>2 DEF IsFirst
<1>6. es \in Seq(E) /\ 1 \in 1..Len(es) /\ es[1].field = f /\ IsFirst(es, f, 1)
  BY <1>1, <1>2, <1>3
<1>7. es \in Seq(E) /\ 2 \in 1..Len(es) /\ es[2].field = g /\ IsFirst(es, g, 2)
  BY <1>1, <1>2, <1>3
<1>4. Value(es, f, default) = es[1].value
  BY ONLY <1>6, ValueAt
<1>5. Value(es, g, default) = es[2].value
  BY ONLY <1>7, ValueAt
<1> QED
  BY <1>1, <1>2, <1>4, <1>5 DEF es, d, e, Pair

-----------------------------------------------------------------------------
(* Reports.                                                                *)
LEMMA BlobLonger ==
  ASSUME NEW f \in Fields, NEW b \in Seq(Byte)
  PROVE  Len(PbBytes(f, b)) \in Nat /\ Len(b) \in Nat /\ Len(b) <= Len(PbBytes(f, b))
<1>1. Len(b) \in Nat /\ WIRE_BYTES \in 0..7
  BY LenProperties DEF WIRE_BYTES
<1>2. Tag(f, WIRE_BYTES) \in Seq(Byte) /\ Len(Tag(f, WIRE_BYTES)) \in Nat
  BY <1>1, FieldTag
<1>3. Varint(Len(b)) \in Seq(Byte) /\ Len(Varint(Len(b))) \in Nat
  BY <1>1, VarintMeans
<1> DEFINE head == Tag(f, WIRE_BYTES) \o Varint(Len(b))
<1>4. head \in Seq(Byte) /\ Len(head) \in Nat
  BY <1>2, <1>3, ConcatProperties
<1>5. PbBytes(f, b) = head \o b
  BY DEF PbBytes
<1> HIDE DEF head
<1>6. Len(head \o b) = Len(head) + Len(b)
  BY <1>4, ConcatProperties
<1> QED
  BY <1>1, <1>4, <1>5, <1>6

LEMMA OneReport ==
  ASSUME NEW kind \in SmallFields, NEW payload \in Seq(Byte), NEW es, NEW says,
         Reads(payload, es), Len(PbBytes(kind, payload)) < Word
  PROVE  /\ Report(kind, payload, says).says = says
         /\ Report(kind, payload, says).blob \in Seq(Byte)
         /\ Report(kind, payload, says).blob = PbBytes(kind, payload)
         /\ StateEntries(PbBytes(kind, payload)) = << [kind |-> kind, inner |-> es] >>
<1> DEFINE blob == PbBytes(kind, payload)
           e == Entry(kind, TRUE, payload)
           one == <<e>>
           places == {i \in DOMAIN one : \A j \in 1..(i - 1) : one[j].field # one[i].field}
<1>1. kind \in Fields /\ Len(payload) < Word
  <2>1. kind \in Fields
    BY FieldsFit
  <2>2. Len(blob) \in Nat /\ Len(payload) \in Nat /\ Len(payload) <= Len(blob) /\ Word \in Nat
    BY <2>1, BlobLonger, WordIs
  <2> QED
    BY <2>1, <2>2
<1>2. blob \in Seq(Byte) /\ Reads(blob, one)
  BY <1>1, BytesReads
<1>3. Known(ParsePb(blob)) = one
  <2> HIDE DEF one, blob
  <2>1. ParsePb(blob) = <<one>>
    BY <1>2 DEF Reads
  <2> QED
    BY <2>1 DEF Known, Malformed
<1>4. e.field = kind /\ e.bytes = TRUE /\ e.value = payload
  BY DEF Entry
<1> HIDE DEF e, blob
<1>5. one \in Seq({e}) /\ Len(one) = 1 /\ 1 \in 1..Len(one) /\ one[1] = e /\ DOMAIN one = 1..1
  OBVIOUS
<1> HIDE DEF one
<1>6. \A i \in 1..Len(one) : i \in places <=> i = 1
  BY <1>5
<1>7. Firsts(one) = <<one[1]>>
  <2> HIDE DEF places
  <2>1. Kept(one, places) = <<one[1]>>
    BY ONLY <1>5, <1>6, KeptOne
  <2> QED
    BY <2>1 DEF Firsts, places
<1>8. FieldsIn(e) = es
  <2>1. ParsePb(payload) = <<es>>
    BY DEF Reads
  <2>2. <<es>> # << >> /\ <<es>>[1] = es
    OBVIOUS
  <2>3. Known(ParsePb(payload)) = es
    BY <2>1, <2>2 DEF Known, Malformed
  <2> QED
    BY ONLY <1>4, <2>3 DEF FieldsIn
<1>9. Kinds(<<e>>) = << [kind |-> e.field, inner |-> FieldsIn(e)] >>
  <2>1. DOMAIN <<e>> = 1..1 /\ <<e>>[1] = e
    OBVIOUS
  <2> QED
    BY <2>1 DEF Kinds
<1>10. StateEntries(blob) = << [kind |-> kind, inner |-> es] >>
  BY <1>3, <1>4, <1>5, <1>7, <1>8, <1>9 DEF StateEntries
<1> QED
  BY <1>2, <1>10 DEF Report, blob

(* What an entry does to a mirror is what its report says.                 *)
Attributes == DOMAIN NoState
Mirrors == [Attributes -> Seq(Nat)]

Told1(n) == Single(1, <<n>>)
Told2(n) == Single(2, <<n>>)
ToldBoth(n, m) == Pair(1, <<n>>, 2, <<m>>)

Said(st, says) ==
  [a \in Attributes |-> IF a \in DOMAIN says THEN <<says[a]>> ELSE st[a]]

Tells(kind, inner, says) ==
  \A st \in Mirrors : Apply(st, kind, inner) = Said(st, says) /\ Said(st, says) \in Mirrors

LEMMA AttributesAre ==
  Attributes = {"battery_pct", "charge_state", "system_state", "session_uuid", "storage_level",
                "storage_state", "session_mode", "cover_open", "occlusion", "wifi_state",
                "active_device_id"}
BY DEF Attributes, NoState

LEMMA Looked ==
  ASSUME NEW n, NEW m, NEW default
  PROVE  /\ Value(Told1(n), 1, default) = <<n>> /\ Value(Told1(n), 2, default) = default
         /\ Value(Told2(n), 1, default) = default /\ Value(Told2(n), 2, default) = <<n>>
         /\ Value(ToldBoth(n, m), 1, default) = <<n>>
         /\ Value(ToldBoth(n, m), 2, default) = <<m>>
<1>1. 1 # 2 /\ 2 # 1
  OBVIOUS
<1>2. Value(Told1(n), 1, default) = <<n>> /\ Value(Told1(n), 2, default) = default
  BY ONLY <1>1, SingleLookup DEF Told1
<1>3. Value(Told2(n), 1, default) = default /\ Value(Told2(n), 2, default) = <<n>>
  BY ONLY <1>1, SingleLookup DEF Told2
<1>4. Value(ToldBoth(n, m), 1, default) = <<n>> /\ Value(ToldBoth(n, m), 2, default) = <<m>>
  BY ONLY <1>1, PairLookup DEF ToldBoth
<1> QED
  BY <1>2, <1>3, <1>4

LEMMA SaidOne ==
  ASSUME NEW st \in Mirrors, NEW attr \in Attributes, NEW says,
         DOMAIN says = {attr}, says[attr] \in Nat
  PROVE  Said(st, says) = [st EXCEPT ![attr] = <<says[attr]>>] /\ Said(st, says) \in Mirrors
<1> DEFINE v == <<says[attr]>>
           t == [st EXCEPT ![attr] = v]
<1>1. v \in Seq(Nat)
  OBVIOUS
<1> HIDE DEF v
<1>2. DOMAIN st = Attributes /\ \A a \in Attributes : st[a] \in Seq(Nat)
  BY DEF Mirrors
<1>3. t = [a \in Attributes |-> IF a = attr THEN v ELSE st[a]]
  BY <1>2
<1>4. [a \in Attributes |-> IF a = attr THEN v ELSE st[a]] \in Mirrors
  BY <1>1, <1>2 DEF Mirrors
<1>5. \A a \in Attributes :
        (IF a \in DOMAIN says THEN <<says[a]>> ELSE st[a]) = (IF a = attr THEN v ELSE st[a])
  BY DEF v
<1>6. Said(st, says) = [a \in Attributes |-> IF a = attr THEN v ELSE st[a]]
  BY <1>5 DEF Said
<1> QED
  BY <1>3, <1>4, <1>6 DEF v

LEMMA SaidTwo ==
  ASSUME NEW st \in Mirrors, NEW attr \in Attributes, NEW other \in Attributes, attr # other,
         NEW says, DOMAIN says = {attr, other}, says[attr] \in Nat, says[other] \in Nat
  PROVE  /\ Said(st, says) = [st EXCEPT ![attr] = <<says[attr]>>, ![other] = <<says[other]>>]
         /\ Said(st, says) \in Mirrors
<1> DEFINE v == <<says[attr]>>
           w == <<says[other]>>
           s == [st EXCEPT ![attr] = v]
           Both(a) == IF a = attr THEN v ELSE IF a = other THEN w ELSE st[a]
<1>1. v \in Seq(Nat) /\ w \in Seq(Nat)
  OBVIOUS
<1> HIDE DEF v, w
<1>2. DOMAIN st = Attributes /\ \A a \in Attributes : st[a] \in Seq(Nat)
  BY DEF Mirrors
<1>3. s = [a \in Attributes |-> IF a = attr THEN v ELSE st[a]]
  BY <1>2
<1>4. [s EXCEPT ![other] = w] = [a \in Attributes |-> IF a = other THEN w ELSE s[a]]
  BY <1>2
<1>5. [s EXCEPT ![other] = w] = [a \in Attributes |-> Both(a)]
  BY <1>3, <1>4
<1>6. [a \in Attributes |-> Both(a)] \in Mirrors
  BY <1>1, <1>2 DEF Mirrors
<1>7. \A a \in Attributes : (IF a \in DOMAIN says THEN <<says[a]>> ELSE st[a]) = Both(a)
  BY DEF v, w
<1>8. Said(st, says) = [a \in Attributes |-> Both(a)]
  <2> HIDE DEF Both
  <2> QED
    BY <1>7 DEF Said
<1> QED
  BY <1>5, <1>6, <1>8 DEF v, w

LEMMA SaidNone ==
  ASSUME NEW st \in Mirrors
  PROVE  Said(st, << >>) = st
<1>1. DOMAIN << >> = {}
  OBVIOUS
<1>2. st = [a \in Attributes |-> st[a]]
  BY DEF Mirrors
<1> QED
  BY <1>1, <1>2 DEF Said

(* Of each kind of entry, what it sets.                                    *)
LEMMA ApplyIs ==
  ASSUME NEW st, NEW inner
  PROVE  /\ Apply(st, 1, inner) =
              [st EXCEPT !["battery_pct"] = Value(inner, 1, st["battery_pct"]),
                         !["charge_state"] = Value(inner, 2, st["charge_state"])]
         /\ Apply(st, 2, inner) =
              [st EXCEPT !["system_state"] = Value(inner, 1, st["system_state"])]
         /\ Apply(st, 3, inner) =
              [st EXCEPT !["session_uuid"] = Value(inner, 1, st["session_uuid"])]
         /\ Apply(st, 4, inner) =
              [st EXCEPT !["storage_level"] = Value(inner, 1, st["storage_level"]),
                         !["storage_state"] = Value(inner, 2, st["storage_state"])]
         /\ Apply(st, 5, inner) =
              [st EXCEPT !["session_mode"] = Value(inner, 1, st["session_mode"])]
         /\ Apply(st, 9, inner) =
              [st EXCEPT !["cover_open"] = Truth(Value(inner, 1, st["cover_open"]))]
         /\ Apply(st, 10, inner) =
              [st EXCEPT !["occlusion"] = Value(inner, 1, st["occlusion"])]
         /\ Apply(st, 13, inner) =
              [st EXCEPT !["wifi_state"] = Value(inner, 1, st["wifi_state"])]
         /\ Apply(st, 16, inner) =
              [st EXCEPT !["active_device_id"] =
                    Value(inner, 2, Value(inner, 1, st["active_device_id"]))]
         /\ Apply(st, 100, inner) =
              [st EXCEPT !["active_device_id"] =
                    Value(inner, 2, Value(inner, 1, st["active_device_id"]))]
         /\ Apply(st, 8, inner) =
              st
<1>1. Apply(st, 1, inner) =
      [st EXCEPT !["battery_pct"] = Value(inner, 1, st["battery_pct"]),
                         !["charge_state"] = Value(inner, 2, st["charge_state"])]
  <2>1. /\ 1 # 2 /\ 1 # 3 /\ 1 # 4 /\ 1 # 5 /\ 1 # 9 /\ 1 # 10
        /\ 1 # 13 /\ 1 \notin {16, 100}
    OBVIOUS
  <2> QED
    BY ONLY <2>1, Zenon DEF Apply
<1>2. Apply(st, 2, inner) =
      [st EXCEPT !["system_state"] = Value(inner, 1, st["system_state"])]
  <2>1. /\ 2 # 1 /\ 2 # 3 /\ 2 # 4 /\ 2 # 5 /\ 2 # 9 /\ 2 # 10
        /\ 2 # 13 /\ 2 \notin {16, 100}
    OBVIOUS
  <2> QED
    BY ONLY <2>1, Zenon DEF Apply
<1>3. Apply(st, 3, inner) =
      [st EXCEPT !["session_uuid"] = Value(inner, 1, st["session_uuid"])]
  <2>1. /\ 3 # 1 /\ 3 # 2 /\ 3 # 4 /\ 3 # 5 /\ 3 # 9 /\ 3 # 10
        /\ 3 # 13 /\ 3 \notin {16, 100}
    OBVIOUS
  <2> QED
    BY ONLY <2>1, Zenon DEF Apply
<1>4. Apply(st, 4, inner) =
      [st EXCEPT !["storage_level"] = Value(inner, 1, st["storage_level"]),
                         !["storage_state"] = Value(inner, 2, st["storage_state"])]
  <2>1. /\ 4 # 1 /\ 4 # 2 /\ 4 # 3 /\ 4 # 5 /\ 4 # 9 /\ 4 # 10
        /\ 4 # 13 /\ 4 \notin {16, 100}
    OBVIOUS
  <2> QED
    BY ONLY <2>1, Zenon DEF Apply
<1>5. Apply(st, 5, inner) =
      [st EXCEPT !["session_mode"] = Value(inner, 1, st["session_mode"])]
  <2>1. /\ 5 # 1 /\ 5 # 2 /\ 5 # 3 /\ 5 # 4 /\ 5 # 9 /\ 5 # 10
        /\ 5 # 13 /\ 5 \notin {16, 100}
    OBVIOUS
  <2> QED
    BY ONLY <2>1, Zenon DEF Apply
<1>6. Apply(st, 9, inner) =
      [st EXCEPT !["cover_open"] = Truth(Value(inner, 1, st["cover_open"]))]
  <2>1. /\ 9 # 1 /\ 9 # 2 /\ 9 # 3 /\ 9 # 4 /\ 9 # 5 /\ 9 # 10
        /\ 9 # 13 /\ 9 \notin {16, 100}
    OBVIOUS
  <2> QED
    BY ONLY <2>1, Zenon DEF Apply
<1>7. Apply(st, 10, inner) =
      [st EXCEPT !["occlusion"] = Value(inner, 1, st["occlusion"])]
  <2>1. /\ 10 # 1 /\ 10 # 2 /\ 10 # 3 /\ 10 # 4 /\ 10 # 5 /\ 10 # 9
        /\ 10 # 13 /\ 10 \notin {16, 100}
    OBVIOUS
  <2> QED
    BY ONLY <2>1, Zenon DEF Apply
<1>8. Apply(st, 13, inner) =
      [st EXCEPT !["wifi_state"] = Value(inner, 1, st["wifi_state"])]
  <2>1. /\ 13 # 1 /\ 13 # 2 /\ 13 # 3 /\ 13 # 4 /\ 13 # 5 /\ 13 # 9
        /\ 13 # 10 /\ 13 \notin {16, 100}
    OBVIOUS
  <2> QED
    BY ONLY <2>1, Zenon DEF Apply
<1>9. Apply(st, 16, inner) =
      [st EXCEPT !["active_device_id"] =
                    Value(inner, 2, Value(inner, 1, st["active_device_id"]))]
  <2>1. /\ 16 # 1 /\ 16 # 2 /\ 16 # 3 /\ 16 # 4 /\ 16 # 5 /\ 16 # 9
        /\ 16 # 10 /\ 16 # 13 /\ 16 \in {16, 100}
    OBVIOUS
  <2> QED
    BY ONLY <2>1, Zenon DEF Apply
<1>10. Apply(st, 100, inner) =
      [st EXCEPT !["active_device_id"] =
                    Value(inner, 2, Value(inner, 1, st["active_device_id"]))]
  <2>1. /\ 100 # 1 /\ 100 # 2 /\ 100 # 3 /\ 100 # 4 /\ 100 # 5 /\ 100 # 9
        /\ 100 # 10 /\ 100 # 13 /\ 100 \in {16, 100}
    OBVIOUS
  <2> QED
    BY ONLY <2>1, Zenon DEF Apply
<1>11. Apply(st, 8, inner) =
      st
  <2>1. /\ 8 # 1 /\ 8 # 2 /\ 8 # 3 /\ 8 # 4 /\ 8 # 5 /\ 8 # 9
        /\ 8 # 10 /\ 8 # 13 /\ 8 \notin {16, 100}
    OBVIOUS
  <2> QED
    BY ONLY <2>1, Zenon DEF Apply
<1> QED
  BY ONLY <1>1, <1>2, <1>3, <1>4, <1>5, <1>6, <1>7, <1>8, <1>9, <1>10, <1>11, Zenon

LEMMA OtherKept ==
  ASSUME NEW st \in Mirrors, NEW attr \in Attributes, NEW other \in Attributes, attr # other,
         NEW v
  PROVE  /\ [st EXCEPT ![attr] = v, ![other] = st[other]] = [st EXCEPT ![attr] = v]
         /\ [st EXCEPT ![other] = st[other], ![attr] = v] = [st EXCEPT ![attr] = v]
<1> DEFINE s == [st EXCEPT ![attr] = v]
           t == [st EXCEPT ![other] = st[other]]
<1>1. DOMAIN st = Attributes
  BY DEF Mirrors
<1>2. DOMAIN s = Attributes /\ s[other] = st[other] /\ s = [a \in Attributes |-> s[a]]
  BY <1>1
<1>3. [s EXCEPT ![other] = st[other]] = s
  <2> HIDE DEF s
  <2> QED
    BY <1>2
<1>4. st = [a \in Attributes |-> st[a]]
  BY DEF Mirrors
<1>5. t = st
  BY <1>4
<1> QED
  BY <1>3, <1>5

LEMMA TellsSystem ==
  ASSUME NEW n \in Nat
  PROVE  Tells(2, Told1(n), [system_state |-> n])
<1> DEFINE says == [system_state |-> n]
<1>1. DOMAIN says = {"system_state"} /\ says["system_state"] = n /\ says["system_state"] \in Nat
  OBVIOUS
<1>2. "system_state" \in Attributes
  BY AttributesAre
<1> HIDE DEF says
<1>3. ASSUME NEW st \in Mirrors
      PROVE  Apply(st, 2, Told1(n)) = Said(st, says) /\ Said(st, says) \in Mirrors
  <2>1. Value(Told1(n), 1, st["system_state"]) = <<n>>
    BY Looked
  <2>2. Apply(st, 2, Told1(n)) = [st EXCEPT !["system_state"] = Value(Told1(n), 1, st["system_state"])]
    BY ApplyIs, Zenon
  <2>4. /\ Said(st, says) = [st EXCEPT !["system_state"] = <<says["system_state"]>>]
        /\ Said(st, says) \in Mirrors
    BY <1>1, <1>2, SaidOne
  <2> QED
    BY ONLY <1>1, <2>1, <2>2, <2>4, Zenon
<1> QED
  BY <1>3 DEF Tells, says

LEMMA TellsSession ==
  ASSUME NEW n \in Nat
  PROVE  Tells(3, Told1(n), [session_uuid |-> n])
<1> DEFINE says == [session_uuid |-> n]
<1>1. DOMAIN says = {"session_uuid"} /\ says["session_uuid"] = n /\ says["session_uuid"] \in Nat
  OBVIOUS
<1>2. "session_uuid" \in Attributes
  BY AttributesAre
<1> HIDE DEF says
<1>3. ASSUME NEW st \in Mirrors
      PROVE  Apply(st, 3, Told1(n)) = Said(st, says) /\ Said(st, says) \in Mirrors
  <2>1. Value(Told1(n), 1, st["session_uuid"]) = <<n>>
    BY Looked
  <2>2. Apply(st, 3, Told1(n)) = [st EXCEPT !["session_uuid"] = Value(Told1(n), 1, st["session_uuid"])]
    BY ApplyIs, Zenon
  <2>4. /\ Said(st, says) = [st EXCEPT !["session_uuid"] = <<says["session_uuid"]>>]
        /\ Said(st, says) \in Mirrors
    BY <1>1, <1>2, SaidOne
  <2> QED
    BY ONLY <1>1, <2>1, <2>2, <2>4, Zenon
<1> QED
  BY <1>3 DEF Tells, says

LEMMA TellsMode ==
  ASSUME NEW n \in Nat
  PROVE  Tells(5, Told1(n), [session_mode |-> n])
<1> DEFINE says == [session_mode |-> n]
<1>1. DOMAIN says = {"session_mode"} /\ says["session_mode"] = n /\ says["session_mode"] \in Nat
  OBVIOUS
<1>2. "session_mode" \in Attributes
  BY AttributesAre
<1> HIDE DEF says
<1>3. ASSUME NEW st \in Mirrors
      PROVE  Apply(st, 5, Told1(n)) = Said(st, says) /\ Said(st, says) \in Mirrors
  <2>1. Value(Told1(n), 1, st["session_mode"]) = <<n>>
    BY Looked
  <2>2. Apply(st, 5, Told1(n)) = [st EXCEPT !["session_mode"] = Value(Told1(n), 1, st["session_mode"])]
    BY ApplyIs, Zenon
  <2>4. /\ Said(st, says) = [st EXCEPT !["session_mode"] = <<says["session_mode"]>>]
        /\ Said(st, says) \in Mirrors
    BY <1>1, <1>2, SaidOne
  <2> QED
    BY ONLY <1>1, <2>1, <2>2, <2>4, Zenon
<1> QED
  BY <1>3 DEF Tells, says

LEMMA TellsOcclusion ==
  ASSUME NEW n \in Nat
  PROVE  Tells(10, Told1(n), [occlusion |-> n])
<1> DEFINE says == [occlusion |-> n]
<1>1. DOMAIN says = {"occlusion"} /\ says["occlusion"] = n /\ says["occlusion"] \in Nat
  OBVIOUS
<1>2. "occlusion" \in Attributes
  BY AttributesAre
<1> HIDE DEF says
<1>3. ASSUME NEW st \in Mirrors
      PROVE  Apply(st, 10, Told1(n)) = Said(st, says) /\ Said(st, says) \in Mirrors
  <2>1. Value(Told1(n), 1, st["occlusion"]) = <<n>>
    BY Looked
  <2>2. Apply(st, 10, Told1(n)) = [st EXCEPT !["occlusion"] = Value(Told1(n), 1, st["occlusion"])]
    BY ApplyIs, Zenon
  <2>4. /\ Said(st, says) = [st EXCEPT !["occlusion"] = <<says["occlusion"]>>]
        /\ Said(st, says) \in Mirrors
    BY <1>1, <1>2, SaidOne
  <2> QED
    BY ONLY <1>1, <2>1, <2>2, <2>4, Zenon
<1> QED
  BY <1>3 DEF Tells, says

LEMMA TellsWifi ==
  ASSUME NEW n \in Nat
  PROVE  Tells(13, Told1(n), [wifi_state |-> n])
<1> DEFINE says == [wifi_state |-> n]
<1>1. DOMAIN says = {"wifi_state"} /\ says["wifi_state"] = n /\ says["wifi_state"] \in Nat
  OBVIOUS
<1>2. "wifi_state" \in Attributes
  BY AttributesAre
<1> HIDE DEF says
<1>3. ASSUME NEW st \in Mirrors
      PROVE  Apply(st, 13, Told1(n)) = Said(st, says) /\ Said(st, says) \in Mirrors
  <2>1. Value(Told1(n), 1, st["wifi_state"]) = <<n>>
    BY Looked
  <2>2. Apply(st, 13, Told1(n)) = [st EXCEPT !["wifi_state"] = Value(Told1(n), 1, st["wifi_state"])]
    BY ApplyIs, Zenon
  <2>4. /\ Said(st, says) = [st EXCEPT !["wifi_state"] = <<says["wifi_state"]>>]
        /\ Said(st, says) \in Mirrors
    BY <1>1, <1>2, SaidOne
  <2> QED
    BY ONLY <1>1, <2>1, <2>2, <2>4, Zenon
<1> QED
  BY <1>3 DEF Tells, says

LEMMA TellsCover ==
  ASSUME NEW n \in {0, 1}
  PROVE  Tells(9, Told1(n), [cover_open |-> n])
<1> DEFINE says == [cover_open |-> n]
<1>1. DOMAIN says = {"cover_open"} /\ says["cover_open"] = n /\ says["cover_open"] \in Nat
  OBVIOUS
<1>2. "cover_open" \in Attributes
  BY AttributesAre
<1> HIDE DEF says
<1>3. ASSUME NEW st \in Mirrors
      PROVE  Apply(st, 9, Told1(n)) = Said(st, says) /\ Said(st, says) \in Mirrors
  <2>1. Value(Told1(n), 1, st["cover_open"]) = <<n>>
    BY Looked
  <2>2. Apply(st, 9, Told1(n)) =
          [st EXCEPT !["cover_open"] = Truth(Value(Told1(n), 1, st["cover_open"]))]
    BY ApplyIs, Zenon
  <2>3. Truth(<<n>>) = <<n>>
    BY DEF Truth
  <2>4. /\ Said(st, says) = [st EXCEPT !["cover_open"] = <<says["cover_open"]>>]
        /\ Said(st, says) \in Mirrors
    BY <1>1, <1>2, SaidOne
  <2> QED
    BY ONLY <1>1, <2>1, <2>2, <2>3, <2>4, Zenon
<1> QED
  BY <1>3 DEF Tells, says

LEMMA TellsDevice ==
  ASSUME NEW n \in Nat
  PROVE  Tells(16, Told2(n), [active_device_id |-> n])
<1> DEFINE says == [active_device_id |-> n]
<1>1. DOMAIN says = {"active_device_id"} /\ says["active_device_id"] = n /\ says["active_device_id"] \in Nat
  OBVIOUS
<1>2. "active_device_id" \in Attributes
  BY AttributesAre
<1> HIDE DEF says
<1>3. ASSUME NEW st \in Mirrors
      PROVE  Apply(st, 16, Told2(n)) = Said(st, says) /\ Said(st, says) \in Mirrors
  <2>1. \A v : Value(Told2(n), 2, v) = <<n>>
    BY Looked
  <2>2. Apply(st, 16, Told2(n)) =
          [st EXCEPT !["active_device_id"] =
                Value(Told2(n), 2, Value(Told2(n), 1, st["active_device_id"]))]
    BY ApplyIs, Zenon
  <2>4. /\ Said(st, says) = [st EXCEPT !["active_device_id"] = <<says["active_device_id"]>>]
        /\ Said(st, says) \in Mirrors
    BY <1>1, <1>2, SaidOne
  <2> QED
    BY ONLY <1>1, <2>1, <2>2, <2>4, Zenon
<1> QED
  BY <1>3 DEF Tells, says

LEMMA TellsUser ==
  ASSUME NEW n \in Nat, NEW m \in Nat
  PROVE  Tells(100, ToldBoth(m, n), [active_device_id |-> n])
<1> DEFINE says == [active_device_id |-> n]
<1>1. DOMAIN says = {"active_device_id"} /\ says["active_device_id"] = n /\ says["active_device_id"] \in Nat
  OBVIOUS
<1>2. "active_device_id" \in Attributes
  BY AttributesAre
<1> HIDE DEF says
<1>3. ASSUME NEW st \in Mirrors
      PROVE  Apply(st, 100, ToldBoth(m, n)) = Said(st, says) /\ Said(st, says) \in Mirrors
  <2>1. \A v : Value(ToldBoth(m, n), 2, v) = <<n>>
    BY Looked
  <2>2. Apply(st, 100, ToldBoth(m, n)) =
          [st EXCEPT !["active_device_id"] =
                Value(ToldBoth(m, n), 2, Value(ToldBoth(m, n), 1, st["active_device_id"]))]
    BY ApplyIs, Zenon
  <2>4. /\ Said(st, says) = [st EXCEPT !["active_device_id"] = <<says["active_device_id"]>>]
        /\ Said(st, says) \in Mirrors
    BY <1>1, <1>2, SaidOne
  <2> QED
    BY ONLY <1>1, <2>1, <2>2, <2>4, Zenon
<1> QED
  BY <1>3 DEF Tells, says

LEMMA TellsBatteryAlone ==
  ASSUME NEW n \in Nat
  PROVE  Tells(1, Told1(n), [battery_pct |-> n])
<1> DEFINE says == [battery_pct |-> n]
<1>1. DOMAIN says = {"battery_pct"} /\ says["battery_pct"] = n /\ says["battery_pct"] \in Nat
  OBVIOUS
<1>2. "battery_pct" \in Attributes
  BY AttributesAre
<1> HIDE DEF says
<1>3. ASSUME NEW st \in Mirrors
      PROVE  Apply(st, 1, Told1(n)) = Said(st, says) /\ Said(st, says) \in Mirrors
  <2>1. /\ Value(Told1(n), 1, st["battery_pct"]) = <<n>>
        /\ Value(Told1(n), 2, st["charge_state"]) = st["charge_state"]
    BY Looked
  <2>2. Apply(st, 1, Told1(n)) =
          [st EXCEPT !["battery_pct"] = Value(Told1(n), 1, st["battery_pct"]),
                     !["charge_state"] = Value(Told1(n), 2, st["charge_state"])]
    BY ApplyIs, Zenon
  <2>3. [st EXCEPT !["battery_pct"] = <<n>>, !["charge_state"] = st["charge_state"]] = [st EXCEPT !["battery_pct"] = <<n>>]
    <3>1. "charge_state" \in Attributes /\ "battery_pct" # "charge_state"
      BY AttributesAre
    <3> QED
      BY <1>2, <3>1, OtherKept
  <2>4. /\ Said(st, says) = [st EXCEPT !["battery_pct"] = <<says["battery_pct"]>>]
        /\ Said(st, says) \in Mirrors
    BY <1>1, <1>2, SaidOne
  <2> QED
    BY ONLY <1>1, <2>1, <2>2, <2>3, <2>4, Zenon
<1> QED
  BY <1>3 DEF Tells, says

LEMMA TellsStorageAlone ==
  ASSUME NEW n \in Nat
  PROVE  Tells(4, Told2(n), [storage_state |-> n])
<1> DEFINE says == [storage_state |-> n]
<1>1. DOMAIN says = {"storage_state"} /\ says["storage_state"] = n /\ says["storage_state"] \in Nat
  OBVIOUS
<1>2. "storage_state" \in Attributes
  BY AttributesAre
<1> HIDE DEF says
<1>3. ASSUME NEW st \in Mirrors
      PROVE  Apply(st, 4, Told2(n)) = Said(st, says) /\ Said(st, says) \in Mirrors
  <2>1. /\ Value(Told2(n), 2, st["storage_state"]) = <<n>>
        /\ Value(Told2(n), 1, st["storage_level"]) = st["storage_level"]
    BY Looked
  <2>2. Apply(st, 4, Told2(n)) =
          [st EXCEPT !["storage_level"] = Value(Told2(n), 1, st["storage_level"]),
                     !["storage_state"] = Value(Told2(n), 2, st["storage_state"])]
    BY ApplyIs, Zenon
  <2>3. [st EXCEPT !["storage_level"] = st["storage_level"], !["storage_state"] = <<n>>] = [st EXCEPT !["storage_state"] = <<n>>]
    <3>1. "storage_level" \in Attributes /\ "storage_state" # "storage_level"
      BY AttributesAre
    <3> QED
      BY <1>2, <3>1, OtherKept
  <2>4. /\ Said(st, says) = [st EXCEPT !["storage_state"] = <<says["storage_state"]>>]
        /\ Said(st, says) \in Mirrors
    BY <1>1, <1>2, SaidOne
  <2> QED
    BY ONLY <1>1, <2>1, <2>2, <2>3, <2>4, Zenon
<1> QED
  BY <1>3 DEF Tells, says

LEMMA TellsBattery ==
  ASSUME NEW n \in Nat, NEW m \in Nat
  PROVE  Tells(1, ToldBoth(n, m), [battery_pct |-> n, charge_state |-> m])
<1> DEFINE says == [battery_pct |-> n, charge_state |-> m]
<1>1. /\ DOMAIN says = {"battery_pct", "charge_state"} /\ "battery_pct" # "charge_state"
      /\ says["battery_pct"] = n /\ says["battery_pct"] \in Nat
      /\ says["charge_state"] = m /\ says["charge_state"] \in Nat
  OBVIOUS
<1>2. "battery_pct" \in Attributes /\ "charge_state" \in Attributes
  BY AttributesAre
<1> HIDE DEF says
<1>3. ASSUME NEW st \in Mirrors
      PROVE  Apply(st, 1, ToldBoth(n, m)) = Said(st, says) /\ Said(st, says) \in Mirrors
  <2>1. /\ Value(ToldBoth(n, m), 1, st["battery_pct"]) = <<n>>
        /\ Value(ToldBoth(n, m), 2, st["charge_state"]) = <<m>>
    BY Looked
  <2>2. Apply(st, 1, ToldBoth(n, m)) =
          [st EXCEPT !["battery_pct"] = Value(ToldBoth(n, m), 1, st["battery_pct"]),
                     !["charge_state"] = Value(ToldBoth(n, m), 2, st["charge_state"])]
    BY ApplyIs, Zenon
  <2>3. /\ Said(st, says) = [st EXCEPT !["battery_pct"] = <<says["battery_pct"]>>,
                                       !["charge_state"] = <<says["charge_state"]>>]
        /\ Said(st, says) \in Mirrors
    BY <1>1, <1>2, SaidTwo
  <2> QED
    BY ONLY <1>1, <2>1, <2>2, <2>3, Zenon
<1> QED
  BY <1>3 DEF Tells, says

LEMMA TellsStorage ==
  ASSUME NEW n \in Nat, NEW m \in Nat
  PROVE  Tells(4, ToldBoth(n, m), [storage_level |-> n, storage_state |-> m])
<1> DEFINE says == [storage_level |-> n, storage_state |-> m]
<1>1. /\ DOMAIN says = {"storage_level", "storage_state"} /\ "storage_level" # "storage_state"
      /\ says["storage_level"] = n /\ says["storage_level"] \in Nat
      /\ says["storage_state"] = m /\ says["storage_state"] \in Nat
  OBVIOUS
<1>2. "storage_level" \in Attributes /\ "storage_state" \in Attributes
  BY AttributesAre
<1> HIDE DEF says
<1>3. ASSUME NEW st \in Mirrors
      PROVE  Apply(st, 4, ToldBoth(n, m)) = Said(st, says) /\ Said(st, says) \in Mirrors
  <2>1. /\ Value(ToldBoth(n, m), 1, st["storage_level"]) = <<n>>
        /\ Value(ToldBoth(n, m), 2, st["storage_state"]) = <<m>>
    BY Looked
  <2>2. Apply(st, 4, ToldBoth(n, m)) =
          [st EXCEPT !["storage_level"] = Value(ToldBoth(n, m), 1, st["storage_level"]),
                     !["storage_state"] = Value(ToldBoth(n, m), 2, st["storage_state"])]
    BY ApplyIs, Zenon
  <2>3. /\ Said(st, says) = [st EXCEPT !["storage_level"] = <<says["storage_level"]>>,
                                       !["storage_state"] = <<says["storage_state"]>>]
        /\ Said(st, says) \in Mirrors
    BY <1>1, <1>2, SaidTwo
  <2> QED
    BY ONLY <1>1, <2>1, <2>2, <2>3, Zenon
<1> QED
  BY <1>3 DEF Tells, says

LEMMA TellsNothing ==
  ASSUME NEW n \in Nat
  PROVE  Tells(8, Told1(n), << >>)
<1>1. ASSUME NEW st \in Mirrors
      PROVE  Apply(st, 8, Told1(n)) = Said(st, << >>) /\ Said(st, << >>) \in Mirrors
  <2>1. Apply(st, 8, Told1(n)) = st
    BY ApplyIs, Zenon
  <2> QED
    BY <2>1, SaidNone
<1> QED
  BY <1>1 DEF Tells

-----------------------------------------------------------------------------
(* A report's bytes make one entry, and the entry does what the report     *)
(* says.                                                                   *)
Does(blob, says) ==
  \E kind, inner : StateEntries(blob) = << [kind |-> kind, inner |-> inner] >>
                   /\ Tells(kind, inner, says)

IsReport(r) ==
  /\ r.blob \in Seq(Byte) /\ Len(r.blob) \in Nat /\ Len(r.blob) < Word
  /\ Does(r.blob, r.says)

LEMMA ReportDoes ==
  ASSUME NEW kind \in SmallFields, NEW payload \in Seq(Byte), NEW es, NEW says,
         Reads(payload, es), Tells(kind, es, says), Report(kind, payload, says) \in Reports
  PROVE  IsReport(Report(kind, payload, says))
<1> DEFINE r == Report(kind, payload, says)
<1>1. r.blob = PbBytes(kind, payload)
  BY DEF Report
<1>2. Len(PbBytes(kind, payload)) < Word
  BY <1>1, FitAssumption
<1>3. /\ r.says = says /\ r.blob \in Seq(Byte)
      /\ StateEntries(PbBytes(kind, payload)) = << [kind |-> kind, inner |-> es] >>
  BY <1>2, OneReport
<1> HIDE DEF r
<1>4. Len(r.blob) \in Nat
  BY <1>3, LenProperties
<1>5. Does(r.blob, r.says)
  BY <1>1, <1>3, Zenon DEF Does
<1> QED
  BY <1>1, <1>2, <1>3, <1>4, <1>5 DEF IsReport, r

LEMMA SmallNumbers ==
  /\ {1, 2, 3, 4, 5, 8, 9, 10, 13, 16, 100} \subseteq SmallFields
  /\ Numbers \subseteq 0..(Word - 1) /\ {0, 1, 2} \subseteq 0..(Word - 1)
  /\ 1 \in Fields /\ 2 \in Fields /\ 0..(Word - 1) \subseteq Nat
<1>1. ResponseField(RT_DISABLE_TIMEOUTS) = 2049
  BY DEF ResponseField, RT_DISABLE_TIMEOUTS
<1>2. {1, 2, 3, 4, 5, 8, 9, 10, 13, 16, 100} \subseteq SmallFields
  BY <1>1 DEF SmallFields
<1>3. 8 * 2049 + 7 < Word /\ Word \in Nat
  BY <1>1, FitAssumption, WordIs
<1>4. {0, 1, 2} \subseteq 0..(Word - 1) /\ 0..(Word - 1) \subseteq Nat
  BY ONLY <1>3
<1> QED
  BY <1>2, <1>4, FitAssumption, FieldsFit

LEMMA TwoInOne ==
  ASSUME NEW d, NEW e
  PROVE  <<d>> \o <<e>> = <<d, e>>
<1> DEFINE S == {d, e}
           u == <<d>> \o <<e>>
           v == <<d, e>>
<1>1. d \in S /\ e \in S
  OBVIOUS
<1> HIDE DEF S
<1>2. <<d>> \in Seq(S) /\ <<e>> \in Seq(S) /\ v \in Seq(S) /\ Len(v) = 2 /\ v[1] = d /\ v[2] = e
  BY <1>1
<1>3. u \in Seq(S) /\ Len(u) = Len(<<d>>) + Len(<<e>>)
  BY ONLY <1>2, ConcatProperties
<1>4. \A i \in 1..(Len(<<d>>) + Len(<<e>>)) :
        u[i] = IF i <= Len(<<d>>) THEN <<d>>[i] ELSE <<e>>[i - Len(<<d>>)]
  BY ONLY <1>2, ConcatProperties
<1>5. Len(u) = 2 /\ u[1] = d /\ u[2] = e
  <2> HIDE DEF u
  <2>1. Len(<<d>>) = 1 /\ Len(<<e>>) = 1
    OBVIOUS
  <2> QED
    BY <1>3, <1>4, <2>1
<1> HIDE DEF u, v
<1>6. \A i \in 1..Len(u) : u[i] = v[i]
  BY <1>2, <1>5
<1>7. u = v
  BY <1>2, <1>3, <1>5, <1>6, SeqEqual
<1> QED
  BY <1>7 DEF u, v

LEMMA PayloadsRead ==
  ASSUME NEW n \in 0..(Word - 1), NEW m \in 0..(Word - 1)
  PROVE  /\ PbUint(1, n) \in Seq(Byte) /\ Reads(PbUint(1, n), Told1(n))
         /\ PbUint(2, n) \in Seq(Byte) /\ Reads(PbUint(2, n), Told2(n))
         /\ PbUint(1, n) \o PbUint(2, m) \in Seq(Byte)
         /\ Reads(PbUint(1, n) \o PbUint(2, m), ToldBoth(n, m))
<1>1. 1 \in Fields /\ 2 \in Fields
  BY SmallNumbers
<1>2. /\ PbUint(1, n) \in Seq(Byte) /\ Reads(PbUint(1, n), Told1(n))
      /\ PbUint(2, n) \in Seq(Byte) /\ Reads(PbUint(2, n), Told2(n))
      /\ PbUint(2, m) \in Seq(Byte) /\ Reads(PbUint(2, m), Told2(m))
  BY <1>1, UintReads DEF Told1, Told2, Single
<1>3. Reads(PbUint(1, n) \o PbUint(2, m), Told1(n) \o Told2(m))
  BY ONLY <1>2, MessagesJoin
<1>4. Told1(n) \o Told2(m) = ToldBoth(n, m)
  <2> DEFINE d == Entry(1, FALSE, <<n>>)
             e == Entry(2, FALSE, <<m>>)
  <2>1. Told1(n) = <<d>> /\ Told2(m) = <<e>> /\ ToldBoth(n, m) = <<d, e>>
    BY ONLY Zenon DEF Told1, Told2, ToldBoth, Single, Pair
  <2> HIDE DEF d, e
  <2>2. <<d>> \o <<e>> = <<d, e>>
    BY TwoInOne
  <2> QED
    BY ONLY <2>1, <2>2, Zenon
<1>5. PbUint(1, n) \o PbUint(2, m) \in Seq(Byte)
  BY ONLY <1>2, ConcatProperties
<1> QED
  BY <1>2, <1>3, <1>4, <1>5

LEMMA ReportMeans ==
  ASSUME NEW r \in Reports
  PROVE  IsReport(r)
<1>4. (\E n \in Numbers : r \in ReportsOf(n)) \/ r \in CoverReports
  BY DEF Reports
<1>5. r \in CoverReports => \E b \in {0, 1} : r = Report(9, PbUint(1, b), [cover_open |-> b])
  BY ONLY Zenon DEF CoverReports
<1>6. ASSUME NEW n, r \in ReportsOf(n)
      PROVE  \/ r = Report(1, PbUint(1, n), [battery_pct |-> n])
             \/ r = Report(1, PbUint(1, n) \o PbUint(2, 2), [battery_pct |-> n, charge_state |-> 2])
             \/ r = Report(2, PbUint(1, n), [system_state |-> n])
             \/ r = Report(3, PbUint(1, n), [session_uuid |-> n])
             \/ r = Report(4, PbUint(1, n) \o PbUint(2, 1), [storage_level |-> n, storage_state |-> 1])
             \/ r = Report(4, PbUint(2, n), [storage_state |-> n])
             \/ r = Report(5, PbUint(1, n), [session_mode |-> n])
             \/ r = Report(10, PbUint(1, n), [occlusion |-> n])
             \/ r = Report(13, PbUint(1, n), [wifi_state |-> n])
             \/ r = Report(16, PbUint(2, n), [active_device_id |-> n])
             \/ r = Report(100, PbUint(1, 1) \o PbUint(2, n), [active_device_id |-> n])
             \/ r = Report(8, PbUint(1, n), << >>)
  <2>1. r \in ReportsOf(n)
    BY <1>6
  <2> QED
    BY ONLY <2>1, Zenon DEF ReportsOf
<1>1. \/ \E n \in Numbers :
           \/ r = Report(1, PbUint(1, n), [battery_pct |-> n])
           \/ r = Report(1, PbUint(1, n) \o PbUint(2, 2), [battery_pct |-> n, charge_state |-> 2])
           \/ r = Report(2, PbUint(1, n), [system_state |-> n])
           \/ r = Report(3, PbUint(1, n), [session_uuid |-> n])
           \/ r = Report(4, PbUint(1, n) \o PbUint(2, 1), [storage_level |-> n, storage_state |-> 1])
           \/ r = Report(4, PbUint(2, n), [storage_state |-> n])
           \/ r = Report(5, PbUint(1, n), [session_mode |-> n])
           \/ r = Report(10, PbUint(1, n), [occlusion |-> n])
           \/ r = Report(13, PbUint(1, n), [wifi_state |-> n])
           \/ r = Report(16, PbUint(2, n), [active_device_id |-> n])
           \/ r = Report(100, PbUint(1, 1) \o PbUint(2, n), [active_device_id |-> n])
           \/ r = Report(8, PbUint(1, n), << >>)
      \/ \E b \in {0, 1} : r = Report(9, PbUint(1, b), [cover_open |-> b])
  BY ONLY <1>4, <1>5, <1>6, Zenon
<1>2. ASSUME NEW n \in Numbers,
             \/ r = Report(1, PbUint(1, n), [battery_pct |-> n])
             \/ r = Report(1, PbUint(1, n) \o PbUint(2, 2), [battery_pct |-> n, charge_state |-> 2])
             \/ r = Report(2, PbUint(1, n), [system_state |-> n])
             \/ r = Report(3, PbUint(1, n), [session_uuid |-> n])
             \/ r = Report(4, PbUint(1, n) \o PbUint(2, 1), [storage_level |-> n, storage_state |-> 1])
             \/ r = Report(4, PbUint(2, n), [storage_state |-> n])
             \/ r = Report(5, PbUint(1, n), [session_mode |-> n])
             \/ r = Report(10, PbUint(1, n), [occlusion |-> n])
             \/ r = Report(13, PbUint(1, n), [wifi_state |-> n])
             \/ r = Report(16, PbUint(2, n), [active_device_id |-> n])
             \/ r = Report(100, PbUint(1, 1) \o PbUint(2, n), [active_device_id |-> n])
             \/ r = Report(8, PbUint(1, n), << >>)
      PROVE  IsReport(r)
  <2>0. n \in 0..(Word - 1) /\ n \in Nat /\ 1 \in 0..(Word - 1) /\ 2 \in 0..(Word - 1)
    BY SmallNumbers
  <2>1. CASE r = Report(1, PbUint(1, n), [battery_pct |-> n])
    <3>1. Tells(1, Told1(n), [battery_pct |-> n])
      BY <2>0, TellsBatteryAlone
    <3>2. PbUint(1, n) \in Seq(Byte) /\ Reads(PbUint(1, n), Told1(n))
      BY <2>0, PayloadsRead
    <3>3. 1 \in SmallFields
      BY SmallNumbers
    <3> DEFINE payload == PbUint(1, n)
               says == [battery_pct |-> n]
    <3> HIDE DEF payload, says
    <3> QED
      BY <2>1, <3>1, <3>2, <3>3, ReportDoes DEF payload, says
  <2>2. CASE r = Report(1, PbUint(1, n) \o PbUint(2, 2), [battery_pct |-> n, charge_state |-> 2])
    <3>1. Tells(1, ToldBoth(n, 2), [battery_pct |-> n, charge_state |-> 2])
      BY <2>0, TellsBattery
    <3>2. PbUint(1, n) \o PbUint(2, 2) \in Seq(Byte) /\ Reads(PbUint(1, n) \o PbUint(2, 2), ToldBoth(n, 2))
      BY <2>0, PayloadsRead
    <3>3. 1 \in SmallFields
      BY SmallNumbers
    <3> DEFINE payload == PbUint(1, n) \o PbUint(2, 2)
               says == [battery_pct |-> n, charge_state |-> 2]
    <3> HIDE DEF payload, says
    <3> QED
      BY <2>2, <3>1, <3>2, <3>3, ReportDoes DEF payload, says
  <2>3. CASE r = Report(2, PbUint(1, n), [system_state |-> n])
    <3>1. Tells(2, Told1(n), [system_state |-> n])
      BY <2>0, TellsSystem
    <3>2. PbUint(1, n) \in Seq(Byte) /\ Reads(PbUint(1, n), Told1(n))
      BY <2>0, PayloadsRead
    <3>3. 2 \in SmallFields
      BY SmallNumbers
    <3> DEFINE payload == PbUint(1, n)
               says == [system_state |-> n]
    <3> HIDE DEF payload, says
    <3> QED
      BY <2>3, <3>1, <3>2, <3>3, ReportDoes DEF payload, says
  <2>4. CASE r = Report(3, PbUint(1, n), [session_uuid |-> n])
    <3>1. Tells(3, Told1(n), [session_uuid |-> n])
      BY <2>0, TellsSession
    <3>2. PbUint(1, n) \in Seq(Byte) /\ Reads(PbUint(1, n), Told1(n))
      BY <2>0, PayloadsRead
    <3>3. 3 \in SmallFields
      BY SmallNumbers
    <3> DEFINE payload == PbUint(1, n)
               says == [session_uuid |-> n]
    <3> HIDE DEF payload, says
    <3> QED
      BY <2>4, <3>1, <3>2, <3>3, ReportDoes DEF payload, says
  <2>5. CASE r = Report(4, PbUint(1, n) \o PbUint(2, 1), [storage_level |-> n, storage_state |-> 1])
    <3>1. Tells(4, ToldBoth(n, 1), [storage_level |-> n, storage_state |-> 1])
      BY <2>0, TellsStorage
    <3>2. PbUint(1, n) \o PbUint(2, 1) \in Seq(Byte) /\ Reads(PbUint(1, n) \o PbUint(2, 1), ToldBoth(n, 1))
      BY <2>0, PayloadsRead
    <3>3. 4 \in SmallFields
      BY SmallNumbers
    <3> DEFINE payload == PbUint(1, n) \o PbUint(2, 1)
               says == [storage_level |-> n, storage_state |-> 1]
    <3> HIDE DEF payload, says
    <3> QED
      BY <2>5, <3>1, <3>2, <3>3, ReportDoes DEF payload, says
  <2>6. CASE r = Report(4, PbUint(2, n), [storage_state |-> n])
    <3>1. Tells(4, Told2(n), [storage_state |-> n])
      BY <2>0, TellsStorageAlone
    <3>2. PbUint(2, n) \in Seq(Byte) /\ Reads(PbUint(2, n), Told2(n))
      BY <2>0, PayloadsRead
    <3>3. 4 \in SmallFields
      BY SmallNumbers
    <3> DEFINE payload == PbUint(2, n)
               says == [storage_state |-> n]
    <3> HIDE DEF payload, says
    <3> QED
      BY <2>6, <3>1, <3>2, <3>3, ReportDoes DEF payload, says
  <2>7. CASE r = Report(5, PbUint(1, n), [session_mode |-> n])
    <3>1. Tells(5, Told1(n), [session_mode |-> n])
      BY <2>0, TellsMode
    <3>2. PbUint(1, n) \in Seq(Byte) /\ Reads(PbUint(1, n), Told1(n))
      BY <2>0, PayloadsRead
    <3>3. 5 \in SmallFields
      BY SmallNumbers
    <3> DEFINE payload == PbUint(1, n)
               says == [session_mode |-> n]
    <3> HIDE DEF payload, says
    <3> QED
      BY <2>7, <3>1, <3>2, <3>3, ReportDoes DEF payload, says
  <2>8. CASE r = Report(10, PbUint(1, n), [occlusion |-> n])
    <3>1. Tells(10, Told1(n), [occlusion |-> n])
      BY <2>0, TellsOcclusion
    <3>2. PbUint(1, n) \in Seq(Byte) /\ Reads(PbUint(1, n), Told1(n))
      BY <2>0, PayloadsRead
    <3>3. 10 \in SmallFields
      BY SmallNumbers
    <3> DEFINE payload == PbUint(1, n)
               says == [occlusion |-> n]
    <3> HIDE DEF payload, says
    <3> QED
      BY <2>8, <3>1, <3>2, <3>3, ReportDoes DEF payload, says
  <2>9. CASE r = Report(13, PbUint(1, n), [wifi_state |-> n])
    <3>1. Tells(13, Told1(n), [wifi_state |-> n])
      BY <2>0, TellsWifi
    <3>2. PbUint(1, n) \in Seq(Byte) /\ Reads(PbUint(1, n), Told1(n))
      BY <2>0, PayloadsRead
    <3>3. 13 \in SmallFields
      BY SmallNumbers
    <3> DEFINE payload == PbUint(1, n)
               says == [wifi_state |-> n]
    <3> HIDE DEF payload, says
    <3> QED
      BY <2>9, <3>1, <3>2, <3>3, ReportDoes DEF payload, says
  <2>10. CASE r = Report(16, PbUint(2, n), [active_device_id |-> n])
    <3>1. Tells(16, Told2(n), [active_device_id |-> n])
      BY <2>0, TellsDevice
    <3>2. PbUint(2, n) \in Seq(Byte) /\ Reads(PbUint(2, n), Told2(n))
      BY <2>0, PayloadsRead
    <3>3. 16 \in SmallFields
      BY SmallNumbers
    <3> DEFINE payload == PbUint(2, n)
               says == [active_device_id |-> n]
    <3> HIDE DEF payload, says
    <3> QED
      BY <2>10, <3>1, <3>2, <3>3, ReportDoes DEF payload, says
  <2>11. CASE r = Report(100, PbUint(1, 1) \o PbUint(2, n), [active_device_id |-> n])
    <3>1. Tells(100, ToldBoth(1, n), [active_device_id |-> n])
      BY <2>0, TellsUser
    <3>2. PbUint(1, 1) \o PbUint(2, n) \in Seq(Byte) /\ Reads(PbUint(1, 1) \o PbUint(2, n), ToldBoth(1, n))
      BY <2>0, PayloadsRead
    <3>3. 100 \in SmallFields
      BY SmallNumbers
    <3> DEFINE payload == PbUint(1, 1) \o PbUint(2, n)
               says == [active_device_id |-> n]
    <3> HIDE DEF payload, says
    <3> QED
      BY <2>11, <3>1, <3>2, <3>3, ReportDoes DEF payload, says
  <2>12. CASE r = Report(8, PbUint(1, n), << >>)
    <3>1. Tells(8, Told1(n), << >>)
      BY <2>0, TellsNothing
    <3>2. PbUint(1, n) \in Seq(Byte) /\ Reads(PbUint(1, n), Told1(n))
      BY <2>0, PayloadsRead
    <3>3. 8 \in SmallFields
      BY SmallNumbers
    <3> DEFINE payload == PbUint(1, n)
               says == << >>
    <3> HIDE DEF payload, says
    <3> QED
      BY <2>12, <3>1, <3>2, <3>3, ReportDoes DEF payload, says
  <2> QED
    BY <1>2, <2>1, <2>2, <2>3, <2>4, <2>5, <2>6, <2>7, <2>8, <2>9, <2>10, <2>11, <2>12
<1>3. ASSUME NEW b \in {0, 1}, r = Report(9, PbUint(1, b), [cover_open |-> b])
      PROVE  IsReport(r)
  <2>1. Tells(9, Told1(b), [cover_open |-> b])
    BY TellsCover
  <2>2. PbUint(1, b) \in Seq(Byte) /\ Reads(PbUint(1, b), Told1(b)) /\ 9 \in SmallFields
    BY PayloadsRead, SmallNumbers
  <2> QED
    BY <1>3, <2>1, <2>2, ReportDoes
<1> QED
  BY <1>1, <1>2, <1>3

-----------------------------------------------------------------------------
(* Entries one after the other do what reports one after the other say.    *)
LEMMA SaysIsSaid ==
  ASSUME NEW st \in Mirrors, NEW r
  PROVE  Says(st, r) = Said(st, r.says)
<1>1. DOMAIN st = Attributes
  BY DEF Mirrors
<1> QED
  BY <1>1 DEF Says, Said

LEMMA ReportSays ==
  ASSUME NEW st \in Mirrors, NEW r \in Reports
  PROVE  Says(st, r) \in Mirrors
<1>1. IsReport(r)
  BY ReportMeans
<1>2. Does(r.blob, r.says)
  BY <1>1 DEF IsReport
<1>3. PICK kind, inner : Tells(kind, inner, r.says)
  BY <1>2 DEF Does
<1> QED
  BY <1>3, SaysIsSaid DEF Tells

HeardFrom(known, reports) ==
  LET after[n \in 0..Len(reports)] ==
        IF n = 0 THEN known ELSE Says(after[n - 1], reports[n])
  IN after

HeardRule(known, reports, H) ==
  \A n \in 0..Len(reports) : H[n] = IF n = 0 THEN known ELSE Says(H[n - 1], reports[n])

LEMMA HeardDef ==
  ASSUME NEW known \in Mirrors, NEW reports \in Seq(Reports)
  PROVE  /\ HeardFrom(known, reports) \in [0..Len(reports) -> Mirrors]
         /\ HeardRule(known, reports, HeardFrom(known, reports))
<1> DEFINE V == Mirrors
           Rule(n, f) == IF n = 0 THEN known ELSE Says(f[n - 1], reports[n])
           body == [p \in (0..Len(reports)) \X [(0..Len(reports)) -> V] |-> Rule(p[1], p[2])]
           rank == [n \in 0..Len(reports) |-> n]
<1>0. rank \in [(0..Len(reports)) -> Nat]
  OBVIOUS
<1>1. ASSUME NEW n \in (0..Len(reports)), NEW f \in [(0..Len(reports)) -> V] PROVE Rule(n, f) \in V
  <2>0. Len(reports) \in Nat
    BY LenProperties
  <2>1. n # 0 => n \in 1..Len(reports) /\ n - 1 \in 0..Len(reports)
    BY <2>0
  <2>2. n # 0 => reports[n] \in Reports /\ f[n - 1] \in Mirrors
    BY <2>1, ElementOfSeq
  <2> QED
    BY <2>2, ReportSays
<1>2. ASSUME NEW n \in (0..Len(reports)), NEW g, NEW h,
             \A m \in (0..Len(reports)) : rank[m] < rank[n] => g[m] = h[m]
      PROVE  Rule(n, g) = Rule(n, h)
  <2>1. n # 0 => n - 1 \in 0..Len(reports) /\ rank[n - 1] < rank[n]
    BY LenProperties
  <2> QED
    BY <1>2, <2>1
<1> HIDE DEF Rule, rank
<1>3. body \in [(0..Len(reports)) \X [(0..Len(reports)) -> V] -> V]
  BY <1>1
<1>4. LooksDown((0..Len(reports)), V, rank, body)
  <2>1. ASSUME NEW n \in (0..Len(reports)), NEW g \in [(0..Len(reports)) -> V], NEW h \in [(0..Len(reports)) -> V],
               \A m \in (0..Len(reports)) : rank[m] < rank[n] => g[m] = h[m]
        PROVE  body[<<n, g>>] = body[<<n, h>>]
    <3>1. Rule(n, g) = Rule(n, h)
      BY <1>2, <2>1
    <3> QED
      BY <3>1
  <2> HIDE DEF body, V
  <2> QED
    BY <2>1 DEF LooksDown
<1>5. PICK f \in [(0..Len(reports)) -> V] : Solves(f, (0..Len(reports)), body)
  <2>1. V # {}
    BY DEF Mirrors
  <2> HIDE DEF body, V
  <2> QED
    BY <1>0, <1>3, <1>4, <2>1, Recursion
<1>6. f = [n \in (0..Len(reports)) |-> Rule(n, f)]
  BY <1>5 DEF Solves
<1>7. HeardFrom(known, reports) = [n \in (0..Len(reports)) |-> Rule(n, HeardFrom(known, reports))]
  BY <1>6 DEF HeardFrom, Rule
<1>8. HeardFrom(known, reports) = f
  <2> DEFINE F == HeardFrom(known, reports)
  <2>1. F = [n \in (0..Len(reports)) |-> Rule(n, F)]
    BY <1>7
  <2> HIDE DEF F, V, body
  <2>2. ASSUME NEW n \in (0..Len(reports)), \A m \in (0..Len(reports)) : rank[m] < rank[n] => F[m] = f[m]
        PROVE  F[n] = f[n]
    <3>1. Rule(n, F) = Rule(n, f)
      BY <1>2, <2>2
    <3> QED
      BY <1>6, <2>1, <3>1
  <2> DEFINE T == (0..Len(reports))
  <2>3. Follows(F, f, T, rank) /\ rank \in [T -> Nat]
    BY <1>0, <2>2 DEF Follows
  <2> HIDE DEF T
  <2>4. \A n \in T : F[n] = f[n]
    BY <2>3, SameSolution
  <2>5. F = f
    BY <1>6, <2>1, <2>4 DEF T
  <2> QED
    BY <2>5 DEF F
<1> QED
  BY <1>7, <1>8 DEF Rule, HeardRule

AppliedFrom(st, entries) ==
  LET after[n \in 0..Len(entries)] ==
        IF n = 0 THEN st ELSE Apply(after[n - 1], entries[n].kind, entries[n].inner)
  IN after

AppliedRule(st, entries, A) ==
  \A n \in 0..Len(entries) :
    A[n] = IF n = 0 THEN st ELSE Apply(A[n - 1], entries[n].kind, entries[n].inner)

(* Every entry takes a mirror to a mirror.                                 *)
Keeping(entries) ==
  \A n \in 1..Len(entries) : \A v \in Mirrors : Apply(v, entries[n].kind, entries[n].inner) \in Mirrors

LEMMA AppliedDef ==
  ASSUME NEW st \in Mirrors, NEW entries, Len(entries) \in Nat, Keeping(entries)
  PROVE  /\ AppliedFrom(st, entries) \in [0..Len(entries) -> Mirrors]
         /\ AppliedRule(st, entries, AppliedFrom(st, entries))
<1> DEFINE V == Mirrors
           Rule(n, f) == IF n = 0 THEN st ELSE Apply(f[n - 1], entries[n].kind, entries[n].inner)
           body == [p \in (0..Len(entries)) \X [(0..Len(entries)) -> V] |-> Rule(p[1], p[2])]
           rank == [n \in 0..Len(entries) |-> n]
<1>0. rank \in [(0..Len(entries)) -> Nat]
  OBVIOUS
<1>1. ASSUME NEW n \in (0..Len(entries)), NEW f \in [(0..Len(entries)) -> V] PROVE Rule(n, f) \in V
  <2>1. n # 0 => n \in 1..Len(entries) /\ n - 1 \in 0..Len(entries)
    OBVIOUS
  <2>2. n # 0 => f[n - 1] \in Mirrors
    BY <2>1
  <2> QED
    BY <2>1, <2>2 DEF Keeping
<1>2. ASSUME NEW n \in (0..Len(entries)), NEW g, NEW h,
             \A m \in (0..Len(entries)) : rank[m] < rank[n] => g[m] = h[m]
      PROVE  Rule(n, g) = Rule(n, h)
  <2>1. n # 0 => n - 1 \in 0..Len(entries) /\ rank[n - 1] < rank[n]
    OBVIOUS
  <2> QED
    BY <1>2, <2>1
<1> HIDE DEF Rule, rank
<1>3. body \in [(0..Len(entries)) \X [(0..Len(entries)) -> V] -> V]
  BY <1>1
<1>4. LooksDown((0..Len(entries)), V, rank, body)
  <2>1. ASSUME NEW n \in (0..Len(entries)), NEW g \in [(0..Len(entries)) -> V], NEW h \in [(0..Len(entries)) -> V],
               \A m \in (0..Len(entries)) : rank[m] < rank[n] => g[m] = h[m]
        PROVE  body[<<n, g>>] = body[<<n, h>>]
    <3>1. Rule(n, g) = Rule(n, h)
      BY <1>2, <2>1
    <3> QED
      BY <3>1
  <2> HIDE DEF body, V
  <2> QED
    BY <2>1 DEF LooksDown
<1>5. PICK f \in [(0..Len(entries)) -> V] : Solves(f, (0..Len(entries)), body)
  <2>1. V # {}
    BY DEF Mirrors
  <2> HIDE DEF body, V
  <2> QED
    BY <1>0, <1>3, <1>4, <2>1, Recursion
<1>6. f = [n \in (0..Len(entries)) |-> Rule(n, f)]
  BY <1>5 DEF Solves
<1>7. AppliedFrom(st, entries) = [n \in (0..Len(entries)) |-> Rule(n, AppliedFrom(st, entries))]
  BY <1>6 DEF AppliedFrom, Rule
<1>8. AppliedFrom(st, entries) = f
  <2> DEFINE F == AppliedFrom(st, entries)
  <2>1. F = [n \in (0..Len(entries)) |-> Rule(n, F)]
    BY <1>7
  <2> HIDE DEF F, V, body
  <2>2. ASSUME NEW n \in (0..Len(entries)), \A m \in (0..Len(entries)) : rank[m] < rank[n] => F[m] = f[m]
        PROVE  F[n] = f[n]
    <3>1. Rule(n, F) = Rule(n, f)
      BY <1>2, <2>2
    <3> QED
      BY <1>6, <2>1, <3>1
  <2> DEFINE T == (0..Len(entries))
  <2>3. Follows(F, f, T, rank) /\ rank \in [T -> Nat]
    BY <1>0, <2>2 DEF Follows
  <2> HIDE DEF T
  <2>4. \A n \in T : F[n] = f[n]
    BY <2>3, SameSolution
  <2>5. F = f
    BY <1>6, <2>1, <2>4 DEF T
  <2> QED
    BY <2>5 DEF F
<1> QED
  BY <1>7, <1>8 DEF Rule, AppliedRule

Alike(entries, reports) ==
  /\ Len(entries) = Len(reports)
  /\ \A n \in 1..Len(reports) : \A v \in Mirrors :
       Apply(v, entries[n].kind, entries[n].inner) = Says(v, reports[n])

LEMMA AppliedIsHeard ==
  ASSUME NEW st \in Mirrors, NEW reports \in Seq(Reports), NEW entries, Alike(entries, reports)
  PROVE  Applied(st, entries) = Heard(st, reports) /\ Heard(st, reports) \in Mirrors
<1> DEFINE L == Len(reports)
           A == AppliedFrom(st, entries)
           H == HeardFrom(st, reports)
           P == {n \in Nat : n \in 0..L => A[n] = H[n]}
<1>1. L \in Nat /\ Len(entries) = L /\ \A n \in 1..L : reports[n] \in Reports
  BY LenProperties, ElementOfSeq DEF Alike
<1>2. Keeping(entries)
  BY <1>1, ReportSays DEF Keeping, Alike
<1>3. H \in [0..L -> Mirrors] /\ HeardRule(st, reports, H)
  BY HeardDef
<1>4. A \in [0..L -> Mirrors] /\ AppliedRule(st, entries, A)
  BY <1>1, <1>2, AppliedDef
<1>5. Applied(st, entries) = A[L] /\ Heard(st, reports) = H[L]
  BY <1>1 DEF Applied, AppliedFrom, Heard, HeardFrom
<1> HIDE DEF A, H
<1>6. \A n \in 0..L : /\ H[n] = IF n = 0 THEN st ELSE Says(H[n - 1], reports[n])
                      /\ A[n] = IF n = 0 THEN st ELSE Apply(A[n - 1], entries[n].kind, entries[n].inner)
  BY <1>1, <1>3, <1>4 DEF HeardRule, AppliedRule
<1> HIDE DEF L
<1>7. 0 \in P
  BY <1>1, <1>6
<1>8. ASSUME NEW n \in P PROVE n + 1 \in P
  <2> SUFFICES ASSUME n + 1 \in 0..L PROVE A[n + 1] = H[n + 1]
    OBVIOUS
  <2>1. n \in Nat /\ n \in 0..L /\ n + 1 # 0 /\ (n + 1) - 1 = n /\ n + 1 \in 1..L
    BY <1>1
  <2>2. A[n] = H[n] /\ H[n] \in Mirrors
    BY <1>3, <2>1
  <2>3. H[n + 1] = Says(H[n], reports[n + 1])
    BY <1>6, <2>1
  <2>4. A[n + 1] = Apply(A[n], entries[n + 1].kind, entries[n + 1].inner)
    BY <1>6, <2>1
  <2>5. Apply(H[n], entries[n + 1].kind, entries[n + 1].inner) = Says(H[n], reports[n + 1])
    BY <1>1, <2>1, <2>2 DEF Alike, L
  <2> QED
    BY ONLY <2>2, <2>3, <2>4, <2>5
<1>9. P = Nat
  <2>1. P \in SUBSET Nat
    OBVIOUS
  <2> HIDE DEF P
  <2> QED
    BY <1>7, <1>8, <2>1, Induction
<1>10. L \in 0..L /\ L \in P
  BY <1>1, <1>9
<1>11. A[L] = H[L] /\ H[L] \in Mirrors
  BY <1>3, <1>10
<1> QED
  BY <1>5, <1>11

-----------------------------------------------------------------------------
(* What a message of the camera's reads as.                                *)
BlobEntries(reports) == [i \in 1..Len(reports) |-> Entry(1, TRUE, reports[i].blob)]

AnswerEntries(a) ==
  IF a = NoAnswer THEN << >>
  ELSE <<Entry(ResponseField(a.type), TRUE, a.body), Entry(SEQ_ECHO_FIELD, FALSE, <<a.seq>>)>>

Shown(a, reports) == BlobEntries(reports) \o AnswerEntries(a)

LEMMA TypesSmall ==
  \A t \in SentTypes : t \in Nat /\ t \in SmallFields /\ ResponseField(t) = t + 1
                       /\ ResponseField(t) \in SmallFields /\ t \notin {0, 38, 39}
<1>1. ResponseField(RT_DISABLE_TIMEOUTS) = 2049
  BY DEF ResponseField, RT_DISABLE_TIMEOUTS
<1>2. \A t \in SentTypes : t \in 1..2048 /\ t \notin {38, 39}
  BY DEF SentTypes, RT_PRIVATE_QUERY, RT_KEEP_ALIVE, RT_SET_UPDATE_REQUIRED, RT_INITIATE_WIFI,
     RT_CANCEL_WIFI, RT_LIST_SESSIONS, RT_LIST_MOMENTS, RT_DELETE_MOMENTS,
     RT_COMPLETE_SESSION, RT_CAPTURE_PREVIEW, RT_CANCEL_CAPTURE_PREVIEW,
     RT_SET_COVER, RT_FLASH_IDENTIFY_LEDS, RT_SHUTTER, RT_MOVE_TO_TRASH,
     RT_RESTORE_FROM_TRASH, RT_ACTIVE_USER, RT_DISABLE_TIMEOUTS
<1>3. \A t \in 1..2048 : t \in Nat /\ t # 0 /\ t <= 2049 /\ t + 1 \in Nat \ {0} /\ t + 1 <= 2049
  OBVIOUS
<1>4. \A t \in SentTypes : ResponseField(t) = t + 1
  BY DEF ResponseField
<1>5. ASSUME NEW t \in SentTypes
      PROVE  /\ t \in Nat /\ t \in SmallFields /\ ResponseField(t) = t + 1
             /\ ResponseField(t) \in SmallFields /\ t \notin {0, 38, 39}
  <2>1. /\ t \in Nat /\ t # 0 /\ t <= 2049 /\ t + 1 \in Nat \ {0} /\ t + 1 <= 2049
        /\ t \notin {38, 39} /\ ResponseField(t) = t + 1
    <3>1. t \in 1..2048 /\ t \notin {38, 39} /\ ResponseField(t) = t + 1
      BY <1>2, <1>4
    <3> QED
      BY ONLY <3>1
  <2>2. t \in SmallFields /\ t + 1 \in SmallFields
    BY <1>1, <2>1 DEF SmallFields
  <2> QED
    BY <2>1, <2>2
<1> QED
  BY <1>5

IsAnswer(a) ==
  /\ a.type \in SentTypes /\ a.seq \in 0..(Word - 1)
  /\ a.body \in Seq(Byte) /\ Len(a.body) < Word

LEMMA AnswerIsOne ==
  ASSUME NEW a, IsAnswer(a)
  PROVE  a # NoAnswer
<1>1. a.type # 0
  BY TypesSmall DEF IsAnswer
<1> QED
  BY <1>1 DEF NoAnswer

LEMMA BlobsRead ==
  ASSUME NEW reports \in Seq(Reports)
  PROVE  /\ FlattenSeq([i \in DOMAIN reports |-> PbBytes(1, reports[i].blob)]) \in Seq(Byte)
         /\ Reads(FlattenSeq([i \in DOMAIN reports |-> PbBytes(1, reports[i].blob)]), BlobEntries(reports))
<1> DEFINE n == Len(reports)
           seqs == [i \in 1..n |-> PbBytes(1, reports[i].blob)]
           es == BlobEntries(reports)
<1>1. n \in Nat /\ DOMAIN reports = 1..n /\ \A i \in 1..n : reports[i] \in Reports
  BY LenProperties, ElementOfSeq
<1> HIDE DEF n
<1>2. ASSUME NEW i \in 1..n
      PROVE  /\ seqs[i] = PbBytes(1, reports[i].blob) /\ es[i] = Entry(1, TRUE, reports[i].blob)
             /\ seqs[i] \in Seq(Byte) /\ Reads(seqs[i], <<es[i]>>)
  <2>1. seqs[i] = PbBytes(1, reports[i].blob) /\ es[i] = Entry(1, TRUE, reports[i].blob)
    BY DEF BlobEntries, n
  <2>2. IsReport(reports[i])
    BY <1>1, ReportMeans
  <2>3. reports[i].blob \in Seq(Byte) /\ Len(reports[i].blob) < Word /\ 1 \in Fields
    BY <2>2, SmallNumbers DEF IsReport
  <2>4. /\ PbBytes(1, reports[i].blob) \in Seq(Byte)
        /\ Reads(PbBytes(1, reports[i].blob), <<Entry(1, TRUE, reports[i].blob)>>)
    BY ONLY <2>3, BytesReads
  <2> QED
    BY ONLY <2>1, <2>4, Zenon
<1>3. seqs \in Seq(Seq(Byte)) /\ Len(seqs) = n
  <2>1. \A i \in 1..n : seqs[i] \in Seq(Byte)
    BY <1>2
  <2>2. DOMAIN seqs = 1..n /\ seqs = [i \in 1..n |-> seqs[i]]
    OBVIOUS
  <2> HIDE DEF seqs
  <2>3. seqs \in [1..n -> Seq(Byte)]
    BY <2>1, <2>2
  <2> QED
    BY <1>1, <2>2, <2>3
<1>4. es = [i \in 1..n |-> es[i]]
  BY DEF BlobEntries, n
<1>5. \A i \in 1..n : Reads(seqs[i], <<es[i]>>)
  BY <1>2
<1>6. [i \in DOMAIN reports |-> PbBytes(1, reports[i].blob)] = seqs
  BY <1>1
<1> HIDE DEF seqs, es
<1>7. es = [i \in 1..Len(seqs) |-> es[i]] /\ \A i \in 1..Len(seqs) : Reads(seqs[i], <<es[i]>>)
  BY <1>3, <1>4, <1>5
<1>8. FlattenSeq(seqs) \in Seq(Byte) /\ Reads(FlattenSeq(seqs), es)
  BY ONLY <1>3, <1>7, FlattenReads
<1> QED
  BY <1>6, <1>8 DEF es

LEMMA AnswerReads ==
  ASSUME NEW a, IsAnswer(a)
  PROVE  /\ PbBytes(ResponseField(a.type), a.body) \o PbUint(SEQ_ECHO_FIELD, a.seq) \in Seq(Byte)
         /\ Reads(PbBytes(ResponseField(a.type), a.body) \o PbUint(SEQ_ECHO_FIELD, a.seq),
                  AnswerEntries(a))
<1> DEFINE s == PbBytes(ResponseField(a.type), a.body)
           t == PbUint(SEQ_ECHO_FIELD, a.seq)
           d == Entry(ResponseField(a.type), TRUE, a.body)
           e == Entry(SEQ_ECHO_FIELD, FALSE, <<a.seq>>)
<1>1. ResponseField(a.type) \in Fields
  BY TypesSmall, FieldsFit DEF IsAnswer
<1>2. SEQ_ECHO_FIELD \in Fields
  <2>1. SEQ_ECHO_FIELD = 40 /\ ResponseField(RT_DISABLE_TIMEOUTS) = 2049
    BY DEF SEQ_ECHO_FIELD, ResponseField, RT_DISABLE_TIMEOUTS
  <2>2. SEQ_ECHO_FIELD \in SmallFields
    BY <2>1 DEF SmallFields
  <2> QED
    BY <2>2, FieldsFit
<1>3. s \in Seq(Byte) /\ Reads(s, <<d>>)
  BY <1>1, BytesReads DEF IsAnswer
<1>4. t \in Seq(Byte) /\ Reads(t, <<e>>)
  BY <1>2, UintReads DEF IsAnswer
<1>5. AnswerEntries(a) = <<d, e>>
  BY AnswerIsOne DEF AnswerEntries
<1> HIDE DEF s, t, d, e
<1>6. Reads(s \o t, <<d>> \o <<e>>) /\ s \o t \in Seq(Byte)
  BY ONLY <1>3, <1>4, MessagesJoin, ConcatProperties
<1> QED
  BY <1>5, <1>6, TwoInOne DEF s, t

LEMMA OuterReads ==
  ASSUME NEW a, a = NoAnswer \/ IsAnswer(a), NEW reports \in Seq(Reports)
  PROVE  Outer(a, reports) \in Seq(Byte) /\ Reads(Outer(a, reports), Shown(a, reports))
<1> DEFINE front == FlattenSeq([i \in DOMAIN reports |-> PbBytes(1, reports[i].blob)])
           back == IF a = NoAnswer THEN << >>
                   ELSE PbBytes(ResponseField(a.type), a.body) \o PbUint(SEQ_ECHO_FIELD, a.seq)
<1>1. front \in Seq(Byte) /\ Reads(front, BlobEntries(reports))
  BY BlobsRead
<1>2. back \in Seq(Byte) /\ Reads(back, AnswerEntries(a))
  <2>1. CASE a = NoAnswer
    BY <2>1, NothingReads DEF AnswerEntries
  <2>2. CASE IsAnswer(a)
    BY <2>2, AnswerReads, AnswerIsOne
  <2> QED
    BY <2>1, <2>2
<1>3. Outer(a, reports) = front \o back
  BY DEF Outer
<1> HIDE DEF front, back
<1>4. Reads(front \o back, BlobEntries(reports) \o AnswerEntries(a)) /\ front \o back \in Seq(Byte)
  BY ONLY <1>1, <1>2, MessagesJoin, ConcatProperties
<1> QED
  BY <1>3, <1>4 DEF Shown

(* What is received is what was shown.                                     *)
LEMMA ReceivedIsShown ==
  ASSUME NEW a, a = NoAnswer \/ IsAnswer(a), NEW reports \in Seq(Reports),
         Len(Outer(a, reports)) < Word
  PROVE  ParsePb(StripBqs(BqsFrame(Outer(a, reports)))) = <<Shown(a, reports)>>
<1>1. Outer(a, reports) \in Seq(Byte) /\ Reads(Outer(a, reports), Shown(a, reports))
  BY OuterReads
<1>2. FrameIsTaken(Outer(a, reports))
  BY <1>1, FramesAreTaken
<1>3. StripBqs(BqsFrame(Outer(a, reports))) = Outer(a, reports)
  BY <1>2 DEF FrameIsTaken
<1> QED
  BY <1>1, <1>3 DEF Reads

(* The entries of what is shown, one by one.                               *)
ShownParts(s, a, reports) ==
  /\ Len(s) = Len(reports) + (IF a = NoAnswer THEN 0 ELSE 2)
  /\ \A i \in 1..Len(reports) : s[i] = Entry(1, TRUE, reports[i].blob)
  /\ a # NoAnswer =>
       /\ s[Len(reports) + 1] = Entry(ResponseField(a.type), TRUE, a.body)
       /\ s[Len(reports) + 2] = Entry(SEQ_ECHO_FIELD, FALSE, <<a.seq>>)

Pieces(a, reports) ==
  {Entry(1, TRUE, reports[i].blob) : i \in 1..Len(reports)}
    \cup {Entry(ResponseField(a.type), TRUE, a.body), Entry(SEQ_ECHO_FIELD, FALSE, <<a.seq>>)}

LEMMA ShownIs ==
  ASSUME NEW a, NEW reports \in Seq(Reports)
  PROVE  /\ Shown(a, reports) \in Seq(Pieces(a, reports))
         /\ ShownParts(Shown(a, reports), a, reports)
         /\ BlobEntries(reports) \in Seq(Pieces(a, reports)) /\ Len(BlobEntries(reports)) = Len(reports)
<1> DEFINE n == Len(reports)
           d == Entry(ResponseField(a.type), TRUE, a.body)
           e == Entry(SEQ_ECHO_FIELD, FALSE, <<a.seq>>)
           S == Pieces(a, reports)
           b == BlobEntries(reports)
           c == AnswerEntries(a)
           s == Shown(a, reports)
<1>1. n \in Nat
  BY LenProperties
<1>2. d \in S /\ e \in S /\ \A i \in 1..n : Entry(1, TRUE, reports[i].blob) \in S
  BY DEF Pieces
<1>3. c = IF a = NoAnswer THEN << >> ELSE <<d, e>>
  BY DEF AnswerEntries
<1>4. b = [i \in 1..n |-> Entry(1, TRUE, reports[i].blob)] /\ s = b \o c
  BY DEF BlobEntries, Shown
<1> HIDE DEF d, e, S, b, c, s
<1>5. c \in Seq(S) /\ Len(c) = IF a = NoAnswer THEN 0 ELSE 2
  <2>1. CASE a = NoAnswer
    BY <1>3, <2>1, EmptySeq
  <2>2. CASE a # NoAnswer
    BY <1>2, <1>3, <2>2
  <2> QED
    BY <2>1, <2>2
<1>6. b \in Seq(S) /\ Len(b) = n /\ \A i \in 1..n : b[i] = Entry(1, TRUE, reports[i].blob)
  <2> HIDE DEF n
  <2>1. \A i \in 1..n : b[i] = Entry(1, TRUE, reports[i].blob)
    BY ONLY <1>4, Zenon
  <2>2. \A i \in 1..n : b[i] \in S
    BY ONLY <1>2, <2>1
  <2>3. b = [i \in 1..n |-> b[i]]
    BY ONLY <1>4, <2>1
  <2>4. b \in [1..n -> S]
    BY ONLY <2>2, <2>3
  <2>5. b \in Seq(S) /\ Len(b) = n
    BY ONLY <1>1, <2>4
  <2> QED
    BY <2>1, <2>5
<1>7. /\ s \in Seq(S) /\ Len(s) = n + Len(c)
      /\ \A i \in 1..(n + Len(c)) : s[i] = IF i <= n THEN b[i] ELSE c[i - n]
  <2>1. /\ b \o c \in Seq(S) /\ Len(b \o c) = Len(b) + Len(c)
        /\ \A i \in 1..(Len(b) + Len(c)) : (b \o c)[i] = IF i <= Len(b) THEN b[i] ELSE c[i - Len(b)]
    <3>1. b \in Seq(S) /\ c \in Seq(S)
      BY <1>5, <1>6
    <3> QED
      BY ONLY <3>1, ConcatProperties
  <2> HIDE DEF n
  <2> QED
    BY <1>4, <1>6, <2>1
<1> HIDE DEF n
<1>8. ASSUME NEW i \in 1..n PROVE s[i] = Entry(1, TRUE, reports[i].blob)
  <2>1. i \in 1..(n + Len(c)) /\ i <= n
    BY <1>1, <1>5
  <2> QED
    BY <1>6, <1>7, <2>1
<1>9. ASSUME a # NoAnswer PROVE s[n + 1] = d /\ s[n + 2] = e
  <2>1. /\ Len(c) = 2 /\ c[1] = d /\ c[2] = e
    BY <1>3, <1>9
  <2>2. /\ n + 1 \in 1..(n + 2) /\ ~(n + 1 <= n) /\ (n + 1) - n = 1
        /\ n + 2 \in 1..(n + 2) /\ ~(n + 2 <= n) /\ (n + 2) - n = 2
    BY ONLY <1>1
  <2>3. s[n + 1] = c[(n + 1) - n] /\ s[n + 2] = c[(n + 2) - n]
    BY <1>7, <2>1, <2>2
  <2> QED
    BY <2>1, <2>2, <2>3
<1>10. ShownParts(s, a, reports)
  BY <1>5, <1>7, <1>8, <1>9 DEF ShownParts, n, d, e
<1> QED
  BY <1>6, <1>7, <1>10 DEF n, s, b, S

LEMMA FieldsShown ==
  ASSUME NEW a, NEW reports \in Seq(Reports), NEW f
  PROVE  f \in FieldsOf(Shown(a, reports)) <=>
           \/ f = 1 /\ Len(reports) > 0
           \/ a # NoAnswer /\ f \in {ResponseField(a.type), SEQ_ECHO_FIELD}
<1> DEFINE n == Len(reports)
           s == Shown(a, reports)
           S == Pieces(a, reports)
<1>1. /\ s \in Seq(S) /\ ShownParts(s, a, reports) /\ n \in Nat
  BY ShownIs, LenProperties
<1> HIDE DEF s, S
<1>2. DOMAIN s = 1..Len(s) /\ Len(s) = n + (IF a = NoAnswer THEN 0 ELSE 2)
  BY <1>1, LenProperties DEF ShownParts
<1>3. f \in FieldsOf(s) <=> \E i \in 1..Len(s) : s[i].field = f
  BY <1>2 DEF FieldsOf, ToSet
<1>4. \A i \in 1..n : s[i].field = 1
  <2> TAKE i \in 1..n
  <2>1. s[i] = Entry(1, TRUE, reports[i].blob)
    BY <1>1 DEF ShownParts
  <2>2. Entry(1, TRUE, reports[i].blob).field = 1
    BY DEF Entry
  <2> QED
    BY ONLY <2>1, <2>2
<1>5. a # NoAnswer => s[n + 1].field = ResponseField(a.type) /\ s[n + 2].field = SEQ_ECHO_FIELD
  <2>1. a # NoAnswer =>
          /\ s[n + 1] = Entry(ResponseField(a.type), TRUE, a.body)
          /\ s[n + 2] = Entry(SEQ_ECHO_FIELD, FALSE, <<a.seq>>)
    BY <1>1 DEF ShownParts
  <2>2. /\ Entry(ResponseField(a.type), TRUE, a.body).field = ResponseField(a.type)
        /\ Entry(SEQ_ECHO_FIELD, FALSE, <<a.seq>>).field = SEQ_ECHO_FIELD
    BY DEF Entry
  <2> QED
    BY ONLY <2>1, <2>2
<1> HIDE DEF n
<1>6. CASE a = NoAnswer
  <2>1. 1..Len(s) = 1..n /\ (n > 0 => 1 \in 1..n) /\ (\A i \in 1..n : n > 0)
    BY <1>1, <1>2, <1>6
  <2>2. (\E i \in 1..n : s[i].field = f) <=> f = 1 /\ n > 0
    BY <1>4, <2>1
  <2> QED
    BY <1>3, <1>6, <2>1, <2>2 DEF s, n
<1>7. CASE a # NoAnswer
  <2>1. /\ \A i \in 1..Len(s) : i \in 1..n \/ i = n + 1 \/ i = n + 2
        /\ n + 1 \in 1..Len(s) /\ n + 2 \in 1..Len(s) /\ (n > 0 => 1 \in 1..n /\ 1 \in 1..Len(s))
        /\ \A i \in 1..n : n > 0
    <3>1. Len(s) = n + 2
      BY <1>2, <1>7
    <3> QED
      BY ONLY <1>1, <3>1
  <2>2. (\E i \in 1..Len(s) : s[i].field = f) <=>
          (f = 1 /\ n > 0) \/ f \in {ResponseField(a.type), SEQ_ECHO_FIELD}
    <3>1. s[n + 1].field = ResponseField(a.type) /\ s[n + 2].field = SEQ_ECHO_FIELD
      BY <1>5, <1>7
    <3> QED
      BY ONLY <1>4, <2>1, <3>1
  <2> QED
    BY <1>3, <1>7, <2>2 DEF s, n
<1> QED
  BY <1>6, <1>7

(* Sequences of one item each, one behind the other.                       *)
LEMMA FlattenOnes ==
  ASSUME NEW S, NEW x \in Seq(S)
  PROVE  FlattenSeq([i \in 1..Len(x) |-> <<x[i]>>]) = x
<1> DEFINE n == Len(x)
           seqs == [i \in 1..n |-> <<x[i]>>]
           F == FlatFrom(seqs)
           P == {i \in Nat : i \in 1..n => F[i] = SubSeq(x, 1, i)}
<1>0. n \in Nat /\ \A i \in 1..n : x[i] \in S
  BY LenProperties, ElementOfSeq
<1> HIDE DEF n
<1>1. seqs \in Seq(Seq(S)) /\ Len(seqs) = n /\ \A i \in 1..n : seqs[i] = <<x[i]>>
  <2>1. \A i \in 1..n : <<x[i]>> \in Seq(S)
    BY <1>0
  <2> QED
    BY <1>0, <2>1
<1>2. \A i \in 1..n : F[i] = IF i = 1 THEN seqs[i] ELSE F[i - 1] \o seqs[i]
  <2> HIDE DEF seqs
  <2>1. \A i \in 1..Len(seqs) : F[i] = IF i = 1 THEN seqs[i] ELSE F[i - 1] \o seqs[i]
    BY <1>1, FlatDef
  <2> HIDE DEF F
  <2> QED
    BY <1>1, <2>1
<1>3. FlattenSeq(seqs) = IF n = 0 THEN seqs ELSE F[n]
  <2>1. FlattenSeq(seqs) = IF Len(seqs) = 0 THEN seqs ELSE F[Len(seqs)]
    BY DEF FlattenSeq, FlatFrom
  <2> HIDE DEF F, seqs
  <2> QED
    BY <1>1, <2>1
<1> HIDE DEF F, seqs
<1>4. 0 \in P
  OBVIOUS
<1>5. ASSUME NEW i \in P PROVE i + 1 \in P
  <2> SUFFICES ASSUME i + 1 \in 1..n PROVE F[i + 1] = SubSeq(x, 1, i + 1)
    OBVIOUS
  <2>1. i \in Nat /\ i + 1 \in 1..Len(x) /\ i + 1 \in 1..n /\ 1 \in 1..Len(x)
    BY <1>0 DEF n
  <2>2. SubSeq(x, 1, i + 1) = SubSeq(x, 1, (i + 1) - 1) \o <<x[i + 1]>>
    <3>1. i + 1 \in 1..Len(x)
      BY <2>1
    <3> QED
      BY ONLY <2>1, <3>1, SubSeqRecursiveSecond
  <2>3. (i + 1) - 1 = i /\ (i # 0 => i + 1 # 1 /\ i \in 1..n) /\ (i = 0 => i + 1 = 1)
    BY <1>0, <2>1
  <2> DEFINE Upto(j) == SubSeq(x, 1, j)
  <2>4. Upto(i + 1) = Upto(i) \o <<x[i + 1]>>
    BY <2>2, <2>3
  <2>5. Upto(0) = << >>
    BY SubSeqEmpty
  <2>6. i \in 1..n => F[i] = Upto(i)
    OBVIOUS
  <2> HIDE DEF Upto
  <2>7. F[i + 1] = IF i + 1 = 1 THEN <<x[i + 1]>> ELSE F[(i + 1) - 1] \o <<x[i + 1]>>
    BY <1>1, <1>2, <2>1
  <2>8. CASE i = 0
    <3>1. <<x[i + 1]>> \in Seq(S)
      BY <1>0, <2>1
    <3>2. << >> \o <<x[i + 1]>> = <<x[i + 1]>>
      BY <3>1, ConcatEmptySeq
    <3>3. Upto(i) = << >>
      BY <2>5, <2>8
    <3>4. Upto(i + 1) = <<x[i + 1]>>
      BY ONLY <2>4, <3>2, <3>3, Zenon
    <3> QED
      BY <2>3, <2>7, <2>8, <3>4 DEF Upto
  <2>9. CASE i # 0
    <3>1. F[(i + 1) - 1] = F[i] /\ F[i] = Upto(i)
      BY <2>3, <2>6, <2>9
    <3>2. F[i + 1] = F[i] \o <<x[i + 1]>>
      <4>1. (i + 1) - 1 = i /\ ~(i + 1 = 1)
        BY <2>3, <2>9
      <4> QED
        BY ONLY <2>7, <4>1, Zenon
    <3>3. F[i + 1] = Upto(i + 1)
      BY ONLY <2>4, <3>1, <3>2, Zenon
    <3> QED
      BY <3>3 DEF Upto
  <2> QED
    BY <2>8, <2>9
<1>6. P = Nat
  <2>1. P \in SUBSET Nat
    OBVIOUS
  <2> HIDE DEF P
  <2> QED
    BY <1>4, <1>5, <2>1, Induction
<1>7. CASE n = 0
  <2>1. x = << >> /\ seqs = << >>
    BY <1>0, <1>7, EmptySeq DEF n, seqs
  <2> QED
    BY <1>3, <1>7, <2>1 DEF n, seqs
<1>8. CASE n # 0
  <2>1. n \in 1..n /\ n \in Nat
    BY <1>0, <1>8
  <2>2. n \in P
    BY ONLY <1>6, <2>1
  <2>3. F[n] = SubSeq(x, 1, n)
    BY <2>1, <2>2
  <2>4. SubSeq(x, 1, n) = x
    BY SubSeqFull DEF n
  <2> QED
    BY <1>3, <1>8, <2>3, <2>4 DEF n, seqs
<1> QED
  BY <1>7, <1>8

(* The entries of a message are those of its reports.                      *)
ReportEntries(reports) == [i \in 1..Len(reports) |-> StateEntries(reports[i].blob)[1]]

LEMMA ReportEntry ==
  ASSUME NEW r \in Reports
  PROVE  /\ StateEntries(r.blob) = <<StateEntries(r.blob)[1]>>
         /\ \A v \in Mirrors :
              Apply(v, StateEntries(r.blob)[1].kind, StateEntries(r.blob)[1].inner) = Says(v, r)
<1>1. Does(r.blob, r.says)
  BY ReportMeans DEF IsReport
<1>2. PICK kind, inner : /\ StateEntries(r.blob) = << [kind |-> kind, inner |-> inner] >>
                         /\ Tells(kind, inner, r.says)
  BY <1>1 DEF Does
<1> DEFINE e == [kind |-> kind, inner |-> inner]
<1>3. e.kind = kind /\ e.inner = inner
  OBVIOUS
<1>4. StateEntries(r.blob) = <<e>>
  BY <1>2
<1> HIDE DEF e
<1>5. StateEntries(r.blob)[1] = e
  BY <1>4
<1>6. \A v \in Mirrors : Apply(v, kind, inner) = Says(v, r)
  BY <1>2, SaysIsSaid DEF Tells
<1> QED
  BY ONLY <1>3, <1>4, <1>5, <1>6, Zenon

LEMMA EntriesAlike ==
  ASSUME NEW reports \in Seq(Reports)
  PROVE  Alike(ReportEntries(reports), reports)
<1> DEFINE n == Len(reports)
           es == ReportEntries(reports)
<1>1. n \in Nat /\ \A i \in 1..n : reports[i] \in Reports
  BY LenProperties, ElementOfSeq
<1>2. Len(es) = n /\ \A i \in 1..n : es[i] = StateEntries(reports[i].blob)[1]
  <2> HIDE DEF n
  <2>1. es = [i \in 1..n |-> StateEntries(reports[i].blob)[1]]
    BY DEF ReportEntries, n
  <2> HIDE DEF es
  <2> QED
    BY <1>1, <2>1
<1> HIDE DEF es, n
<1>3. ASSUME NEW i \in 1..n, NEW v \in Mirrors
      PROVE  Apply(v, es[i].kind, es[i].inner) = Says(v, reports[i])
  BY <1>1, <1>2, ReportEntry
<1> QED
  BY <1>2, <1>3 DEF Alike, es, n

LEMMA BlobsShown ==
  ASSUME NEW a, a = NoAnswer \/ IsAnswer(a), NEW reports \in Seq(Reports)
  PROVE  BlobsIn(<<Shown(a, reports)>>) = BlobEntries(reports)
<1> DEFINE n == Len(reports)
           s == Shown(a, reports)
           S == Pieces(a, reports)
           b == BlobEntries(reports)
           places == BytesOf(s, 1)
<1>1. /\ s \in Seq(S) /\ ShownParts(s, a, reports) /\ n \in Nat
      /\ b \in Seq(S) /\ Len(b) = n
  BY ShownIs, LenProperties
<1>2. \A i \in 1..n : b[i] = Entry(1, TRUE, reports[i].blob)
  BY DEF BlobEntries
<1> HIDE DEF s, S, b
<1>3. DOMAIN s = 1..Len(s) /\ Len(s) = n + (IF a = NoAnswer THEN 0 ELSE 2)
  BY <1>1, LenProperties DEF ShownParts
<1>4. \A i \in 1..n : s[i] = b[i] /\ s[i].field = 1 /\ s[i].bytes
  <2> TAKE i \in 1..n
  <2>1. s[i] = Entry(1, TRUE, reports[i].blob)
    BY <1>1 DEF ShownParts
  <2>2. Entry(1, TRUE, reports[i].blob).field = 1 /\ Entry(1, TRUE, reports[i].blob).bytes
    BY DEF Entry
  <2>3. s[i] = b[i]
    BY <1>2, <2>1
  <2> QED
    BY ONLY <2>1, <2>2, <2>3, Zenon
<1>5. a # NoAnswer => s[n + 1].field # 1 /\ s[n + 2].field # 1
  <2>1. a # NoAnswer =>
          /\ s[n + 1] = Entry(ResponseField(a.type), TRUE, a.body)
          /\ s[n + 2] = Entry(SEQ_ECHO_FIELD, FALSE, <<a.seq>>)
    BY <1>1 DEF ShownParts
  <2>2. /\ Entry(ResponseField(a.type), TRUE, a.body).field = ResponseField(a.type)
        /\ Entry(SEQ_ECHO_FIELD, FALSE, <<a.seq>>).field = SEQ_ECHO_FIELD
    BY DEF Entry
  <2>3. a # NoAnswer => ResponseField(a.type) # 1
    BY TypesSmall DEF IsAnswer
  <2>4. SEQ_ECHO_FIELD # 1
    BY DEF SEQ_ECHO_FIELD
  <2> QED
    BY ONLY <2>1, <2>2, <2>3, <2>4
<1> HIDE DEF n
<1>6. ASSUME NEW i \in 1..Len(s) PROVE i \in places <=> 1 <= i /\ i <= n
  <2>1. i \in places <=> s[i].field = 1 /\ s[i].bytes
    BY <1>3 DEF BytesOf, PlacesOf
  <2> HIDE DEF places
  <2>2. CASE i <= n
    <3>1. i \in 1..n /\ 1 <= i
      BY <1>1, <2>2
    <3> QED
      BY <1>4, <2>1, <2>2, <3>1
  <2>3. CASE ~(i <= n)
    <3>1. a # NoAnswer /\ (i = n + 1 \/ i = n + 2)
      BY <1>1, <1>3, <2>3
    <3> QED
      BY <1>5, <2>1, <2>3, <3>1
  <2> QED
    BY <2>2, <2>3
<1> HIDE DEF places
<1>7. 1 \in Place /\ 1 <= n + 1 /\ n <= Len(s)
  BY <1>1, <1>3 DEF Place
<1>8. Kept(s, places) = Part(s, 1, n)
  <2>1. \A i \in 1..Len(s) : i \in places <=> 1 <= i /\ i <= n
    BY <1>6
  <2> QED
    BY ONLY <1>1, <1>7, <2>1, KeptRange
<1>9. SubSeq(s, 1, n) = b
  <2> DEFINE c == SubSeq(s, 1, n)
  <2>1. \A i \in 1..n : s[i] \in S
    <3>1. \A i \in 1..n : i \in 1..Len(s)
      BY <1>1, <1>7
    <3> QED
      BY <1>1, <3>1, ElementOfSeq
  <2>2. 1 \in Int /\ n \in Int
    BY <1>1
  <2>3. /\ c \in Seq(S) /\ Len(c) = (IF 1 <= n THEN n - 1 + 1 ELSE 0)
        /\ \A i \in 1..(n - 1 + 1) : c[i] = s[1 + i - 1]
    BY ONLY <2>1, <2>2, SubSeqProperties
  <2> HIDE DEF c
  <2>4. Len(c) = n /\ n - 1 + 1 = n
    BY <1>1, <2>3
  <2>5. \A i \in 1..n : c[i] = b[i]
    <3> TAKE i \in 1..n
    <3>1. 1 + i - 1 = i /\ i \in 1..(n - 1 + 1)
      BY <2>4
    <3> QED
      BY <1>4, <2>3, <3>1
  <2>6. c = b
    BY <1>1, <2>3, <2>4, <2>5, SeqEqual
  <2> QED
    BY <2>6 DEF c
<1>10. <<s>> # << >> /\ <<s>>[1] = s
  OBVIOUS
<1> QED
  BY <1>8, <1>9, <1>10 DEF BlobsIn, Malformed, Part, places, s, b

LEMMA EntriesShown ==
  ASSUME NEW a, a = NoAnswer \/ IsAnswer(a), NEW reports \in Seq(Reports)
  PROVE  EntriesIn(<<Shown(a, reports)>>) = ReportEntries(reports)
<1> DEFINE n == Len(reports)
           b == BlobEntries(reports)
           es == ReportEntries(reports)
           S == {StateEntries(reports[i].blob)[1] : i \in 1..n}
<1>1. n \in Nat /\ \A i \in 1..n : reports[i] \in Reports
  BY LenProperties, ElementOfSeq
<1>2. DOMAIN b = 1..n /\ \A i \in 1..n : b[i] = Entry(1, TRUE, reports[i].blob)
  BY DEF BlobEntries
<1>3. es = [i \in 1..n |-> StateEntries(reports[i].blob)[1]]
  BY DEF ReportEntries
<1>4. \A i \in 1..n : StateEntries(reports[i].blob)[1] \in S
  OBVIOUS
<1> HIDE DEF n, b, es, S
<1>5. es \in Seq(S) /\ Len(es) = n
  <2>1. es \in [1..n -> S]
    BY <1>3, <1>4
  <2> QED
    BY <1>1, <1>3, <2>1
<1>6. ASSUME NEW i \in 1..n PROVE StateEntries(b[i].value) = <<es[i]>>
  <2>1. b[i].value = reports[i].blob
    BY <1>2 DEF Entry
  <2>2. StateEntries(reports[i].blob) = <<StateEntries(reports[i].blob)[1]>>
    BY <1>1, ReportEntry
  <2>3. es[i] = StateEntries(reports[i].blob)[1]
    BY <1>3
  <2> QED
    BY ONLY <2>1, <2>2, <2>3, Zenon
<1>7. [i \in DOMAIN b |-> StateEntries(b[i].value)] = [i \in 1..n |-> <<es[i]>>]
  BY <1>2, <1>6
<1>8. FlattenSeq([i \in 1..Len(es) |-> <<es[i]>>]) = es
  BY ONLY <1>5, FlattenOnes
<1>9. EntriesOf(b) = es
  BY <1>5, <1>7, <1>8 DEF EntriesOf
<1> QED
  BY <1>9, BlobsShown DEF EntriesIn, b, es

-----------------------------------------------------------------------------
(* Classifying.                                                            *)
LEMMA KeptWords ==
  /\ ResponseField(RT_KEEP_ALIVE) = 4 /\ SEQ_ECHO_FIELD = 40 /\ RT_KEEP_ALIVE = 3
  /\ \A t \in SentTypes : t \in Nat /\ ResponseField(t) = t + 1 /\ t # 0 /\ t # 39
BY TypesSmall DEF ResponseField, RT_KEEP_ALIVE, SEQ_ECHO_FIELD

LEMMA KeepaliveShown ==
  ASSUME NEW a, a = NoAnswer \/ IsAnswer(a), NEW reports \in Seq(Reports)
  PROVE  IsKeepaliveResponse(<<Shown(a, reports)>>) <=>
           a # NoAnswer /\ a.type = RT_KEEP_ALIVE /\ Len(reports) = 0
<1> DEFINE s == Shown(a, reports)
           n == Len(reports)
<1>1. /\ n \in Nat
      /\ \A f : f \in FieldsOf(s) <=> \/ f = 1 /\ n > 0
                                      \/ a # NoAnswer /\ f \in {ResponseField(a.type), SEQ_ECHO_FIELD}
  BY FieldsShown, LenProperties
<1>2. <<s>> # Malformed /\ <<s>>[1] = s
  BY DEF Malformed
<1>3. a # NoAnswer => /\ a.type \in Nat /\ ResponseField(a.type) = a.type + 1
                      /\ a.type # 0 /\ a.type # 39
  BY KeptWords DEF IsAnswer
<1> HIDE DEF s, n
<1>4. IsKeepaliveResponse(<<s>>) <=> 4 \in FieldsOf(s) /\ FieldsOf(s) \subseteq {4, 40}
  BY <1>2, KeptWords DEF IsKeepaliveResponse
<1>5. 4 \in FieldsOf(s) <=> a # NoAnswer /\ a.type = 3
  BY <1>1, <1>3, KeptWords
<1>6. ASSUME a # NoAnswer, a.type = 3
      PROVE  FieldsOf(s) \subseteq {4, 40} <=> n = 0
  <2>1. \A f : f \in FieldsOf(s) <=> (f = 1 /\ n > 0) \/ f \in {4, 40}
    BY <1>1, <1>3, <1>6, KeptWords
  <2>2. CASE n = 0
    BY <2>1, <2>2
  <2>3. CASE n # 0
    <3>1. 1 \in FieldsOf(s)
      BY <1>1, <2>1, <2>3
    <3> QED
      BY <2>3, <3>1
  <2> QED
    BY <2>2, <2>3
<1> QED
  BY <1>4, <1>5, <1>6, KeptWords DEF s, n

LEMMA ClassifiedIsHeard ==
  ASSUME NEW a, a = NoAnswer \/ IsAnswer(a), NEW reports \in Seq(Reports), NEW st \in Mirrors
  PROVE  /\ Classified(st, <<Shown(a, reports)>>) = Heard(st, reports)
         /\ Heard(st, reports) \in Mirrors
<1>1. /\ Applied(st, ReportEntries(reports)) = Heard(st, reports)
      /\ Heard(st, reports) \in Mirrors
  BY EntriesAlike, AppliedIsHeard
<1>2. UpdateFrom(st, <<Shown(a, reports)>>) = Heard(st, reports)
  BY <1>1, EntriesShown DEF UpdateFrom
<1>3. ASSUME Len(reports) = 0 PROVE Heard(st, reports) = st
  <2>1. HeardRule(st, reports, HeardFrom(st, reports))
    BY HeardDef
  <2>2. HeardFrom(st, reports)[0] = st
    BY <1>3, <2>1 DEF HeardRule
  <2> QED
    BY <1>3, <2>2 DEF Heard, HeardFrom
<1>4. IsKeepaliveResponse(<<Shown(a, reports)>>) => Len(reports) = 0
  BY KeepaliveShown
<1> QED
  BY <1>1, <1>2, <1>3, <1>4 DEF Classified

(* Who takes a message.                                                    *)
Takers(a, reports) ==
  {t \in SentTypes \ {RT_KEEP_ALIVE} : Matches(<<Shown(a, reports)>>, ResponseField(t))}

LEMMA TakersAre ==
  ASSUME NEW a, a = NoAnswer \/ IsAnswer(a), NEW reports \in Seq(Reports)
  PROVE  Takers(a, reports) =
           IF a = NoAnswer \/ a.type = RT_KEEP_ALIVE THEN {} ELSE {a.type}
<1> DEFINE s == Shown(a, reports)
<1>1. \A f : f \in FieldsOf(s) <=>
               \/ f = 1 /\ Len(reports) > 0
               \/ a # NoAnswer /\ f \in {ResponseField(a.type), SEQ_ECHO_FIELD}
  BY FieldsShown
<1>2. <<s>> # Malformed /\ <<s>>[1] = s
  BY DEF Malformed
<1>3. a # NoAnswer => a.type \in SentTypes
  BY DEF IsAnswer
<1> HIDE DEF s
<1>4. ASSUME NEW t \in SentTypes
      PROVE  Matches(<<s>>, ResponseField(t)) <=> a # NoAnswer /\ t = a.type
  <2>1. Matches(<<s>>, ResponseField(t)) <=> ResponseField(t) \in FieldsOf(s)
    BY <1>2 DEF Matches
  <2>2. ResponseField(t) = t + 1 /\ t \in Nat /\ t # 0 /\ t # 39 /\ SEQ_ECHO_FIELD = 40
    BY KeptWords
  <2>3. a # NoAnswer => ResponseField(a.type) = a.type + 1 /\ a.type \in Nat
    BY <1>3, KeptWords
  <2>4. ResponseField(t) \in FieldsOf(s) <=> a # NoAnswer /\ t = a.type
    BY <1>1, <2>2, <2>3
  <2> QED
    BY <2>1, <2>4
<1> QED
  BY <1>3, <1>4 DEF Takers, s

LEMMA AbsorbedShown ==
  ASSUME NEW a, a = NoAnswer \/ IsAnswer(a), NEW reports \in Seq(Reports),
         a = NoAnswer => Len(reports) > 0,
         a # NoAnswer /\ a.type = RT_KEEP_ALIVE => Len(reports) = 0
  PROVE  Absorbed(<<Shown(a, reports)>>) <=> a = NoAnswer \/ a.type = RT_KEEP_ALIVE
<1> DEFINE s == Shown(a, reports)
           n == Len(reports)
           others == ResponseFields(<<s>>)
<1>1. /\ n \in Nat
      /\ \A f : f \in FieldsOf(s) <=> \/ f = 1 /\ n > 0
                                      \/ a # NoAnswer /\ f \in {ResponseField(a.type), SEQ_ECHO_FIELD}
  BY FieldsShown, LenProperties
<1>2. <<s>> # Malformed /\ <<s>>[1] = s
  BY DEF Malformed
<1>3. IsKeepaliveResponse(<<s>>) <=> a # NoAnswer /\ a.type = RT_KEEP_ALIVE /\ n = 0
  BY KeepaliveShown
<1>4. EntriesIn(<<s>>) # << >> <=> n > 0
  <2>1. Len(ReportEntries(reports)) = n /\ DOMAIN ReportEntries(reports) = 1..n
    BY <1>1 DEF ReportEntries
  <2>2. EntriesIn(<<s>>) = ReportEntries(reports)
    BY EntriesShown
  <2>3. CASE n = 0
    <3>1. ReportEntries(reports) = << >>
      BY <2>1, <2>3 DEF ReportEntries
    <3> QED
      BY <2>2, <2>3, <3>1
  <2>4. CASE n > 0
    <3>1. DOMAIN << >> = {} /\ 1 \in 1..n
      BY <1>1, <2>4
    <3> QED
      BY <2>1, <2>2, <2>4, <3>1
  <2> QED
    BY <1>1, <2>3, <2>4
<1>5. others = FieldsOf(s) \ {SEQ_ECHO_FIELD}
  BY <1>2 DEF ResponseFields
<1> HIDE DEF s, n, others
<1>6. CASE a = NoAnswer
  <2>1. n > 0 /\ others = {1}
    <3>1. n > 0
      BY <1>6 DEF n
    <3>2. \A f : f \in others <=> f = 1
      BY <1>1, <1>5, <1>6, <3>1, KeptWords
    <3> QED
      BY <3>1, <3>2
  <2>2. Cardinality(others) <= 1
    <3>1. Cardinality({1}) = 1
      BY FS_Singleton
    <3>2. Cardinality(others) = 1
      BY ONLY <2>1, <3>1, Zenon
    <3> QED
      BY ONLY <3>2
  <2> QED
    BY <1>4, <1>6, <2>1, <2>2 DEF Absorbed, s, others
<1>7. CASE a # NoAnswer /\ a.type = RT_KEEP_ALIVE
  BY <1>3, <1>7 DEF Absorbed, s, n
<1>8. CASE a # NoAnswer /\ a.type # RT_KEEP_ALIVE
  <2>1. ASSUME n > 0 PROVE ~(Cardinality(others) <= 1)
    <3>1. a.type \in SentTypes
      BY <1>8 DEF IsAnswer
    <3>2. ResponseField(a.type) = a.type + 1 /\ a.type \in Nat /\ a.type # 0 /\ a.type # 39
      BY <3>1, KeptWords
    <3>3. \A f : f \in others <=> f = 1 \/ f = a.type + 1
      BY <1>1, <1>5, <1>8, <2>1, <3>2, KeptWords
    <3>4. others = {1} \cup {a.type + 1} /\ a.type + 1 \notin {1}
      BY <3>2, <3>3
    <3>5. IsFiniteSet({1}) /\ Cardinality({1}) = 1
      BY FS_Singleton
    <3>6. Cardinality({1} \cup {a.type + 1}) = Cardinality({1}) + 1
      BY <3>4, <3>5, FS_AddElement
    <3>7. Cardinality(others) = Cardinality({1}) + 1
      BY ONLY <3>4, <3>6, Zenon
    <3> QED
      BY ONLY <3>5, <3>7
  <2>2. ~IsKeepaliveResponse(<<s>>)
    BY <1>3, <1>8
  <2>3. EntriesIn(<<s>>) # << >> => ~(Cardinality(others) <= 1)
    BY <1>4, <2>1
  <2> QED
    BY <1>8, <2>2, <2>3 DEF Absorbed, others, s
<1> QED
  BY <1>6, <1>7, <1>8

(* Reading the status where the camera wrote it.                           *)
LEMMA InnerShown ==
  ASSUME NEW a, IsAnswer(a), NEW reports \in Seq(Reports)
  PROVE  Inner(<<Shown(a, reports)>>, a.type) = <<a.body>>
<1> DEFINE s == Shown(a, reports)
           n == Len(reports)
           S == Pieces(a, reports)
           field == ResponseField(a.type)
           places == PlacesOf(s, field)
<1>1. s \in Seq(S) /\ ShownParts(s, a, reports) /\ n \in Nat /\ a # NoAnswer
  BY ShownIs, LenProperties, AnswerIsOne
<1> HIDE DEF s, S
<1>2. DOMAIN s = 1..Len(s) /\ Len(s) = n + 2
  BY <1>1, LenProperties DEF ShownParts
<1>3. a.type \in Nat /\ field = a.type + 1 /\ a.type # 0 /\ a.type # 39
  BY KeptWords DEF IsAnswer
<1>4. s[n + 1] = Entry(field, TRUE, a.body) /\ s[n + 2] = Entry(SEQ_ECHO_FIELD, FALSE, <<a.seq>>)
  BY <1>1 DEF ShownParts
<1>5. \A i \in 1..n : s[i].field = 1
  <2> TAKE i \in 1..n
  <2>1. s[i] = Entry(1, TRUE, reports[i].blob)
    BY <1>1 DEF ShownParts
  <2>2. Entry(1, TRUE, reports[i].blob).field = 1
    BY DEF Entry
  <2> QED
    BY ONLY <2>1, <2>2
<1> HIDE DEF n, field
<1>6. /\ s[n + 1].field = field /\ s[n + 1].bytes = TRUE /\ s[n + 1].value = a.body
      /\ s[n + 2].field = 40
  <2>1. /\ Entry(field, TRUE, a.body).field = field /\ Entry(field, TRUE, a.body).bytes = TRUE
        /\ Entry(field, TRUE, a.body).value = a.body
        /\ Entry(SEQ_ECHO_FIELD, FALSE, <<a.seq>>).field = SEQ_ECHO_FIELD
    BY DEF Entry
  <2> QED
    BY ONLY <1>4, <2>1, KeptWords, Zenon
<1>7. n + 1 \in places /\ places \in SUBSET Nat /\ \A i \in places : n + 1 <= i
  <2>1. n + 1 \in 1..Len(s) /\ \A i \in 1..Len(s) : i \in Nat /\ (i \in 1..n \/ i = n + 1 \/ i = n + 2)
    BY <1>1, <1>2
  <2>2. \A i : i \in places <=> i \in 1..Len(s) /\ s[i].field = field
    BY <1>2 DEF PlacesOf
  <2> HIDE DEF places
  <2>3. n + 1 \in places
    BY <1>6, <2>1, <2>2
  <2>4. \A i \in places : i \in Nat /\ n + 1 <= i
    BY <1>1, <1>3, <1>5, <1>6, <2>1, <2>2
  <2> QED
    BY <2>3, <2>4
<1> HIDE DEF places
<1>8. Min(places) = n + 1
  BY <1>7, MinIs
<1>9. <<s>> # Malformed /\ <<s>>[1] = s /\ places # {}
  BY <1>7 DEF Malformed
<1>10. Inner(<<s>>, a.type) = <<IF s[Min(places)].bytes THEN s[Min(places)].value ELSE << >> >>
  BY <1>9 DEF Inner, places, field
<1> QED
  BY <1>6, <1>8, <1>10 DEF s

(* The body is empty, or begins with the status.                           *)
Begins(body, n) ==
  \E S : \E x \in Seq(S) : Len(x) > 0 /\ x[1] = Entry(1, FALSE, <<n>>) /\ Reads(body, x)

StatusIs(a) ==
  \/ a.body = << >> /\ a.status = << >>
  \/ a.body # << >> /\ \E n : a.status = <<n>> /\ Begins(a.body, n)

LEMMA SuccessIs ==
  ASSUME NEW a, IsAnswer(a), StatusIs(a), NEW reports \in Seq(Reports)
  PROVE  IsSuccess(<<Shown(a, reports)>>, a.type) <=> a.status = <<STATUS_SUCCESS>>
<1> DEFINE pt == <<Shown(a, reports)>>
           inner == Inner(pt, a.type)
<1>1. inner = <<a.body>>
  BY InnerShown
<1> HIDE DEF pt, inner
<1>2. <<a.body>> # << >> /\ <<a.body>>[1] = a.body /\ (<<a.body>> = << << >> >> <=> a.body = << >>)
  OBVIOUS
<1>3. ParseStatus(pt, a.type) = IF a.body = << >> THEN << >> ELSE Value(ParsePb(a.body)[1], 1, << >>)
  <2>1. ParseStatus(pt, a.type) = IF inner \in {Malformed, << << >> >>} THEN << >>
                                  ELSE Value(ParsePb(inner[1])[1], 1, << >>)
    BY DEF ParseStatus, inner
  <2>2. inner \in {Malformed, << << >> >>} <=> a.body = << >>
    BY <1>1, <1>2 DEF Malformed
  <2> QED
    BY ONLY <1>1, <1>2, <2>1, <2>2, Zenon
<1>4. ParseStatus(pt, a.type) = a.status
  <2>1. CASE a.body = << >> /\ a.status = << >>
    BY <1>3, <2>1
  <2>2. CASE a.body # << >> /\ \E n : a.status = <<n>> /\ Begins(a.body, n)
    <3>1. PICK n : a.status = <<n>> /\ Begins(a.body, n)
      BY <2>2
    <3>2. PICK S : \E x \in Seq(S) : Len(x) > 0 /\ x[1] = Entry(1, FALSE, <<n>>) /\ Reads(a.body, x)
      BY <3>1 DEF Begins
    <3>3. PICK x \in Seq(S) : Len(x) > 0 /\ x[1] = Entry(1, FALSE, <<n>>) /\ Reads(a.body, x)
      BY <3>2
    <3>4. x[1].field = 1 /\ x[1].value = <<n>>
      BY <3>3 DEF Entry
    <3>5. Len(x) \in Nat /\ DOMAIN x = 1..Len(x)
      BY LenProperties
    <3>6. 1 \in 1..Len(x) /\ IsFirst(x, 1, 1)
      BY <3>3, <3>5 DEF IsFirst
    <3>7. Value(x, 1, << >>) = x[1].value
      BY ONLY <3>3, <3>4, <3>6, ValueAt
    <3>8. ParsePb(a.body) = <<x>>
      BY <3>3 DEF Reads
    <3>9. <<x>>[1] = x
      OBVIOUS
    <3> QED
      BY ONLY <1>3, <2>2, <3>1, <3>4, <3>7, <3>8, <3>9, Zenon
  <2> QED
    BY <2>1, <2>2 DEF StatusIs
<1> QED
  BY <1>4 DEF IsSuccess, pt

-----------------------------------------------------------------------------
(* The camera's reading of a request.                                      *)
LEMMA PayloadReads ==
  ASSUME NEW t \in SentTypes, NEW inner \in Seq(Byte), Len(inner) < Word, NEW seq \in 0..(Word - 1)
  PROVE  /\ RequestPayload(t, inner, seq) \in Seq(Byte)
         /\ Reads(RequestPayload(t, inner, seq),
                  <<Entry(t, TRUE, inner), Entry(SEQ_FIELD, FALSE, <<seq>>)>>)
<1> DEFINE u == PbBytes(t, inner)
           v == PbUint(SEQ_FIELD, seq)
           d == Entry(t, TRUE, inner)
           e == Entry(SEQ_FIELD, FALSE, <<seq>>)
<1>1. t \in Fields
  BY TypesSmall, FieldsFit
<1>2. SEQ_FIELD \in Fields
  <2>1. SEQ_FIELD = 38 /\ ResponseField(RT_DISABLE_TIMEOUTS) = 2049
    BY DEF SEQ_FIELD, ResponseField, RT_DISABLE_TIMEOUTS
  <2>2. SEQ_FIELD \in SmallFields
    BY <2>1 DEF SmallFields
  <2> QED
    BY <2>2, FieldsFit
<1>3. u \in Seq(Byte) /\ Reads(u, <<d>>)
  BY <1>1, BytesReads
<1>4. v \in Seq(Byte) /\ Reads(v, <<e>>)
  BY <1>2, UintReads
<1>5. RequestPayload(t, inner, seq) = u \o v
  BY DEF RequestPayload
<1> HIDE DEF u, v, d, e
<1>6. Reads(u \o v, <<d>> \o <<e>>) /\ u \o v \in Seq(Byte)
  BY ONLY <1>3, <1>4, MessagesJoin, ConcatProperties
<1> QED
  BY <1>5, <1>6, TwoInOne DEF d, e

LEMMA RequestAnswered ==
  ASSUME NEW t \in SentTypes, NEW inner, NEW seq
  PROVE  AnswersOf(<<Entry(t, TRUE, inner), Entry(SEQ_FIELD, FALSE, <<seq>>)>>) = AnswersTo(t, seq)
<1> DEFINE d == Entry(t, TRUE, inner)
           e == Entry(SEQ_FIELD, FALSE, <<seq>>)
           es == <<d, e>>
           E == {d, e}
<1>1. d.field = t /\ e.field = 38 /\ e.value = <<seq>> /\ t # 38 /\ SEQ_FIELD = 38
  BY TypesSmall DEF Entry, SEQ_FIELD
<1> HIDE DEF d, e
<1>2. /\ es \in Seq(E) /\ Len(es) = 2 /\ es[1] = d /\ es[2] = e /\ DOMAIN es = {1, 2}
      /\ 2 \in 1..Len(es)
  OBVIOUS
<1> HIDE DEF es, E
<1>3. \A f : f \in FieldsOf(es) <=> f \in {t, 38}
  BY <1>1, <1>2 DEF FieldsOf, ToSet
<1>4. FieldsOf(es) \ {SEQ_FIELD} = {t}
  BY <1>1, <1>3
<1>5. (CHOOSE x \in FieldsOf(es) \ {SEQ_FIELD} : TRUE) = t
  <2>1. (CHOOSE x \in {t} : TRUE) \in {t}
    OBVIOUS
  <2> QED
    BY <1>4, <2>1
<1>6. es[2].field = SEQ_FIELD /\ IsFirst(es, SEQ_FIELD, 2)
  BY <1>1, <1>2 DEF IsFirst
<1> DEFINE k == 2
<1>9. es \in Seq(E) /\ k \in 1..Len(es) /\ es[k].field = SEQ_FIELD /\ IsFirst(es, SEQ_FIELD, k)
  BY <1>2, <1>6
<1> HIDE DEF k
<1>7. Value(es, SEQ_FIELD, << >>) = es[k].value
  BY ONLY <1>9, ValueAt
<1>8. Value(es, SEQ_FIELD, << >>)[1] = seq
  BY <1>1, <1>2, <1>7 DEF k
<1> QED
  BY <1>5, <1>8 DEF AnswersOf, es, d, e

LEMMA AnswersRead ==
  ASSUME NEW t \in SentTypes, NEW inner \in Seq(Byte), NEW seq \in 0..(Word - 1),
         Len(BqsFrame(RequestPayload(t, inner, seq))) < Word
  PROVE  Answers(BqsFrame(RequestPayload(t, inner, seq))) = AnswersTo(t, seq)
<1> DEFINE u == PbBytes(t, inner)
           v == PbUint(SEQ_FIELD, seq)
           p == RequestPayload(t, inner, seq)
<1>1. t \in Fields
  BY TypesSmall, FieldsFit
<1>2. SEQ_FIELD \in Fields
  <2>1. SEQ_FIELD = 38 /\ ResponseField(RT_DISABLE_TIMEOUTS) = 2049
    BY DEF SEQ_FIELD, ResponseField, RT_DISABLE_TIMEOUTS
  <2>2. SEQ_FIELD \in SmallFields
    BY <2>1 DEF SmallFields
  <2> QED
    BY <2>2, FieldsFit
<1>3. v \in Seq(Byte) /\ Len(v) \in Nat
  BY <1>2, UintReads, LenProperties
<1>4. u \in Seq(Byte) /\ Len(u) \in Nat /\ Len(inner) \in Nat /\ Len(inner) <= Len(u)
  <2>1. Len(u) \in Nat /\ Len(inner) \in Nat /\ Len(inner) <= Len(u)
    BY <1>1, BlobLonger
  <2>2. Tag(t, WIRE_BYTES) \in Seq(Byte) /\ Varint(Len(inner)) \in Seq(Byte)
    BY <1>1, <2>1, FieldTag, VarintMeans DEF WIRE_BYTES
  <2>3. u \in Seq(Byte)
    BY <2>2, ConcatProperties DEF PbBytes
  <2> QED
    BY <2>1, <2>3
<1>5. p = u \o v
  BY DEF RequestPayload
<1>6. p \in Seq(Byte) /\ Len(p) = Len(u) + Len(v)
  <2> HIDE DEF u, v, p
  <2> QED
    BY <1>3, <1>4, <1>5, ConcatProperties
<1>7. /\ BqsFrame(p) = Digits[Len(p)] \o p /\ Len(p) \in Nat
      /\ Digits[Len(p)] \in Seq(Byte) /\ Len(Digits[Len(p)]) \in Nat
  BY <1>6, LenProperties, DigitsLen DEF BqsFrame
<1>8. Len(BqsFrame(p)) < Word
  OBVIOUS
<1> HIDE DEF u, v, p
<1>9. Len(p) < Word
  <2>1. Len(Digits[Len(p)] \o p) = Len(Digits[Len(p)]) + Len(p)
    BY <1>6, <1>7, ConcatProperties
  <2>2. Word \in Nat
    BY WordIs
  <2>3. Len(Digits[Len(p)]) + Len(p) < Word
    BY <1>7, <1>8, <2>1
  <2> QED
    BY <1>7, <2>2, <2>3
<1>10. Len(inner) < Word
  <2>1. Word \in Nat
    BY WordIs
  <2> QED
    BY <1>3, <1>4, <1>6, <1>9, <2>1
<1>11. Reads(p, <<Entry(t, TRUE, inner), Entry(SEQ_FIELD, FALSE, <<seq>>)>>)
  BY <1>10, PayloadReads DEF p
<1>12. FrameIsTaken(p)
  BY <1>6, <1>9, FramesAreTaken
<1>13. StripBqs(BqsFrame(p)) = p
  BY <1>12 DEF FrameIsTaken
<1> DEFINE x == <<Entry(t, TRUE, inner), Entry(SEQ_FIELD, FALSE, <<seq>>)>>
<1>14. ParsePb(p) = <<x>>
  BY <1>11 DEF Reads
<1>15. AnswersOf(x) = AnswersTo(t, seq)
  BY RequestAnswered
<1> HIDE DEF x
<1>16. <<x>>[1] = x
  OBVIOUS
<1>17. Answers(BqsFrame(p)) = AnswersTo(t, seq)
  BY ONLY <1>13, <1>14, <1>15, <1>16, Zenon DEF Answers
<1> QED
  BY <1>17 DEF p

-----------------------------------------------------------------------------
(* Bodies piece by piece: whatever is shorter than the word is read.       *)
Piece(s, x) == s \in Seq(Byte) /\ (Len(s) < Word => Reads(s, x))

LEMMA PiecesJoin ==
  ASSUME NEW s, NEW t, NEW x, NEW y, Piece(s, x), Piece(t, y)
  PROVE  Piece(s \o t, x \o y)
<1>1. s \in Seq(Byte) /\ t \in Seq(Byte)
  BY DEF Piece
<1>2. s \o t \in Seq(Byte) /\ Len(s \o t) = Len(s) + Len(t) /\ Len(s) \in Nat /\ Len(t) \in Nat
  BY <1>1, ConcatProperties, LenProperties
<1>3. ASSUME Len(s \o t) < Word PROVE Reads(s \o t, x \o y)
  <2>1. Len(s) < Word /\ Len(t) < Word
    <3>1. Word \in Nat
      BY WordIs
    <3> QED
      BY <1>2, <1>3, <3>1
  <2>2. Reads(s, x) /\ Reads(t, y)
    BY <2>1 DEF Piece
  <2> QED
    BY ONLY <1>1, <2>2, MessagesJoin
<1> QED
  BY <1>2, <1>3 DEF Piece

LEMMA BytesPiece ==
  ASSUME NEW f \in Fields, NEW b \in Seq(Byte)
  PROVE  Piece(PbBytes(f, b), <<Entry(f, TRUE, b)>>)
<1>1. Len(PbBytes(f, b)) \in Nat /\ Len(b) \in Nat /\ Len(b) <= Len(PbBytes(f, b))
  BY BlobLonger
<1>2. PbBytes(f, b) \in Seq(Byte)
  <2>1. Tag(f, WIRE_BYTES) \in Seq(Byte) /\ Varint(Len(b)) \in Seq(Byte)
    BY <1>1, FieldTag, VarintMeans DEF WIRE_BYTES
  <2>2. Tag(f, WIRE_BYTES) \o Varint(Len(b)) \in Seq(Byte)
    BY <2>1, ConcatProperties
  <2> QED
    BY <2>2, ConcatProperties DEF PbBytes
<1>3. ASSUME Len(PbBytes(f, b)) < Word PROVE Reads(PbBytes(f, b), <<Entry(f, TRUE, b)>>)
  <2>1. Word \in Nat
    BY WordIs
  <2>2. Len(b) < Word
    BY <1>1, <1>3, <2>1
  <2> QED
    BY <2>2, BytesReads
<1> QED
  BY <1>2, <1>3 DEF Piece

LEMMA UintPiece ==
  ASSUME NEW f \in Fields, NEW n \in 0..(Word - 1)
  PROVE  Piece(PbUint(f, n), <<Entry(f, FALSE, <<n>>)>>)
BY UintReads DEF Piece

LEMMA EmptyPiece == Piece(<< >>, << >>)
BY NothingReads DEF Piece

LEMMA FlattenedBytes ==
  ASSUME NEW S, NEW seqs \in Seq(Seq(S))
  PROVE  FlattenSeq(seqs) \in Seq(S)
<1>1. << >> \in Seq(S)
  BY EmptySeq
<1> QED
  BY <1>1, FlattenAppend

LEMMA PackedBytes ==
  ASSUME NEW values \in Seq(Int)
  PROVE  PackedVarints(values) \in Seq(Byte)
<1> DEFINE n == Len(values)
           seqs == [i \in 1..n |-> Varint(values[i])]
<1>1. n \in Nat /\ DOMAIN values = 1..n /\ \A i \in 1..n : values[i] \in Int
  BY LenProperties, ElementOfSeq
<1> HIDE DEF n
<1>2. \A i \in 1..n : Varint(values[i]) \in Seq(Byte)
  BY <1>1, VarintMeans
<1>3. seqs \in [1..n -> Seq(Byte)]
  BY <1>2
<1>4. seqs \in Seq(Seq(Byte))
  BY <1>1, <1>3
<1>5. PackedVarints(values) = FlattenSeq(seqs)
  BY <1>1 DEF PackedVarints
<1> HIDE DEF seqs
<1> QED
  BY <1>4, <1>5, FlattenedBytes

LEMMA FirstFields ==
  /\ {1, 2, 3, 4, 5, 6, 7} \subseteq Fields
  /\ 0 \in 0..(Word - 1) /\ 1 \in 0..(Word - 1) /\ 2 \in 0..(Word - 1) /\ 20 \in 0..(Word - 1)
  /\ Word \in Nat /\ 0 \in Int /\ 1 \in Int /\ 300 \in Int /\ Word - 1 \in Int
<1>1. ResponseField(RT_DISABLE_TIMEOUTS) = 2049
  BY DEF ResponseField, RT_DISABLE_TIMEOUTS
<1>2. {1, 2, 3, 4, 5, 6, 7} \subseteq SmallFields
  BY <1>1 DEF SmallFields
<1>3. 8 * 2049 + 7 < Word /\ Word \in Nat
  BY <1>1, FitAssumption, WordIs
<1>4. /\ 0 \in 0..(Word - 1) /\ 1 \in 0..(Word - 1) /\ 2 \in 0..(Word - 1) /\ 20 \in 0..(Word - 1)
      /\ Word - 1 \in Int
  BY ONLY <1>3
<1> QED
  BY <1>2, <1>3, <1>4, FieldsFit

(* What stands in a request's own field.                                   *)
LEMMA InnersAreBytes ==
  /\ BuildListSessions(0, 20) \in Seq(Byte)
  /\ BuildListMoments(Word - 1) \in Seq(Byte)
  /\ BuildDeleteMoments(1, <<1, 300>>) \in Seq(Byte)
  /\ << >> \in Seq(Byte)
<1>1. 1 \in Fields /\ 2 \in Fields /\ 3 \in Fields /\ 4 \in Fields /\ 5 \in Fields /\ 6 \in Fields
  BY FirstFields
<1>2. \A f \in Fields : \A n \in Int : PbUint(f, n) \in Seq(Byte) /\ PbFixed64(f, n) \in Seq(Byte)
  BY UintEntry, Fixed64Entry
<1>3. \A f \in Fields : PbBool(f, TRUE) \in Seq(Byte)
  BY <1>2 DEF PbBool
<1>4. \A s, t \in Seq(Byte) : s \o t \in Seq(Byte)
  BY ConcatProperties
<1>5. BuildListSessions(0, 20) \in Seq(Byte)
  <2>1. 0 \in Int /\ 20 \in Int
    OBVIOUS
  <2>2. PbFixed64(1, 0) \in Seq(Byte)
    BY ONLY <1>1, <1>2, <2>1
  <2>3. PbUint(2, 20) \in Seq(Byte)
    BY ONLY <1>1, <1>2, <2>1
  <2> QED
    BY <1>4, <2>2, <2>3 DEF BuildListSessions
<1>6. BuildListMoments(Word - 1) \in Seq(Byte)
  <2>1. PbFixed64(1, Word - 1) \in Seq(Byte) /\ PbBool(2, TRUE) \in Seq(Byte)
    BY <1>1, <1>2, <1>3, FirstFields
  <2>2. /\ PbBool(3, TRUE) \in Seq(Byte) /\ PbBool(4, TRUE) \in Seq(Byte)
        /\ PbBool(5, TRUE) \in Seq(Byte) /\ PbBool(6, TRUE) \in Seq(Byte)
    BY <1>1, <1>3
  <2>3. PbFixed64(1, Word - 1) \o PbBool(2, TRUE) \in Seq(Byte)
    BY ONLY <1>4, <2>1
  <2>4. PbFixed64(1, Word - 1) \o PbBool(2, TRUE) \o PbBool(3, TRUE) \in Seq(Byte)
    BY ONLY <1>4, <2>2, <2>3
  <2>5. PbFixed64(1, Word - 1) \o PbBool(2, TRUE) \o PbBool(3, TRUE) \o PbBool(4, TRUE) \in Seq(Byte)
    BY ONLY <1>4, <2>2, <2>4
  <2>6. PbFixed64(1, Word - 1) \o PbBool(2, TRUE) \o PbBool(3, TRUE) \o PbBool(4, TRUE)
          \o PbBool(5, TRUE) \in Seq(Byte)
    BY ONLY <1>4, <2>2, <2>5
  <2>7. PbFixed64(1, Word - 1) \o PbBool(2, TRUE) \o PbBool(3, TRUE) \o PbBool(4, TRUE)
          \o PbBool(5, TRUE) \o PbBool(6, TRUE) \in Seq(Byte)
    BY ONLY <1>4, <2>2, <2>6
  <2> QED
    BY ONLY <2>7 DEF BuildListMoments
<1>7. BuildDeleteMoments(1, <<1, 300>>) \in Seq(Byte)
  <2>1. <<1, 300>> \in Seq(Int)
    OBVIOUS
  <2>2. PackedVarints(<<1, 300>>) \in Seq(Byte)
    BY <2>1, PackedBytes
  <2>3. PbPackedVarints(2, <<1, 300>>) \in Seq(Byte)
    BY <1>1, <2>2, BytesPiece DEF PbPackedVarints, Piece
  <2>4. PbFixed64(1, 1) \o PbPackedVarints(2, <<1, 300>>) \in Seq(Byte)
    BY <1>1, <1>2, <1>4, <2>3
  <2> DEFINE b == PbFixed64(1, 1) \o PbPackedVarints(2, <<1, 300>>)
  <2> HIDE DEF b
  <2>5. PbBytes(1, b) \in Seq(Byte)
    BY <1>1, <2>4, BytesPiece DEF Piece, b
  <2> QED
    BY <2>5 DEF BuildDeleteMoments, b
<1> QED
  BY <1>5, <1>6, <1>7, EmptySeq

LEMMA RequestIs ==
  ASSUME NEW t \in SentTypes, NEW seq \in Seqs
  PROVE  Answers(Request(t, seq)) = AnswersTo(t, seq)
<1> DEFINE inner == CASE t = RT_LIST_SESSIONS  -> BuildListSessions(0, 20)
                      [] t = RT_LIST_MOMENTS   -> BuildListMoments(Word - 1)
                      [] t = RT_DELETE_MOMENTS -> BuildDeleteMoments(1, <<1, 300>>)
                      [] OTHER                 -> << >>
<1>1. Request(t, seq) = BqsFrame(RequestPayload(t, inner, seq))
  BY DEF Request
<1>2. inner \in Seq(Byte)
  BY InnersAreBytes DEF RT_LIST_SESSIONS, RT_LIST_MOMENTS, RT_DELETE_MOMENTS
<1> HIDE DEF inner
<1>3. Len(BqsFrame(RequestPayload(t, inner, seq))) < Word /\ seq \in 0..(Word - 1)
  BY <1>1, FitAssumption
<1>4. Answers(BqsFrame(RequestPayload(t, inner, seq))) = AnswersTo(t, seq)
  BY <1>2, <1>3, AnswersRead
<1> QED
  BY <1>1, <1>4

-----------------------------------------------------------------------------
(* What an answer's body reads as.                                         *)
StartsWith(x, e) == \E S : x \in Seq(S) /\ Len(x) > 0 /\ x[1] = e

LEMMA StartStays ==
  ASSUME NEW e, NEW x, StartsWith(x, e), NEW T, NEW y \in Seq(T)
  PROVE  StartsWith(x \o y, e)
<1>1. PICK S : x \in Seq(S) /\ Len(x) > 0 /\ x[1] = e
  BY DEF StartsWith
<1> DEFINE U == S \cup T
<1>2. x \in Seq(U) /\ y \in Seq(U) /\ Len(x) \in Nat /\ Len(y) \in Nat
  BY <1>1, LenProperties
<1> HIDE DEF U
<1>3. x \o y \in Seq(U) /\ Len(x \o y) = Len(x) + Len(y) /\ (x \o y)[1] = x[1]
  BY <1>1, <1>2, ConcatProperties
<1>4. Len(x \o y) > 0
  BY <1>1, <1>2, <1>3
<1> QED
  BY <1>1, <1>3, <1>4 DEF StartsWith

LEMMA StartOne ==
  ASSUME NEW e
  PROVE  StartsWith(<<e>>, e)
<1> DEFINE E == {e}
<1>1. <<e>> \in Seq(E) /\ Len(<<e>>) > 0 /\ <<e>>[1] = e
  OBVIOUS
<1> HIDE DEF E
<1> QED
  BY <1>1 DEF StartsWith

LEMMA BodyBegins ==
  ASSUME NEW body, NEW n, NEW x, StartsWith(x, Entry(1, FALSE, <<n>>)), Reads(body, x)
  PROVE  body # << >> /\ Begins(body, n)
<1>1. Begins(body, n)
  BY DEF StartsWith, Begins
<1>2. ASSUME body = << >> PROVE FALSE
  <2>1. ParsePb(body) = << << >> >> /\ ParsePb(body) = <<x>>
    BY <1>2, NothingReads DEF Reads
  <2>2. x = << >>
    BY ONLY <2>1
  <2> QED
    BY <2>2 DEF StartsWith
<1> QED
  BY <1>1, <1>2

LEMMA StatusPiece ==
  ASSUME NEW s \in {STATUS_SUCCESS, STATUS_FAILURE}
  PROVE  Piece(Status(s), <<Entry(1, FALSE, <<s>>)>>)
<1>1. 1 \in Fields /\ s \in 0..(Word - 1)
  BY FirstFields DEF STATUS_SUCCESS, STATUS_FAILURE
<1> QED
  BY <1>1, UintPiece DEF Status

(* A listing of sessions.                                                  *)
SessionBytes(ids) == FlattenSeq([i \in DOMAIN ids |-> LittleEndian(ids[i], Fixed64Size)])

SessionsShown(ids) ==
  <<Entry(1, FALSE, <<STATUS_SUCCESS>>)>> \o <<Entry(2, TRUE, SessionBytes(ids))>>

LEMMA SessionsPiece ==
  ASSUME NEW n \in Nat, NEW ids \in [1..n -> Nat]
  PROVE  Piece(SessionsBody(ids), SessionsShown(ids))
<1> DEFINE seqs == [i \in DOMAIN ids |-> LittleEndian(ids[i], Fixed64Size)]
           d == <<Entry(1, FALSE, <<STATUS_SUCCESS>>)>>
           e == <<Entry(2, TRUE, SessionBytes(ids))>>
           t == PbBytes(2, SessionBytes(ids))
           s == Status(STATUS_SUCCESS)
<1>1. Fixed64Size \in Nat
  BY WidthAssumption
<1>2. \A i \in 1..n : LittleEndian(ids[i], Fixed64Size) \in Seq(Byte)
  BY <1>1, LittleIs
<1>3. seqs \in [1..n -> Seq(Byte)]
  BY <1>2
<1>4. seqs \in Seq(Seq(Byte))
  BY <1>3
<1>5. SessionBytes(ids) = FlattenSeq(seqs)
  BY DEF SessionBytes
<1> HIDE DEF seqs
<1>6. SessionBytes(ids) \in Seq(Byte)
  BY <1>4, <1>5, FlattenedBytes
<1>7. 2 \in Fields
  BY FirstFields
<1>8. Piece(t, e)
  BY <1>6, <1>7, BytesPiece
<1>9. Piece(s, d)
  BY StatusPiece
<1>10. SessionsBody(ids) = s \o t
  BY DEF SessionsBody, SessionBytes
<1> HIDE DEF d, e, s, t
<1>11. Piece(s \o t, d \o e)
  BY ONLY <1>8, <1>9, PiecesJoin
<1> QED
  BY <1>10, <1>11 DEF SessionsShown, d, e

(* A listing of moments.                                                   *)
IdsOf(n) == [i \in 1..n |-> 150 * i]
StampsOf(n) == [i \in 1..n |-> Word - i]
ScoresOf(n) == [i \in 1..n |-> LittleEndian(i, Fixed32Size)]
TriageOf(n) == [i \in 1..n |-> i]

Sent(name, columns, bytes) == IF name \in columns THEN bytes ELSE << >>

SentEntry(name, columns, f, bytes) ==
  IF name \in columns THEN <<Entry(f, TRUE, bytes)>> ELSE << >>

MomentsShown(n, columns) ==
  <<Entry(1, FALSE, <<STATUS_SUCCESS>>)>> \o <<Entry(2, TRUE, PackedVarints(IdsOf(n)))>>
    \o <<Entry(3, FALSE, <<1>>)>>
    \o SentEntry("timestamps", columns, 5, PackedVarints(StampsOf(n)))
    \o SentEntry("scores", columns, 6, FlattenSeq(ScoresOf(n)))
    \o SentEntry("triage", columns, 7, PackedVarints(TriageOf(n)))

LEMMA SentPiece ==
  ASSUME NEW name, NEW columns, NEW f \in Fields, NEW bytes \in Seq(Byte)
  PROVE  Piece(Sent(name, columns, PbBytes(f, bytes)), SentEntry(name, columns, f, bytes))
BY BytesPiece, EmptyPiece DEF Sent, SentEntry

LEMMA MomentsBodyIs ==
  ASSUME NEW n, NEW columns
  PROVE  MomentsBody(n, columns) =
           Status(STATUS_SUCCESS) \o PbBytes(2, PackedVarints(IdsOf(n))) \o PbBool(3, TRUE)
             \o Sent("timestamps", columns, PbBytes(5, PackedVarints(StampsOf(n))))
             \o Sent("scores", columns, PbBytes(6, FlattenSeq(ScoresOf(n))))
             \o Sent("triage", columns, PbBytes(7, PackedVarints(TriageOf(n))))
<1> DEFINE rows == [i \in 1..n |-> Row(i, columns)]
<1>1. \A i \in 1..n : rows[i].moment_id = 150 * i
  BY DEF Row
<1>2. [i \in 1..n |-> rows[i].moment_id] = IdsOf(n)
  BY <1>1 DEF IdsOf
<1> HIDE DEF rows
<1>3. MomentsBody(n, columns) =
        Status(STATUS_SUCCESS)
          \o PbPackedVarints(2, [i \in 1..n |-> rows[i].moment_id]) \o PbBool(3, TRUE)
          \o Sent("timestamps", columns, PbPackedVarints(5, StampsOf(n)))
          \o Sent("scores", columns, PbBytes(6, FlattenSeq(ScoresOf(n))))
          \o Sent("triage", columns, PbPackedVarints(7, TriageOf(n)))
  BY DEF MomentsBody, Sent, StampsOf, ScoresOf, TriageOf, rows
<1> QED
  BY <1>2, <1>3 DEF PbPackedVarints

LEMMA ColumnsAreBytes ==
  ASSUME NEW n \in Nat
  PROVE  /\ PackedVarints(IdsOf(n)) \in Seq(Byte) /\ PackedVarints(StampsOf(n)) \in Seq(Byte)
         /\ FlattenSeq(ScoresOf(n)) \in Seq(Byte) /\ PackedVarints(TriageOf(n)) \in Seq(Byte)
<1>1. IdsOf(n) \in [1..n -> Int] /\ StampsOf(n) \in [1..n -> Int] /\ TriageOf(n) \in [1..n -> Int]
  <2>1. Word \in Int
    BY WordIs
  <2> QED
    BY <2>1 DEF IdsOf, StampsOf, TriageOf
<1>2. IdsOf(n) \in Seq(Int) /\ StampsOf(n) \in Seq(Int) /\ TriageOf(n) \in Seq(Int)
  BY ONLY <1>1
<1>3. \A i \in 1..n : LittleEndian(i, Fixed32Size) \in Seq(Byte)
  BY WidthAssumption, LittleIs
<1>4. ScoresOf(n) \in [1..n -> Seq(Byte)]
  BY <1>3 DEF ScoresOf
<1>5. ScoresOf(n) \in Seq(Seq(Byte))
  BY ONLY <1>4
<1> QED
  BY <1>2, <1>5, PackedBytes, FlattenedBytes

LEMMA MomentsPiece ==
  ASSUME NEW n \in Nat, NEW columns
  PROVE  Piece(MomentsBody(n, columns), MomentsShown(n, columns))
<1> DEFINE s1 == Status(STATUS_SUCCESS)
           s2 == PbBytes(2, PackedVarints(IdsOf(n)))
           s3 == PbBool(3, TRUE)
           s4 == Sent("timestamps", columns, PbBytes(5, PackedVarints(StampsOf(n))))
           s5 == Sent("scores", columns, PbBytes(6, FlattenSeq(ScoresOf(n))))
           s6 == Sent("triage", columns, PbBytes(7, PackedVarints(TriageOf(n))))
           x1 == <<Entry(1, FALSE, <<STATUS_SUCCESS>>)>>
           x2 == <<Entry(2, TRUE, PackedVarints(IdsOf(n)))>>
           x3 == <<Entry(3, FALSE, <<1>>)>>
           x4 == SentEntry("timestamps", columns, 5, PackedVarints(StampsOf(n)))
           x5 == SentEntry("scores", columns, 6, FlattenSeq(ScoresOf(n)))
           x6 == SentEntry("triage", columns, 7, PackedVarints(TriageOf(n)))
<1>1. /\ 2 \in Fields /\ 3 \in Fields /\ 5 \in Fields /\ 6 \in Fields /\ 7 \in Fields
      /\ 1 \in 0..(Word - 1)
  BY FirstFields
<1>2. Piece(s1, x1)
  BY StatusPiece
<1>3. Piece(s2, x2)
  BY <1>1, ColumnsAreBytes, BytesPiece
<1>4. Piece(s3, x3)
  BY <1>1, UintPiece DEF PbBool
<1>5. Piece(s4, x4)
  BY <1>1, ColumnsAreBytes, SentPiece
<1>6. Piece(s5, x5)
  BY <1>1, ColumnsAreBytes, SentPiece
<1>7. Piece(s6, x6)
  BY <1>1, ColumnsAreBytes, SentPiece
<1>8. MomentsBody(n, columns) = s1 \o s2 \o s3 \o s4 \o s5 \o s6
  BY MomentsBodyIs
<1>9. MomentsShown(n, columns) = x1 \o x2 \o x3 \o x4 \o x5 \o x6
  BY DEF MomentsShown
<1> HIDE DEF s1, s2, s3, s4, s5, s6, x1, x2, x3, x4, x5, x6
<1>10. Piece(s1 \o s2, x1 \o x2)
  BY ONLY <1>2, <1>3, PiecesJoin
<1>11. Piece(s1 \o s2 \o s3, x1 \o x2 \o x3)
  BY ONLY <1>10, <1>4, PiecesJoin
<1>12. Piece(s1 \o s2 \o s3 \o s4, x1 \o x2 \o x3 \o x4)
  BY ONLY <1>11, <1>5, PiecesJoin
<1>13. Piece(s1 \o s2 \o s3 \o s4 \o s5, x1 \o x2 \o x3 \o x4 \o x5)
  BY ONLY <1>12, <1>6, PiecesJoin
<1>14. Piece(s1 \o s2 \o s3 \o s4 \o s5 \o s6, x1 \o x2 \o x3 \o x4 \o x5 \o x6)
  BY ONLY <1>13, <1>7, PiecesJoin
<1> QED
  BY <1>8, <1>9, <1>14

-----------------------------------------------------------------------------
(* The answers to a request.                                               *)
LEMMA MomentsStart ==
  ASSUME NEW n, NEW columns
  PROVE  StartsWith(MomentsShown(n, columns), Entry(1, FALSE, <<STATUS_SUCCESS>>))
<1> DEFINE e1 == Entry(1, FALSE, <<STATUS_SUCCESS>>)
           e2 == Entry(2, TRUE, PackedVarints(IdsOf(n)))
           e3 == Entry(3, FALSE, <<1>>)
           x4 == SentEntry("timestamps", columns, 5, PackedVarints(StampsOf(n)))
           x5 == SentEntry("scores", columns, 6, FlattenSeq(ScoresOf(n)))
           x6 == SentEntry("triage", columns, 7, PackedVarints(TriageOf(n)))
<1>1. \A e : <<e>> \in Seq({e}) /\ << >> \in Seq({e})
  OBVIOUS
<1>2. \E T : x4 \in Seq(T)
  BY <1>1 DEF SentEntry
<1>3. \E T : x5 \in Seq(T)
  BY <1>1 DEF SentEntry
<1>4. \E T : x6 \in Seq(T)
  BY <1>1 DEF SentEntry
<1>5. MomentsShown(n, columns) = <<e1>> \o <<e2>> \o <<e3>> \o x4 \o x5 \o x6
  BY DEF MomentsShown
<1> HIDE DEF e1, e2, e3, x4, x5, x6
<1>6. StartsWith(<<e1>> \o <<e2>>, e1)
  BY ONLY <1>1, StartOne, StartStays
<1>7. StartsWith(<<e1>> \o <<e2>> \o <<e3>>, e1)
  BY ONLY <1>1, <1>6, StartStays
<1>8. StartsWith(<<e1>> \o <<e2>> \o <<e3>> \o x4, e1)
  BY ONLY <1>2, <1>7, StartStays
<1>9. StartsWith(<<e1>> \o <<e2>> \o <<e3>> \o x4 \o x5, e1)
  BY ONLY <1>3, <1>8, StartStays
<1>10. StartsWith(<<e1>> \o <<e2>> \o <<e3>> \o x4 \o x5 \o x6, e1)
  BY ONLY <1>4, <1>9, StartStays
<1> QED
  BY <1>5, <1>10 DEF e1

LEMMA SessionsStart ==
  ASSUME NEW ids
  PROVE  StartsWith(SessionsShown(ids), Entry(1, FALSE, <<STATUS_SUCCESS>>))
<1> DEFINE e1 == Entry(1, FALSE, <<STATUS_SUCCESS>>)
           e2 == Entry(2, TRUE, SessionBytes(ids))
<1>1. SessionsShown(ids) = <<e1>> \o <<e2>>
  BY DEF SessionsShown
<1>2. \A e : <<e>> \in Seq({e})
  OBVIOUS
<1> HIDE DEF e1, e2
<1>3. StartsWith(<<e1>> \o <<e2>>, e1)
  BY ONLY <1>2, StartOne, StartStays
<1> QED
  BY <1>1, <1>3 DEF e1

(* A body read from a status on, or an empty one, in an answer.            *)
LEMMA GoodAnswer ==
  ASSUME NEW t \in SentTypes, NEW seq \in Seqs, NEW body, NEW s, NEW rows, NEW x,
         Answer(t, seq, body, <<s>>, rows) \in AnswersTo(t, seq),
         Piece(body, x), StartsWith(x, Entry(1, FALSE, <<s>>))
  PROVE  /\ IsAnswer(Answer(t, seq, body, <<s>>, rows))
         /\ StatusIs(Answer(t, seq, body, <<s>>, rows))
         /\ Reads(body, x)
<1> DEFINE a == Answer(t, seq, body, <<s>>, rows)
<1>1. a.type = t /\ a.seq = seq /\ a.body = body /\ a.status = <<s>>
  BY DEF Answer
<1>2. a \in AnswersTo(t, seq) /\ seq \in 0..(Word - 1)
  BY FitAssumption
<1> HIDE DEF a
<1>3. Len(a.body) < Word
  BY <1>2, FitAssumption
<1>4. body \in Seq(Byte) /\ Reads(body, x)
  BY <1>1, <1>3 DEF Piece
<1>5. body # << >> /\ Begins(body, s)
  BY <1>4, BodyBegins
<1>6. IsAnswer(a)
  BY <1>1, <1>2, <1>3, <1>4 DEF IsAnswer
<1>7. StatusIs(a)
  BY <1>1, <1>5 DEF StatusIs
<1> QED
  BY <1>4, <1>6, <1>7 DEF a

(* What a listing's answer has written down beside its bytes.              *)
MomentsRows(n, columns) == [i \in 1..n |-> Row(i, columns)]

ListsMoments(a) ==
  a.type = RT_LIST_MOMENTS =>
    \E n \in 0..Rows : \E columns :
      /\ Reads(a.body, MomentsShown(n, columns))
      /\ a.status = <<STATUS_SUCCESS>> /\ a.rows = MomentsRows(n, columns)

ListsSessions(a) ==
  a.type = RT_LIST_SESSIONS =>
    \E n \in 0..Rows : \E ids \in [1..n -> 0..(Word - 1)] :
      /\ Reads(a.body, SessionsShown(ids))
      /\ a.status = <<STATUS_SUCCESS>> /\ a.rows = ids

IsReply(a) == IsAnswer(a) /\ StatusIs(a) /\ ListsMoments(a) /\ ListsSessions(a)

LEMMA MomentsReply ==
  ASSUME NEW seq \in Seqs, NEW a \in AnswersTo(RT_LIST_MOMENTS, seq)
  PROVE  IsReply(a)
<1> DEFINE t == RT_LIST_MOMENTS
<1>1. t \in SentTypes /\ t # RT_LIST_SESSIONS
  BY DEF SentTypes, RT_LIST_MOMENTS, RT_LIST_SESSIONS
<1>2. AnswersTo(t, seq) = MomentsAnswers(seq)
  BY <1>1 DEF AnswersTo
<1>3. PICK n \in 0..Rows :
        \E columns \in SUBSET {"timestamps", "scores", "triage"} :
          a = Answer(t, seq, MomentsBody(n, columns), <<STATUS_SUCCESS>>, [i \in 1..n |-> Row(i, columns)])
  BY <1>2 DEF MomentsAnswers
<1>12. PICK columns :
         a = Answer(t, seq, MomentsBody(n, columns), <<STATUS_SUCCESS>>, [i \in 1..n |-> Row(i, columns)])
  BY <1>3
<1> DEFINE x == MomentsShown(n, columns)
           body == MomentsBody(n, columns)
           rows == MomentsRows(n, columns)
           s == STATUS_SUCCESS
<1>4. n \in Nat
  BY FitAssumption
<1>5. Piece(body, x) /\ StartsWith(x, Entry(1, FALSE, <<s>>))
  BY <1>4, MomentsPiece, MomentsStart
<1>6. a = Answer(t, seq, body, <<s>>, rows)
  BY <1>12 DEF MomentsRows
<1>7. a.type = t /\ a.body = body /\ a.status = <<s>> /\ a.rows = rows
  BY <1>6 DEF Answer
<1>8. a \in AnswersTo(t, seq)
  OBVIOUS
<1> HIDE DEF t, x, body, rows, s
<1>9. IsAnswer(a) /\ StatusIs(a) /\ Reads(body, x)
  BY <1>1, <1>5, <1>6, <1>8, GoodAnswer
<1>10. ListsMoments(a)
  BY <1>7, <1>9 DEF ListsMoments, x, rows, s
<1>11. ListsSessions(a)
  BY <1>1, <1>7 DEF ListsSessions
<1> QED
  BY <1>9, <1>10, <1>11 DEF IsReply

LEMMA SessionsReply ==
  ASSUME NEW seq \in Seqs, NEW a \in AnswersTo(RT_LIST_SESSIONS, seq)
  PROVE  IsReply(a)
<1> DEFINE t == RT_LIST_SESSIONS
<1>1. t \in SentTypes /\ t # RT_LIST_MOMENTS
  BY DEF SentTypes, RT_LIST_MOMENTS, RT_LIST_SESSIONS
<1>2. AnswersTo(t, seq) = SessionsAnswers(seq)
  BY <1>1 DEF AnswersTo
<1>3. PICK ids \in UNION {[1..n -> {1, Word - 1}] : n \in 0..Rows} :
        a = Answer(t, seq, SessionsBody(ids), <<STATUS_SUCCESS>>, ids)
  BY <1>2 DEF SessionsAnswers
<1>4. PICK n \in 0..Rows : ids \in [1..n -> {1, Word - 1}]
  BY <1>3
<1> DEFINE x == SessionsShown(ids)
           body == SessionsBody(ids)
           s == STATUS_SUCCESS
<1>5. n \in Nat
  BY FitAssumption
<1>6. ids \in [1..n -> 0..(Word - 1)] /\ ids \in [1..n -> Nat]
  <2>1. 1 \in 0..(Word - 1) /\ Word \in Nat \ {0}
    BY FirstFields, WordIs
  <2>2. Word - 1 \in 0..(Word - 1) /\ \A m \in 0..(Word - 1) : m \in Nat
    BY ONLY <2>1
  <2>3. \A i \in 1..n : ids[i] \in 0..(Word - 1)
    BY ONLY <1>4, <2>1, <2>2
  <2>4. \A i \in 1..n : ids[i] \in Nat
    BY ONLY <2>2, <2>3
  <2> QED
    BY <1>4, <2>3, <2>4
<1>7. Piece(body, x) /\ StartsWith(x, Entry(1, FALSE, <<s>>))
  BY <1>5, <1>6, SessionsPiece, SessionsStart
<1>8. a.type = t /\ a.body = body /\ a.status = <<s>> /\ a.rows = ids
  BY <1>3 DEF Answer
<1>9. a \in AnswersTo(t, seq) /\ a = Answer(t, seq, body, <<s>>, ids)
  BY <1>3
<1> HIDE DEF t, x, body, s
<1>10. IsAnswer(a) /\ StatusIs(a) /\ Reads(body, x)
  BY <1>1, <1>7, <1>9, GoodAnswer
<1>11. ListsSessions(a)
  BY <1>6, <1>8, <1>10 DEF ListsSessions, x, s
<1>12. ListsMoments(a)
  BY <1>1, <1>8 DEF ListsMoments
<1> QED
  BY <1>10, <1>11, <1>12 DEF IsReply

LEMMA StatusReply ==
  ASSUME NEW t \in SentTypes \ {RT_LIST_MOMENTS, RT_LIST_SESSIONS}, NEW seq \in Seqs,
         NEW a \in AnswersTo(t, seq)
  PROVE  IsReply(a)
<1>1. AnswersTo(t, seq) = StatusAnswers(t, seq)
  BY DEF AnswersTo
<1>2. \/ \E s \in {STATUS_SUCCESS, STATUS_FAILURE} : a = Answer(t, seq, Status(s), <<s>>, << >>)
      \/ a = Answer(t, seq, << >>, << >>, << >>)
  BY <1>1 DEF StatusAnswers
<1>3. a.type = t
  BY <1>2 DEF Answer
<1>4. ListsMoments(a) /\ ListsSessions(a)
  BY <1>3 DEF ListsMoments, ListsSessions
<1>5. CASE a = Answer(t, seq, << >>, << >>, << >>)
  <2>1. a.seq = seq /\ a.body = << >> /\ a.status = << >>
    BY <1>5 DEF Answer
  <2>2. Len(a.body) < Word /\ seq \in 0..(Word - 1)
    BY FitAssumption
  <2>3. IsAnswer(a)
    BY <1>3, <2>1, <2>2, EmptySeq DEF IsAnswer
  <2>4. StatusIs(a)
    BY <2>1 DEF StatusIs
  <2> QED
    BY <1>4, <2>3, <2>4 DEF IsReply
<1>6. ASSUME NEW s \in {STATUS_SUCCESS, STATUS_FAILURE}, a = Answer(t, seq, Status(s), <<s>>, << >>)
      PROVE  IsReply(a)
  <2> DEFINE x == <<Entry(1, FALSE, <<s>>)>>
             body == Status(s)
  <2>1. Piece(body, x) /\ StartsWith(x, Entry(1, FALSE, <<s>>))
    BY StatusPiece, StartOne
  <2>2. a = Answer(t, seq, body, <<s>>, << >>) /\ a \in AnswersTo(t, seq) /\ t \in SentTypes
    BY <1>6
  <2> HIDE DEF x, body
  <2>3. IsAnswer(a) /\ StatusIs(a)
    BY <2>1, <2>2, GoodAnswer
  <2> QED
    BY <1>4, <2>3 DEF IsReply
<1> QED
  BY <1>2, <1>5, <1>6

LEMMA AnswersAre ==
  ASSUME NEW t \in SentTypes, NEW seq \in Seqs, NEW a \in Answers(Request(t, seq))
  PROVE  IsReply(a) /\ a.type = t
<1>1. a \in AnswersTo(t, seq)
  BY RequestIs
<1>2. IsReply(a)
  BY <1>1, MomentsReply, SessionsReply, StatusReply
<1>3. a.type = t
  BY <1>1 DEF AnswersTo, MomentsAnswers, SessionsAnswers, StatusAnswers, Answer
<1> QED
  BY <1>2, <1>3

-----------------------------------------------------------------------------
(* The invariant: the mirror is what was told, and what is parsed is what  *)
(* the camera's latest message shows, entry for entry.                     *)
MessageIsRead ==
  \/ /\ indication = << >> /\ message.answer = NoAnswer
  \/ /\ indication = <<Shown(message.answer, message.reports)>>
     /\ message.answer = NoAnswer => Len(message.reports) > 0

MessageIsSound ==
  /\ message.reports \in Seq(Reports)
  /\ message.answer = NoAnswer \/ IsReply(message.answer)
  /\ message.answer # NoAnswer /\ message.answer.type = RT_KEEP_ALIVE => Len(message.reports) = 0

MsgInv == state \in Mirrors /\ told = state /\ MessageIsSound /\ MessageIsRead

LEMMA MsgStart == MsgInit => MsgInv
<1> SUFFICES ASSUME MsgInit PROVE MsgInv
  OBVIOUS
<1>1. message = [answer |-> NoAnswer, reports |-> << >>] /\ indication = << >>
      /\ state = NoState /\ told = NoState
  BY DEF MsgInit
<1>2. message.answer = NoAnswer /\ message.reports = << >>
  BY <1>1
<1>3. NoState \in Mirrors
  <2>1. << >> \in Seq(Nat)
    BY EmptySeq
  <2>2. \A a \in Attributes : NoState[a] = << >>
    BY DEF Attributes, NoState
  <2>3. NoState = [a \in Attributes |-> NoState[a]]
    BY DEF Attributes, NoState
  <2> QED
    BY <2>1, <2>2, <2>3 DEF Mirrors
<1>4. MessageIsSound
  BY <1>2, EmptySeq DEF MessageIsSound
<1>5. MessageIsRead
  BY <1>1, <1>2 DEF MessageIsRead
<1> QED
  BY <1>1, <1>3, <1>4, <1>5 DEF MsgInv

LEMMA ReceiveKeeps ==
  ASSUME MsgInv, NEW a, a = NoAnswer \/ IsReply(a), NEW reports \in Seq(Reports),
         a = NoAnswer => Len(reports) > 0,
         a # NoAnswer /\ a.type = RT_KEEP_ALIVE => Len(reports) = 0,
         Receive(a, reports)
  PROVE  MsgInv'
<1>1. a = NoAnswer \/ IsAnswer(a)
  BY DEF IsReply
<1>2. Len(Outer(a, reports)) < Word
  BY DEF Receive
<1>3. ParsePb(StripBqs(BqsFrame(Outer(a, reports)))) = <<Shown(a, reports)>>
  BY <1>1, <1>2, ReceivedIsShown
<1>4. /\ message' = [answer |-> a, reports |-> reports]
      /\ indication' = <<Shown(a, reports)>>
      /\ state' = Classified(state, <<Shown(a, reports)>>)
      /\ told' = Heard(told, reports)
  BY <1>3 DEF Receive, Take
<1>5. state \in Mirrors /\ told = state
  BY DEF MsgInv
<1>6. state' = told' /\ state' \in Mirrors
  BY <1>1, <1>4, <1>5, ClassifiedIsHeard
<1>7. message'.answer = a /\ message'.reports = reports
  BY <1>4
<1>8. MessageIsSound'
  BY <1>7 DEF MessageIsSound
<1>9. MessageIsRead'
  BY <1>4, <1>7 DEF MessageIsRead
<1> QED
  BY <1>6, <1>8, <1>9 DEF MsgInv

LEMMA MsgStep == MsgInv /\ [MsgNext]_msgVars => MsgInv'
<1> SUFFICES ASSUME MsgInv, [MsgNext]_msgVars PROVE MsgInv'
  OBVIOUS
<1>1. ASSUME Notify PROVE MsgInv'
  <2>1. PICK r \in Reports :
          Receive(NoAnswer, <<r>>) \/ Receive(NoAnswer, Append(message.reports, r))
    BY <1>1 DEF Notify
  <2>2. <<r>> \in Seq(Reports) /\ Len(<<r>>) > 0
    OBVIOUS
  <2>3. message.reports \in Seq(Reports)
    BY DEF MsgInv, MessageIsSound
  <2>4. Append(message.reports, r) \in Seq(Reports) /\ Len(Append(message.reports, r)) > 0
    BY <2>3, AppendProperties, LenProperties
  <2> DEFINE reports1 == <<r>>
             reports2 == Append(message.reports, r)
  <2> HIDE DEF reports1, reports2
  <2>5. ASSUME Receive(NoAnswer, reports1) PROVE MsgInv'
    BY <2>2, <2>5, ReceiveKeeps DEF reports1
  <2>6. ASSUME Receive(NoAnswer, reports2) PROVE MsgInv'
    BY <2>4, <2>6, ReceiveKeeps DEF reports2
  <2> QED
    BY <2>1, <2>5, <2>6 DEF reports1, reports2
<1>2. ASSUME AnswerRequest PROVE MsgInv'
  <2>1. PICK t \in SentTypes, seq \in Seqs : \E a \in Answers(Request(t, seq)) :
          \/ Receive(a, << >>)
          \/ t # RT_KEEP_ALIVE /\ \E r \in Reports : Receive(a, <<r>>)
    BY <1>2 DEF AnswerRequest
  <2>2. PICK a \in Answers(Request(t, seq)) :
          \/ Receive(a, << >>)
          \/ t # RT_KEEP_ALIVE /\ \E r \in Reports : Receive(a, <<r>>)
    BY <2>1
  <2>3. IsReply(a) /\ a.type = t /\ a # NoAnswer
    <3>1. IsReply(a) /\ a.type = t
      BY AnswersAre
    <3> QED
      BY <3>1, AnswerIsOne DEF IsReply
  <2>4. ASSUME Receive(a, << >>) PROVE MsgInv'
    <3>1. << >> \in Seq(Reports) /\ Len(<< >>) = 0
      BY EmptySeq
    <3> QED
      BY <2>3, <2>4, <3>1, ReceiveKeeps
  <2>5. ASSUME NEW r \in Reports, t # RT_KEEP_ALIVE, Receive(a, <<r>>) PROVE MsgInv'
    <3>1. <<r>> \in Seq(Reports)
      OBVIOUS
    <3> QED
      BY <2>3, <2>5, <3>1, ReceiveKeeps
  <2> QED
    BY <2>2, <2>4, <2>5
<1>3. ASSUME UNCHANGED msgVars PROVE MsgInv'
  BY <1>3 DEF msgVars, MsgInv, MessageIsSound, MessageIsRead
<1> QED
  BY <1>1, <1>2, <1>3 DEF MsgNext

LEMMA MsgHolds == MsgSpec => []MsgInv
<1>1. MsgInit => MsgInv
  BY MsgStart
<1>2. MsgInv /\ [MsgNext]_msgVars => MsgInv'
  BY MsgStep
<1> QED
  BY <1>1, <1>2, PTL DEF MsgSpec

(* The mirror is what the camera last said, attribute by attribute, for    *)
(* every set of reported numbers, every packing and any number of messages *)
(* (CameraState.update_from, _apply; proto.py).                            *)
THEOREM StateIsMirrored == MsgSpec => []MirrorIsWhatWasTold
<1>1. MsgInv => MirrorIsWhatWasTold
  BY DEF MsgInv, MirrorIsWhatWasTold
<1> QED
  BY <1>1, MsgHolds, PTL

LEMMA ReadsReachTheirRequest == MsgInv => AnswersReachTheirRequest
<1> SUFFICES ASSUME MsgInv PROVE AnswersReachTheirRequest
  OBVIOUS
<1> DEFINE a == message.answer
           reports == message.reports
           taken == {t \in SentTypes \ {RT_KEEP_ALIVE} : Matches(indication, ResponseField(t))}
<1>1. /\ reports \in Seq(Reports) /\ (a = NoAnswer \/ (IsAnswer(a) /\ StatusIs(a)))
      /\ (a # NoAnswer /\ a.type = RT_KEEP_ALIVE => Len(reports) = 0)
  <2>1. MessageIsSound
    BY DEF MsgInv
  <2>2. /\ reports \in Seq(Reports) /\ (a = NoAnswer \/ IsReply(a))
        /\ (a # NoAnswer /\ a.type = RT_KEEP_ALIVE => Len(reports) = 0)
    BY ONLY <2>1 DEF MessageIsSound
  <2>3. IsReply(a) => IsAnswer(a) /\ StatusIs(a)
    BY DEF IsReply
  <2> QED
    BY ONLY <2>2, <2>3, Zenon
<1>2. \/ indication = << >> /\ a = NoAnswer
      \/ indication = <<Shown(a, reports)>> /\ (a = NoAnswer => Len(reports) > 0)
  BY DEF MsgInv, MessageIsRead
<1>3. AnswersReachTheirRequest <=>
        IF a = NoAnswer \/ a.type = RT_KEEP_ALIVE
          THEN taken = {} /\ (indication # << >> => Absorbed(indication))
          ELSE /\ taken = {a.type}
               /\ ~Absorbed(indication)
               /\ IsSuccess(indication, a.type) <=> a.status = <<STATUS_SUCCESS>>
  BY DEF AnswersReachTheirRequest
<1>4. CASE indication = << >> /\ a = NoAnswer
  <2>1. taken = {}
    BY <1>4 DEF Matches, Malformed
  <2> HIDE DEF a, taken
  <2> QED
    BY <1>3, <1>4, <2>1
<1>5. CASE indication = <<Shown(a, reports)>> /\ (a = NoAnswer => Len(reports) > 0)
  <2> DEFINE pt == <<Shown(a, reports)>>
  <2>0. indication = pt
    BY <1>5
  <2>1. taken = Takers(a, reports)
    BY <1>5 DEF Takers
  <2> HIDE DEF a, reports, taken
  <2>2. taken = IF a = NoAnswer \/ a.type = RT_KEEP_ALIVE THEN {} ELSE {a.type}
    BY <1>1, <2>1, TakersAre
  <2>3. Absorbed(pt) <=> a = NoAnswer \/ a.type = RT_KEEP_ALIVE
    BY <1>1, <1>5, AbsorbedShown
  <2>4. a # NoAnswer => (IsSuccess(pt, a.type) <=> a.status = <<STATUS_SUCCESS>>)
    BY <1>1, SuccessIs
  <2> HIDE DEF pt
  <2> QED
    BY ONLY <1>3, <2>0, <2>2, <2>3, <2>4
<1> QED
  BY <1>2, <1>4, <1>5

(* An answer goes to the request of its type and to no other, state and    *)
(* keepalive answers to none, and success is read where it was written,    *)
(* for every sequence number and every message (_classify, _matches,       *)
(* is_success).                                                            *)
THEOREM AnswersFindTheirRequest == MsgSpec => []AnswersReachTheirRequest
BY MsgHolds, ReadsReachTheirRequest, PTL

-----------------------------------------------------------------------------
(* Where the parts of a flattened sequence of byte strings stand in it.    *)
LEMMA StandsThrough ==
  ASSUME NEW s \in Seq(Byte), NEW t \in Seq(Byte), NEW u \in Seq(Byte), NEW k \in Nat,
         StandsIn(s, t, k), StandsIn(t, u, 0), k + Len(s) <= Len(t)
  PROVE  StandsIn(s, u, k)
<1> SUFFICES ASSUME NEW i \in Place, i <= Len(s) PROVE u[i + k] = s[i]
  BY DEF StandsIn
<1>1. Len(s) \in Nat /\ Len(t) \in Nat
  BY LenProperties
<1>2. i + k \in Place /\ i + k <= Len(t) /\ (i + k) + 0 = i + k
  BY <1>1 DEF Place
<1>3. u[(i + k) + 0] = t[i + k] /\ t[i + k] = s[i]
  BY <1>2 DEF StandsIn
<1> QED
  BY <1>2, <1>3

LEMMA StandsCut ==
  ASSUME NEW s \in Seq(Byte), NEW u \in Seq(Byte), NEW k \in Nat,
         StandsIn(s, u, k), k + Len(s) <= Len(u)
  PROVE  SubSeq(u, k + 1, k + Len(s)) = s
<1> DEFINE n == Len(s)
<1>1. n \in Nat /\ Len(u) \in Nat /\ 1 \in Place /\ 1 <= n + 1 /\ n <= Len(s) /\ n + k <= Len(u)
  BY LenProperties DEF Place
<1>2. SamePiece(s, u, k, 1, n)
  BY <1>1 DEF SamePiece, StandsIn
<1> HIDE DEF n
<1>3. CutsAlike(s, u, k, 1, n)
  BY <1>2, SameCut
<1>4. SubSeq(u, 1 + k, n + k) = SubSeq(s, 1, n)
  BY ONLY <1>3 DEF CutsAlike
<1>5. 1 + k = k + 1 /\ n + k = k + n
  BY <1>1
<1>6. SubSeq(s, 1, n) = s
  BY SubSeqFull DEF n
<1> QED
  BY ONLY <1>4, <1>5, <1>6, Zenon DEF n

(* Where the i-th ends.                                                    *)
EndOf(seqs, i) == IF i = 0 THEN 0 ELSE Len(FlatFrom(seqs)[i])

LEMMA EndsAre ==
  ASSUME NEW seqs \in Seq(Seq(Byte))
  PROVE  /\ EndOf(seqs, 0) = 0
         /\ \A i \in 0..Len(seqs) : EndOf(seqs, i) \in Nat
         /\ \A i \in 1..Len(seqs) : EndOf(seqs, i) = EndOf(seqs, i - 1) + Len(seqs[i])
         /\ FlattenSeq(seqs) \in Seq(Byte) /\ Len(FlattenSeq(seqs)) = EndOf(seqs, Len(seqs))
<1> DEFINE n == Len(seqs)
           F == FlatFrom(seqs)
<1>0. n \in Nat /\ \A i \in 1..n : seqs[i] \in Seq(Byte)
  BY LenProperties, ElementOfSeq
<1>1. /\ F \in [1..n -> Seq(Byte)]
      /\ \A i \in 1..n : F[i] = IF i = 1 THEN seqs[i] ELSE F[i - 1] \o seqs[i]
  BY FlatDef
<1>2. FlattenSeq(seqs) = IF n = 0 THEN seqs ELSE F[n]
  BY DEF FlattenSeq, FlatFrom
<1>3. \A i : EndOf(seqs, i) = IF i = 0 THEN 0 ELSE Len(F[i])
  BY DEF EndOf
<1> HIDE DEF F
<1>4. \A i \in 1..n : F[i] \in Seq(Byte) /\ Len(F[i]) \in Nat
  BY <1>1, LenProperties
<1>5. \A i \in 0..n : EndOf(seqs, i) \in Nat
  BY <1>0, <1>3, <1>4
<1>6. ASSUME NEW i \in 1..n PROVE EndOf(seqs, i) = EndOf(seqs, i - 1) + Len(seqs[i])
  <2>1. Len(seqs[i]) \in Nat /\ EndOf(seqs, i) = Len(F[i])
    BY <1>0, <1>3, LenProperties
  <2>2. CASE i = 1
    <3>1. i - 1 = 0
      BY <2>2
    <3>2. F[i] = seqs[i] /\ EndOf(seqs, i - 1) = 0
      BY <1>1, <1>3, <2>2, <3>1
    <3> QED
      BY <2>1, <3>2
  <2>3. CASE i # 1
    <3>1. i - 1 \in 1..n /\ i - 1 # 0
      BY <1>0, <2>3
    <3>2. F[i] = F[i - 1] \o seqs[i] /\ EndOf(seqs, i - 1) = Len(F[i - 1])
      BY <1>1, <1>3, <2>3, <3>1
    <3>3. Len(F[i - 1] \o seqs[i]) = Len(F[i - 1]) + Len(seqs[i])
      BY <1>0, <1>4, <3>1, ConcatProperties
    <3> QED
      BY <2>1, <3>2, <3>3
  <2> QED
    BY <2>2, <2>3
<1>7. FlattenSeq(seqs) \in Seq(Byte)
  BY FlattenedBytes
<1>8. Len(FlattenSeq(seqs)) = EndOf(seqs, n)
  <2>1. CASE n = 0
    <3>1. FlattenSeq(seqs) = seqs
      BY <1>2, <2>1
    <3> QED
      BY <1>3, <2>1, <3>1 DEF n
  <2>2. CASE n # 0
    BY <1>2, <1>3, <2>2
  <2> QED
    BY <2>1, <2>2
<1> QED
  BY <1>3, <1>5, <1>6, <1>7, <1>8

LEMMA PartsStand ==
  ASSUME NEW seqs \in Seq(Seq(Byte))
  PROVE  \A i \in 1..Len(seqs) :
           /\ EndOf(seqs, i) <= Len(FlattenSeq(seqs))
           /\ StandsIn(seqs[i], FlattenSeq(seqs), EndOf(seqs, i - 1))
<1> DEFINE n == Len(seqs)
           F == FlatFrom(seqs)
           E(i) == EndOf(seqs, i)
           P == {k \in Nat : k \in 1..n =>
                               \A i \in 1..k : E(i) <= E(k) /\ StandsIn(seqs[i], F[k], E(i - 1))}
<1>0. n \in Nat /\ \A i \in 1..n : seqs[i] \in Seq(Byte)
  BY LenProperties, ElementOfSeq
<1>1. /\ F \in [1..n -> Seq(Byte)]
      /\ \A i \in 1..n : F[i] = IF i = 1 THEN seqs[i] ELSE F[i - 1] \o seqs[i]
  BY FlatDef
<1>2. FlattenSeq(seqs) = IF n = 0 THEN seqs ELSE F[n]
  BY DEF FlattenSeq, FlatFrom
<1>3. /\ E(0) = 0 /\ \A i \in 0..n : E(i) \in Nat
      /\ \A i \in 1..n : E(i) = E(i - 1) + Len(seqs[i])
  BY EndsAre
<1>4. \A i \in 1..n : E(i) = Len(F[i])
  BY <1>0 DEF EndOf
<1>5. \A i \in 1..n : F[i] \in Seq(Byte) /\ Len(seqs[i]) \in Nat
  BY <1>0, <1>1, LenProperties
<1> HIDE DEF F, E, n
<1>6. 0 \in P
  OBVIOUS
<1>7. ASSUME NEW k \in P PROVE k + 1 \in P
  <2> SUFFICES ASSUME k + 1 \in 1..n, NEW i \in 1..(k + 1)
               PROVE  E(i) <= E(k + 1) /\ StandsIn(seqs[i], F[k + 1], E(i - 1))
    OBVIOUS
  <2>0. k \in Nat /\ k <= n /\ (k + 1) - 1 = k /\ (k + 1 = 1 <=> k = 0)
    BY <1>0
  <2>1. E(k + 1) = E(k) + Len(seqs[k + 1]) /\ Len(seqs[k + 1]) \in Nat
    BY <1>3, <1>5, <2>0
  <2>2. CASE k = 0
    <3>1. i = 1 /\ i - 1 = 0 /\ k + 1 = 1 /\ 1 \in 1..n
      BY <2>2
    <3>2. F[1] = seqs[1] /\ E(0) = 0 /\ E(1) \in Nat
      <4>1. 1 \in 0..n
        BY <1>0, <3>1
      <4> QED
        BY <1>1, <1>3, <3>1, <4>1
    <3>3. StandsIn(seqs[1], seqs[1], 0)
      BY DEF StandsIn, Place
    <3> QED
      BY <3>1, <3>2, <3>3
  <2>3. CASE k # 0
    <3>1. k \in 1..n
      BY <2>0, <2>3
    <3>2. F[k + 1] = F[k] \o seqs[k + 1]
      BY <1>1, <2>0, <2>3
    <3>3. F[k] \in Seq(Byte) /\ seqs[k + 1] \in Seq(Byte) /\ Len(F[k]) = E(k) /\ E(k) \in Nat
      BY <1>0, <1>3, <1>4, <1>5, <3>1
    <3>4. StandsIn(F[k], F[k + 1], 0) /\ StandsIn(seqs[k + 1], F[k + 1], E(k)) /\ F[k + 1] \in Seq(Byte)
      BY <3>2, <3>3, Joins
    <3>5. CASE i = k + 1
      <4>1. i - 1 = k /\ E(k + 1) <= E(k + 1)
        BY <2>0, <2>1, <3>3, <3>5
      <4> QED
        BY <3>4, <3>5, <4>1
    <3>6. CASE i # k + 1
      <4>1. i \in 1..k
        BY <2>0, <3>6
      <4>2. E(i) <= E(k) /\ StandsIn(seqs[i], F[k], E(i - 1))
        BY <3>1, <4>1
      <4>3. i \in 1..n /\ i - 1 \in 0..n
        BY <1>0, <2>0, <4>1
      <4>4. E(i) \in Nat /\ E(i - 1) \in Nat /\ E(i) = E(i - 1) + Len(seqs[i]) /\ seqs[i] \in Seq(Byte)
        BY <1>0, <1>3, <4>3
      <4>5. E(i - 1) + Len(seqs[i]) <= Len(F[k])
        BY <3>3, <4>2, <4>4
      <4> DEFINE s == seqs[i]
                 t == F[k]
                 u == F[k + 1]
                 m == E(i - 1)
      <4>6. /\ s \in Seq(Byte) /\ t \in Seq(Byte) /\ u \in Seq(Byte) /\ m \in Nat
            /\ StandsIn(s, t, m) /\ StandsIn(t, u, 0) /\ m + Len(s) <= Len(t)
        BY <3>3, <3>4, <4>2, <4>4, <4>5
      <4> HIDE DEF s, t, u, m
      <4>7. StandsIn(s, u, m)
        BY ONLY <4>6, StandsThrough
      <4>8. E(i) <= E(k + 1)
        BY <2>1, <3>3, <4>2, <4>4
      <4> QED
        BY <4>7, <4>8 DEF s, u, m
    <3> QED
      BY <3>5, <3>6
  <2> QED
    BY <2>2, <2>3
<1>8. P = Nat
  <2>1. P \in SUBSET Nat
    BY DEF P
  <2> HIDE DEF P
  <2> QED
    BY <1>6, <1>7, <2>1, Induction
<1>9. n # 0 => \A i \in 1..n : E(i) <= E(n) /\ StandsIn(seqs[i], F[n], E(i - 1))
  <2>1. n \in P
    BY <1>0, <1>8
  <2>2. n # 0 => n \in 1..n
    BY <1>0
  <2> QED
    BY <2>1, <2>2
<1>10. Len(FlattenSeq(seqs)) = E(n)
  BY EndsAre DEF E, n
<1>11. n = 0 => 1..n = {}
  OBVIOUS
<1> QED
  BY <1>2, <1>9, <1>10, <1>11 DEF E, n

LEMMA PartOfFlat ==
  ASSUME NEW seqs \in Seq(Seq(Byte)), NEW i \in 1..Len(seqs)
  PROVE  SubSeq(FlattenSeq(seqs), EndOf(seqs, i - 1) + 1, EndOf(seqs, i)) = seqs[i]
<1> DEFINE s == seqs[i]
           u == FlattenSeq(seqs)
           k == EndOf(seqs, i - 1)
<1>1. i - 1 \in 0..Len(seqs) /\ s \in Seq(Byte)
  BY LenProperties, ElementOfSeq
<1>2. u \in Seq(Byte) /\ k \in Nat /\ EndOf(seqs, i) = k + Len(s)
  BY <1>1, EndsAre
<1>3. StandsIn(s, u, k) /\ k + Len(s) <= Len(u)
  BY <1>2, PartsStand
<1> HIDE DEF s, u, k
<1>4. SubSeq(u, k + 1, k + Len(s)) = s
  BY ONLY <1>1, <1>2, <1>3, StandsCut
<1> QED
  BY <1>2, <1>4 DEF s, u, k

-----------------------------------------------------------------------------
(* The reader of packed varints.                                           *)
LEMMA VarintNext ==
  ASSUME NEW s \in Seq(Byte), NEW p \in Place, ReadVarint(s, p) # Malformed
  PROVE  /\ ReadVarint(s, p)[1] \in Nat /\ ReadVarint(s, p)[2] \in Place
         /\ p < ReadVarint(s, p)[2]
<1>1. PICK q \in Place : /\ p <= q /\ q <= Len(s)
                         /\ ReadVarint(s, p) = <<VarintValue(SubSeq(s, p, q)), q + 1>>
                         /\ VarintValue(SubSeq(s, p, q)) \in Nat
  BY VarintFound
<1>2. q + 1 \in Place /\ p < q + 1
  BY <1>1 DEF Place
<1> QED
  BY <1>1, <1>2

LEMMA PackedDef ==
  ASSUME NEW s \in Seq(Byte)
  PROVE  /\ PackedFrom(s) \in [Place -> {Malformed} \cup {<<x>> : x \in Seq(Nat)}]
         /\ \A pos \in Place : PackedFrom(s)[pos] =
              IF pos > Len(s) THEN << << >> >>
              ELSE IF ReadVarint(s, pos) = Malformed THEN Malformed
              ELSE IF PackedFrom(s)[ReadVarint(s, pos)[2]] = Malformed THEN Malformed
              ELSE << <<ReadVarint(s, pos)[1]>> \o PackedFrom(s)[ReadVarint(s, pos)[2]][1] >>
<1> DEFINE V == {Malformed} \cup {<<x>> : x \in Seq(Nat)}
           Rule(pos, f) == IF pos > Len(s) THEN << << >> >>
                           ELSE IF ReadVarint(s, pos) = Malformed THEN Malformed
                           ELSE IF f[ReadVarint(s, pos)[2]] = Malformed THEN Malformed
                           ELSE << <<ReadVarint(s, pos)[1]>> \o f[ReadVarint(s, pos)[2]][1] >>
           body == [p \in Place \X [Place -> V] |-> Rule(p[1], p[2])]
           rank == Ahead(Len(s))
<1>0. rank \in [Place -> Nat]
  BY LenProperties, AheadIs
<1>1. ASSUME NEW pos \in Place, NEW f \in [Place -> V] PROVE Rule(pos, f) \in V
  <2>1. << << >> >> \in V
    BY EmptySeq
  <2>2. ASSUME ReadVarint(s, pos) # Malformed, f[ReadVarint(s, pos)[2]] # Malformed
        PROVE  << <<ReadVarint(s, pos)[1]>> \o f[ReadVarint(s, pos)[2]][1] >> \in V
    <3>1. ReadVarint(s, pos)[2] \in Place /\ ReadVarint(s, pos)[1] \in Nat
      BY <2>2, VarintNext
    <3>2. PICK x \in Seq(Nat) : f[ReadVarint(s, pos)[2]] = <<x>>
      BY <2>2, <3>1
    <3>3. <<ReadVarint(s, pos)[1]>> \in Seq(Nat)
      BY <3>1
    <3>4. <<ReadVarint(s, pos)[1]>> \o x \in Seq(Nat)
      BY <3>3, ConcatProperties
    <3>5. f[ReadVarint(s, pos)[2]][1] = x
      BY <3>2
    <3> QED
      BY <3>4, <3>5
  <2>3. Malformed \in V
    OBVIOUS
  <2> HIDE DEF V
  <2> QED
    BY <2>1, <2>2, <2>3
<1>2. ASSUME NEW pos \in Place, NEW g, NEW h,
             \A m \in Place : rank[m] < rank[pos] => g[m] = h[m]
      PROVE  Rule(pos, g) = Rule(pos, h)
  <2>1. ASSUME ~(pos > Len(s)), ReadVarint(s, pos) # Malformed
        PROVE  g[ReadVarint(s, pos)[2]] = h[ReadVarint(s, pos)[2]]
    <3>1. ReadVarint(s, pos)[2] \in Place /\ pos < ReadVarint(s, pos)[2]
      BY <2>1, VarintNext
    <3>2. Len(s) \in Nat /\ pos <= Len(s)
      BY <2>1, LenProperties DEF Place
    <3>3. rank[ReadVarint(s, pos)[2]] < rank[pos]
      BY <3>1, <3>2, AheadIs
    <3> QED
      BY <1>2, <3>1, <3>3
  <2> QED
    BY <2>1
<1> HIDE DEF Rule, rank
<1>3. body \in [Place \X [Place -> V] -> V]
  BY <1>1
<1>4. LooksDown(Place, V, rank, body)
  <2>1. ASSUME NEW pos \in Place, NEW g \in [Place -> V], NEW h \in [Place -> V],
               \A m \in Place : rank[m] < rank[pos] => g[m] = h[m]
        PROVE  body[<<pos, g>>] = body[<<pos, h>>]
    <3>1. Rule(pos, g) = Rule(pos, h)
      BY <1>2, <2>1
    <3> QED
      BY <3>1
  <2> HIDE DEF body, V
  <2> QED
    BY <2>1 DEF LooksDown
<1>5. PICK f \in [Place -> V] : Solves(f, Place, body)
  <2>1. V # {}
    OBVIOUS
  <2> HIDE DEF body, V
  <2> QED
    BY <1>0, <1>3, <1>4, <2>1, Recursion
<1>6. f = [pos \in Place |-> Rule(pos, f)]
  BY <1>5 DEF Solves
<1>7. PackedFrom(s) = [pos \in Place |-> Rule(pos, PackedFrom(s))]
  BY <1>6 DEF PackedFrom, Rule
<1>8. PackedFrom(s) = f
  <2> DEFINE F == PackedFrom(s)
  <2>1. F = [pos \in Place |-> Rule(pos, F)]
    BY <1>7
  <2> HIDE DEF F, V, body
  <2>2. ASSUME NEW pos \in Place, \A m \in Place : rank[m] < rank[pos] => F[m] = f[m]
        PROVE  F[pos] = f[pos]
    <3>1. Rule(pos, F) = Rule(pos, f)
      BY <1>2, <2>2
    <3> QED
      BY <1>6, <2>1, <3>1
  <2> DEFINE T == Place
  <2>3. Follows(F, f, T, rank) /\ rank \in [T -> Nat]
    BY <1>0, <2>2 DEF Follows
  <2> HIDE DEF T
  <2>4. \A pos \in T : F[pos] = f[pos]
    BY <2>3, SameSolution
  <2>5. F = f
    BY <1>6, <2>1, <2>4 DEF T
  <2> QED
    BY <2>5 DEF F
<1> QED
  BY <1>7, <1>8 DEF Rule

LEMMA PackedReads ==
  ASSUME NEW values \in Seq(Nat), \A i \in 1..Len(values) : values[i] < Word
  PROVE  /\ ParsePackedVarints(PackedVarints(values)) = <<values>>
         /\ PackedVarints(values) \in Seq(Byte)
<1> DEFINE n == Len(values)
           seqs == [i \in 1..n |-> Varint(values[i])]
           s == PackedVarints(values)
           F == PackedFrom(s)
           At(i) == EndOf(seqs, i - 1) + 1
           P == {j \in Nat : j <= n => F[At(n + 1 - j)] = <<Part(values, n + 1 - j, n)>>}
<1>1. n \in Nat /\ DOMAIN values = 1..n /\ \A i \in 1..n : values[i] \in Nat /\ values[i] \in Int
  BY LenProperties, ElementOfSeq
<1>2. ASSUME NEW i \in 1..n
      PROVE  /\ Varint(values[i]) \in Seq(Byte) /\ IsVarint(Varint(values[i]))
             /\ VarintValue(Varint(values[i])) = values[i]
  <2>1. values[i] \in 0..(Word - 1)
    <3>1. values[i] < Word /\ Word \in Nat
      BY WordIs
    <3> QED
      BY <1>1, <3>1
  <2>2. values[i] % Word = values[i]
    BY <2>1, Wrapped
  <2> QED
    BY <1>1, <2>2, VarintMeans
<1> HIDE DEF n
<1>3. seqs \in Seq(Seq(Byte)) /\ Len(seqs) = n
  <2>1. seqs \in [1..n -> Seq(Byte)]
    BY <1>2
  <2>2. seqs \in Seq(Seq(Byte))
    BY <1>1, <2>1
  <2>3. DOMAIN seqs = 1..n
    BY <2>1
  <2> QED
    BY <1>1, <2>2, <2>3, LenProperties
<1>4. s = FlattenSeq(seqs)
  BY <1>1 DEF PackedVarints
<1>5. \A i \in 1..n : seqs[i] = Varint(values[i])
  OBVIOUS
<1> HIDE DEF seqs
<1>6. /\ EndOf(seqs, 0) = 0 /\ \A i \in 0..n : EndOf(seqs, i) \in Nat
      /\ \A i \in 1..n : EndOf(seqs, i) = EndOf(seqs, i - 1) + Len(seqs[i])
      /\ s \in Seq(Byte) /\ Len(s) = EndOf(seqs, n)
  BY <1>3, <1>4, EndsAre
<1>7. \A i \in 1..n : EndOf(seqs, i) <= Len(s)
                      /\ SubSeq(s, EndOf(seqs, i - 1) + 1, EndOf(seqs, i)) = seqs[i]
  BY <1>3, <1>4, PartsStand, PartOfFlat
<1> HIDE DEF s
<1>8. \A pos \in Place : F[pos] =
         IF pos > Len(s) THEN << << >> >>
         ELSE IF ReadVarint(s, pos) = Malformed THEN Malformed
         ELSE IF F[ReadVarint(s, pos)[2]] = Malformed THEN Malformed
         ELSE << <<ReadVarint(s, pos)[1]>> \o F[ReadVarint(s, pos)[2]][1] >>
  BY <1>6, PackedDef
<1> HIDE DEF F
<1>9. ASSUME NEW i \in 1..n
      PROVE  /\ At(i) \in Place /\ At(i) <= Len(s) /\ At(i + 1) \in Place
             /\ ReadVarint(s, At(i)) = <<values[i], At(i + 1)>>
  <2> DEFINE p == EndOf(seqs, i - 1) + 1
             q == EndOf(seqs, i)
  <2>1. (i + 1) - 1 = i /\ i - 1 \in 0..n /\ i \in 0..n
    BY <1>1
  <2>2. EndOf(seqs, i - 1) \in Nat /\ q \in Nat /\ q <= Len(s) /\ SubSeq(s, p, q) = Varint(values[i])
    BY <1>5, <1>6, <1>7, <2>1
  <2>3. p \in Place /\ At(i) = p /\ At(i + 1) = q + 1 /\ q + 1 \in Place
    <3>1. At(i) = p /\ At(i + 1) = q + 1
      BY <2>1
    <3>2. EndOf(seqs, i - 1) + 1 \in Place /\ q + 1 \in Place
      <4> HIDE DEF q
      <4> QED
        BY <2>2 DEF Place
    <3> QED
      BY <3>1, <3>2
  <2>4. Len(seqs[i]) \in Nat /\ q = EndOf(seqs, i - 1) + Len(seqs[i])
    BY <1>2, <1>5, <1>6, LenProperties
  <2>5. p <= q + 1
    BY <2>2, <2>4
  <2>6. p \in Place /\ q \in Nat /\ p <= q + 1 /\ q <= Len(s) /\ IsVarint(SubSeq(s, p, q))
    BY <1>2, <2>2, <2>3, <2>5
  <2>7. VarintValue(SubSeq(s, p, q)) = values[i]
    BY <1>2, <2>2
  <2> HIDE DEF p, q, At
  <2>8. ReadVarint(s, p) = <<VarintValue(SubSeq(s, p, q)), q + 1>> /\ p <= q
    BY <1>6, <2>6, VarintRead
  <2>9. p <= Len(s)
    BY <1>6, <2>6, <2>8, LenProperties DEF Place
  <2> QED
    BY <2>3, <2>7, <2>8, <2>9
<1>10. 0 \in P
  <2>1. n + 1 - 0 = n + 1 /\ (n + 1) - 1 = n
    BY <1>1
  <2>2. At(n + 1) = Len(s) + 1 /\ At(n + 1) \in Place /\ At(n + 1) > Len(s)
    BY <1>1, <1>6, <2>1 DEF Place
  <2>3. F[At(n + 1)] = << << >> >>
    BY <1>8, <2>2
  <2>4. Part(values, n + 1, n) = << >>
    BY <1>1, SubSeqEmpty DEF Part
  <2> HIDE DEF At
  <2> QED
    BY <2>1, <2>3, <2>4
<1>11. ASSUME NEW j \in P PROVE j + 1 \in P
  <2> SUFFICES ASSUME j + 1 <= n
               PROVE  F[At(n + 1 - (j + 1))] = <<Part(values, n + 1 - (j + 1), n)>>
    OBVIOUS
  <2> DEFINE i == n + 1 - (j + 1)
  <2>1. i \in 1..n /\ n + 1 - j = i + 1 /\ i + 1 \in Nat /\ n \in i..n
    BY <1>1
  <2>2. F[At(i + 1)] = <<Part(values, i + 1, n)>>
    BY <1>1, <2>1
  <2>3. /\ At(i) \in Place /\ At(i) <= Len(s) /\ At(i + 1) \in Place
        /\ ReadVarint(s, At(i)) = <<values[i], At(i + 1)>>
    BY <1>9, <2>1
  <2>4. Part(values, i, n) = <<values[i]>> \o Part(values, i + 1, n)
    BY <2>1, SubSeqRecursiveFirst DEF Part, n
  <2> HIDE DEF i, At
  <2>5. Len(s) \in Nat /\ ~(At(i) > Len(s))
    BY <1>6, <2>3, LenProperties DEF Place
  <2>6. ReadVarint(s, At(i)) # Malformed /\ F[At(i + 1)] # Malformed
    BY <2>2, <2>3 DEF Malformed
  <2>7. ReadVarint(s, At(i))[1] = values[i] /\ ReadVarint(s, At(i))[2] = At(i + 1)
    BY <2>3
  <2>8. F[At(i)] = << <<values[i]>> \o F[At(i + 1)][1] >>
    BY <1>8, <2>3, <2>5, <2>6, <2>7
  <2>9. F[At(i + 1)][1] = Part(values, i + 1, n)
    BY <2>2
  <2> QED
    BY <2>4, <2>8, <2>9 DEF i
<1>12. P = Nat
  <2>1. P \in SUBSET Nat
    BY DEF P
  <2> HIDE DEF P
  <2> QED
    BY <1>10, <1>11, <2>1, Induction
<1>13. n \in P /\ n + 1 - n = 1 /\ n <= n
  <2>1. n + 1 - n = 1 /\ n <= n
    BY <1>1
  <2> HIDE DEF P
  <2> QED
    BY <1>1, <1>12, <2>1
<1>14. At(1) = 1
  BY <1>6
<1>15. F[1] = <<Part(values, 1, n)>>
  BY <1>13, <1>14
<1>16. Part(values, 1, n) = values
  BY SubSeqFull DEF Part, n
<1> QED
  BY <1>6, <1>15, <1>16 DEF ParsePackedVarints, F, s

-----------------------------------------------------------------------------
(* Columns of values of one size.                                          *)
LEMMA EvenlyDivided ==
  ASSUME NEW n \in Nat, NEW size \in Nat \ {0}
  PROVE  (size * n) \div size = n
OBVIOUS

LEMMA EvenEnds ==
  ASSUME NEW size \in Nat \ {0}, NEW seqs \in Seq(Seq(Byte)),
         \A i \in 1..Len(seqs) : Len(seqs[i]) = size
  PROVE  \A i \in 0..Len(seqs) : EndOf(seqs, i) = size * i
<1> DEFINE n == Len(seqs)
           P == {i \in Nat : i <= n => EndOf(seqs, i) = size * i}
<1>1. /\ EndOf(seqs, 0) = 0 /\ \A i \in 0..n : EndOf(seqs, i) \in Nat
      /\ \A i \in 1..n : EndOf(seqs, i) = EndOf(seqs, i - 1) + Len(seqs[i])
      /\ n \in Nat
  BY EndsAre, LenProperties
<1>2. 0 \in P
  BY <1>1
<1>3. ASSUME NEW i \in P PROVE i + 1 \in P
  <2> SUFFICES ASSUME i + 1 <= n PROVE EndOf(seqs, i + 1) = size * (i + 1)
    OBVIOUS
  <2>1. i \in Nat /\ i <= n /\ i + 1 \in 1..n /\ (i + 1) - 1 = i
    BY <1>1
  <2>2. EndOf(seqs, i + 1) = EndOf(seqs, i) + size /\ EndOf(seqs, i) = size * i
    BY <1>1, <2>1
  <2>3. size * (i + 1) = size * i + size
    BY ONLY <2>1
  <2> QED
    BY ONLY <2>2, <2>3
<1>4. P = Nat
  <2>1. P \in SUBSET Nat
    BY DEF P
  <2> HIDE DEF P
  <2> QED
    BY <1>2, <1>3, <2>1, Induction
<1>5. \A i \in Nat : i <= n => EndOf(seqs, i) = size * i
  BY <1>4
<1>6. \A i \in 0..n : i \in Nat /\ i <= n
  BY <1>1
<1> QED
  BY <1>5, <1>6

LEMMA ChunksRead ==
  ASSUME NEW size \in Nat \ {0}, NEW seqs \in Seq(Seq(Byte)),
         \A i \in 1..Len(seqs) : Len(seqs[i]) = size
  PROVE  Chunks(FlattenSeq(seqs), size) = seqs
<1> DEFINE n == Len(seqs)
           s == FlattenSeq(seqs)
           c == Chunks(s, size)
<1>1. n \in Nat
  BY LenProperties
<1>2. \A i \in 0..n : EndOf(seqs, i) = size * i
  BY EvenEnds
<1>3. Len(s) = size * n
  <2>1. Len(s) = EndOf(seqs, n)
    BY EndsAre
  <2>2. n \in 0..n
    BY <1>1
  <2> HIDE DEF n, s
  <2> QED
    BY <1>2, <2>1, <2>2
<1>4. Len(s) \div size = n
  BY <1>1, <1>3, EvenlyDivided
<1>5. \A i \in 1..n : SubSeq(s, EndOf(seqs, i - 1) + 1, EndOf(seqs, i)) = seqs[i]
  BY PartOfFlat
<1>6. ASSUME NEW i \in 1..n PROVE SubSeq(s, size * (i - 1) + 1, size * i) = seqs[i]
  <2>1. i - 1 \in 0..n /\ i \in 0..n
    BY <1>1
  <2>2. EndOf(seqs, i - 1) = size * (i - 1) /\ EndOf(seqs, i) = size * i
    BY <1>2, <2>1
  <2> HIDE DEF s, n
  <2> QED
    BY ONLY <1>5, <2>2, Zenon
<1>7. c = [i \in 1..(Len(s) \div size) |-> SubSeq(s, size * (i - 1) + 1, size * i)]
  BY DEF Chunks
<1> HIDE DEF s, c
<1>8. c = [i \in 1..n |-> SubSeq(s, size * (i - 1) + 1, size * i)]
  BY ONLY <1>4, <1>7
<1>9. c = [i \in 1..n |-> seqs[i]]
  BY ONLY <1>6, <1>8
<1>10. seqs = [i \in 1..n |-> seqs[i]]
  BY LenProperties
<1> QED
  BY ONLY <1>9, <1>10, Zenon DEF c, s

-----------------------------------------------------------------------------
(* Lookups in a message known by its entries.                              *)
SoleOf(es, f, e) ==
  e \in ToSet(es) /\ e.field = f /\ \A d \in ToSet(es) : d.field = f => d = e

LEMMA ValueOf ==
  ASSUME NEW S, NEW es \in Seq(S), NEW f, NEW default, NEW e, SoleOf(es, f, e)
  PROVE  Value(es, f, default) = e.value
<1>0. e \in ToSet(es) /\ e.field = f /\ \A d \in ToSet(es) : d.field = f => d = e
  BY DEF SoleOf
<1>1. DOMAIN es = 1..Len(es) /\ Len(es) \in Nat
  BY LenProperties
<1>2. PICK k \in 1..Len(es) : es[k] = e
  BY <1>0, <1>1 DEF ToSet
<1> DEFINE places == PlacesOf(es, f)
<1>3. places \in SUBSET Nat /\ places # {} /\ \A i \in places : es[i] = e
  BY <1>0, <1>1, <1>2 DEF PlacesOf, ToSet
<1> HIDE DEF places
<1>4. PICK m \in places : \A y \in places : m <= y
  BY <1>3, Least
<1>5. Min(places) = m
  BY <1>3, <1>4, MinIs
<1>6. es[Min(places)] = e
  BY <1>3, <1>5
<1> QED
  BY <1>3, <1>6 DEF Value, places

LEMMA BytesIn ==
  ASSUME NEW S, NEW es \in Seq(S), NEW f, NEW e, e \in ToSet(es), e.field = f, e.bytes,
         \A d \in ToSet(es) : d.field = f => d = e
  PROVE  FirstBytes(es, f) = e.value
<1>1. DOMAIN es = 1..Len(es) /\ Len(es) \in Nat
  BY LenProperties
<1>2. PICK k \in 1..Len(es) : es[k] = e
  BY <1>1 DEF ToSet
<1> DEFINE places == BytesOf(es, f)
<1>3. places \in SUBSET Nat /\ places # {} /\ \A i \in places : es[i] = e
  BY <1>1, <1>2 DEF BytesOf, PlacesOf, ToSet
<1> HIDE DEF places
<1>4. PICK m \in places : \A y \in places : m <= y
  BY <1>3, Least
<1>5. Min(places) = m
  BY <1>3, <1>4, MinIs
<1>6. es[Min(places)] = e
  BY <1>3, <1>5
<1> QED
  BY <1>3, <1>6 DEF FirstBytes, places

(* The entries of a field that stands in a message once.                   *)
OnlyAt(es, k, e) ==
  \E S : /\ es \in Seq(S) /\ k \in 1..Len(es) /\ es[k] = e
         /\ \A i \in 1..Len(es) : es[i].field = e.field <=> i = k

LEMMA OnlyKept ==
  ASSUME NEW es, NEW k, NEW e, OnlyAt(es, k, e)
  PROVE  Kept(es, PlacesOf(es, e.field)) = <<e>>
<1>1. PICK S : /\ es \in Seq(S) /\ k \in 1..Len(es) /\ es[k] = e
               /\ \A i \in 1..Len(es) : es[i].field = e.field <=> i = k
  BY DEF OnlyAt
<1> DEFINE places == PlacesOf(es, e.field)
<1>2. DOMAIN es = 1..Len(es)
  BY <1>1, LenProperties
<1>3. \A i \in 1..Len(es) : i \in places <=> i = k
  BY <1>1, <1>2 DEF PlacesOf
<1> HIDE DEF places
<1>4. Kept(es, places) = <<es[k]>>
  BY <1>1, <1>3, KeptOne
<1> QED
  BY <1>1, <1>4 DEF places

LEMMA OnlyStays ==
  ASSUME NEW es, NEW k, NEW e, OnlyAt(es, k, e), NEW T, NEW more \in Seq(T),
         \A i \in 1..Len(more) : more[i].field # e.field
  PROVE  OnlyAt(es \o more, k, e)
<1>1. PICK S : /\ es \in Seq(S) /\ k \in 1..Len(es) /\ es[k] = e
               /\ \A i \in 1..Len(es) : es[i].field = e.field <=> i = k
  BY DEF OnlyAt
<1> DEFINE U == S \cup T
           x == es \o more
<1>2. es \in Seq(U) /\ more \in Seq(U) /\ Len(es) \in Nat /\ Len(more) \in Nat
  BY <1>1, LenProperties
<1> HIDE DEF U
<1>3. /\ x \in Seq(U) /\ Len(x) = Len(es) + Len(more)
      /\ \A i \in 1..Len(es) + Len(more) : x[i] = IF i <= Len(es) THEN es[i] ELSE more[i - Len(es)]
  BY <1>2, ConcatProperties
<1> HIDE DEF x
<1>4. \A i \in 1..Len(es) : x[i] = es[i] /\ i \in 1..Len(x)
  BY <1>2, <1>3
<1>5. ASSUME NEW i \in 1..Len(x) PROVE x[i].field = e.field <=> i = k
  <2>1. CASE i <= Len(es)
    <3>1. i \in 1..Len(es)
      BY <1>2, <1>3, <2>1
    <3> QED
      BY <1>1, <1>4, <3>1
  <2>2. CASE ~(i <= Len(es))
    <3>1. i - Len(es) \in 1..Len(more) /\ i # k
      BY <1>1, <1>2, <1>3, <2>2
    <3>2. x[i] = more[i - Len(es)]
      BY <1>3, <2>2
    <3> QED
      BY <3>1, <3>2
  <2> QED
    BY <2>1, <2>2
<1>6. k \in 1..Len(x) /\ x[k] = e
  BY <1>1, <1>4
<1> QED
  BY <1>3, <1>5, <1>6 DEF OnlyAt, x

LEMMA EntriesJoin ==
  ASSUME NEW S, NEW x \in Seq(S), NEW y \in Seq(S)
  PROVE  x \o y \in Seq(S) /\ ToSet(x \o y) = ToSet(x) \cup ToSet(y)
<1> DEFINE z == x \o y
<1>1. /\ z \in Seq(S) /\ Len(z) = Len(x) + Len(y) /\ Len(x) \in Nat /\ Len(y) \in Nat
      /\ \A i \in 1..Len(x) + Len(y) : z[i] = IF i <= Len(x) THEN x[i] ELSE y[i - Len(x)]
  BY ConcatProperties, LenProperties
<1>2. DOMAIN z = 1..Len(z) /\ DOMAIN x = 1..Len(x) /\ DOMAIN y = 1..Len(y)
  BY <1>1, LenProperties
<1> HIDE DEF z
<1>3. ASSUME NEW e \in ToSet(z) PROVE e \in ToSet(x) \cup ToSet(y)
  <2>1. PICK i \in 1..Len(z) : z[i] = e
    BY <1>2 DEF ToSet
  <2>2. CASE i <= Len(x)
    <3>1. i \in DOMAIN x /\ x[i] = e
      BY <1>1, <1>2, <2>1, <2>2
    <3> QED
      BY <3>1 DEF ToSet
  <2>3. CASE ~(i <= Len(x))
    <3>1. i - Len(x) \in DOMAIN y /\ y[i - Len(x)] = e
      BY <1>1, <1>2, <2>1, <2>3
    <3> QED
      BY <3>1 DEF ToSet
  <2> QED
    BY <2>2, <2>3
<1>4. ASSUME NEW e \in ToSet(x) PROVE e \in ToSet(z)
  <2>1. PICK i \in 1..Len(x) : x[i] = e
    BY <1>2 DEF ToSet
  <2>2. i \in DOMAIN z /\ z[i] = e
    BY <1>1, <1>2, <2>1
  <2> QED
    BY <2>2 DEF ToSet
<1>5. ASSUME NEW e \in ToSet(y) PROVE e \in ToSet(z)
  <2>1. PICK i \in 1..Len(y) : y[i] = e
    BY <1>2 DEF ToSet
  <2>2. i + Len(x) \in 1..Len(x) + Len(y) /\ ~(i + Len(x) <= Len(x)) /\ (i + Len(x)) - Len(x) = i
    BY <1>1
  <2>3. i + Len(x) \in DOMAIN z /\ z[i + Len(x)] = e
    BY <1>1, <1>2, <2>1, <2>2
  <2> QED
    BY <2>3 DEF ToSet
<1> QED
  BY <1>1, <1>3, <1>4, <1>5 DEF z

-----------------------------------------------------------------------------
(* The entries of a listing of moments.                                    *)
Took(name, columns, e) == IF name \in columns THEN <<e>> ELSE << >>
TookSet(name, columns, e) == IF name \in columns THEN {e} ELSE {}

LEMMA TookIs ==
  ASSUME NEW name, NEW columns, NEW S, NEW e \in S
  PROVE  /\ Took(name, columns, e) \in Seq(S)
         /\ ToSet(Took(name, columns, e)) = TookSet(name, columns, e)
         /\ \A i \in 1..Len(Took(name, columns, e)) : Took(name, columns, e)[i] = e
<1>1. /\ <<e>> \in Seq(S) /\ << >> \in Seq(S) /\ Len(<<e>>) = 1 /\ Len(<< >>) = 0
      /\ <<e>>[1] = e /\ DOMAIN <<e>> = {1} /\ DOMAIN << >> = {}
  BY EmptySeq
<1>2. ToSet(<<e>>) = {e} /\ ToSet(<< >>) = {}
  BY <1>1 DEF ToSet
<1>3. CASE name \in columns
  <2>1. Took(name, columns, e) = <<e>> /\ TookSet(name, columns, e) = {e}
    BY <1>3 DEF Took, TookSet
  <2>2. \A i \in 1..Len(<<e>>) : <<e>>[i] = e
    OBVIOUS
  <2> QED
    BY <1>1, <1>2, <2>1, <2>2
<1>4. CASE name \notin columns
  <2>1. Took(name, columns, e) = << >> /\ TookSet(name, columns, e) = {}
    BY <1>4 DEF Took, TookSet
  <2>2. 1..Len(<< >>) = {}
    OBVIOUS
  <2> QED
    BY <1>1, <1>2, <2>1, <2>2
<1> QED
  BY <1>3, <1>4

LEMMA PairJoined ==
  ASSUME NEW d, NEW e, NEW S, d \in S, e \in S, d.field # e.field
  PROVE  /\ <<d>> \o <<e>> \in Seq(S) /\ ToSet(<<d>> \o <<e>>) = {d, e}
         /\ OnlyAt(<<d>> \o <<e>>, 2, e)
<1> DEFINE x == <<d>> \o <<e>>
           k == 2
<1>1. x = <<d, e>>
  BY TwoInOne
<1>2. x \in Seq(S) /\ Len(x) = 2 /\ x[1] = d /\ x[2] = e /\ DOMAIN x = {1, 2} /\ 1..Len(x) = {1, 2}
  BY <1>1
<1> HIDE DEF x
<1>3. ToSet(x) = {d, e}
  BY <1>2 DEF ToSet
<1>4. k \in 1..Len(x) /\ x[k] = e /\ \A i \in 1..Len(x) : x[i].field = e.field <=> i = k
  BY <1>2
<1> HIDE DEF k
<1>5. OnlyAt(x, k, e)
  BY <1>2, <1>4 DEF OnlyAt
<1> QED
  BY <1>2, <1>3, <1>5 DEF x, k

MomentsHead(n) ==
  [status |-> Entry(1, FALSE, <<STATUS_SUCCESS>>), ids |-> Entry(2, TRUE, PackedVarints(IdsOf(n))),
   is_final |-> Entry(3, FALSE, <<1>>),
   timestamps |-> Entry(5, TRUE, PackedVarints(StampsOf(n))),
   scores |-> Entry(6, TRUE, FlattenSeq(ScoresOf(n))),
   triage |-> Entry(7, TRUE, PackedVarints(TriageOf(n)))]

HasEntries(h, n, columns) ==
  /\ \E S : h \in Seq(S)
  /\ ToSet(h) = {MomentsHead(n).status, MomentsHead(n).ids, MomentsHead(n).is_final}
                  \cup TookSet("timestamps", columns, MomentsHead(n).timestamps)
                  \cup TookSet("scores", columns, MomentsHead(n).scores)
                  \cup TookSet("triage", columns, MomentsHead(n).triage)
  /\ OnlyAt(h, 2, MomentsHead(n).ids)

LEMMA MomentsEntries ==
  ASSUME NEW n, NEW columns
  PROVE  HasEntries(MomentsShown(n, columns), n, columns)
<1> DEFINE e1 == MomentsHead(n).status
           e2 == MomentsHead(n).ids
           e3 == MomentsHead(n).is_final
           e4 == MomentsHead(n).timestamps
           e5 == MomentsHead(n).scores
           e6 == MomentsHead(n).triage
           S == {e1, e2, e3, e4, e5, e6}
           x4 == Took("timestamps", columns, e4)
           x5 == Took("scores", columns, e5)
           x6 == Took("triage", columns, e6)
           s4 == TookSet("timestamps", columns, e4)
           s5 == TookSet("scores", columns, e5)
           s6 == TookSet("triage", columns, e6)
<1>1. MomentsShown(n, columns) = <<e1>> \o <<e2>> \o <<e3>> \o x4 \o x5 \o x6
  BY DEF MomentsShown, SentEntry, Took, MomentsHead
<1>2. e1.field = 1 /\ e2.field = 2 /\ e3.field = 3 /\ e4.field = 5 /\ e5.field = 6 /\ e6.field = 7
  BY DEF MomentsHead, Entry
<1>3. HasEntries(<<e1>> \o <<e2>> \o <<e3>> \o x4 \o x5 \o x6, n, columns) <=>
        /\ \E T : <<e1>> \o <<e2>> \o <<e3>> \o x4 \o x5 \o x6 \in Seq(T)
        /\ ToSet(<<e1>> \o <<e2>> \o <<e3>> \o x4 \o x5 \o x6) = {e1, e2, e3} \cup s4 \cup s5 \cup s6
        /\ OnlyAt(<<e1>> \o <<e2>> \o <<e3>> \o x4 \o x5 \o x6, 2, e2)
  BY DEF HasEntries
<1> HIDE DEF e1, e2, e3, e4, e5, e6
<1>4. e1 \in S /\ e2 \in S /\ e3 \in S /\ e4 \in S /\ e5 \in S /\ e6 \in S
  OBVIOUS
<1> HIDE DEF S
<1>5. /\ x4 \in Seq(S) /\ ToSet(x4) = s4 /\ \A i \in 1..Len(x4) : x4[i].field # e2.field
      /\ x5 \in Seq(S) /\ ToSet(x5) = s5 /\ \A i \in 1..Len(x5) : x5[i].field # e2.field
      /\ x6 \in Seq(S) /\ ToSet(x6) = s6 /\ \A i \in 1..Len(x6) : x6[i].field # e2.field
  <2>1. x4 \in Seq(S) /\ ToSet(x4) = s4 /\ \A i \in 1..Len(x4) : x4[i] = e4
    BY <1>4, TookIs
  <2>2. x5 \in Seq(S) /\ ToSet(x5) = s5 /\ \A i \in 1..Len(x5) : x5[i] = e5
    BY <1>4, TookIs
  <2>3. x6 \in Seq(S) /\ ToSet(x6) = s6 /\ \A i \in 1..Len(x6) : x6[i] = e6
    BY <1>4, TookIs
  <2> HIDE DEF x4, x5, x6, s4, s5, s6
  <2> QED
    BY <1>2, <2>1, <2>2, <2>3
<1> DEFINE x3 == <<e3>>
<1>6. x3 \in Seq(S) /\ ToSet(x3) = {e3} /\ \A i \in 1..Len(x3) : x3[i].field # e2.field
  <2>1. Len(<<e3>>) = 1 /\ <<e3>>[1] = e3 /\ DOMAIN <<e3>> = {1} /\ <<e3>> \in Seq(S)
    BY <1>4
  <2> QED
    BY <1>2, <2>1 DEF ToSet
<1> HIDE DEF x3, x4, x5, x6, s4, s5, s6
<1> DEFINE y2 == <<e1>> \o <<e2>>
           y3 == y2 \o x3
           y4 == y3 \o x4
           y5 == y4 \o x5
           y6 == y5 \o x6
<1>7. y2 \in Seq(S) /\ ToSet(y2) = {e1, e2} /\ OnlyAt(y2, 2, e2)
  BY <1>2, <1>4, PairJoined
<1> HIDE DEF y2
<1>8. y3 \in Seq(S) /\ ToSet(y3) = {e1, e2} \cup {e3} /\ OnlyAt(y3, 2, e2)
  BY ONLY <1>6, <1>7, EntriesJoin, OnlyStays
<1> HIDE DEF y3
<1>9. y4 \in Seq(S) /\ ToSet(y4) = {e1, e2} \cup {e3} \cup s4 /\ OnlyAt(y4, 2, e2)
  BY ONLY <1>5, <1>8, EntriesJoin, OnlyStays
<1> HIDE DEF y4
<1>10. y5 \in Seq(S) /\ ToSet(y5) = {e1, e2} \cup {e3} \cup s4 \cup s5 /\ OnlyAt(y5, 2, e2)
  BY ONLY <1>5, <1>9, EntriesJoin, OnlyStays
<1> HIDE DEF y5
<1>11. y6 \in Seq(S) /\ ToSet(y6) = {e1, e2} \cup {e3} \cup s4 \cup s5 \cup s6 /\ OnlyAt(y6, 2, e2)
  BY ONLY <1>5, <1>10, EntriesJoin, OnlyStays
<1> HIDE DEF y6
<1>12. {e1, e2} \cup {e3} \cup s4 \cup s5 \cup s6 = {e1, e2, e3} \cup s4 \cup s5 \cup s6
  OBVIOUS
<1>13. y6 = <<e1>> \o <<e2>> \o <<e3>> \o x4 \o x5 \o x6
  BY DEF x3, y2, y3, y4, y5, y6
<1> QED
  BY <1>1, <1>3, <1>11, <1>12, <1>13

-----------------------------------------------------------------------------
(* Reading the columns.                                                    *)
LEMMA FlattenOne ==
  ASSUME NEW S, NEW x \in Seq(S)
  PROVE  FlattenSeq(<<x>>) = x
<1> DEFINE seqs == <<x>>
           F == FlatFrom(seqs)
<1>1. seqs \in Seq(Seq(S)) /\ Len(seqs) = 1 /\ seqs[1] = x
  OBVIOUS
<1>2. FlattenSeq(seqs) = IF Len(seqs) = 0 THEN seqs ELSE F[Len(seqs)]
  BY DEF FlattenSeq, FlatFrom
<1>3. \A i \in 1..Len(seqs) : F[i] = IF i = 1 THEN seqs[i] ELSE F[i - 1] \o seqs[i]
  BY <1>1, FlatDef
<1> HIDE DEF F, seqs
<1>4. F[1] = seqs[1]
  BY <1>1, <1>3
<1>5. FlattenSeq(seqs) = x
  BY <1>1, <1>2, <1>4
<1> QED
  BY <1>5 DEF seqs

LEMMA NoneRead ==
  /\ ParsePackedVarints(<< >>)[1] = << >>
  /\ \A size \in Nat \ {0} : Chunks(<< >>, size) = << >>
<1>1. 1 \in Place /\ << >> \in Seq(Byte) /\ Len(<< >>) = 0 /\ 1 > 0
  BY EmptySeq DEF Place
<1>2. PackedFrom(<< >>)[1] = << << >> >>
  BY <1>1, PackedDef
<1>3. ParsePackedVarints(<< >>) = << << >> >>
  BY <1>2 DEF ParsePackedVarints
<1>4. ASSUME NEW size \in Nat \ {0} PROVE Chunks(<< >>, size) = << >>
  <2> DEFINE c == Chunks(<< >>, size)
             none == << >>
  <2>1. 0 \div size = 0
    OBVIOUS
  <2>2. c = [i \in 1..(Len(none) \div size) |-> SubSeq(none, size * (i - 1) + 1, size * i)]
    BY DEF Chunks
  <2> HIDE DEF c
  <2>3. 1..(Len(none) \div size) = {}
    BY <2>1
  <2> HIDE DEF none
  <2>4. DOMAIN c = {} /\ c = [i \in {} |-> c[i]]
    BY ONLY <2>2, <2>3
  <2>5. c = << >>
    BY <2>4
  <2> QED
    BY <2>5 DEF c
<1> QED
  BY <1>3, <1>4

(* Every number of a column fits the word.                                 *)
LEMMA ColumnsAre ==
  ASSUME NEW n \in 0..Rows
  PROVE  /\ n \in Nat
         /\ IdsOf(n) \in Seq(Nat) /\ Len(IdsOf(n)) = n /\ \A i \in 1..n : IdsOf(n)[i] < Word
         /\ StampsOf(n) \in Seq(Nat) /\ Len(StampsOf(n)) = n /\ \A i \in 1..n : StampsOf(n)[i] < Word
         /\ TriageOf(n) \in Seq(Nat) /\ Len(TriageOf(n)) = n /\ \A i \in 1..n : TriageOf(n)[i] < Word
         /\ ScoresOf(n) \in Seq(Seq(Byte)) /\ Len(ScoresOf(n)) = n
         /\ \A i \in 1..n : Len(ScoresOf(n)[i]) = Fixed32Size
<1>1. n \in Nat /\ Rows \in Nat /\ n <= Rows /\ Word \in Nat /\ 150 * Rows < Word
  BY FitAssumption, WordIs
<1>2. \A i \in 1..n : i \in Nat /\ i < Word /\ 150 * i \in Nat /\ 150 * i < Word
                      /\ Word - i \in Nat /\ Word - i < Word
  BY ONLY <1>1
<1>3. IdsOf(n) \in [1..n -> Nat] /\ \A i \in 1..n : IdsOf(n)[i] < Word
  BY <1>2 DEF IdsOf
<1>4. StampsOf(n) \in [1..n -> Nat] /\ \A i \in 1..n : StampsOf(n)[i] < Word
  BY <1>2 DEF StampsOf
<1>5. TriageOf(n) \in [1..n -> Nat] /\ \A i \in 1..n : TriageOf(n)[i] < Word
  BY <1>2 DEF TriageOf
<1>6. ScoresOf(n) \in [1..n -> Seq(Byte)] /\ \A i \in 1..n : Len(ScoresOf(n)[i]) = Fixed32Size
  <2>1. \A i \in 1..n : LittleEndian(i, Fixed32Size) \in Seq(Byte)
                        /\ Len(LittleEndian(i, Fixed32Size)) = Fixed32Size
    BY <1>2, WidthAssumption, LittleIs
  <2> QED
    BY <2>1 DEF ScoresOf
<1> QED
  BY <1>1, <1>3, <1>4, <1>5, <1>6

LEMMA SentVarints ==
  ASSUME NEW name, NEW columns, NEW values \in Seq(Nat), \A i \in 1..Len(values) : values[i] < Word
  PROVE  ParsePackedVarints(Sent(name, columns, PackedVarints(values)))[1] = Sent(name, columns, values)
<1>1. ParsePackedVarints(PackedVarints(values)) = <<values>>
  BY PackedReads
<1>2. ParsePackedVarints(PackedVarints(values))[1] = values
  BY <1>1
<1> QED
  BY <1>2, NoneRead DEF Sent

LEMMA SentChunks ==
  ASSUME NEW name, NEW columns, NEW size \in Nat \ {0}, NEW seqs \in Seq(Seq(Byte)),
         \A i \in 1..Len(seqs) : Len(seqs[i]) = size
  PROVE  Chunks(Sent(name, columns, FlattenSeq(seqs)), size) = Sent(name, columns, seqs)
BY ChunksRead, NoneRead DEF Sent

LEMMA SentCell ==
  ASSUME NEW name, NEW columns, NEW S, NEW column \in Seq(S), NEW i \in 1..Len(column)
  PROVE  Cell(Sent(name, columns, column), i) = IF name \in columns THEN <<column[i]>> ELSE << >>
<1>1. i <= Len(column) /\ ~(i <= Len(<< >>))
  BY LenProperties
<1> QED
  BY <1>1 DEF Cell, Sent

(* What lookups find in a listing of moments.                              *)
LEMMA MomentsLooked ==
  ASSUME NEW n, NEW columns, NEW h, HasEntries(h, n, columns)
  PROVE  /\ Value(h, 1, << >>) = <<STATUS_SUCCESS>> /\ Value(h, 3, << >>) = <<1>>
         /\ FirstBytes(h, 5) = Sent("timestamps", columns, PackedVarints(StampsOf(n)))
         /\ FirstBytes(h, 6) = Sent("scores", columns, FlattenSeq(ScoresOf(n)))
         /\ FirstBytes(h, 7) = Sent("triage", columns, PackedVarints(TriageOf(n)))
         /\ Kept(h, PlacesOf(h, 2)) = <<Entry(2, TRUE, PackedVarints(IdsOf(n)))>>
<1> DEFINE e1 == MomentsHead(n).status
           e2 == MomentsHead(n).ids
           e3 == MomentsHead(n).is_final
           e4 == MomentsHead(n).timestamps
           e5 == MomentsHead(n).scores
           e6 == MomentsHead(n).triage
<1>1. /\ e1.field = 1 /\ e2.field = 2 /\ e3.field = 3 /\ e4.field = 5 /\ e5.field = 6 /\ e6.field = 7
  BY DEF MomentsHead, Entry
<1>2. e4.bytes /\ e5.bytes /\ e6.bytes
  BY DEF MomentsHead, Entry
<1>3. /\ e1.value = <<STATUS_SUCCESS>> /\ e3.value = <<1>>
      /\ e4.value = PackedVarints(StampsOf(n)) /\ e5.value = FlattenSeq(ScoresOf(n))
      /\ e6.value = PackedVarints(TriageOf(n)) /\ e2 = Entry(2, TRUE, PackedVarints(IdsOf(n)))
  BY DEF MomentsHead, Entry
<1>4. /\ \E S : h \in Seq(S)
      /\ ToSet(h) = {e1, e2, e3} \cup TookSet("timestamps", columns, e4)
                      \cup TookSet("scores", columns, e5) \cup TookSet("triage", columns, e6)
      /\ OnlyAt(h, 2, e2)
  BY DEF HasEntries
<1> HIDE DEF e1, e2, e3, e4, e5, e6
<1>5. \A d : d \in ToSet(h) <=> \/ d \in {e1, e2, e3}
                                \/ d = e4 /\ "timestamps" \in columns
                                \/ d = e5 /\ "scores" \in columns
                                \/ d = e6 /\ "triage" \in columns
  BY <1>4 DEF TookSet
<1>6. PICK S : h \in Seq(S)
  BY <1>4
<1>7. DOMAIN h = 1..Len(h) /\ \A i \in DOMAIN h : h[i] \in ToSet(h)
  BY <1>6, LenProperties DEF ToSet
<1>8. Value(h, 1, << >>) = e1.value
  <2> DEFINE f == 1
             none == << >>
  <2>1. SoleOf(h, f, e1)
    BY ONLY <1>1, <1>5 DEF SoleOf
  <2> HIDE DEF f, none
  <2>2. Value(h, f, none) = e1.value
    BY ONLY <1>6, <2>1, ValueOf
  <2> QED
    BY <2>2 DEF f, none
<1>9. Value(h, 3, << >>) = e3.value
  <2> DEFINE f == 3
             none == << >>
  <2>1. SoleOf(h, f, e3)
    BY ONLY <1>1, <1>5 DEF SoleOf
  <2> HIDE DEF f, none
  <2>2. Value(h, f, none) = e3.value
    BY ONLY <1>6, <2>1, ValueOf
  <2> QED
    BY <2>2 DEF f, none
<1>10. FirstBytes(h, 5) = Sent("timestamps", columns, e4.value)
  <2>1. \A d \in ToSet(h) : d.field = 5 => d = e4 /\ "timestamps" \in columns
    BY ONLY <1>1, <1>5
  <2>2. "timestamps" \in columns => e4 \in ToSet(h)
    BY <1>5
  <2>3. "timestamps" \in columns => FirstBytes(h, 5) = e4.value
    BY <1>1, <1>6, <1>2, <2>1, <2>2, BytesIn
  <2>4. "timestamps" \notin columns => FirstBytes(h, 5) = << >>
    BY <1>7, <2>1, NoBytes
  <2> QED
    BY <2>3, <2>4 DEF Sent
<1>11. FirstBytes(h, 6) = Sent("scores", columns, e5.value)
  <2>1. \A d \in ToSet(h) : d.field = 6 => d = e5 /\ "scores" \in columns
    BY ONLY <1>1, <1>5
  <2>2. "scores" \in columns => e5 \in ToSet(h)
    BY <1>5
  <2>3. "scores" \in columns => FirstBytes(h, 6) = e5.value
    BY <1>1, <1>6, <1>2, <2>1, <2>2, BytesIn
  <2>4. "scores" \notin columns => FirstBytes(h, 6) = << >>
    BY <1>7, <2>1, NoBytes
  <2> QED
    BY <2>3, <2>4 DEF Sent
<1>12. FirstBytes(h, 7) = Sent("triage", columns, e6.value)
  <2>1. \A d \in ToSet(h) : d.field = 7 => d = e6 /\ "triage" \in columns
    BY ONLY <1>1, <1>5
  <2>2. "triage" \in columns => e6 \in ToSet(h)
    BY <1>5
  <2>3. "triage" \in columns => FirstBytes(h, 7) = e6.value
    BY <1>1, <1>6, <1>2, <2>1, <2>2, BytesIn
  <2>4. "triage" \notin columns => FirstBytes(h, 7) = << >>
    BY <1>7, <2>1, NoBytes
  <2> QED
    BY <2>3, <2>4 DEF Sent
<1>13. Kept(h, PlacesOf(h, 2)) = <<e2>>
  <2>1. Kept(h, PlacesOf(h, e2.field)) = <<e2>>
    BY <1>4, OnlyKept
  <2> QED
    BY <1>1, <2>1
<1> QED
  BY <1>3, <1>8, <1>9, <1>10, <1>11, <1>12, <1>13

LEMMA MomentsAreRead ==
  ASSUME NEW n \in 0..Rows, NEW columns, NEW h, HasEntries(h, n, columns)
  PROVE  MomentsIn(h) = [status |-> <<STATUS_SUCCESS>>, moments |-> MomentsRows(n, columns),
                         is_final |-> <<1>>]
<1> DEFINE e == Entry(2, TRUE, PackedVarints(IdsOf(n)))
           lists == Kept(h, PlacesOf(h, 2))
           stamps == Sent("timestamps", columns, StampsOf(n))
           scores == Sent("scores", columns, ScoresOf(n))
           triage == Sent("triage", columns, TriageOf(n))
           ids == FlattenSeq([i \in DOMAIN lists |-> MomentIds(lists[i])])
<1>1. /\ Value(h, 1, << >>) = <<STATUS_SUCCESS>> /\ Value(h, 3, << >>) = <<1>> /\ lists = <<e>>
      /\ FirstBytes(h, 5) = Sent("timestamps", columns, PackedVarints(StampsOf(n)))
      /\ FirstBytes(h, 6) = Sent("scores", columns, FlattenSeq(ScoresOf(n)))
      /\ FirstBytes(h, 7) = Sent("triage", columns, PackedVarints(TriageOf(n)))
  BY MomentsLooked
<1>2. Column(h, 5) = stamps
  BY <1>1, ColumnsAre, SentVarints DEF Column
<1>3. Column(h, 7) = triage
  BY <1>1, ColumnsAre, SentVarints DEF Column
<1>4. Chunks(FirstBytes(h, 6), Fixed32Size) = scores
  <2> DEFINE seqs == ScoresOf(n)
  <2>1. /\ Fixed32Size \in Nat \ {0} /\ seqs \in Seq(Seq(Byte))
        /\ \A i \in 1..Len(seqs) : Len(seqs[i]) = Fixed32Size
    BY ColumnsAre, WidthAssumption
  <2> HIDE DEF seqs
  <2>2. Chunks(Sent("scores", columns, FlattenSeq(seqs)), Fixed32Size) = Sent("scores", columns, seqs)
    BY ONLY <2>1, SentChunks
  <2> QED
    BY <1>1, <2>2 DEF seqs
<1>5. ids = IdsOf(n)
  <2>1. MomentIds(e) = IdsOf(n)
    <3>1. ParsePackedVarints(PackedVarints(IdsOf(n))) = <<IdsOf(n)>>
      BY ColumnsAre, PackedReads
    <3>2. ParsePackedVarints(PackedVarints(IdsOf(n)))[1] = IdsOf(n)
      BY <3>1
    <3>3. e.bytes = TRUE /\ e.value = PackedVarints(IdsOf(n))
      BY DEF Entry
    <3> QED
      BY <3>2, <3>3 DEF MomentIds
  <2> HIDE DEF e, lists
  <2>2. DOMAIN lists = {1} /\ lists[1] = e
    BY <1>1
  <2>3. [i \in DOMAIN lists |-> MomentIds(lists[i])] = [i \in {1} |-> MomentIds(e)]
    BY <2>2
  <2>4. [i \in {1} |-> IdsOf(n)] = <<IdsOf(n)>>
    OBVIOUS
  <2>5. ids = FlattenSeq(<<IdsOf(n)>>)
    BY <2>1, <2>3, <2>4
  <2> HIDE DEF ids
  <2> QED
    BY <2>5, ColumnsAre, FlattenOne
<1>6. Moments(ids, stamps, scores, triage) = MomentsRows(n, columns)
  <2> HIDE DEF ids, stamps, scores, triage
  <2>1. DOMAIN ids = 1..n
    BY <1>5 DEF IdsOf
  <2>2. ASSUME NEW i \in 1..n
        PROVE  [moment_id |-> ids[i], timestamp_ms |-> Cell(stamps, i), score |-> Cell(scores, i),
                triage |-> Cell(triage, i)] = Row(i, columns)
    <3>1. ids[i] = 150 * i
      BY <1>5 DEF IdsOf
    <3>2. Cell(stamps, i) = IF "timestamps" \in columns THEN <<Word - i>> ELSE << >>
      <4>1. StampsOf(n) \in Seq(Nat) /\ i \in 1..Len(StampsOf(n)) /\ StampsOf(n)[i] = Word - i
        BY ColumnsAre DEF StampsOf
      <4> QED
        BY <4>1, SentCell DEF stamps
    <3>3. Cell(scores, i) = IF "scores" \in columns THEN <<LittleEndian(i, Fixed32Size)>> ELSE << >>
      <4>1. /\ ScoresOf(n) \in Seq(Seq(Byte)) /\ i \in 1..Len(ScoresOf(n))
            /\ ScoresOf(n)[i] = LittleEndian(i, Fixed32Size)
        BY ColumnsAre DEF ScoresOf
      <4> QED
        BY <4>1, SentCell DEF scores
    <3>4. Cell(triage, i) = IF "triage" \in columns THEN <<i>> ELSE << >>
      <4>1. TriageOf(n) \in Seq(Nat) /\ i \in 1..Len(TriageOf(n)) /\ TriageOf(n)[i] = i
        BY ColumnsAre DEF TriageOf
      <4> QED
        BY <4>1, SentCell DEF triage
    <3> QED
      BY <3>1, <3>2, <3>3, <3>4 DEF Row
  <2> QED
    BY <2>1, <2>2 DEF Moments, MomentsRows
<1>7. MomentsIn(h) =
        [status |-> Value(h, 1, << >>),
         moments |-> Moments(ids, Column(h, 5), Chunks(FirstBytes(h, 6), Fixed32Size), Column(h, 7)),
         is_final |-> Value(h, 3, << >>)]
  BY DEF MomentsIn
<1> HIDE DEF ids, stamps, scores, triage
<1> QED
  BY <1>1, <1>2, <1>3, <1>4, <1>6, <1>7

-----------------------------------------------------------------------------
(* Reading a listing of sessions.                                          *)
LEMMA SessionIdsRead ==
  ASSUME NEW n \in Nat, NEW ids \in [1..n -> 0..(Word - 1)]
  PROVE  SessionIds(Entry(2, TRUE, SessionBytes(ids))) = ids
<1> DEFINE e == Entry(2, TRUE, SessionBytes(ids))
           seqs == [i \in 1..n |-> LittleEndian(ids[i], Fixed64Size)]
           c == Chunks(SessionBytes(ids), Fixed64Size)
<1>1. Fixed64Size \in Nat \ {0} /\ Fixed64Size \in Nat /\ Word = Power256[Fixed64Size]
  BY WidthAssumption
<1>2. ASSUME NEW i \in 1..n
      PROVE  /\ ids[i] \in Nat /\ seqs[i] \in Seq(Byte) /\ Len(seqs[i]) = Fixed64Size
             /\ Number(seqs[i]) = ids[i]
  <2> DEFINE m == ids[i]
  <2>1. m \in Nat /\ m < Power256[Fixed64Size]
    <3>1. m \in 0..(Word - 1) /\ Word \in Nat
      BY WordIs
    <3> HIDE DEF m
    <3>2. m \in Nat /\ m < Word
      BY ONLY <3>1
    <3> QED
      BY <1>1, <3>2
  <2>2. seqs[i] = LittleEndian(m, Fixed64Size)
    OBVIOUS
  <2> HIDE DEF m, seqs
  <2>3. /\ LittleEndian(m, Fixed64Size) \in Seq(Byte)
        /\ Len(LittleEndian(m, Fixed64Size)) = Fixed64Size
    BY ONLY <1>1, <2>1, LittleIs
  <2>4. Number(LittleEndian(m, Fixed64Size)) = m
    BY ONLY <1>1, <2>1, LittleMeans
  <2> QED
    BY <2>1, <2>2, <2>3, <2>4 DEF m
<1>3. seqs \in Seq(Seq(Byte)) /\ Len(seqs) = n /\ DOMAIN seqs = 1..n
  <2>1. seqs \in [1..n -> Seq(Byte)]
    BY <1>2
  <2> HIDE DEF seqs
  <2> QED
    BY ONLY <2>1, n \in Nat
<1>4. SessionBytes(ids) = FlattenSeq(seqs)
  BY DEF SessionBytes
<1> HIDE DEF seqs
<1>5. c = seqs
  <2>1. \A i \in 1..Len(seqs) : Len(seqs[i]) = Fixed64Size
    BY <1>2, <1>3
  <2> QED
    BY <1>1, <1>3, <1>4, <2>1, ChunksRead
<1>6. e.bytes = TRUE /\ e.value = SessionBytes(ids)
  BY DEF Entry
<1>7. SessionIds(e) = [i \in DOMAIN c |-> Number(c[i])]
  BY <1>6 DEF SessionIds
<1> HIDE DEF c, e
<1>8. SessionIds(e) = [i \in 1..n |-> Number(seqs[i])]
  BY <1>3, <1>5, <1>7
<1>9. SessionIds(e) = [i \in 1..n |-> ids[i]]
  BY <1>2, <1>8
<1>10. ids = [i \in 1..n |-> ids[i]]
  OBVIOUS
<1> QED
  BY <1>9, <1>10 DEF e

LEMMA SessionsAreRead ==
  ASSUME NEW n \in Nat, NEW ids \in [1..n -> 0..(Word - 1)]
  PROVE  SessionsIn(SessionsShown(ids)) =
           [status |-> <<STATUS_SUCCESS>>, session_ids |-> ids, open_session |-> << >>]
<1> DEFINE h == SessionsShown(ids)
           d == Entry(1, FALSE, <<STATUS_SUCCESS>>)
           e == Entry(2, TRUE, SessionBytes(ids))
           S == {d, e}
           lists == Kept(h, PlacesOf(h, 2))
           read == FlattenSeq([i \in DOMAIN lists |-> SessionIds(lists[i])])
<1>1. d.field = 1 /\ e.field = 2 /\ d.value = <<STATUS_SUCCESS>>
  BY DEF Entry
<1>2. h = <<d>> \o <<e>>
  BY DEF SessionsShown
<1>3. SessionIds(e) = ids
  BY SessionIdsRead
<1> HIDE DEF d, e
<1>4. d \in S /\ e \in S /\ d.field # e.field
  BY <1>1
<1> HIDE DEF S, h
<1>5. h \in Seq(S) /\ ToSet(h) = {d, e} /\ OnlyAt(h, 2, e)
  BY <1>2, <1>4, PairJoined
<1>6. Value(h, 1, << >>) = d.value
  <2> DEFINE f == 1
             none == << >>
  <2>1. SoleOf(h, f, d)
    BY <1>1, <1>5 DEF SoleOf
  <2> HIDE DEF f, none
  <2>0. h \in Seq(S)
    BY <1>5
  <2>2. Value(h, f, none) = d.value
    BY ONLY <2>0, <2>1, ValueOf
  <2> QED
    BY <2>2 DEF f, none
<1>7. Value(h, 3, << >>) = << >>
  <2>1. \A i \in DOMAIN h : h[i] \in {d, e}
    BY <1>5 DEF ToSet
  <2>2. \A i \in DOMAIN h : h[i].field # 3
    BY <1>1, <2>1
  <2> QED
    BY <2>2, NoValue
<1>8. lists = <<e>>
  <2>1. Kept(h, PlacesOf(h, e.field)) = <<e>>
    BY <1>5, OnlyKept
  <2> QED
    BY <1>1, <2>1
<1>9. read = ids
  <2> HIDE DEF lists
  <2>1. DOMAIN lists = {1} /\ lists[1] = e
    BY <1>8
  <2>2. [i \in DOMAIN lists |-> SessionIds(lists[i])] = [i \in {1} |-> SessionIds(e)]
    BY <2>1
  <2>3. [i \in {1} |-> ids] = <<ids>>
    OBVIOUS
  <2>4. read = FlattenSeq(<<ids>>)
    BY <1>3, <2>2, <2>3
  <2>5. ids \in Seq(0..(Word - 1))
    <3> DEFINE T == 0..(Word - 1)
    <3>1. n \in Nat /\ ids \in [1..n -> T]
      OBVIOUS
    <3> HIDE DEF T
    <3>2. ids \in Seq(T)
      BY ONLY <3>1
    <3> QED
      BY <3>2 DEF T
  <2> HIDE DEF read
  <2> QED
    BY <2>4, <2>5, FlattenOne
<1>10. SessionsIn(h) = [status |-> Value(h, 1, << >>), session_ids |-> read,
                        open_session |-> Value(h, 3, << >>)]
  BY DEF SessionsIn
<1> HIDE DEF read
<1>11. SessionsIn(h) = [status |-> <<STATUS_SUCCESS>>, session_ids |-> ids, open_session |-> << >>]
  BY <1>1, <1>6, <1>7, <1>9, <1>10
<1> QED
  BY <1>11 DEF h

(* The body of a listing, state beside it or not.                          *)
LEMMA ListingIs ==
  ASSUME NEW a, IsAnswer(a), NEW reports \in Seq(Reports), NEW h, Reads(a.body, h), a.body # << >>
  PROVE  Listing(<<Shown(a, reports)>>, a.type) = h
<1> DEFINE s == Shown(a, reports)
           n == Len(reports)
           S == Pieces(a, reports)
           field == ResponseField(a.type)
<1>1. s \in Seq(S) /\ ShownParts(s, a, reports) /\ n \in Nat /\ a # NoAnswer
  BY ShownIs, LenProperties, AnswerIsOne
<1> HIDE DEF s, S
<1>2. DOMAIN s = 1..Len(s) /\ Len(s) = n + 2
  BY <1>1, LenProperties DEF ShownParts
<1>3. a.type \in Nat /\ field = a.type + 1 /\ a.type # 0
  BY KeptWords DEF IsAnswer
<1>4. s[n + 1] = Entry(field, TRUE, a.body)
  BY <1>1 DEF ShownParts
<1>5. \A i \in 1..n : s[i].field = 1
  <2>1. \A i \in 1..n : s[i] = Entry(1, TRUE, reports[i].blob)
    BY <1>1 DEF ShownParts
  <2>2. \A b : Entry(1, TRUE, b).field = 1
    BY DEF Entry
  <2> QED
    BY ONLY <2>1, <2>2
<1> HIDE DEF n, field
<1>6. s[n + 1].field = field /\ s[n + 1].value = a.body
  BY <1>4 DEF Entry
<1>7. s[n + 1].bytes
  BY <1>4 DEF Entry
<1>8. n + 1 \in 1..Len(s) /\ IsFirst(s, field, n + 1)
  <2>1. n + 1 \in 1..Len(s)
    BY <1>1, <1>2
  <2>2. ASSUME NEW i \in DOMAIN s, s[i].field = field PROVE n + 1 <= i
    <3>1. i \notin 1..n
      BY <1>3, <1>5, <2>2
    <3> QED
      BY <1>1, <1>2, <3>1
  <2> QED
    BY <2>1, <2>2 DEF IsFirst
<1> DEFINE k == n + 1
<1>9. k \in 1..Len(s) /\ s[k].field = field /\ s[k].bytes /\ IsFirst(s, field, k)
  BY <1>6, <1>7, <1>8
<1>10. s[k].value = a.body
  BY <1>6
<1> HIDE DEF k
<1>11. FirstBytes(s, field) = s[k].value
  BY ONLY <1>1, <1>9, FirstBytesAt
<1>12. <<s>>[1] = s
  OBVIOUS
<1>13. FirstBytes(<<s>>[1], field) = a.body
  BY ONLY <1>10, <1>11, <1>12, Zenon
<1>14. Listing(<<s>>, a.type) = ParsePb(a.body)[1]
  BY <1>13 DEF Listing, field
<1>15. ParsePb(a.body)[1] = h
  BY DEF Reads
<1> QED
  BY <1>14, <1>15 DEF s

LEMMA ListingsRead == MsgInv => ListingsAreRead
<1> SUFFICES ASSUME MsgInv PROVE ListingsAreRead
  OBVIOUS
<1> DEFINE a == message.answer
           reports == message.reports
           moments == [status |-> a.status, moments |-> a.rows, is_final |-> <<1>>]
           sessions == [status |-> a.status, session_ids |-> a.rows, open_session |-> << >>]
<1>1. MessageIsSound /\ MessageIsRead
  BY DEF MsgInv
<1>2. reports \in Seq(Reports) /\ (a = NoAnswer \/ IsReply(a))
  BY ONLY <1>1 DEF MessageIsSound
<1>3. \/ indication = << >> /\ a = NoAnswer
      \/ indication = <<Shown(a, reports)>>
  BY ONLY <1>1 DEF MessageIsRead
<1>4. ListingsAreRead <=>
        CASE a.type = RT_LIST_MOMENTS  -> ParseListMoments(indication) = moments
          [] a.type = RT_LIST_SESSIONS -> ParseListSessions(indication) = sessions
          [] OTHER                     -> TRUE
  BY DEF ListingsAreRead
<1>5. RT_LIST_MOMENTS # RT_LIST_SESSIONS /\ NoAnswer.type \notin {RT_LIST_MOMENTS, RT_LIST_SESSIONS}
  BY DEF RT_LIST_MOMENTS, RT_LIST_SESSIONS, NoAnswer
<1> HIDE DEF a, reports
<1>6. CASE a.type = RT_LIST_MOMENTS
  <2>1. IsReply(a) /\ indication = <<Shown(a, reports)>>
    BY <1>2, <1>3, <1>5, <1>6
  <2>2. IsAnswer(a) /\ StatusIs(a) /\ ListsMoments(a)
    BY <2>1 DEF IsReply
  <2>3. PICK n \in 0..Rows : \E columns :
          /\ Reads(a.body, MomentsShown(n, columns))
          /\ a.status = <<STATUS_SUCCESS>> /\ a.rows = MomentsRows(n, columns)
    BY <1>6, <2>2 DEF ListsMoments
  <2>4. PICK columns :
          /\ Reads(a.body, MomentsShown(n, columns))
          /\ a.status = <<STATUS_SUCCESS>> /\ a.rows = MomentsRows(n, columns)
    BY <2>3
  <2>5. a.body # << >>
    BY <2>2, <2>4 DEF StatusIs
  <2> DEFINE h == MomentsShown(n, columns)
             pt == <<Shown(a, reports)>>
  <2>6. HasEntries(h, n, columns) /\ Reads(a.body, h)
    BY <2>4, MomentsEntries
  <2> HIDE DEF h
  <2>7. Listing(pt, a.type) = h
    BY <1>2, <2>2, <2>5, <2>6, ListingIs
  <2>8. MomentsIn(h) = [status |-> <<STATUS_SUCCESS>>, moments |-> MomentsRows(n, columns),
                        is_final |-> <<1>>]
    BY <2>6, MomentsAreRead
  <2> HIDE DEF pt
  <2>9. ParseListMoments(pt) = moments
    BY <1>6, <2>4, <2>7, <2>8 DEF ParseListMoments
  <2> HIDE DEF moments, sessions
  <2> QED
    BY <1>4, <1>5, <1>6, <2>1, <2>9 DEF pt
<1>7. CASE a.type = RT_LIST_SESSIONS
  <2>1. IsReply(a) /\ indication = <<Shown(a, reports)>>
    BY <1>2, <1>3, <1>5, <1>7
  <2>2. IsAnswer(a) /\ StatusIs(a) /\ ListsSessions(a)
    BY <2>1 DEF IsReply
  <2>3. PICK n \in 0..Rows : \E ids \in [1..n -> 0..(Word - 1)] :
          /\ Reads(a.body, SessionsShown(ids))
          /\ a.status = <<STATUS_SUCCESS>> /\ a.rows = ids
    BY <1>7, <2>2 DEF ListsSessions
  <2>4. PICK ids \in [1..n -> 0..(Word - 1)] :
          /\ Reads(a.body, SessionsShown(ids))
          /\ a.status = <<STATUS_SUCCESS>> /\ a.rows = ids
    BY <2>3
  <2>5. a.body # << >> /\ n \in Nat
    BY <2>2, <2>4, FitAssumption DEF StatusIs
  <2> DEFINE h == SessionsShown(ids)
             pt == <<Shown(a, reports)>>
  <2>6. Listing(pt, a.type) = h
    BY <1>2, <2>2, <2>4, <2>5, ListingIs
  <2>7. SessionsIn(h) = [status |-> <<STATUS_SUCCESS>>, session_ids |-> ids, open_session |-> << >>]
    BY <2>5, SessionsAreRead
  <2> HIDE DEF pt, h
  <2>8. ParseListSessions(pt) = sessions
    BY <1>7, <2>4, <2>6, <2>7 DEF ParseListSessions
  <2> HIDE DEF moments, sessions
  <2> QED
    BY <1>4, <1>5, <1>7, <2>1, <2>8 DEF pt
<1>8. CASE a.type \notin {RT_LIST_MOMENTS, RT_LIST_SESSIONS}
  <2> HIDE DEF moments, sessions
  <2> QED
    BY <1>4, <1>8
<1> QED
  BY <1>6, <1>7, <1>8

(* A listing is read as the camera wrote it, whatever its length and       *)
(* whichever of its columns the camera sent: every session and moment id,  *)
(* and beside each moment its own timestamp, score and triage or none      *)
(* (parse_list_sessions, parse_list_moments; proto.py).                    *)
THEOREM ListingsAreExact == MsgSpec => []ListingsAreRead
BY MsgHolds, ListingsRead, PTL

=============================================================================
