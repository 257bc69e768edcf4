---------------------------- MODULE CodecProofs ----------------------------
(***************************************************************************)
(* Proofs about the codec, for every byte string, every number and every   *)
(* list of calls of the pb_ builders: what the builders write is what the  *)
(* parser reads, and the parser accepts what the grammar of WireFormat     *)
(* accepts and nothing else.                                               *)
(*                                                                         *)
(* The codec's loops are recursive functions, so the proofs are by         *)
(* induction.  An induction is stated of a set here: a set of numbers that *)
(* holds 0 and every successor of its own is Nat.                          *)
(***************************************************************************)
EXTENDS WireFormat, SequenceTheorems, WellFoundedInduction, TLAPS

Before == {ss \in Nat \X Nat : ss[1] < ss[2]}

LEMMA Least ==
  ASSUME NEW T \in SUBSET Nat, T # {}
  PROVE  \E x \in T : \A y \in T : x <= y
<1>1. IsWellFoundedOn(Before, Nat)
  BY NatLessThanWellFounded DEF OpToRel, Before
<1>2. PICK x \in T : \A y \in T : ~(<<y, x>> \in Before)
  BY <1>1, WFMin
<1>3. ASSUME NEW y \in T PROVE x <= y
  <2>1. x \in Nat /\ y \in Nat /\ <<y, x>> \notin Before
    BY <1>2
  <2>2. ~(y < x)
    BY <2>1 DEF Before
  <2> QED
    BY <2>1, <2>2
<1> QED
  BY <1>3

(* Induction, for a set in the place of a predicate.                       *)
LEMMA Induction ==
  ASSUME NEW P \in SUBSET Nat, 0 \in P, \A n \in P : n + 1 \in P
  PROVE  P = Nat
<1>1. ASSUME Nat \ P # {} PROVE FALSE
  <2>1. PICK x \in Nat \ P : \A y \in Nat \ P : x <= y
    <3>1. Nat \ P \in SUBSET Nat
      OBVIOUS
    <3> QED
      BY <1>1, <3>1, Least
  <2>2. x - 1 \in Nat /\ x - 1 \notin Nat \ P
    BY <2>1
  <2> QED
    BY <2>1, <2>2
<1> QED
  BY <1>1

LEMMA CompleteInduction ==
  ASSUME NEW P \in SUBSET Nat,
         \A n \in Nat : (\A m \in Nat : m < n => m \in P) => n \in P
  PROVE  P = Nat
<1>1. ASSUME Nat \ P # {} PROVE FALSE
  <2>1. PICK x \in Nat \ P : \A y \in Nat \ P : x <= y
    <3>1. Nat \ P \in SUBSET Nat
      OBVIOUS
    <3> QED
      BY <1>1, <3>1, Least
  <2>2. \A m \in Nat : m < x => m \in P
    BY <2>1
  <2> QED
    BY <2>1, <2>2
<1> QED
  BY <1>1

-----------------------------------------------------------------------------
(* A recursive definition has a solution when what it says of x looks only *)
(* at arguments of a lower rank.  body[<<x, f>>] stands for the right-hand *)
(* side.                                                                   *)
LooksDown(S, V, rank, body) ==
  \A x \in S : \A g, h \in [S -> V] :
    (\A y \in S : rank[y] < rank[x] => g[y] = h[y]) => body[<<x, g>>] = body[<<x, h>>]

Solves(f, S, body) == \A x \in S : f[x] = body[<<x, f>>]

LEMMA Recursion ==
  ASSUME NEW S, NEW V, V # {}, NEW rank \in [S -> Nat],
         NEW body \in [S \X [S -> V] -> V], LooksDown(S, V, rank, body)
  PROVE  \E f \in [S -> V] : Solves(f, S, body)
<1> USE DEF LooksDown, Solves
<1> DEFINE Good(n) == {g \in [S -> V] : \A x \in S : rank[x] < n => g[x] = body[<<x, g>>]}
<1>0. \A x \in S : rank[x] \in Nat
  OBVIOUS
<1>1. \A n \in Nat : Good(n) # {}
  <2> DEFINE P == {n \in Nat : Good(n) # {}}
  <2>1. 0 \in P
    <3>1. PICK v \in V : TRUE
      OBVIOUS
    <3>2. [x \in S |-> v] \in Good(0)
      BY <1>0
    <3> QED
      BY <3>2
  <2>2. ASSUME NEW n \in P PROVE n + 1 \in P
    <3>1. PICK g \in [S -> V] : \A x \in S : rank[x] < n => g[x] = body[<<x, g>>]
      OBVIOUS
    <3> DEFINE h == [x \in S |-> body[<<x, g>>]]
    <3>2. h \in [S -> V]
      OBVIOUS
    <3>3. ASSUME NEW x \in S, rank[x] < n + 1 PROVE h[x] = body[<<x, h>>]
      <4>1. \A y \in S : rank[y] < rank[x] => g[y] = h[y]
        BY <1>0, <3>1, <3>3
      <4>2. body[<<x, g>>] = body[<<x, h>>]
        BY <3>2, <4>1
      <4> QED
        BY <4>2
    <3> HIDE DEF h
    <3>4. h \in Good(n + 1)
      BY <3>2, <3>3
    <3>5. n + 1 \in Nat
      OBVIOUS
    <3> HIDE DEF Good
    <3> QED
      BY <3>4, <3>5
  <2> HIDE DEF P
  <2>3. P = Nat
    <3>1. P \in SUBSET Nat
      BY DEF P
    <3> QED
      BY <2>1, <2>2, <3>1, Induction
  <2> QED
    BY <2>3 DEF P
<1>2. \A n \in Nat : \A g \in Good(n) :
        g \in [S -> V] /\ \A x \in S : rank[x] < n => g[x] = body[<<x, g>>]
  BY DEF Good
<1> HIDE DEF Good
<1> DEFINE Agree(x) ==
             \A n, m \in Nat : \A g \in Good(n), h \in Good(m) :
               rank[x] < n /\ rank[x] < m => g[x] = h[x]
<1>3. \A x \in S : Agree(x)
  <2> DEFINE P == {k \in Nat : \A x \in S : rank[x] = k => Agree(x)}
  <2>1. ASSUME NEW k \in Nat, \A j \in Nat : j < k => j \in P PROVE k \in P
    <3>1. ASSUME NEW x \in S, rank[x] = k PROVE Agree(x)
      <4>1. \A y \in S : rank[y] < rank[x] => Agree(y)
        <5> HIDE DEF Agree
        <5> QED
          BY <1>0, <2>1, <3>1
      <4>2. ASSUME NEW n \in Nat, NEW m \in Nat, NEW g \in Good(n), NEW h \in Good(m),
                   rank[x] < n, rank[x] < m
            PROVE  g[x] = h[x]
        <5>1. ASSUME NEW y \in S, rank[y] < rank[x] PROVE g[y] = h[y]
          <6>1. rank[y] < n /\ rank[y] < m
            BY <1>0, <4>2, <5>1
          <6> QED
            BY <4>1, <4>2, <5>1, <6>1
        <5>2. /\ g \in [S -> V] /\ g[x] = body[<<x, g>>]
              /\ h \in [S -> V] /\ h[x] = body[<<x, h>>]
          BY <1>2, <4>2
        <5> QED
          BY <5>1, <5>2
      <4> QED
        BY <4>2
    <3> HIDE DEF Agree
    <3> QED
      BY <3>1
  <2> HIDE DEF P
  <2>2. P = Nat
    <3>1. P \in SUBSET Nat
      BY DEF P
    <3> QED
      BY <2>1, <3>1, CompleteInduction
  <2> HIDE DEF Agree
  <2> QED
    BY <1>0, <2>2 DEF P
<1> DEFINE G(x) == CHOOSE g \in Good(rank[x] + 1) : TRUE
           f == [x \in S |-> G(x)[x]]
<1>4. \A x \in S : G(x) \in Good(rank[x] + 1)
  BY <1>0, <1>1
<1> HIDE DEF G
<1>5. \A x \in S : G(x) \in [S -> V] /\ G(x)[x] = body[<<x, G(x)>>]
  <2> SUFFICES ASSUME NEW x \in S PROVE G(x) \in [S -> V] /\ G(x)[x] = body[<<x, G(x)>>]
    OBVIOUS
  <2>1. rank[x] + 1 \in Nat /\ rank[x] < rank[x] + 1
    BY <1>0
  <2> QED
    BY <1>2, <1>4, <2>1
<1>6. f \in [S -> V]
  BY <1>5
<1>7. ASSUME NEW x \in S PROVE f[x] = body[<<x, f>>]
  <2>1. ASSUME NEW y \in S, rank[y] < rank[x] PROVE G(x)[y] = f[y]
    <3>1. /\ rank[y] + 1 \in Nat /\ rank[x] + 1 \in Nat
          /\ rank[y] < rank[y] + 1 /\ rank[y] < rank[x] + 1
      BY <1>0, <2>1
    <3>2. G(x)[y] = G(y)[y]
      BY <1>3, <1>4, <3>1
    <3> QED
      BY <3>2
  <2>2. body[<<x, G(x)>>] = body[<<x, f>>]
    <3> HIDE DEF f
    <3> QED
      BY <1>5, <1>6, <2>1
  <2> QED
    BY <1>5, <2>2
<1> QED
  BY <1>6, <1>7

(* Induction along a rank, and what it gives: two functions that follow    *)
(* one recursive definition are the same.                                  *)
Climbs(P, S, rank) ==
  \A x \in S : (\A y \in S : rank[y] < rank[x] => y \in P) => x \in P

LEMMA RankInduction ==
  ASSUME NEW S, NEW rank \in [S -> Nat], NEW P \in SUBSET S, Climbs(P, S, rank)
  PROVE  P = S
<1> USE DEF Climbs
<1> DEFINE Q == {k \in Nat : \A x \in S : rank[x] = k => x \in P}
<1>1. ASSUME NEW k \in Nat, \A j \in Nat : j < k => j \in Q PROVE k \in Q
  <2>1. ASSUME NEW x \in S, rank[x] = k PROVE x \in P
    <3>1. \A y \in S : rank[y] < rank[x] => y \in P
      BY <1>1, <2>1
    <3> QED
      BY <3>1
  <2> QED
    BY <2>1
<1> HIDE DEF Q
<1>2. Q = Nat
  BY <1>1, CompleteInduction DEF Q
<1> QED
  BY <1>2 DEF Q

Follows(f, g, S, rank) ==
  \A x \in S : (\A y \in S : rank[y] < rank[x] => f[y] = g[y]) => f[x] = g[x]

LEMMA SameSolution ==
  ASSUME NEW S, NEW rank \in [S -> Nat], NEW f, NEW g, Follows(f, g, S, rank)
  PROVE  \A x \in S : f[x] = g[x]
<1> DEFINE P == {x \in S : f[x] = g[x]}
<1>1. Climbs(P, S, rank) /\ P \in SUBSET S
  BY DEF Climbs, Follows
<1> HIDE DEF P
<1>2. P = S
  BY <1>1, RankInduction
<1> QED
  BY <1>2 DEF P

(* The readers go forward: their rank is what is left of L bytes.          *)
Ahead(L) == [p \in Place |-> IF p > L THEN 0 ELSE L + 1 - p]

LEMMA AheadIs ==
  ASSUME NEW L \in Nat
  PROVE  /\ Ahead(L) \in [Place -> Nat]
         /\ \A p, q \in Place : p <= L /\ p < q => Ahead(L)[q] < Ahead(L)[p]
         /\ \A p, q \in Place : Ahead(L)[q] < Ahead(L)[p] => p < q
BY DEF Ahead, Place

(* Induction from the end of L bytes down.                                 *)
LEMMA Descent ==
  ASSUME NEW L \in Nat, NEW P \in SUBSET Place,
         \A p \in Place : p > L => p \in P,
         \A p \in Place : p <= L /\ (\A q \in Place : q > p => q \in P) => p \in P
  PROVE  P = Place
<1>1. ASSUME NEW p \in Place, \A q \in Place : Ahead(L)[q] < Ahead(L)[p] => q \in P
      PROVE  p \in P
  <2>1. CASE p > L
    BY <2>1
  <2>2. CASE ~(p > L)
    <3>1. p <= L
      BY <2>2 DEF Place
    <3>2. \A q \in Place : q > p => q \in P
      BY <1>1, <3>1, AheadIs DEF Place
    <3> QED
      BY <3>1, <3>2
  <2> QED
    BY <2>1, <2>2
<1>2. Climbs(P, Place, Ahead(L)) /\ Ahead(L) \in [Place -> Nat]
  BY <1>1, AheadIs DEF Climbs
<1> QED
  BY <1>2, RankInduction

-----------------------------------------------------------------------------
(* What each recursive function of the codec is.                           *)
Byte == 0..255

LEMMA Halving ==
  ASSUME NEW n \in Nat
  PROVE  /\ n \div More \in Nat /\ n % More \in 0..127
         /\ n = (n % More) + More * (n \div More)
         /\ n >= More => n \div More < n /\ n \div More > 0
         /\ n < More => n \div More = 0 /\ n % More = n
BY DEF More

LEMMA ByteIs ==
  ASSUME NEW s \in Seq(Byte)
  PROVE  /\ Len(s) \in Nat
         /\ \A i \in 1..Len(s) : s[i] \in Nat /\ s[i] <= 255
<1>1. \A i \in 1..Len(s) : s[i] \in Byte
  BY ElementOfSeq
<1>2. Len(s) \in Nat
  BY LenProperties
<1>3. \A b \in Byte : b \in Nat /\ b <= 255
  BY DEF Byte
<1> QED
  BY <1>1, <1>2, <1>3

LEMMA DigitsDef ==
  /\ Digits \in [Nat -> Seq(Byte)]
  /\ \A n \in Nat : Digits[n] = IF n < More THEN <<n>>
                                ELSE <<More + (n % More)>> \o Digits[n \div More]
<1> DEFINE V == Seq(Byte)
           Rule(n, f) == IF n < More THEN <<n>>
                         ELSE <<More + (n % More)>> \o f[n \div More]
           body == [p \in Nat \X [Nat -> V] |-> Rule(p[1], p[2])]
           rank == [m \in Nat |-> m]
<1>0. rank \in [Nat -> Nat]
  OBVIOUS
<1>1. ASSUME NEW n \in Nat, NEW f \in [Nat -> V] PROVE Rule(n, f) \in V
  <2>1. n \div More \in Nat /\ n % More \in 0..127
    BY Halving
  <2>2. f[n \div More] \in Seq(Byte) /\ More + (n % More) \in Byte /\ (n < More => n \in Byte)
    BY <2>1 DEF More, Byte
  <2>3. <<More + (n % More)>> \in Seq(Byte) /\ (n < More => <<n>> \in Seq(Byte))
    BY <2>2
  <2>4. <<More + (n % More)>> \o f[n \div More] \in Seq(Byte)
    BY <2>2, <2>3, ConcatProperties
  <2> QED
    BY <2>3, <2>4
<1>2. ASSUME NEW n \in Nat, NEW g, NEW h,
             \A m \in Nat : rank[m] < rank[n] => g[m] = h[m]
      PROVE  Rule(n, g) = Rule(n, h)
  <2>1. n >= More => g[n \div More] = h[n \div More]
    BY <1>2, Halving
  <2> QED
    BY <2>1 DEF More
<1> HIDE DEF Rule, rank
<1>3. body \in [Nat \X [Nat -> V] -> V]
  BY <1>1
<1>4. LooksDown(Nat, V, rank, body)
  <2>1. ASSUME NEW n \in Nat, NEW g \in [Nat -> V], NEW h \in [Nat -> V],
               \A m \in Nat : rank[m] < rank[n] => g[m] = h[m]
        PROVE  body[<<n, g>>] = body[<<n, h>>]
    <3>1. Rule(n, g) = Rule(n, h)
      BY <1>2, <2>1
    <3> QED
      BY <3>1
  <2> HIDE DEF body, V
  <2> QED
    BY <2>1 DEF LooksDown
<1>5. PICK f \in [Nat -> V] : Solves(f, Nat, body)
  <2>1. V # {}
    BY EmptySeq
  <2> HIDE DEF body, V
  <2> QED
    BY <1>0, <1>3, <1>4, <2>1, Recursion
<1>6. f = [n \in Nat |-> Rule(n, f)]
  BY <1>5 DEF Solves
<1>7. Digits = [n \in Nat |-> Rule(n, Digits)]
  BY <1>6 DEF Digits, Rule
<1>8. Digits = f
  <2> DEFINE F == Digits
  <2>1. F = [n \in Nat |-> Rule(n, F)]
    BY <1>7
  <2> HIDE DEF F, V, body
  <2>2. ASSUME NEW n \in Nat, \A m \in Nat : rank[m] < rank[n] => F[m] = f[m]
        PROVE  F[n] = f[n]
    <3>1. Rule(n, F) = Rule(n, f)
      BY <1>2, <2>2
    <3> QED
      BY <1>6, <2>1, <3>1
  <2> DEFINE T == Nat
  <2>3. Follows(F, f, T, rank) /\ rank \in [T -> Nat]
    BY <1>0, <2>2 DEF Follows
  <2> HIDE DEF T
  <2>4. \A n \in T : F[n] = f[n]
    BY <2>3, SameSolution
  <2>5. F = f
    BY <1>6, <2>1, <2>4 DEF T
  <2> QED
    BY <2>5 DEF F
<1> QED
  BY <1>7, <1>8 DEF Rule

LEMMA PowerDef ==
  /\ Power256 \in [Nat -> Nat \ {0}]
  /\ \A k \in Nat : Power256[k] = IF k = 0 THEN 1 ELSE 256 * Power256[k - 1]
<1> DEFINE V == Nat \ {0}
           Rule(k, f) == IF k = 0 THEN 1 ELSE 256 * f[k - 1]
           body == [p \in Nat \X [Nat -> V] |-> Rule(p[1], p[2])]
           rank == [m \in Nat |-> m]
<1>0. rank \in [Nat -> Nat]
  OBVIOUS
<1>1. ASSUME NEW k \in Nat, NEW f \in [Nat -> V] PROVE Rule(k, f) \in V
  <2>1. k # 0 => k - 1 \in Nat /\ f[k - 1] \in V
    OBVIOUS
  <2> QED
    BY <2>1
<1>2. ASSUME NEW k \in Nat, NEW g, NEW h,
             \A m \in Nat : rank[m] < rank[k] => g[m] = h[m]
      PROVE  Rule(k, g) = Rule(k, h)
  <2>1. k # 0 => k - 1 \in Nat /\ rank[k - 1] < rank[k]
    OBVIOUS
  <2> QED
    BY <1>2, <2>1
<1> HIDE DEF Rule, rank
<1>3. body \in [Nat \X [Nat -> V] -> V]
  BY <1>1
<1>4. LooksDown(Nat, V, rank, body)
  <2>1. ASSUME NEW k \in Nat, NEW g \in [Nat -> V], NEW h \in [Nat -> V],
               \A m \in Nat : rank[m] < rank[k] => g[m] = h[m]
        PROVE  body[<<k, g>>] = body[<<k, h>>]
    <3>1. Rule(k, g) = Rule(k, h)
      BY <1>2, <2>1
    <3> QED
      BY <3>1
  <2> HIDE DEF body, V
  <2> QED
    BY <2>1 DEF LooksDown
<1>5. PICK f \in [Nat -> V] : Solves(f, Nat, body)
  <2>1. V # {}
    OBVIOUS
  <2> HIDE DEF body, V
  <2> QED
    BY <1>0, <1>3, <1>4, <2>1, Recursion
<1>6. f = [k \in Nat |-> Rule(k, f)]
  BY <1>5 DEF Solves
<1>7. Power256 = [k \in Nat |-> Rule(k, Power256)]
  BY <1>6 DEF Power256, Rule
<1>8. Power256 = f
  <2> DEFINE F == Power256
  <2>1. F = [k \in Nat |-> Rule(k, F)]
    BY <1>7
  <2> HIDE DEF F, V, body
  <2>2. ASSUME NEW k \in Nat, \A m \in Nat : rank[m] < rank[k] => F[m] = f[m]
        PROVE  F[k] = f[k]
    <3>1. Rule(k, F) = Rule(k, f)
      BY <1>2, <2>2
    <3> QED
      BY <1>6, <2>1, <3>1
  <2> DEFINE T == Nat
  <2>3. Follows(F, f, T, rank) /\ rank \in [T -> Nat]
    BY <1>0, <2>2 DEF Follows
  <2> HIDE DEF T
  <2>4. \A k \in T : F[k] = f[k]
    BY <2>3, SameSolution
  <2>5. F = f
    BY <1>6, <2>1, <2>4 DEF T
  <2> QED
    BY <2>5 DEF F
<1> QED
  BY <1>7, <1>8 DEF Rule

LEMMA LeftDef ==
  ASSUME NEW n \in Nat
  PROVE  /\ Left(n) \in [Nat -> Nat]
         /\ \A k \in Nat : Left(n)[k] = IF k = 0 THEN n ELSE Left(n)[k - 1] \div 256
<1> DEFINE V == Nat
           Rule(k, f) == IF k = 0 THEN n ELSE f[k - 1] \div 256
           body == [p \in Nat \X [Nat -> V] |-> Rule(p[1], p[2])]
           rank == [m \in Nat |-> m]
<1>0. rank \in [Nat -> Nat]
  OBVIOUS
<1>1. ASSUME NEW k \in Nat, NEW f \in [Nat -> V] PROVE Rule(k, f) \in V
  <2>1. k # 0 => k - 1 \in Nat /\ f[k - 1] \in Nat
    OBVIOUS
  <2> QED
    BY <2>1
<1>2. ASSUME NEW k \in Nat, NEW g, NEW h,
             \A m \in Nat : rank[m] < rank[k] => g[m] = h[m]
      PROVE  Rule(k, g) = Rule(k, h)
  <2>1. k # 0 => k - 1 \in Nat /\ rank[k - 1] < rank[k]
    OBVIOUS
  <2> QED
    BY <1>2, <2>1
<1> HIDE DEF Rule, rank
<1>3. body \in [Nat \X [Nat -> V] -> V]
  BY <1>1
<1>4. LooksDown(Nat, V, rank, body)
  <2>1. ASSUME NEW k \in Nat, NEW g \in [Nat -> V], NEW h \in [Nat -> V],
               \A m \in Nat : rank[m] < rank[k] => g[m] = h[m]
        PROVE  body[<<k, g>>] = body[<<k, h>>]
    <3>1. Rule(k, g) = Rule(k, h)
      BY <1>2, <2>1
    <3> QED
      BY <3>1
  <2> HIDE DEF body, V
  <2> QED
    BY <2>1 DEF LooksDown
<1>5. PICK f \in [Nat -> V] : Solves(f, Nat, body)
  <2>1. V # {}
    OBVIOUS
  <2> HIDE DEF body, V
  <2> QED
    BY <1>0, <1>3, <1>4, <2>1, Recursion
<1>6. f = [k \in Nat |-> Rule(k, f)]
  BY <1>5 DEF Solves
<1>7. Left(n) = [k \in Nat |-> Rule(k, Left(n))]
  BY <1>6 DEF Left, Rule
<1>8. Left(n) = f
  <2> DEFINE F == Left(n)
  <2>1. F = [k \in Nat |-> Rule(k, F)]
    BY <1>7
  <2> HIDE DEF F, V, body
  <2>2. ASSUME NEW k \in Nat, \A m \in Nat : rank[m] < rank[k] => F[m] = f[m]
        PROVE  F[k] = f[k]
    <3>1. Rule(k, F) = Rule(k, f)
      BY <1>2, <2>2
    <3> QED
      BY <1>6, <2>1, <3>1
  <2> DEFINE T == Nat
  <2>3. Follows(F, f, T, rank) /\ rank \in [T -> Nat]
    BY <1>0, <2>2 DEF Follows
  <2> HIDE DEF T
  <2>4. \A k \in T : F[k] = f[k]
    BY <2>3, SameSolution
  <2>5. F = f
    BY <1>6, <2>1, <2>4 DEF T
  <2> QED
    BY <2>5 DEF F
<1> QED
  BY <1>7, <1>8 DEF Rule

LEMMA ValueDef ==
  ASSUME NEW digits \in Seq(Nat), NEW base \in Nat
  PROVE  /\ ValueFrom(digits, base) \in [Place -> Nat]
         /\ \A i \in Place : ValueFrom(digits, base)[i] =
              IF i > Len(digits) THEN 0 ELSE digits[i] + base * ValueFrom(digits, base)[i + 1]
<1> DEFINE V == Nat
           Rule(i, f) == IF i > Len(digits) THEN 0 ELSE digits[i] + base * f[i + 1]
           body == [p \in Place \X [Place -> V] |-> Rule(p[1], p[2])]
           rank == Ahead(Len(digits))
<1>0. rank \in [Place -> Nat]
  BY LenProperties, AheadIs
<1>1. ASSUME NEW i \in Place, NEW f \in [Place -> V] PROVE Rule(i, f) \in V
  <2>1. CASE i <= Len(digits)
    <3>1. i \in 1..Len(digits) /\ i + 1 \in Place
      BY <2>1 DEF Place
    <3>2. digits[i] \in Nat /\ f[i + 1] \in Nat
      BY <3>1, ElementOfSeq
    <3>3. base * f[i + 1] \in Nat
      BY <3>2
    <3>4. \A a, b \in Nat : a + b \in Nat
      OBVIOUS
    <3>5. digits[i] + base * f[i + 1] \in Nat
      BY ONLY <3>2, <3>3, <3>4
    <3> QED
      BY <3>5
  <2> QED
    BY <2>1
<1>2. ASSUME NEW i \in Place, NEW g, NEW h,
             \A m \in Place : rank[m] < rank[i] => g[m] = h[m]
      PROVE  Rule(i, g) = Rule(i, h)
  <2>1. i <= Len(digits) => rank[i + 1] < rank[i]
    <3>1. Len(digits) \in Nat /\ i + 1 \in Place /\ i < i + 1
      BY LenProperties DEF Place
    <3> QED
      BY <3>1, AheadIs
  <2>2. i + 1 \in Place /\ (i <= Len(digits) \/ i > Len(digits))
    BY LenProperties DEF Place
  <2>3. i <= Len(digits) => g[i + 1] = h[i + 1]
    BY <1>2, <2>1, <2>2
  <2> QED
    BY <2>2, <2>3
<1> HIDE DEF Rule, rank
<1>3. body \in [Place \X [Place -> V] -> V]
  BY <1>1
<1>4. LooksDown(Place, V, rank, body)
  <2>1. ASSUME NEW i \in Place, NEW g \in [Place -> V], NEW h \in [Place -> V],
               \A m \in Place : rank[m] < rank[i] => g[m] = h[m]
        PROVE  body[<<i, g>>] = body[<<i, h>>]
    <3>1. Rule(i, g) = Rule(i, h)
      BY <1>2, <2>1
    <3> QED
      BY <3>1
  <2> HIDE DEF body, V
  <2> QED
    BY <2>1 DEF LooksDown
<1>5. PICK f \in [Place -> V] : Solves(f, Place, body)
  <2>1. V # {}
    OBVIOUS
  <2> HIDE DEF body, V
  <2> QED
    BY <1>0, <1>3, <1>4, <2>1, Recursion
<1>6. f = [i \in Place |-> Rule(i, f)]
  BY <1>5 DEF Solves
<1>7. ValueFrom(digits, base) = [i \in Place |-> Rule(i, ValueFrom(digits, base))]
  BY <1>6 DEF ValueFrom, Rule
<1>8. ValueFrom(digits, base) = f
  <2> DEFINE F == ValueFrom(digits, base)
  <2>1. F = [i \in Place |-> Rule(i, F)]
    BY <1>7
  <2> HIDE DEF F, V, body
  <2>2. ASSUME NEW i \in Place, \A m \in Place : rank[m] < rank[i] => F[m] = f[m]
        PROVE  F[i] = f[i]
    <3>1. Rule(i, F) = Rule(i, f)
      BY <1>2, <2>2
    <3> QED
      BY <1>6, <2>1, <3>1
  <2> DEFINE T == Place
  <2>3. Follows(F, f, T, rank) /\ rank \in [T -> Nat]
    BY <1>0, <2>2 DEF Follows
  <2> HIDE DEF T
  <2>4. \A i \in T : F[i] = f[i]
    BY <2>3, SameSolution
  <2>5. F = f
    BY <1>6, <2>1, <2>4 DEF T
  <2> QED
    BY <2>5 DEF F
<1> QED
  BY <1>7, <1>8 DEF Rule

LEMMA VarintDef ==
  ASSUME NEW s \in Seq(Byte), NEW first \in Place
  PROVE  /\ VarintFrom(s, first) \in [Place -> {Malformed} \cup (Nat \X Place)]
         /\ \A pos \in Place : VarintFrom(s, first)[pos] =
              IF pos > Len(s) THEN Malformed
              ELSE IF s[pos] < More THEN <<s[pos], pos + 1>>
              ELSE IF pos + 1 - first >= LongestVarint THEN Malformed
              ELSE IF VarintFrom(s, first)[pos + 1] = Malformed THEN Malformed
              ELSE <<(s[pos] % More) + More * VarintFrom(s, first)[pos + 1][1], VarintFrom(s, first)[pos + 1][2]>>
<1> DEFINE V == {Malformed} \cup (Nat \X Place)
           Rule(pos, f) == IF pos > Len(s) THEN Malformed
                           ELSE IF s[pos] < More THEN <<s[pos], pos + 1>>
                           ELSE IF pos + 1 - first >= LongestVarint THEN Malformed
                           ELSE IF f[pos + 1] = Malformed THEN Malformed
                           ELSE <<(s[pos] % More) + More * f[pos + 1][1], f[pos + 1][2]>>
           body == [p \in Place \X [Place -> V] |-> Rule(p[1], p[2])]
           rank == Ahead(Len(s))
<1>0. rank \in [Place -> Nat]
  BY LenProperties, AheadIs
<1>1. ASSUME NEW pos \in Place, NEW f \in [Place -> V] PROVE Rule(pos, f) \in V
  <2>1. CASE pos <= Len(s) /\ f[pos + 1] # Malformed
    <3>1. pos \in 1..Len(s) /\ pos + 1 \in Place
      BY <2>1 DEF Place
    <3>2. s[pos] \in Nat
      BY <3>1, ByteIs
    <3>3. f[pos + 1] \in Nat \X Place
      BY <2>1, <3>1
    <3>4. (s[pos] % More) + More * f[pos + 1][1] \in Nat
      BY <3>2, <3>3, Halving DEF More
    <3> QED
      BY <3>1, <3>2, <3>3, <3>4
  <2>2. CASE pos <= Len(s) /\ f[pos + 1] = Malformed
    <3>1. pos \in 1..Len(s) /\ pos + 1 \in Place
      BY <2>2 DEF Place
    <3>2. s[pos] \in Nat
      BY <3>1, ByteIs
    <3> QED
      BY <2>2, <3>1, <3>2
  <2>3. pos > Len(s) \/ pos <= Len(s)
    BY LenProperties DEF Place
  <2> QED
    BY <2>1, <2>2, <2>3
<1>2. ASSUME NEW pos \in Place, NEW g, NEW h,
             \A m \in Place : rank[m] < rank[pos] => g[m] = h[m]
      PROVE  Rule(pos, g) = Rule(pos, h)
  <2>1. pos <= Len(s) => rank[pos + 1] < rank[pos]
    <3>1. Len(s) \in Nat /\ pos + 1 \in Place /\ pos < pos + 1
      BY LenProperties DEF Place
    <3> QED
      BY <3>1, AheadIs
  <2>2. pos + 1 \in Place /\ (pos <= Len(s) \/ pos > Len(s))
    BY LenProperties DEF Place
  <2>3. pos <= Len(s) => g[pos + 1] = h[pos + 1]
    BY <1>2, <2>1, <2>2
  <2> QED
    BY <2>2, <2>3
<1> HIDE DEF Rule, rank
<1>3. body \in [Place \X [Place -> V] -> V]
  BY <1>1
<1>4. LooksDown(Place, V, rank, body)
  <2>1. ASSUME NEW pos \in Place, NEW g \in [Place -> V], NEW h \in [Place -> V],
               \A m \in Place : rank[m] < rank[pos] => g[m] = h[m]
        PROVE  body[<<pos, g>>] = body[<<pos, h>>]
    <3>1. Rule(pos, g) = Rule(pos, h)
      BY <1>2, <2>1
    <3> QED
      BY <3>1
  <2> HIDE DEF body, V
  <2> QED
    BY <2>1 DEF LooksDown
<1>5. PICK f \in [Place -> V] : Solves(f, Place, body)
  <2>1. V # {}
    OBVIOUS
  <2> HIDE DEF body, V
  <2> QED
    BY <1>0, <1>3, <1>4, <2>1, Recursion
<1>6. f = [pos \in Place |-> Rule(pos, f)]
  BY <1>5 DEF Solves
<1>7. VarintFrom(s, first) = [pos \in Place |-> Rule(pos, VarintFrom(s, first))]
  BY <1>6 DEF VarintFrom, Rule
<1>8. VarintFrom(s, first) = f
  <2> DEFINE F == VarintFrom(s, first)
  <2>1. F = [pos \in Place |-> Rule(pos, F)]
    BY <1>7
  <2> HIDE DEF F, V, body
  <2>2. ASSUME NEW pos \in Place, \A m \in Place : rank[m] < rank[pos] => F[m] = f[m]
        PROVE  F[pos] = f[pos]
    <3>1. Rule(pos, F) = Rule(pos, f)
      BY <1>2, <2>2
    <3> QED
      BY <1>6, <2>1, <3>1
  <2> DEFINE T == Place
  <2>3. Follows(F, f, T, rank) /\ rank \in [T -> Nat]
    BY <1>0, <2>2 DEF Follows
  <2> HIDE DEF T
  <2>4. \A pos \in T : F[pos] = f[pos]
    BY <2>3, SameSolution
  <2>5. F = f
    BY <1>6, <2>1, <2>4 DEF T
  <2> QED
    BY <2>5 DEF F
<1> QED
  BY <1>7, <1>8 DEF Rule

LEMMA WordIs == Word \in Nat \ {0} /\ Word = Power256[Fixed64Size]
BY WidthAssumption, PowerDef

LEMMA DigitsLen ==
  \A n \in Nat : /\ Digits[n] \in Seq(Byte) /\ Len(Digits[n]) \in Nat \ {0}
                 /\ n < More => Digits[n] = <<n>> /\ Len(Digits[n]) = 1
                 /\ n >= More => Len(Digits[n]) = Len(Digits[n \div More]) + 1
<1> SUFFICES ASSUME NEW n \in Nat
             PROVE  /\ Digits[n] \in Seq(Byte) /\ Len(Digits[n]) \in Nat \ {0}
                    /\ n < More => Digits[n] = <<n>> /\ Len(Digits[n]) = 1
                    /\ n >= More => Len(Digits[n]) = Len(Digits[n \div More]) + 1
  OBVIOUS
<1>1. Digits[n] \in Seq(Byte) /\ Len(Digits[n]) \in Nat
  BY DigitsDef, LenProperties
<1>2. CASE n < More
  <2>1. Digits[n] = <<n>>
    BY <1>2, DigitsDef
  <2> QED
    BY <1>1, <1>2, <2>1 DEF More
<1>3. CASE n >= More
  <2>1. n \div More \in Nat /\ n % More \in 0..127 /\ ~(n < More)
    BY <1>3, Halving DEF More
  <2>2. More + (n % More) \in Byte
    BY <2>1 DEF More, Byte
  <2>3. <<More + (n % More)>> \in Seq(Byte) /\ Len(<<More + (n % More)>>) = 1
    BY <2>2
  <2>4. Digits[n \div More] \in Seq(Byte) /\ Len(Digits[n \div More]) \in Nat
    BY <2>1, DigitsDef, LenProperties
  <2>5. Digits[n] = <<More + (n % More)>> \o Digits[n \div More]
    BY <2>1, DigitsDef
  <2>6. Len(Digits[n]) = 1 + Len(Digits[n \div More])
    BY <2>3, <2>4, <2>5, ConcatProperties
  <2> QED
    BY <1>1, <1>3, <2>1, <2>4, <2>6
<1> QED
  BY <1>2, <1>3 DEF More

LEMMA LongestIs == LongestVarint \in Nat /\ LongestVarint >= 1
<1>1. Varint(Word - 1) = Digits[(Word - 1) % Word] /\ (Word - 1) % Word \in Nat
  BY WordIs DEF Varint
<1>2. Len(Varint(Word - 1)) \in Nat \ {0}
  BY <1>1, DigitsLen
<1> QED
  BY <1>2, WidthAssumption

-----------------------------------------------------------------------------
(* The reader of varints.  The digits at p end at q when q holds the first *)
(* byte without a continuation bit.                                        *)
Runs(s, p, q) ==
  /\ p \in Place /\ q \in Place /\ p <= q /\ q <= Len(s)
  /\ s[q] < More
  /\ \A j \in Place : p <= j /\ j < q => s[j] >= More

Low(s, q) == [i \in 1..q |-> s[i] % More]

LEMMA LowIs ==
  ASSUME NEW s \in Seq(Byte), NEW q \in Nat, q <= Len(s)
  PROVE  /\ Low(s, q) \in Seq(Nat) /\ Len(Low(s, q)) = q
         /\ \A i \in 1..q : Low(s, q)[i] = s[i] % More /\ s[i] % More \in 0..127
<1>1. \A i \in 1..q : s[i] % More \in 0..127 /\ s[i] % More \in Nat
  <2> SUFFICES ASSUME NEW i \in 1..q PROVE s[i] % More \in 0..127 /\ s[i] % More \in Nat
    OBVIOUS
  <2>1. i \in 1..Len(s)
    BY ByteIs
  <2>2. s[i] \in Nat
    BY <2>1, ByteIs
  <2>3. \A n \in Nat : n % More \in 0..127 /\ n % More \in Nat
    BY DEF More
  <2> QED
    BY <2>2, <2>3
<1>2. Low(s, q) \in Seq(Nat)
  BY <1>1, IsASeq DEF Low
<1> QED
  BY <1>1, <1>2 DEF Low

LEMMA VarintRun ==
  ASSUME NEW s \in Seq(Byte), NEW first \in Place, NEW q \in Place, q <= Len(s),
         q < first + LongestVarint
  PROVE  \A p \in Place : first <= p /\ Runs(s, p, q) =>
           VarintFrom(s, first)[p] = <<ValueFrom(Low(s, q), More)[p], q + 1>>
<1> DEFINE value == ValueFrom(Low(s, q), More)
           P == {p \in Place : first <= p /\ Runs(s, p, q) =>
                   VarintFrom(s, first)[p] = <<value[p], q + 1>>}
<1>0. /\ LongestVarint \in Nat /\ Len(s) \in Nat /\ \A i \in 1..Len(s) : s[i] \in Nat
      /\ q \in Nat /\ first \in Nat
  BY WidthAssumption, ByteIs DEF Place
<1>1. /\ value \in [Place -> Nat]
      /\ \A p \in Place : value[p] = IF p > q THEN 0 ELSE (s[p] % More) + More * value[p + 1]
  <2>1. /\ Low(s, q) \in Seq(Nat) /\ Len(Low(s, q)) = q /\ More \in Nat
        /\ \A i \in 1..q : Low(s, q)[i] = s[i] % More
    BY <1>0, LowIs DEF More
  <2>2. /\ value \in [Place -> Nat]
        /\ \A p \in Place : value[p] =
             IF p > q THEN 0 ELSE Low(s, q)[p] + More * value[p + 1]
    BY <2>1, ValueDef
  <2>3. \A p \in Place : p > q \/ p \in 1..q
    BY <1>0 DEF Place
  <2> HIDE DEF value
  <2> QED
    BY <2>1, <2>2, <2>3
<1>5. \A p \in Place :
        p <= Len(s) /\ ~(s[p] < More) /\ ~(p + 1 - first >= LongestVarint)
          => \A v \in Nat, r \in Place :
               VarintFrom(s, first)[p + 1] = <<v, r>>
                 => VarintFrom(s, first)[p] = <<(s[p] % More) + More * v, r>>
  <2> DEFINE F == VarintFrom(s, first)
  <2>1. \A p \in Place :
          F[p] = IF p > Len(s) THEN Malformed
                 ELSE IF s[p] < More THEN <<s[p], p + 1>>
                 ELSE IF p + 1 - first >= LongestVarint THEN Malformed
                 ELSE IF F[p + 1] = Malformed THEN Malformed
                 ELSE <<(s[p] % More) + More * F[p + 1][1], F[p + 1][2]>>
    BY VarintDef
  <2> HIDE DEF F
  <2>2. SUFFICES ASSUME NEW p \in Place, p <= Len(s), ~(s[p] < More),
                        ~(p + 1 - first >= LongestVarint),
                        NEW v \in Nat, NEW r \in Place, F[p + 1] = <<v, r>>
                 PROVE  F[p] = <<(s[p] % More) + More * v, r>>
    BY DEF F
  <2>3. ~(p > Len(s))
    BY <1>0, <2>2 DEF Place
  <2>4. F[p] = IF F[p + 1] = Malformed THEN Malformed
               ELSE <<(s[p] % More) + More * F[p + 1][1], F[p + 1][2]>>
    BY <2>1, <2>2, <2>3
  <2>5. F[p + 1] # Malformed /\ F[p + 1][1] = v /\ F[p + 1][2] = r
    BY <2>2 DEF Malformed
  <2> QED
    BY <2>4, <2>5
<1> HIDE DEF value
<1>2. ASSUME NEW p \in Place, p <= q, \A j \in Place : j > p => j \in P PROVE p \in P
  <2> SUFFICES ASSUME first <= p, Runs(s, p, q)
               PROVE  VarintFrom(s, first)[p] = <<value[p], q + 1>>
    OBVIOUS
  <2>0. p \in Nat /\ p + 1 \in Place /\ p \in 1..Len(s) /\ p <= Len(s) /\ ~(p > Len(s)) /\ s[p] \in Nat
    BY <1>0, <1>2 DEF Place
  <2>1. CASE p = q
    <3>1. s[p] < More /\ VarintFrom(s, first)[p] = <<s[p], p + 1>>
      BY <2>0, <2>1, VarintDef DEF Runs
    <3>2. p + 1 > q /\ ~(p > q)
      BY <2>0, <2>1
    <3>4. s[p] % More = s[p]
      BY <2>0, <3>1, Halving
    <3>3. value[p + 1] = 0
      BY <1>1, <2>0, <3>2
    <3>5. value[p] = s[p] + More * 0
      BY <1>1, <3>2, <3>3, <3>4
    <3>6. value[p] = s[p]
      BY <2>0, <3>5 DEF More
    <3> QED
      BY <2>1, <3>1, <3>6
  <2>2. CASE p # q
    <3>1. p < q /\ ~(p > q) /\ first <= p + 1 /\ p + 1 > p /\ ~(p + 1 - first >= LongestVarint)
      BY <1>0, <1>2, <2>0, <2>2
    <3>2. ~(s[p] < More) /\ Runs(s, p + 1, q)
      BY <1>0, <2>0, <3>1 DEF Runs, More, Place
    <3>3. VarintFrom(s, first)[p + 1] = <<value[p + 1], q + 1>>
      BY <1>2, <2>0, <3>1, <3>2
    <3>4. value[p + 1] \in Nat /\ q + 1 \in Place
      BY <1>0, <1>1, <2>0 DEF Place
    <3>5. VarintFrom(s, first)[p] = <<(s[p] % More) + More * value[p + 1], q + 1>>
      BY <1>5, <2>0, <3>1, <3>2, <3>3, <3>4
    <3> QED
      BY <1>1, <3>1, <3>5
  <2> QED
    BY <2>1, <2>2
<1>3. \A p \in Place : p > q => p \in P
  BY <1>0 DEF Runs, Place
<1> HIDE DEF P
<1>4. P = Place
  BY <1>0, <1>2, <1>3, Descent DEF P
<1> QED
  BY <1>4 DEF P, value

LEMMA VarintStops ==
  ASSUME NEW s \in Seq(Byte), NEW first \in Place
  PROVE  \A p \in Place :
           first <= p /\ p < first + LongestVarint /\ VarintFrom(s, first)[p] # Malformed
             => \E q \in Place : Runs(s, p, q) /\ q < first + LongestVarint
<1> DEFINE Ends(p) == \E q \in Place : Runs(s, p, q) /\ q < first + LongestVarint
           P == {p \in Place : first <= p /\ p < first + LongestVarint
                                 /\ VarintFrom(s, first)[p] # Malformed => Ends(p)}
<1>0. /\ LongestVarint \in Nat /\ Len(s) \in Nat /\ \A i \in 1..Len(s) : s[i] \in Nat
      /\ first \in Nat
  BY WidthAssumption, ByteIs DEF Place
<1>1. \A p \in Place : p > Len(s) => p \in P
  BY VarintDef
<1>2. ASSUME NEW p \in Place, p <= Len(s), \A j \in Place : j > p => j \in P PROVE p \in P
  <2> SUFFICES ASSUME first <= p, p < first + LongestVarint, VarintFrom(s, first)[p] # Malformed
               PROVE  Ends(p)
    OBVIOUS
  <2>0. p \in Nat /\ p + 1 \in Place /\ ~(p > Len(s)) /\ s[p] \in Nat /\ p + 1 > p /\ first <= p + 1
    BY <1>0, <1>2 DEF Place
  <2>1. CASE s[p] < More
    <3>1. Runs(s, p, p)
      BY <1>0, <1>2, <2>0, <2>1 DEF Runs, Place
    <3> QED
      BY <3>1
  <2>2. CASE ~(s[p] < More)
    <3>1. ~(p + 1 - first >= LongestVarint) /\ VarintFrom(s, first)[p + 1] # Malformed
      BY <2>0, <2>2, VarintDef
    <3>2. p + 1 < first + LongestVarint
      BY <1>0, <2>0, <3>1
    <3>3. Ends(p + 1)
      BY <1>2, <2>0, <3>1, <3>2
    <3>4. PICK q \in Place : Runs(s, p + 1, q) /\ q < first + LongestVarint
      BY <3>3
    <3>5. Runs(s, p, q)
      BY <2>0, <2>2, <3>4 DEF Runs, More, Place
    <3> QED
      BY <3>4, <3>5
  <2> QED
    BY <2>1, <2>2
<1> HIDE DEF P
<1>3. P = Place
  BY <1>0, <1>1, <1>2, Descent DEF P
<1> QED
  BY <1>3 DEF P

(* s stands in t, k places further on.                                     *)
StandsIn(s, t, k) == \A i \in Place : i <= Len(s) => t[i + k] = s[i]

(* A value depends on the digits from its place on, and on nothing before  *)
(* them.                                                                   *)
LEMMA ValueShift ==
  ASSUME NEW s \in Seq(Nat), NEW t \in Seq(Nat), NEW base \in Nat, NEW k \in Nat,
         Len(t) = Len(s) + k, StandsIn(s, t, k)
  PROVE  \A p \in Place : ValueFrom(t, base)[p + k] = ValueFrom(s, base)[p]
<1> DEFINE S == ValueFrom(s, base)
           T == ValueFrom(t, base)
           P == {p \in Place : T[p + k] = S[p]}
<1>0. Len(s) \in Nat /\ Len(t) \in Nat
  BY LenProperties
<1>1. /\ \A p \in Place : S[p] = IF p > Len(s) THEN 0 ELSE s[p] + base * S[p + 1]
      /\ \A p \in Place : T[p] = IF p > Len(t) THEN 0 ELSE t[p] + base * T[p + 1]
  BY ValueDef
<1> HIDE DEF S, T
<1>2. ASSUME NEW p \in Place, p > Len(s) PROVE T[p + k] = S[p]
  <2>1. p + k \in Place /\ p + k > Len(t)
    BY <1>0, <1>2 DEF Place
  <2> QED
    BY <1>1, <1>2, <2>1
<1>3. ASSUME NEW p \in Place, p <= Len(s), T[(p + 1) + k] = S[p + 1]
      PROVE  T[p + k] = S[p]
  <2>1. /\ p + k \in Place /\ ~(p + k > Len(t)) /\ ~(p > Len(s)) /\ p \in 1..Len(s)
        /\ (p + 1) + k = (p + k) + 1
    BY <1>0, <1>3 DEF Place
  <2>2. T[p + k] = t[p + k] + base * T[(p + k) + 1] /\ S[p] = s[p] + base * S[p + 1]
    BY <1>1, <2>1
  <2>3. t[p + k] = s[p] /\ T[(p + k) + 1] = S[p + 1]
    BY <1>3, <2>1 DEF StandsIn
  <2> QED
    BY <2>2, <2>3
<1>4. \A p \in Place : p > Len(s) => p \in P
  BY <1>2
<1>5. ASSUME NEW p \in Place, p <= Len(s), \A q \in Place : q > p => q \in P PROVE p \in P
  <2>1. p + 1 \in Place /\ p + 1 > p
    BY DEF Place
  <2>2. T[(p + 1) + k] = S[p + 1]
    BY <1>5, <2>1
  <2> QED
    BY <1>3, <1>5, <2>2
<1> HIDE DEF P
<1>6. P = Place
  BY <1>0, <1>4, <1>5, Descent DEF P
<1> QED
  BY <1>6 DEF P, S, T

LEMMA Cut ==
  ASSUME NEW s \in Seq(Byte), NEW p \in Place, NEW q \in Nat, p <= q + 1, q <= Len(s)
  PROVE  /\ SubSeq(s, p, q) \in Seq(Byte) /\ Len(SubSeq(s, p, q)) = q + 1 - p
         /\ \A i \in 1..(q + 1 - p) :
              SubSeq(s, p, q)[i] = s[p + i - 1] /\ p + i - 1 \in 1..Len(s)
<1>1. p \in Int /\ q \in Int /\ Len(s) \in Nat
  BY ByteIs DEF Place
<1>2. \A i \in p..q : s[i] \in Byte
  <2>1. \A i \in p..q : i \in 1..Len(s)
    BY <1>1 DEF Place
  <2> QED
    BY <2>1, ElementOfSeq
<1>3. /\ SubSeq(s, p, q) \in Seq(Byte)
      /\ Len(SubSeq(s, p, q)) = IF p <= q THEN q - p + 1 ELSE 0
      /\ \A i \in 1..(q - p + 1) : SubSeq(s, p, q)[i] = s[p + i - 1]
  BY <1>1, <1>2, SubSeqProperties
<1>4. (IF p <= q THEN q - p + 1 ELSE 0) = q + 1 - p /\ q - p + 1 = q + 1 - p
  BY <1>1
<1>5. \A i \in 1..(q + 1 - p) : p + i - 1 \in 1..Len(s)
  BY <1>1 DEF Place
<1> QED
  BY <1>3, <1>4, <1>5

LEMMA IsVarintHere ==
  ASSUME NEW s \in Seq(Byte), NEW p \in Place, NEW q \in Nat, p <= q + 1, q <= Len(s)
  PROVE  IsVarint(SubSeq(s, p, q)) <=> Runs(s, p, q) /\ q < p + LongestVarint
<1> DEFINE c == SubSeq(s, p, q)
<1>1. /\ Len(c) = q + 1 - p
      /\ \A i \in 1..(q + 1 - p) : c[i] = s[p + i - 1]
  BY Cut
<1>2. p \in Nat /\ p > 0 /\ LongestVarint \in Nat
  BY WidthAssumption DEF Place
<1> HIDE DEF c
<1>3. ASSUME IsVarint(c) PROVE Runs(s, p, q) /\ q < p + LongestVarint
  <2>1. q + 1 - p \in 1..LongestVarint /\ c[q + 1 - p] < More
        /\ \A i \in 1..(q - p) : c[i] >= More
    BY <1>1, <1>2, <1>3 DEF IsVarint
  <2>2. p <= q /\ q < p + LongestVarint /\ q \in Place
    BY <1>2, <2>1 DEF Place
  <2>3. s[q] < More
    <3>1. p + (q + 1 - p) - 1 = q /\ q + 1 - p \in 1..(q + 1 - p)
      BY <1>2, <2>1
    <3> QED
      BY <1>1, <2>1, <3>1
  <2>4. ASSUME NEW j \in Place, p <= j, j < q PROVE s[j] >= More
    <3>1. j - p + 1 \in 1..(q - p) /\ j - p + 1 \in 1..(q + 1 - p) /\ p + (j - p + 1) - 1 = j
      BY <1>2, <2>4 DEF Place
    <3> QED
      BY <1>1, <2>1, <3>1
  <2> QED
    BY <2>2, <2>3, <2>4 DEF Runs
<1>4. ASSUME Runs(s, p, q), q < p + LongestVarint PROVE IsVarint(c)
  <2>1. p <= q /\ s[q] < More /\ \A j \in Place : p <= j /\ j < q => s[j] >= More
    BY <1>4 DEF Runs
  <2>2. q + 1 - p \in 1..LongestVarint /\ q + 1 - p \in 1..(q + 1 - p) /\ p + (q + 1 - p) - 1 = q
    BY <1>2, <1>4, <2>1
  <2>3. c[q + 1 - p] < More
    BY <1>1, <2>1, <2>2
  <2>4. ASSUME NEW i \in 1..(q - p) PROVE c[i] >= More
    <3>1. /\ i \in 1..(q + 1 - p) /\ p + i - 1 \in Place
          /\ p <= p + i - 1 /\ p + i - 1 < q
      BY <1>2 DEF Place
    <3> QED
      BY <1>1, <2>1, <3>1
  <2>5. (q + 1 - p) - 1 = q - p
    BY <1>2
  <2> QED
    BY <1>1, <2>2, <2>3, <2>4, <2>5 DEF IsVarint
<1> QED
  BY <1>3, <1>4 DEF c

(* What ReadVarint returns is what the grammar says, and all it says.      *)
LEMMA VarintRead ==
  ASSUME NEW s \in Seq(Byte), NEW p \in Place
  PROVE  /\ \A q \in Nat : p <= q + 1 /\ q <= Len(s) /\ IsVarint(SubSeq(s, p, q)) =>
              /\ ReadVarint(s, p) = <<VarintValue(SubSeq(s, p, q)), q + 1>>
              /\ p <= q /\ VarintValue(SubSeq(s, p, q)) \in Nat
         /\ ReadVarint(s, p) # Malformed =>
              \E q \in Place : p <= q /\ q <= Len(s) /\ IsVarint(SubSeq(s, p, q))
<1>1. ASSUME NEW q \in Nat, p <= q + 1, q <= Len(s), IsVarint(SubSeq(s, p, q))
      PROVE  /\ ReadVarint(s, p) = <<VarintValue(SubSeq(s, p, q)), q + 1>>
             /\ p <= q /\ VarintValue(SubSeq(s, p, q)) \in Nat
  <2> DEFINE c == SubSeq(s, p, q)
             d == [i \in DOMAIN c |-> c[i] % More]
  <2>1. Runs(s, p, q) /\ q < p + LongestVarint
    BY <1>1, IsVarintHere
  <2>2. q \in Place /\ p <= q
    BY <2>1 DEF Runs
  <2>3. ReadVarint(s, p) = <<ValueFrom(Low(s, q), More)[p], q + 1>>
    <3>1. p <= p
      BY DEF Place
    <3> QED
      BY <1>1, <2>1, <2>2, <3>1, VarintRun DEF ReadVarint
  <2>4. /\ d \in Seq(Nat) /\ Len(d) = q + 1 - p
        /\ \A i \in 1..(q + 1 - p) : d[i] = s[p + i - 1] % More
    <3>1. /\ c \in Seq(Byte) /\ Len(c) = q + 1 - p
          /\ \A i \in 1..(q + 1 - p) : c[i] = s[p + i - 1]
      BY <1>1, Cut
    <3>2. DOMAIN c = 1..(q + 1 - p) /\ q + 1 - p \in Nat
      BY <3>1, LenProperties
    <3>3. \A i \in 1..(q + 1 - p) : c[i] % More \in Nat
      <4>1. \A i \in 1..(q + 1 - p) : c[i] \in Nat
        BY <3>1, ByteIs
      <4>2. \A n \in Nat : n % More \in Nat
        BY DEF More
      <4> HIDE DEF c
      <4> QED
        BY <4>1, <4>2
    <3> HIDE DEF c
    <3>4. d = [i \in 1..(q + 1 - p) |-> c[i] % More]
      BY <3>2
    <3>5. d \in Seq(Nat)
      BY <3>2, <3>3, <3>4, IsASeq
    <3> QED
      BY <3>1, <3>2, <3>4, <3>5
  <2>5. Low(s, q) \in Seq(Nat) /\ Len(Low(s, q)) = q /\ \A i \in 1..q : Low(s, q)[i] = s[i] % More
    BY <1>1, LowIs
  <2>6. VarintValue(c) = ValueFrom(d, More)[1]
    BY DEF VarintValue
  <2> HIDE DEF c, d
  <2>7. /\ p - 1 \in Nat /\ Len(Low(s, q)) = Len(d) + (p - 1) /\ More \in Nat
        /\ \A i \in 1..Len(d) : Low(s, q)[i + (p - 1)] = d[i]
    <3>1. p \in Nat /\ p > 0
      BY DEF Place
    <3>2. \A i \in 1..(q + 1 - p) : i + (p - 1) \in 1..q /\ i + (p - 1) = p + i - 1
      BY <2>2, <3>1
    <3> QED
      BY <2>2, <2>4, <2>5, <3>1, <3>2 DEF More
  <2>8. ValueFrom(Low(s, q), More)[1 + (p - 1)] = ValueFrom(d, More)[1] /\ 1 \in Place
    <3> DEFINE lo == Low(s, q)
               k == p - 1
    <3>1. /\ lo \in Seq(Nat) /\ d \in Seq(Nat) /\ More \in Nat /\ k \in Nat
          /\ Len(lo) = Len(d) + k /\ \A i \in 1..Len(d) : lo[i + k] = d[i]
      BY <2>4, <2>5, <2>7
    <3>5. lo \in Seq(Nat) /\ d \in Seq(Nat) /\ More \in Nat /\ k \in Nat /\ Len(lo) = Len(d) + k
      BY <3>1
    <3>6. StandsIn(d, lo, k)
      <4>1. \A i \in Place : i <= Len(d) => i \in 1..Len(d)
        BY <3>5, LenProperties DEF Place
      <4> QED
        BY <3>1, <4>1 DEF StandsIn
    <3>2. 1 \in Place
      BY DEF Place
    <3> HIDE DEF lo, k
    <3>3. \A j \in Place : ValueFrom(lo, More)[j + k] = ValueFrom(d, More)[j]
      BY ONLY <3>5, <3>6, ValueShift
    <3>4. ValueFrom(lo, More)[1 + k] = ValueFrom(d, More)[1]
      BY <3>2, <3>3
    <3> QED
      BY <3>2, <3>4 DEF lo, k
  <2>9. 1 + (p - 1) = p
    BY DEF Place
  <2>10. ValueFrom(d, More)[1] \in Nat
    BY <2>4, <2>7, <2>8, ValueDef
  <2> QED
    BY <2>2, <2>3, <2>6, <2>8, <2>9, <2>10 DEF c
<1>2. ASSUME ReadVarint(s, p) # Malformed
      PROVE  \E q \in Place : p <= q /\ q <= Len(s) /\ IsVarint(SubSeq(s, p, q))
  <2>1. p <= p /\ p < p + LongestVarint
    <3>1. 1 <= LongestVarint
      BY LongestIs
    <3> QED
      BY <3>1, WidthAssumption DEF Place
  <2>2. PICK q \in Place : Runs(s, p, q) /\ q < p + LongestVarint
    BY <1>2, <2>1, VarintStops DEF ReadVarint
  <2>3. p <= q /\ q <= Len(s) /\ q \in Nat /\ p <= q + 1
    BY <2>2 DEF Runs, Place
  <2> QED
    BY <2>2, <2>3, IsVarintHere
<1> QED
  BY <1>1, <1>2

(* The writer of varints: its digits meet the grammar and mean the number. *)
DigitsAre(n) ==
  /\ Digits[n][Len(Digits[n])] < More
  /\ \A i \in 1..(Len(Digits[n]) - 1) : Digits[n][i] >= More
  /\ VarintValue(Digits[n]) = n

LEMMA ValueIs ==
  ASSUME NEW s \in Seq(Byte)
  PROVE  VarintValue(s) = ValueFrom(Low(s, Len(s)), More)[1]
<1>1. DOMAIN s = 1..Len(s)
  BY LenProperties
<1> QED
  BY <1>1 DEF VarintValue, Low

LEMMA DigitsMean == \A n \in Nat : DigitsAre(n)
<1> DEFINE P == {n \in Nat : DigitsAre(n)}
<1>1. ASSUME NEW n \in Nat, \A m \in Nat : m < n => m \in P PROVE n \in P
  <2> DEFINE s == Digits[n]
             d == Low(s, Len(s))
             value == ValueFrom(d, More)
  <2>0. /\ s \in Seq(Byte) /\ Len(s) \in Nat \ {0} /\ More \in Nat /\ 1 \in Place /\ 2 \in Place
        /\ Len(s) \in Nat /\ Len(s) <= Len(s)
    BY DigitsLen DEF More, Place
  <2>1. /\ d \in Seq(Nat) /\ Len(d) = Len(s)
        /\ \A i \in 1..Len(s) : d[i] = s[i] % More
    BY <2>0, LowIs
  <2>2. VarintValue(s) = value[1]
    BY <2>0, ValueIs
  <2>3. /\ value \in [Place -> Nat]
        /\ \A i \in Place : value[i] = IF i > Len(d) THEN 0 ELSE d[i] + More * value[i + 1]
    BY <2>0, <2>1, ValueDef
  <2> HIDE DEF value, d
  <2>4. value[1] = d[1] + More * value[2] /\ value[2] \in Nat /\ d[1] = s[1] % More
    <3>1. ~(1 > Len(d)) /\ 1 \in 1..Len(s) /\ 1 + 1 = 2
      BY <2>0, <2>1
    <3>2. value[1] = d[1] + More * value[1 + 1]
      BY <2>0, <2>3, <3>1
    <3>3. value[2] \in Nat
      BY <2>0, <2>3
    <3>4. d[1] = s[1] % More
      BY <2>1, <3>1
    <3>5. value[1 + 1] = value[2]
      BY <3>1
    <3> HIDE DEF s
    <3> QED
      BY <3>2, <3>3, <3>4, <3>5
  <2>5. CASE n < More
    <3>1. s = <<n>> /\ Len(s) = 1 /\ n % More = n
      BY <2>5, DigitsLen, Halving
    <3>2. s[1] = n
      BY <3>1
    <3>3. value[2] = 0
      <4>1. 2 > Len(d)
        BY <2>1, <3>1
      <4> QED
        BY <2>0, <2>3, <4>1
    <3>4. n + More * 0 = n
      BY DEF More
    <3>5. value[1] = n
      BY <2>4, <3>1, <3>2, <3>3, <3>4
    <3>6. s[Len(s)] < More /\ 1..(Len(s) - 1) = {}
      BY <2>5, <3>1, <3>2
    <3> QED
      BY <2>2, <3>5, <3>6 DEF DigitsAre
  <2>6. CASE n >= More
    <3> DEFINE m == n \div More
               x == n % More
               t == Digits[m]
               c == Low(t, Len(t))
    <3>1. /\ m \in Nat /\ x \in 0..127 /\ n = x + More * m /\ m < n /\ ~(n < More)
      BY <2>6, Halving DEF More
    <3>2. /\ t \in Seq(Byte) /\ Len(t) \in Nat /\ Len(t) >= 1 /\ Len(s) = Len(t) + 1 /\ Len(t) <= Len(t)
      BY <2>6, <3>1, DigitsLen
    <3>3. s = <<More + x>> \o t
      BY <3>1, DigitsDef
    <3> HIDE DEF t, s
    <3>4. s[1] = More + x /\ \A i \in 1..Len(t) : s[i + 1] = t[i] /\ i + 1 \in 1..Len(s)
      <4>1. <<More + x>> \in Seq(Nat) /\ Len(<<More + x>>) = 1 /\ <<More + x>>[1] = More + x
        BY <3>1 DEF More
      <4>2. \A i \in 1..(Len(t) + 1) : s[i] = IF i <= 1 THEN <<More + x>>[i] ELSE t[i - 1]
        BY <3>2, <3>3, <4>1, ConcatProperties
      <4>3. \A i \in 1..Len(t) : i + 1 \in 1..(Len(t) + 1) /\ ~(i + 1 <= 1) /\ (i + 1) - 1 = i
        BY <3>2
      <4> QED
        BY <3>2, <4>1, <4>2, <4>3
    <3>5. /\ c \in Seq(Nat) /\ Len(c) = Len(t) /\ \A i \in 1..Len(t) : c[i] = t[i] % More
      BY <3>2, LowIs
    <3>6. DigitsAre(m)
      BY <1>1, <3>1
    <3>7. ValueFrom(c, More)[1] = m
      BY <3>2, <3>6, ValueIs DEF DigitsAre, t
    <3> HIDE DEF c
    <3>8. value[2] = m
      <4>1. Len(d) = Len(c) + 1 /\ \A i \in 1..Len(c) : d[i + 1] = c[i]
        BY <2>1, <3>2, <3>4, <3>5
      <4>2. \A p \in Place : ValueFrom(d, More)[p + 1] = ValueFrom(c, More)[p]
        <5>1. d \in Seq(Nat) /\ c \in Seq(Nat) /\ More \in Nat /\ 1 \in Nat
          BY <2>0, <2>1, <3>5
        <5>2. Len(d) = Len(c) + 1 /\ StandsIn(c, d, 1)
          <6>1. \A i \in Place : i <= Len(c) => i \in 1..Len(c)
            BY <5>1, LenProperties DEF Place
          <6> QED
            BY <4>1, <6>1 DEF StandsIn
        <5> QED
          BY ONLY <5>1, <5>2, ValueShift
      <4>3. ValueFrom(d, More)[1 + 1] = ValueFrom(c, More)[1]
        BY <2>0, <4>2
      <4> QED
        BY <3>7, <4>3 DEF value
    <3>9. d[1] = x
      <4>1. (More + x) % More = x
        BY <3>1 DEF More
      <4> QED
        BY <2>4, <3>4, <4>1
    <3>10. value[1] = n
      BY <2>4, <3>1, <3>8, <3>9
    <3>11. s[Len(s)] < More
      <4>1. t[Len(t)] < More /\ Len(t) \in 1..Len(t)
        BY <3>2, <3>6 DEF DigitsAre, t
      <4> QED
        BY <3>2, <3>4, <4>1
    <3>12. ASSUME NEW i \in 1..(Len(s) - 1) PROVE s[i] >= More
      <4>1. CASE i = 1
        BY <3>1, <3>4, <4>1 DEF More
      <4>2. CASE i # 1
        <5>1. i - 1 \in 1..(Len(t) - 1) /\ i - 1 \in 1..Len(t) /\ (i - 1) + 1 = i
          BY <3>2, <4>2
        <5>2. t[i - 1] >= More
          BY <3>6, <5>1 DEF DigitsAre, t
        <5> QED
          BY <3>4, <5>1, <5>2
      <4> QED
        BY <4>1, <4>2
    <3> QED
      BY <2>2, <3>10, <3>11, <3>12 DEF DigitsAre, s
  <2> QED
    BY <2>5, <2>6 DEF More
<1> HIDE DEF P
<1>2. P = Nat
  BY <1>1, CompleteInduction DEF P
<1> QED
  BY <1>2 DEF P

LEMMA DigitsGrow ==
  \A n, m \in Nat : n <= m => Len(Digits[n]) <= Len(Digits[m])
<1> DEFINE P == {n \in Nat : \A m \in Nat : n <= m => Len(Digits[n]) <= Len(Digits[m])}
<1>1. ASSUME NEW n \in Nat, \A k \in Nat : k < n => k \in P PROVE n \in P
  <2>1. ASSUME NEW m \in Nat, n <= m PROVE Len(Digits[n]) <= Len(Digits[m])
    <3>1. CASE n < More
      BY <3>1, DigitsLen
    <3>2. CASE n >= More
      <4>1. m >= More
        BY <2>1, <3>2 DEF More
      <4>2. n \div More \in Nat /\ m \div More \in Nat /\ n \div More < n
        BY <3>2, Halving
      <4>3. n \div More <= m \div More
        BY <2>1 DEF More
      <4>4. Len(Digits[n \div More]) <= Len(Digits[m \div More])
        BY <1>1, <4>2, <4>3
      <4>5. /\ Len(Digits[n]) = Len(Digits[n \div More]) + 1
            /\ Len(Digits[m]) = Len(Digits[m \div More]) + 1
            /\ Len(Digits[n \div More]) \in Nat /\ Len(Digits[m \div More]) \in Nat
        BY <3>2, <4>1, <4>2, DigitsLen
      <4> QED
        BY <4>4, <4>5
    <3> QED
      BY <3>1, <3>2 DEF More
  <2> QED
    BY <2>1
<1> HIDE DEF P
<1>2. P = Nat
  BY <1>1, CompleteInduction DEF P
<1> QED
  BY <1>2 DEF P

LEMMA Wrapped ==
  ASSUME NEW n \in Int
  PROVE  n % Word \in Nat /\ n % Word < Word /\ (n \in Nat /\ n < Word => n % Word = n)
<1>1. \A w \in Nat \ {0} :
        n % w \in Nat /\ n % w < w /\ (n \in Nat /\ n < w => n % w = n)
  OBVIOUS
<1> QED
  BY <1>1, WordIs

LEMMA VarintMeans ==
  ASSUME NEW n \in Int
  PROVE  /\ Varint(n) \in Seq(Byte) /\ Len(Varint(n)) \in Nat \ {0}
         /\ IsVarint(Varint(n)) /\ VarintValue(Varint(n)) = n % Word
<1>1. n % Word \in Nat /\ n % Word <= Word - 1 /\ Word - 1 \in Nat /\ (Word - 1) % Word = Word - 1
  BY Wrapped, WordIs
<1>2. Len(Varint(n)) <= Len(Varint(Word - 1))
  BY <1>1, DigitsGrow DEF Varint
<1>3. /\ Varint(n) \in Seq(Byte) /\ Len(Varint(n)) \in Nat \ {0}
      /\ Len(Varint(Word - 1)) \in Nat
  BY <1>1, DigitsLen DEF Varint
<1>4. Len(Varint(n)) \in 1..LongestVarint
  BY <1>2, <1>3, WidthAssumption
<1> QED
  BY <1>1, <1>3, <1>4, DigitsMean DEF Varint, DigitsAre, IsVarint

-----------------------------------------------------------------------------
(* The reader of entries.  Equal bytes make equal pieces.                  *)
SamePiece(s, t, k, p, q) ==
  /\ s \in Seq(Byte) /\ t \in Seq(Byte) /\ k \in Nat
  /\ p \in Place /\ q \in Nat /\ p <= q + 1 /\ q <= Len(s) /\ q + k <= Len(t)
  /\ \A i \in Place : p <= i /\ i <= q => t[i + k] = s[i]

CutsAlike(s, t, k, p, q) == SubSeq(t, p + k, q + k) = SubSeq(s, p, q)

PieceOfPiece(s, p, q, x, y) ==
  /\ s \in Seq(Byte) /\ p \in Place /\ q \in Nat /\ p <= q + 1 /\ q <= Len(s)
  /\ x \in Place /\ y \in Nat /\ x <= y + 1 /\ y <= q + 1 - p

CutsThrough(s, p, q, x, y) ==
  SubSeq(SubSeq(s, p, q), x, y) = SubSeq(s, p + x - 1, p + y - 1)

LEMMA SameCut ==
  ASSUME NEW s, NEW t, NEW p, NEW q, NEW k, SamePiece(s, t, k, p, q)
  PROVE  CutsAlike(s, t, k, p, q)
<1> USE DEF SamePiece
<1> DEFINE a == SubSeq(s, p, q)
           b == SubSeq(t, p + k, q + k)
<1>1. p + k \in Place /\ q + k \in Nat /\ p + k <= q + k + 1 /\ (q + k) + 1 - (p + k) = q + 1 - p
  BY DEF Place
<1>2. a \in Seq(Byte) /\ Len(a) = q + 1 - p /\ \A i \in 1..(q + 1 - p) : a[i] = s[p + i - 1]
  BY Cut
<1>3. b \in Seq(Byte) /\ Len(b) = q + 1 - p /\ \A i \in 1..(q + 1 - p) : b[i] = t[(p + k) + i - 1]
  BY <1>1, Cut
<1> HIDE DEF a, b
<1>4. ASSUME NEW i \in 1..Len(a) PROVE a[i] = b[i]
  <2>1. /\ i \in 1..(q + 1 - p) /\ p + i - 1 \in Place /\ p <= p + i - 1 /\ p + i - 1 <= q
        /\ (p + i - 1) + k = (p + k) + i - 1
    BY <1>2 DEF Place
  <2>2. t[(p + i - 1) + k] = s[p + i - 1]
    BY <2>1
  <2> QED
    BY <1>2, <1>3, <2>1, <2>2
<1>5. a = b
  BY <1>2, <1>3, <1>4, SeqEqual
<1> QED
  BY <1>5 DEF a, b, CutsAlike

LEMMA CutOfCut ==
  ASSUME NEW s, NEW p, NEW q, NEW x, NEW y, PieceOfPiece(s, p, q, x, y)
  PROVE  CutsThrough(s, p, q, x, y)
<1> USE DEF PieceOfPiece
<1> DEFINE c == SubSeq(s, p, q)
           k == p - 1
<1>1. c \in Seq(Byte) /\ Len(c) = q + 1 - p /\ \A i \in 1..(q + 1 - p) : c[i] = s[p + i - 1]
  BY Cut
<1>2. /\ k \in Nat /\ y + k <= Len(s) /\ x + k = p + x - 1 /\ y + k = p + y - 1
      /\ Len(s) \in Nat /\ p \in Nat
  BY ByteIs DEF Place
<1> HIDE DEF c
<1>3. ASSUME NEW i \in Place, x <= i, i <= y PROVE s[i + k] = c[i]
  <2>1. i \in 1..(q + 1 - p) /\ i + k = p + i - 1
    BY <1>2, <1>3 DEF Place
  <2> QED
    BY <1>1, <2>1
<1> HIDE DEF k
<1>4. SamePiece(c, s, k, x, y)
  BY <1>1, <1>2, <1>3 DEF SamePiece
<1>5. CutsAlike(c, s, k, x, y)
  BY <1>4, SameCut
<1> QED
  BY <1>2, <1>5 DEF c, CutsAlike, CutsThrough

(* The grammar, one alternative a disjunct.                                *)
RestSays(rest, wire, v) ==
  \/ wire = WIRE_VARINT /\ IsVarint(rest) /\ v = <<VarintValue(rest)>>
  \/ wire = WIRE_FIXED32 /\ Len(rest) = Fixed32Size /\ v = <<Number(rest)>>
  \/ wire = WIRE_FIXED64 /\ Len(rest) = Fixed64Size /\ v = <<Number(rest)>>
  \/ /\ wire = WIRE_BYTES
     /\ \E k \in 1..Len(rest) : /\ IsVarint(SubSeq(rest, 1, k))
                                /\ VarintValue(SubSeq(rest, 1, k)) = Len(rest) - k
                                /\ v = Rest(rest, k)

EntrySays(tag, rest, e) ==
  LET t == VarintValue(tag)
  IN /\ IsVarint(tag) /\ t \div 8 # 0
     /\ RestSays(rest, t % 8, e.value)
     /\ e = Entry(t \div 8, t % 8 = WIRE_BYTES, e.value)

LEMMA EntriesAre ==
  ASSUME NEW c, NEW e
  PROVE  e \in Entries(c) <=> \E n \in 1..Len(c) : EntrySays(SubSeq(c, 1, n), Rest(c, n), e)
<1> DEFINE One(tag, rest) ==
      IF ~IsVarint(tag) \/ VarintValue(tag) \div 8 = 0 THEN {}
      ELSE IF VarintValue(tag) % 8 = WIRE_VARINT
        THEN {Entry(VarintValue(tag) \div 8, FALSE, <<VarintValue(r)>>) :
                r \in {r \in {rest} : IsVarint(r)}}
      ELSE IF VarintValue(tag) % 8 \in {WIRE_FIXED32, WIRE_FIXED64}
        THEN IF Len(rest) =
                  (IF VarintValue(tag) % 8 = WIRE_FIXED32 THEN Fixed32Size ELSE Fixed64Size)
               THEN {Entry(VarintValue(tag) \div 8, FALSE, <<Number(rest)>>)} ELSE {}
      ELSE IF VarintValue(tag) % 8 = WIRE_BYTES
        THEN {Entry(VarintValue(tag) \div 8, TRUE, Rest(rest, k)) :
                k \in {k \in 1..Len(rest) : /\ IsVarint(SubSeq(rest, 1, k))
                                            /\ VarintValue(SubSeq(rest, 1, k)) = Len(rest) - k}}
      ELSE {}
<1>1. Entries(c) = UNION {One(SubSeq(c, 1, n), Rest(c, n)) : n \in 1..Len(c)}
  BY DEF Entries
<1>2. ASSUME NEW tag, NEW rest PROVE e \in One(tag, rest) <=> EntrySays(tag, rest, e)
  <2> DEFINE f == VarintValue(tag) \div 8
             w == VarintValue(tag) % 8
  <2> HIDE DEF f, w
  <2>0. \A v, b : Entry(f, b, v).value = v
    BY DEF Entry
  <2>1. EntrySays(tag, rest, e) <=> /\ IsVarint(tag) /\ f # 0
                                    /\ RestSays(rest, w, e.value)
                                    /\ e = Entry(f, w = WIRE_BYTES, e.value)
    BY DEF EntrySays, f, w
  <2>2. CASE ~IsVarint(tag) \/ f = 0
    BY <2>1, <2>2 DEF f
  <2>3. CASE ~(~IsVarint(tag) \/ f = 0) /\ w = WIRE_VARINT
    <3>1. One(tag, rest) = {Entry(f, FALSE, <<VarintValue(r)>>) : r \in {r \in {rest} : IsVarint(r)}}
      BY <2>3 DEF f, w
    <3>2. (w = WIRE_BYTES) = FALSE
      BY <2>3 DEF WIRE_BYTES, WIRE_VARINT
    <3>3. RestSays(rest, w, e.value) <=> IsVarint(rest) /\ e.value = <<VarintValue(rest)>>
      BY <2>3 DEF RestSays, WIRE_VARINT, WIRE_FIXED32, WIRE_FIXED64, WIRE_BYTES
    <3> HIDE DEF One
    <3>4. e \in One(tag, rest) <=> IsVarint(rest) /\ e = Entry(f, FALSE, <<VarintValue(rest)>>)
      BY <3>1
    <3> QED
      BY <2>0, <2>1, <2>3, <3>2, <3>3, <3>4
  <2>4. CASE ~(~IsVarint(tag) \/ f = 0) /\ w \in {WIRE_FIXED32, WIRE_FIXED64}
    <3> DEFINE size == IF w = WIRE_FIXED32 THEN Fixed32Size ELSE Fixed64Size
    <3>0. w # WIRE_VARINT /\ w # WIRE_BYTES
      BY <2>4 DEF WIRE_VARINT, WIRE_FIXED32, WIRE_FIXED64, WIRE_BYTES
    <3>1. One(tag, rest) = IF Len(rest) = size THEN {Entry(f, FALSE, <<Number(rest)>>)} ELSE {}
      BY <2>4, <3>0 DEF f, w
    <3>2. (w = WIRE_BYTES) = FALSE
      BY <3>0
    <3>3. RestSays(rest, w, e.value) <=> Len(rest) = size /\ e.value = <<Number(rest)>>
      BY <2>4, <3>0 DEF RestSays, WIRE_FIXED32, WIRE_FIXED64
    <3> HIDE DEF One, size
    <3>4. e \in One(tag, rest) <=> Len(rest) = size /\ e = Entry(f, FALSE, <<Number(rest)>>)
      BY <3>1
    <3> QED
      BY <2>0, <2>1, <2>4, <3>2, <3>3, <3>4
  <2>5. CASE ~(~IsVarint(tag) \/ f = 0) /\ w = WIRE_BYTES
    <3> DEFINE Fits(k) == /\ IsVarint(SubSeq(rest, 1, k))
                          /\ VarintValue(SubSeq(rest, 1, k)) = Len(rest) - k
    <3>0. w # WIRE_VARINT /\ w \notin {WIRE_FIXED32, WIRE_FIXED64}
      BY <2>5 DEF WIRE_VARINT, WIRE_FIXED32, WIRE_FIXED64, WIRE_BYTES
    <3>1. One(tag, rest) = {Entry(f, TRUE, Rest(rest, k)) : k \in {k \in 1..Len(rest) : Fits(k)}}
      BY <2>5, <3>0 DEF f, w
    <3>2. (w = WIRE_BYTES) = TRUE
      BY <2>5
    <3>3. RestSays(rest, w, e.value) <=> \E k \in 1..Len(rest) : Fits(k) /\ e.value = Rest(rest, k)
      BY <2>5, <3>0 DEF RestSays
    <3> HIDE DEF One, Fits
    <3>4. e \in One(tag, rest) <=> \E k \in 1..Len(rest) : Fits(k) /\ e = Entry(f, TRUE, Rest(rest, k))
      BY <3>1
    <3>5. \A v : e = Entry(f, TRUE, v) <=> e.value = v /\ e = Entry(f, TRUE, e.value)
      BY <2>0
    <3>6. EntrySays(tag, rest, e) <=> /\ \E k \in 1..Len(rest) : Fits(k) /\ e.value = Rest(rest, k)
                                      /\ e = Entry(f, TRUE, e.value)
      <4>1. EntrySays(tag, rest, e) <=> /\ RestSays(rest, w, e.value)
                                        /\ e = Entry(f, w = WIRE_BYTES, e.value)
        BY <2>1, <2>5
      <4> QED
        BY <3>2, <3>3, <4>1
    <3> DEFINE R(v) == e = Entry(f, TRUE, v)
               Q == e = Entry(f, TRUE, e.value)
    <3>7. \A k \in 1..Len(rest) : R(Rest(rest, k)) <=> e.value = Rest(rest, k) /\ Q
      BY <3>5
    <3>8. e \in One(tag, rest) <=> \E k \in 1..Len(rest) : Fits(k) /\ R(Rest(rest, k))
      BY <3>4
    <3>9. EntrySays(tag, rest, e) <=> (\E k \in 1..Len(rest) : Fits(k) /\ e.value = Rest(rest, k)) /\ Q
      BY <3>6
    <3> HIDE DEF R, Q
    <3> QED
      BY <3>7, <3>8, <3>9
  <2>6. CASE /\ ~(~IsVarint(tag) \/ f = 0)
             /\ w # WIRE_VARINT /\ w \notin {WIRE_FIXED32, WIRE_FIXED64} /\ w # WIRE_BYTES
    <3>1. One(tag, rest) = {}
      BY <2>6 DEF f, w
    <3>2. ~RestSays(rest, w, e.value)
      BY <2>6 DEF RestSays
    <3> QED
      BY <2>1, <3>1, <3>2
  <2> QED
    BY <2>2, <2>3, <2>4, <2>5, <2>6
<1> HIDE DEF One
<1> QED
  BY <1>1, <1>2

LEMMA VarintFound ==
  ASSUME NEW s \in Seq(Byte), NEW p \in Place, ReadVarint(s, p) # Malformed
  PROVE  \E q \in Place : /\ p <= q /\ q <= Len(s) /\ IsVarint(SubSeq(s, p, q))
                          /\ ReadVarint(s, p) = <<VarintValue(SubSeq(s, p, q)), q + 1>>
                          /\ VarintValue(SubSeq(s, p, q)) \in Nat
<1>1. PICK q \in Place : p <= q /\ q <= Len(s) /\ IsVarint(SubSeq(s, p, q))
  BY VarintRead
<1>2. q \in Nat /\ p <= q + 1
  BY <1>1 DEF Place
<1> QED
  BY <1>1, <1>2, VarintRead

LEMMA TakeIs ==
  ASSUME NEW s \in Seq(Byte), NEW p \in Place, NEW n \in Nat
  PROVE  TakeBytes(s, p, n) = IF p + n - 1 <= Len(s) THEN <<SubSeq(s, p, p + n - 1), p + n>>
                              ELSE Malformed
<1>1. p + n > Len(s) + 1 <=> ~(p + n - 1 <= Len(s))
  BY ByteIs DEF Place
<1> QED
  BY <1>1 DEF TakeBytes

(* What stands behind a tag: the reader finds it when the grammar has it,  *)
(* and the grammar has what the reader finds.                              *)
PayloadExact(s, p, wire) ==
  /\ \A q \in Nat : \A v : p <= q + 1 /\ q <= Len(s) /\ RestSays(SubSeq(s, p, q), wire, v) =>
       /\ Payload(s, p, wire) # Malformed /\ Payload(s, p, wire)[2] = q + 1
       /\ Decoded(wire, Payload(s, p, wire)[1]) = v
  /\ Payload(s, p, wire) # Malformed =>
       \E q \in Nat : /\ p <= q + 1 /\ q <= Len(s) /\ Payload(s, p, wire)[2] = q + 1
                      /\ RestSays(SubSeq(s, p, q), wire, Decoded(wire, Payload(s, p, wire)[1]))

LEMMA PayloadVarint ==
  ASSUME NEW s \in Seq(Byte), NEW p \in Place
  PROVE  PayloadExact(s, p, WIRE_VARINT)
<1>1. Payload(s, p, WIRE_VARINT) = ReadVarint(s, p) /\ \A x : Decoded(WIRE_VARINT, x) = <<x>>
  BY DEF Payload, Decoded, WIRE_VARINT, WIRE_BYTES, WIRE_FIXED32, WIRE_FIXED64
<1>2. \A rest, v : RestSays(rest, WIRE_VARINT, v) <=> IsVarint(rest) /\ v = <<VarintValue(rest)>>
  BY DEF RestSays, WIRE_VARINT, WIRE_BYTES, WIRE_FIXED32, WIRE_FIXED64
<1>3. ASSUME NEW q \in Nat, NEW v, p <= q + 1, q <= Len(s), RestSays(SubSeq(s, p, q), WIRE_VARINT, v)
      PROVE  /\ Payload(s, p, WIRE_VARINT) # Malformed /\ Payload(s, p, WIRE_VARINT)[2] = q + 1
             /\ Decoded(WIRE_VARINT, Payload(s, p, WIRE_VARINT)[1]) = v
  <2>1. ReadVarint(s, p) = <<VarintValue(SubSeq(s, p, q)), q + 1>>
    BY <1>2, <1>3, VarintRead
  <2> QED
    BY <1>1, <1>2, <1>3, <2>1 DEF Malformed
<1>4. ASSUME Payload(s, p, WIRE_VARINT) # Malformed
      PROVE  \E q \in Nat :
               /\ p <= q + 1 /\ q <= Len(s) /\ Payload(s, p, WIRE_VARINT)[2] = q + 1
               /\ RestSays(SubSeq(s, p, q), WIRE_VARINT,
                           Decoded(WIRE_VARINT, Payload(s, p, WIRE_VARINT)[1]))
  <2>1. PICK q \in Place : /\ p <= q /\ q <= Len(s) /\ IsVarint(SubSeq(s, p, q))
                           /\ ReadVarint(s, p) = <<VarintValue(SubSeq(s, p, q)), q + 1>>
    BY <1>1, <1>4, VarintFound
  <2>2. q \in Nat /\ p <= q + 1
    BY <2>1 DEF Place
  <2> QED
    BY <1>1, <1>2, <2>1, <2>2
<1> QED
  BY <1>3, <1>4 DEF PayloadExact

LEMMA PayloadFixed ==
  ASSUME NEW s \in Seq(Byte), NEW p \in Place, NEW wire, NEW size \in Nat,
         \/ wire = WIRE_FIXED32 /\ size = Fixed32Size
         \/ wire = WIRE_FIXED64 /\ size = Fixed64Size
  PROVE  PayloadExact(s, p, wire)
<1>0. p \in Nat
  BY DEF Place
<1>1. Payload(s, p, wire) = TakeBytes(s, p, size) /\ \A x : Decoded(wire, x) = <<Number(x)>>
  BY DEF Payload, Decoded, WIRE_VARINT, WIRE_BYTES, WIRE_FIXED32, WIRE_FIXED64
<1>2. \A rest, v : RestSays(rest, wire, v) <=> Len(rest) = size /\ v = <<Number(rest)>>
  BY DEF RestSays, WIRE_VARINT, WIRE_BYTES, WIRE_FIXED32, WIRE_FIXED64
<1>3. ASSUME NEW q \in Nat, NEW v, p <= q + 1, q <= Len(s), RestSays(SubSeq(s, p, q), wire, v)
      PROVE  /\ Payload(s, p, wire) # Malformed /\ Payload(s, p, wire)[2] = q + 1
             /\ Decoded(wire, Payload(s, p, wire)[1]) = v
  <2>1. Len(SubSeq(s, p, q)) = q + 1 - p /\ Len(SubSeq(s, p, q)) = size
    BY <1>2, <1>3, Cut
  <2>2. p + size = q + 1 /\ p + size - 1 = q
    BY <1>0, <2>1
  <2>3. TakeBytes(s, p, size) = <<SubSeq(s, p, q), q + 1>>
    BY <1>3, <2>2, TakeIs
  <2> QED
    BY <1>1, <1>2, <1>3, <2>3 DEF Malformed
<1>4. ASSUME Payload(s, p, wire) # Malformed
      PROVE  \E q \in Nat : /\ p <= q + 1 /\ q <= Len(s) /\ Payload(s, p, wire)[2] = q + 1
                            /\ RestSays(SubSeq(s, p, q), wire, Decoded(wire, Payload(s, p, wire)[1]))
  <2> DEFINE q == p + size - 1
  <2>1. q <= Len(s) /\ TakeBytes(s, p, size) = <<SubSeq(s, p, q), p + size>>
    BY <1>1, <1>4, TakeIs
  <2>2. q \in Nat /\ p <= q + 1 /\ p + size = q + 1 /\ q + 1 - p = size
    BY <1>0 DEF Place
  <2> HIDE DEF q
  <2>3. Len(SubSeq(s, p, q)) = size
    BY <2>1, <2>2, Cut
  <2>4. Payload(s, p, wire) = <<SubSeq(s, p, q), q + 1>>
    BY <1>1, <2>1, <2>2
  <2>5. RestSays(SubSeq(s, p, q), wire, Decoded(wire, SubSeq(s, p, q)))
    BY <1>1, <1>2, <2>3
  <2> QED
    BY <2>1, <2>2, <2>4, <2>5
<1> QED
  BY <1>3, <1>4 DEF PayloadExact

(* The first bytes of a piece and the rest of it.                          *)
LEMMA Parts ==
  ASSUME NEW s \in Seq(Byte), NEW p \in Place, NEW q \in Nat, p <= q + 1, q <= Len(s),
         NEW k \in 1..(q + 1 - p)
  PROVE  /\ Len(SubSeq(s, p, q)) = q + 1 - p
         /\ SubSeq(SubSeq(s, p, q), 1, k) = SubSeq(s, p, p + k - 1)
         /\ Rest(SubSeq(s, p, q), k) = SubSeq(s, p + k, q)
<1>0. p \in Nat /\ p > 0 /\ Len(s) \in Nat
  BY ByteIs DEF Place
<1>1. Len(SubSeq(s, p, q)) = q + 1 - p
  BY Cut
<1>2. SubSeq(SubSeq(s, p, q), 1, k) = SubSeq(s, p + 1 - 1, p + k - 1) /\ p + 1 - 1 = p
  <2>1. 1 \in Place /\ k \in Nat /\ 1 <= k + 1 /\ k <= q + 1 - p /\ p + 1 - 1 = p
    BY <1>0 DEF Place
  <2>2. PieceOfPiece(s, p, q, 1, k)
    BY <2>1 DEF PieceOfPiece
  <2>3. CutsThrough(s, p, q, 1, k)
    BY <2>2, CutOfCut
  <2> QED
    BY <2>1, <2>3 DEF CutsThrough
<1>3. SubSeq(SubSeq(s, p, q), k + 1, q + 1 - p) = SubSeq(s, p + k, q)
  <2> DEFINE x == k + 1
             y == q + 1 - p
  <2>1. /\ x \in Place /\ y \in Nat /\ x <= y + 1 /\ y <= q + 1 - p
        /\ p + x - 1 = p + k /\ p + y - 1 = q
    BY <1>0 DEF Place
  <2> HIDE DEF x, y
  <2>2. SubSeq(SubSeq(s, p, q), x, y) = SubSeq(s, p + x - 1, p + y - 1)
    <3>1. PieceOfPiece(s, p, q, x, y)
      BY <2>1 DEF PieceOfPiece
    <3>2. CutsThrough(s, p, q, x, y)
      BY <3>1, CutOfCut
    <3> QED
      BY ONLY <3>2 DEF CutsThrough
  <2> QED
    BY <2>1, <2>2 DEF x, y
<1> QED
  BY <1>1, <1>2, <1>3 DEF Rest

LEMMA PayloadBytes ==
  ASSUME NEW s \in Seq(Byte), NEW p \in Place
  PROVE  PayloadExact(s, p, WIRE_BYTES)
<1> DEFINE length == ReadVarint(s, p)
<1>0. p \in Nat /\ p > 0 /\ Len(s) \in Nat
  BY ByteIs DEF Place
<1>1. /\ Payload(s, p, WIRE_BYTES) =
           IF length = Malformed THEN Malformed ELSE TakeBytes(s, length[2], length[1])
      /\ \A x : Decoded(WIRE_BYTES, x) = x
  BY DEF Payload, Decoded, WIRE_VARINT, WIRE_BYTES, WIRE_FIXED32, WIRE_FIXED64
<1>2. \A rest, v : RestSays(rest, WIRE_BYTES, v) <=>
        \E k \in 1..Len(rest) : /\ IsVarint(SubSeq(rest, 1, k))
                                /\ VarintValue(SubSeq(rest, 1, k)) = Len(rest) - k
                                /\ v = Rest(rest, k)
  BY DEF RestSays, WIRE_VARINT, WIRE_BYTES, WIRE_FIXED32, WIRE_FIXED64
<1> HIDE DEF length
<1>3. ASSUME NEW q \in Nat, p <= q + 1, q <= Len(s), NEW k \in 1..(q + 1 - p)
      PROVE  /\ Len(SubSeq(s, p, q)) = q + 1 - p
             /\ SubSeq(SubSeq(s, p, q), 1, k) = SubSeq(s, p, p + k - 1)
             /\ Rest(SubSeq(s, p, q), k) = SubSeq(s, p + k, q)
  BY <1>3, Parts
<1>4. ASSUME NEW q \in Nat, NEW v, p <= q + 1, q <= Len(s), RestSays(SubSeq(s, p, q), WIRE_BYTES, v)
      PROVE  /\ Payload(s, p, WIRE_BYTES) # Malformed /\ Payload(s, p, WIRE_BYTES)[2] = q + 1
             /\ Decoded(WIRE_BYTES, Payload(s, p, WIRE_BYTES)[1]) = v
  <2> DEFINE c == SubSeq(s, p, q)
  <2>1. Len(c) = q + 1 - p
    BY <1>4, Cut
  <2>2. PICK k \in 1..(q + 1 - p) : /\ IsVarint(SubSeq(c, 1, k))
                                    /\ VarintValue(SubSeq(c, 1, k)) = q + 1 - p - k
                                    /\ v = Rest(c, k)
    <3> HIDE DEF c
    <3>1. RestSays(c, WIRE_BYTES, v)
      BY <1>4 DEF c
    <3>2. \E k \in 1..Len(c) : /\ IsVarint(SubSeq(c, 1, k))
                               /\ VarintValue(SubSeq(c, 1, k)) = Len(c) - k
                               /\ v = Rest(c, k)
      BY <1>2, <3>1
    <3>3. PICK k \in 1..Len(c) : /\ IsVarint(SubSeq(c, 1, k))
                                 /\ VarintValue(SubSeq(c, 1, k)) = Len(c) - k
                                 /\ v = Rest(c, k)
      BY <3>2
    <3>4. k \in 1..(q + 1 - p) /\ VarintValue(SubSeq(c, 1, k)) = q + 1 - p - k
      BY <1>0, <2>1, <3>3
    <3> QED
      BY <3>3, <3>4
  <2> DEFINE m == p + k - 1
             n == q + 1 - p - k
  <2>3. /\ m \in Nat /\ p <= m + 1 /\ m <= Len(s) /\ m + 1 \in Place /\ n \in Nat
        /\ (m + 1) + n = q + 1 /\ (m + 1) + n - 1 = q /\ p + k = m + 1
    BY <1>0, <1>4 DEF Place
  <2>4. IsVarint(SubSeq(s, p, m)) /\ VarintValue(SubSeq(s, p, m)) = n /\ v = SubSeq(s, p + k, q)
    BY <1>3, <1>4, <2>2
  <2> HIDE DEF c, m, n
  <2>5. length = <<n, m + 1>>
    BY <2>3, <2>4, VarintRead DEF length
  <2>6. TakeBytes(s, m + 1, n) = <<SubSeq(s, m + 1, q), q + 1>>
    BY <1>4, <2>3, TakeIs
  <2>7. Payload(s, p, WIRE_BYTES) = <<v, q + 1>>
    BY <1>1, <2>3, <2>4, <2>5, <2>6 DEF Malformed
  <2>8. /\ Payload(s, p, WIRE_BYTES) # Malformed /\ Payload(s, p, WIRE_BYTES)[2] = q + 1
        /\ Payload(s, p, WIRE_BYTES)[1] = v
    BY <2>7 DEF Malformed
  <2> QED
    BY <1>1, <2>8
<1>5. ASSUME Payload(s, p, WIRE_BYTES) # Malformed
      PROVE  \E q \in Nat :
               /\ p <= q + 1 /\ q <= Len(s) /\ Payload(s, p, WIRE_BYTES)[2] = q + 1
               /\ RestSays(SubSeq(s, p, q), WIRE_BYTES,
                           Decoded(WIRE_BYTES, Payload(s, p, WIRE_BYTES)[1]))
  <2>1. length # Malformed /\ Payload(s, p, WIRE_BYTES) = TakeBytes(s, length[2], length[1])
    BY <1>1, <1>5
  <2>2. PICK m \in Place : /\ p <= m /\ m <= Len(s) /\ IsVarint(SubSeq(s, p, m))
                           /\ length = <<VarintValue(SubSeq(s, p, m)), m + 1>>
                           /\ VarintValue(SubSeq(s, p, m)) \in Nat
    BY <2>1, VarintFound DEF length
  <2> DEFINE n == VarintValue(SubSeq(s, p, m))
             q == m + n
             k == m + 1 - p
  <2>3. n \in Nat /\ m \in Nat /\ m + 1 \in Place /\ (m + 1) + n - 1 = q /\ (m + 1) + n = q + 1
    <3>1. n \in Nat /\ m \in Place
      BY <2>2
    <3> HIDE DEF n
    <3> QED
      BY <3>1 DEF Place
  <2>4. TakeBytes(s, m + 1, n) # Malformed
    BY <1>5, <2>1, <2>2
  <2> HIDE DEF n
  <2>5. q <= Len(s) /\ Payload(s, p, WIRE_BYTES) = <<SubSeq(s, m + 1, q), q + 1>>
    BY <2>1, <2>2, <2>3, <2>4, TakeIs DEF n
  <2>6. /\ q \in Nat /\ p <= q + 1 /\ k \in 1..(q + 1 - p) /\ p + k - 1 = m /\ p + k = m + 1
        /\ (q + 1 - p) - k = n
    BY <1>0, <2>2, <2>3
  <2> HIDE DEF q, k
  <2>7. /\ Len(SubSeq(s, p, q)) = q + 1 - p
        /\ SubSeq(SubSeq(s, p, q), 1, k) = SubSeq(s, p, m)
        /\ Rest(SubSeq(s, p, q), k) = SubSeq(s, m + 1, q)
    BY <1>3, <2>5, <2>6
  <2>8. RestSays(SubSeq(s, p, q), WIRE_BYTES, SubSeq(s, m + 1, q))
    <3> DEFINE c == SubSeq(s, p, q)
    <3>1. /\ k \in 1..Len(c) /\ IsVarint(SubSeq(c, 1, k))
          /\ VarintValue(SubSeq(c, 1, k)) = Len(c) - k
          /\ SubSeq(s, m + 1, q) = Rest(c, k)
      BY <2>2, <2>6, <2>7 DEF n
    <3> HIDE DEF c
    <3> QED
      BY <1>2, <3>1 DEF c
  <2>9. Payload(s, p, WIRE_BYTES)[2] = q + 1 /\ Payload(s, p, WIRE_BYTES)[1] = SubSeq(s, m + 1, q)
    <3> DEFINE w == SubSeq(s, m + 1, q)
               r == q + 1
    <3>1. Payload(s, p, WIRE_BYTES) = <<w, r>>
      BY <2>5
    <3> HIDE DEF w, r
    <3>2. Payload(s, p, WIRE_BYTES)[2] = r /\ Payload(s, p, WIRE_BYTES)[1] = w
      BY <3>1
    <3> QED
      BY <3>2 DEF w, r
  <2>10. RestSays(SubSeq(s, p, q), WIRE_BYTES, Decoded(WIRE_BYTES, Payload(s, p, WIRE_BYTES)[1]))
    BY <1>1, <2>8, <2>9
  <2> QED
    BY <2>5, <2>6, <2>9, <2>10
<1> QED
  BY <1>4, <1>5 DEF PayloadExact

LEMMA PayloadIs ==
  ASSUME NEW s \in Seq(Byte), NEW p \in Place, NEW wire
  PROVE  PayloadExact(s, p, wire)
<1>0. Fixed32Size \in Nat /\ Fixed64Size \in Nat
  BY WidthAssumption
<1>1. CASE wire \notin {WIRE_VARINT, WIRE_BYTES, WIRE_FIXED32, WIRE_FIXED64}
  BY <1>1 DEF PayloadExact, Payload, RestSays
<1> QED
  BY <1>0, <1>1, PayloadVarint, PayloadFixed, PayloadBytes

(* The reader of one entry and the grammar's entries.                      *)
EntryExact(s, p) ==
  /\ \A q \in Nat : \A e : p <= q /\ q <= Len(s) /\ e \in Entries(SubSeq(s, p, q)) =>
       EntryAt(s, p) = <<e, q + 1>>
  /\ EntryAt(s, p) # Malformed =>
       \E q \in Nat : \E e : /\ p <= q /\ q <= Len(s) /\ e \in Entries(SubSeq(s, p, q))
                             /\ EntryAt(s, p) = <<e, q + 1>>

LEMMA EntryAtIs ==
  ASSUME NEW s, NEW p, NEW t, NEW r, ReadVarint(s, p) = <<t, r>>
  PROVE  EntryAt(s, p) =
           IF t \div 8 = 0 \/ Payload(s, r, t % 8) = Malformed THEN Malformed
           ELSE <<Entry(t \div 8, t % 8 = WIRE_BYTES, Decoded(t % 8, Payload(s, r, t % 8)[1])),
                  Payload(s, r, t % 8)[2]>>
<1>1. ReadVarint(s, p) # Malformed /\ ReadVarint(s, p)[1] = t /\ ReadVarint(s, p)[2] = r
  BY DEF Malformed
<1> QED
  BY <1>1 DEF EntryAt

LEMMA EntryIs ==
  ASSUME NEW s \in Seq(Byte), NEW p \in Place
  PROVE  EntryExact(s, p)
<1>0. p \in Nat /\ p > 0 /\ Len(s) \in Nat
  BY ByteIs DEF Place
<1>1. ASSUME NEW q \in Nat, NEW e, p <= q, q <= Len(s), e \in Entries(SubSeq(s, p, q))
      PROVE  EntryAt(s, p) = <<e, q + 1>>
  <2> DEFINE c == SubSeq(s, p, q)
  <2>1. Len(c) = q + 1 - p /\ p <= q + 1
    BY <1>0, <1>1, Cut
  <2>2. PICK n \in 1..Len(c) : EntrySays(SubSeq(c, 1, n), Rest(c, n), e)
    <3> HIDE DEF c
    <3>1. e \in Entries(c)
      BY <1>1 DEF c
    <3> QED
      BY <3>1, EntriesAre
  <2> DEFINE m == p + n - 1
             t == VarintValue(SubSeq(s, p, m))
  <2>3. /\ m \in Nat /\ p <= m + 1 /\ m <= Len(s) /\ m + 1 \in Place /\ m + 1 <= q + 1 /\ p + n = m + 1
        /\ n \in 1..(q + 1 - p)
    <3> HIDE DEF c
    <3> QED
      BY <1>0, <1>1, <2>1 DEF Place
  <2>4. SubSeq(c, 1, n) = SubSeq(s, p, m) /\ Rest(c, n) = SubSeq(s, m + 1, q)
    <3>1. SubSeq(c, 1, n) = SubSeq(s, p, p + n - 1) /\ Rest(c, n) = SubSeq(s, p + n, q)
      BY <1>1, <2>1, <2>3, Parts
    <3> QED
      BY <2>3, <3>1
  <2> HIDE DEF c, m
  <2>5. EntrySays(SubSeq(s, p, m), SubSeq(s, m + 1, q), e)
    BY <2>2, <2>4
  <2>6. /\ IsVarint(SubSeq(s, p, m)) /\ t \div 8 # 0 /\ RestSays(SubSeq(s, m + 1, q), t % 8, e.value)
        /\ e = Entry(t \div 8, t % 8 = WIRE_BYTES, e.value)
    BY <2>5 DEF EntrySays
  <2>7. ReadVarint(s, p) = <<t, m + 1>>
    BY <2>3, <2>6, VarintRead
  <2> HIDE DEF t
  <2>8. PayloadExact(s, m + 1, t % 8)
    BY <2>3, PayloadIs
  <2>9. /\ Payload(s, m + 1, t % 8) # Malformed /\ Payload(s, m + 1, t % 8)[2] = q + 1
        /\ Decoded(t % 8, Payload(s, m + 1, t % 8)[1]) = e.value
    BY <1>1, <2>3, <2>6, <2>8 DEF PayloadExact
  <2>10. EntryAt(s, p) =
           <<Entry(t \div 8, t % 8 = WIRE_BYTES, Decoded(t % 8, Payload(s, m + 1, t % 8)[1])),
             Payload(s, m + 1, t % 8)[2]>>
    BY <2>6, <2>7, <2>9, EntryAtIs
  <2> QED
    BY <2>6, <2>9, <2>10
<1>2. ASSUME EntryAt(s, p) # Malformed
      PROVE  \E q \in Nat : \E e : /\ p <= q /\ q <= Len(s) /\ e \in Entries(SubSeq(s, p, q))
                                   /\ EntryAt(s, p) = <<e, q + 1>>
  <2>1. ReadVarint(s, p) # Malformed
    BY <1>2 DEF EntryAt
  <2>2. PICK m \in Place : /\ p <= m /\ m <= Len(s) /\ IsVarint(SubSeq(s, p, m))
                           /\ ReadVarint(s, p) = <<VarintValue(SubSeq(s, p, m)), m + 1>>
    BY <2>1, VarintFound
  <2> DEFINE t == VarintValue(SubSeq(s, p, m))
             payload == Payload(s, m + 1, t % 8)
             e == Entry(t \div 8, t % 8 = WIRE_BYTES, Decoded(t % 8, payload[1]))
  <2>3. ReadVarint(s, p) = <<t, m + 1>>
    BY <2>2
  <2> HIDE DEF t
  <2>4. t \div 8 # 0 /\ payload # Malformed /\ EntryAt(s, p) = <<e, payload[2]>>
    BY <1>2, <2>3, EntryAtIs
  <2>5. m \in Nat /\ m + 1 \in Place
    BY <2>2 DEF Place
  <2>6. PICK q \in Nat : /\ m + 1 <= q + 1 /\ q <= Len(s) /\ payload[2] = q + 1
                         /\ RestSays(SubSeq(s, m + 1, q), t % 8, Decoded(t % 8, payload[1]))
    <3>1. PayloadExact(s, m + 1, t % 8)
      BY <2>5, PayloadIs
    <3> QED
      BY <2>4, <3>1 DEF PayloadExact
  <2>7. e.value = Decoded(t % 8, payload[1])
    BY DEF Entry
  <2> DEFINE c == SubSeq(s, p, q)
             n == m + 1 - p
  <2>8. /\ p <= q /\ p <= q + 1 /\ n \in 1..(q + 1 - p) /\ p + n - 1 = m /\ p + n = m + 1
    BY <1>0, <2>2, <2>5, <2>6
  <2> HIDE DEF payload
  <2>9. EntrySays(SubSeq(s, p, m), SubSeq(s, m + 1, q), e)
    BY <2>2, <2>4, <2>6, <2>7 DEF EntrySays, t
  <2> HIDE DEF e, n
  <2>10. /\ Len(c) = q + 1 - p /\ SubSeq(c, 1, n) = SubSeq(s, p, m)
         /\ Rest(c, n) = SubSeq(s, m + 1, q)
    <3>1. /\ Len(c) = q + 1 - p /\ SubSeq(c, 1, n) = SubSeq(s, p, p + n - 1)
          /\ Rest(c, n) = SubSeq(s, p + n, q)
      BY <2>6, <2>8, Parts
    <3> QED
      BY <2>8, <3>1
  <2> HIDE DEF c
  <2>11. e \in Entries(c)
    <3>1. n \in 1..Len(c) /\ EntrySays(SubSeq(c, 1, n), Rest(c, n), e)
      BY <2>8, <2>9, <2>10
    <3> QED
      BY <3>1, EntriesAre
  <2>12. EntryAt(s, p) = <<e, q + 1>>
    BY <2>4, <2>6
  <2> QED
    BY <2>6, <2>8, <2>11, <2>12 DEF c
<1> QED
  BY <1>1, <1>2 DEF EntryExact

LEMMA EntryNext ==
  ASSUME NEW s \in Seq(Byte), NEW p \in Place, EntryAt(s, p) # Malformed
  PROVE  /\ EntryAt(s, p)[2] \in Place /\ p < EntryAt(s, p)[2] /\ EntryAt(s, p)[2] - 1 \in Nat
         /\ EntryAt(s, p)[2] - 1 <= Len(s)
         /\ EntryAt(s, p) = <<EntryAt(s, p)[1], EntryAt(s, p)[2]>>
<1>0. PICK q \in Nat : \E e : p <= q /\ q <= Len(s) /\ EntryAt(s, p) = <<e, q + 1>>
  BY EntryIs DEF EntryExact
<1>1. PICK e : p <= q /\ q <= Len(s) /\ EntryAt(s, p) = <<e, q + 1>>
  BY <1>0
<1>2. EntryAt(s, p)[1] = e /\ EntryAt(s, p)[2] = q + 1
  BY <1>1
<1>3. q + 1 \in Place /\ p < q + 1 /\ (q + 1) - 1 = q
  BY <1>1 DEF Place
<1> QED
  BY <1>1, <1>2, <1>3

(* The reader of messages.                                                 *)
Found(s) == {EntryAt(s, p)[1] : p \in Place}

LEMMA EntriesDef ==
  ASSUME NEW s \in Seq(Byte)
  PROVE  /\ EntriesFrom(s) \in [Place -> {Malformed} \cup {<<x>> : x \in Seq(Found(s))}]
         /\ \A pos \in Place : EntriesFrom(s)[pos] =
              IF pos > Len(s) THEN << << >> >>
              ELSE IF EntryAt(s, pos) = Malformed THEN Malformed
              ELSE IF EntriesFrom(s)[EntryAt(s, pos)[2]] = Malformed THEN Malformed
              ELSE << <<EntryAt(s, pos)[1]>> \o EntriesFrom(s)[EntryAt(s, pos)[2]][1] >>
<1> DEFINE V == {Malformed} \cup {<<x>> : x \in Seq(Found(s))}
           Rule(pos, f) == IF pos > Len(s) THEN << << >> >>
                           ELSE IF EntryAt(s, pos) = Malformed THEN Malformed
                           ELSE IF f[EntryAt(s, pos)[2]] = Malformed THEN Malformed
                           ELSE << <<EntryAt(s, pos)[1]>> \o f[EntryAt(s, pos)[2]][1] >>
           body == [p \in Place \X [Place -> V] |-> Rule(p[1], p[2])]
           rank == Ahead(Len(s))
<1>0. rank \in [Place -> Nat]
  BY LenProperties, AheadIs
<1>1. ASSUME NEW pos \in Place, NEW f \in [Place -> V] PROVE Rule(pos, f) \in V
  <2>1. << << >> >> \in V
    BY EmptySeq
  <2>2. ASSUME EntryAt(s, pos) # Malformed, f[EntryAt(s, pos)[2]] # Malformed
        PROVE  << <<EntryAt(s, pos)[1]>> \o f[EntryAt(s, pos)[2]][1] >> \in V
    <3>1. EntryAt(s, pos)[2] \in Place
      BY <2>2, EntryNext
    <3>2. PICK x \in Seq(Found(s)) : f[EntryAt(s, pos)[2]] = <<x>>
      BY <2>2, <3>1
    <3>3. <<EntryAt(s, pos)[1]>> \in Seq(Found(s))
      BY DEF Found
    <3>4. <<EntryAt(s, pos)[1]>> \o x \in Seq(Found(s))
      BY <3>3, ConcatProperties
    <3>5. f[EntryAt(s, pos)[2]][1] = x
      BY <3>2
    <3> QED
      BY <3>4, <3>5
  <2>3. Malformed \in V
    OBVIOUS
  <2> HIDE DEF V
  <2> QED
    BY <2>1, <2>2, <2>3
<1>2. ASSUME NEW pos \in Place, NEW g, NEW h,
             \A m \in Place : rank[m] < rank[pos] => g[m] = h[m]
      PROVE  Rule(pos, g) = Rule(pos, h)
  <2>1. ASSUME ~(pos > Len(s)), EntryAt(s, pos) # Malformed
        PROVE  g[EntryAt(s, pos)[2]] = h[EntryAt(s, pos)[2]]
    <3>1. EntryAt(s, pos)[2] \in Place /\ pos < EntryAt(s, pos)[2]
      BY <2>1, EntryNext
    <3>2. Len(s) \in Nat /\ pos <= Len(s)
      BY <2>1, LenProperties DEF Place
    <3>3. rank[EntryAt(s, pos)[2]] < rank[pos]
      BY <3>1, <3>2, AheadIs
    <3> QED
      BY <1>2, <3>1, <3>3
  <2> QED
    BY <2>1
<1> HIDE DEF Rule, rank
<1>3. body \in [Place \X [Place -> V] -> V]
  BY <1>1
<1>4. LooksDown(Place, V, rank, body)
  <2>1. ASSUME NEW pos \in Place, NEW g \in [Place -> V], NEW h \in [Place -> V],
               \A m \in Place : rank[m] < rank[pos] => g[m] = h[m]
        PROVE  body[<<pos, g>>] = body[<<pos, h>>]
    <3>1. Rule(pos, g) = Rule(pos, h)
      BY <1>2, <2>1
    <3> QED
      BY <3>1
  <2> HIDE DEF body, V
  <2> QED
    BY <2>1 DEF LooksDown
<1>5. PICK f \in [Place -> V] : Solves(f, Place, body)
  <2>1. V # {}
    OBVIOUS
  <2> HIDE DEF body, V
  <2> QED
    BY <1>0, <1>3, <1>4, <2>1, Recursion
<1>6. f = [pos \in Place |-> Rule(pos, f)]
  BY <1>5 DEF Solves
<1>7. EntriesFrom(s) = [pos \in Place |-> Rule(pos, EntriesFrom(s))]
  BY <1>6 DEF EntriesFrom, Rule
<1>8. EntriesFrom(s) = f
  <2> DEFINE F == EntriesFrom(s)
  <2>1. F = [pos \in Place |-> Rule(pos, F)]
    BY <1>7
  <2> HIDE DEF F, V, body
  <2>2. ASSUME NEW pos \in Place, \A m \in Place : rank[m] < rank[pos] => F[m] = f[m]
        PROVE  F[pos] = f[pos]
    <3>1. Rule(pos, F) = Rule(pos, f)
      BY <1>2, <2>2
    <3> QED
      BY <1>6, <2>1, <3>1
  <2> DEFINE T == Place
  <2>3. Follows(F, f, T, rank) /\ rank \in [T -> Nat]
    BY <1>0, <2>2 DEF Follows
  <2> HIDE DEF T
  <2>4. \A pos \in T : F[pos] = f[pos]
    BY <2>3, SameSolution
  <2>5. F = f
    BY <1>6, <2>1, <2>4 DEF T
  <2> QED
    BY <2>5 DEF F
<1> QED
  BY <1>7, <1>8 DEF Rule

(* The readings of a message.                                              *)
Told(s) == UNION {Entries(SubSeq(s, p, q)) : p \in Place, q \in Nat}

LEMMA ReadingsDef ==
  ASSUME NEW s \in Seq(Byte)
  PROVE  /\ ReadingsFrom(s) \in [Place -> SUBSET Seq(Told(s))]
         /\ \A p \in Place : ReadingsFrom(s)[p] =
              IF p > Len(s) THEN {<< >>} ELSE Onward(s, p, ReadingsFrom(s))
<1> DEFINE V == SUBSET Seq(Told(s))
           Rule(p, f) == IF p > Len(s) THEN {<< >>} ELSE Onward(s, p, f)
           body == [p \in Place \X [Place -> V] |-> Rule(p[1], p[2])]
           rank == Ahead(Len(s))
<1>0. rank \in [Place -> Nat]
  BY LenProperties, AheadIs
<1>1. ASSUME NEW p \in Place, NEW f \in [Place -> V] PROVE Rule(p, f) \in V
  <2>1. {<< >>} \in V
    BY EmptySeq
  <2>2. ASSUME NEW q \in p..Len(s), NEW e \in Entries(SubSeq(s, p, q)), NEW rest \in f[q + 1]
        PROVE  <<e>> \o rest \in Seq(Told(s))
    <3>1. q \in Nat /\ q + 1 \in Place
      BY LenProperties DEF Place
    <3>2. rest \in Seq(Told(s))
      BY <3>1
    <3>3. e \in Told(s)
      BY <3>1 DEF Told
    <3>4. <<e>> \in Seq(Told(s))
      BY <3>3
    <3> QED
      BY <3>2, <3>4, ConcatProperties
  <2>3. ASSUME NEW q \in p..Len(s), NEW x \in Joined(Entries(SubSeq(s, p, q)), f[q + 1])
        PROVE  x \in Seq(Told(s))
    <3>1. PICK e \in Entries(SubSeq(s, p, q)), rest \in f[q + 1] : x = <<e>> \o rest
      <4> DEFINE es == Entries(SubSeq(s, p, q))
                 rests == f[q + 1]
      <4>1. x \in Joined(es, rests)
        BY <2>3
      <4> HIDE DEF es, rests
      <4>3. \E e \in es, rest \in rests : x = <<e>> \o rest
        BY <4>1 DEF Joined
      <4> QED
        BY <4>3 DEF es, rests
    <3> QED
      BY <2>2, <3>1
  <2>4. Onward(s, p, f) \in V
    BY <2>3 DEF Onward
  <2> QED
    BY <2>1, <2>4
<1>2. ASSUME NEW p \in Place, NEW g, NEW h,
             \A m \in Place : rank[m] < rank[p] => g[m] = h[m]
      PROVE  Rule(p, g) = Rule(p, h)
  <2>1. ASSUME ~(p > Len(s)), NEW q \in p..Len(s) PROVE g[q + 1] = h[q + 1]
    <3>1. q + 1 \in Place /\ p < q + 1 /\ Len(s) \in Nat /\ p <= Len(s)
      BY <2>1, LenProperties DEF Place
    <3>2. rank[q + 1] < rank[p]
      BY <3>1, AheadIs
    <3> QED
      BY <1>2, <3>1, <3>2
  <2>2. ~(p > Len(s)) => Onward(s, p, g) = Onward(s, p, h)
    BY <2>1 DEF Onward
  <2> QED
    BY <2>2
<1> HIDE DEF Rule, rank
<1>3. body \in [Place \X [Place -> V] -> V]
  BY <1>1
<1>4. LooksDown(Place, V, rank, body)
  <2>1. ASSUME NEW p \in Place, NEW g \in [Place -> V], NEW h \in [Place -> V],
               \A m \in Place : rank[m] < rank[p] => g[m] = h[m]
        PROVE  body[<<p, g>>] = body[<<p, h>>]
    <3>1. Rule(p, g) = Rule(p, h)
      BY <1>2, <2>1
    <3> QED
      BY <3>1
  <2> HIDE DEF body, V
  <2> QED
    BY <2>1 DEF LooksDown
<1>5. PICK f \in [Place -> V] : Solves(f, Place, body)
  <2>1. V # {}
    OBVIOUS
  <2> HIDE DEF body, V
  <2> QED
    BY <1>0, <1>3, <1>4, <2>1, Recursion
<1>6. f = [p \in Place |-> Rule(p, f)]
  BY <1>5 DEF Solves
<1>7. ReadingsFrom(s) = [p \in Place |-> Rule(p, ReadingsFrom(s))]
  BY <1>6 DEF ReadingsFrom, Rule
<1>8. ReadingsFrom(s) = f
  <2> DEFINE F == ReadingsFrom(s)
  <2>1. F = [p \in Place |-> Rule(p, F)]
    BY <1>7
  <2> HIDE DEF F, V, body
  <2>2. ASSUME NEW p \in Place, \A m \in Place : rank[m] < rank[p] => F[m] = f[m]
        PROVE  F[p] = f[p]
    <3>1. Rule(p, F) = Rule(p, f)
      BY <1>2, <2>2
    <3> QED
      BY <1>6, <2>1, <3>1
  <2> DEFINE T == Place
  <2>3. Follows(F, f, T, rank) /\ rank \in [T -> Nat]
    BY <1>0, <2>2 DEF Follows
  <2> HIDE DEF T
  <2>4. \A p \in T : F[p] = f[p]
    BY <2>3, SameSolution
  <2>5. F = f
    BY <1>6, <2>1, <2>4 DEF T
  <2> QED
    BY <2>5 DEF F
<1> QED
  BY <1>7, <1>8 DEF Rule

(* parse_pb and the grammar agree at every position.                       *)
LEMMA SameReadings ==
  ASSUME NEW s \in Seq(Byte)
  PROVE  \A p \in Place : ReadingsFrom(s)[p] = ToSet(EntriesFrom(s)[p])
<1> DEFINE R == ReadingsFrom(s)
           E == EntriesFrom(s)
           P == {p \in Place : R[p] = ToSet(E[p])}
<1>0. ToSet(Malformed) = {} /\ \A x : ToSet(<<x>>) = {x}
  <2>1. DOMAIN Malformed = {}
    BY DEF Malformed
  <2>2. ToSet(Malformed) = {}
    BY <2>1 DEF ToSet
  <2>3. ASSUME NEW x PROVE ToSet(<<x>>) = {x}
    <3>1. DOMAIN <<x>> = {1} /\ <<x>>[1] = x
      OBVIOUS
    <3> QED
      BY <3>1 DEF ToSet
  <2> QED
    BY <2>2, <2>3
<1>1. /\ \A p \in Place : R[p] =
           IF p > Len(s) THEN {<< >>} ELSE Onward(s, p, R)
      /\ \A p \in Place : E[p] =
           IF p > Len(s) THEN << << >> >>
           ELSE IF EntryAt(s, p) = Malformed THEN Malformed
           ELSE IF E[EntryAt(s, p)[2]] = Malformed THEN Malformed
           ELSE << <<EntryAt(s, p)[1]>> \o E[EntryAt(s, p)[2]][1] >>
      /\ E \in [Place -> {Malformed} \cup {<<x>> : x \in Seq(Found(s))}]
  <2>1. R \in [Place -> SUBSET Seq(Told(s))] /\ E \in [Place -> {Malformed} \cup {<<x>> : x \in Seq(Found(s))}]
    BY ReadingsDef, EntriesDef
  <2>2. \A p \in Place : R[p] = IF p > Len(s) THEN {<< >>} ELSE Onward(s, p, R)
    BY ReadingsDef
  <2>3. \A p \in Place : E[p] =
           IF p > Len(s) THEN << << >> >>
           ELSE IF EntryAt(s, p) = Malformed THEN Malformed
           ELSE IF E[EntryAt(s, p)[2]] = Malformed THEN Malformed
           ELSE << <<EntryAt(s, p)[1]>> \o E[EntryAt(s, p)[2]][1] >>
    BY EntriesDef
  <2> QED
    BY <2>1, <2>2, <2>3
<1> HIDE DEF R, E
<1>2. \A p \in Place : p > Len(s) => p \in P
  BY <1>0, <1>1
<1>3. ASSUME NEW p \in Place, p <= Len(s), \A q \in Place : q > p => q \in P PROVE p \in P
  <2>0. Len(s) \in Nat /\ p \in Nat /\ ~(p > Len(s))
    BY <1>3, LenProperties DEF Place
  <2> DEFINE One(q) == Joined(Entries(SubSeq(s, p, q)), R[q + 1])
  <2>1. R[p] = UNION {One(q) : q \in p..Len(s)}
    BY <1>1, <2>0 DEF Onward
  <2>2. CASE EntryAt(s, p) = Malformed
    <3>1. \A q \in p..Len(s) : Entries(SubSeq(s, p, q)) = {}
      <4>1. \A q \in p..Len(s) : q \in Nat /\ p <= q /\ q <= Len(s)
        BY <2>0
      <4>2. \A e, r : <<e, r>> # Malformed
        BY DEF Malformed
      <4> QED
        BY <2>2, <4>1, <4>2, EntryIs DEF EntryExact
    <3>2. R[p] = {}
      <4>1. \A q \in p..Len(s) : One(q) = {}
        BY <3>1 DEF Joined
      <4> HIDE DEF One
      <4> QED
        BY <2>1, <4>1
    <3>3. E[p] = Malformed
      BY <1>1, <2>0, <2>2
    <3> QED
      BY <1>0, <3>2, <3>3
  <2>3. CASE EntryAt(s, p) # Malformed
    <3>0. PICK q \in Nat : \E e : /\ p <= q /\ q <= Len(s) /\ e \in Entries(SubSeq(s, p, q))
                                   /\ EntryAt(s, p) = <<e, q + 1>>
      BY <2>3, EntryIs DEF EntryExact
    <3>1. PICK e : /\ p <= q /\ q <= Len(s) /\ e \in Entries(SubSeq(s, p, q))
                   /\ EntryAt(s, p) = <<e, q + 1>>
      BY <3>0
    <3>2. \A r \in p..Len(s) : \A x \in Entries(SubSeq(s, p, r)) : r = q /\ x = e
      <4>1. ASSUME NEW r \in p..Len(s), NEW x \in Entries(SubSeq(s, p, r)) PROVE r = q /\ x = e
        <5>1. r \in Nat /\ p <= r /\ r <= Len(s)
          BY <2>0
        <5>2. EntryAt(s, p) = <<x, r + 1>>
          BY <5>1, EntryIs DEF EntryExact
        <5>3. x = e /\ r + 1 = q + 1
          BY <3>1, <5>2
        <5> QED
          BY <5>1, <5>3
      <4> QED
        BY <4>1
    <3>3. Entries(SubSeq(s, p, q)) = {e} /\ q \in p..Len(s)
      BY <2>0, <3>1, <3>2
    <3>4. \A r \in p..Len(s) : r # q => Entries(SubSeq(s, p, r)) = {}
      BY <3>2
    <3>5. One(q) = {<<e>> \o rest : rest \in R[q + 1]}
      BY <3>3 DEF Joined
    <3>6. \A r \in p..Len(s) : r # q => One(r) = {}
      BY <3>4 DEF Joined
    <3> HIDE DEF One
    <3>7. R[p] = {<<e>> \o rest : rest \in R[q + 1]}
      BY <2>1, <3>3, <3>5, <3>6
    <3>8. q + 1 \in Place /\ q + 1 > p
      BY <3>1 DEF Place
    <3>9. R[q + 1] = ToSet(E[q + 1])
      BY <1>3, <3>8
    <3>10. EntryAt(s, p)[1] = e /\ EntryAt(s, p)[2] = q + 1
      BY <3>1
    <3>11. E[p] = IF E[q + 1] = Malformed THEN Malformed ELSE << <<e>> \o E[q + 1][1] >>
      BY <1>1, <2>0, <2>3, <3>10
    <3>12. CASE E[q + 1] = Malformed
      BY <1>0, <3>7, <3>9, <3>11, <3>12
    <3>13. CASE E[q + 1] # Malformed
      <4>1. PICK x : E[q + 1] = <<x>>
        BY <1>1, <3>8, <3>13
      <4>2. E[q + 1][1] = x /\ R[q + 1] = {x}
        BY <1>0, <3>9, <4>1
      <4>3. R[p] = {<<e>> \o x}
        BY <3>7, <4>2
      <4>4. E[p] = << <<e>> \o x >>
        BY <3>11, <3>13, <4>2
      <4> QED
        BY <1>0, <4>3, <4>4
    <3> QED
      BY <3>12, <3>13
  <2> QED
    BY <2>2, <2>3
<1> HIDE DEF P
<1>4. P = Place
  <2>1. Len(s) \in Nat
    BY LenProperties
  <2>2. P \in SUBSET Place
    BY DEF P
  <2> QED
    BY <1>2, <1>3, <2>1, <2>2, Descent
<1> QED
  BY <1>4 DEF P, R, E

(* parse_pb (pb.py) returns the one reading the grammar has for a byte     *)
(* string, and raises where it has none.                                   *)
THEOREM ReaderIsGrammar ==
  ASSUME NEW s \in Seq(Byte)
  PROVE  Readings(s) = IF ParsePb(s) = Malformed THEN {} ELSE ToSet(ParsePb(s))
<1>1. 1 \in Place
  BY DEF Place
<1>2. Readings(s) = ToSet(ParsePb(s))
  BY <1>1, SameReadings DEF Readings, ParsePb
<1>3. ToSet(Malformed) = {}
  <2>1. DOMAIN Malformed = {}
    BY DEF Malformed
  <2> QED
    BY <2>1 DEF ToSet
<1> QED
  BY <1>2, <1>3

-----------------------------------------------------------------------------
(* Fixed-width values.                                                     *)
LEMMA LeftBound ==
  ASSUME NEW n \in Nat, NEW size \in Nat, n < Power256[size]
  PROVE  \A k \in Nat : k <= size => Left(n)[k] < Power256[size - k]
<1> DEFINE P == {k \in Nat : k <= size => Left(n)[k] < Power256[size - k]}
<1>0. /\ Left(n) \in [Nat -> Nat]
      /\ \A k \in Nat : Left(n)[k] = IF k = 0 THEN n ELSE Left(n)[k - 1] \div 256
  BY LeftDef
<1>1. 0 \in P
  <2>1. Left(n)[0] = n /\ size - 0 = size
    BY <1>0
  <2> QED
    BY <2>1
<1>2. ASSUME NEW k \in P PROVE k + 1 \in P
  <2> SUFFICES ASSUME k + 1 <= size PROVE Left(n)[k + 1] < Power256[size - (k + 1)]
    OBVIOUS
  <2>1. /\ k \in Nat /\ k + 1 \in Nat /\ k + 1 # 0 /\ (k + 1) - 1 = k /\ k <= size
        /\ size - k \in Nat /\ size - k # 0 /\ (size - k) - 1 = size - (k + 1)
        /\ size - (k + 1) \in Nat
    OBVIOUS
  <2>2. Left(n)[k + 1] = Left(n)[k] \div 256 /\ Left(n)[k] \in Nat
    BY <1>0, <2>1
  <2>3. Power256[size - k] = 256 * Power256[size - (k + 1)] /\ Power256[size - (k + 1)] \in Nat
    BY <2>1, PowerDef
  <2>4. Left(n)[k] < Power256[size - k]
    BY <2>1
  <2>5. \A x, y \in Nat : x < 256 * y => x \div 256 < y
    OBVIOUS
  <2>6. Left(n)[k] < 256 * Power256[size - (k + 1)]
    BY <2>3, <2>4
  <2> QED
    BY <2>2, <2>3, <2>5, <2>6
<1> HIDE DEF P
<1>3. P = Nat
  <2>1. P \in SUBSET Nat
    BY DEF P
  <2> QED
    BY <1>1, <1>2, <2>1, Induction
<1> QED
  BY <1>3 DEF P

LEMMA LittleIs ==
  ASSUME NEW n \in Nat, NEW size \in Nat
  PROVE  /\ LittleEndian(n, size) \in Seq(Byte) /\ Len(LittleEndian(n, size)) = size
         /\ \A i \in 1..size : LittleEndian(n, size)[i] = Left(n)[i - 1] % 256
<1>0. /\ Left(n) \in [Nat -> Nat]
      /\ \A k \in Nat : Left(n)[k] = IF k = 0 THEN n ELSE Left(n)[k - 1] \div 256
  BY LeftDef
<1>1. \A x \in Nat : x % 256 \in Byte
  BY DEF Byte
<1>2. \A i \in 1..size : Left(n)[i - 1] % 256 \in Byte
  <2>1. \A i \in 1..size : i - 1 \in Nat
    OBVIOUS
  <2> QED
    BY <1>0, <1>1, <2>1
<1>3. LittleEndian(n, size) \in Seq(Byte)
  BY <1>2, IsASeq DEF LittleEndian
<1> QED
  BY <1>3 DEF LittleEndian

LEMMA LittleMeans ==
  ASSUME NEW n \in Nat, NEW size \in Nat, n < Power256[size]
  PROVE  Number(LittleEndian(n, size)) = n
<1> DEFINE b == LittleEndian(n, size)
           value == ValueFrom(b, 256)
           P == {p \in Place : p <= size + 1 => value[p] = Left(n)[p - 1]}
<1>0. /\ Left(n) \in [Nat -> Nat]
      /\ \A k \in Nat : Left(n)[k] = IF k = 0 THEN n ELSE Left(n)[k - 1] \div 256
  BY LeftDef
<1>1. /\ b \in Seq(Byte) /\ Len(b) = size
      /\ \A i \in 1..size : b[i] = Left(n)[i - 1] % 256
  BY LittleIs
<1>2. \A p \in Place : value[p] = IF p > size THEN 0 ELSE b[p] + 256 * value[p + 1]
  <2>1. Byte \subseteq Nat
    BY DEF Byte
  <2>2. b \in Seq(Nat)
    BY <1>1, <2>1, SeqMonotonic
  <2>3. \A p \in Place : value[p] = IF p > Len(b) THEN 0 ELSE b[p] + 256 * value[p + 1]
    BY <2>2, ValueDef
  <2> HIDE DEF value, b
  <2> QED
    BY <1>1, <2>3
<1> HIDE DEF b, value
<1>3. \A p \in Place : p > size => p \in P
  <2> SUFFICES ASSUME NEW p \in Place, p > size, p <= size + 1 PROVE value[p] = Left(n)[p - 1]
    OBVIOUS
  <2>1. p - 1 = size /\ size - size = 0 /\ size <= size
    BY DEF Place
  <2>2. Left(n)[size] < Power256[size - size]
    BY <2>1, LeftBound
  <2>3. Power256[0] = 1 /\ Left(n)[size] \in Nat
    BY <1>0, PowerDef
  <2>4. Left(n)[size] = 0
    BY <2>1, <2>2, <2>3
  <2> QED
    BY <1>2, <2>1, <2>4
<1>4. ASSUME NEW p \in Place, p <= size, \A q \in Place : q > p => q \in P PROVE p \in P
  <2>1. /\ p + 1 \in Place /\ p + 1 > p /\ p + 1 <= size + 1 /\ (p + 1) - 1 = p /\ ~(p > size)
        /\ p \in 1..size /\ p \in Nat /\ p # 0 /\ p - 1 \in Nat
    BY <1>4 DEF Place
  <2>2. value[p + 1] = Left(n)[p]
    BY <1>4, <2>1
  <2>3. Left(n)[p] = Left(n)[p - 1] \div 256 /\ Left(n)[p - 1] \in Nat
    BY <1>0, <2>1
  <2>4. value[p] = (Left(n)[p - 1] % 256) + 256 * Left(n)[p]
    BY <1>1, <1>2, <2>1, <2>2
  <2>5. \A x \in Nat : (x % 256) + 256 * (x \div 256) = x
    OBVIOUS
  <2>6. value[p] = Left(n)[p - 1]
    BY <2>3, <2>4, <2>5
  <2> QED
    BY <2>6
<1> HIDE DEF P
<1>5. P = Place
  <2>1. P \in SUBSET Place
    BY DEF P
  <2> QED
    BY <1>3, <1>4, <2>1, Descent
<1>6. 1 \in Place /\ 1 <= size + 1 /\ 1 - 1 = 0 /\ Left(n)[0] = n
  BY <1>0 DEF Place
<1>7. value[1] = n
  BY <1>5, <1>6 DEF P
<1> QED
  BY <1>7 DEF Number, value, b

-----------------------------------------------------------------------------
(* Messages in messages: what is read of s is read of t, k bytes further   *)
(* on, when s stands there in t.                                           *)
LEMMA EntryMoves ==
  ASSUME NEW s \in Seq(Byte), NEW t \in Seq(Byte), NEW k \in Nat, Len(s) + k <= Len(t),
         StandsIn(s, t, k), NEW p \in Place, EntryAt(s, p) # Malformed
  PROVE  EntryAt(t, p + k) = <<EntryAt(s, p)[1], EntryAt(s, p)[2] + k>>
<1>0. PICK q \in Nat : \E e : /\ p <= q /\ q <= Len(s) /\ e \in Entries(SubSeq(s, p, q))
                              /\ EntryAt(s, p) = <<e, q + 1>>
  BY EntryIs DEF EntryExact
<1>1. PICK e : /\ p <= q /\ q <= Len(s) /\ e \in Entries(SubSeq(s, p, q))
               /\ EntryAt(s, p) = <<e, q + 1>>
  BY <1>0
<1>2. /\ p + k \in Place /\ q + k \in Nat /\ p + k <= q + k /\ q + k <= Len(t) /\ p <= q + 1
      /\ (q + k) + 1 = (q + 1) + k
  BY <1>1, ByteIs DEF Place
<1>3. SubSeq(t, p + k, q + k) = SubSeq(s, p, q)
  <2>1. SamePiece(s, t, k, p, q)
    <3>1. \A i \in Place : i <= q => i <= Len(s)
      BY <1>1, ByteIs DEF Place
    <3> QED
      BY <1>1, <1>2, <3>1 DEF StandsIn, SamePiece
  <2>2. CutsAlike(s, t, k, p, q)
    BY <2>1, SameCut
  <2> QED
    BY ONLY <2>2 DEF CutsAlike
<1>4. EntryAt(t, p + k) = <<e, (q + k) + 1>>
  <2>1. EntryExact(t, p + k)
    BY <1>2, EntryIs
  <2>2. e \in Entries(SubSeq(t, p + k, q + k))
    BY <1>1, <1>3
  <2> QED
    BY <1>2, <2>1, <2>2 DEF EntryExact
<1> QED
  BY <1>1, <1>2, <1>4

(* EntriesDef in steps.                                                    *)
LEMMA EntriesStep ==
  ASSUME NEW s \in Seq(Byte)
  PROVE  /\ \A p \in Place : p > Len(s) => EntriesFrom(s)[p] = << << >> >>
         /\ \A p \in Place : p <= Len(s) /\ EntriesFrom(s)[p] # Malformed =>
              /\ EntryAt(s, p) # Malformed /\ EntriesFrom(s)[EntryAt(s, p)[2]] # Malformed
              /\ EntriesFrom(s)[p] = << <<EntryAt(s, p)[1]>> \o EntriesFrom(s)[EntryAt(s, p)[2]][1] >>
         /\ \A p \in Place : EntriesFrom(s)[p] # Malformed =>
              \E x \in Seq(Found(s)) : EntriesFrom(s)[p] = <<x>>
<1> DEFINE E == EntriesFrom(s)
<1>0. Len(s) \in Nat
  BY LenProperties
<1>1. \A p \in Place : E[p] =
           IF p > Len(s) THEN << << >> >>
           ELSE IF EntryAt(s, p) = Malformed THEN Malformed
           ELSE IF E[EntryAt(s, p)[2]] = Malformed THEN Malformed
           ELSE << <<EntryAt(s, p)[1]>> \o E[EntryAt(s, p)[2]][1] >>
  BY EntriesDef
<1>2. E \in [Place -> {Malformed} \cup {<<x>> : x \in Seq(Found(s))}]
  BY EntriesDef
<1> HIDE DEF E
<1>3. \A p \in Place : p <= Len(s) => ~(p > Len(s))
  BY <1>0 DEF Place
<1>5. ASSUME NEW p \in Place, p <= Len(s), E[p] # Malformed
      PROVE  /\ EntryAt(s, p) # Malformed /\ E[EntryAt(s, p)[2]] # Malformed
             /\ E[p] = << <<EntryAt(s, p)[1]>> \o E[EntryAt(s, p)[2]][1] >>
  BY <1>1, <1>3, <1>5
<1>6. \A p \in Place : E[p] # Malformed => \E x \in Seq(Found(s)) : E[p] = <<x>>
  BY <1>2
<1>7. \A p \in Place : p > Len(s) => E[p] = << << >> >>
  BY <1>1
<1> QED
  BY <1>5, <1>6, <1>7 DEF E

LEMMA EntryThen ==
  ASSUME NEW s \in Seq(Byte), NEW p \in Place, NEW r \in Place, NEW e, NEW x,
         p <= Len(s), EntryAt(s, p) = <<e, r>>, EntriesFrom(s)[r] = <<x>>
  PROVE  EntriesFrom(s)[p] = << <<e>> \o x >>
<1>1. ~(p > Len(s))
  BY LenProperties DEF Place
<1>2. EntryAt(s, p) # Malformed /\ EntryAt(s, p)[1] = e /\ EntryAt(s, p)[2] = r
  BY DEF Malformed
<1>3. EntriesFrom(s)[r] # Malformed /\ EntriesFrom(s)[r][1] = x
  BY DEF Malformed
<1>4. EntriesFrom(s)[p] =
        IF p > Len(s) THEN << << >> >>
        ELSE IF EntryAt(s, p) = Malformed THEN Malformed
        ELSE IF EntriesFrom(s)[EntryAt(s, p)[2]] = Malformed THEN Malformed
        ELSE << <<EntryAt(s, p)[1]>> \o EntriesFrom(s)[EntryAt(s, p)[2]][1] >>
  BY EntriesDef
<1> QED
  BY <1>1, <1>2, <1>3, <1>4

LEMMA MessageMoves ==
  ASSUME NEW s \in Seq(Byte), NEW t \in Seq(Byte), NEW k \in Nat, Len(t) = Len(s) + k,
         StandsIn(s, t, k)
  PROVE  \A p \in Place :
           EntriesFrom(s)[p] # Malformed => EntriesFrom(t)[p + k] = EntriesFrom(s)[p]
<1> DEFINE E == EntriesFrom(s)
           F == EntriesFrom(t)
           P == {p \in Place : E[p] # Malformed => F[p + k] = E[p]}
<1>0. Len(s) \in Nat /\ Len(t) \in Nat /\ Len(s) + k <= Len(t)
  BY LenProperties
<1>1. ASSUME NEW p \in Place, p > Len(s) PROVE p \in P
  <2>1. p + k \in Place /\ p + k > Len(t)
    BY <1>0, <1>1 DEF Place
  <2>2. F[p + k] = << << >> >> /\ E[p] = << << >> >>
    BY <1>1, <2>1, EntriesStep
  <2> QED
    BY <2>2
<1>2. ASSUME NEW p \in Place, p <= Len(s), \A q \in Place : q > p => q \in P PROVE p \in P
  <2> SUFFICES ASSUME E[p] # Malformed PROVE F[p + k] = E[p]
    OBVIOUS
  <2> DEFINE e == EntryAt(s, p)[1]
             r == EntryAt(s, p)[2]
  <2>1. EntryAt(s, p) # Malformed /\ E[r] # Malformed /\ E[p] = << <<e>> \o E[r][1] >>
    BY <1>2, EntriesStep
  <2>2. r \in Place /\ r > p
    BY <2>1, EntryNext DEF Place
  <2>3. EntryAt(t, p + k) = <<e, r + k>>
    BY <1>0, <2>1, EntryMoves
  <2>4. PICK x : E[r] = <<x>>
    BY <2>1, <2>2, EntriesStep
  <2> HIDE DEF e, r
  <2>5. F[r + k] = <<x>>
    BY <1>2, <2>1, <2>2, <2>4
  <2>6. p + k \in Place /\ r + k \in Place /\ p + k <= Len(t)
    BY <1>0, <1>2, <2>2 DEF Place
  <2> HIDE DEF E, F, P
  <2>7. F[p + k] = << <<e>> \o x >>
    <3>1. EntriesFrom(t)[r + k] = <<x>> /\ t \in Seq(Byte)
      BY <2>5 DEF F
    <3>2. EntriesFrom(t)[p + k] = << <<e>> \o x >>
      BY ONLY <2>3, <2>6, <3>1, EntryThen
    <3> QED
      BY <3>2 DEF F
  <2>8. E[r][1] = x
    BY <2>4
  <2> QED
    BY <2>1, <2>7, <2>8
<1> HIDE DEF P
<1>3. P = Place
  <2>1. P \in SUBSET Place
    BY DEF P
  <2> QED
    BY <1>0, <1>1, <1>2, <2>1, Descent
<1> QED
  BY <1>3 DEF P

LEMMA Joins ==
  ASSUME NEW s \in Seq(Byte), NEW t \in Seq(Byte)
  PROVE  /\ s \o t \in Seq(Byte) /\ Len(s \o t) = Len(s) + Len(t)
         /\ StandsIn(s, s \o t, 0) /\ StandsIn(t, s \o t, Len(s))
<1>1. /\ s \o t \in Seq(Byte) /\ Len(s \o t) = Len(s) + Len(t)
      /\ \A i \in 1..Len(s) + Len(t) :
           (s \o t)[i] = IF i <= Len(s) THEN s[i] ELSE t[i - Len(s)]
  BY ConcatProperties
<1>2. Len(s) \in Nat /\ Len(t) \in Nat
  BY LenProperties
<1> DEFINE u == s \o t
<1> HIDE DEF u
<1>3. \A i \in 1..Len(s) + Len(t) : u[i] = IF i <= Len(s) THEN s[i] ELSE t[i - Len(s)]
  BY <1>1 DEF u
<1>4. ASSUME NEW i \in Place, i <= Len(s) PROVE u[i + 0] = s[i]
  <2>1. i \in 1..Len(s) + Len(t) /\ i + 0 = i
    BY <1>2, <1>4 DEF Place
  <2> QED
    BY <1>3, <1>4, <2>1
<1>5. ASSUME NEW i \in Place, i <= Len(t) PROVE u[i + Len(s)] = t[i]
  <2>1. /\ i + Len(s) \in 1..Len(s) + Len(t) /\ (i + Len(s)) - Len(s) = i
        /\ ~(i + Len(s) <= Len(s))
    BY <1>2, <1>5 DEF Place
  <2> QED
    BY <1>3, <2>1
<1> QED
  BY <1>1, <1>4, <1>5 DEF u, StandsIn

Reads(s, x) == ParsePb(s) = <<x>>

LEMMA MessagesJoin ==
  ASSUME NEW s \in Seq(Byte), NEW t \in Seq(Byte), NEW x, NEW y, Reads(s, x), Reads(t, y)
  PROVE  Reads(s \o t, x \o y)
<1> USE DEF Reads
<1> DEFINE u == s \o t
           E == EntriesFrom(s)
           F == EntriesFrom(u)
           P == {p \in Place : p <= Len(s) + 1 /\ E[p] # Malformed => F[p] = <<E[p][1] \o y>>}
           Both == Found(s) \cup Found(t)
<1>0. Len(s) \in Nat /\ Len(t) \in Nat /\ 1 \in Place /\ 1 <= Len(s) + 1 /\ 0 \in Nat
  BY LenProperties DEF Place
<1>1. /\ u \in Seq(Byte) /\ Len(u) = Len(s) + Len(t) /\ Len(u) = Len(t) + Len(s)
      /\ StandsIn(s, u, 0) /\ StandsIn(t, u, Len(s)) /\ Len(s) + 0 <= Len(u)
  BY <1>0, Joins
<1>2. y \in Seq(Both)
  <2>1. EntriesFrom(t)[1] = <<y>>
    BY DEF ParsePb
  <2>2. PICK z \in Seq(Found(t)) : EntriesFrom(t)[1] = <<z>>
    <3>1. EntriesFrom(t)[1] # Malformed
      BY <2>1 DEF Malformed
    <3> QED
      BY <1>0, <3>1, EntriesStep
  <2>3. y = z
    BY <2>1, <2>2
  <2> QED
    BY <2>2, <2>3, SeqMonotonic
<1> HIDE DEF u
<1>3. F[1 + Len(s)] = <<y>>
  <2>1. EntriesFrom(t)[1] = <<y>> /\ EntriesFrom(t)[1] # Malformed
    BY DEF ParsePb, Malformed
  <2>2. \A p \in Place :
          EntriesFrom(t)[p] # Malformed => EntriesFrom(u)[p + Len(s)] = EntriesFrom(t)[p]
    BY <1>0, <1>1, MessageMoves
  <2> QED
    BY <1>0, <2>1, <2>2
<1>4. ASSUME NEW p \in Place, p > Len(s) PROVE p \in P
  <2> SUFFICES ASSUME p <= Len(s) + 1 PROVE F[p] = <<E[p][1] \o y>>
    OBVIOUS
  <2>1. p = 1 + Len(s)
    BY <1>0, <1>4 DEF Place
  <2>2. E[p] = << << >> >>
    BY <1>4, EntriesStep
  <2>3. E[p][1] = << >>
    BY <2>2
  <2>4. << >> \o y = y
    BY <1>2, ConcatEmptySeq
  <2> QED
    BY <1>3, <2>1, <2>3, <2>4
<1>5. ASSUME NEW p \in Place, p <= Len(s), \A q \in Place : q > p => q \in P PROVE p \in P
  <2> SUFFICES ASSUME E[p] # Malformed PROVE F[p] = <<E[p][1] \o y>>
    OBVIOUS
  <2> DEFINE e == EntryAt(s, p)[1]
             r == EntryAt(s, p)[2]
  <2>1. EntryAt(s, p) # Malformed /\ E[r] # Malformed /\ E[p] = << <<e>> \o E[r][1] >>
    BY <1>5, EntriesStep
  <2>2. r \in Place /\ r > p /\ r <= Len(s) + 1 /\ r + 0 = r /\ p + 0 = p
    BY <1>0, <2>1, EntryNext DEF Place
  <2>3. EntryAt(u, p + 0) = <<e, r + 0>>
    <3>1. /\ s \in Seq(Byte) /\ u \in Seq(Byte) /\ 0 \in Nat /\ Len(s) + 0 <= Len(u)
          /\ StandsIn(s, u, 0) /\ p \in Place /\ EntryAt(s, p) # Malformed
      BY <1>0, <1>1, <2>1
    <3>2. EntryAt(u, p + 0) = <<EntryAt(s, p)[1], EntryAt(s, p)[2] + 0>>
      BY ONLY <3>1, EntryMoves
    <3> QED
      BY <3>2
  <2>4. PICK z \in Seq(Found(s)) : E[r] = <<z>>
    BY <2>1, <2>2, EntriesStep
  <2>5. e \in Found(s)
    BY DEF Found
  <2> HIDE DEF e, r
  <2>6. E[r][1] = z
    BY <2>4
  <2>7. F[r] = <<z \o y>>
    BY <1>5, <2>1, <2>2, <2>6
  <2>8. p <= Len(u)
    BY <1>0, <1>1, <1>5 DEF Place
  <2> HIDE DEF E, P
  <2>9. F[p] = << <<e>> \o (z \o y) >>
    <3>1. EntryAt(u, p) = <<e, r>>
      BY <2>2, <2>3
    <3> DEFINE zy == z \o y
    <3>2. EntriesFrom(u)[r] = <<zy>>
      BY <2>7
    <3> HIDE DEF zy, F
    <3>3. u \in Seq(Byte) /\ p \in Place /\ r \in Place /\ p <= Len(u)
      BY <1>1, <2>2, <2>8
    <3>4. EntriesFrom(u)[p] = << <<e>> \o zy >>
      BY ONLY <3>1, <3>2, <3>3, EntryThen
    <3> QED
      BY <3>4 DEF F, zy
  <2>10. <<e>> \o (z \o y) = (<<e>> \o z) \o y
    <3>1. <<e>> \in Seq(Both) /\ z \in Seq(Both)
      BY <2>4, <2>5, SeqMonotonic
    <3> HIDE DEF Both
    <3>2. <<e>> \in Seq(Both) /\ z \in Seq(Both) /\ y \in Seq(Both)
      BY <1>2, <3>1
    <3> QED
      BY ONLY <3>2, ConcatAssociative
  <2>11. E[p][1] = <<e>> \o z
    BY <2>1, <2>6
  <2> QED
    BY <2>9, <2>10, <2>11
<1> HIDE DEF P
<1>6. P = Place
  <2>1. P \in SUBSET Place
    BY DEF P
  <2> QED
    BY <1>0, <1>4, <1>5, <2>1, Descent
<1>7. ParsePb(u) = <<x \o y>>
  <2>1. E[1] = <<x>> /\ E[1] # Malformed /\ E[1][1] = x
    BY DEF ParsePb, Malformed
  <2>2. F[1] = <<E[1][1] \o y>>
    BY <1>0, <1>6, <2>1 DEF P
  <2> QED
    BY <2>1, <2>2 DEF ParsePb
<1> QED
  BY <1>7 DEF u

-----------------------------------------------------------------------------
(* The writer of entries.                                                  *)
LEMMA ConcatParts ==
  ASSUME NEW s \in Seq(Byte), NEW t \in Seq(Byte), Len(s) > 0
  PROVE  SubSeq(s \o t, 1, Len(s)) = s /\ Rest(s \o t, Len(s)) = t
<1> DEFINE u == s \o t
<1>0. Len(s) \in Nat /\ Len(t) \in Nat /\ 1 \in Place
  BY LenProperties DEF Place
<1>1. /\ u \in Seq(Byte) /\ Len(u) = Len(s) + Len(t)
      /\ StandsIn(s, u, 0) /\ StandsIn(t, u, Len(s))
  BY Joins
<1> HIDE DEF u
<1>2. SubSeq(u, 1, Len(s)) = s
  <2>1. SubSeq(u, 1 + 0, Len(s) + 0) = SubSeq(s, 1, Len(s))
    <3>1. 0 \in Nat /\ 1 <= Len(s) + 1 /\ Len(s) <= Len(s) /\ Len(s) + 0 <= Len(u)
      BY <1>0, <1>1
    <3>2. SamePiece(s, u, 0, 1, Len(s))
      BY <1>0, <1>1, <3>1 DEF StandsIn, SamePiece
    <3>3. CutsAlike(s, u, 0, 1, Len(s))
      BY <3>2, SameCut
    <3> QED
      BY ONLY <3>3 DEF CutsAlike
  <2>2. 1 + 0 = 1 /\ Len(s) + 0 = Len(s)
    BY <1>0
  <2> QED
    BY <2>1, <2>2, SubSeqFull
<1>3. SubSeq(u, Len(s) + 1, Len(u)) = t
  <2> DEFINE k == Len(s)
             n == Len(t)
  <2>1. SubSeq(u, 1 + k, n + k) = SubSeq(t, 1, n)
    <3>1. k \in Nat /\ n \in Nat /\ 1 <= n + 1 /\ n <= Len(t) /\ n + k <= Len(u)
      BY <1>0, <1>1
    <3>2. SamePiece(t, u, k, 1, n)
      BY <1>0, <1>1, <3>1 DEF StandsIn, SamePiece
    <3> HIDE DEF k, n
    <3>3. CutsAlike(t, u, k, 1, n)
      BY <3>2, SameCut
    <3> QED
      BY ONLY <3>3 DEF CutsAlike
  <2>2. 1 + k = Len(s) + 1 /\ n + k = Len(u)
    BY <1>0, <1>1
  <2> QED
    BY <2>1, <2>2, SubSeqFull
<1> QED
  BY <1>2, <1>3 DEF u, Rest

LEMMA MakesEntry ==
  ASSUME NEW tag \in Seq(Byte), NEW rest \in Seq(Byte), NEW f \in Nat \ {0}, NEW w \in 0..7,
         NEW v, IsVarint(tag), VarintValue(tag) = 8 * f + w, RestSays(rest, w, v)
  PROVE  Entry(f, w = WIRE_BYTES, v) \in Entries(tag \o rest)
<1> DEFINE c == tag \o rest
           n == Len(tag)
           e == Entry(f, w = WIRE_BYTES, v)
<1>1. n > 0 /\ n \in Nat
  BY LenProperties DEF IsVarint
<1>2. SubSeq(c, 1, n) = tag /\ Rest(c, n) = rest
  BY <1>1, ConcatParts
<1>3. n \in 1..Len(c)
  <2>1. Len(c) = n + Len(rest) /\ Len(rest) \in Nat
    BY LenProperties, ConcatProperties
  <2> HIDE DEF c, n
  <2> QED
    BY <1>1, <2>1
<1>4. (8 * f + w) \div 8 = f /\ (8 * f + w) % 8 = w
  OBVIOUS
<1>5. e.value = v
  BY DEF Entry
<1>6. e = Entry(f, w = WIRE_BYTES, e.value)
  BY <1>5
<1> HIDE DEF c, n, e
<1>7. EntrySays(tag, rest, e)
  BY <1>4, <1>5, <1>6 DEF EntrySays
<1>8. e \in Entries(c)
  BY <1>2, <1>3, <1>7, EntriesAre
<1> QED
  BY <1>8 DEF c, e

LEMMA TagMeans ==
  ASSUME NEW f \in Nat \ {0}, NEW w \in 0..7, 8 * f + w < Word
  PROVE  /\ Tag(f, w) \in Seq(Byte) /\ Len(Tag(f, w)) \in Nat \ {0}
         /\ IsVarint(Tag(f, w)) /\ VarintValue(Tag(f, w)) = 8 * f + w
<1>1. 8 * f + w \in Nat /\ 8 * f + w \in Int
  OBVIOUS
<1>2. (8 * f + w) % Word = 8 * f + w
  BY <1>1, Wrapped
<1> QED
  BY <1>1, <1>2, VarintMeans DEF Tag

(* The field numbers for which the tag fits in the word.                   *)
Fields == {f \in Nat \ {0} : 8 * f + 7 < Word}

LEMMA FieldTag ==
  ASSUME NEW f \in Fields, NEW w \in 0..7
  PROVE  /\ f \in Nat \ {0} /\ Tag(f, w) \in Seq(Byte) /\ Len(Tag(f, w)) \in Nat \ {0}
         /\ IsVarint(Tag(f, w)) /\ VarintValue(Tag(f, w)) = 8 * f + w
<1>1. f \in Nat \ {0} /\ 8 * f + w < Word
  BY WordIs DEF Fields
<1> QED
  BY <1>1, TagMeans

LEMMA UintEntry ==
  ASSUME NEW f \in Fields, NEW n \in Int
  PROVE  /\ PbUint(f, n) \in Seq(Byte) /\ Len(PbUint(f, n)) > 0
         /\ Entry(f, FALSE, <<n % Word>>) \in Entries(PbUint(f, n))
<1>1. WIRE_VARINT \in 0..7 /\ (WIRE_VARINT = WIRE_BYTES) = FALSE
  BY DEF WIRE_VARINT, WIRE_BYTES
<1>2. /\ f \in Nat \ {0} /\ Tag(f, WIRE_VARINT) \in Seq(Byte)
      /\ Len(Tag(f, WIRE_VARINT)) \in Nat \ {0} /\ IsVarint(Tag(f, WIRE_VARINT))
      /\ VarintValue(Tag(f, WIRE_VARINT)) = 8 * f + WIRE_VARINT
  BY <1>1, FieldTag
<1>3. /\ Varint(n) \in Seq(Byte) /\ Len(Varint(n)) \in Nat
      /\ RestSays(Varint(n), WIRE_VARINT, <<n % Word>>)
  BY VarintMeans DEF RestSays
<1>4. Entry(f, WIRE_VARINT = WIRE_BYTES, <<n % Word>>) \in Entries(Tag(f, WIRE_VARINT) \o Varint(n))
  BY <1>1, <1>2, <1>3, MakesEntry
<1>5. /\ Tag(f, WIRE_VARINT) \o Varint(n) \in Seq(Byte)
      /\ Len(Tag(f, WIRE_VARINT) \o Varint(n)) = Len(Tag(f, WIRE_VARINT)) + Len(Varint(n))
  BY <1>2, <1>3, ConcatProperties
<1>6. Len(Tag(f, WIRE_VARINT)) + Len(Varint(n)) > 0
  BY <1>2, <1>3
<1> QED
  BY <1>1, <1>4, <1>5, <1>6 DEF PbUint

LEMMA Fixed64Entry ==
  ASSUME NEW f \in Fields, NEW n \in Int
  PROVE  /\ PbFixed64(f, n) \in Seq(Byte) /\ Len(PbFixed64(f, n)) > 0
         /\ Entry(f, FALSE, <<n % Word>>) \in Entries(PbFixed64(f, n))
<1> DEFINE tag == Tag(f, WIRE_FIXED64)
           rest == LittleEndian(n % Word, Fixed64Size)
<1>1. WIRE_FIXED64 \in 0..7 /\ (WIRE_FIXED64 = WIRE_BYTES) = FALSE
  BY DEF WIRE_FIXED64, WIRE_BYTES
<1>2. /\ f \in Nat \ {0} /\ tag \in Seq(Byte) /\ Len(tag) \in Nat \ {0} /\ IsVarint(tag)
      /\ VarintValue(tag) = 8 * f + WIRE_FIXED64
  BY <1>1, FieldTag
<1>3. rest \in Seq(Byte) /\ Len(rest) = Fixed64Size /\ Number(rest) = n % Word /\ Fixed64Size \in Nat
  <2>1. n % Word \in Nat /\ n % Word < Power256[Fixed64Size] /\ Fixed64Size \in Nat
    <3>1. n % Word \in Nat /\ n % Word < Word
      BY Wrapped
    <3>2. Word = Power256[Fixed64Size] /\ Fixed64Size \in Nat
      BY WidthAssumption
    <3> QED
      BY <3>1, <3>2
  <2> QED
    <3> DEFINE m == n % Word
    <3>1. m \in Nat /\ m < Power256[Fixed64Size] /\ Fixed64Size \in Nat
      BY <2>1
    <3> HIDE DEF m
    <3>2. /\ LittleEndian(m, Fixed64Size) \in Seq(Byte)
          /\ Len(LittleEndian(m, Fixed64Size)) = Fixed64Size
      BY ONLY <3>1, LittleIs
    <3>3. Number(LittleEndian(m, Fixed64Size)) = m
      BY ONLY <3>1, LittleMeans
    <3> QED
      BY <3>1, <3>2, <3>3 DEF m
<1> HIDE DEF tag, rest
<1>4. RestSays(rest, WIRE_FIXED64, <<n % Word>>)
  BY <1>3 DEF RestSays
<1>5. Entry(f, WIRE_FIXED64 = WIRE_BYTES, <<n % Word>>) \in Entries(tag \o rest)
  BY <1>1, <1>2, <1>3, <1>4, MakesEntry
<1>6. tag \o rest \in Seq(Byte) /\ Len(tag \o rest) = Len(tag) + Len(rest)
  BY <1>2, <1>3, ConcatProperties
<1>7. Len(tag) + Len(rest) > 0
  BY <1>2, <1>3
<1> QED
  BY <1>1, <1>5, <1>6, <1>7 DEF PbFixed64, tag, rest

LEMMA BytesEntry ==
  ASSUME NEW f \in Fields, NEW b \in Seq(Byte), Len(b) < Word
  PROVE  /\ PbBytes(f, b) \in Seq(Byte) /\ Len(PbBytes(f, b)) > 0
         /\ Entry(f, TRUE, b) \in Entries(PbBytes(f, b))
<1> DEFINE tag == Tag(f, WIRE_BYTES)
           len == Varint(Len(b))
           rest == len \o b
           k == Len(len)
<1>1. WIRE_BYTES \in 0..7 /\ (WIRE_BYTES = WIRE_BYTES) = TRUE
  BY DEF WIRE_BYTES
<1>2. /\ f \in Nat \ {0} /\ tag \in Seq(Byte) /\ Len(tag) \in Nat \ {0} /\ IsVarint(tag)
      /\ VarintValue(tag) = 8 * f + WIRE_BYTES
  BY <1>1, FieldTag
<1>3. /\ len \in Seq(Byte) /\ k \in Nat \ {0} /\ k > 0 /\ IsVarint(len)
      /\ VarintValue(len) = Len(b) /\ Len(b) \in Nat
  <2>1. Len(b) \in Nat /\ Len(b) \in Int
    BY LenProperties
  <2>2. Len(b) % Word = Len(b)
    BY <2>1, Wrapped
  <2>3. k \in Nat \ {0} => k > 0
    OBVIOUS
  <2> QED
    BY <2>1, <2>2, <2>3, VarintMeans
<1> HIDE DEF tag, len
<1>4. rest \in Seq(Byte) /\ Len(rest) = k + Len(b)
  BY <1>3, ConcatProperties
<1>5. SubSeq(rest, 1, k) = len /\ Rest(rest, k) = b
  BY <1>3, ConcatParts
<1> HIDE DEF rest, k
<1>6. k \in 1..Len(rest) /\ Len(rest) - k = Len(b) /\ Len(rest) \in Nat
  BY <1>3, <1>4
<1>7. RestSays(rest, WIRE_BYTES, b)
  <2>1. IsVarint(SubSeq(rest, 1, k)) /\ VarintValue(SubSeq(rest, 1, k)) = Len(rest) - k
    BY <1>3, <1>5, <1>6
  <2> QED
    BY <1>5, <1>6, <2>1 DEF RestSays
<1>8. Entry(f, WIRE_BYTES = WIRE_BYTES, b) \in Entries(tag \o rest)
  BY <1>1, <1>2, <1>4, <1>7, MakesEntry
<1>9. tag \o rest \in Seq(Byte) /\ Len(tag \o rest) = Len(tag) + Len(rest)
  BY <1>2, <1>4, ConcatProperties
<1>10. Len(tag) + Len(rest) > 0
  BY <1>2, <1>6
<1>11. PbBytes(f, b) = tag \o rest
  <2>1. PbBytes(f, b) = (tag \o len) \o b
    BY DEF PbBytes, tag, len
  <2>2. (tag \o len) \o b = tag \o (len \o b)
    <3>1. tag \in Seq(Byte) /\ len \in Seq(Byte) /\ b \in Seq(Byte)
      BY <1>2, <1>3
    <3> HIDE DEF tag, len
    <3> QED
      BY ONLY <3>1, ConcatAssociative
  <2> QED
    BY <2>1, <2>2 DEF rest
<1> QED
  BY <1>1, <1>8, <1>9, <1>10, <1>11

LEMMA OneEntry ==
  ASSUME NEW s \in Seq(Byte), Len(s) > 0, NEW e \in Entries(s)
  PROVE  ParsePb(s) = << <<e>> >>
<1>0. Len(s) \in Nat /\ 1 \in Place /\ 1 <= Len(s) /\ Len(s) + 1 \in Place
  BY LenProperties DEF Place
<1>1. SubSeq(s, 1, Len(s)) = s /\ Len(s) <= Len(s)
  BY <1>0, SubSeqFull
<1>2. EntryAt(s, 1) = <<e, Len(s) + 1>>
  <2>1. EntryExact(s, 1)
    BY <1>0, EntryIs
  <2>2. e \in Entries(SubSeq(s, 1, Len(s)))
    BY <1>1
  <2> QED
    BY <1>0, <1>1, <2>1, <2>2 DEF EntryExact
<1>3. EntriesFrom(s)[Len(s) + 1] = << << >> >>
  <2>1. Len(s) + 1 > Len(s)
    BY <1>0
  <2> QED
    BY <1>0, <2>1, EntriesStep
<1>4. EntriesFrom(s)[1] = << <<e>> \o << >> >>
  <2> DEFINE r == Len(s) + 1
             x == << >>
  <2>1. /\ s \in Seq(Byte) /\ 1 \in Place /\ r \in Place /\ 1 <= Len(s)
        /\ EntryAt(s, 1) = <<e, r>> /\ EntriesFrom(s)[r] = <<x>>
    BY <1>0, <1>2, <1>3
  <2> HIDE DEF r, x
  <2>2. EntriesFrom(s)[1] = << <<e>> \o x >>
    BY ONLY <2>1, EntryThen
  <2> QED
    BY <2>2 DEF x
<1>5. <<e>> \o << >> = <<e>>
  <2>1. <<e>> \in Seq({e})
    OBVIOUS
  <2> QED
    BY <2>1, ConcatEmptySeq
<1> QED
  BY <1>4, <1>5 DEF ParsePb

-----------------------------------------------------------------------------
(* FlattenSeq puts byte strings one behind the other.                      *)
FlatFrom(seqs) ==
  LET flatten[i \in 1..Len(seqs)] == IF i = 1 THEN seqs[i] ELSE flatten[i - 1] \o seqs[i]
  IN flatten

LEMMA FlatDef ==
  ASSUME NEW S, NEW seqs \in Seq(Seq(S))
  PROVE  /\ FlatFrom(seqs) \in [(1..Len(seqs)) -> Seq(S)]
         /\ \A i \in (1..Len(seqs)) : FlatFrom(seqs)[i] =
              IF i = 1 THEN seqs[i] ELSE FlatFrom(seqs)[i - 1] \o seqs[i]
<1> DEFINE V == Seq(S)
           Rule(i, f) == IF i = 1 THEN seqs[i] ELSE f[i - 1] \o seqs[i]
           body == [p \in (1..Len(seqs)) \X [(1..Len(seqs)) -> V] |-> Rule(p[1], p[2])]
           rank == [i \in 1..Len(seqs) |-> i]
<1>0. rank \in [(1..Len(seqs)) -> Nat]
  OBVIOUS
<1>1. ASSUME NEW i \in (1..Len(seqs)), NEW f \in [(1..Len(seqs)) -> V] PROVE Rule(i, f) \in V
  <2>1. seqs[i] \in Seq(S) /\ (i # 1 => i - 1 \in 1..Len(seqs))
    BY ElementOfSeq
  <2>2. i # 1 => f[i - 1] \o seqs[i] \in Seq(S)
    BY <2>1, ConcatProperties
  <2> QED
    BY <2>1, <2>2
<1>2. ASSUME NEW i \in (1..Len(seqs)), NEW g, NEW h,
             \A m \in (1..Len(seqs)) : rank[m] < rank[i] => g[m] = h[m]
      PROVE  Rule(i, g) = Rule(i, h)
  <2>1. i # 1 => i - 1 \in 1..Len(seqs) /\ rank[i - 1] < rank[i]
    OBVIOUS
  <2> QED
    BY <1>2, <2>1
<1> HIDE DEF Rule, rank
<1>3. body \in [(1..Len(seqs)) \X [(1..Len(seqs)) -> V] -> V]
  BY <1>1
<1>4. LooksDown((1..Len(seqs)), V, rank, body)
  <2>1. ASSUME NEW i \in (1..Len(seqs)), NEW g \in [(1..Len(seqs)) -> V], NEW h \in [(1..Len(seqs)) -> V],
               \A m \in (1..Len(seqs)) : rank[m] < rank[i] => g[m] = h[m]
        PROVE  body[<<i, g>>] = body[<<i, h>>]
    <3>1. Rule(i, g) = Rule(i, h)
      BY <1>2, <2>1
    <3> QED
      BY <3>1
  <2> HIDE DEF body, V
  <2> QED
    BY <2>1 DEF LooksDown
<1>5. PICK f \in [(1..Len(seqs)) -> V] : Solves(f, (1..Len(seqs)), body)
  <2>1. V # {}
    BY EmptySeq
  <2> HIDE DEF body, V
  <2> QED
    BY <1>0, <1>3, <1>4, <2>1, Recursion
<1>6. f = [i \in (1..Len(seqs)) |-> Rule(i, f)]
  BY <1>5 DEF Solves
<1>7. FlatFrom(seqs) = [i \in (1..Len(seqs)) |-> Rule(i, FlatFrom(seqs))]
  BY <1>6 DEF FlatFrom, Rule
<1>8. FlatFrom(seqs) = f
  <2> DEFINE F == FlatFrom(seqs)
  <2>1. F = [i \in (1..Len(seqs)) |-> Rule(i, F)]
    BY <1>7
  <2> HIDE DEF F, V, body
  <2>2. ASSUME NEW i \in (1..Len(seqs)), \A m \in (1..Len(seqs)) : rank[m] < rank[i] => F[m] = f[m]
        PROVE  F[i] = f[i]
    <3>1. Rule(i, F) = Rule(i, f)
      BY <1>2, <2>2
    <3> QED
      BY <1>6, <2>1, <3>1
  <2> DEFINE T == (1..Len(seqs))
  <2>3. Follows(F, f, T, rank) /\ rank \in [T -> Nat]
    BY <1>0, <2>2 DEF Follows
  <2> HIDE DEF T
  <2>4. \A i \in T : F[i] = f[i]
    BY <2>3, SameSolution
  <2>5. F = f
    BY <1>6, <2>1, <2>4 DEF T
  <2> QED
    BY <2>5 DEF F
<1> QED
  BY <1>7, <1>8 DEF Rule

LEMMA FlattenAppend ==
  ASSUME NEW S, NEW seqs \in Seq(Seq(S)), NEW x \in Seq(S)
  PROVE  /\ FlattenSeq(seqs) \in Seq(S)
         /\ FlattenSeq(Append(seqs, x)) = FlattenSeq(seqs) \o x
<1> DEFINE more == Append(seqs, x)
           n == Len(seqs)
           F == FlatFrom(seqs)
           G == FlatFrom(more)
<1>1. /\ more \in Seq(Seq(S)) /\ Len(more) = n + 1 /\ more[n + 1] = x
      /\ \A i \in 1..n : more[i] = seqs[i]
  BY AppendProperties
<1>2. n \in Nat
  BY LenProperties
<1>3. /\ F \in [1..n -> Seq(S)]
      /\ \A i \in 1..n : F[i] = IF i = 1 THEN seqs[i] ELSE F[i - 1] \o seqs[i]
  BY FlatDef
<1> HIDE DEF more
<1>4. \A i \in 1..(n + 1) : G[i] = IF i = 1 THEN more[i] ELSE G[i - 1] \o more[i]
  <2>1. \A i \in 1..Len(more) : G[i] = IF i = 1 THEN more[i] ELSE G[i - 1] \o more[i]
    BY <1>1, FlatDef
  <2> HIDE DEF G
  <2> QED
    BY <1>1, <2>1
<1>5. /\ FlattenSeq(seqs) = IF n = 0 THEN seqs ELSE F[n]
      /\ FlattenSeq(more) = IF n + 1 = 0 THEN more ELSE G[n + 1]
  BY <1>1 DEF FlattenSeq, FlatFrom
<1> HIDE DEF F, G, n
<1>6. \A i \in 1..n : G[i] = F[i]
  <2> DEFINE rank == [i \in 1..n |-> i]
  <2>1. ASSUME NEW i \in 1..n, \A j \in 1..n : rank[j] < rank[i] => G[j] = F[j]
        PROVE  G[i] = F[i]
    <3>1. i \in 1..(n + 1) /\ more[i] = seqs[i] /\ (i # 1 => i - 1 \in 1..n /\ rank[i - 1] < rank[i])
      BY <1>1, <1>2
    <3>2. i # 1 => G[i - 1] = F[i - 1]
      BY <2>1, <3>1
    <3>3. G[i] = IF i = 1 THEN more[i] ELSE G[i - 1] \o more[i]
      BY <1>4, <3>1
    <3>4. F[i] = IF i = 1 THEN seqs[i] ELSE F[i - 1] \o seqs[i]
      BY <1>3
    <3> QED
      BY <3>1, <3>2, <3>3, <3>4
  <2> DEFINE T == 1..n
  <2>2. rank \in [T -> Nat]
    BY <1>2
  <2>3. Follows(G, F, T, rank)
    BY <2>1 DEF Follows
  <2> HIDE DEF rank, T
  <2>4. \A i \in T : G[i] = F[i]
    BY <2>2, <2>3, SameSolution
  <2> QED
    BY <2>4 DEF T
<1>7. FlattenSeq(more) = G[n + 1] /\ n + 1 \in 1..(n + 1)
  BY <1>2, <1>5
<1>8. CASE n = 0
  <2>1. seqs = << >> /\ FlattenSeq(seqs) = seqs
    BY <1>5, <1>8, LenProperties, EmptySeq DEF n
  <2>2. FlattenSeq(more) = x
    BY <1>1, <1>4, <1>7, <1>8
  <2>3. << >> \o x = x
    BY ConcatEmptySeq
  <2>4. << >> \in Seq(S)
    BY EmptySeq
  <2> QED
    BY <2>1, <2>2, <2>3, <2>4 DEF more
<1>9. CASE n # 0
  <2>1. n \in 1..n /\ n + 1 # 1 /\ (n + 1) - 1 = n
    BY <1>2, <1>9
  <2>2. FlattenSeq(seqs) = F[n] /\ F[n] \in Seq(S)
    BY <1>3, <1>5, <1>9, <2>1
  <2>3. G[n + 1] = G[n] \o x
    BY <1>1, <1>4, <1>7, <2>1
  <2>4. G[n] = F[n]
    BY <1>6, <2>1
  <2> QED
    BY <1>7, <2>2, <2>3, <2>4 DEF more
<1> QED
  BY <1>8, <1>9

-----------------------------------------------------------------------------
(* Frames.                                                                 *)
LEMMA StripIs ==
  ASSUME NEW t \in Seq(Byte), NEW v \in Seq(Byte), IsVarint(v), StandsIn(v, t, 0),
         Len(v) <= Len(t)
  PROVE  StripBqs(t) = IF VarintValue(v) = Len(t) - Len(v)
                         THEN SubSeq(t, Len(v) + 1, Len(t)) ELSE t
<1> DEFINE n == Len(v)
<1>0. n \in Nat /\ n > 0 /\ Len(t) \in Nat /\ 1 \in Place
  BY LenProperties DEF IsVarint, Place
<1>1. SubSeq(t, 1, n) = v
  <2>1. SamePiece(v, t, 0, 1, n)
    BY <1>0 DEF StandsIn, SamePiece
  <2>2. SubSeq(v, 1, n) = v
    BY SubSeqFull
  <2> HIDE DEF n
  <2>3. SubSeq(t, 1 + 0, n + 0) = SubSeq(v, 1, n)
    <3>1. CutsAlike(v, t, 0, 1, n)
      BY <2>1, SameCut
    <3> QED
      BY ONLY <3>1 DEF CutsAlike
  <2>4. 1 + 0 = 1 /\ n + 0 = n
    BY <1>0
  <2> QED
    BY <2>2, <2>3, <2>4
<1>2. ReadVarint(t, 1) = <<VarintValue(v), n + 1>> /\ VarintValue(v) \in Nat
  <2>0. n <= Len(t)
    OBVIOUS
  <2>1. 1 <= n + 1 /\ n <= Len(t) /\ IsVarint(SubSeq(t, 1, n))
    <3> HIDE DEF n
    <3>1. IsVarint(SubSeq(t, 1, n))
      BY <1>1
    <3> QED
      BY <1>0, <2>0, <3>1
  <2> HIDE DEF n
  <2> QED
    BY <1>0, <1>1, <2>1, VarintRead
<1>3. /\ ReadVarint(t, 1) # Malformed /\ ReadVarint(t, 1)[1] = VarintValue(v)
      /\ ReadVarint(t, 1)[2] = n + 1
  <2> HIDE DEF n
  <2> QED
    BY <1>2 DEF Malformed
<1> HIDE DEF n
<1>4. Len(t) - (n + 1) + 1 = Len(t) - n
  BY <1>0
<1> QED
  BY <1>3, <1>4 DEF StripBqs, n

LEMMA FrameIs ==
  ASSUME NEW b \in Seq(Byte), Len(b) < Word
  PROVE  /\ Digits[Len(b)] \in Seq(Byte) /\ Len(Digits[Len(b)]) \in Nat \ {0}
         /\ IsVarint(Digits[Len(b)]) /\ VarintValue(Digits[Len(b)]) = Len(b)
<1>1. Len(b) \in Nat /\ Len(b) \in Int
  BY LenProperties
<1>2. Len(b) % Word = Len(b)
  BY <1>1, Wrapped
<1>3. Varint(Len(b)) = Digits[Len(b)]
  BY <1>2 DEF Varint
<1> QED
  BY <1>1, <1>2, <1>3, VarintMeans

(* What strip_bqs takes for a frame is what bqs_frame makes, and nothing   *)
(* that is one byte shorter or longer (framing.py).                        *)
THEOREM FramesAreTaken ==
  ASSUME NEW b \in Seq(Byte), Len(b) < Word
  PROVE  FrameIsTaken(b)
<1> DEFINE v == Digits[Len(b)]
           frame == BqsFrame(b)
<1>0. /\ v \in Seq(Byte) /\ Len(v) \in Nat /\ Len(v) > 0 /\ IsVarint(v) /\ VarintValue(v) = Len(b)
      /\ Len(b) \in Nat
  <2>1. \A n \in Nat \ {0} : n \in Nat /\ n > 0
    OBVIOUS
  <2> QED
    BY <2>1, FrameIs, LenProperties
<1>1. frame = v \o b
  BY DEF BqsFrame
<1> HIDE DEF v, frame
<1>2. /\ frame \in Seq(Byte) /\ Len(frame) = Len(v) + Len(b) /\ StandsIn(v, frame, 0)
  BY <1>0, <1>1, Joins
<1>3. SubSeq(frame, Len(v) + 1, Len(frame)) = b
  BY <1>0, <1>1, ConcatParts DEF Rest
<1>4. StripBqs(frame) = b
  <2>1. Len(v) <= Len(frame) /\ Len(frame) - Len(v) = Len(b)
    BY <1>0, <1>2
  <2> QED
    BY <1>0, <1>2, <1>3, <2>1, StripIs
<1>5. StripBqs(frame \o <<0>>) = frame \o <<0>>
  <2> DEFINE t == frame \o <<0>>
  <2>1. <<0>> \in Seq(Byte) /\ Len(<<0>>) = 1
    BY DEF Byte
  <2>2. t \in Seq(Byte) /\ Len(t) = Len(frame) + 1 /\ StandsIn(frame, t, 0)
    BY <1>2, <2>1, Joins
  <2> HIDE DEF t
  <2>3. StandsIn(v, t, 0)
    <3>1. \A i \in Place : i <= Len(v) => i <= Len(frame) /\ i + 0 = i
      BY <1>0, <1>2 DEF Place
    <3> QED
      BY <1>2, <2>2, <3>1 DEF StandsIn
  <2>4. Len(v) <= Len(t) /\ Len(b) # Len(t) - Len(v)
    BY <1>0, <1>2, <2>2
  <2>5. StripBqs(t) = t
    BY <1>0, <2>2, <2>3, <2>4, StripIs
  <2> QED
    BY <2>5 DEF t
<1>6. ASSUME b # << >> PROVE StripBqs(Front(frame)) = Front(frame)
  <2> DEFINE t == Front(frame)
             n == Len(frame) - 1
  <2>1. Len(b) > 0
    BY <1>0, <1>6, EmptySeq
  <2>2. n \in Nat /\ 1 \in Place /\ 1 <= n + 1 /\ n <= Len(frame) /\ Len(v) <= n /\ n + 1 - 1 = n
    BY <1>0, <1>2, <2>1 DEF Place
  <2>3. t = SubSeq(frame, 1, n)
    BY DEF Front
  <2> HIDE DEF t, n
  <2>4. t \in Seq(Byte) /\ Len(t) = n /\ \A i \in 1..n : t[i] = frame[1 + i - 1]
    BY <1>2, <2>2, <2>3, Cut
  <2>5. StandsIn(v, t, 0)
    <3>1. \A i \in Place : i <= Len(v) => i \in 1..n /\ i + 0 = i /\ 1 + i - 1 = i
      BY <1>0, <2>2 DEF Place
    <3> QED
      BY <1>2, <2>4, <3>1 DEF StandsIn
  <2>6. Len(v) <= Len(t) /\ Len(b) # Len(t) - Len(v)
    BY <1>0, <1>2, <2>2, <2>4 DEF n
  <2>7. StripBqs(t) = t
    BY <1>0, <2>4, <2>5, <2>6, StripIs
  <2> QED
    BY <2>7 DEF t
<1> QED
  BY <1>4, <1>5, <1>6 DEF FrameIsTaken, frame

-----------------------------------------------------------------------------
(* The runs of WireFormat.                                                 *)
Calls ==
  ({"uint", "fixed64"} \X FieldNumbers \X {<<n>> : n \in Inputs})
    \cup ({"bytes"} \X FieldNumbers \X Blobs)

Meanings(calls) == [i \in DOMAIN calls |-> Meant(calls[i])]

LEMMA CallIsRead ==
  ASSUME NEW c \in Calls
  PROVE  /\ Written(c) \in Seq(Byte) /\ Len(Written(c)) > 0
         /\ Meant(c) \in Entries(Written(c))
<1>0. FieldNumbers \subseteq Fields
  BY CallsAssumption DEF Fields
<1>1. CASE c \in {"uint", "fixed64"} \X FieldNumbers \X {<<n>> : n \in Inputs}
  <2>1. PICK how \in {"uint", "fixed64"}, f \in FieldNumbers, n \in Inputs : c = <<how, f, <<n>>>>
    BY <1>1
  <2>2. f \in Fields /\ n \in Int
    BY <1>0, CallsAssumption
  <2>3. c[1] = how /\ c[2] = f /\ c[3][1] = n
    BY <2>1
  <2>4. Meant(c) = Entry(f, FALSE, <<n % Word>>)
    BY <2>3 DEF Meant
  <2>5. CASE how = "uint"
    <3>1. Written(c) = PbUint(f, n)
      BY <2>3, <2>5 DEF Written
    <3> QED
      BY <2>2, <2>4, <3>1, UintEntry
  <2>6. CASE how = "fixed64"
    <3>1. Written(c) = PbFixed64(f, n)
      BY <2>3, <2>6 DEF Written
    <3> QED
      BY <2>2, <2>4, <3>1, Fixed64Entry
  <2> QED
    BY <2>5, <2>6
<1>2. CASE c \in {"bytes"} \X FieldNumbers \X Blobs
  <2>1. PICK f \in FieldNumbers, b \in Blobs : c = <<"bytes", f, b>>
    BY <1>2
  <2>2. f \in Fields /\ b \in Seq(Byte) /\ Len(b) < Word
    BY <1>0, CallsAssumption DEF Byte
  <2>3. c[1] = "bytes" /\ c[2] = f /\ c[3] = b
    BY <2>1
  <2>4. Meant(c) = Entry(f, TRUE, b) /\ Written(c) = PbBytes(f, b)
    BY <2>3 DEF Meant, Written
  <2> QED
    BY <2>2, <2>4, BytesEntry
<1> QED
  BY <1>1, <1>2 DEF Calls

LEMMA OneCallMore ==
  ASSUME NEW calls \in Seq(Calls), NEW c \in Calls
  PROVE  /\ Body(calls) \in Seq(Byte)
         /\ Body(Append(calls, c)) = Body(calls) \o Written(c)
         /\ Meanings(Append(calls, c)) = Meanings(calls) \o <<Meant(c)>>
<1> DEFINE more == Append(calls, c)
           n == Len(calls)
           seqs == [i \in 1..n |-> Written(calls[i])]
           means == [i \in 1..n |-> Meant(calls[i])]
<1>1. /\ more \in Seq(Calls) /\ Len(more) = n + 1 /\ more[n + 1] = c
      /\ \A i \in 1..n : more[i] = calls[i]
  BY AppendProperties
<1>2. n \in Nat /\ DOMAIN calls = 1..n /\ DOMAIN more = 1..(n + 1)
  BY <1>1, LenProperties
<1> DEFINE seqs2 == [i \in 1..(n + 1) |-> Written(more[i])]
           means2 == [i \in 1..(n + 1) |-> Meant(more[i])]
<1>3. /\ Body(calls) = FlattenSeq(seqs) /\ Body(more) = FlattenSeq(seqs2)
      /\ Meanings(calls) = means /\ Meanings(more) = means2
  BY <1>2 DEF Body, Meanings
<1>4. \A i \in 1..n : calls[i] \in Calls
  BY ElementOfSeq
<1> HIDE DEF more, n
<1>5. seqs \in Seq(Seq(Byte)) /\ Len(seqs) = n
  <2>1. \A i \in 1..n : Written(calls[i]) \in Seq(Byte)
    BY <1>4, CallIsRead
  <2>2. seqs \in Seq(Seq(Byte))
    BY <1>2, <2>1, IsASeq
  <2> QED
    BY <1>2, <2>2
<1>6. Written(c) \in Seq(Byte)
  BY CallIsRead
<1>7. seqs2 = Append(seqs, Written(c))
  <2>1. Len(seqs) = n /\ Append(seqs, Written(c)) = [i \in 1..(n + 1) |-> IF i = n + 1 THEN Written(c) ELSE seqs[i]]
    BY <1>2, <1>5
  <2>2. \A i \in 1..(n + 1) : Written(more[i]) = IF i = n + 1 THEN Written(c) ELSE seqs[i]
    <3>1. \A i \in 1..(n + 1) : i # n + 1 => i \in 1..n
      BY <1>2
    <3> QED
      BY <1>1, <3>1
  <2> HIDE DEF seqs
  <2> QED
    BY <2>1, <2>2
<1>8. /\ FlattenSeq(seqs) \in Seq(Byte)
      /\ FlattenSeq(seqs2) = FlattenSeq(seqs) \o Written(c)
  <2> HIDE DEF seqs, seqs2
  <2> QED
    BY <1>5, <1>6, <1>7, FlattenAppend
<1>9. means2 = means \o <<Meant(c)>>
  <2> DEFINE S == {Meant(calls[i]) : i \in 1..n} \cup {Meant(c)}
  <2>1. means \in Seq(S) /\ Len(means) = n
    <3>1. \A i \in 1..n : Meant(calls[i]) \in S
      OBVIOUS
    <3> HIDE DEF S
    <3>2. means \in Seq(S)
      BY <1>2, <3>1, IsASeq
    <3> QED
      BY <1>2, <3>2
  <2>2. means \o <<Meant(c)>> = Append(means, Meant(c))
    <3>1. Meant(c) \in S
      OBVIOUS
    <3> HIDE DEF S, means
    <3> QED
      BY <2>1, <3>1, AppendIsConcat
  <2>3. Append(means, Meant(c)) = [i \in 1..(n + 1) |-> IF i = n + 1 THEN Meant(c) ELSE means[i]]
    BY <1>2, <2>1
  <2>4. \A i \in 1..(n + 1) : Meant(more[i]) = IF i = n + 1 THEN Meant(c) ELSE means[i]
    <3>1. \A i \in 1..(n + 1) : i # n + 1 => i \in 1..n
      BY <1>2
    <3> QED
      BY <1>1, <3>1
  <2> HIDE DEF means
  <2> QED
    BY <2>2, <2>3, <2>4
<1> QED
  BY <1>3, <1>8, <1>9 DEF more

LEMMA OneCallRead ==
  ASSUME NEW calls \in Seq(Calls), NEW c \in Calls, ParsePb(Body(calls)) = <<Meanings(calls)>>
  PROVE  /\ Body(Append(calls, c)) \in Seq(Byte)
         /\ ParsePb(Body(Append(calls, c))) = <<Meanings(Append(calls, c))>>
<1>1. Written(c) \in Seq(Byte) /\ ParsePb(Written(c)) = << <<Meant(c)>> >>
  BY CallIsRead, OneEntry
<1>2. /\ Body(calls) \in Seq(Byte)
      /\ Body(Append(calls, c)) = Body(calls) \o Written(c)
      /\ Meanings(Append(calls, c)) = Meanings(calls) \o <<Meant(c)>>
  BY OneCallMore
<1>3. ParsePb(Body(calls) \o Written(c)) = <<Meanings(calls) \o <<Meant(c)>>>>
  <2>1. Reads(Body(calls), Meanings(calls)) /\ Reads(Written(c), <<Meant(c)>>)
    BY <1>1 DEF Reads
  <2>2. Reads(Body(calls) \o Written(c), Meanings(calls) \o <<Meant(c)>>)
    BY <1>1, <1>2, <2>1, MessagesJoin
  <2> QED
    BY <2>2 DEF Reads
<1> QED
  BY <1>1, <1>2, <1>3, ConcatProperties

WireInv ==
  /\ data \in Seq(Byte) /\ built \in Seq(Calls)
  /\ Body(built) \in Seq(Byte) /\ ParsePb(Body(built)) = <<Meanings(built)>>

LEMMA WireStart == WireInit => WireInv
<1> SUFFICES ASSUME WireInit PROVE WireInv
  OBVIOUS
<1>1. data = << >> /\ built = << >> /\ DOMAIN << >> = {}
  BY DEF WireInit
<1>2. [i \in DOMAIN built |-> Written(built[i])] = << >>
  BY <1>1
<1>3. Body(built) = << >>
  BY <1>2 DEF Body, FlattenSeq
<1>4. Meanings(built) = << >>
  BY <1>1 DEF Meanings
<1>5. << >> \in Seq(Byte) /\ 1 \in Place /\ 1 > Len(<< >>)
  BY EmptySeq DEF Place
<1>6. ParsePb(<< >>) = << << >> >>
  BY <1>5, EntriesStep DEF ParsePb
<1> QED
  BY <1>1, <1>3, <1>4, <1>5, <1>6, EmptySeq DEF WireInv

LEMMA WireStep == WireInv /\ [WireNext]_wireVars => WireInv'
<1> SUFFICES ASSUME WireInv, [WireNext]_wireVars PROVE WireInv'
  OBVIOUS
<1>0. /\ data \in Seq(Byte) /\ built \in Seq(Calls)
      /\ Body(built) \in Seq(Byte) /\ ParsePb(Body(built)) = <<Meanings(built)>>
  BY DEF WireInv
<1>1. CASE OneByteMore
  <2>1. PICK b \in Alphabet : data' = Append(data, b) /\ built' = built
    BY <1>1 DEF OneByteMore
  <2>2. b \in Byte
    BY CallsAssumption DEF Byte
  <2>3. data' \in Seq(Byte)
    BY <1>0, <2>1, <2>2, AppendProperties
  <2> QED
    BY <1>0, <2>1, <2>3 DEF WireInv
<1>2. CASE BuildOne
  <2>1. data' = data /\ \E c \in Calls : built' = Append(built, c)
    BY <1>2 DEF BuildOne, Calls
  <2>2. PICK c \in Calls : built' = Append(built, c)
    BY <2>1
  <2>3. built' \in Seq(Calls)
    BY <1>0, <2>2, AppendProperties
  <2>4. /\ Body(built') \in Seq(Byte) /\ ParsePb(Body(built')) = <<Meanings(built')>>
    BY <1>0, <2>2, OneCallRead
  <2> QED
    BY <1>0, <2>1, <2>3, <2>4 DEF WireInv
<1>3. CASE UNCHANGED wireVars
  BY <1>0, <1>3 DEF WireInv, wireVars
<1> QED
  BY <1>1, <1>2, <1>3 DEF WireNext

(* parse_pb accepts the byte strings that are messages and no others, and  *)
(* returns what they say (pb.py), on every alphabet and of every length.   *)
THEOREM ParsingIsExact == WireSpec => []ParsesExactly
<1>1. WireInv => ParsesExactly
  BY ReaderIsGrammar DEF WireInv, ParsesExactly
<1> QED
  BY <1>1, WireStart, WireStep, PTL DEF WireSpec

(* What any list of pb_ calls builds is read back as what was meant, in    *)
(* order, and its frame is taken whole (pb.py, framing.py), whatever the   *)
(* values, fields and byte strings.                                        *)
THEOREM WritingIsRead == WireSpec => []WritesAreRead
<1>1. WireInv => WritesAreRead
  BY FramesAreTaken DEF WireInv, WritesAreRead, Meanings
<1> QED
  BY <1>1, WireStart, WireStep, PTL DEF WireSpec
=============================================================================
