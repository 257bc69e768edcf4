---------------------------- MODULE BtgattProofs ----------------------------
(***************************************************************************)
(* Proofs about BtgattTransport, for any number of indications and echoes  *)
(* and any cut of the text: every variable keeps its type, and a           *)
(* constructor that raises leaves no client with a link.                   *)
(***************************************************************************)
EXTENDS BtgattTransport, SequenceTheorems, TLAPS

(* What reading k fragments of a text leaves and takes.                    *)
LEMMA CutStep ==
  ASSUME NEW S, NEW text \in Seq(S), NEW k \in 0..Len(text)
  PROVE  /\ SubSeq(text, 1, k) \in Seq(S)
         /\ SubSeq(text, k + 1, Len(text)) \in Seq(S)
         /\ Len(SubSeq(text, 1, k)) = k
         /\ \A i \in 1..k : SubSeq(text, 1, k)[i] = text[i]
<1>1. Len(text) \in Nat /\ \A i \in 1..Len(text) : text[i] \in S
  BY LenProperties, ElementOfSeq
<1>2. /\ \A i \in 1..k : text[i] \in S
      /\ \A i \in (k + 1)..Len(text) : text[i] \in S
  BY <1>1
<1>3. k \in Int /\ k + 1 \in Int /\ Len(text) \in Int /\ 1 \in Int
  BY <1>1
<1>4. SubSeq(text, k + 1, Len(text)) \in Seq(S)
  BY <1>2, <1>3, SubSeqProperties
<1>5. /\ SubSeq(text, 1, k) \in Seq(S)
      /\ Len(SubSeq(text, 1, k)) = IF 1 <= k THEN k - 1 + 1 ELSE 0
      /\ \A i \in 1..(k - 1 + 1) : SubSeq(text, 1, k)[i] = text[1 + i - 1]
  BY <1>2, <1>3, SubSeqProperties
<1> QED
  BY <1>1, <1>4, <1>5

(* A printed line is two fragments, printed behind what is there.          *)
LEMMA SayStep ==
  ASSUME NEW S, NEW text \in Seq(S), NEW kind, NEW n,
         \A p \in {1, 2} : [kind |-> kind, n |-> n, part |-> p] \in S
  PROVE  text \o Line(kind, n) \in Seq(S)
<1>1. Line(kind, n) \in Seq(S)
  BY DEF Line
<1> QED
  BY <1>1, ConcatProperties

-----------------------------------------------------------------------------
(* Only indications carry a number, and theirs is not 0.                   *)
Numbered == {f \in Fragments : f.kind = "ind" => f.n \in 1..IndMax}

TypeInv ==
  /\ TypeOK
  /\ out \in Seq(Numbered) /\ buf \in Seq(Numbered)

(* The inductive invariant of the types.                                   *)
THEOREM TypeHolds == Spec => []TypeInv
<1> USE BoundsAssumption
<1>0. \A kind \in {"complete", "failed", "unimplemented", "disconnected", "other"} :
        \A p \in {1, 2} : [kind |-> kind, n |-> 0, part |-> p] \in Numbered
  BY DEF Numbered, Fragments
<1>1. Init => TypeInv
  BY DEF Init, TypeInv, TypeOK, Linked
<1>2. TypeInv /\ [Next]_vars => TypeInv'
  <2> SUFFICES ASSUME TypeInv, [Next]_vars
               PROVE  TypeInv'
    OBVIOUS
  <2>0. /\ out \in Seq(Numbered) /\ buf \in Seq(Numbered)
        /\ Seq(Numbered) \subseteq Seq(Fragments)
    BY SeqMonotonic DEF TypeInv, Numbered
  <2>1. CASE ReadChunk
    <3>1. PICK k \in 1..Len(out) :
            /\ buf' = buf \o SubSeq(out, 1, k)
            /\ out' = SubSeq(out, k + 1, Len(out))
            /\ alive' = (alive /\ ~Alarms(SubSeq(out, 1, k)))
      BY <2>1 DEF ReadChunk
    <3>2. SubSeq(out, 1, k) \in Seq(Numbered) /\ out' \in Seq(Numbered)
      BY <2>0, <3>1, CutStep
    <3>3. buf' \in Seq(Numbered)
      BY <2>0, <3>1, <3>2, ConcatProperties
    <3>4. alive' \in BOOLEAN
      BY <3>1
    <3> QED
      BY <2>0, <2>1, <3>2, <3>3, <3>4 DEF ReadChunk, TypeInv, TypeOK
  <2>2. CASE ReadEnds \/ PumpEnds
    BY <2>2 DEF ReadEnds, PumpEnds, PumpReturns, Goes, TypeInv, TypeOK, clientVars,
                transportVars
  <2>3. CASE Discovered \/ LooksAgain
    BY <2>3 DEF Discovered, LooksAgain, Goes, TypeInv, TypeOK, clientVars, transportVars
  <2>4. CASE GivesUp \/ Close
    <3>1. << >> \in Seq(Numbered) /\ << >> \in Seq(Fragments)
      OBVIOUS
    <3> QED
      BY <2>4, <3>1 DEF GivesUp, Close, CloseTransport, Goes, TypeInv, TypeOK
  <2>5. CASE Register
    <3>1. out \o Line("other", 0) \in Seq(Numbered)
      BY <1>0, <2>0, SayStep
    <3>2. out' \in Seq(Numbered)
      BY <2>0, <2>5, <3>1 DEF Register, Says
    <3>3. client' \in Linked \cup {"connecting", "unlinked", "gone"}
      BY <2>5 DEF Register, TypeInv, TypeOK, Linked
    <3> QED
      BY <2>0, <2>5, <3>2, <3>3 DEF Register, Goes, TypeInv, TypeOK, transportVars
  <2>6. CASE RegisterFails \/ BeginRead \/ PumpMore \/ TimesOut
    BY <2>6 DEF RegisterFails, BeginRead, PumpMore, TimesOut, Goes, TypeInv, TypeOK,
                clientVars, transportVars
  <2>7. CASE TakeLine
    <3>1. PICK i \in 1..Len(buf) :
            /\ IF IsIndication(SubSeq(buf, 1, i))
                 THEN pc' = "idle" /\ returned' = Append(returned, buf[1].n)
                 ELSE UNCHANGED <<pc, returned>>
            /\ buf' = SubSeq(buf, i + 1, Len(buf))
      BY <2>7 DEF TakeLine
    <3>2. /\ buf' \in Seq(Numbered)
          /\ SubSeq(buf, 1, i)[1] = buf[1] /\ buf[1] \in Numbered
      <4>1. Len(buf) \in Nat /\ 1 \in 1..i /\ 1 \in 1..Len(buf) /\ i \in 0..Len(buf)
        BY <2>0, LenProperties
      <4> QED
        BY <2>0, <3>1, <4>1, CutStep, ElementOfSeq
    <3>3. returned' \in Seq(1..IndMax) /\ pc' \in {"idle", pc}
      <4>1. CASE IsIndication(SubSeq(buf, 1, i))
        <5>1. buf[1].n \in 1..IndMax
          BY <3>2, <4>1 DEF IsIndication, Numbered
        <5>2. returned \in Seq(1..IndMax)
          BY DEF TypeInv, TypeOK
        <5>3. Append(returned, buf[1].n) \in Seq(1..IndMax)
          BY <5>1, <5>2, AppendProperties
        <5> QED
          BY <3>1, <4>1, <5>3
      <4> QED
        BY <3>1, <4>1 DEF TypeInv, TypeOK
    <3> QED
      BY <2>0, <2>7, <3>2, <3>3 DEF TakeLine, TypeInv, TypeOK, clientVars
  <2>8. CASE Write
    <3>1. out' \in Seq(Numbered)
      BY <1>0, <2>0, <2>8, SayStep DEF Write, Says
    <3> QED
      BY <2>0, <2>8, <3>1 DEF Write, TypeInv, TypeOK, transportVars
  <2>9. CASE ClientPrints
    <3>1. printed' \in 1..IndMax
      BY <2>9 DEF ClientPrints, TypeInv, TypeOK
    <3>2. \A p \in {1, 2} : [kind |-> "ind", n |-> printed', part |-> p] \in Numbered
      BY <3>1 DEF Numbered, Fragments
    <3>3. out' \in Seq(Numbered)
      BY <2>0, <2>9, <3>2, SayStep DEF ClientPrints
    <3> QED
      BY <2>0, <2>9, <3>1, <3>3 DEF ClientPrints, TypeInv, TypeOK, transportVars
  <2>10. CASE ClientConnects \/ ClientExits \/ ClientIsKilled
    BY <2>10 DEF ClientConnects, ClientExits, ClientIsKilled, Client, Linked, TypeInv,
                 TypeOK, transportVars
  <2>11. CASE ClientRefused \/ ClientDiscovers \/ ClientFails \/ LinkDrops
    <3>1. out' \in Seq(Numbered)
      <4>1. \E kind \in {"complete", "failed", "unimplemented", "disconnected", "other"} :
              Says(kind)
        BY <2>11 DEF ClientRefused, ClientDiscovers, ClientFails, LinkDrops
      <4> QED
        BY <1>0, <2>0, <4>1, SayStep DEF Says
    <3>2. /\ client' \in Linked \cup {"connecting", "unlinked", "gone"}
          /\ UNCHANGED <<printed, echoes, transportVars, pc, returned>>
      BY <2>11 DEF ClientRefused, ClientDiscovers, ClientFails, LinkDrops, Client, Linked
    <3> QED
      BY <2>0, <3>1, <3>2 DEF TypeInv, TypeOK, transportVars
  <2>12. CASE UNCHANGED vars
    BY <2>12 DEF vars, TypeInv, TypeOK, clientVars, transportVars
  <2> QED
    BY <2>1, <2>2, <2>3, <2>4, <2>5, <2>6, <2>7, <2>8, <2>9, <2>10, <2>11, <2>12 DEF Next
<1> QED
  BY <1>1, <1>2, PTL DEF Spec

(* Every variable of the transport keeps its type: read_indication only    *)
(* ever returns the value of an indication that was printed.               *)
THEOREM TypeCorrect == Spec => []TypeOK
<1>1. TypeInv => TypeOK
  BY DEF TypeInv
<1> QED
  BY <1>1, TypeHolds, PTL

-----------------------------------------------------------------------------
(* Why the flag can be trusted: only a client that has lost its link, or   *)
(* has ended, has an alarm in its text, and only an alarm or the end of    *)
(* the text lowers the flag before close.                                  *)
Lost == {"unlinked", "gone"}
Calm == {f \in Fragments : f.kind \notin {"disconnected", "unimplemented"}}

NoLinkInv ==
  /\ client \notin Lost => alive /\ out \in Seq(Calm)
  /\ RaisedHoldsNoLink

(* No constructor that raises leaves a client that holds the camera's one  *)
(* connection or is about to take it: not at the deadline, not after a     *)
(* failed discovery, and not on the path out of register-notify, which     *)
(* closes nothing (BtgattTransport.__init__).                              *)
THEOREM RaisedIsHarmless == Spec => []RaisedHoldsNoLink
<1> USE DEF Lost
<1>0. \A kind \in {"complete", "failed", "other"} :
        \A p \in {1, 2} : [kind |-> kind, n |-> 0, part |-> p] \in Calm
  BY BoundsAssumption DEF Calm, Fragments
<1>1. Init => NoLinkInv
  BY DEF Init, NoLinkInv, RaisedHoldsNoLink
<1>2. TypeOK /\ NoLinkInv /\ [Next]_vars => NoLinkInv'
  <2> SUFFICES ASSUME TypeOK, NoLinkInv, [Next]_vars
               PROVE  NoLinkInv'
    OBVIOUS
  <2> USE DEF NoLinkInv, RaisedHoldsNoLink
  <2>1. CASE ReadChunk
    <3>1. PICK k \in 1..Len(out) :
            /\ out' = SubSeq(out, k + 1, Len(out))
            /\ alive' = (alive /\ ~Alarms(SubSeq(out, 1, k)))
      BY <2>1 DEF ReadChunk
    <3>2. ASSUME client \notin Lost
          PROVE  out' \in Seq(Calm) /\ ~Alarms(SubSeq(out, 1, k))
      <4>1. SubSeq(out, 1, k) \in Seq(Calm) /\ out' \in Seq(Calm)
        BY <3>1, <3>2, CutStep
      <4>2. \A i \in 1..Len(SubSeq(out, 1, k)) : SubSeq(out, 1, k)[i] \in Calm
        BY <4>1, ElementOfSeq
      <4>3. \A i \in 1..(Len(SubSeq(out, 1, k)) - 1) : i \in 1..Len(SubSeq(out, 1, k))
        BY <4>1, LenProperties
      <4> QED
        BY <4>1, <4>2, <4>3 DEF Alarms, Shows, Calm
    <3> QED
      BY <2>1, <3>1, <3>2 DEF ReadChunk
  <2>2. CASE ReadEnds \/ PumpEnds
    BY <2>2 DEF ReadEnds, PumpEnds, PumpReturns, Goes, clientVars, transportVars
  <2>3. CASE Discovered \/ LooksAgain \/ BeginRead \/ PumpMore \/ TimesOut \/ RegisterFails
    BY <2>3 DEF Discovered, LooksAgain, BeginRead, PumpMore, TimesOut, RegisterFails,
                Goes, clientVars, transportVars
  <2>4. CASE GivesUp \/ Close
    BY <2>4 DEF GivesUp, Close, CloseTransport, Goes
  <2>5. CASE Register \/ Write
    <3>1. client \notin Lost => out' \in Seq(Calm)
      BY <1>0, <2>5, SayStep DEF Register, Write, Says
    <3>2. alive' = alive /\ pc' # "raised" /\ (client \in Lost => client' = client)
      BY <2>5 DEF Register, Write, Goes, transportVars
    <3> QED
      BY <3>1, <3>2
  <2>6. CASE TakeLine
    BY <2>6 DEF TakeLine, clientVars
  <2>7. CASE ClientPrints
    <3>1. \A p \in {1, 2} : [kind |-> "ind", n |-> printed', part |-> p] \in Calm
      <4>1. printed' \in 0..IndMax
        BY <2>7, BoundsAssumption DEF ClientPrints, TypeOK
      <4> QED
        BY <4>1 DEF Calm, Fragments
    <3>2. client \notin Lost => out' \in Seq(Calm)
      BY <2>7, <3>1, SayStep DEF ClientPrints
    <3> QED
      BY <2>7, <3>2 DEF ClientPrints, transportVars
  <2>8. CASE ClientDiscovers \/ ClientFails
    <3>1. client \notin Lost => out' \in Seq(Calm)
      BY <1>0, <2>8, SayStep DEF ClientDiscovers, ClientFails, Says
    <3> QED
      BY <2>8, <3>1 DEF ClientDiscovers, ClientFails, Client, transportVars
  <2>9. CASE ClientConnects
    BY <2>9 DEF ClientConnects, Client, transportVars
  <2>10. CASE ClientRefused \/ LinkDrops \/ ClientExits \/ ClientIsKilled
    BY <2>10 DEF ClientRefused, LinkDrops, ClientExits, ClientIsKilled, Client,
                 transportVars
  <2>11. CASE UNCHANGED vars
    BY <2>11 DEF vars, clientVars, transportVars
  <2> QED
    BY <2>1, <2>2, <2>3, <2>4, <2>5, <2>6, <2>7, <2>8, <2>9, <2>10, <2>11 DEF Next
<1>3. NoLinkInv => RaisedHoldsNoLink
  BY DEF NoLinkInv
<1> QED
  BY <1>1, <1>2, <1>3, TypeCorrect, PTL DEF Spec

-----------------------------------------------------------------------------
(* Why nothing is lost: what has been printed and not yet taken is a row   *)
(* of m whole lines, whose indications carry the numbers after r up to p,  *)
(* in order; a read moves the border between buf and the terminal, which   *)
(* cuts no line.                                                           *)
Lines(text, m) ==
  /\ text \in Seq(Fragments) /\ m \in Nat /\ Len(text) = 2 * m
  /\ \A k \in 1..m : /\ text[2 * k].part = 2
                     /\ text[2 * k - 1] = [text[2 * k] EXCEPT !.part = 1]

Ind(text, k) == text[2 * k].kind = "ind"

Carries(text, m, r, p) ==
  /\ \A k \in 1..m : Ind(text, k) => text[2 * k].n \in (r + 1)..p
  /\ \A v \in (r + 1)..p : \E k \in 1..m : Ind(text, k) /\ text[2 * k].n = v
  /\ \A k, l \in 1..m : k < l /\ Ind(text, k) /\ Ind(text, l) => text[2 * k].n < text[2 * l].n

Text == buf \o out

TextInv ==
  open =>
    /\ Len(returned) <= printed
    /\ \A i \in 1..Len(returned) : returned[i] = i
    /\ \E m \in Nat : Lines(Text, m) /\ Carries(Text, m, Len(returned), printed)

Joins(u, s, t) == u = s \o t

LEMMA Joined ==
  ASSUME NEW S, NEW s \in Seq(S), NEW t \in Seq(S), NEW u, Joins(u, s, t)
  PROVE  /\ u \in Seq(S) /\ Len(u) = Len(s) + Len(t)
         /\ \A i \in 1..(Len(s) + Len(t)) : u[i] = IF i <= Len(s) THEN s[i] ELSE t[i - Len(s)]
<1>1. u \in Seq(S) /\ Len(u) = Len(s) + Len(t)
  BY ConcatProperties DEF Joins
<1>2. ASSUME NEW i \in 1..(Len(s) + Len(t))
      PROVE  u[i] = IF i <= Len(s) THEN s[i] ELSE t[i - Len(s)]
  BY <1>2, ConcatProperties DEF Joins
<1> QED
  BY <1>1, <1>2

(* A line printed behind the others.                                       *)
LEMMA LinePrinted ==
  ASSUME NEW text, NEW m, Lines(text, m), NEW kind, NEW n,
         \A q \in {1, 2} : [kind |-> kind, n |-> n, part |-> q] \in Fragments,
         NEW new, Joins(new, text, Line(kind, n))
  PROVE  /\ Lines(new, m + 1)
         /\ \A k \in 1..m : new[2 * k] = text[2 * k]
         /\ new[2 * (m + 1)] = [kind |-> kind, n |-> n, part |-> 2]
<1> DEFINE line == Line(kind, n)
<1>1. /\ text \in Seq(Fragments) /\ m \in Nat /\ Len(text) = 2 * m
      /\ \A k \in 1..m : /\ text[2 * k].part = 2
                         /\ text[2 * k - 1] = [text[2 * k] EXCEPT !.part = 1]
  BY DEF Lines
<1>2. /\ line \in Seq(Fragments) /\ Len(line) = 2
      /\ line[1] = [kind |-> kind, n |-> n, part |-> 1]
      /\ line[2] = [kind |-> kind, n |-> n, part |-> 2]
  BY DEF Line
<1>0. Joins(new, text, line)
  OBVIOUS
<1> HIDE DEF line
<1>3. /\ new \in Seq(Fragments) /\ Len(new) = Len(text) + Len(line)
      /\ \A i \in 1..(Len(text) + Len(line)) :
           new[i] = IF i <= Len(text) THEN text[i] ELSE line[i - Len(text)]
  <2>1. text \in Seq(Fragments) /\ line \in Seq(Fragments)
    BY <1>1, <1>2
  <2> QED
    BY <1>0, <2>1, Joined
<1>4. Len(new) = 2 * (m + 1) /\ m + 1 \in Nat
  BY <1>1, <1>2, <1>3
<1>5. ASSUME NEW k \in 1..m PROVE new[2 * k] = text[2 * k] /\ new[2 * k - 1] = text[2 * k - 1]
  <2>1. /\ 2 * k \in 1..(Len(text) + Len(line)) /\ 2 * k - 1 \in 1..(Len(text) + Len(line))
        /\ 2 * k <= Len(text) /\ 2 * k - 1 <= Len(text)
    <3>1. m \in Nat /\ Len(text) = 2 * m /\ Len(line) = 2
      BY <1>1, <1>2
    <3> QED
      BY <3>1
  <2> QED
    BY <1>3, <2>1
<1>6. new[2 * (m + 1)] = line[2] /\ new[2 * (m + 1) - 1] = line[1]
  <2>1. /\ 2 * (m + 1) \in 1..(Len(text) + Len(line)) /\ 2 * (m + 1) - 1 \in 1..(Len(text) + Len(line))
        /\ ~(2 * (m + 1) <= Len(text)) /\ ~(2 * (m + 1) - 1 <= Len(text))
        /\ 2 * (m + 1) - Len(text) = 2 /\ 2 * (m + 1) - 1 - Len(text) = 1
    <3>1. m \in Nat /\ Len(text) = 2 * m /\ Len(line) = 2
      BY <1>1, <1>2
    <3> QED
      BY <3>1
  <2> QED
    BY <1>3, <2>1
<1>7. \A k \in 1..(m + 1) : k \in 1..m \/ k = m + 1
  BY <1>1
<1>8. ASSUME NEW k \in 1..(m + 1)
      PROVE  new[2 * k].part = 2 /\ new[2 * k - 1] = [new[2 * k] EXCEPT !.part = 1]
  <2>1. CASE k \in 1..m
    BY <1>1, <1>5, <2>1
  <2>2. CASE k = m + 1
    <3>1. /\ new[2 * k] = [kind |-> kind, n |-> n, part |-> 2]
          /\ new[2 * k - 1] = [kind |-> kind, n |-> n, part |-> 1]
      BY <1>2, <1>6, <2>2
    <3> QED
      BY <3>1
  <2> QED
    BY <1>7, <2>1, <2>2
<1>9. Lines(new, m + 1)
  BY <1>3, <1>4, <1>8 DEF Lines
<1> QED
  BY <1>2, <1>5, <1>6, <1>9

LEMMA OtherPrinted ==
  ASSUME NEW text, NEW m, Lines(text, m), NEW r, NEW p, Carries(text, m, r, p),
         NEW kind \in {"complete", "failed", "unimplemented", "disconnected", "other"},
         NEW new, Joins(new, text, Line(kind, 0))
  PROVE  Lines(new, m + 1) /\ Carries(new, m + 1, r, p)
<1>1. \A q \in {1, 2} : [kind |-> kind, n |-> 0, part |-> q] \in Fragments
  BY BoundsAssumption DEF Fragments
<1>2. /\ Lines(new, m + 1)
      /\ \A k \in 1..m : new[2 * k] = text[2 * k]
      /\ new[2 * (m + 1)] = [kind |-> kind, n |-> 0, part |-> 2]
  BY <1>1, LinePrinted
<1>3. m \in Nat
  BY DEF Lines
<1>4. /\ \A k \in 1..(m + 1) : k \in 1..m \/ k = m + 1
      /\ \A k \in 1..m : k \in 1..(m + 1)
  BY <1>3
<1>5. ASSUME NEW k \in 1..(m + 1), Ind(new, k) PROVE k \in 1..m /\ Ind(text, k)
  <2>1. CASE k \in 1..m
    BY <1>2, <1>5, <2>1 DEF Ind
  <2>2. CASE k = m + 1
    <3>1. new[2 * k].kind = kind
      BY <1>2, <2>2
    <3> QED
      BY <1>5, <3>1 DEF Ind
  <2> QED
    BY <1>4, <2>1, <2>2
<1>6. \A k \in 1..m : Ind(text, k) => Ind(new, k)
  BY <1>2 DEF Ind
<1>7. Carries(new, m + 1, r, p)
  BY <1>2, <1>4, <1>5, <1>6 DEF Carries
<1> QED
  BY <1>2, <1>7

LEMMA IndicationPrinted ==
  ASSUME NEW text, NEW m, Lines(text, m), NEW r \in Nat, NEW p \in Nat, r <= p, p < IndMax,
         Carries(text, m, r, p), NEW new, Joins(new, text, Line("ind", p + 1))
  PROVE  Lines(new, m + 1) /\ Carries(new, m + 1, r, p + 1)
<1>1. \A q \in {1, 2} : [kind |-> "ind", n |-> p + 1, part |-> q] \in Fragments
  BY BoundsAssumption DEF Fragments
<1>2. /\ Lines(new, m + 1)
      /\ \A k \in 1..m : new[2 * k] = text[2 * k]
      /\ new[2 * (m + 1)] = [kind |-> "ind", n |-> p + 1, part |-> 2]
  BY <1>1, LinePrinted
<1>3. m \in Nat
  BY DEF Lines
<1>4. /\ \A k \in 1..(m + 1) : k \in 1..m \/ k = m + 1
      /\ \A k \in 1..m : k \in 1..(m + 1) /\ ~(m + 1 < k)
      /\ m + 1 \in 1..(m + 1) /\ ~(m + 1 < m + 1)
      /\ \A v \in (r + 1)..(p + 1) : v \in (r + 1)..p \/ v = p + 1
      /\ \A v \in (r + 1)..p : v \in (r + 1)..(p + 1) /\ v < p + 1
      /\ p + 1 \in (r + 1)..(p + 1)
  BY <1>3
<1>5. /\ \A k \in 1..m : Ind(new, k) <=> Ind(text, k)
      /\ Ind(new, m + 1) /\ new[2 * (m + 1)].n = p + 1
  <2>1. new[2 * (m + 1)].kind = "ind" /\ new[2 * (m + 1)].n = p + 1
    BY <1>2
  <2> QED
    BY <1>2, <2>1 DEF Ind
<1>6. ASSUME NEW k \in 1..(m + 1), Ind(new, k) PROVE new[2 * k].n \in (r + 1)..(p + 1)
  BY <1>2, <1>4, <1>5, <1>6 DEF Carries
<1>7. ASSUME NEW v \in (r + 1)..(p + 1)
      PROVE  \E k \in 1..(m + 1) : Ind(new, k) /\ new[2 * k].n = v
  BY <1>2, <1>4, <1>5, <1>7 DEF Carries
<1>8. ASSUME NEW k \in 1..(m + 1), NEW l \in 1..(m + 1), k < l, Ind(new, k), Ind(new, l)
      PROVE  new[2 * k].n < new[2 * l].n
  <2>1. k \in 1..m
    BY <1>4, <1>8
  <2>2. CASE l \in 1..m
    BY <1>2, <1>5, <1>8, <2>1, <2>2 DEF Carries
  <2>3. CASE l = m + 1
    <3>1. new[2 * k].n \in (r + 1)..p
      BY <1>2, <1>5, <1>8, <2>1 DEF Carries
    <3> QED
      BY <1>4, <1>5, <2>3, <3>1
  <2> QED
    BY <1>4, <2>2, <2>3
<1>9. Carries(new, m + 1, r, p + 1)
  BY <1>6, <1>7, <1>8 DEF Carries
<1> QED
  BY <1>2, <1>9

(* The first line is taken.                                                *)
LEMMA LineTaken ==
  ASSUME NEW text, NEW m, Lines(text, m), m # 0, NEW r \in Nat, NEW p \in Nat,
         Carries(text, m, r, p),
         NEW new \in Seq(Fragments), Len(new) = Len(text) - 2,
         \A i \in 1..Len(new) : new[i] = text[i + 2]
  PROVE  /\ Lines(new, m - 1)
         /\ Ind(text, 1) => text[2].n = r + 1 /\ r < p /\ Carries(new, m - 1, r + 1, p)
         /\ ~Ind(text, 1) => Carries(new, m - 1, r, p)
<1>1. m \in Nat /\ Len(text) = 2 * m /\ 2 * 1 = 2
  BY DEF Lines
<1>2. ASSUME NEW k \in 1..(m - 1)
      PROVE  /\ k + 1 \in 1..m /\ new[2 * k] = text[2 * (k + 1)]
             /\ new[2 * k - 1] = text[2 * (k + 1) - 1] /\ 1 < k + 1 /\ k + 1 # 1
  <2>1. /\ k + 1 \in 1..m /\ 2 * k \in 1..Len(new) /\ 2 * k - 1 \in 1..Len(new)
        /\ 2 * k + 2 = 2 * (k + 1) /\ 2 * k - 1 + 2 = 2 * (k + 1) - 1
        /\ 1 < k + 1 /\ k + 1 # 1
    BY <1>1
  <2> QED
    BY <2>1
<1>3. Lines(new, m - 1)
  <2>1. m - 1 \in Nat /\ Len(new) = 2 * (m - 1)
    BY <1>1
  <2>2. \A k \in 1..(m - 1) : /\ new[2 * k].part = 2
                              /\ new[2 * k - 1] = [new[2 * k] EXCEPT !.part = 1]
    BY <1>2 DEF Lines
  <2> QED
    BY <2>1, <2>2 DEF Lines
<1>4. /\ \A k \in 1..m : k = 1 \/ (1 < k /\ k - 1 \in 1..(m - 1) /\ (k - 1) + 1 = k)
      /\ 1 \in 1..m
      /\ \A k, l \in 1..(m - 1) : k < l => k + 1 < l + 1
  BY <1>1
<1>5. \A k \in 1..(m - 1) : (Ind(new, k) <=> Ind(text, k + 1)) /\ new[2 * k].n = text[2 * (k + 1)].n
  BY <1>2 DEF Ind
<1>6. \A k, l \in 1..(m - 1) : k < l /\ Ind(new, k) /\ Ind(new, l) => new[2 * k].n < new[2 * l].n
  BY <1>2, <1>4, <1>5 DEF Carries
<1>7. \A k \in 1..m : k # 1 => \E l \in 1..(m - 1) : k = l + 1
  BY <1>4
<1>8. ASSUME Ind(text, 1)
      PROVE  text[2].n = r + 1 /\ r < p /\ Carries(new, m - 1, r + 1, p)
  <2>1. text[2].n \in (r + 1)..p
    BY <1>1, <1>4, <1>8 DEF Carries
  <2>2. r + 1 \in (r + 1)..p /\ r < p
    BY <2>1
  <2>3. PICK k \in 1..m : Ind(text, k) /\ text[2 * k].n = r + 1
    BY <2>2 DEF Carries
  <2>4. \A l \in 1..m : l # 1 /\ Ind(text, l) => text[2].n < text[2 * l].n
    BY <1>1, <1>4, <1>8 DEF Carries
  <2>5. text[2].n = r + 1
    <3>1. CASE k = 1
      BY <1>1, <2>3, <3>1
    <3>2. CASE k # 1
      <4>1. text[2].n < r + 1
        BY <2>3, <2>4, <3>2
      <4> QED
        BY <2>1, <4>1
    <3> QED
      BY <3>1, <3>2
  <2>6. ASSUME NEW l \in 1..(m - 1), Ind(new, l) PROVE new[2 * l].n \in (r + 1 + 1)..p
    <3>1. Ind(text, l + 1) /\ l + 1 \in 1..m /\ l + 1 # 1 /\ new[2 * l].n = text[2 * (l + 1)].n
      BY <1>2, <1>5, <2>6
    <3>2. text[2 * (l + 1)].n \in (r + 1)..p /\ r + 1 < text[2 * (l + 1)].n
      BY <2>4, <2>5, <3>1 DEF Carries
    <3> QED
      BY <3>1, <3>2
  <2>7. ASSUME NEW v \in (r + 1 + 1)..p
        PROVE  \E l \in 1..(m - 1) : Ind(new, l) /\ new[2 * l].n = v
    <3>1. v \in (r + 1)..p /\ v # r + 1
      BY <2>7
    <3>2. PICK l \in 1..m : Ind(text, l) /\ text[2 * l].n = v
      BY <3>1 DEF Carries
    <3>3. l # 1
      BY <1>1, <2>5, <3>1, <3>2
    <3> QED
      BY <1>5, <1>7, <3>2, <3>3
  <2> QED
    BY <1>6, <2>2, <2>5, <2>6, <2>7 DEF Carries
<1>9. ASSUME ~Ind(text, 1) PROVE Carries(new, m - 1, r, p)
  <2>1. \A l \in 1..(m - 1) : Ind(new, l) => new[2 * l].n \in (r + 1)..p
    BY <1>2, <1>5 DEF Carries
  <2>2. \A v \in (r + 1)..p : \E l \in 1..(m - 1) : Ind(new, l) /\ new[2 * l].n = v
    <3>1. ASSUME NEW v \in (r + 1)..p PROVE \E l \in 1..(m - 1) : Ind(new, l) /\ new[2 * l].n = v
      <4>1. PICK l \in 1..m : Ind(text, l) /\ text[2 * l].n = v
        BY DEF Carries
      <4>2. l # 1
        BY <1>9, <4>1
      <4> QED
        BY <1>5, <1>7, <4>1, <4>2
    <3> QED
      BY <3>1
  <2> QED
    BY <1>6, <2>1, <2>2 DEF Carries
<1> QED
  BY <1>3, <1>8, <1>9

LEMMA TextOf ==
  ASSUME TypeOK
  PROVE  /\ Text \in Seq(Fragments) /\ Len(Text) = Len(buf) + Len(out)
         /\ Len(buf) \in Nat /\ Len(out) \in Nat
         /\ \A i \in 1..(Len(buf) + Len(out)) :
              Text[i] = IF i <= Len(buf) THEN buf[i] ELSE out[i - Len(buf)]
<1>1. Joins(Text, buf, out)
  BY DEF Joins, Text
<1> QED
  BY <1>1, Joined, LenProperties DEF TypeOK

(* A read moves the border in the text and nothing else.                   *)
Cuts(u, s, i, j) == u = SubSeq(s, i, j)

LEMMA ReadKeepsText ==
  ASSUME TypeOK, TypeOK', NEW k \in 1..Len(out), Joins(buf', buf, SubSeq(out, 1, k)),
         Cuts(out', out, k + 1, Len(out))
  PROVE  Text' = Text
<1>1. /\ Text \in Seq(Fragments) /\ Len(Text) = Len(buf) + Len(out)
      /\ Len(buf) \in Nat /\ Len(out) \in Nat
      /\ \A i \in 1..(Len(buf) + Len(out)) :
           Text[i] = IF i <= Len(buf) THEN buf[i] ELSE out[i - Len(buf)]
  BY TextOf
<1>2. /\ Text' \in Seq(Fragments) /\ Len(Text') = Len(buf') + Len(out')
      /\ \A i \in 1..(Len(buf') + Len(out')) :
           Text'[i] = IF i <= Len(buf') THEN buf'[i] ELSE out'[i - Len(buf')]
  <2>1. Joins(Text', buf', out')
    BY DEF Joins, Text
  <2>2. buf' \in Seq(Fragments) /\ out' \in Seq(Fragments)
    BY DEF TypeOK
  <2> QED
    BY <2>1, <2>2, Joined
<1>3. k \in Int /\ k + 1 \in Int /\ Len(out) \in Int /\ 1 \in Int /\ out \in Seq(Fragments)
  BY <1>1 DEF TypeOK
<1>4. /\ \A i \in 1..k : out[i] \in Fragments
      /\ \A i \in (k + 1)..Len(out) : out[i] \in Fragments
  <2>1. \A i \in 1..Len(out) : out[i] \in Fragments
    BY <1>3, ElementOfSeq
  <2> QED
    BY <1>1, <2>1
<1> DEFINE chunk == SubSeq(out, 1, k)
<1>5. /\ chunk \in Seq(Fragments) /\ Len(chunk) = k
      /\ \A i \in 1..k : chunk[i] = out[i]
  <2>1. k \in 0..Len(out)
    BY <1>1
  <2> QED
    BY <1>3, <2>1, CutStep
<1>6. /\ Len(out') = Len(out) - k
      /\ \A i \in 1..(Len(out) - k) : out'[i] = out[k + i]
  <2>1. /\ Len(out') = IF k + 1 <= Len(out) THEN Len(out) - (k + 1) + 1 ELSE 0
        /\ \A i \in 1..(Len(out) - (k + 1) + 1) : out'[i] = out[(k + 1) + i - 1]
    BY <1>3, <1>4, SubSeqProperties DEF Cuts
  <2> QED
    BY <1>1, <2>1
<1>7. Joins(buf', buf, chunk)
  OBVIOUS
<1> HIDE DEF chunk
<1>8. /\ Len(buf') = Len(buf) + k
      /\ \A i \in 1..(Len(buf) + k) : buf'[i] = IF i <= Len(buf) THEN buf[i] ELSE chunk[i - Len(buf)]
  <2>1. buf \in Seq(Fragments) /\ chunk \in Seq(Fragments)
    BY <1>5 DEF TypeOK
  <2>2. /\ Len(buf') = Len(buf) + Len(chunk)
        /\ \A i \in 1..(Len(buf) + Len(chunk)) :
             buf'[i] = IF i <= Len(buf) THEN buf[i] ELSE chunk[i - Len(buf)]
    BY <1>7, <2>1, Joined
  <2> QED
    BY <1>5, <2>2
<1>9. Len(Text') = Len(Text)
  BY <1>1, <1>2, <1>6, <1>8
<1>10. ASSUME NEW i \in 1..Len(Text') PROVE Text'[i] = Text[i]
  <2>1. i \in 1..(Len(buf) + Len(out)) /\ i \in 1..(Len(buf') + Len(out'))
    BY <1>1, <1>2, <1>9, <1>10
  <2>2. CASE i <= Len(buf)
    <3>1. i <= Len(buf') /\ i \in 1..(Len(buf) + k)
      BY <1>1, <1>8, <2>1, <2>2
    <3> QED
      BY <1>1, <1>2, <1>8, <2>1, <2>2, <3>1
  <2>3. CASE ~(i <= Len(buf)) /\ i <= Len(buf')
    <3>1. i \in 1..(Len(buf) + k) /\ i - Len(buf) \in 1..k
      BY <1>1, <1>8, <2>1, <2>3
    <3>2. Text'[i] = chunk[i - Len(buf)] /\ Text[i] = out[i - Len(buf)]
      BY <1>1, <1>2, <1>8, <2>1, <2>3, <3>1
    <3> QED
      BY <1>5, <3>1, <3>2
  <2>4. CASE ~(i <= Len(buf'))
    <3>1. /\ ~(i <= Len(buf)) /\ i - Len(buf') \in 1..(Len(out) - k)
          /\ k + (i - Len(buf')) = i - Len(buf)
      BY <1>1, <1>6, <1>8, <2>1, <2>4
    <3>2. Text'[i] = out'[i - Len(buf')] /\ Text[i] = out[i - Len(buf)]
      BY <1>1, <1>2, <2>1, <2>4, <3>1
    <3> QED
      BY <1>6, <3>1, <3>2
  <2> QED
    BY <2>2, <2>3, <2>4
<1> QED
  BY <1>1, <1>2, <1>9, <1>10, SeqEqual

LEMMA SayingAddsALine ==
  ASSUME TypeOK, NEW line \in Seq(Fragments), buf' = buf, out' = out \o line
  PROVE  Joins(Text', Text, line)
<1>1. buf \in Seq(Fragments) /\ out \in Seq(Fragments)
  BY DEF TypeOK
<1>2. buf \o (out \o line) = (buf \o out) \o line
  BY <1>1, ConcatAssociative
<1> QED
  BY <1>2 DEF Joins, Text

LEMMA TakingShiftsText ==
  ASSUME TypeOK, TypeOK', 2 <= Len(buf), Cuts(buf', buf, 3, Len(buf)), out' = out
  PROVE  /\ Len(Text') = Len(Text) - 2
         /\ \A i \in 1..Len(Text') : Text'[i] = Text[i + 2]
<1>1. /\ Text \in Seq(Fragments) /\ Len(Text) = Len(buf) + Len(out)
      /\ Len(buf) \in Nat /\ Len(out) \in Nat
      /\ \A i \in 1..(Len(buf) + Len(out)) :
           Text[i] = IF i <= Len(buf) THEN buf[i] ELSE out[i - Len(buf)]
  BY TextOf
<1>2. /\ Len(Text') = Len(buf') + Len(out)
      /\ \A i \in 1..(Len(buf') + Len(out)) :
           Text'[i] = IF i <= Len(buf') THEN buf'[i] ELSE out[i - Len(buf')]
  <2>1. Joins(Text', buf', out')
    BY DEF Joins, Text
  <2>2. buf' \in Seq(Fragments) /\ out' \in Seq(Fragments)
    BY DEF TypeOK
  <2> QED
    BY <2>1, <2>2, Joined
<1>3. /\ Len(buf') = Len(buf) - 2
      /\ \A i \in 1..(Len(buf) - 2) : buf'[i] = buf[i + 2]
  <2>1. \A i \in 3..Len(buf) : buf[i] \in Fragments
    <3>1. \A i \in 1..Len(buf) : buf[i] \in Fragments
      BY ElementOfSeq DEF TypeOK
    <3> QED
      BY <1>1, <3>1
  <2>2. buf \in Seq(Fragments) /\ 3 \in Int /\ Len(buf) \in Int
    BY <1>1 DEF TypeOK
  <2>3. /\ Len(buf') = IF 3 <= Len(buf) THEN Len(buf) - 3 + 1 ELSE 0
        /\ \A i \in 1..(Len(buf) - 3 + 1) : buf'[i] = buf[3 + i - 1]
    BY <2>1, <2>2, SubSeqProperties DEF Cuts
  <2>4. \A i \in 1..(Len(buf) - 2) : i \in 1..(Len(buf) - 3 + 1) /\ 3 + i - 1 = i + 2
    BY <1>1
  <2>5. \A i \in 1..(Len(buf) - 2) : buf'[i] = buf[i + 2]
    BY <2>3, <2>4
  <2>6. Len(buf') = Len(buf) - 2
    <3>1. CASE 3 <= Len(buf)
      BY <1>1, <2>3, <3>1
    <3>2. CASE ~(3 <= Len(buf))
      <4>1. Len(buf') = 0
        BY <2>3, <3>2
      <4>2. Len(buf) = 2
        <5>1. \A n \in Nat : 2 <= n /\ ~(3 <= n) => n = 2
          OBVIOUS
        <5> QED
          BY <1>1, <3>2, <5>1
      <4> QED
        BY <4>1, <4>2
    <3> QED
      BY <3>1, <3>2
  <2> QED
    BY <2>5, <2>6
<1>4. ASSUME NEW i \in 1..Len(Text') PROVE Text'[i] = Text[i + 2]
  <2>1. i \in 1..(Len(buf') + Len(out)) /\ i + 2 \in 1..(Len(buf) + Len(out))
    BY <1>1, <1>2, <1>3, <1>4
  <2>2. CASE i <= Len(buf')
    <3>1. i + 2 <= Len(buf) /\ i \in 1..(Len(buf) - 2)
      BY <1>1, <1>3, <2>1, <2>2
    <3> QED
      BY <1>1, <1>2, <1>3, <2>1, <2>2, <3>1
  <2>3. CASE ~(i <= Len(buf'))
    <3>1. ~(i + 2 <= Len(buf)) /\ i + 2 - Len(buf) = i - Len(buf')
      <4>1. i \in Int /\ Len(buf) \in Nat /\ Len(buf') = Len(buf) - 2
        BY <1>1, <1>3, <2>1
      <4> QED
        BY <2>3, <4>1
    <3> QED
      BY <1>1, <1>2, <2>1, <2>3, <3>1
  <2> QED
    BY <2>2, <2>3
<1> QED
  BY <1>1, <1>2, <1>3, <1>4

(* What a step does to the text.                                           *)
Kinds == {"complete", "failed", "unimplemented", "disconnected", "other"}

LEMMA TextGrows ==
  ASSUME TypeInv, TextInv, NEW kind \in Kinds, buf' = buf, Says(kind),
         UNCHANGED <<open, returned, printed>>
  PROVE  TextInv'
<1> SUFFICES ASSUME open
             PROVE  /\ Len(returned) <= printed
                    /\ \A i \in 1..Len(returned) : returned[i] = i
                    /\ \E m \in Nat : Lines(Text', m) /\ Carries(Text', m, Len(returned), printed)
  BY DEF TextInv
<1>1. PICK m \in Nat : Lines(Text, m) /\ Carries(Text, m, Len(returned), printed)
  BY DEF TextInv
<1>2. Line(kind, 0) \in Seq(Fragments)
  BY BoundsAssumption DEF Line, Fragments, Kinds
<1>3. Joins(Text', Text, Line(kind, 0))
  BY <1>2, SayingAddsALine DEF TypeInv, Says
<1>4. Lines(Text', m + 1) /\ Carries(Text', m + 1, Len(returned), printed)
  BY <1>1, <1>3, OtherPrinted DEF Kinds
<1> QED
  BY <1>4 DEF TextInv

LEMMA TextNumbers ==
  ASSUME TypeInv, TextInv, ClientPrints
  PROVE  TextInv'
<1> SUFFICES ASSUME open
             PROVE  /\ Len(returned) <= printed'
                    /\ \A i \in 1..Len(returned) : returned[i] = i
                    /\ \E m \in Nat : Lines(Text', m) /\ Carries(Text', m, Len(returned), printed')
  BY DEF TextInv, ClientPrints, transportVars
<1>1. PICK m \in Nat : Lines(Text, m) /\ Carries(Text, m, Len(returned), printed)
  BY DEF TextInv
<1>2. /\ printed \in Nat /\ printed < IndMax /\ printed' = printed + 1 /\ Len(returned) \in Nat
      /\ Len(returned) <= printed
  BY LenProperties DEF ClientPrints, TypeInv, TypeOK, TextInv
<1>3. Line("ind", printed + 1) \in Seq(Fragments)
  <2>1. printed + 1 \in 0..IndMax
    BY <1>2, BoundsAssumption
  <2> QED
    BY <2>1 DEF Line, Fragments
<1>4. Joins(Text', Text, Line("ind", printed + 1))
  BY <1>2, <1>3, SayingAddsALine DEF TypeInv, ClientPrints, transportVars
<1>5. Lines(Text', m + 1) /\ Carries(Text', m + 1, Len(returned), printed + 1)
  BY <1>1, <1>2, <1>4, IndicationPrinted
<1> QED
  BY <1>2, <1>5 DEF TextInv

LEMMA TextTaken ==
  ASSUME TypeInv, TypeInv', TextInv, TakeLine
  PROVE  TextInv'
<1> SUFFICES ASSUME open PROVE (/\ Len(returned) <= printed
                                /\ \A i \in 1..Len(returned) : returned[i] = i
                                /\ \E m \in Nat : /\ Lines(Text, m)
                                                  /\ Carries(Text, m, Len(returned), printed))'
  BY DEF TextInv, TakeLine
<1>1. PICK m \in Nat : Lines(Text, m) /\ Carries(Text, m, Len(returned), printed)
  BY DEF TextInv
<1>2. /\ printed \in Nat /\ Len(returned) \in Nat /\ Len(returned) <= printed
      /\ returned \in Seq(1..IndMax) /\ printed' = printed /\ out' = out
      /\ \A i \in 1..Len(returned) : returned[i] = i
  BY LenProperties DEF TakeLine, TypeInv, TypeOK, TextInv, clientVars
<1>3. PICK i \in 1..Len(buf) :
        /\ EndsLine(i)
        /\ IF IsIndication(SubSeq(buf, 1, i))
             THEN pc' = "idle" /\ returned' = Append(returned, buf[1].n)
             ELSE UNCHANGED <<pc, returned>>
        /\ Cuts(buf', buf, i + 1, Len(buf))
  BY DEF TakeLine, Cuts
<1>4. /\ Text \in Seq(Fragments) /\ Len(Text) = 2 * m /\ Len(buf) \in Nat
      /\ \A k \in 1..Len(buf) : Text[k] = buf[k] /\ k \in 1..Len(Text)
  BY <1>1, TextOf DEF TypeInv, Lines
<1>5. m # 0 /\ 1 \in 1..m /\ 2 * 1 = 2 /\ 2 * 1 - 1 = 1 /\ 1 \in 1..Len(buf)
  BY <1>3, <1>4
<1>6. Text[2].part = 2 /\ Text[1] = [Text[2] EXCEPT !.part = 1]
  BY <1>1, <1>5 DEF Lines
<1>7. Text[2] \in Fragments
  <2>1. 2 \in 1..Len(Text)
    BY <1>4, <1>5
  <2> QED
    BY <1>4, <2>1, ElementOfSeq
<1>8. Text[1].part = 1 /\ Text[1].kind = Text[2].kind /\ Text[1].n = Text[2].n
  BY <1>6, <1>7 DEF Fragments
<1>9. i = 2
  <2>1. buf[i].part = 2 /\ \A j \in 1..(i - 1) : buf[j].part = 1
    BY <1>3 DEF EndsLine
  <2>2. i # 1
    BY <1>4, <1>5, <1>8, <2>1
  <2>3. ASSUME 2 < i PROVE FALSE
    <3>1. 2 \in 1..(i - 1) /\ 2 \in 1..Len(buf)
      BY <1>3, <1>4, <2>3
    <3> QED
      BY <1>4, <1>6, <2>1, <3>1
  <2> QED
    BY <1>4, <2>2, <2>3
<1>10. Cuts(buf', buf, 3, Len(buf)) /\ 2 <= Len(buf) /\ 2 \in 1..Len(buf) /\ 2 \in 0..Len(buf)
  BY <1>3, <1>4, <1>9
<1>11. /\ Text' \in Seq(Fragments) /\ Len(Text') = Len(Text) - 2
       /\ \A k \in 1..Len(Text') : Text'[k] = Text[k + 2]
  <2>1. Joins(Text', buf', out')
    BY DEF Joins, Text
  <2>2. buf' \in Seq(Fragments) /\ out' \in Seq(Fragments)
    BY DEF TypeInv, TypeOK
  <2>3. Text' \in Seq(Fragments)
    BY <2>1, <2>2, Joined
  <2> QED
    BY <1>2, <1>10, <2>3, TakingShiftsText DEF TypeInv
<1>12. IsIndication(SubSeq(buf, 1, i)) <=> Ind(Text, 1)
  <2>1. Len(SubSeq(buf, 1, 2)) = 2 /\ SubSeq(buf, 1, 2)[1] = buf[1]
    <3>1. buf \in Seq(Fragments) /\ 1 \in 1..2
      BY DEF TypeInv, TypeOK
    <3> QED
      BY <1>10, <3>1, CutStep
  <2> QED
    BY <1>4, <1>5, <1>8, <1>9, <2>1 DEF IsIndication, Ind
<1>13. /\ Lines(Text', m - 1) /\ m - 1 \in Nat
       /\ Ind(Text, 1) => /\ Text[2].n = Len(returned) + 1 /\ Len(returned) < printed
                          /\ Carries(Text', m - 1, Len(returned) + 1, printed)
       /\ ~Ind(Text, 1) => Carries(Text', m - 1, Len(returned), printed)
  <2>1. m - 1 \in Nat
    BY <1>5
  <2> QED
    BY <1>1, <1>2, <1>5, <1>11, <2>1, LineTaken
<1>14. CASE Ind(Text, 1)
  <2>1. returned' = Append(returned, buf[1].n) /\ buf[1].n = Len(returned) + 1
    BY <1>3, <1>4, <1>5, <1>8, <1>12, <1>13, <1>14
  <2>2. Len(returned) + 1 \in 1..IndMax
    <3>1. printed <= IndMax /\ IndMax \in Nat
      BY BoundsAssumption DEF TypeInv, TypeOK
    <3> QED
      BY <1>2, <1>13, <1>14, <3>1
  <2>3. /\ Len(returned') = Len(returned) + 1 /\ returned'[Len(returned) + 1] = Len(returned) + 1
        /\ \A k \in 1..Len(returned) : returned'[k] = returned[k]
    BY <1>2, <2>1, <2>2, AppendProperties
  <2>4. \A k \in 1..Len(returned') : returned'[k] = k
    <3>1. \A k \in 1..(Len(returned) + 1) : k \in 1..Len(returned) \/ k = Len(returned) + 1
      BY <1>2
    <3> QED
      BY <1>2, <2>3, <3>1
  <2>5. Len(returned') <= printed'
    BY <1>2, <1>13, <1>14, <2>3
  <2> QED
    BY <1>2, <1>13, <1>14, <2>3, <2>4, <2>5
<1>15. CASE ~Ind(Text, 1)
  <2>1. returned' = returned
    BY <1>3, <1>12, <1>15
  <2> QED
    BY <1>2, <1>13, <1>15, <2>1
<1> QED
  BY <1>14, <1>15

(* Every indication that the client prints is returned once and in order,  *)
(* or is still there as a whole line: no cut of the text, no time-out and  *)
(* no echo loses or doubles one (_pump, read_indication).                  *)
THEOREM IndicationsSurvive == Spec => []IndicationsIntact
<1>1. Init => TextInv
  <2> SUFFICES ASSUME Init PROVE TextInv
    OBVIOUS
  <2>1. Text = << >> /\ Len(returned) = 0 /\ printed = 0
    BY DEF Init, Text
  <2>2. Lines(<< >>, 0) /\ Carries(<< >>, 0, 0, 0)
    BY DEF Lines, Carries
  <2> QED
    BY <2>1, <2>2 DEF TextInv
<1>2. TypeInv /\ TypeInv' /\ TextInv /\ [Next]_vars => TextInv'
  <2> SUFFICES ASSUME TypeInv, TypeInv', TextInv, [Next]_vars PROVE TextInv'
    OBVIOUS
  <2>1. ASSUME Text' = Text, UNCHANGED <<open, returned, printed>> PROVE TextInv'
    BY <2>1 DEF TextInv
  <2>2. ASSUME UNCHANGED <<buf, out, open, returned, printed>> PROVE TextInv'
    BY <2>1, <2>2 DEF Text
  <2>3. CASE ReadChunk
    <3>1. PICK k \in 1..Len(out) : /\ Joins(buf', buf, SubSeq(out, 1, k))
                                   /\ Cuts(out', out, k + 1, Len(out))
      BY <2>3 DEF ReadChunk, Joins, Cuts
    <3>2. Text' = Text
      BY <3>1, ReadKeepsText DEF TypeInv
    <3> QED
      BY <2>1, <2>3, <3>2 DEF ReadChunk
  <2>4. CASE ReadEnds \/ PumpEnds \/ Discovered \/ LooksAgain \/ RegisterFails \/ BeginRead
             \/ PumpMore \/ TimesOut \/ ClientConnects \/ ClientExits \/ ClientIsKilled
    BY <2>2, <2>4 DEF ReadEnds, PumpEnds, Discovered, LooksAgain, RegisterFails, BeginRead,
       PumpMore, TimesOut, ClientConnects, ClientExits, ClientIsKilled, Client, clientVars,
       transportVars
  <2>5. CASE GivesUp \/ Close
    BY <2>5 DEF GivesUp, Close, CloseTransport, TextInv
  <2>6. CASE TakeLine
    BY <2>6, TextTaken
  <2>7. CASE ClientPrints
    BY <2>7, TextNumbers
  <2>8. CASE Register \/ Write \/ ClientRefused \/ ClientDiscovers \/ ClientFails \/ LinkDrops
    <3>1. /\ UNCHANGED <<buf, open, returned, printed>>
          /\ out' = out \/ \E kind \in Kinds : Says(kind)
      BY <2>8 DEF Register, Write, ClientRefused, ClientDiscovers, ClientFails, LinkDrops, Client,
         transportVars, Kinds
    <3> QED
      BY <2>2, <3>1, TextGrows
  <2>9. CASE UNCHANGED vars
    BY <2>2, <2>9 DEF vars, clientVars, transportVars
  <2> QED
    BY <2>3, <2>4, <2>5, <2>6, <2>7, <2>8, <2>9 DEF Next
<1>3. TypeInv /\ TextInv => IndicationsIntact
  <2> SUFFICES ASSUME TypeInv, TextInv, open
               PROVE  /\ returned = [i \in 1..Len(returned) |-> i]
                      /\ {Text[i].n : i \in Whole(Text)} = (Len(returned) + 1)..printed
                      /\ \A i, j \in Whole(Text) : i < j => Text[i].n < Text[j].n
    BY DEF IndicationsIntact, Text
  <2>1. PICK m \in Nat : Lines(Text, m) /\ Carries(Text, m, Len(returned), printed)
    BY DEF TextInv
  <2>2. returned = [i \in 1..Len(returned) |-> i]
    <3>1. \A i \in 1..Len(returned) : returned[i] = i
      BY DEF TextInv
    <3>2. returned = [i \in 1..Len(returned) |-> returned[i]]
      BY DEF TypeInv, TypeOK
    <3> QED
      BY <3>1, <3>2
  <2>3. ASSUME NEW i \in Whole(Text)
        PROVE  \E k \in 1..m : i = 2 * k /\ Ind(Text, k)
    <3>1. /\ i \in 2..(2 * m) /\ Text[i].part = 2 /\ Text[i].kind = "ind"
      BY <2>1 DEF Whole, Lines
    <3>2. i = 2 * (i \div 2) \/ i = 2 * (i \div 2 + 1) - 1
      BY <3>1
    <3>3. CASE i = 2 * (i \div 2)
      <4>1. i \div 2 \in 1..m
        BY <3>1, <3>3
      <4> QED
        BY <3>1, <3>3, <4>1 DEF Ind
    <3>4. CASE i = 2 * (i \div 2 + 1) - 1
      <4>1. i \div 2 + 1 \in 1..m
        BY <3>1, <3>4
      <4>2. PICK k \in 1..m : i = 2 * k - 1
        BY <3>4, <4>1
      <4>3. Text[i] = [Text[2 * k] EXCEPT !.part = 1] /\ Text[2 * k] \in Fragments
        <5>1. 2 * k \in 1..Len(Text) /\ Text \in Seq(Fragments)
          BY <2>1 DEF Lines
        <5> QED
          BY <2>1, <4>2, <5>1, ElementOfSeq DEF Lines
      <4>4. Text[i].part = 1
        BY <4>3 DEF Fragments
      <4> QED
        BY <3>1, <4>4
    <3> QED
      BY <3>2, <3>3, <3>4
  <2>4. ASSUME NEW k \in 1..m, Ind(Text, k) PROVE 2 * k \in Whole(Text)
    <3>1. 2 * k \in 2..Len(Text)
      BY <2>1 DEF Lines
    <3> QED
      BY <2>1, <2>4, <3>1 DEF Whole, Lines, Ind
  <2>5. \A v : v \in {Text[i].n : i \in Whole(Text)} <=> v \in (Len(returned) + 1)..printed
    BY <2>1, <2>3, <2>4 DEF Carries
  <2>6. ASSUME NEW i \in Whole(Text), NEW j \in Whole(Text), i < j PROVE Text[i].n < Text[j].n
    <3>1. PICK k \in 1..m : i = 2 * k /\ Ind(Text, k)
      BY <2>3
    <3>2. PICK l \in 1..m : j = 2 * l /\ Ind(Text, l)
      BY <2>3
    <3>3. k < l
      BY <2>6, <3>1, <3>2
    <3> QED
      BY <2>1, <3>1, <3>2, <3>3 DEF Carries
  <2> QED
    BY <2>2, <2>5, <2>6
<1>4. Spec => []TypeInv
  BY TypeHolds
<1> QED
  BY <1>1, <1>2, <1>3, <1>4, PTL DEF Spec
=============================================================================
