--------------------------- MODULE ChannelProofs ---------------------------
(***************************************************************************)
(* Proofs about the channel, for any number of threads, any messages and   *)
(* any counter width.  First of SecureChannel:                             *)
(*   - every variable keeps its type;                                      *)
(*   - counters on the wire are in order, whatever fails on the way;       *)
(*   - without oversized messages the uplink never loses step;             *)
(*   - the downlink never loses step, strays or not.                       *)
(* Then of ChannelDelivery, the safety half of the refinement: each        *)
(* direction is an OrderedPipe, in the uplink after an oversized frame was *)
(* refused as well.                                                        *)
(***************************************************************************)
EXTENDS ChannelDelivery, SequenceTheorems, TLAPS

(* What the three queue operations of the channel do to a queue.           *)
LEMMA AppendStep ==
  ASSUME NEW S, NEW q \in Seq(S), NEW e \in S
  PROVE  /\ Append(q, e) \in Seq(S)
         /\ Len(Append(q, e)) = Len(q) + 1
         /\ \A i \in 1..Len(q) : Append(q, e)[i] = q[i]
         /\ Append(q, e)[Len(q) + 1] = e
  BY AppendProperties

LEMMA TailStep ==
  ASSUME NEW S, NEW q \in Seq(S), q # << >>
  PROVE  /\ Tail(q) \in Seq(S)
         /\ Len(q) \in Nat \ {0}
         /\ Len(Tail(q)) = Len(q) - 1
         /\ \A i \in 1..(Len(q) - 1) : Tail(q)[i] = q[i + 1]
         /\ Head(q) = q[1]
  BY HeadTailProperties, EmptySeq

LEMMA PrefixStep ==
  ASSUME NEW S, NEW q \in Seq(S), NEW n \in 0..Len(q)
  PROVE  /\ SubSeq(q, 1, n) \in Seq(S)
         /\ Len(SubSeq(q, 1, n)) = n
         /\ \A i \in 1..n : SubSeq(q, 1, n)[i] = q[i]
<1>1. Len(q) \in Nat /\ \A i \in 1..n : q[i] \in S
  BY LenProperties, ElementOfSeq
<1> QED
  BY <1>1, SubSeqProperties

(* The constructors leave a channel whose variables have their types.      *)
LEMMA InitTyped == Init => TypeOK
<1> SUFFICES ASSUME Init PROVE TypeOK
  OBVIOUS
<1>1. /\ refused \in BOOLEAN /\ linkUp \in BOOLEAN /\ alive \in BOOLEAN
      /\ reading \in BOOLEAN
  BY DEF Init
<1>2. tx \in Nat /\ rx \in Nat /\ lensTx \in Nat /\ lensRx \in Nat
  BY DEF Init
<1>3. frame \in [Threads -> Frames(HostMsg) \cup {NoFrame}]
  BY Zenon DEF Init
<1>4. toLens \in Seq(Frames(HostMsg)) /\ toHost \in Seq(Frames(LensMsg \cup {Plain}))
  BY EmptySeq DEF Init
<1>5. lock \in Threads \cup {Nobody} /\ emitter \in Threads \cup {Nobody}
  BY DEF Init
<1> QED
  BY <1>1, <1>2, <1>3, <1>4, <1>5 DEF TypeOK

-----------------------------------------------------------------------------
LEMMA TypesKept == TypeOK /\ [Next]_vars => TypeOK'
<1> SUFFICES ASSUME TypeOK, [Next]_vars
             PROVE  TypeOK'
  OBVIOUS
<1> USE DEF TypeOK
<1>1. ASSUME NEW t \in Threads, NEW m \in HostMsg, Seal(t, m)
      PROVE  TypeOK'
  <2>1. [ctr |-> tx + 1, msg |-> m] \in Frames(HostMsg)
    BY DEF Frames
  <2> QED
    BY <1>1, <2>1 DEF Seal, lensVars, linkVars
<1>2. ASSUME NEW t \in Threads, SealOverflow(t)
      PROVE  TypeOK'
  BY <1>2 DEF SealOverflow, lensVars, sendVars, linkVars
<1>3. ASSUME NEW t \in Threads, Post(t)
      PROVE  TypeOK'
  <2>1. ASSUME Release(t)
        PROVE  (lock \in Threads \cup {Nobody}
                /\ frame \in [Threads -> Frames(HostMsg) \cup {NoFrame}])'
    BY <2>1 DEF Release
  <2>2. CASE PostArrives(t)
    <3>1. frame[t] \in Frames(HostMsg)
      BY <2>2 DEF PostArrives
    <3>2. toLens' \in Seq(Frames(HostMsg))
      BY <2>2, <3>1, AppendStep DEF PostArrives
    <3> QED
      BY <2>1, <2>2, <3>2 DEF PostArrives, hostVars, lensVars, linkVars
  <2>3. CASE PostSwallowed(t)
    BY <2>1, <2>3 DEF PostSwallowed, hostVars, lensVars, linkVars
  <2>4. CASE PostOversize(t)
    BY <2>1, <2>4 DEF PostOversize, hostVars, lensVars, linkVars
  <2>5. CASE PostFails(t)
    BY <2>1, <2>5 DEF PostFails, Report, hostVars, lensVars
  <2> QED
    BY <1>3, <2>2, <2>3, <2>4, <2>5 DEF Post
<1>4. CASE Read
  <2>1. Tail(toHost) \in Seq(Frames(LensMsg \cup {Plain}))
    BY <1>4, TailStep DEF Read
  <2>2. alive' \in BOOLEAN
    BY <1>4, Zenon DEF Read
  <2>3. rx' \in Nat
    BY <1>4 DEF Read
  <2> QED
    BY <1>4, <2>1, <2>2, <2>3 DEF Read, lensVars, sendVars
<1>5. CASE ReadBegins \/ ReadNothing \/ ReadFails
  <2>1. CASE ReadBegins \/ ReadNothing
    BY <2>1 DEF ReadBegins, ReadNothing, lensVars, sendVars, linkVars
  <2>2. CASE ReadFails
    BY <2>2, ReaderAssumption DEF ReadFails, Report, lensVars, sendVars
  <2> QED
    BY <1>5, <2>1, <2>2
<1>6. CASE LensReceives
  <2>1. Tail(toLens) \in Seq(Frames(HostMsg))
    BY <1>6, TailStep DEF LensReceives
  <2> QED
    BY <1>6, <2>1 DEF LensReceives, hostVars, sendVars, linkVars
<1>7. ASSUME NEW m \in LensMsg, LensSends(m)
      PROVE  TypeOK'
  <2>1. [ctr |-> lensTx + 1, msg |-> m] \in Frames(LensMsg \cup {Plain})
    BY DEF Frames
  <2>2. toHost' \in Seq(Frames(LensMsg \cup {Plain}))
    BY <1>7, <2>1, AppendStep DEF LensSends
  <2> QED
    BY <1>7, <2>2 DEF LensSends, hostVars, sendVars, linkVars
<1>8. CASE LensSendsPlain
  <2>1. [ctr |-> 0, msg |-> Plain] \in Frames(LensMsg \cup {Plain})
    BY DEF Frames
  <2>2. toHost' \in Seq(Frames(LensMsg \cup {Plain}))
    BY <1>8, <2>1, AppendStep DEF LensSendsPlain
  <2> QED
    BY <1>8, <2>2 DEF LensSendsPlain, hostVars, lensVars, sendVars, linkVars
<1>9. CASE LinkDrops
  <2>1. toHost' \in Seq(Frames(LensMsg \cup {Plain}))
    BY <1>9, PrefixStep DEF LinkDrops
  <2>2. toLens' \in Seq(Frames(HostMsg))
    BY <1>9, EmptySeq DEF LinkDrops
  <2> QED
    BY <1>9, <2>1, <2>2 DEF LinkDrops, hostVars, lensVars, sendVars
<1>10. CASE CloseTransport
  <2>1. toLens' \in Seq(Frames(HostMsg))
    BY <1>10, EmptySeq DEF CloseTransport
  <2> QED
    BY <1>10, <2>1 DEF CloseTransport, hostVars, lensVars, sendVars
<1>11. CASE UNCHANGED vars
  BY <1>11 DEF vars, hostVars, lensVars, sendVars, linkVars
<1> QED
  BY <1>1, <1>2, <1>3, <1>4, <1>5, <1>6, <1>7, <1>8, <1>9, <1>10, <1>11 DEF Next, ReadRound

(* Every variable of the channel keeps its type.                           *)
THEOREM TypeCorrect == Spec => []TypeOK
BY InitTyped, TypesKept, PTL DEF Spec

-----------------------------------------------------------------------------
(* The lock ties a frame in hand to the last counter handed out, so that   *)
(* what is written next is beyond everything already on its way.           *)
Holding == \A t \in Threads : frame[t] # NoFrame => lock = t /\ frame[t].ctr = tx

WireInv ==
  /\ TypeOK
  /\ Holding
  /\ lensRx <= tx
  /\ lock # Nobody => /\ lensRx < tx
                      /\ \A i \in 1..Len(toLens) : toLens[i].ctr < tx
  /\ WireOrder

LEMMA WireKept == Spec => []WireInv
<1>1. Init => WireInv
  <2> SUFFICES ASSUME Init PROVE WireInv
    OBVIOUS
  <2>1. TypeOK
    BY InitTyped
  <2>2. Len(toLens) = 0 /\ \A t \in Threads : frame[t] = NoFrame
    BY DEF Init
  <2> QED
    BY <2>1, <2>2 DEF Init, WireInv, Holding, WireOrder
<1>2. TypeOK /\ TypeOK' /\ WireInv /\ [Next]_vars => WireInv'
  <2> SUFFICES ASSUME TypeOK, TypeOK', WireInv, [Next]_vars
               PROVE  WireInv'
    OBVIOUS
  <2> USE DEF WireInv
  <2>0. /\ tx \in Nat /\ lensRx \in Nat /\ Len(toLens) \in Nat
        /\ \A i \in 1..Len(toLens) : toLens[i].ctr \in Nat
    <3>1. \A i \in 1..Len(toLens) : toLens[i] \in Frames(HostMsg)
      BY ElementOfSeq DEF TypeOK
    <3> QED
      BY <3>1, LenProperties DEF TypeOK, Frames
  <2>1. ASSUME NEW t \in Threads, NEW m \in HostMsg, Seal(t, m)
        PROVE  WireInv'
    <3>1. Holding'
      BY <2>1, ReaderAssumption DEF Seal, TypeOK, Holding
    <3>2. WireOrder' /\ lensRx' < tx' /\ \A i \in 1..Len(toLens') : toLens'[i].ctr < tx'
      BY <2>0, <2>1 DEF Seal, WireOrder, lensVars
    <3> QED
      BY <2>0, <2>1, <3>1, <3>2 DEF Seal, lensVars
  <2>2. ASSUME NEW t \in Threads, SealOverflow(t)
        PROVE  WireInv'
    BY <2>0, <2>2, ReaderAssumption
    DEF SealOverflow, Holding, WireOrder, lensVars, sendVars
  <2>3. ASSUME NEW t \in Threads, Post(t)
        PROVE  WireInv'
    <3>1. Release(t) /\ frame[t] # NoFrame /\ UNCHANGED <<tx, lensRx>>
      BY <2>3 DEF Post, PostArrives, PostSwallowed, PostOversize, PostFails,
                  hostVars, lensVars
    <3>2. Holding' /\ lock' = Nobody
      BY <3>1, ReaderAssumption DEF Release, Holding, TypeOK
    <3>3. CASE PostArrives(t)
      <4>1. frame[t] \in Frames(HostMsg) /\ frame[t].ctr = tx /\ lock = t
        BY <3>1 DEF Holding, TypeOK
      <4>2. /\ Len(toLens') = Len(toLens) + 1
            /\ \A i \in 1..Len(toLens) : toLens'[i] = toLens[i]
            /\ toLens'[Len(toLens) + 1] = frame[t]
        BY <3>3, <4>1, AppendStep DEF PostArrives, TypeOK
      <4>3. lensRx < tx /\ \A i \in 1..Len(toLens) : toLens[i].ctr < tx
        BY <4>1, ReaderAssumption
      <4>4. WireOrder'
        <5> SUFFICES
              /\ \A i, j \in 1..(Len(toLens) + 1) :
                   i < j => toLens'[i].ctr < toLens'[j].ctr
              /\ \A i \in 1..(Len(toLens) + 1) :
                   lensRx < toLens'[i].ctr /\ toLens'[i].ctr <= tx
          BY <3>1, <4>2 DEF WireOrder
        <5>1. toLens'[Len(toLens) + 1].ctr = tx
          BY <4>1, <4>2
        <5>2. \A i \in 1..Len(toLens) : toLens'[i].ctr = toLens[i].ctr
          BY <4>2
        <5>3. \A i \in 1..(Len(toLens) + 1) : i \in 1..Len(toLens) \/ i = Len(toLens) + 1
          BY <2>0
        <5>4. \A i, j \in 1..(Len(toLens) + 1) : i < j => i \in 1..Len(toLens)
          BY <2>0
        <5>5. \A i \in 1..(Len(toLens) + 1) :
                lensRx < toLens'[i].ctr /\ toLens'[i].ctr <= tx
          BY <2>0, <4>3, <5>1, <5>2, <5>3 DEF WireOrder
        <5> QED
          BY <2>0, <4>3, <5>1, <5>2, <5>3, <5>4, <5>5 DEF WireOrder
      <4> QED
        BY <3>1, <3>2, <4>4
    <3>4. CASE UNCHANGED toLens
      BY <3>1, <3>2, <3>4 DEF WireOrder
    <3> QED
      BY <2>3, <3>3, <3>4 DEF Post, PostSwallowed, PostOversize, PostFails
  <2>4. CASE LensReceives
    <3>1. /\ Len(toLens) \in Nat \ {0} /\ Len(toLens') = Len(toLens) - 1
          /\ \A i \in 1..Len(toLens') : toLens'[i] = toLens[i + 1]
          /\ Head(toLens) = toLens[1]
      BY <2>4, TailStep DEF LensReceives, TypeOK
    <3>2. lensRx' = lensRx \/ lensRx' = toLens[1].ctr
      BY <2>0, <2>4, <3>1 DEF LensReceives, Verifies
    <3>3. \A i \in 1..Len(toLens') : lensRx' < toLens'[i].ctr
      <4> SUFFICES ASSUME NEW i \in 1..Len(toLens')
                   PROVE  lensRx' < toLens'[i].ctr
        OBVIOUS
      <4>1. 1 \in 1..Len(toLens) /\ i + 1 \in 1..Len(toLens) /\ 1 < i + 1
        BY <2>0, <3>1
      <4>2. lensRx < toLens[i + 1].ctr /\ toLens[1].ctr < toLens[i + 1].ctr
        BY <4>1 DEF WireOrder
      <4> QED
        BY <3>1, <3>2, <4>2
    <3>4. lensRx' <= tx /\ (lock # Nobody => lensRx' < tx)
      BY <2>0, <3>1, <3>2 DEF WireOrder
    <3>5. WireOrder' /\ (lock # Nobody => \A i \in 1..Len(toLens') : toLens'[i].ctr < tx)
      BY <2>0, <2>4, <3>1, <3>3 DEF WireOrder, LensReceives, hostVars
    <3> QED
      BY <2>4, <3>4, <3>5 DEF LensReceives, hostVars, sendVars, Holding
  <2>5. CASE LinkDrops \/ CloseTransport
    <3>1. toLens' = << >> /\ UNCHANGED <<tx, lensRx, lock, frame>>
      BY <2>5 DEF LinkDrops, CloseTransport, hostVars, lensVars, sendVars
    <3>2. Len(toLens') = 0
      BY <3>1
    <3> QED
      BY <3>1, <3>2 DEF WireOrder, Holding
  <2>6. CASE UNCHANGED <<tx, lensRx, lock, frame, toLens>>
    BY <2>6 DEF WireOrder, Holding
  <2>7. ASSUME \/ Read \/ ReadBegins \/ ReadNothing \/ ReadFails
               \/ (\E m \in LensMsg : LensSends(m))
               \/ LensSendsPlain \/ UNCHANGED vars
        PROVE  UNCHANGED <<tx, lensRx, lock, frame, toLens>>
    BY <2>7 DEF Read, ReadFails, ReadBegins, ReadNothing, LensSends, LensSendsPlain,
                vars, hostVars,
                lensVars, sendVars
  <2> QED
    BY <2>1, <2>2, <2>3, <2>4, <2>5, <2>6, <2>7 DEF Next, ReadRound
<1> QED
  BY <1>1, <1>2, TypeCorrect, PTL DEF Spec

(* Counters are nonces: no step takes one twice, and no interleaving of    *)
(* threads, failed write or overflow puts frames on the wire out of the    *)
(* order of their counters (_send_enc, SecureSession.encrypt).             *)
THEOREM WireOrdered == Spec => []WireOrder
<1>1. WireInv => WireOrder
  BY DEF WireInv
<1> QED
  BY <1>1, WireKept, PTL

-----------------------------------------------------------------------------
(* How many frames the host has written, told from its counter: the frame  *)
(* in hand is sealed and not written, and past CounterMax nothing is       *)
(* sealed.                                                                 *)
Written == IF lock # Nobody THEN tx - 1 ELSE IF tx > CounterMax THEN CounterMax ELSE tx

UpSyncInv ==
  /\ TypeOK
  /\ Holding
  /\ lock # Nobody => tx <= CounterMax
  /\ linkUp => alive
  /\ (linkUp /\ ~refused) => lensRx + Len(toLens) = Written
  /\ UplinkInSync

(* Until the transport refuses an oversized frame the uplink never loses   *)
(* step, for any number of threads and any interleaving: while the link is *)
(* up each frame on its way is the one the camera can decrypt next, and    *)
(* with none on its way the two counters are equal (_send_enc, _write,     *)
(* SecureSession).                                                         *)
THEOREM UplinkStaysInSync == Spec => [](UplinkInSync /\ (~refused => CountersAgree))
<1>1. Init => UpSyncInv
  <2> SUFFICES ASSUME Init PROVE UpSyncInv
    OBVIOUS
  <2>1. TypeOK
    BY InitTyped
  <2>2. Len(toLens) = 0 /\ \A t \in Threads : frame[t] = NoFrame
    BY DEF Init
  <2> QED
    BY <2>1, <2>2, BoundAssumption
    DEF Init, UpSyncInv, Holding, UplinkInSync, Written
<1>2. TypeOK /\ TypeOK' /\ UpSyncInv /\ [Next]_vars => UpSyncInv'
  <2> SUFFICES ASSUME TypeOK, TypeOK', UpSyncInv, [Next]_vars
               PROVE  UpSyncInv'
    OBVIOUS
  <2> USE DEF UpSyncInv
  <2>0. /\ tx \in Nat /\ lensRx \in Nat /\ Len(toLens) \in Nat /\ CounterMax \in Nat
        /\ linkUp \in BOOLEAN
    BY LenProperties, BoundAssumption DEF TypeOK
  <2>1. ASSUME NEW t \in Threads, NEW m \in HostMsg, Seal(t, m)
        PROVE  UpSyncInv'
    <3>1. Holding'
      BY <2>1, ReaderAssumption DEF Seal, TypeOK, Holding
    <3>2. Written' = Written
      BY <2>0, <2>1, ReaderAssumption DEF Seal, Written
    <3> QED
      BY <2>0, <2>1, <3>1, <3>2 DEF Seal, lensVars, linkVars, UplinkInSync
  <2>2. ASSUME NEW t \in Threads, SealOverflow(t)
        PROVE  UpSyncInv'
    <3>1. Written' = Written
      BY <2>0, <2>2 DEF SealOverflow, Written, sendVars
    <3> QED
      BY <2>0, <2>2, <3>1, ReaderAssumption
      DEF SealOverflow, Holding, lensVars, sendVars, linkVars, UplinkInSync
  <2>3. ASSUME NEW t \in Threads, Post(t)
        PROVE  UpSyncInv'
    <3>1. Release(t) /\ frame[t] # NoFrame /\ UNCHANGED <<tx, lensRx, linkUp>>
      BY <2>3 DEF Post, PostArrives, PostSwallowed, PostOversize, PostFails,
                  hostVars, lensVars, linkVars
    <3>2. Holding' /\ lock' = Nobody
      BY <3>1, ReaderAssumption DEF Release, Holding, TypeOK
    <3>3. lock = t /\ frame[t].ctr = tx /\ frame[t] \in Frames(HostMsg)
      BY <3>1 DEF Holding, TypeOK
    <3>4. tx <= CounterMax /\ Written' = tx /\ Written = tx - 1
      BY <2>0, <3>1, <3>2, <3>3, ReaderAssumption DEF Written
    <3>5. CASE PostArrives(t)
      <4>1. /\ Len(toLens') = Len(toLens) + 1
            /\ \A i \in 1..Len(toLens) : toLens'[i] = toLens[i]
            /\ toLens'[Len(toLens) + 1] = frame[t]
        BY <3>3, <3>5, AppendStep DEF PostArrives, TypeOK
      <4>2. /\ linkUp /\ alive' = alive /\ refused' = refused
            /\ ~refused => lensRx + Len(toLens) = tx - 1
        BY <3>4, <3>5 DEF PostArrives, linkVars
      <4> SUFFICES ASSUME ~refused PROVE UpSyncInv'
        BY <3>1, <3>2, <3>4, <4>2 DEF UplinkInSync
      <4>3. \A i \in 1..(Len(toLens) + 1) : i \in 1..Len(toLens) \/ i = Len(toLens) + 1
        BY <2>0
      <4>4. toLens'[Len(toLens) + 1].ctr = lensRx + (Len(toLens) + 1)
        BY <2>0, <3>3, <4>1, <4>2
      <4>5. \A i \in 1..Len(toLens) : toLens'[i].ctr = lensRx + i
        BY <4>1, <4>2 DEF UplinkInSync
      <4>6. UplinkInSync'
        BY <3>1, <4>1, <4>3, <4>4, <4>5 DEF UplinkInSync
      <4> QED
        BY <2>0, <3>1, <3>2, <3>4, <4>1, <4>2, <4>6
    <3>6. CASE PostSwallowed(t) \/ PostFails(t)
      <4>1. ~linkUp
        BY <3>6 DEF PostSwallowed, PostFails
      <4> QED
        BY <3>1, <3>2, <4>1 DEF UplinkInSync
    <3>7. CASE PostOversize(t)
      <4>1. refused' /\ alive' = alive
        BY <3>7 DEF PostOversize, linkVars
      <4> QED
        BY <3>1, <3>2, <3>4, <4>1 DEF UplinkInSync
    <3> QED
      BY <2>3, <3>5, <3>6, <3>7 DEF Post
  <2>4. CASE LensReceives
    <3>1. /\ Len(toLens) \in Nat \ {0} /\ Len(toLens') = Len(toLens) - 1
          /\ \A i \in 1..Len(toLens') : toLens'[i] = toLens[i + 1]
          /\ Head(toLens) = toLens[1]
      BY <2>4, TailStep DEF LensReceives, TypeOK
    <3>2. UNCHANGED <<tx, lock, frame, refused, linkUp, alive>>
      BY <2>4 DEF LensReceives, hostVars, sendVars, linkVars
    <3>3. CASE linkUp /\ ~refused
      <4>1. toLens[1].ctr = lensRx + 1 /\ lensRx < CounterMax
        BY <2>0, <3>1, <3>3 DEF UplinkInSync, Written
      <4>2. lensRx' = lensRx + 1
        BY <2>4, <3>1, <4>1 DEF LensReceives, Verifies
      <4>3. \A i \in 1..Len(toLens') : i + 1 \in 1..Len(toLens)
        BY <3>1
      <4>4. UplinkInSync'
        <5> SUFFICES ASSUME NEW i \in 1..Len(toLens')
                     PROVE  toLens'[i].ctr = lensRx' + i
          BY DEF UplinkInSync
        <5>1. toLens[i + 1].ctr = lensRx + (i + 1)
          BY <3>3, <4>3 DEF UplinkInSync
        <5> QED
          BY <2>0, <3>1, <4>2, <5>1
      <4>5. Written' = Written
        BY <3>2 DEF Written
      <4>6. lensRx' + Len(toLens') = Written'
        <5>1. lensRx + Len(toLens) = Written
          BY <3>3
        <5>2. lensRx' + Len(toLens') = lensRx + Len(toLens)
          BY <2>0, <3>1, <4>2
        <5> QED
          BY <4>5, <5>1, <5>2
      <4> QED
        BY <3>2, <4>4, <4>6 DEF Holding
    <3>4. CASE ~linkUp \/ refused
      BY <3>2, <3>4 DEF UplinkInSync, Holding
    <3> QED
      BY <3>3, <3>4
  <2>5. CASE LinkDrops \/ CloseTransport
    <3>1. ~linkUp' /\ UNCHANGED <<tx, lock, frame>>
      BY <2>5 DEF LinkDrops, CloseTransport, hostVars, sendVars
    <3> QED
      BY <3>1 DEF UplinkInSync, Holding
  <2>6. ASSUME \/ Read \/ ReadBegins \/ ReadNothing \/ ReadFails
        PROVE  /\ UNCHANGED <<tx, lensRx, lock, frame, refused, toLens, linkUp>>
               /\ linkUp => alive'
    <3>1. CASE Read
      BY <3>1 DEF Read, lensVars, sendVars
    <3>2. CASE ReadBegins \/ ReadNothing
      BY <3>2 DEF ReadBegins, ReadNothing, lensVars, sendVars, linkVars
    <3>3. CASE ReadFails
      BY <3>3 DEF ReadFails, Report, lensVars, sendVars
    <3> QED
      BY <2>6, <3>1, <3>2, <3>3
  <2>7. ASSUME \/ \E m \in LensMsg : LensSends(m)
               \/ LensSendsPlain \/ UNCHANGED vars
        PROVE  UNCHANGED <<tx, lensRx, lock, frame, refused, toLens, linkUp, alive>>
    BY <2>7 DEF LensSends, LensSendsPlain, vars, hostVars, lensVars, sendVars,
                linkVars
  <2>8. ASSUME /\ UNCHANGED <<tx, lensRx, lock, frame, refused, toLens, linkUp>>
               /\ linkUp => alive'
        PROVE  UpSyncInv'
    BY <2>8 DEF UplinkInSync, Holding, Written
  <2> QED
    BY <2>1, <2>2, <2>3, <2>4, <2>5, <2>6, <2>7, <2>8 DEF Next, ReadRound
<1>3. UpSyncInv => UplinkInSync /\ (~refused => CountersAgree)
  <2> SUFFICES ASSUME UpSyncInv, ~refused, linkUp, lock = Nobody, toLens = << >>,
                      tx <= CounterMax
               PROVE  tx = lensRx
    BY DEF UpSyncInv, CountersAgree
  <2>1. Len(toLens) = 0 /\ tx \in Nat /\ lensRx \in Nat /\ CounterMax \in Nat
    BY BoundAssumption DEF UpSyncInv, TypeOK
  <2> QED
    BY <2>1 DEF UpSyncInv, Written
<1> QED
  BY <1>1, <1>2, <1>3, TypeCorrect, PTL DEF Spec

-----------------------------------------------------------------------------
(* The genuine indications in the buffer carry consecutive counters, and   *)
(* while the link is up the last of them is the camera's latest.           *)
Consecutive ==
  \A i, j \in 1..Len(toHost) :
    (/\ i < j /\ ~IsStray(i) /\ ~IsStray(j)
     /\ \A k \in (i + 1)..(j - 1) : IsStray(k)) => toHost[j].ctr = toHost[i].ctr + 1

LatestIsLast ==
  linkUp =>
    /\ \A i \in 1..Len(toHost) :
         (~IsStray(i) /\ \A k \in (i + 1)..Len(toHost) : IsStray(k))
           => toHost[i].ctr = lensTx
    /\ (\A k \in 1..Len(toHost) : IsStray(k)) => rx = lensTx

DownSyncInv ==
  /\ TypeOK
  /\ lensTx <= CounterMax
  /\ \A i \in 1..Len(toHost) : toHost[i].ctr <= CounterMax
  /\ Consecutive
  /\ LatestIsLast
  /\ DownlinkInSync

LEMMA DownSyncKept == Spec => []DownSyncInv
<1>1. Init => DownSyncInv
  <2> SUFFICES ASSUME Init PROVE DownSyncInv
    OBVIOUS
  <2>1. TypeOK
    BY InitTyped
  <2>2. Len(toHost) = 0
    BY DEF Init
  <2> QED
    BY <2>1, <2>2, BoundAssumption
    DEF Init, DownSyncInv, Consecutive, LatestIsLast, DownlinkInSync
<1>2. TypeOK /\ TypeOK' /\ DownSyncInv /\ [Next]_vars => DownSyncInv'
  <2> SUFFICES ASSUME TypeOK, TypeOK', DownSyncInv, [Next]_vars
               PROVE  DownSyncInv'
    OBVIOUS
  <2> USE DEF DownSyncInv, IsStray
  <2>0. /\ rx \in Nat /\ lensTx \in Nat /\ Len(toHost) \in Nat /\ CounterMax \in Nat
        /\ \A i \in 1..Len(toHost) : toHost[i].ctr \in Nat
    <3>1. \A i \in 1..Len(toHost) : toHost[i] \in Frames(LensMsg \cup {Plain})
      BY ElementOfSeq DEF TypeOK
    <3> QED
      BY <3>1, LenProperties, BoundAssumption DEF TypeOK, Frames
  <2>1. CASE Read
    <3>1. /\ Len(toHost) \in Nat \ {0} /\ Len(toHost') = Len(toHost) - 1
          /\ \A i \in 1..Len(toHost') : toHost'[i] = toHost[i + 1]
          /\ Head(toHost) = toHost[1]
      BY <2>1, TailStep DEF Read, TypeOK
    <3>2. /\ UNCHANGED <<lensTx, linkUp>>
          /\ IF Verifies(toHost[1], rx) THEN rx' = rx + 1 ELSE rx' = rx
      BY <2>1, <3>1 DEF Read, lensVars
    <3>3. IF IsStray(1) THEN rx' = rx ELSE rx' = rx + 1 /\ toHost[1].ctr = rx'
      <4>1. CASE IsStray(1)
        BY <2>0, <3>2, <4>1 DEF Verifies
      <4>2. CASE ~IsStray(1)
        <5>1. toHost[1].ctr = rx + 1 /\ toHost[1].ctr <= CounterMax
          BY <2>0, <3>1, <4>2 DEF DownlinkInSync
        <5> QED
          BY <2>0, <3>2, <4>2, <5>1 DEF Verifies
      <4> QED
        BY <4>1, <4>2
    <3>4. \A i \in 1..Len(toHost') : i + 1 \in 1..Len(toHost)
      BY <3>1
    <3>5. DownlinkInSync'
      <4> SUFFICES ASSUME NEW i \in 1..Len(toHost'),
                          toHost'[i].ctr # 0,
                          \A k \in 1..(i - 1) : toHost'[k].ctr = 0
                   PROVE  toHost'[i].ctr = rx' + 1
        BY DEF DownlinkInSync
      <4>1. \A k \in 2..i : IsStray(k)
        <5> SUFFICES ASSUME NEW k \in 2..i PROVE IsStray(k)
          OBVIOUS
        <5>1. k - 1 \in 1..(i - 1) /\ k - 1 \in 1..Len(toHost') /\ (k - 1) + 1 = k
          BY <3>1
        <5> QED
          BY <3>1, <5>1
      <4>2. i + 1 \in 1..Len(toHost) /\ ~IsStray(i + 1) /\ toHost'[i] = toHost[i + 1]
        BY <3>1, <3>4
      <4>3. CASE IsStray(1)
        <5>1. \A k \in 1..((i + 1) - 1) : IsStray(k)
          BY <4>1, <4>3
        <5> QED
          BY <3>3, <4>2, <4>3, <5>1 DEF DownlinkInSync
      <4>4. CASE ~IsStray(1)
        <5>1. 1 \in 1..Len(toHost) /\ 1 < i + 1
              /\ \A k \in (1 + 1)..((i + 1) - 1) : IsStray(k)
          <6>1. 1 \in 1..Len(toHost) /\ 1 < i + 1
            BY <3>1
          <6>2. \A k \in (1 + 1)..((i + 1) - 1) : k \in 2..i
            BY <3>1
          <6> QED
            BY <4>1, <6>1, <6>2
        <5>2. toHost[i + 1].ctr = toHost[1].ctr + 1
          BY <4>2, <4>4, <5>1 DEF Consecutive
        <5> QED
          BY <3>3, <4>2, <4>4, <5>2
      <4> QED
        BY <4>3, <4>4
    <3>6. Consecutive'
      <4> SUFFICES ASSUME NEW i \in 1..Len(toHost'), NEW j \in 1..Len(toHost'),
                          i < j, toHost'[i].ctr # 0, toHost'[j].ctr # 0,
                          \A k \in (i + 1)..(j - 1) : toHost'[k].ctr = 0
                   PROVE  toHost'[j].ctr = toHost'[i].ctr + 1
        BY DEF Consecutive
      <4>1. \A k \in ((i + 1) + 1)..((j + 1) - 1) : IsStray(k)
        <5> SUFFICES ASSUME NEW k \in ((i + 1) + 1)..((j + 1) - 1) PROVE IsStray(k)
          OBVIOUS
        <5>1. k - 1 \in (i + 1)..(j - 1) /\ k - 1 \in 1..Len(toHost') /\ (k - 1) + 1 = k
          BY <3>1
        <5> QED
          BY <3>1, <5>1
      <4>2. i + 1 \in 1..Len(toHost) /\ j + 1 \in 1..Len(toHost) /\ i + 1 < j + 1
        BY <3>4
      <4>3. toHost'[i] = toHost[i + 1] /\ toHost'[j] = toHost[j + 1]
        BY <3>1
      <4> QED
        BY <4>1, <4>2, <4>3 DEF Consecutive
    <3>7. LatestIsLast'
      <4> SUFFICES ASSUME linkUp
                   PROVE  /\ \A i \in 1..Len(toHost') :
                               (/\ toHost'[i].ctr # 0
                                /\ \A k \in (i + 1)..Len(toHost') : toHost'[k].ctr = 0)
                                 => toHost'[i].ctr = lensTx
                          /\ (\A k \in 1..Len(toHost') : toHost'[k].ctr = 0) => rx' = lensTx
        BY <3>2 DEF LatestIsLast
      <4>1. ASSUME NEW n \in Nat, \A k \in (n + 1)..Len(toHost') : toHost'[k].ctr = 0
            PROVE  \A k \in ((n + 1) + 1)..Len(toHost) : IsStray(k)
        <5> SUFFICES ASSUME NEW k \in ((n + 1) + 1)..Len(toHost) PROVE IsStray(k)
          OBVIOUS
        <5>1. k - 1 \in (n + 1)..Len(toHost') /\ k - 1 \in 1..Len(toHost') /\ (k - 1) + 1 = k
          BY <3>1
        <5>2. toHost'[k - 1].ctr = 0
          BY <4>1, <5>1
        <5>3. toHost'[k - 1] = toHost[(k - 1) + 1]
          BY <3>1, <5>1
        <5> QED
          BY <5>1, <5>2, <5>3
      <4>2. ASSUME NEW i \in 1..Len(toHost'), toHost'[i].ctr # 0,
                   \A k \in (i + 1)..Len(toHost') : toHost'[k].ctr = 0
            PROVE  toHost'[i].ctr = lensTx
        <5>1. \A k \in ((i + 1) + 1)..Len(toHost) : IsStray(k)
          <6>1. i \in Nat
            OBVIOUS
          <6> QED
            BY <4>1, <4>2, <6>1
        <5>2. i + 1 \in 1..Len(toHost) /\ toHost'[i] = toHost[i + 1]
          BY <3>1, <3>4
        <5> QED
          BY <4>2, <5>1, <5>2 DEF LatestIsLast
      <4>3. ASSUME \A k \in 1..Len(toHost') : toHost'[k].ctr = 0
            PROVE  rx' = lensTx
        <5>1. \A k \in (1 + 1)..Len(toHost) : IsStray(k)
          BY <4>1, <4>3
        <5>2. CASE IsStray(1)
          <6>1. \A k \in 1..Len(toHost) : IsStray(k)
            BY <5>1, <5>2
          <6> QED
            BY <3>3, <5>2, <6>1 DEF LatestIsLast
        <5>3. CASE ~IsStray(1)
          BY <3>1, <3>3, <5>1, <5>3 DEF LatestIsLast
        <5> QED
          BY <5>2, <5>3
      <4> QED
        BY <4>2, <4>3
    <3>8. \A i \in 1..Len(toHost') : toHost'[i].ctr <= CounterMax
      BY <3>1, <3>4
    <3> QED
      BY <3>2, <3>5, <3>6, <3>7, <3>8
  <2>2. ASSUME NEW e \in Frames(LensMsg \cup {Plain}), toHost' = Append(toHost, e),
               UNCHANGED <<rx, linkUp>>, linkUp,
               \/ e.ctr = 0 /\ lensTx' = lensTx
               \/ e.ctr = lensTx + 1 /\ lensTx' = lensTx + 1 /\ lensTx < CounterMax
        PROVE  DownSyncInv'
    <3>1. /\ Len(toHost') = Len(toHost) + 1
          /\ \A i \in 1..Len(toHost) : toHost'[i] = toHost[i]
          /\ toHost'[Len(toHost) + 1] = e
      BY <2>2, AppendStep DEF TypeOK
    <3> DEFINE last == Len(toHost) + 1
    <3>2. \A i \in 1..last : i \in 1..Len(toHost) \/ i = last
      BY <2>0
    <3>3. ASSUME NEW n \in Nat, \A k \in (n + 1)..Len(toHost') : toHost'[k].ctr = 0
          PROVE  \A k \in (n + 1)..Len(toHost) : IsStray(k)
      <4> SUFFICES ASSUME NEW k \in (n + 1)..Len(toHost) PROVE IsStray(k)
        OBVIOUS
      <4>1. k \in 1..Len(toHost) /\ k \in (n + 1)..Len(toHost')
        BY <2>0, <3>1
      <4> QED
        BY <3>1, <3>3, <4>1
    <3>4. DownlinkInSync'
      <4> SUFFICES ASSUME NEW i \in 1..last, toHost'[i].ctr # 0,
                          \A k \in 1..(i - 1) : toHost'[k].ctr = 0
                   PROVE  toHost'[i].ctr = rx + 1
        BY <2>2, <3>1 DEF DownlinkInSync
      <4>1. \A k \in 1..(i - 1) : IsStray(k)
        <5> SUFFICES ASSUME NEW k \in 1..(i - 1) PROVE IsStray(k)
          OBVIOUS
        <5>1. k \in 1..Len(toHost)
          BY <2>0
        <5> QED
          BY <3>1, <5>1
      <4>2. CASE i \in 1..Len(toHost)
        BY <3>1, <4>1, <4>2 DEF DownlinkInSync
      <4>3. CASE i = last
        <5>1. \A k \in 1..Len(toHost) : IsStray(k)
          BY <2>0, <4>1, <4>3
        <5>2. rx = lensTx
          BY <2>2, <5>1 DEF LatestIsLast
        <5> QED
          BY <2>2, <3>1, <4>3, <5>2
      <4> QED
        BY <3>2, <4>2, <4>3
    <3>5. Consecutive'
      <4> SUFFICES ASSUME NEW i \in 1..last, NEW j \in 1..last,
                          i < j, toHost'[i].ctr # 0, toHost'[j].ctr # 0,
                          \A k \in (i + 1)..(j - 1) : toHost'[k].ctr = 0
                   PROVE  toHost'[j].ctr = toHost'[i].ctr + 1
        BY <3>1 DEF Consecutive
      <4>1. i \in 1..Len(toHost)
        BY <2>0
      <4>2. \A k \in (i + 1)..(j - 1) : IsStray(k)
        <5> SUFFICES ASSUME NEW k \in (i + 1)..(j - 1) PROVE IsStray(k)
          OBVIOUS
        <5>1. k \in 1..Len(toHost)
          BY <2>0
        <5> QED
          BY <3>1, <5>1
      <4>3. CASE j \in 1..Len(toHost)
        BY <3>1, <4>1, <4>2, <4>3 DEF Consecutive
      <4>4. CASE j = last
        <5>1. \A k \in (i + 1)..Len(toHost) : IsStray(k)
          BY <2>0, <4>2, <4>4
        <5>2. toHost[i].ctr = lensTx
          BY <2>2, <3>1, <4>1, <5>1 DEF LatestIsLast
        <5> QED
          BY <2>2, <3>1, <4>1, <4>4, <5>2
      <4> QED
        BY <3>2, <4>3, <4>4
    <3>6. LatestIsLast'
      <4>1. ASSUME NEW i \in 1..last, toHost'[i].ctr # 0,
                   \A k \in (i + 1)..last : toHost'[k].ctr = 0
            PROVE  toHost'[i].ctr = lensTx'
        <5>1. CASE i = last
          BY <2>2, <3>1, <4>1, <5>1
        <5>2. CASE i \in 1..Len(toHost)
          <6>1. toHost'[last].ctr = 0
            BY <2>0, <4>1, <5>2
          <6>2. lensTx' = lensTx
            BY <2>0, <2>2, <3>1, <6>1
          <6>3. \A k \in (i + 1)..Len(toHost) : IsStray(k)
            BY <3>1, <3>3, <4>1
          <6> QED
            BY <2>2, <3>1, <4>1, <5>2, <6>2, <6>3 DEF LatestIsLast
        <5> QED
          BY <3>2, <5>1, <5>2
      <4>2. ASSUME \A k \in 1..last : toHost'[k].ctr = 0
            PROVE  rx = lensTx'
        <5>1. last \in 1..last
          BY <2>0
        <5>2. lensTx' = lensTx
          BY <2>0, <2>2, <3>1, <4>2, <5>1
        <5>3. \A k \in 1..Len(toHost) : IsStray(k)
          BY <2>0, <3>1, <4>2
        <5> QED
          BY <2>2, <5>2, <5>3 DEF LatestIsLast
      <4> QED
        BY <2>2, <3>1, <4>1, <4>2 DEF LatestIsLast
    <3>7. lensTx' <= CounterMax /\ \A i \in 1..Len(toHost') : toHost'[i].ctr <= CounterMax
      BY <2>0, <2>2, <3>1, <3>2
    <3> QED
      BY <3>4, <3>5, <3>6, <3>7
  <2>3. ASSUME NEW m \in LensMsg, LensSends(m)
        PROVE  DownSyncInv'
    <3> DEFINE e == [ctr |-> lensTx + 1, msg |-> m]
    <3>1. e \in Frames(LensMsg \cup {Plain}) /\ e.ctr = lensTx + 1
      BY <2>0 DEF Frames
    <3>2. /\ toHost' = Append(toHost, e) /\ UNCHANGED <<rx, linkUp>> /\ linkUp
          /\ lensTx' = lensTx + 1 /\ lensTx < CounterMax
      BY <2>3 DEF LensSends, hostVars, linkVars
    <3> HIDE DEF e
    <3> QED
      BY <2>2, <3>1, <3>2
  <2>4. CASE LensSendsPlain
    <3> DEFINE e == [ctr |-> 0, msg |-> Plain]
    <3>1. e \in Frames(LensMsg \cup {Plain}) /\ e.ctr = 0
      BY DEF Frames
    <3>2. /\ toHost' = Append(toHost, e) /\ UNCHANGED <<rx, linkUp>> /\ linkUp
          /\ lensTx' = lensTx
      BY <2>4 DEF LensSendsPlain, hostVars, lensVars, linkVars
    <3> HIDE DEF e
    <3> QED
      BY <2>2, <3>1, <3>2
  <2>5. CASE LinkDrops
    <3>1. PICK n \in 0..Len(toHost) : toHost' = SubSeq(toHost, 1, n)
      BY <2>5 DEF LinkDrops
    <3>2. Len(toHost') = n /\ \A i \in 1..n : toHost'[i] = toHost[i]
      BY <3>1, PrefixStep DEF TypeOK
    <3>3. 1..n \subseteq 1..Len(toHost)
      BY <2>0
    <3>4. ~linkUp' /\ UNCHANGED <<rx, lensTx>>
      BY <2>5 DEF LinkDrops, hostVars, lensVars
    <3>5. \A i \in 1..n : \A k \in 1..(i - 1) : k \in 1..n
      OBVIOUS
    <3>6. \A i, j \in 1..n : \A k \in (i + 1)..(j - 1) : k \in 1..n
      OBVIOUS
    <3>7. DownlinkInSync'
      BY <3>2, <3>3, <3>4, <3>5 DEF DownlinkInSync
    <3>8. Consecutive'
      BY <3>2, <3>3, <3>6 DEF Consecutive
    <3> QED
      BY <3>2, <3>3, <3>4, <3>7, <3>8 DEF LatestIsLast
  <2>6. ASSUME UNCHANGED <<rx, lensTx, toHost>>, linkUp' => linkUp
        PROVE  DownSyncInv'
    BY <2>6 DEF DownlinkInSync, Consecutive, LatestIsLast
  <2>7. ASSUME \/ \E t \in Threads : \/ \E m \in HostMsg : Seal(t, m)
                                     \/ SealOverflow(t) \/ Post(t)
               \/ ReadBegins \/ ReadNothing \/ ReadFails \/ LensReceives
               \/ CloseTransport \/ UNCHANGED vars
        PROVE  UNCHANGED <<rx, lensTx, toHost>> /\ (linkUp' => linkUp)
    BY <2>7 DEF Seal, SealOverflow, Post, PostArrives, PostSwallowed, PostOversize,
                PostFails, ReadFails, ReadBegins, ReadNothing, LensReceives, CloseTransport, vars,
                hostVars, lensVars, linkVars
  <2> QED
    BY <2>1, <2>3, <2>4, <2>5, <2>6, <2>7 DEF Next, ReadRound
<1> QED
  BY <1>1, <1>2, TypeCorrect, PTL DEF Spec

(* The downlink never loses step, however many stray plaintext indications *)
(* come in between and wherever the link drops: the next genuine           *)
(* indication in the buffer is the one the host can decrypt next           *)
(* (SecureSession.decrypt, _read_enc).                                     *)
THEOREM DownlinkStaysInSync == Spec => []DownlinkInSync
<1>1. DownSyncInv => DownlinkInSync
  BY DEF DownSyncInv
<1> QED
  BY <1>1, DownSyncKept, PTL

-----------------------------------------------------------------------------
(* The refinement.                                                         *)
LEMMA ChannelSteps == [DNext]_dvars => [Next]_vars
  BY DEF DNext, dvars

(* What is known of the channel holds beneath the histories.               *)
LEMMA ChannelHolds == DSpec => []WireInv
<1>1. DInit => Init
  BY DEF DInit
<1> QED
  BY <1>1, ChannelSteps, WireKept, PTL DEF DSpec, Spec

LEMMA FramesOf ==
  ASSUME TypeOK
  PROVE  /\ tx \in Nat /\ rx \in Nat /\ lensTx \in Nat /\ lensRx \in Nat
         /\ Len(toLens) \in Nat /\ Len(toHost) \in Nat
         /\ \A i \in 1..Len(toLens) : toLens[i].ctr \in Nat /\ toLens[i].msg \in HostMsg
         /\ \A i \in 1..Len(toHost) : toHost[i].ctr \in Nat
<1>1. \A i \in 1..Len(toLens) : toLens[i] \in Frames(HostMsg)
  BY ElementOfSeq DEF TypeOK
<1>2. \A i \in 1..Len(toHost) : toHost[i] \in Frames(LensMsg \cup {Plain})
  BY ElementOfSeq DEF TypeOK
<1> QED
  BY <1>1, <1>2, LenProperties DEF TypeOK, Frames

-----------------------------------------------------------------------------
(* The uplink.  The steps of the channel by what they do to it.            *)
Carried(t) ==
  /\ frame[t] # NoFrame /\ frame[t].msg \in HostMsg /\ frame[t].ctr = tx
  /\ lock # Nobody /\ lock' = Nobody
  /\ linkUp /\ linkUp'
  /\ toLens' = Append(toLens, frame[t])
  /\ sent' = Append(sent, frame[t].msg)
  /\ UNCHANGED <<tx, lensRx, lensHeard>>

Accepted ==
  /\ toLens # << >>
  /\ toLens' = Tail(toLens)
  /\ Head(toLens).ctr = lensRx + 1
  /\ lensRx' = lensRx + 1
  /\ lensHeard' = Append(lensHeard, Head(toLens).msg)
  /\ UNCHANGED <<tx, lock, linkUp, sent>>

Rejected ==
  /\ toLens # << >>
  /\ toLens' = Tail(toLens)
  /\ UNCHANGED <<tx, lock, linkUp, sent, lensRx, lensHeard>>

Dropped ==
  /\ toLens' = << >>
  /\ ~linkUp'
  /\ UNCHANGED <<tx, lock, sent, lensRx, lensHeard>>

(* Encrypting, writing in vain, and all that does not touch the uplink.    *)
Aside ==
  /\ tx' \in {tx, tx + 1}
  /\ lock' # Nobody => lock' = lock \/ tx' = tx + 1
  /\ UNCHANGED <<toLens, linkUp, sent, lensRx, lensHeard>>

LEMMA UplinkMoves ==
  ASSUME WireInv, DNext
  PROVE  (\E t \in Threads : Carried(t)) \/ Accepted \/ Rejected \/ Dropped \/ Aside
<1>0. TypeOK /\ tx \in Nat /\ lensRx \in Nat /\ Len(toLens) \in Nat
  BY FramesOf DEF WireInv
<1> DEFINE Quiet == UNCHANGED <<toLens, lensRx>>
<1>1. ASSUME Quiet PROVE UNCHANGED <<sent, lensHeard>>
  BY <1>0, <1>1 DEF DNext, Record
<1>2. ASSUME NEW t \in Threads, NEW m \in HostMsg, Seal(t, m) PROVE Aside
  BY <1>1, <1>2 DEF Seal, Aside, lensVars, linkVars
<1>3. ASSUME NEW t \in Threads, SealOverflow(t) PROVE Aside
  BY <1>1, <1>3 DEF SealOverflow, Aside, lensVars, sendVars, linkVars
<1>4. ASSUME NEW t \in Threads, PostArrives(t) PROVE Carried(t)
  <2>1. frame[t] \in Frames(HostMsg) /\ lock = t /\ frame[t].ctr = tx /\ frame[t] # NoFrame
    BY <1>4 DEF PostArrives, WireInv, Holding, TypeOK
  <2>2. Len(toLens') = Len(toLens) + 1 /\ toLens'[Len(toLens) + 1] = frame[t]
    BY <1>0, <1>4, <2>1, AppendStep DEF PostArrives, TypeOK
  <2>3. UNCHANGED <<tx, lensRx>> /\ linkUp /\ linkUp' /\ lock' = Nobody
    BY <1>4 DEF PostArrives, Release, hostVars, lensVars, linkVars
  <2>4. sent' = Append(sent, frame[t].msg) /\ lensHeard' = lensHeard
    BY <1>0, <2>2, <2>3 DEF DNext, Record, Newest
  <2> QED
    BY <1>4, <2>1, <2>3, <2>4, ReaderAssumption DEF PostArrives, Carried, Frames
<1>5. ASSUME NEW t \in Threads, PostSwallowed(t) \/ PostOversize(t) \/ PostFails(t)
      PROVE  Aside
  <2>1. UNCHANGED <<tx, lensRx, toLens, linkUp>> /\ lock' = Nobody
    BY <1>5 DEF PostSwallowed, PostOversize, PostFails, Release, hostVars, lensVars,
                linkVars
  <2> QED
    BY <1>1, <2>1 DEF Aside
<1>6. CASE LensReceives
  <2>1. toLens # << >> /\ toLens' = Tail(toLens) /\ UNCHANGED <<tx, lock, linkUp>>
    BY <1>6 DEF LensReceives, hostVars, sendVars, linkVars
  <2>2. Len(toLens') = Len(toLens) - 1
    BY <1>0, <2>1, TailStep DEF TypeOK
  <2>3. sent' = sent
    BY <1>0, <2>2 DEF DNext, Record
  <2>4. CASE Verifies(Head(toLens), lensRx)
    <3>1. lensRx' = lensRx + 1 /\ Head(toLens).ctr = lensRx + 1
      BY <1>6, <2>4 DEF LensReceives, Verifies
    <3>2. lensRx' # lensRx
      BY <1>0, <3>1
    <3>3. lensHeard' = Append(lensHeard, Head(toLens).msg)
      BY <3>2 DEF DNext, Record
    <3> QED
      BY <2>1, <2>3, <3>1, <3>3 DEF Accepted
  <2>5. CASE ~Verifies(Head(toLens), lensRx)
    <3>1. lensRx' = lensRx
      BY <1>6, <2>5 DEF LensReceives
    <3>2. lensHeard' = lensHeard
      BY <3>1 DEF DNext, Record
    <3> QED
      BY <2>1, <2>3, <3>1, <3>2 DEF Rejected
  <2> QED
    BY <2>4, <2>5
<1>7. CASE LinkDrops \/ CloseTransport
  <2>1. toLens' = << >> /\ ~linkUp' /\ UNCHANGED <<tx, lock, lensRx>>
    BY <1>7 DEF LinkDrops, CloseTransport, hostVars, lensVars, sendVars
  <2>2. Len(toLens') = 0
    BY <2>1
  <2>3. UNCHANGED <<sent, lensHeard>>
    BY <1>0, <2>1, <2>2 DEF DNext, Record
  <2> QED
    BY <2>1, <2>3 DEF Dropped
<1>8. ASSUME \/ Read \/ ReadBegins \/ ReadNothing \/ ReadFails \/ LensSendsPlain
             \/ \E m \in LensMsg : LensSends(m)
      PROVE  Aside
  <2>1. UNCHANGED <<tx, lock, lensRx, toLens, linkUp>>
    BY <1>8 DEF Read, ReadFails, ReadBegins, ReadNothing, LensSends, LensSendsPlain,
                hostVars, lensVars,
                sendVars, linkVars
  <2> QED
    BY <1>1, <2>1 DEF Aside
<1>9. Next
  BY DEF DNext
<1> QED
  BY <1>2, <1>3, <1>4, <1>5, <1>6, <1>7, <1>8, <1>9 DEF Next, ReadRound, Post

(* Frames leave no message out: the frames on their way are the last ones  *)
(* sent.  The counter of each is no less than its place among the          *)
(* messages sent, as each took a counter of its own, and the place of the  *)
(* first is beyond what the camera heard.  So a frame that verifies, whose *)
(* counter is the next one, is the next message.                           *)
UpTypes ==
  /\ sent \in Seq(HostMsg) /\ lensHeard \in Seq(HostMsg)
  /\ Len(lensHeard) = lensRx
  /\ toLens # << >> => linkUp

UpCounts ==
  /\ lensRx + Len(toLens) <= Len(sent)
  /\ Len(sent) <= tx
  /\ lock # Nobody => Len(sent) < tx
  /\ \A i \in 1..Len(toLens) : Len(sent) + i <= toLens[i].ctr + Len(toLens)

UpPlaces ==
  \A i \in 1..Len(toLens) : sent[(Len(sent) - Len(toLens)) + i] = toLens[i].msg

UpInv == UpTypes /\ UpCounts /\ UpPlaces

LEMMA UplinkKept ==
  ASSUME WireInv, UpInv, [DNext]_dvars
  PROVE  UpInv'
<1>0. /\ TypeOK /\ tx \in Nat /\ lensRx \in Nat /\ Len(toLens) \in Nat
      /\ \A i \in 1..Len(toLens) : toLens[i].ctr \in Nat /\ toLens[i].msg \in HostMsg
      /\ Len(sent) \in Nat /\ Len(lensHeard) \in Nat
  BY FramesOf, LenProperties DEF WireInv, UpInv, UpTypes
<1>1. ASSUME NEW t \in Threads, Carried(t) PROVE UpInv'
  <2>0. /\ frame[t] \in Frames(HostMsg) /\ frame[t].msg \in HostMsg /\ frame[t].ctr = tx
        /\ lock # Nobody /\ lock' = Nobody /\ linkUp'
        /\ UNCHANGED <<tx, lensRx, lensHeard>>
    BY <1>0, <1>1 DEF Carried, TypeOK
  <2>1. /\ Len(toLens') = Len(toLens) + 1
        /\ \A i \in 1..Len(toLens) : toLens'[i] = toLens[i]
        /\ toLens'[Len(toLens) + 1] = frame[t]
    BY <1>0, <1>1, <2>0, AppendStep DEF Carried, TypeOK
  <2>2. /\ sent' \in Seq(HostMsg)
        /\ Len(sent') = Len(sent) + 1
        /\ \A i \in 1..Len(sent) : sent'[i] = sent[i]
        /\ sent'[Len(sent) + 1] = frame[t].msg
    BY <1>1, <2>0, AppendStep DEF Carried, UpInv, UpTypes
  <2>3. UpTypes'
    BY <2>0, <2>2 DEF UpInv, UpTypes
  <2>4. UpCounts'
    <3>1. Len(sent) < tx
      BY <2>0 DEF UpInv, UpCounts
    <3>2. lensRx + Len(toLens') <= Len(sent')
      BY <1>0, <2>1, <2>2 DEF UpInv, UpCounts
    <3>3. ASSUME NEW i \in 1..Len(toLens')
          PROVE  Len(sent') + i <= toLens'[i].ctr + Len(toLens')
      <4>1. CASE i \in 1..Len(toLens)
        <5>1. Len(sent) + i <= toLens[i].ctr + Len(toLens)
          BY <4>1 DEF UpInv, UpCounts
        <5>2. toLens[i].ctr \in Nat /\ toLens'[i].ctr = toLens[i].ctr
          BY <1>0, <2>1, <4>1
        <5> QED
          BY <1>0, <2>1, <2>2, <5>1, <5>2
      <4>2. CASE i = Len(toLens) + 1
        BY <1>0, <2>0, <2>1, <2>2, <3>1, <4>2
      <4> QED
        BY <1>0, <2>1, <4>1, <4>2
    <3> QED
      BY <1>0, <2>0, <2>2, <3>1, <3>2, <3>3 DEF UpCounts
  <2>5. ASSUME NEW i \in 1..Len(toLens')
        PROVE  sent'[(Len(sent') - Len(toLens')) + i] = toLens'[i].msg
    <3>1. Len(sent') - Len(toLens') = Len(sent) - Len(toLens)
      BY <1>0, <2>1, <2>2
    <3>2. CASE i \in 1..Len(toLens)
      <4>1. (Len(sent) - Len(toLens)) + i \in 1..Len(sent)
        BY <1>0, <3>2 DEF UpInv, UpCounts
      <4> QED
        BY <2>1, <2>2, <3>1, <3>2, <4>1 DEF UpInv, UpPlaces
    <3>3. CASE i = Len(toLens) + 1
      <4>1. (Len(sent) - Len(toLens)) + i = Len(sent) + 1
        BY <1>0, <3>3
      <4> QED
        BY <2>1, <2>2, <3>1, <3>3, <4>1
    <3> QED
      BY <1>0, <2>1, <3>2, <3>3
  <2> QED
    BY <2>3, <2>4, <2>5 DEF UpInv, UpPlaces
<1>2. ASSUME Accepted \/ Rejected PROVE UpInv'
  <2>0. /\ toLens # << >> /\ toLens' = Tail(toLens)
        /\ UNCHANGED <<tx, lock, linkUp, sent>>
    BY <1>2 DEF Accepted, Rejected
  <2>1. /\ Len(toLens) \in Nat \ {0} /\ Len(toLens') = Len(toLens) - 1
        /\ \A i \in 1..Len(toLens') : toLens'[i] = toLens[i + 1]
        /\ Head(toLens) = toLens[1]
    BY <1>0, <2>0, TailStep DEF TypeOK
  <2>2. lensHeard' \in Seq(HostMsg) /\ Len(lensHeard') = lensRx' /\ lensRx' \in {lensRx, lensRx + 1}
    <3>1. CASE Accepted
      <4>1. toLens[1].msg \in HostMsg
        BY <1>0, <2>1
      <4>2. lensHeard' = Append(lensHeard, toLens[1].msg) /\ lensRx' = lensRx + 1
        BY <2>1, <3>1 DEF Accepted
      <4> QED
        BY <4>1, <4>2, AppendStep DEF UpInv, UpTypes
    <3>2. CASE Rejected
      BY <3>2 DEF Rejected, UpInv, UpTypes
    <3> QED
      BY <1>2, <3>1, <3>2
  <2>3. UpTypes'
    BY <2>0, <2>2 DEF UpInv, UpTypes
  <2>4. \A i \in 1..Len(toLens') : i + 1 \in 1..Len(toLens)
    BY <2>1
  <2>5. UpCounts'
    <3>1. lensRx' + Len(toLens') <= Len(sent)
      BY <1>0, <2>1, <2>2 DEF UpInv, UpCounts
    <3>2. ASSUME NEW i \in 1..Len(toLens')
          PROVE  Len(sent) + i <= toLens'[i].ctr + Len(toLens')
      <4>1. Len(sent) + (i + 1) <= toLens[i + 1].ctr + Len(toLens)
        BY <2>4 DEF UpInv, UpCounts
      <4>2. toLens[i + 1].ctr \in Nat /\ toLens'[i].ctr = toLens[i + 1].ctr
        BY <1>0, <2>1, <2>4
      <4>3. Len(toLens') + 1 = Len(toLens) /\ i \in Nat /\ Len(toLens') \in Nat
        BY <1>0, <2>1
      <4>4. \A c, l \in Nat : Len(sent) + (i + 1) <= c + (l + 1) => Len(sent) + i <= c + l
        BY <1>0, <4>3
      <4> QED
        BY <4>1, <4>2, <4>3, <4>4
    <3> QED
      BY <2>0, <3>1, <3>2 DEF UpInv, UpCounts
  <2>6. ASSUME NEW i \in 1..Len(toLens')
        PROVE  sent[(Len(sent) - Len(toLens')) + i] = toLens'[i].msg
    <3>1. (Len(sent) - Len(toLens')) + i = (Len(sent) - Len(toLens)) + (i + 1)
      BY <1>0, <2>1
    <3> QED
      BY <2>1, <2>4, <3>1 DEF UpInv, UpPlaces
  <2> QED
    BY <2>0, <2>3, <2>5, <2>6 DEF UpInv, UpPlaces
<1>3. ASSUME Dropped PROVE UpInv'
  <2>1. Len(toLens') = 0 /\ UNCHANGED <<tx, lock, sent, lensRx, lensHeard>> /\ toLens' = << >>
    BY <1>3 DEF Dropped
  <2>2. UpCounts'
    BY <1>0, <2>1 DEF UpInv, UpCounts
  <2> QED
    BY <2>1, <2>2 DEF UpInv, UpTypes, UpPlaces
<1>4. ASSUME Aside PROVE UpInv'
  <2>1. UpCounts'
    BY <1>0, <1>4 DEF Aside, UpInv, UpCounts
  <2> QED
    BY <1>4, <2>1 DEF Aside, UpInv, UpTypes, UpPlaces
<1>5. ASSUME UNCHANGED dvars PROVE UpInv'
  BY <1>5 DEF dvars, vars, hostVars, lensVars, sendVars, linkVars, history,
              UpInv, UpTypes, UpCounts, UpPlaces
<1> QED
  BY <1>1, <1>2, <1>3, <1>4, <1>5, UplinkMoves

LEMMA UplinkStep ==
  ASSUME WireInv, UpInv, [DNext]_dvars
  PROVE  [UpPipe!Next]_(UpPipe!pipeVars)
<1> USE DEF UpPipe!pipeVars
<1>1. ASSUME NEW t \in Threads, Carried(t) PROVE UpPipe!Push
  BY <1>1 DEF Carried, UpPipe!Push
<1>2. ASSUME Accepted PROVE UpPipe!Pop
  <2>1. /\ Len(toLens) \in Nat \ {0} /\ Head(toLens) = toLens[1]
        /\ toLens[1].ctr \in Nat /\ lensRx \in Nat /\ Len(sent) \in Nat
    BY <1>2, FramesOf, TailStep, LenProperties DEF Accepted, WireInv, TypeOK, UpInv, UpTypes
  <2>2. lensRx + Len(toLens) <= Len(sent) /\ Len(sent) + 1 <= toLens[1].ctr + Len(toLens)
    BY <2>1 DEF UpInv, UpCounts
  <2>3. toLens[1].ctr = lensRx + 1
    BY <1>2, <2>1 DEF Accepted
  <2>4. (Len(sent) - Len(toLens)) + 1 = lensRx + 1 /\ lensRx < Len(sent)
    BY <2>1, <2>2, <2>3
  <2>5. sent[lensRx + 1] = toLens[1].msg
    BY <2>1, <2>4 DEF UpInv, UpPlaces
  <2>6. linkUp /\ linkUp' /\ Len(lensHeard) = lensRx
    BY <1>2 DEF Accepted, UpInv, UpTypes
  <2>7. lensHeard' = Append(lensHeard, sent[Len(lensHeard) + 1]) /\ sent' = sent
    BY <1>2, <2>1, <2>5, <2>6 DEF Accepted
  <2> QED
    BY <2>4, <2>6, <2>7, Zenon DEF UpPipe!Pop
<1>3. ASSUME Dropped PROVE UpPipe!Close
  BY <1>3 DEF Dropped, UpPipe!Close
<1>4. ASSUME Rejected \/ Aside \/ UNCHANGED dvars
      PROVE  UNCHANGED <<sent, lensHeard, linkUp>>
  BY <1>4 DEF Rejected, Aside, dvars, vars, linkVars, history
<1> QED
  BY <1>1, <1>2, <1>3, <1>4, UplinkMoves DEF UpPipe!Next

LEMMA UplinkInvariant == DSpec => []UpInv
<1>1. DInit => UpInv
  <2> SUFFICES ASSUME DInit PROVE UpInv
    OBVIOUS
  <2>1. /\ tx = 0 /\ lensRx = 0 /\ lock = Nobody /\ toLens = << >>
        /\ sent = << >> /\ lensHeard = << >>
    BY DEF DInit, Init
  <2>2. Len(toLens) = 0 /\ Len(sent) = 0 /\ Len(lensHeard) = 0
    BY <2>1
  <2>3. sent \in Seq(HostMsg) /\ lensHeard \in Seq(HostMsg)
    BY <2>1, EmptySeq
  <2> QED
    BY <2>1, <2>2, <2>3 DEF UpInv, UpTypes, UpCounts, UpPlaces
<1>2. WireInv /\ UpInv /\ [DNext]_dvars => UpInv'
  BY UplinkKept
<1> QED
  BY <1>1, <1>2, ChannelHolds, PTL DEF DSpec

(* The camera hears what the host wrote, in the order it was written, none *)
(* twice and none left out, for any number of threads that share the lock  *)
(* and whichever of their writes fail, and nothing at all after the first  *)
(* message that was left out (_send_enc, SecureSession.encrypt).           *)
THEOREM UplinkIsAPipe == DSpec => UpPipe!Spec
<1>1. WireInv /\ UpInv /\ [DNext]_dvars => [UpPipe!Next]_(UpPipe!pipeVars)
  BY UplinkStep
<1>2. DInit => UpPipe!Init
  BY DEF DInit, Init, UpPipe!Init
<1> QED
  BY <1>1, <1>2, UplinkInvariant, ChannelHolds, PTL DEF DSpec, UpPipe!Spec

-----------------------------------------------------------------------------
(* What finding a message too long does to the uplink.  Its counter has    *)
(* been consumed, so fewer messages were sent than counters were taken,    *)
(* and a frame that is sealed afterwards is too late for the camera.       *)
GapInv ==
  refused => Len(sent) < tx /\ (lock # Nobody => Len(sent) + 1 < tx)

Deaf ==
  /\ refused
  /\ lensRx < tx /\ (lock # Nobody => lensRx + 1 < tx)
  /\ \A i \in 1..Len(toLens) : lensRx + 1 < toLens[i].ctr

LEMMA RefusedMoves ==
  ASSUME WireInv, DNext
  PROVE  \/ refused' = refused
         \/ /\ lock # Nobody /\ lock' = Nobody
            /\ UNCHANGED <<tx, lensRx, toLens, sent>>
<1>1. ASSUME NEW t \in Threads, PostOversize(t)
      PROVE  /\ lock # Nobody /\ lock' = Nobody
             /\ UNCHANGED <<tx, lensRx, toLens, sent>>
  <2>1. lock = t /\ lock' = Nobody /\ UNCHANGED <<tx, lensRx, toLens>>
    BY <1>1 DEF PostOversize, Release, WireInv, Holding, hostVars, lensVars
  <2>2. Len(toLens) \in Nat
    BY FramesOf DEF WireInv
  <2>3. sent' = sent
    BY <2>1, <2>2 DEF DNext, Record
  <2> QED
    BY <2>1, <2>3, ReaderAssumption
<1>2. ASSUME \/ \E t \in Threads : \/ \E m \in HostMsg : Seal(t, m)
                                   \/ SealOverflow(t)
                                   \/ PostArrives(t) \/ PostSwallowed(t) \/ PostFails(t)
             \/ Read \/ ReadBegins \/ ReadNothing \/ ReadFails \/ LensReceives
             \/ (\E m \in LensMsg : LensSends(m))
             \/ LensSendsPlain \/ LinkDrops \/ CloseTransport
      PROVE  refused' = refused
  BY <1>2 DEF Seal, SealOverflow, PostArrives, PostSwallowed, PostFails, Read, ReadFails,
              ReadBegins, ReadNothing, LensReceives, LensSends, LensSendsPlain, LinkDrops, CloseTransport, sendVars
<1>3. Next
  BY DEF DNext
<1> QED
  BY <1>1, <1>2, <1>3 DEF Next, ReadRound, Post

LEMMA GapKept ==
  ASSUME WireInv, UpInv, GapInv, [DNext]_dvars
  PROVE  GapInv'
<1>0. /\ tx \in Nat /\ Len(sent) \in Nat
      /\ (lock # Nobody => Len(sent) < tx)
  BY FramesOf, LenProperties DEF WireInv, UpInv, UpTypes, UpCounts
<1>1. CASE UNCHANGED dvars
  BY <1>1 DEF dvars, vars, hostVars, sendVars, history, GapInv
<1>2. CASE DNext /\ refused' # refused
  BY <1>0, <1>2, RefusedMoves DEF GapInv
<1>3. CASE DNext /\ refused' = refused
  <2>1. ASSUME NEW t \in Threads, Carried(t) PROVE GapInv'
    <3>1. Len(sent') = Len(sent) + 1
      BY <2>1, AppendStep DEF Carried, UpInv, UpTypes
    <3>2. lock # Nobody /\ lock' = Nobody /\ tx' = tx
      BY <2>1 DEF Carried
    <3> QED
      BY <1>0, <1>3, <3>1, <3>2 DEF GapInv
  <2>2. ASSUME Accepted \/ Rejected \/ Dropped PROVE GapInv'
    BY <1>3, <2>2 DEF Accepted, Rejected, Dropped, GapInv
  <2>3. ASSUME Aside PROVE GapInv'
    BY <1>0, <1>3, <2>3 DEF Aside, GapInv
  <2> QED
    BY <1>3, <2>1, <2>2, <2>3, UplinkMoves
<1> QED
  BY <1>1, <1>2, <1>3

LEMMA DeafStays ==
  ASSUME WireInv, Deaf, [DNext]_dvars
  PROVE  Deaf' /\ lensHeard' = lensHeard
<1>0. /\ TypeOK /\ tx \in Nat /\ lensRx \in Nat /\ Len(toLens) \in Nat
      /\ \A i \in 1..Len(toLens) : toLens[i].ctr \in Nat
  BY FramesOf DEF WireInv
<1>1. CASE UNCHANGED dvars
  BY <1>1 DEF dvars, vars, hostVars, lensVars, sendVars, history, Deaf
<1>2. CASE DNext
  <2>0. refused'
    BY <1>2 DEF DNext, Next, ReadRound, Post, Deaf, Seal, SealOverflow, PostArrives, PostSwallowed,
       PostOversize, PostFails, Read, ReadFails, ReadBegins, ReadNothing, LensReceives,
       LensSends, LensSendsPlain,
       LinkDrops, CloseTransport, sendVars
  <2>1. ASSUME NEW t \in Threads, Carried(t) PROVE Deaf' /\ lensHeard' = lensHeard
    <3>1. /\ frame[t] \in Frames(HostMsg) /\ frame[t].ctr = tx
          /\ lock # Nobody /\ lock' = Nobody /\ UNCHANGED <<tx, lensRx, lensHeard>>
      BY <1>0, <2>1 DEF Carried, TypeOK
    <3>2. /\ Len(toLens') = Len(toLens) + 1
          /\ \A i \in 1..Len(toLens) : toLens'[i] = toLens[i]
          /\ toLens'[Len(toLens) + 1] = frame[t]
      BY <1>0, <2>1, <3>1, AppendStep DEF Carried, TypeOK
    <3>3. \A i \in 1..Len(toLens') : i \in 1..Len(toLens) \/ i = Len(toLens) + 1
      BY <1>0, <3>2
    <3> QED
      BY <1>0, <2>0, <3>1, <3>2, <3>3 DEF Deaf
  <2>2. ~Accepted
    <3>1. ASSUME Accepted PROVE FALSE
      <4>1. Len(toLens) \in Nat \ {0} /\ Head(toLens) = toLens[1]
        BY <1>0, <3>1, TailStep DEF Accepted, TypeOK
      <4>2. toLens[1].ctr = lensRx + 1 /\ 1 \in 1..Len(toLens)
        BY <3>1, <4>1 DEF Accepted
      <4> QED
        BY <1>0, <4>2 DEF Deaf
    <3> QED
      BY <3>1
  <2>3. ASSUME Rejected PROVE Deaf' /\ lensHeard' = lensHeard
    <3>1. /\ Len(toLens') = Len(toLens) - 1
          /\ \A i \in 1..Len(toLens') : toLens'[i] = toLens[i + 1]
      BY <1>0, <2>3, TailStep DEF Rejected, TypeOK
    <3>2. \A i \in 1..Len(toLens') : i + 1 \in 1..Len(toLens)
      BY <1>0, <3>1
    <3>3. UNCHANGED <<tx, lock, lensRx, lensHeard>>
      BY <2>3 DEF Rejected
    <3> QED
      BY <2>0, <3>1, <3>2, <3>3 DEF Deaf
  <2>4. ASSUME Dropped PROVE Deaf' /\ lensHeard' = lensHeard
    <3>1. Len(toLens') = 0 /\ UNCHANGED <<tx, lock, lensRx, lensHeard>>
      BY <2>4 DEF Dropped
    <3> QED
      BY <2>0, <3>1 DEF Deaf
  <2>5. ASSUME Aside PROVE Deaf' /\ lensHeard' = lensHeard
    BY <1>0, <2>0, <2>5 DEF Aside, Deaf
  <2> QED
    BY <1>2, <2>1, <2>2, <2>3, <2>4, <2>5, UplinkMoves
<1> QED
  BY <1>1, <1>2

(* A frame the transport refuses as too long silences the uplink for good: *)
(* once what was on its way is gone, the camera hears nothing of what is   *)
(* sent afterwards, for the rest of the session (encrypt takes the counter *)
(* before post_write has seen the frame, and _send_enc does not undo it).  *)
THEOREM RefusalSilences ==
  DSpec => []((refused /\ toLens = << >>) => [][lensHeard' = lensHeard]_dvars)
<1>1. DInit => GapInv
  BY DEF DInit, Init, GapInv
<1>2. WireInv /\ UpInv /\ GapInv /\ [DNext]_dvars => GapInv'
  BY GapKept
<1>3. WireInv /\ UpInv /\ GapInv /\ refused /\ toLens = << >> => Deaf
  <2> SUFFICES ASSUME WireInv, UpInv, GapInv, refused, toLens = << >>
               PROVE  Deaf
    OBVIOUS
  <2>1. /\ tx \in Nat /\ lensRx \in Nat /\ Len(sent) \in Nat /\ Len(toLens) = 0
        /\ lensRx <= Len(sent)
    BY FramesOf, LenProperties DEF WireInv, UpInv, UpTypes, UpCounts
  <2> QED
    BY <2>1 DEF GapInv, Deaf
<1>4. WireInv /\ Deaf /\ [DNext]_dvars => Deaf' /\ [lensHeard' = lensHeard]_dvars
  BY DeafStays
<1> QED
  BY <1>1, <1>2, <1>3, <1>4, UplinkInvariant, ChannelHolds, PTL DEF DSpec

-----------------------------------------------------------------------------
(* The downlink.  The steps of the channel by what they do to it.          *)
LensPuts(m) ==
  /\ lensTx' = lensTx + 1
  /\ toHost' = Append(toHost, [ctr |-> lensTx + 1, msg |-> m])
  /\ lensSent' = Append(lensSent, m)
  /\ UNCHANGED <<rx, heard, alive, reading>>

StrayPut ==
  /\ toHost' = Append(toHost, [ctr |-> 0, msg |-> Plain])
  /\ UNCHANGED <<lensTx, lensSent, rx, heard, alive, reading>>

Decrypted ==
  /\ reading /\ ~reading' /\ alive' \in {alive, FALSE}
  /\ toHost # << >> /\ toHost' = Tail(toHost)
  /\ Head(toHost).ctr = rx + 1
  /\ rx' = rx + 1
  /\ heard' = Append(heard, Head(toHost).msg)
  /\ UNCHANGED <<lensTx, lensSent>>

Skipped ==
  /\ reading /\ ~reading' /\ alive' \in {alive, FALSE}
  /\ toHost # << >> /\ toHost' = Tail(toHost)
  /\ UNCHANGED <<lensTx, lensSent, rx, heard>>

CutShort ==
  /\ \E n \in 0..Len(toHost) : toHost' = SubSeq(toHost, 1, n)
  /\ UNCHANGED <<lensTx, lensSent, rx, heard, alive, reading>>

(* A read may begin or end and the flag may fall; the host does not begin  *)
(* to listen again, and all else of the downlink is as it was.             *)
Listens == alive \/ reading

Besides ==
  /\ Listens' => Listens
  /\ UNCHANGED <<toHost, lensTx, lensSent, rx, heard>>

LEMMA DownlinkMoves ==
  ASSUME TypeOK, DNext
  PROVE  \/ \E m \in LensMsg : LensPuts(m)
         \/ StrayPut \/ Decrypted \/ Skipped \/ CutShort \/ Besides
<1>0. TypeOK /\ rx \in Nat /\ lensTx \in Nat /\ Len(toHost) \in Nat
  BY FramesOf
<1>1. rx' = rx => heard' = heard
  BY DEF DNext, Record
<1>2. lensTx' = lensTx => lensSent' = lensSent
  BY DEF DNext, Record
<1>3. ASSUME NEW m \in LensMsg, LensSends(m) PROVE LensPuts(m)
  <2> DEFINE e == [ctr |-> lensTx + 1, msg |-> m]
  <2>1. e \in Frames(LensMsg \cup {Plain}) /\ e.msg = m
    BY <1>0 DEF Frames
  <2>2. /\ toHost' = Append(toHost, e) /\ lensTx' = lensTx + 1 /\ lensTx' # lensTx
        /\ UNCHANGED <<rx, alive, reading>>
    BY <1>0, <1>3 DEF LensSends, hostVars, linkVars
  <2> HIDE DEF e
  <2>3. Len(toHost') = Len(toHost) + 1 /\ toHost'[Len(toHost) + 1] = e
    BY <1>0, <2>1, <2>2, AppendStep DEF TypeOK
  <2>4. Newest(toHost') = m
    BY <2>1, <2>3 DEF Newest
  <2>5. lensSent' = Append(lensSent, m)
    BY <2>2, <2>4 DEF DNext, Record
  <2> QED
    BY <1>1, <2>2, <2>5 DEF LensPuts, e
<1>4. CASE LensSendsPlain
  BY <1>1, <1>2, <1>4 DEF LensSendsPlain, StrayPut, hostVars, lensVars, linkVars
<1>5. CASE Read
  <2>1. /\ toHost # << >> /\ toHost' = Tail(toHost)
        /\ reading /\ ~reading' /\ alive' \in {alive, FALSE}
        /\ UNCHANGED <<lensTx>>
    BY <1>5 DEF Read, lensVars
  <2>2. lensSent' = lensSent
    BY <1>2, <2>1
  <2>3. CASE Verifies(Head(toHost), rx)
    <3>1. rx' = rx + 1 /\ Head(toHost).ctr = rx + 1
      BY <1>5, <2>3 DEF Read, Verifies
    <3>2. rx' # rx
      BY <1>0, <3>1
    <3>3. heard' = Append(heard, Head(toHost).msg)
      BY <3>2 DEF DNext, Record
    <3> QED
      BY <2>1, <2>2, <3>1, <3>3 DEF Decrypted
  <2>4. CASE ~Verifies(Head(toHost), rx)
    <3>1. rx' = rx
      BY <1>5, <2>4 DEF Read
    <3> QED
      BY <1>1, <2>1, <2>2, <3>1 DEF Skipped
  <2> QED
    BY <2>3, <2>4
<1>6. CASE LinkDrops
  BY <1>1, <1>2, <1>6 DEF LinkDrops, CutShort, hostVars, lensVars
<1>7. ASSUME \/ \E t \in Threads : \/ \E m \in HostMsg : Seal(t, m)
                                   \/ SealOverflow(t) \/ Post(t)
             \/ ReadBegins \/ ReadNothing \/ ReadFails \/ LensReceives \/ CloseTransport
      PROVE  Besides
  <2>1. UNCHANGED <<rx, lensTx, toHost>> /\ (Listens' => Listens)
    BY <1>7 DEF Seal, SealOverflow, Post, PostArrives, PostSwallowed, PostOversize,
                PostFails, Report, ReadFails, ReadBegins, ReadNothing, LensReceives,
                CloseTransport, hostVars,
                lensVars, linkVars, Listens
  <2> QED
    BY <1>1, <1>2, <2>1 DEF Besides
<1>8. Next
  BY DEF DNext
<1> QED
  BY <1>3, <1>4, <1>5, <1>6, <1>7, <1>8 DEF Next, ReadRound

(* A genuine indication has the message its counter says, so the one that  *)
(* decrypts is the next message, strays and lost ones or not.              *)
DownTypes ==
  /\ lensSent \in Seq(LensMsg) /\ Len(lensSent) = lensTx
  /\ heard \in Seq(LensMsg) /\ Len(heard) = rx

DownPlaces ==
  \A i \in 1..Len(toHost) :
    toHost[i].ctr # 0 =>
      toHost[i].ctr \in 1..lensTx /\ toHost[i].msg = lensSent[toHost[i].ctr]

DownInv == DownTypes /\ DownPlaces

LEMMA DownlinkKept ==
  ASSUME TypeOK, DownInv, [DNext]_dvars
  PROVE  DownInv'
<1>0. /\ rx \in Nat /\ lensTx \in Nat /\ Len(toHost) \in Nat
      /\ \A i \in 1..Len(toHost) : toHost[i].ctr \in Nat
  BY FramesOf
<1>1. ASSUME NEW m \in LensMsg, LensPuts(m) PROVE DownInv'
  <2> DEFINE e == [ctr |-> lensTx + 1, msg |-> m]
  <2>1. e \in Frames(LensMsg \cup {Plain}) /\ e.msg = m /\ e.ctr = lensTx + 1
    BY <1>0 DEF Frames
  <2>2. toHost' = Append(toHost, e) /\ lensSent' = Append(lensSent, m)
        /\ lensTx' = lensTx + 1 /\ UNCHANGED <<rx, heard>>
    BY <1>1 DEF LensPuts
  <2> HIDE DEF e
  <2>3. /\ Len(toHost') = Len(toHost) + 1
        /\ \A i \in 1..Len(toHost) : toHost'[i] = toHost[i]
        /\ toHost'[Len(toHost) + 1] = e
    BY <2>1, <2>2, AppendStep DEF TypeOK
  <2>4. /\ lensSent' \in Seq(LensMsg) /\ Len(lensSent') = lensTx + 1
        /\ \A i \in 1..lensTx : lensSent'[i] = lensSent[i]
        /\ lensSent'[lensTx + 1] = m
    BY <2>2, AppendStep DEF DownInv, DownTypes
  <2>5. ASSUME NEW i \in 1..Len(toHost'), toHost'[i].ctr # 0
        PROVE  toHost'[i].ctr \in 1..lensTx' /\ toHost'[i].msg = lensSent'[toHost'[i].ctr]
    <3>1. CASE i \in 1..Len(toHost)
      <4>1. toHost'[i] = toHost[i]
        BY <2>3, <3>1
      <4>2. toHost[i].ctr \in 1..lensTx /\ toHost[i].msg = lensSent[toHost[i].ctr]
        BY <2>5, <3>1, <4>1 DEF DownInv, DownPlaces
      <4>3. toHost[i].ctr \in 1..(lensTx + 1)
        BY <1>0, <4>2
      <4> QED
        BY <2>2, <2>4, <4>1, <4>2, <4>3
    <3>2. CASE i = Len(toHost) + 1
      <4>1. lensTx + 1 \in 1..(lensTx + 1)
        BY <1>0
      <4> QED
        BY <2>1, <2>2, <2>3, <2>4, <3>2, <4>1
    <3> QED
      BY <1>0, <2>3, <3>1, <3>2
  <2> QED
    BY <2>2, <2>4, <2>5 DEF DownInv, DownTypes, DownPlaces
<1>2. CASE StrayPut
  <2> DEFINE e == [ctr |-> 0, msg |-> Plain]
  <2>1. e \in Frames(LensMsg \cup {Plain}) /\ e.ctr = 0
    BY DEF Frames
  <2>2. toHost' = Append(toHost, e) /\ UNCHANGED <<lensTx, lensSent, rx, heard>>
    BY <1>2 DEF StrayPut
  <2> HIDE DEF e
  <2>3. /\ Len(toHost') = Len(toHost) + 1
        /\ \A i \in 1..Len(toHost) : toHost'[i] = toHost[i]
        /\ toHost'[Len(toHost) + 1] = e
    BY <2>1, <2>2, AppendStep DEF TypeOK
  <2>4. \A i \in 1..Len(toHost') : toHost'[i].ctr # 0 => i \in 1..Len(toHost)
    BY <1>0, <2>1, <2>3
  <2> QED
    BY <2>2, <2>3, <2>4 DEF DownInv, DownTypes, DownPlaces
<1>3. CASE Decrypted \/ Skipped
  <2>1. /\ toHost # << >> /\ toHost' = Tail(toHost)
        /\ UNCHANGED <<lensTx, lensSent>>
    BY <1>3 DEF Decrypted, Skipped
  <2>2. /\ Len(toHost) \in Nat \ {0} /\ Len(toHost') = Len(toHost) - 1
        /\ \A i \in 1..Len(toHost') : toHost'[i] = toHost[i + 1]
        /\ Head(toHost) = toHost[1]
    BY <2>1, TailStep DEF TypeOK
  <2>3. DownTypes'
    <3>1. CASE Decrypted
      <4>1. toHost[1].ctr = rx + 1 /\ heard' = Append(heard, toHost[1].msg) /\ rx' = rx + 1
        BY <2>2, <3>1 DEF Decrypted
      <4>2. 1 \in 1..Len(toHost) /\ toHost[1].ctr # 0
        BY <1>0, <2>2, <4>1
      <4>3. toHost[1].ctr \in 1..lensTx /\ toHost[1].msg = lensSent[toHost[1].ctr]
        BY <4>2 DEF DownInv, DownPlaces
      <4>4. toHost[1].msg \in LensMsg
        BY <4>3, ElementOfSeq DEF DownInv, DownTypes
      <4> QED
        BY <2>1, <4>1, <4>4, AppendStep DEF DownInv, DownTypes
    <3>2. CASE Skipped
      BY <3>2 DEF Skipped, DownInv, DownTypes
    <3> QED
      BY <1>3, <3>1, <3>2
  <2>4. \A i \in 1..Len(toHost') : i + 1 \in 1..Len(toHost)
    BY <2>2
  <2>5. DownPlaces'
    BY <2>1, <2>2, <2>4 DEF DownInv, DownPlaces
  <2> QED
    BY <2>3, <2>5 DEF DownInv
<1>4. CASE CutShort
  <2>1. PICK n \in 0..Len(toHost) : toHost' = SubSeq(toHost, 1, n)
    BY <1>4 DEF CutShort
  <2>2. Len(toHost') = n /\ \A i \in 1..n : toHost'[i] = toHost[i]
    BY <2>1, PrefixStep DEF TypeOK
  <2>3. \A i \in 1..n : i \in 1..Len(toHost)
    BY <1>0
  <2>4. UNCHANGED <<lensTx, lensSent, rx, heard>>
    BY <1>4 DEF CutShort
  <2>5. DownPlaces'
    BY <2>2, <2>3, <2>4 DEF DownInv, DownPlaces
  <2> QED
    BY <2>4, <2>5 DEF DownInv, DownTypes
<1>5. CASE Besides \/ UNCHANGED dvars
  BY <1>5 DEF Besides, dvars, vars, hostVars, lensVars, history, DownInv, DownTypes,
              DownPlaces
<1> QED
  BY <1>1, <1>2, <1>3, <1>4, <1>5, DownlinkMoves

LEMMA DownlinkStep ==
  ASSUME TypeOK, DownInv, [DNext]_dvars
  PROVE  [DownPipe!Next]_(DownPipe!pipeVars)
<1> USE DEF DownPipe!pipeVars
<1>1. ASSUME NEW m \in LensMsg, LensPuts(m) PROVE DownPipe!Push
  BY <1>1 DEF LensPuts, DownPipe!Push
<1>2. ASSUME Decrypted PROVE DownPipe!Pop
  <2>1. /\ Len(toHost) \in Nat \ {0} /\ Head(toHost) = toHost[1]
        /\ rx \in Nat /\ lensTx \in Nat
    BY <1>2, FramesOf, TailStep DEF Decrypted, TypeOK
  <2>2. toHost[1].ctr = rx + 1 /\ 1 \in 1..Len(toHost) /\ rx + 1 # 0
    BY <1>2, <2>1 DEF Decrypted
  <2>3. rx + 1 \in 1..lensTx /\ toHost[1].msg = lensSent[rx + 1]
    BY <2>2 DEF DownInv, DownPlaces
  <2>4. Len(heard) = rx /\ Len(lensSent) = lensTx
    BY DEF DownInv, DownTypes
  <2>5. Len(heard) < Len(lensSent)
    BY <2>1, <2>3, <2>4
  <2>6. heard' = Append(heard, lensSent[Len(heard) + 1]) /\ lensSent' = lensSent
    BY <1>2, <2>1, <2>3, <2>4 DEF Decrypted
  <2>7. (alive \/ reading) /\ (alive' \/ reading') \in {TRUE, FALSE}
    BY <1>2, Zenon DEF Decrypted
  <2> QED
    BY <2>5, <2>6, <2>7, Zenon DEF DownPipe!Pop
<1>3. ASSUME StrayPut \/ CutShort \/ UNCHANGED dvars PROVE UNCHANGED <<lensSent, heard, alive, reading>>
  BY <1>3 DEF StrayPut, CutShort, dvars, vars, hostVars, linkVars, history
<1>4. ASSUME Skipped \/ Besides
      PROVE  UNCHANGED <<lensSent, heard, alive \/ reading>> \/ DownPipe!Close
  <2>1. UNCHANGED <<lensSent, heard>> /\ (Listens' => Listens)
    BY <1>4 DEF Skipped, Besides, Listens
  <2>2. CASE Listens'
    BY <2>1, <2>2, Zenon DEF Listens
  <2>3. CASE ~Listens'
    BY <2>1, <2>3, Zenon DEF Listens, DownPipe!Close
  <2> QED
    BY <2>2, <2>3
<1> QED
  BY <1>1, <1>2, <1>3, <1>4, DownlinkMoves DEF DownPipe!Next

(* The host hears what the camera sent, in order, none twice and none left *)
(* out, whatever stray plaintext comes in between and wherever the link    *)
(* drops; and once the transport is known to be dead, at most the message  *)
(* of the read under way (_read_raw, SecureSession.decrypt).               *)
THEOREM DownlinkIsAPipe == DSpec => DownPipe!Spec
<1>1. DInit => DownInv
  <2> SUFFICES ASSUME DInit PROVE DownInv
    OBVIOUS
  <2>1. lensTx = 0 /\ rx = 0 /\ toHost = << >> /\ lensSent = << >> /\ heard = << >>
    BY DEF DInit, Init
  <2>2. Len(toHost) = 0 /\ Len(lensSent) = 0 /\ Len(heard) = 0
    BY <2>1
  <2>3. lensSent \in Seq(LensMsg) /\ heard \in Seq(LensMsg)
    BY <2>1, EmptySeq
  <2> QED
    BY <2>1, <2>2, <2>3 DEF DownInv, DownTypes, DownPlaces
<1>2. TypeOK /\ DownInv /\ [DNext]_dvars => DownInv'
  BY DownlinkKept
<1>3. TypeOK /\ DownInv /\ [DNext]_dvars => [DownPipe!Next]_(DownPipe!pipeVars)
  BY DownlinkStep
<1>4. DInit => DownPipe!Init
  BY DEF DInit, Init, DownPipe!Init
<1>5. WireInv => TypeOK
  BY DEF WireInv
<1> QED
  BY <1>1, <1>2, <1>3, <1>4, <1>5, ChannelHolds, PTL DEF DSpec, DownPipe!Spec
=============================================================================
