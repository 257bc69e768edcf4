---------------------------- MODULE CameraProofs ----------------------------
(***************************************************************************)
(* Proofs about Camera, for any number of keepalive threads, any request   *)
(* types and states and any counter width.  What is true of the channel    *)
(* beneath is taken from ChannelProofs, once every step of Camera is       *)
(* known to be a step of the channel or to leave it alone.                 *)
(***************************************************************************)
EXTENDS Camera, SequencesExt, SequenceTheorems, FiniteSetTheorems, TLAPS

(* What the proofs need to know of queues: what appending to one, reading  *)
(* from one, cutting one off and taking an element out of its middle make  *)
(* of it, place by place.                                                  *)

(* q is r without its first d messages, and perhaps without its last.      *)
Rest(q, r, d) == \A i \in 1..Len(q) : i + d \in 1..Len(r) /\ q[i] = r[i + d]

LEMMA RestOfQueue ==
  ASSUME NEW S, NEW q \in Seq(S)
  PROVE  /\ Rest(q, q, 0) /\ Rest(<< >>, q, 0)
         /\ q # << >> => Rest(Tail(q), q, 1)
         /\ \A n \in 0..Len(q) : Rest(SubSeq(q, 1, n), q, 0)
<1>1. Len(q) \in Nat
  BY LenProperties
<1>2. Rest(q, q, 0)
  BY <1>1 DEF Rest
<1>3. Rest(<< >>, q, 0)
  <2>1. Len(<< >>) = 0
    BY EmptySeq
  <2> QED
    BY <2>1 DEF Rest
<1>4. ASSUME q # << >> PROVE Rest(Tail(q), q, 1)
  <2>1. Len(Tail(q)) = Len(q) - 1 /\ \A i \in 1..Len(Tail(q)) : Tail(q)[i] = q[i + 1]
    BY <1>4, HeadTailProperties
  <2>2. \A i \in 1..Len(Tail(q)) : i + 1 \in 1..Len(q)
    BY <1>1, <2>1
  <2> QED
    BY <2>1, <2>2 DEF Rest
<1>5. ASSUME NEW n \in 0..Len(q) PROVE Rest(SubSeq(q, 1, n), q, 0)
  <2>1. n \in Int /\ 1 \in Int /\ \A i \in 1..n : q[i] \in S /\ i \in 1..Len(q)
    BY <1>1, ElementOfSeq
  <2>2. /\ Len(SubSeq(q, 1, n)) = IF 1 <= n THEN n - 1 + 1 ELSE 0
        /\ \A i \in 1..(n - 1 + 1) : SubSeq(q, 1, n)[i] = q[1 + i - 1]
    BY <2>1, SubSeqProperties
  <2>3. \A i \in 1..Len(SubSeq(q, 1, n)) : i + 0 \in 1..Len(q) /\ SubSeq(q, 1, n)[i] = q[i + 0]
    BY <2>1, <2>2
  <2> QED
    BY <2>3 DEF Rest
<1> QED
  BY <1>2, <1>3, <1>4, <1>5

LEMMA QueueGrows ==
  ASSUME NEW S, NEW q \in Seq(S), NEW m \in S
  PROVE  /\ Append(q, m) \in Seq(S) /\ Len(q) \in Nat /\ Len(Append(q, m)) = Len(q) + 1
         /\ \A i \in 1..Len(q) : Append(q, m)[i] = q[i]
         /\ Append(q, m)[Len(q) + 1] = m
         /\ \A i \in 1..Len(Append(q, m)) : i \in 1..Len(q) \/ i = Len(q) + 1
BY AppendProperties, LenProperties

(* RemoveAt, the del of a list.                                            *)
LEMMA Removal ==
  ASSUME NEW S, NEW q \in Seq(S), NEW i \in 1..Len(q)
  PROVE  /\ RemoveAt(q, i) \in Seq(S) /\ Len(q) \in Nat
         /\ Len(RemoveAt(q, i)) = Len(q) - 1
         /\ \A j \in 1..(Len(q) - 1) :
              RemoveAt(q, i)[j] = IF j < i THEN q[j] ELSE q[j + 1]
<1>1. Len(q) \in Nat /\ i \in Int /\ \A j \in 1..Len(q) : q[j] \in S
  BY LenProperties, ElementOfSeq
<1>2. /\ SubSeq(q, 1, i - 1) \in Seq(S) /\ Len(SubSeq(q, 1, i - 1)) = i - 1
      /\ \A j \in 1..(i - 1) : SubSeq(q, 1, i - 1)[j] = q[j]
  <2>1. 1 \in Int /\ i - 1 \in Int /\ \A j \in 1..(i - 1) : q[j] \in S
    BY <1>1
  <2>2. /\ SubSeq(q, 1, i - 1) \in Seq(S)
        /\ Len(SubSeq(q, 1, i - 1)) = IF 1 <= i - 1 THEN i - 1 - 1 + 1 ELSE 0
        /\ \A j \in 1..(i - 1 - 1 + 1) : SubSeq(q, 1, i - 1)[j] = q[1 + j - 1]
    BY ONLY <2>1, SubSeqProperties
  <2> QED
    BY <1>1, <2>2
<1>3. /\ SubSeq(q, i + 1, Len(q)) \in Seq(S) /\ Len(SubSeq(q, i + 1, Len(q))) = Len(q) - i
      /\ \A j \in 1..(Len(q) - i) : SubSeq(q, i + 1, Len(q))[j] = q[i + j]
  <2>1. i + 1 \in Int /\ Len(q) \in Int /\ \A j \in (i + 1)..Len(q) : q[j] \in S
    BY <1>1
  <2>2. /\ SubSeq(q, i + 1, Len(q)) \in Seq(S)
        /\ Len(SubSeq(q, i + 1, Len(q))) = IF i + 1 <= Len(q) THEN Len(q) - (i + 1) + 1 ELSE 0
        /\ \A j \in 1..(Len(q) - (i + 1) + 1) :
             SubSeq(q, i + 1, Len(q))[j] = q[(i + 1) + j - 1]
    BY ONLY <2>1, SubSeqProperties
  <2> QED
    BY <1>1, <2>2
<1> DEFINE a == SubSeq(q, 1, i - 1)
           b == SubSeq(q, i + 1, Len(q))
<1>4. /\ a \o b \in Seq(S) /\ Len(a \o b) = Len(a) + Len(b)
      /\ \A j \in 1..(Len(a) + Len(b)) :
           (a \o b)[j] = IF j <= Len(a) THEN a[j] ELSE b[j - Len(a)]
  BY <1>2, <1>3, ConcatProperties
<1>5. RemoveAt(q, i) = a \o b
  BY DEF RemoveAt
<1>6. /\ Len(a) = i - 1 /\ Len(b) = Len(q) - i
      /\ \A j \in 1..(i - 1) : a[j] = q[j]
      /\ \A j \in 1..(Len(q) - i) : b[j] = q[i + j]
  BY <1>2, <1>3
<1> HIDE DEF a, b
<1>7. ASSUME NEW j \in 1..(Len(q) - 1)
      PROVE  (a \o b)[j] = IF j < i THEN q[j] ELSE q[j + 1]
  <2>1. j \in 1..(Len(a) + Len(b))
    BY <1>1, <1>6
  <2>2. CASE j < i
    BY <1>1, <1>4, <1>6, <2>1, <2>2
  <2>3. CASE ~(j < i)
    <3>1. j - (i - 1) \in 1..(Len(q) - i) /\ i + (j - (i - 1)) = j + 1 /\ ~(j <= i - 1)
      BY <1>1, <2>3
    <3> QED
      BY <1>4, <1>6, <2>1, <2>3, <3>1
  <2> QED
    BY <2>2, <2>3
<1>8. Len(a) + Len(b) = Len(q) - 1
  BY <1>1, <1>6
<1> QED
  BY <1>1, <1>4, <1>5, <1>7, <1>8

-----------------------------------------------------------------------------

Threads == {Worker} \cup Keepers

(* ChannelProofs is about the channel and, further on, its histories; only *)
(* the channel is used here, and the histories are left empty.             *)
ChP == INSTANCE ChannelProofs
         WITH Reader <- Worker, Nobody <- None, HostMsg <- Requests,
              LensMsg <- LensMessages, Oversize <- LongRequests,
              sent <- << >>, lensHeard <- << >>, lensSent <- << >>, heard <- << >>

(* The constants are such as the channel assumes.                          *)
LEMMA ChannelAssumptions ==
  /\ Worker \in Threads /\ None \notin Threads
  /\ LongRequests \subseteq Requests /\ Plain \notin LensMessages
  /\ CounterMax \in Nat \ {0} /\ WindowMax \in Nat \ {0}
BY NamesAssumption, PlainAssumption, BoundAssumption DEF Threads, LongRequests

-----------------------------------------------------------------------------
(* Types, beyond the channel's.                                            *)
CallTypes ==
  /\ sess \in BOOLEAN /\ closing \in BOOLEAN
  /\ pc \in {"idle", "write", "scan", "wait", "poll", "join", "shut", "unset", "closed"}
  /\ call \in Requests \cup {NoRequest}
  /\ pc \in {"write", "scan", "wait"} => call \in Requests
  /\ pc \in {"scan", "wait"} => call.type \in Types

KeeperTypes ==
  /\ handle \in Keepers \cup {None}
  /\ stopping \subseteq Keepers
  /\ keeper \in [Keepers -> {"new", "asleep", "due", "writing", "done"}]

(* Strays are what carries no counter.                                     *)
StrayInv ==
  \A i \in 1..Len(toHost) :
    /\ toHost[i].ctr = 0 => toHost[i].msg = Plain
    /\ toHost[i].ctr # 0 => toHost[i].msg \in LensMessages

InboxTypes ==
  /\ pending \in Seq(LensMessages)
  /\ mirror \in States /\ shown \in States
  /\ got \subseteq LensMessages
  /\ replies \subseteq [request : Requests, answer : LensMessages]

TodoTypes == todo \subseteq Requests

-----------------------------------------------------------------------------
(* A step of Camera is a step of the channel, or none.                     *)
Step == [ChP!Next]_(ChP!vars)

LEMMA ChannelStep ==
  ASSUME ChP!TypeOK, TodoTypes, [Next]_vars
  PROVE  Step
<1> USE DEF Threads, Step
<1>1. ASSUME NEW t \in Threads, NEW ty \in Types \cup {KeepAlive}, Ch!Seal(t, NewRequest(ty))
      PROVE  Step
  <2>1. NewRequest(ty) \in Requests
    BY <1>1, BoundAssumption DEF Ch!Seal, NewRequest, Requests, ChP!TypeOK
  <2>2. ChP!Seal(t, NewRequest(ty))
    BY <1>1 DEF Ch!Seal, ChP!Seal, Ch!lensVars, ChP!lensVars, Ch!linkVars, ChP!linkVars
  <2> QED
    BY <2>1, <2>2 DEF ChP!Next
<1>2. ASSUME NEW t \in Threads, Ch!SealOverflow(t) PROVE Step
  BY <1>2 DEF Ch!SealOverflow, ChP!SealOverflow, ChP!Next, Ch!lensVars, ChP!lensVars,
     Ch!linkVars, ChP!linkVars, Ch!sendVars, ChP!sendVars
<1>3. ASSUME NEW t \in Threads,
             \/ Ch!PostArrives(t) \/ Ch!PostSwallowed(t)
             \/ Ch!PostOversize(t) \/ Ch!PostFails(t)
      PROVE  Step
  <2>1. \/ ChP!PostArrives(t) \/ ChP!PostSwallowed(t)
        \/ ChP!PostOversize(t) \/ ChP!PostFails(t)
    BY <1>3 DEF Ch!PostArrives, ChP!PostArrives, Ch!PostSwallowed, ChP!PostSwallowed,
       Ch!PostFails, Ch!PostOversize, ChP!PostFails, ChP!PostOversize, Ch!Report,
       ChP!Report, Ch!Release, ChP!Release, Ch!NoFrame, ChP!NoFrame, Ch!hostVars,
       ChP!hostVars, Ch!lensVars, ChP!lensVars, Ch!linkVars, ChP!linkVars
  <2> QED
    BY <2>1 DEF ChP!Post, ChP!Next
<1>4. ASSUME Ch!Read \/ Ch!ReadFails \/ Ch!ReadBegins \/ Ch!ReadNothing PROVE Step
  <2>1. CASE Ch!Read \/ Ch!ReadFails
    BY <2>1 DEF Ch!Read, ChP!Read, Ch!ReadFails, ChP!ReadFails, Ch!Verifies, ChP!Verifies,
       Ch!Report, ChP!Report, ChP!ReadRound, ChP!Next, Ch!lensVars, ChP!lensVars,
       Ch!sendVars, ChP!sendVars
  <2>2. CASE Ch!ReadBegins \/ Ch!ReadNothing
    BY <2>2 DEF Ch!ReadBegins, ChP!ReadBegins, Ch!ReadNothing, ChP!ReadNothing,
       ChP!ReadRound, ChP!Next, Ch!lensVars, ChP!lensVars, Ch!sendVars, ChP!sendVars,
       Ch!linkVars, ChP!linkVars
  <2> QED
    BY <1>4, <2>1, <2>2
<1>5. ASSUME NEW m \in LensMessages, Ch!LensSends(m) PROVE Step
  <2>1. ChP!LensSends(m)
    BY <1>5 DEF Ch!LensSends, ChP!LensSends, Ch!hostVars, ChP!hostVars, Ch!sendVars,
       ChP!sendVars, Ch!linkVars, ChP!linkVars
  <2> QED
    BY <2>1 DEF ChP!Next
<1>6. ASSUME Ch!LensReceives \/ Ch!LensSendsPlain \/ Ch!LinkDrops \/ Ch!CloseTransport
      PROVE  Step
  BY <1>6 DEF Ch!LensReceives, ChP!LensReceives, Ch!LensSendsPlain, ChP!LensSendsPlain,
     Ch!LinkDrops, ChP!LinkDrops, Ch!CloseTransport, ChP!CloseTransport, ChP!Next,
     Ch!Verifies, ChP!Verifies, Ch!hostVars, ChP!hostVars, Ch!sendVars,
     ChP!sendVars, Ch!linkVars, ChP!linkVars, Ch!lensVars, ChP!lensVars
<1>7. ASSUME UNCHANGED channelVars PROVE Step
  BY <1>7 DEF channelVars, ChP!vars, ChP!hostVars, ChP!sendVars, ChP!linkVars,
     ChP!lensVars
<1> HIDE DEF Step
<1>8. CASE (\E ty \in Types \cup {KeepAlive} : Call(ty)) \/ CallOverflows
  BY <1>1, <1>2, <1>8 DEF Call, CallOverflows
<1>9. CASE WriteReturns \/ WriteRaises \/ WriteRefused
  BY <1>3, <1>9 DEF WriteReturns, WriteRaises, WriteRefused
<1>10. CASE ReadStray \/ ReadOverflows \/ ReadAbsorbed \/ ReadReply \/ ReadOther
  BY <1>4, <1>10 DEF ReadStray, ReadOverflows, ReadAbsorbed, ReadReply, ReadOther
<1>11. CASE ReadRaises \/ ReadGoesOn
  BY <1>4, <1>11 DEF ReadRaises, ReadGoesOn
<1>12. CASE \E k \in Keepers : KeeperRuns(k)
  <2>1. PICK k \in Keepers : KeeperRuns(k)
    BY <1>12
  <2>2. CASE KeeperWakes(k) \/ KeeperQuits(k)
    BY <1>7, <2>2 DEF KeeperWakes, KeeperQuits
  <2>3. CASE KeeperBeats(k)
    BY <1>1, <2>3 DEF KeeperBeats
  <2>4. CASE KeeperPosts(k)
    BY <1>3, <2>4 DEF KeeperPosts
  <2>5. CASE KeeperDies(k)
    BY <1>2, <1>3, <1>7, <2>5 DEF KeeperDies, Exhausted
  <2> QED
    BY <2>1, <2>2, <2>3, <2>4, <2>5 DEF KeeperRuns
<1>13. CASE LensReceives \/ Surroundings \/ CloseTransport
  BY <1>6, <1>13 DEF LensReceives, Surroundings, CloseTransport
<1>14. CASE \E r \in todo, s \in States \cup {None} : LensAnswers(r, s)
  <2>1. PICK r \in todo, s \in States \cup {None} : LensAnswers(r, s)
    BY <1>14
  <2>2. [type |-> r.type, seq |-> r.seq, state |-> s] \in LensMessages
    BY BoundAssumption DEF TodoTypes, Requests, LensMessages
  <2> QED
    BY <1>5, <2>1, <2>2 DEF LensAnswers
<1>15. CASE \E s \in States : LensNotifies(s)
  <2>1. PICK s \in States : LensNotifies(s)
    BY <1>15
  <2>2. [type |-> None, seq |-> 0, state |-> s] \in LensMessages
    BY BoundAssumption DEF LensMessages
  <2> QED
    BY <1>5, <2>1, <2>2 DEF LensNotifies
<1>16. CASE \/ StartPoll \/ (\E k \in Keepers : StartKeepalive(k)) \/ StopKeepalive \/ Close
            \/ ScanFinds \/ ScanFindsNothing \/ TimesOut \/ JoinReturns \/ DropSession
            \/ UNCHANGED vars
  BY <1>7, <1>16 DEF StartPoll, StartKeepalive, StopKeepalive, Close, ScanFinds,
     ScanFindsNothing, TimesOut, JoinReturns, DropSession, vars
<1> QED
  BY <1>8, <1>9, <1>10, <1>11, <1>12, <1>13, <1>14, <1>15, <1>16
     DEF Next, WorkerRuns, Step

(* What the camera has to answer are requests that the host has made.      *)
LEMMA TodoTypesKept ==
  ASSUME ChP!TypeOK, TodoTypes, [Next]_vars
  PROVE  TodoTypes'
<1> USE DEF TodoTypes
<1>1. CASE LensReceives
  <2>1. toLens # << >> /\ toLens \in Seq(ChP!Frames(Requests))
    BY <1>1 DEF LensReceives, Ch!LensReceives, ChP!TypeOK
  <2>2. Head(toLens) \in ChP!Frames(Requests)
    BY <2>1, HeadTailProperties
  <2>3. Head(toLens).msg \in Requests
    BY <2>2 DEF ChP!Frames
  <2> QED
    BY <1>1, <2>3 DEF LensReceives
<1>2. CASE \E r \in todo, s \in States \cup {None} : LensAnswers(r, s)
  BY <1>2 DEF LensAnswers
<1>3. CASE UNCHANGED todo
  BY <1>3
<1>4. CASE \/ (\E ty \in Types \cup {KeepAlive} : Call(ty)) \/ CallOverflows \/ StartPoll
           \/ (\E k \in Keepers : StartKeepalive(k)) \/ StopKeepalive \/ Close
           \/ (\E k \in Keepers : KeeperRuns(k)) \/ (\E s \in States : LensNotifies(s))
           \/ Surroundings \/ UNCHANGED vars
  BY <1>3, <1>4 DEF Call, CallOverflows, StartPoll, StartKeepalive, StopKeepalive, Close,
     KeeperRuns, KeeperWakes, KeeperQuits, KeeperBeats, KeeperPosts, KeeperDies,
     KeeperGoes, LensNotifies, Surroundings, lensOwn, vars
<1>5. CASE WorkerRuns
  BY <1>3, <1>5 DEF WorkerRuns, WriteReturns, WriteRaises, WriteRefused, ScanFinds,
     ScanFindsNothing, ReadStray, ReadOverflows, ReadAbsorbed, ReadReply, ReadOther,
     ReadRaises, TimesOut, ReadGoesOn, JoinReturns, CloseTransport, DropSession, lensOwn
<1> QED
  BY <1>1, <1>2, <1>4, <1>5 DEF Next

(* What ChannelProofs shows of the channel, for the channel of a Camera.   *)
ChannelInv == ChP!WireInv /\ ChP!DownSyncInv /\ TodoTypes

LEMMA ChannelKept == Spec => []ChannelInv
<1>1. Init => ChP!Init /\ TodoTypes
  BY DEF Init, TodoTypes, Ch!Init, ChP!Init, Ch!NoFrame, ChP!NoFrame, Threads
<1>2. ChP!Init => ChP!TypeOK
  BY ChannelAssumptions, ChP!InitTyped
  DEF ChP!ReaderAssumption, ChP!MsgAssumption, ChP!BoundAssumption
<1>3. ChP!TypeOK /\ [ChP!Next]_(ChP!vars) => ChP!TypeOK'
  BY ChannelAssumptions, ChP!TypesKept
  DEF ChP!ReaderAssumption, ChP!MsgAssumption, ChP!BoundAssumption
<1>4. ChP!TypeOK /\ TodoTypes /\ [Next]_vars => [ChP!Next]_(ChP!vars) /\ TodoTypes'
  BY ChannelStep, TodoTypesKept DEF Step
<1>5. ChP!Spec => []ChP!WireInv
  BY ChannelAssumptions, ChP!WireKept
  DEF ChP!ReaderAssumption, ChP!MsgAssumption, ChP!BoundAssumption
<1>6. ChP!Spec => []ChP!DownSyncInv
  BY ChannelAssumptions, ChP!DownSyncKept
  DEF ChP!ReaderAssumption, ChP!MsgAssumption, ChP!BoundAssumption
<1>7. Spec => [](ChP!TypeOK /\ TodoTypes)
  BY <1>1, <1>2, <1>3, <1>4, PTL DEF Spec
<1>8. Spec => ChP!Spec
  BY <1>1, <1>4, <1>7, PTL DEF Spec, ChP!Spec
<1> QED
  BY <1>5, <1>6, <1>7, <1>8, PTL DEF ChannelInv

(* The same, in the words of the proofs below.                             *)
LEMMA ChannelFacts ==
  ASSUME ChannelInv
  PROVE  /\ tx \in Nat /\ rx \in Nat /\ lensRx \in Nat /\ lensTx \in Nat /\ lensRx <= tx
         /\ CounterMax \in Nat \ {0}
         /\ toLens \in Seq(ChP!Frames(Requests)) /\ Len(toLens) \in Nat
         /\ toHost \in Seq(ChP!Frames(LensMessages \cup {Plain})) /\ Len(toHost) \in Nat
         /\ \A i \in 1..Len(toLens) :
              toLens[i].ctr \in Nat /\ toLens[i].msg \in Requests /\ lensRx < toLens[i].ctr
         /\ \A i \in 1..Len(toHost) :
              /\ toHost[i].ctr \in Nat /\ toHost[i].ctr <= CounterMax
              /\ toHost[i].msg \in LensMessages \cup {Plain}
         /\ \A t \in Threads : frame[t] # Ch!NoFrame =>
              frame[t].ctr = tx /\ frame[t].msg \in Requests /\ lock = t
<1> USE DEF ChannelInv, ChP!WireInv, ChP!DownSyncInv, ChP!TypeOK
<1>1. \A i \in 1..Len(toLens) : toLens[i] \in ChP!Frames(Requests)
  BY ElementOfSeq
<1>2. \A i \in 1..Len(toHost) : toHost[i] \in ChP!Frames(LensMessages \cup {Plain})
  BY ElementOfSeq
<1>3. \A i \in 1..Len(toLens) :
        toLens[i].ctr \in Nat /\ toLens[i].msg \in Requests /\ lensRx < toLens[i].ctr
  BY <1>1 DEF ChP!Frames, ChP!WireOrder
<1>4. \A i \in 1..Len(toHost) :
        /\ toHost[i].ctr \in Nat /\ toHost[i].ctr <= CounterMax
        /\ toHost[i].msg \in LensMessages \cup {Plain}
  BY <1>2 DEF ChP!Frames
<1>5. \A t \in Threads : frame[t] # Ch!NoFrame =>
        frame[t].ctr = tx /\ frame[t].msg \in Requests /\ lock = t
  BY DEF ChP!Holding, Ch!NoFrame, ChP!NoFrame, ChP!Frames
<1> QED
  BY <1>3, <1>4, <1>5, LenProperties, BoundAssumption

(* The host reads the camera's messages in step: an indication that is not *)
(* a stray decrypts.                                                       *)
LEMMA GenuineDecrypts ==
  ASSUME ChannelInv, toHost # << >>
  PROVE  /\ 1 \in 1..Len(toHost) /\ Head(toHost) = toHost[1]
         /\ Decrypts <=> toHost[1].ctr # 0
<1>1. 1 \in 1..Len(toHost) /\ Head(toHost) = toHost[1]
  BY ChannelFacts, EmptySeq, HeadTailProperties
<1>2. toHost[1].ctr # 0 => toHost[1].ctr = rx + 1
  BY <1>1 DEF ChannelInv, ChP!DownSyncInv, ChP!DownlinkInSync, ChP!IsStray
<1>3. toHost[1].ctr <= CounterMax /\ rx \in Nat /\ CounterMax \in Nat
  BY <1>1, ChannelFacts
<1> QED
  BY <1>1, <1>2, <1>3 DEF Decrypts, Ch!Verifies

-----------------------------------------------------------------------------
(* The worker reads, the link cuts off, and only the camera adds to what   *)
(* waits to be read.                                                       *)
Hears == ReadStray \/ ReadOverflows \/ ReadAbsorbed \/ ReadReply \/ ReadOther

Shrinks(q) == \E d \in {0, 1} : Rest(q', q, d)

LEMMA HostQueue ==
  ASSUME ChannelInv, [Next]_vars
  PROVE  \/ Shrinks(toHost) /\ (UNCHANGED toHost \/ Hears \/ (Surroundings /\ ~linkUp'))
         \/ \E r \in todo, s \in States \cup {None} : LensAnswers(r, s)
         \/ \E s \in States : LensNotifies(s)
         \/ Ch!LensSendsPlain /\ Surroundings
<1>0. toHost \in Seq(ChP!Frames(LensMessages \cup {Plain}))
  BY ChannelFacts
<1>1. ASSUME UNCHANGED toHost PROVE Shrinks(toHost) /\ UNCHANGED toHost
  BY <1>0, <1>1, RestOfQueue DEF Shrinks
<1>2. ASSUME Hears PROVE Shrinks(toHost)
  <2>1. toHost # << >> /\ toHost' = Tail(toHost)
    BY <1>2 DEF Hears, ReadStray, ReadOverflows, ReadAbsorbed, ReadReply, ReadOther,
       Ch!Read
  <2> QED
    BY <1>0, <2>1, RestOfQueue DEF Shrinks
<1>3. ASSUME Ch!LinkDrops PROVE Shrinks(toHost) /\ ~linkUp'
  <2>1. ~linkUp' /\ \E n \in 0..Len(toHost) : toHost' = SubSeq(toHost, 1, n)
    BY <1>3 DEF Ch!LinkDrops
  <2> QED
    BY <1>0, <2>1, RestOfQueue DEF Shrinks
<1>4. CASE \/ (\E ty \in Types \cup {KeepAlive} : Call(ty)) \/ CallOverflows \/ StartPoll
           \/ (\E k \in Keepers : StartKeepalive(k)) \/ StopKeepalive \/ Close
           \/ UNCHANGED vars \/ LensReceives
  BY <1>1, <1>4 DEF Call, CallOverflows, StartPoll, StartKeepalive, StopKeepalive, Close,
     vars, channelVars, LensReceives, Ch!Seal, Ch!SealOverflow, Ch!LensReceives
<1>5. CASE \E k \in Keepers : KeeperRuns(k)
  BY <1>1, <1>5 DEF KeeperRuns, KeeperWakes, KeeperQuits, KeeperBeats, KeeperPosts,
     KeeperDies, Exhausted, channelVars, Ch!Seal, Ch!SealOverflow, Ch!PostArrives,
     Ch!PostSwallowed, Ch!PostFails, Ch!PostOversize
<1>6. CASE \/ WriteReturns \/ WriteRaises \/ WriteRefused \/ ScanFinds
           \/ ScanFindsNothing \/ ReadRaises
           \/ TimesOut \/ ReadGoesOn \/ JoinReturns \/ CloseTransport \/ DropSession
  BY <1>1, <1>6 DEF WriteReturns, WriteRaises, WriteRefused, ScanFinds,
     ScanFindsNothing, ReadRaises, TimesOut, ReadGoesOn, JoinReturns, CloseTransport,
     DropSession, channelVars, Ch!PostArrives, Ch!PostSwallowed, Ch!PostFails,
     Ch!PostOversize, Ch!ReadFails, Ch!ReadBegins, Ch!ReadNothing, Ch!CloseTransport
<1>7. CASE Surroundings
  BY <1>3, <1>7 DEF Surroundings
<1> QED
  BY <1>2, <1>4, <1>5, <1>6, <1>7 DEF Next, WorkerRuns, Hears

LEMMA StrayKept ==
  ASSUME ChannelInv, StrayInv, [Next]_vars
  PROVE  StrayInv'
<1>0. lensTx \in Nat /\ toHost \in Seq(ChP!Frames(LensMessages \cup {Plain}))
  BY ChannelFacts
<1>1. CASE Shrinks(toHost)
  BY <1>1 DEF Shrinks, Rest, StrayInv
<1>2. ASSUME NEW m \in LensMessages, toHost' = Append(toHost, [ctr |-> lensTx + 1, msg |-> m])
      PROVE  StrayInv'
  <2> DEFINE f == [ctr |-> lensTx + 1, msg |-> m]
  <2>1. f \in ChP!Frames(LensMessages \cup {Plain}) /\ f.ctr # 0 /\ f.msg = m
    BY <1>0 DEF ChP!Frames
  <2> HIDE DEF f
  <2>2. \A i \in 1..Len(toHost') :
          (i \in 1..Len(toHost) /\ toHost'[i] = toHost[i]) \/ toHost'[i] = f
    BY <1>0, <1>2, <2>1, QueueGrows DEF f
  <2> QED
    BY <1>2, <2>1, <2>2 DEF StrayInv
<1>3. CASE Ch!LensSendsPlain
  <2> DEFINE f == [ctr |-> 0, msg |-> Plain]
  <2>1. f \in ChP!Frames(LensMessages \cup {Plain}) /\ f.ctr = 0 /\ f.msg = Plain
    BY <1>0 DEF ChP!Frames
  <2>2. toHost' = Append(toHost, f)
    BY <1>3 DEF Ch!LensSendsPlain
  <2> HIDE DEF f
  <2>3. \A i \in 1..Len(toHost') :
          (i \in 1..Len(toHost) /\ toHost'[i] = toHost[i]) \/ toHost'[i] = f
    BY <1>0, <2>1, <2>2, QueueGrows
  <2> QED
    BY <2>1, <2>3 DEF StrayInv
<1>4. CASE \E r \in todo, s \in States \cup {None} : LensAnswers(r, s)
  <2>1. PICK r \in todo, s \in States \cup {None} : LensAnswers(r, s)
    BY <1>4
  <2>2. [type |-> r.type, seq |-> r.seq, state |-> s] \in LensMessages
    BY BoundAssumption DEF ChannelInv, TodoTypes, Requests, LensMessages
  <2> QED
    BY <1>2, <2>1, <2>2 DEF LensAnswers, Ch!LensSends
<1>5. CASE \E s \in States : LensNotifies(s)
  <2>1. PICK s \in States : LensNotifies(s)
    BY <1>5
  <2>2. [type |-> None, seq |-> 0, state |-> s] \in LensMessages
    BY BoundAssumption DEF LensMessages
  <2> QED
    BY <1>2, <2>1, <2>2 DEF LensNotifies, Ch!LensSends
<1> QED
  BY <1>1, <1>3, <1>4, <1>5, HostQueue

-----------------------------------------------------------------------------
(* What the worker hears is what the camera has said.                      *)
LEMMA Hearing ==
  ASSUME ChannelInv, StrayInv, Decrypts
  PROVE  /\ 1 \in 1..Len(toHost) /\ Incoming = toHost[1].msg
         /\ toHost[1].ctr # 0 /\ Incoming \in LensMessages
<1>1. toHost # << >>
  BY DEF Decrypts
<1>2. 1 \in 1..Len(toHost) /\ Head(toHost) = toHost[1] /\ toHost[1].ctr # 0
  BY <1>1, GenuineDecrypts
<1> QED
  BY <1>2 DEF Incoming, StrayInv

LEMMA CallTypesKept ==
  ASSUME ChannelInv, CallTypes, [Next]_vars
  PROVE  CallTypes'
<1> USE DEF CallTypes
<1>1. CASE \E ty \in Types \cup {KeepAlive} : Call(ty)
  <2>1. PICK ty \in Types \cup {KeepAlive} : Call(ty)
    BY <1>1
  <2>2. NewRequest(ty) \in Requests
    BY <2>1, ChannelFacts DEF Call, Ch!Seal, NewRequest, Requests
  <2> QED
    BY <2>1, <2>2 DEF Call
<1>2. CASE WriteReturns
  BY <1>2 DEF WriteReturns, Requests
<1>3. CASE UNCHANGED callVars
  BY <1>3 DEF callVars
<1>4. CASE \/ CallOverflows \/ (\E k \in Keepers : StartKeepalive(k))
           \/ (\E k \in Keepers : KeeperRuns(k)) \/ ReadStray \/ ReadGoesOn
           \/ ReadAbsorbed \/ ReadOther
           \/ (\E r \in todo, s \in States \cup {None} : LensAnswers(r, s))
           \/ LensReceives \/ (\E s \in States : LensNotifies(s))
           \/ Surroundings \/ UNCHANGED vars
  BY <1>3, <1>4 DEF CallOverflows, StartKeepalive, KeeperRuns, KeeperWakes, KeeperQuits,
     KeeperBeats, KeeperPosts, KeeperDies, KeeperGoes, LensNotifies, Surroundings,
     ReadStray, ReadGoesOn, ReadAbsorbed, ReadOther, LensAnswers, LensReceives, vars
<1>5. CASE \/ StartPoll \/ WriteRaises \/ WriteRefused \/ ScanFinds \/ ReadReply
           \/ ReadOverflows \/ ReadRaises \/ TimesOut
  BY <1>5 DEF StartPoll, WriteRaises, WriteRefused, ScanFinds, ReadReply, ReadOverflows,
     ReadRaises, TimesOut, ReturnAnswer
<1>6. CASE ScanFindsNothing
  BY <1>6 DEF ScanFindsNothing
<1>7. CASE StopKeepalive \/ Close \/ JoinReturns \/ CloseTransport \/ DropSession
  BY <1>7 DEF StopKeepalive, Close, SetStop, JoinReturns, CloseTransport, DropSession
<1> QED
  BY <1>1, <1>2, <1>4, <1>5, <1>6, <1>7 DEF Next, WorkerRuns

LEMMA KeeperTypesKept ==
  ASSUME KeeperTypes, [Next]_vars
  PROVE  KeeperTypes'
<1> USE DEF KeeperTypes
<1>1. CASE UNCHANGED keeperVars
  BY <1>1 DEF keeperVars
<1>2. CASE \E k \in Keepers : StartKeepalive(k)
  BY <1>2 DEF StartKeepalive
<1>3. CASE \E k \in Keepers : KeeperRuns(k)
  BY <1>3 DEF KeeperRuns, KeeperWakes, KeeperQuits, KeeperBeats, KeeperPosts, KeeperDies,
     KeeperGoes
<1>4. CASE StopKeepalive \/ Close \/ JoinReturns
  BY <1>4 DEF StopKeepalive, Close, SetStop, JoinReturns
<1>5. CASE \/ CallOverflows \/ StartPoll \/ (\E ty \in Types \cup {KeepAlive} : Call(ty))
           \/ (\E r \in todo, s \in States \cup {None} : LensAnswers(r, s))
           \/ LensReceives \/ (\E s \in States : LensNotifies(s))
           \/ Surroundings \/ UNCHANGED vars
  BY <1>1, <1>5 DEF CallOverflows, StartPoll, Call, LensAnswers, LensReceives,
     LensNotifies, Surroundings, vars
<1>6. CASE \/ WriteReturns \/ WriteRaises \/ WriteRefused \/ ScanFinds
           \/ ScanFindsNothing \/ ReadStray \/ ReadOverflows
           \/ ReadAbsorbed \/ ReadReply \/ ReadOther \/ ReadRaises \/ TimesOut \/ ReadGoesOn
           \/ CloseTransport \/ DropSession
  BY <1>1, <1>6 DEF WriteReturns, WriteRaises, WriteRefused, ScanFinds,
     ScanFindsNothing, ReadStray, ReadOverflows, ReadAbsorbed, ReadReply, ReadOther,
     ReadRaises, TimesOut, ReadGoesOn, CloseTransport, DropSession
<1> QED
  BY <1>2, <1>3, <1>4, <1>5, <1>6 DEF Next, WorkerRuns

LEMMA InboxTypesKept ==
  ASSUME ChannelInv, StrayInv, CallTypes, InboxTypes, [Next]_vars
  PROVE  InboxTypes'
<1> USE DEF InboxTypes
<1>1. ASSUME NEW m \in LensMessages, UpdateFrom(m) PROVE mirror' \in States
  <2>1. m.state # None => m.state \in States
    BY DEF LensMessages
  <2> QED
    BY <1>1, <2>1 DEF UpdateFrom
<1>2. CASE UNCHANGED inboxVars /\ UNCHANGED shown
  BY <1>2 DEF inboxVars
<1>3. CASE ScanFinds
  <2>1. PICK i \in 1..Len(pending) :
               pending' = RemoveAt(pending, i) /\ ReturnAnswer(pending[i])
    BY <1>3 DEF ScanFinds
  <2>2. pending' \in Seq(LensMessages) /\ pending[i] \in LensMessages
    BY <2>1, Removal, ElementOfSeq
  <2>3. call \in Requests /\ UNCHANGED <<mirror, got, shown>>
    BY <1>3 DEF ScanFinds, CallTypes, lensOwn
  <2>4. replies' \subseteq [request : Requests, answer : LensMessages]
    BY <2>1, <2>2, <2>3 DEF ReturnAnswer
  <2> QED
    BY <2>2, <2>3, <2>4
<1>4. CASE ReadAbsorbed
  BY <1>1, <1>4, Hearing DEF ReadAbsorbed, lensOwn
<1>5. CASE ReadReply
  <2>1. Incoming \in LensMessages /\ call \in Requests
    BY <1>5, Hearing DEF ReadReply, Answers, CallTypes
  <2>2. replies' = replies \cup {[request |-> call, answer |-> Incoming]}
    BY <1>5 DEF ReadReply, ReturnAnswer
  <2>3. replies' \subseteq [request : Requests, answer : LensMessages]
    BY <2>1, <2>2
  <2>4. mirror' \in States
    BY <1>1, <1>5, <2>1 DEF ReadReply
  <2> QED
    BY <1>5, <2>1, <2>3, <2>4 DEF ReadReply, lensOwn
<1>6. CASE ReadOther
  <2>1. Incoming \in LensMessages
    BY <1>6, Hearing DEF ReadOther, Answers
  <2>2. pending' \in Seq(LensMessages)
    BY <1>6, <2>1, AppendProperties DEF ReadOther
  <2>3. mirror' \in States
    BY <1>1, <1>6, <2>1 DEF ReadOther
  <2> QED
    BY <1>6, <2>1, <2>2, <2>3 DEF ReadOther, lensOwn
<1>7. CASE \E r \in todo, s \in States \cup {None} : LensAnswers(r, s)
  BY <1>7 DEF LensAnswers, Tells, inboxVars
<1>8. CASE \E s \in States : LensNotifies(s)
  BY <1>8 DEF LensNotifies, Tells, inboxVars
<1>9. CASE \/ (\E ty \in Types \cup {KeepAlive} : Call(ty)) \/ CallOverflows \/ StartPoll
           \/ (\E k \in Keepers : StartKeepalive(k)) \/ StopKeepalive \/ Close
           \/ (\E k \in Keepers : KeeperRuns(k))
           \/ LensReceives \/ Surroundings \/ UNCHANGED vars
  BY <1>2, <1>9 DEF Call, CallOverflows, StartPoll, StartKeepalive, StopKeepalive, Close,
     KeeperRuns, KeeperWakes, KeeperQuits, KeeperBeats, KeeperPosts, KeeperDies,
     KeeperGoes, LensReceives, Surroundings, vars, lensOwn
<1>10. CASE \/ WriteReturns \/ WriteRaises \/ WriteRefused \/ ScanFindsNothing
            \/ ReadStray \/ ReadOverflows \/ ReadRaises
            \/ TimesOut \/ ReadGoesOn \/ JoinReturns \/ CloseTransport \/ DropSession
  BY <1>2, <1>10 DEF WriteReturns, WriteRaises, WriteRefused, ScanFindsNothing,
     ReadStray, ReadOverflows, ReadRaises, TimesOut, ReadGoesOn, JoinReturns,
     CloseTransport, DropSession, lensOwn
<1> QED
  BY <1>3, <1>4, <1>5, <1>6, <1>7, <1>8, <1>9, <1>10 DEF Next, WorkerRuns

(* Every variable of a Camera keeps to its type, whatever the threads, the *)
(* link and the camera do.                                                 *)
CameraTypes == CallTypes /\ KeeperTypes /\ StrayInv /\ InboxTypes

LEMMA CameraTypesKept == Spec => [](ChannelInv /\ CameraTypes)
<1>1. Init => CameraTypes
  <2>1. ASSUME Init PROVE CallTypes /\ KeeperTypes
    BY <2>1 DEF Init, CallTypes, KeeperTypes
  <2>2. ASSUME Init PROVE StrayInv
    <3>1. toHost = << >>
      BY <2>2 DEF Init, Ch!Init
    <3> QED
      BY <3>1, EmptySeq DEF StrayInv
  <2>3. ASSUME Init PROVE InboxTypes
    BY <2>3, EmptySeq DEF Init, InboxTypes
  <2> QED
    BY <2>1, <2>2, <2>3 DEF CameraTypes
<1>2. ChannelInv /\ CameraTypes /\ [Next]_vars => CameraTypes'
  BY CallTypesKept, KeeperTypesKept, StrayKept, InboxTypesKept DEF CameraTypes
<1> QED
  BY <1>1, <1>2, ChannelKept, PTL DEF Spec

(* Every variable of a Camera, its channel's included, keeps to its type,  *)
(* whatever the threads, the link and the camera do.                       *)
THEOREM TypeCorrect == Spec => []TypeOK
<1>1. ChannelInv /\ CameraTypes => TypeOK
  BY DEF ChannelInv, CameraTypes, TypeOK, CallTypes, KeeperTypes, InboxTypes, TodoTypes,
     ChP!WireInv, ChP!TypeOK, Ch!TypeOK, Threads, ChP!Frames, Ch!Frames, ChP!NoFrame,
     Ch!NoFrame
<1> QED
  BY <1>1, CameraTypesKept, PTL

-----------------------------------------------------------------------------
(* What never comes back: the link, the flag that says it is up, and a     *)
(* counter's value.                                                        *)
LEMMA Onward ==
  ASSUME ChannelInv, [Next]_vars
  PROVE  /\ (~linkUp => ~linkUp') /\ (~alive => ~alive')
         /\ tx \in Nat /\ tx' \in Nat /\ tx <= tx'
         /\ lensRx \in Nat /\ lensRx' \in Nat /\ lensRx <= lensRx'
<1>0. tx \in Nat /\ lensRx \in Nat
  BY ChannelFacts
<1>1. [ChP!Next]_(ChP!vars)
  BY ChannelStep DEF ChannelInv, ChP!WireInv, Step
<1>2. CASE UNCHANGED ChP!vars
  BY <1>0, <1>2 DEF ChP!vars, ChP!hostVars, ChP!sendVars, ChP!linkVars, ChP!lensVars
<1>3. CASE ChP!ReadRound \/ \E m \in LensMessages : ChP!LensSends(m)
  <2>1. UNCHANGED <<tx, lensRx, linkUp>> /\ (~alive => ~alive')
    <3>1. ASSUME ChP!Read PROVE UNCHANGED <<tx, lensRx, linkUp>> /\ (~alive => ~alive')
      BY <3>1 DEF ChP!Read, ChP!lensVars
    <3>2. ASSUME ChP!ReadFails PROVE UNCHANGED <<tx, lensRx, linkUp>> /\ ~alive'
      BY <3>2 DEF ChP!ReadFails, ChP!Report, ChP!lensVars
    <3>4. ASSUME ChP!ReadBegins \/ ChP!ReadNothing
          PROVE  UNCHANGED <<tx, lensRx, linkUp>> /\ alive
      BY <3>4 DEF ChP!ReadBegins, ChP!ReadNothing, ChP!lensVars, ChP!linkVars
    <3>3. ASSUME NEW m \in LensMessages, ChP!LensSends(m)
          PROVE  UNCHANGED <<tx, lensRx, linkUp, alive>>
      BY <3>3 DEF ChP!LensSends, ChP!hostVars, ChP!linkVars
    <3> QED
      BY <1>3, <3>1, <3>2, <3>3, <3>4 DEF ChP!ReadRound
  <2> QED
    BY <1>0, <2>1
<1>6. CASE ChP!LensReceives
  <2>1. UNCHANGED <<linkUp, alive, tx>> /\ (lensRx' = lensRx + 1 \/ lensRx' = lensRx)
    BY <1>6 DEF ChP!LensReceives, ChP!hostVars, ChP!linkVars
  <2> QED
    BY <1>0, <2>1
<1>7. CASE ChP!LensSendsPlain \/ ChP!LinkDrops \/ ChP!CloseTransport
  <2>1. UNCHANGED <<tx, lensRx>> /\ (~linkUp => ~linkUp') /\ (~alive => ~alive')
    BY <1>7 DEF ChP!LensSendsPlain, ChP!LinkDrops, ChP!CloseTransport, ChP!hostVars,
       ChP!lensVars, ChP!linkVars
  <2> QED
    BY <1>0, <2>1
<1>4. CASE \E t \in Threads : ChP!SealOverflow(t) \/ \E m \in Requests : ChP!Seal(t, m)
  BY <1>0, <1>4 DEF ChP!Seal, ChP!SealOverflow, ChP!sendVars, ChP!linkVars, ChP!lensVars
<1>5. CASE \E t \in Threads : ChP!Post(t)
  BY <1>0, <1>5 DEF ChP!Post, ChP!PostArrives, ChP!PostSwallowed, ChP!PostOversize,
     ChP!PostFails, ChP!Report, ChP!hostVars, ChP!linkVars, ChP!lensVars
<1> QED
  BY <1>1, <1>2, <1>3, <1>4, <1>5, <1>6, <1>7 DEF ChP!Next, Threads

-----------------------------------------------------------------------------
(* Keepalive threads.  stop_keepalive lets go of a handle only once it has *)
(* told the thread to stop.                                                *)
KeeperInv ==
  /\ pc = "join" => handle # None /\ handle \in stopping
  /\ NoStrayKeeper

LEMMA KeeperKept ==
  ASSUME KeeperTypes, KeeperInv, [Next]_vars
  PROVE  KeeperInv'
<1> USE DEF KeeperInv, NoStrayKeeper, KeeperTypes
<1>1. CASE \E k \in Keepers : StartKeepalive(k)
  <2>1. PICK j \in Keepers : StartKeepalive(j)
    BY <1>1
  <2>2. /\ pc' = "idle" /\ handle' = j /\ handle = None /\ None \notin Keepers
        /\ stopping' = stopping /\ \A k \in Keepers : k # j => keeper'[k] = keeper[k]
    BY <2>1, NamesAssumption DEF StartKeepalive, callVars
  <2> QED
    BY <2>2
<1>2. CASE \E k \in Keepers : KeeperRuns(k)
  <2>1. PICK j \in Keepers : KeeperRuns(j)
    BY <1>2
  <2>2. /\ UNCHANGED <<pc, handle, stopping>> /\ \A k \in Keepers : k # j => keeper'[k] = keeper[k]
        /\ keeper'[j] = "done" \/ keeper[j] \in {"asleep", "due", "writing"}
    BY <2>1 DEF KeeperRuns, KeeperWakes, KeeperQuits, KeeperBeats, KeeperPosts,
       KeeperDies, KeeperGoes, callVars
  <2> QED
    BY <2>2
<1>3. CASE StopKeepalive \/ Close
  BY <1>3 DEF StopKeepalive, Close, SetStop
<1>4. CASE JoinReturns
  BY <1>4 DEF JoinReturns
<1>5. ASSUME UNCHANGED keeperVars, pc' = "join" => pc = "join" PROVE KeeperInv'
  BY <1>5 DEF keeperVars
<1>6. CASE \/ CallOverflows \/ StartPoll \/ (\E ty \in Types \cup {KeepAlive} : Call(ty))
           \/ (\E r \in todo, s \in States \cup {None} : LensAnswers(r, s))
           \/ LensReceives \/ (\E s \in States : LensNotifies(s))
           \/ Surroundings \/ UNCHANGED vars
  BY <1>5, <1>6 DEF CallOverflows, StartPoll, Call, LensAnswers, LensReceives,
     LensNotifies, Surroundings, callVars, vars
<1>7. CASE \/ WriteReturns \/ WriteRaises \/ WriteRefused \/ ScanFinds
           \/ ScanFindsNothing \/ ReadStray \/ ReadOverflows
           \/ ReadAbsorbed \/ ReadReply \/ ReadOther \/ ReadRaises \/ TimesOut \/ ReadGoesOn
           \/ CloseTransport \/ DropSession
  BY <1>5, <1>7 DEF WriteReturns, WriteRaises, WriteRefused, ScanFinds,
     ScanFindsNothing, ReadStray, ReadOverflows, ReadAbsorbed, ReadReply, ReadOther,
     ReadRaises, TimesOut, ReadGoesOn, CloseTransport, DropSession, ReturnAnswer,
     callVars
<1> QED
  BY <1>1, <1>2, <1>3, <1>4, <1>6, <1>7 DEF Next, WorkerRuns

(* However start_keepalive, stop_keepalive and close follow one another,   *)
(* and whatever a thread is held up in when stop_keepalive gives up        *)
(* waiting for it, no keepalive thread is left running that the Camera     *)
(* does not hold and has not told to stop.                                 *)
THEOREM NoKeeperIsLost == Spec => []NoStrayKeeper
<1>1. Init => KeeperInv
  BY DEF Init, KeeperInv, NoStrayKeeper
<1>2. ChannelInv /\ CameraTypes /\ KeeperInv /\ [Next]_vars => KeeperInv'
  BY KeeperKept DEF CameraTypes
<1>3. KeeperInv => NoStrayKeeper
  BY DEF KeeperInv
<1> QED
  BY <1>1, <1>2, <1>3, CameraTypesKept, PTL DEF Spec

(* The session is dropped only by a close that has stopped the keepalive   *)
(* thread and closed the transport.                                        *)
ClosedInv ==
  /\ ~sess => pc = "closed"
  /\ pc \in {"shut", "unset", "closed"} => handle = None
  /\ pc \in {"unset", "closed"} => ~alive

LEMMA ClosedKept ==
  ASSUME ChannelInv, CallTypes, ClosedInv, [Next]_vars
  PROVE  ClosedInv'
<1> USE DEF ClosedInv, CallTypes
<1>0. ~alive => ~alive'
  BY Onward
<1>1. CASE UNCHANGED <<sess, pc, handle>>
  BY <1>0, <1>1
<1>2. CASE \/ CallOverflows
           \/ (\E r \in todo, s \in States \cup {None} : LensAnswers(r, s))
           \/ LensReceives \/ (\E s \in States : LensNotifies(s))
           \/ Surroundings \/ UNCHANGED vars \/ (\E k \in Keepers : KeeperRuns(k))
           \/ ReadStray \/ ReadGoesOn \/ ReadAbsorbed \/ ReadOther
  BY <1>1, <1>2 DEF CallOverflows, LensAnswers, LensReceives, LensNotifies, Surroundings,
     callVars, keeperVars, vars, KeeperRuns, KeeperWakes, KeeperQuits, KeeperBeats,
     KeeperPosts, KeeperDies, KeeperGoes, ReadStray, ReadGoesOn, ReadAbsorbed, ReadOther
<1>3. CASE \/ (\E ty \in Types \cup {KeepAlive} : Call(ty)) \/ StartPoll
           \/ (\E k \in Keepers : StartKeepalive(k)) \/ StopKeepalive
  BY <1>3 DEF Call, StartPoll, StartKeepalive, StopKeepalive, SetStop, callVars
<1>4. CASE Close \/ JoinReturns
  BY <1>4 DEF Close, SetStop, JoinReturns
<1>5. CASE CloseTransport \/ DropSession
  BY <1>0, <1>5 DEF CloseTransport, Ch!CloseTransport, DropSession, keeperVars
<1>6. CASE \/ WriteReturns \/ WriteRaises \/ WriteRefused \/ ScanFinds \/ ScanFindsNothing
           \/ ReadReply \/ ReadOverflows \/ ReadRaises \/ TimesOut
  BY <1>6 DEF WriteReturns, WriteRaises, WriteRefused, ScanFinds, ScanFindsNothing,
     ReadReply, ReadOverflows, ReadRaises, TimesOut, ReturnAnswer, Answers, Reading
<1> QED
  BY <1>2, <1>3, <1>4, <1>5, <1>6 DEF Next, WorkerRuns

LEMMA LivesKept ==
  ASSUME ChannelInv, KeeperTypes, ClosedInv, KeepaliveLives, [Next]_vars
  PROVE  KeepaliveLives'
<1> USE DEF KeepaliveLives, KeeperTypes
<1>0. /\ ~alive => ~alive'
      /\ tx > CounterMax => tx' > CounterMax
  BY Onward, ChannelFacts
<1>1. CASE \E k \in Keepers : StartKeepalive(k)
  BY <1>1 DEF StartKeepalive
<1>2. CASE \E k \in Keepers : KeeperRuns(k)
  <2>1. PICK j \in Keepers : KeeperRuns(j)
    BY <1>2
  <2>2. UNCHANGED <<handle, stopping>> /\ \A k \in Keepers : k # j => keeper'[k] = keeper[k]
    BY <2>1 DEF KeeperRuns, KeeperWakes, KeeperQuits, KeeperBeats, KeeperPosts,
       KeeperDies, KeeperGoes
  <2>3. CASE KeeperWakes(j) \/ KeeperBeats(j) \/ KeeperPosts(j)
    <3>1. keeper'[j] # "done"
      BY <2>3 DEF KeeperWakes, KeeperBeats, KeeperPosts, KeeperGoes
    <3> QED
      BY <1>0, <2>2, <3>1
  <2>4. CASE KeeperQuits(j)
    BY <1>0, <2>2, <2>4 DEF KeeperQuits
  <2>5. CASE KeeperDies(j)
    <3>1. ~sess \/ ~alive' \/ tx' > CounterMax
      <4>1. Exhausted(j) => tx' > CounterMax
        BY <1>0, BoundAssumption DEF Exhausted, Ch!SealOverflow, channelVars
      <4>2. Ch!PostFails(j) => ~alive'
        BY DEF Ch!PostFails, Ch!PostOversize, Ch!Report
      <4> QED
        BY <2>5, <4>1, <4>2 DEF KeeperDies
    <3>2. ~sess => handle = None
      BY DEF ClosedInv
    <3> QED
      BY <2>2, <3>1, <3>2
  <2> QED
    BY <2>1, <2>3, <2>4, <2>5 DEF KeeperRuns
<1>3. CASE StopKeepalive \/ Close \/ JoinReturns
  BY <1>0, <1>3 DEF StopKeepalive, Close, SetStop, JoinReturns
<1>4. CASE UNCHANGED keeperVars
  BY <1>0, <1>4 DEF keeperVars
<1>5. CASE \/ CallOverflows \/ StartPoll \/ (\E ty \in Types \cup {KeepAlive} : Call(ty))
           \/ (\E r \in todo, s \in States \cup {None} : LensAnswers(r, s))
           \/ LensReceives \/ (\E s \in States : LensNotifies(s))
           \/ Surroundings \/ UNCHANGED vars
  BY <1>4, <1>5 DEF CallOverflows, StartPoll, Call, LensAnswers, LensReceives,
     LensNotifies, Surroundings, vars
<1>6. CASE \/ WriteReturns \/ WriteRaises \/ WriteRefused \/ ScanFinds
           \/ ScanFindsNothing \/ ReadStray \/ ReadOverflows
           \/ ReadAbsorbed \/ ReadReply \/ ReadOther \/ ReadRaises \/ TimesOut \/ ReadGoesOn
           \/ CloseTransport \/ DropSession
  BY <1>4, <1>6 DEF WriteReturns, WriteRaises, WriteRefused, ScanFinds,
     ScanFindsNothing, ReadStray, ReadOverflows, ReadAbsorbed, ReadReply, ReadOther,
     ReadRaises, TimesOut, ReadGoesOn, CloseTransport, DropSession
<1> QED
  BY <1>1, <1>2, <1>3, <1>5, <1>6 DEF Next, WorkerRuns

(* Whatever ends a keepalive thread whose handle stays behind, so that     *)
(* start_keepalive does nothing from then on, it leaves no heartbeat that  *)
(* a new thread could still send: the connection is known to be lost or    *)
(* the send counter is used up.                                            *)
THEOREM DeadHandleIsHarmless == Spec => []KeepaliveLives
<1>1. Init => ClosedInv /\ KeepaliveLives
  BY DEF Init, ClosedInv, KeepaliveLives
<1>2. ChannelInv /\ CameraTypes /\ ClosedInv /\ KeepaliveLives /\ [Next]_vars
        => ClosedInv' /\ KeepaliveLives'
  BY ClosedKept, LivesKept DEF CameraTypes
<1> QED
  BY <1>1, <1>2, CameraTypesKept, PTL DEF Spec

-----------------------------------------------------------------------------
(* The mirror.  While the link is up, the last state entry that waits to   *)
(* be read is the camera's state; when none waits, the mirror is.  An      *)
(* answer to KEEP_ALIVE carries none, which is why _classify may pass it   *)
(* over.                                                                   *)
CarriesState(f) == f.msg # Plain /\ f.msg.state # None

QuietInv ==
  \A i \in 1..Len(toHost) :
    toHost[i].ctr # 0 /\ toHost[i].msg.type = KeepAlive => toHost[i].msg.state = None

MirrorInv ==
  linkUp =>
    /\ \A i \in 1..Len(toHost) :
         CarriesState(toHost[i]) /\ (\A j \in (i + 1)..Len(toHost) : ~CarriesState(toHost[j]))
           => toHost[i].msg.state = shown
    /\ (\A i \in 1..Len(toHost) : ~CarriesState(toHost[i])) => mirror = shown

LEMMA QuietKept ==
  ASSUME ChannelInv, QuietInv, [Next]_vars
  PROVE  QuietInv'
<1>0. lensTx \in Nat /\ toHost \in Seq(ChP!Frames(LensMessages \cup {Plain}))
  BY ChannelFacts
<1>1. CASE Shrinks(toHost)
  BY <1>1 DEF Shrinks, Rest, QuietInv
<1>2. ASSUME NEW m \in LensMessages, m.type = KeepAlive => m.state = None,
             toHost' = Append(toHost, [ctr |-> lensTx + 1, msg |-> m])
      PROVE  QuietInv'
  <2> DEFINE f == [ctr |-> lensTx + 1, msg |-> m]
  <2>1. f \in ChP!Frames(LensMessages \cup {Plain}) /\ f.msg = m
    BY <1>0 DEF ChP!Frames
  <2> HIDE DEF f
  <2>2. \A i \in 1..Len(toHost') :
          (i \in 1..Len(toHost) /\ toHost'[i] = toHost[i]) \/ toHost'[i] = f
    BY <1>0, <1>2, <2>1, QueueGrows DEF f
  <2> QED
    BY <1>2, <2>1, <2>2 DEF QuietInv
<1>3. CASE Ch!LensSendsPlain
  <2> DEFINE f == [ctr |-> 0, msg |-> Plain]
  <2>1. f \in ChP!Frames(LensMessages \cup {Plain}) /\ f.ctr = 0
    BY <1>0 DEF ChP!Frames
  <2>2. toHost' = Append(toHost, f)
    BY <1>3 DEF Ch!LensSendsPlain
  <2> HIDE DEF f
  <2>3. \A i \in 1..Len(toHost') :
          (i \in 1..Len(toHost) /\ toHost'[i] = toHost[i]) \/ toHost'[i] = f
    BY <1>0, <2>1, <2>2, QueueGrows
  <2> QED
    BY <2>1, <2>3 DEF QuietInv
<1>4. CASE \E r \in todo, s \in States \cup {None} : LensAnswers(r, s)
  <2>1. PICK r \in todo, s \in States \cup {None} : LensAnswers(r, s)
    BY <1>4
  <2>2. [type |-> r.type, seq |-> r.seq, state |-> s] \in LensMessages
    BY BoundAssumption DEF ChannelInv, TodoTypes, Requests, LensMessages
  <2> QED
    BY <1>2, <2>1, <2>2 DEF LensAnswers, Ch!LensSends
<1>5. CASE \E s \in States : LensNotifies(s)
  <2>1. PICK s \in States : LensNotifies(s)
    BY <1>5
  <2>2. [type |-> None, seq |-> 0, state |-> s] \in LensMessages
    BY BoundAssumption DEF LensMessages
  <2> QED
    BY <1>2, <2>1, <2>2, NamesAssumption DEF LensNotifies, Ch!LensSends
<1> QED
  BY <1>1, <1>3, <1>4, <1>5, HostQueue

(* Only what the worker reads moves the mirror, and only what the camera   *)
(* sends moves its state.                                                  *)
LEMMA MirrorMoves ==
  ASSUME [Next]_vars
  PROVE  \/ Hears
         \/ \E r \in todo, s \in States \cup {None} : LensAnswers(r, s)
         \/ \E s \in States : LensNotifies(s)
         \/ UNCHANGED <<mirror, shown>>
<1>1. CASE \/ (\E ty \in Types \cup {KeepAlive} : Call(ty)) \/ CallOverflows \/ StartPoll
           \/ (\E k \in Keepers : StartKeepalive(k)) \/ StopKeepalive \/ Close
           \/ LensReceives \/ Surroundings \/ UNCHANGED vars
           \/ (\E k \in Keepers : KeeperRuns(k))
  BY <1>1 DEF Call, CallOverflows, StartPoll, StartKeepalive, StopKeepalive, Close,
     LensReceives, Surroundings, KeeperRuns, KeeperWakes, KeeperQuits, KeeperBeats,
     KeeperPosts, KeeperDies, KeeperGoes, inboxVars, lensOwn, vars
<1>2. CASE \/ WriteReturns \/ WriteRaises \/ WriteRefused \/ ScanFinds
           \/ ScanFindsNothing \/ ReadRaises
           \/ TimesOut \/ ReadGoesOn \/ JoinReturns \/ CloseTransport \/ DropSession
  BY <1>2 DEF WriteReturns, WriteRaises, WriteRefused, ScanFinds, ScanFindsNothing,
     ReadRaises, TimesOut, ReadGoesOn, JoinReturns, CloseTransport, DropSession,
     inboxVars, lensOwn
<1> QED
  BY <1>1, <1>2 DEF Next, WorkerRuns, Hears

LEMMA MirrorKept ==
  ASSUME ChannelInv, StrayInv, QuietInv, MirrorInv, [Next]_vars
  PROVE  MirrorInv'
<1>0. /\ lensTx \in Nat /\ Len(toHost) \in Nat
      /\ toHost \in Seq(ChP!Frames(LensMessages \cup {Plain}))
      /\ linkUp' => linkUp
  BY ChannelFacts, Onward
<1>1. ASSUME NEW f \in ChP!Frames(LensMessages \cup {Plain}), toHost' = Append(toHost, f),
             mirror' = mirror, shown' = IF CarriesState(f) THEN f.msg.state ELSE shown
      PROVE  MirrorInv'
  <2>1. /\ Len(toHost') = Len(toHost) + 1 /\ toHost'[Len(toHost) + 1] = f
        /\ \A i \in 1..Len(toHost) : toHost'[i] = toHost[i]
    BY <1>0, <1>1, QueueGrows
  <2>2. CASE CarriesState(f)
    <3>1. ASSUME NEW i \in 1..Len(toHost'), CarriesState(toHost'[i]),
                 \A j \in (i + 1)..Len(toHost') : ~CarriesState(toHost'[j])
          PROVE  toHost'[i].msg.state = shown'
      <4>1. i = Len(toHost) + 1
        BY <1>0, <2>1, <2>2, <3>1
      <4> QED
        BY <1>1, <2>1, <2>2, <4>1
    <3>2. Len(toHost) + 1 \in 1..Len(toHost')
      BY <1>0, <2>1
    <3>3. \E i \in 1..Len(toHost') : CarriesState(toHost'[i])
      BY <2>1, <2>2, <3>2
    <3> QED
      BY <3>1, <3>3 DEF MirrorInv, CarriesState
  <2>3. CASE ~CarriesState(f)
    <3>1. ASSUME linkUp, NEW i \in 1..Len(toHost'), CarriesState(toHost'[i]),
                 \A j \in (i + 1)..Len(toHost') : ~CarriesState(toHost'[j])
          PROVE  toHost'[i].msg.state = shown'
      <4>1. i \in 1..Len(toHost)
        BY <1>0, <2>1, <2>3, <3>1
      <4>2. \A j \in (i + 1)..Len(toHost) : ~CarriesState(toHost[j])
        BY <1>0, <2>1, <3>1, <4>1
      <4>3. toHost[i].msg.state = shown
        BY <2>1, <3>1, <4>1, <4>2 DEF MirrorInv
      <4> QED
        BY <1>1, <2>1, <2>3, <4>1, <4>3
    <3>2. ASSUME linkUp, \A i \in 1..Len(toHost') : ~CarriesState(toHost'[i])
          PROVE  mirror' = shown'
      <4>1. \A i \in 1..Len(toHost) : ~CarriesState(toHost[i])
        BY <1>0, <2>1, <3>2
      <4> QED
        BY <1>1, <2>3, <3>2, <4>1 DEF MirrorInv
    <3> QED
      BY <1>0, <3>1, <3>2 DEF MirrorInv, CarriesState
  <2> QED
    BY <2>2, <2>3
<1>2. ASSUME toHost # << >>, toHost' = Tail(toHost), shown' = shown,
             mirror' = IF CarriesState(toHost[1]) THEN toHost[1].msg.state ELSE mirror
      PROVE  MirrorInv'
  <2>1. /\ Len(toHost') = Len(toHost) - 1 /\ 1 \in 1..Len(toHost)
        /\ \A i \in 1..Len(toHost') : toHost'[i] = toHost[i + 1]
    BY <1>0, <1>2, HeadTailProperties, GenuineDecrypts
  <2>2. ASSUME linkUp, NEW i \in 1..Len(toHost'), CarriesState(toHost'[i]),
               \A j \in (i + 1)..Len(toHost') : ~CarriesState(toHost'[j])
        PROVE  toHost'[i].msg.state = shown'
    <3>1. i + 1 \in 1..Len(toHost)
      BY <1>0, <2>1
    <3>2. ASSUME NEW j \in (i + 1 + 1)..Len(toHost) PROVE ~CarriesState(toHost[j])
      <4>1. j - 1 \in (i + 1)..Len(toHost') /\ j - 1 \in 1..Len(toHost') /\ (j - 1) + 1 = j
        BY <1>0, <2>1
      <4> QED
        BY <2>1, <2>2, <4>1
    <3>3. toHost[i + 1].msg.state = shown
      BY <2>1, <2>2, <3>1, <3>2 DEF MirrorInv
    <3> QED
      BY <1>2, <2>1, <3>3
  <2>3. ASSUME linkUp, \A i \in 1..Len(toHost') : ~CarriesState(toHost'[i])
        PROVE  mirror' = shown'
    <3>1. ASSUME NEW j \in 2..Len(toHost) PROVE ~CarriesState(toHost[j])
      <4>1. j - 1 \in 1..Len(toHost') /\ (j - 1) + 1 = j
        BY <1>0, <2>1
      <4> QED
        BY <2>1, <2>3, <4>1
    <3>2. CASE CarriesState(toHost[1])
      <4>1. toHost[1].msg.state = shown
        BY <2>1, <2>3, <3>1, <3>2 DEF MirrorInv
      <4> QED
        BY <1>2, <3>2, <4>1
    <3>3. CASE ~CarriesState(toHost[1])
      <4>1. \A i \in 1..Len(toHost) : i = 1 \/ i \in 2..Len(toHost)
        BY <1>0
      <4>2. \A i \in 1..Len(toHost) : ~CarriesState(toHost[i])
        BY <3>1, <3>3, <4>1
      <4> QED
        BY <1>2, <2>3, <3>3, <4>2 DEF MirrorInv
    <3> QED
      BY <3>2, <3>3
  <2> QED
    BY <1>0, <2>2, <2>3 DEF MirrorInv, CarriesState
<1>3. CASE ReadStray \/ ReadOverflows
  <2>1. toHost # << >> /\ toHost' = Tail(toHost) /\ UNCHANGED <<mirror, shown>>
    BY <1>3 DEF ReadStray, ReadOverflows, Ch!Read, inboxVars, lensOwn
  <2>3. ~Decrypts
    BY <1>3, ChannelFacts DEF ReadStray, ReadOverflows, Decrypts, Ch!Verifies
  <2>2. ~CarriesState(toHost[1])
    BY <2>1, <2>3, GenuineDecrypts DEF StrayInv, CarriesState
  <2> QED
    BY <1>2, <2>1, <2>2
<1>4. CASE ReadAbsorbed \/ ReadReply \/ ReadOther
  <2>1. /\ toHost # << >> /\ toHost' = Tail(toHost) /\ shown' = shown /\ Decrypts
        /\ UpdateFrom(Incoming)
    BY <1>4 DEF ReadAbsorbed, ReadReply, ReadOther, Answers, Ch!Read, lensOwn
  <2>2. 1 \in 1..Len(toHost) /\ Incoming = toHost[1].msg /\ toHost[1].ctr # 0 /\ Incoming # Plain
    BY <2>1, Hearing, PlainAssumption
  <2>3. Incoming.type = KeepAlive => Incoming.state = None
    BY <2>2 DEF QuietInv
  <2>4. mirror' = IF CarriesState(toHost[1]) THEN toHost[1].msg.state ELSE mirror
    BY <2>1, <2>2, <2>3 DEF UpdateFrom, IsKeepaliveResponse, CarriesState
  <2> QED
    BY <1>2, <2>1, <2>4
<1>5. CASE \E r \in todo, s \in States \cup {None} : LensAnswers(r, s)
  <2>1. PICK r \in todo, s \in States \cup {None} : LensAnswers(r, s)
    BY <1>5
  <2> DEFINE m == [type |-> r.type, seq |-> r.seq, state |-> s]
             f == [ctr |-> lensTx + 1, msg |-> m]
  <2>2. m \in LensMessages /\ m.state = s
    BY BoundAssumption DEF ChannelInv, TodoTypes, Requests, LensMessages
  <2>3. toHost' = Append(toHost, f) /\ mirror' = mirror /\ shown' = IF s = None THEN shown ELSE s
    BY <2>1 DEF LensAnswers, Ch!LensSends, Tells, inboxVars
  <2> HIDE DEF m
  <2>4. f \in ChP!Frames(LensMessages \cup {Plain}) /\ f.msg = m
    BY <1>0, <2>2 DEF ChP!Frames
  <2> HIDE DEF f
  <2>5. CarriesState(f) <=> s # None
    BY <2>2, <2>4, PlainAssumption DEF CarriesState
  <2> QED
    BY <1>1, <2>2, <2>3, <2>4, <2>5
<1>6. CASE \E s \in States : LensNotifies(s)
  <2>1. PICK s \in States : LensNotifies(s)
    BY <1>6
  <2> DEFINE m == [type |-> None, seq |-> 0, state |-> s]
             f == [ctr |-> lensTx + 1, msg |-> m]
  <2>2. m \in LensMessages /\ m.state = s
    BY BoundAssumption DEF LensMessages
  <2>3. toHost' = Append(toHost, f) /\ mirror' = mirror /\ shown' = IF s = None THEN shown ELSE s
    BY <2>1 DEF LensNotifies, Ch!LensSends, Tells, inboxVars
  <2> HIDE DEF m
  <2>4. f \in ChP!Frames(LensMessages \cup {Plain}) /\ f.msg = m
    BY <1>0, <2>2 DEF ChP!Frames
  <2> HIDE DEF f
  <2>5. CarriesState(f) <=> s # None
    BY <2>2, <2>4, PlainAssumption DEF CarriesState
  <2> QED
    BY <1>1, <2>2, <2>3, <2>4, <2>5
<1>7. CASE UNCHANGED <<mirror, shown>> /\ ~Hears
  <2>1. CASE ~linkUp'
    BY <2>1 DEF MirrorInv
  <2>2. CASE UNCHANGED toHost
    BY <1>0, <1>7, <2>2 DEF MirrorInv, CarriesState
  <2>3. CASE Ch!LensSendsPlain
    <3> DEFINE f == [ctr |-> 0, msg |-> Plain]
    <3>1. f \in ChP!Frames(LensMessages \cup {Plain}) /\ ~CarriesState(f)
      BY <1>0 DEF ChP!Frames, CarriesState
    <3>2. toHost' = Append(toHost, f)
      BY <2>3 DEF Ch!LensSendsPlain
    <3> HIDE DEF f
    <3> QED
      BY <1>1, <1>7, <3>1, <3>2
  <2> QED
    BY <1>5, <1>6, <1>7, <2>1, <2>2, <2>3, HostQueue
<1> QED
  BY <1>3, <1>4, <1>5, <1>6, <1>7, MirrorMoves DEF Hears

(* Whichever call reads them, in whatever shape and beside whatever        *)
(* answers the state entries come, the mirror has caught up with the       *)
(* camera as soon as none is left to be read.                              *)
THEOREM MirrorCatchesUp == Spec => []MirrorIsFresh
<1>1. Init => QuietInv /\ MirrorInv
  <2>1. ASSUME Init PROVE 1..Len(toHost) = {} /\ mirror = shown
    BY <2>1, EmptySeq DEF Init, Ch!Init
  <2> QED
    BY <2>1 DEF QuietInv, MirrorInv
<1>2. ChannelInv /\ CameraTypes /\ QuietInv /\ MirrorInv /\ [Next]_vars => QuietInv' /\ MirrorInv'
  BY QuietKept, MirrorKept DEF CameraTypes
<1>3. MirrorInv => MirrorIsFresh
  BY DEF MirrorInv, MirrorIsFresh, CarriesState
<1> QED
  BY <1>1, <1>2, <1>3, CameraTypesKept, PTL DEF Spec

-----------------------------------------------------------------------------
(* Requests on their way.  A frame in hand, on the wire or with the camera *)
(* carries the sequence number of its counter, so no two requests share    *)
(* one, and apart from keepalives none is later than the worker's last.    *)
FrameInv ==
  /\ \A t \in Threads : frame[t] # Ch!NoFrame => frame[t].msg.seq = frame[t].ctr
  /\ \A k \in Keepers : frame[k] # Ch!NoFrame => frame[k].msg.type = KeepAlive
  /\ frame[Worker] # Ch!NoFrame => pc = "write" /\ frame[Worker].msg = call
  /\ call.seq <= tx

WireRequests ==
  \A i \in 1..Len(toLens) :
    /\ toLens[i].msg.seq = toLens[i].ctr
    /\ toLens[i].msg.type \in Types => toLens[i].msg.seq <= call.seq

TodoInv ==
  /\ \A r \in todo : r.seq <= lensRx /\ (r.type \in Types => r.seq <= call.seq)
  /\ \A r, s \in todo : r.seq = s.seq => r = s

(* A call's number grows from one call to the next.                        *)
LEMMA CallGrows ==
  ASSUME ChannelInv, CallTypes, FrameInv, [Next]_vars
  PROVE  /\ call.seq \in Nat /\ call'.seq \in Nat /\ call.seq <= call'.seq
         /\ call' = call \/ \E ty \in Types \cup {KeepAlive} : Call(ty)
<1>1. call.seq \in Nat /\ call.seq <= tx /\ tx \in Nat
  BY ChannelFacts DEF CallTypes, FrameInv, Requests, NoRequest
<1>2. CASE \E ty \in Types \cup {KeepAlive} : Call(ty)
  <2>1. call'.seq = tx + 1
    BY <1>2 DEF Call, NewRequest
  <2> QED
    BY <1>1, <1>2, <2>1
<1>3. CASE \/ CallOverflows \/ StartPoll \/ (\E k \in Keepers : StartKeepalive(k))
           \/ StopKeepalive \/ Close \/ LensReceives \/ Surroundings \/ UNCHANGED vars
           \/ (\E k \in Keepers : KeeperRuns(k))
           \/ (\E r \in todo, s \in States \cup {None} : LensAnswers(r, s))
           \/ (\E s \in States : LensNotifies(s))
  <2>1. call' = call
    BY <1>3 DEF CallOverflows, StartPoll, StartKeepalive, StopKeepalive, Close,
       LensReceives, Surroundings, KeeperRuns, KeeperWakes, KeeperQuits, KeeperBeats,
       KeeperPosts, KeeperDies, KeeperGoes, LensAnswers, LensNotifies, callVars, vars
  <2> QED
    BY <1>1, <2>1
<1>4. CASE WorkerRuns
  <2>1. call' = call
    BY <1>4 DEF WorkerRuns, WriteReturns, WriteRaises, WriteRefused, ScanFinds,
       ScanFindsNothing, ReadStray, ReadOverflows, ReadAbsorbed, ReadReply, ReadOther,
       ReadRaises, TimesOut, ReadGoesOn, JoinReturns, CloseTransport, DropSession,
       callVars
  <2> QED
    BY <1>1, <2>1
<1> QED
  BY <1>2, <1>3, <1>4 DEF Next

(* Only whoever holds a frame writes it, and nobody else touches it.       *)
Writes(t) ==
  /\ frame[t] # Ch!NoFrame /\ Ch!Release(t)
  /\ t = Worker => pc = "write"

LEMMA FrameMoves ==
  ASSUME ChannelInv, [Next]_vars
  PROVE  \/ UNCHANGED frame /\ (pc = "write" => pc' = "write")
         \/ \E ty \in Types \cup {KeepAlive} : Call(ty)
         \/ \E k \in Keepers : KeeperBeats(k) /\ pc' = pc
         \/ \E t \in Threads : Writes(t) /\ (t # Worker => pc' = pc)
<1>1. CASE \/ CallOverflows \/ StartPoll \/ (\E k \in Keepers : StartKeepalive(k))
           \/ StopKeepalive \/ Close \/ LensReceives \/ Surroundings \/ UNCHANGED vars
           \/ (\E r \in todo, s \in States \cup {None} : LensAnswers(r, s))
           \/ (\E s \in States : LensNotifies(s))
  BY <1>1 DEF CallOverflows, StartPoll, StartKeepalive, StopKeepalive, Close, SetStop,
     LensReceives, Surroundings, LensAnswers, LensNotifies, callVars, vars, channelVars,
     Ch!SealOverflow, Ch!LensReceives, Ch!LensSends, Ch!LensSendsPlain, Ch!LinkDrops,
     Ch!sendVars
<1>2. CASE \E k \in Keepers : KeeperRuns(k)
  <2>1. PICK k \in Keepers : KeeperRuns(k)
    BY <1>2
  <2>2. pc' = pc /\ k \in Threads /\ k # Worker
    BY <2>1, NamesAssumption DEF KeeperRuns, KeeperWakes, KeeperQuits, KeeperBeats,
       KeeperPosts, KeeperDies, KeeperGoes, callVars, Threads
  <2>3. CASE KeeperPosts(k) \/ KeeperDies(k)
    BY <2>2, <2>3 DEF KeeperPosts, KeeperDies, Writes, Exhausted, channelVars,
       Ch!PostArrives, Ch!PostSwallowed, Ch!PostFails, Ch!PostOversize, Ch!SealOverflow,
       Ch!sendVars
  <2>4. CASE KeeperWakes(k) \/ KeeperQuits(k)
    BY <2>2, <2>4 DEF KeeperWakes, KeeperQuits, channelVars
  <2> QED
    BY <2>1, <2>2, <2>3, <2>4 DEF KeeperRuns
<1>3. CASE WriteReturns \/ WriteRaises \/ WriteRefused
  BY <1>3 DEF WriteReturns, WriteRaises, WriteRefused, Writes, Threads, Ch!PostArrives,
     Ch!PostSwallowed, Ch!PostFails, Ch!PostOversize
<1>4. CASE \/ ScanFinds \/ ScanFindsNothing \/ ReadStray \/ ReadOverflows
           \/ ReadAbsorbed \/ ReadReply
           \/ ReadOther \/ ReadRaises \/ TimesOut \/ ReadGoesOn \/ JoinReturns \/ CloseTransport
           \/ DropSession
  <2>1. UNCHANGED frame
    BY <1>4 DEF ScanFinds, ScanFindsNothing, ReadStray, ReadOverflows, ReadAbsorbed,
       ReadReply, ReadOther, ReadRaises, TimesOut, ReadGoesOn, JoinReturns,
       CloseTransport, DropSession, channelVars, Ch!Read, Ch!ReadFails, Ch!ReadBegins,
       Ch!ReadNothing, Ch!CloseTransport, Ch!sendVars
  <2>2. pc # "write"
    BY <1>4 DEF ScanFinds, ScanFindsNothing, ReadStray, ReadOverflows, ReadAbsorbed,
       ReadReply, ReadOther, ReadRaises, TimesOut, ReadGoesOn, JoinReturns,
       CloseTransport, DropSession, Reading, Answers
  <2> QED
    BY <2>1, <2>2
<1> QED
  BY <1>1, <1>2, <1>3, <1>4 DEF Next, WorkerRuns

LEMMA FrameKept ==
  ASSUME ChannelInv, CallTypes, FrameInv, [Next]_vars
  PROVE  FrameInv'
<1>0. /\ tx \in Nat /\ tx' \in Nat /\ tx <= tx' /\ call.seq \in Nat /\ call'.seq \in Nat
      /\ DOMAIN frame = Threads /\ frame = [t \in Threads |-> frame[t]]
      /\ Worker \in Threads /\ Worker \notin Keepers /\ Keepers \subseteq Threads
  BY Onward, CallGrows, NamesAssumption DEF ChannelInv, ChP!WireInv, ChP!TypeOK, Threads
<1>1. ASSUME NEW t \in Threads, NEW ty \in Types \cup {KeepAlive}, Ch!Seal(t, NewRequest(ty))
      PROVE  /\ tx' = tx + 1 /\ frame'[t].msg = NewRequest(ty) /\ frame'[t].ctr = tx + 1
             /\ NewRequest(ty).seq = tx + 1 /\ NewRequest(ty).type = ty
             /\ \A u \in Threads : u # t => frame'[u] = frame[u]
  BY <1>0, <1>1 DEF Ch!Seal, NewRequest
<1>2. CASE \E ty \in Types \cup {KeepAlive} : Call(ty)
  <2>1. PICK ty \in Types \cup {KeepAlive} : Call(ty)
    BY <1>2
  <2>2. call' = NewRequest(ty) /\ pc' = "write" /\ Ch!Seal(Worker, NewRequest(ty))
    BY <2>1 DEF Call
  <2>3. /\ tx' = tx + 1 /\ frame'[Worker].msg = NewRequest(ty) /\ frame'[Worker].ctr = tx + 1
        /\ NewRequest(ty).seq = tx + 1
        /\ \A u \in Threads : u # Worker => frame'[u] = frame[u]
    BY <1>0, <1>1, <2>2
  <2> QED
    BY <1>0, <2>2, <2>3 DEF FrameInv
<1>3. CASE \E k \in Keepers : KeeperBeats(k) /\ pc' = pc
  <2>1. PICK k \in Keepers : KeeperBeats(k) /\ pc' = pc
    BY <1>3
  <2>2. call' = call /\ Ch!Seal(k, NewRequest(KeepAlive))
    BY <2>1 DEF KeeperBeats, KeeperGoes, callVars
  <2>3. /\ tx' = tx + 1 /\ frame'[k].msg = NewRequest(KeepAlive) /\ frame'[k].ctr = tx + 1
        /\ NewRequest(KeepAlive).seq = tx + 1 /\ NewRequest(KeepAlive).type = KeepAlive
        /\ \A u \in Threads : u # k => frame'[u] = frame[u]
    BY <1>0, <1>1, <2>2
  <2>4. call'.seq <= tx'
    BY <1>0, <2>2 DEF FrameInv
  <2> QED
    BY <1>0, <2>1, <2>2, <2>3, <2>4 DEF FrameInv
<1>4. CASE (\E t \in Threads : Writes(t) /\ (t # Worker => pc' = pc)) /\ call' = call
  <2>1. PICK t \in Threads : Writes(t) /\ (t # Worker => pc' = pc)
    BY <1>4
  <2>2. frame'[t] = Ch!NoFrame /\ \A u \in Threads : u # t => frame'[u] = frame[u]
    BY <1>0, <2>1 DEF Writes, Ch!Release
  <2>3. call'.seq <= tx'
    BY <1>0, <1>4 DEF FrameInv
  <2> QED
    BY <1>0, <1>4, <2>1, <2>2, <2>3 DEF FrameInv
<1>5. CASE UNCHANGED frame /\ (pc = "write" => pc' = "write") /\ call' = call
  <2>1. call'.seq <= tx'
    BY <1>0, <1>5 DEF FrameInv
  <2> QED
    BY <1>0, <1>5, <2>1 DEF FrameInv
<1> QED
  BY <1>2, <1>3, <1>4, <1>5, FrameMoves, CallGrows

(* What the camera has yet to read: only a writer adds to it.              *)
LEMMA LensQueue ==
  ASSUME ChannelInv, [Next]_vars
  PROVE  \/ Shrinks(toLens)
         \/ \E t \in Threads : /\ frame[t] # Ch!NoFrame /\ toLens' = Append(toLens, frame[t])
                               /\ call' = call
<1>0. toLens \in Seq(ChP!Frames(Requests))
  BY ChannelFacts
<1>1. ASSUME UNCHANGED toLens PROVE Shrinks(toLens)
  BY <1>0, <1>1, RestOfQueue DEF Shrinks
<1>2. ASSUME toLens' = << >> \/ (toLens # << >> /\ toLens' = Tail(toLens)) PROVE Shrinks(toLens)
  BY <1>0, <1>2, RestOfQueue DEF Shrinks
<1>3. CASE LensReceives \/ Surroundings \/ CloseTransport
  BY <1>1, <1>2, <1>3 DEF LensReceives, Surroundings, CloseTransport, Ch!LensReceives,
     Ch!LensSendsPlain, Ch!LinkDrops, Ch!CloseTransport
<1>4. CASE \/ CallOverflows \/ StartPoll \/ (\E k \in Keepers : StartKeepalive(k))
           \/ StopKeepalive \/ Close \/ UNCHANGED vars
           \/ (\E r \in todo, s \in States \cup {None} : LensAnswers(r, s))
           \/ (\E s \in States : LensNotifies(s)) \/ (\E ty \in Types \cup {KeepAlive} : Call(ty))
  BY <1>1, <1>4 DEF CallOverflows, StartPoll, StartKeepalive, StopKeepalive, Close, Call,
     LensAnswers, LensNotifies, vars, channelVars, Ch!Seal, Ch!SealOverflow, Ch!LensSends
<1>5. CASE \E k \in Keepers : KeeperRuns(k)
  <2>1. PICK k \in Keepers : KeeperRuns(k)
    BY <1>5
  <2>2. call' = call /\ k \in Threads
    BY <2>1 DEF KeeperRuns, KeeperWakes, KeeperQuits, KeeperBeats,
       KeeperPosts, KeeperDies, KeeperGoes, callVars, Threads
  <2> QED
    BY <1>1, <2>1, <2>2 DEF KeeperRuns, KeeperWakes, KeeperQuits, KeeperBeats,
       KeeperPosts, KeeperDies, Exhausted, channelVars, Ch!Seal, Ch!SealOverflow,
       Ch!PostArrives, Ch!PostSwallowed, Ch!PostFails, Ch!PostOversize
<1>6. CASE WriteReturns \/ WriteRaises \/ WriteRefused
  BY <1>1, <1>6 DEF WriteReturns, WriteRaises, WriteRefused, Threads, Ch!PostArrives,
     Ch!PostSwallowed, Ch!PostFails, Ch!PostOversize
<1>7. CASE \/ ScanFinds \/ ScanFindsNothing \/ ReadStray \/ ReadOverflows
           \/ ReadAbsorbed \/ ReadReply
           \/ ReadOther \/ ReadRaises \/ TimesOut \/ ReadGoesOn \/ JoinReturns \/ DropSession
  BY <1>1, <1>7 DEF ScanFinds, ScanFindsNothing, ReadStray, ReadOverflows, ReadAbsorbed,
     ReadReply, ReadOther, ReadRaises, TimesOut, ReadGoesOn, JoinReturns, DropSession,
     channelVars, Ch!Read, Ch!ReadFails, Ch!ReadBegins, Ch!ReadNothing
<1> QED
  BY <1>3, <1>4, <1>5, <1>6, <1>7 DEF Next, WorkerRuns

LEMMA WireRequestsKept ==
  ASSUME ChannelInv, CallTypes, FrameInv, WireRequests, [Next]_vars
  PROVE  WireRequests'
<1>0. /\ toLens \in Seq(ChP!Frames(Requests))
      /\ call.seq \in Nat /\ call'.seq \in Nat /\ call.seq <= call'.seq
      /\ \A i \in 1..Len(toLens) : toLens[i].msg.seq \in Nat
  <2>1. \A i \in 1..Len(toLens) : toLens[i].msg \in Requests
    BY ChannelFacts
  <2> QED
    BY <2>1, ChannelFacts, CallGrows DEF Requests
<1>1. CASE Shrinks(toLens)
  BY <1>0, <1>1 DEF Shrinks, Rest, WireRequests
<1>2. CASE \E t \in Threads : /\ frame[t] # Ch!NoFrame /\ toLens' = Append(toLens, frame[t])
                              /\ call' = call
  <2>1. PICK t \in Threads : /\ frame[t] # Ch!NoFrame /\ toLens' = Append(toLens, frame[t])
                             /\ call' = call
    BY <1>2
  <2>2. frame[t].msg.seq = frame[t].ctr /\ (frame[t].msg.type \in Types => frame[t].msg.seq <= call.seq)
    <3>1. CASE t = Worker
      BY <1>0, <2>1, <3>1 DEF FrameInv
    <3>2. CASE t \in Keepers
      BY <2>1, <3>2, NamesAssumption DEF FrameInv
    <3> QED
      BY <3>1, <3>2 DEF Threads
  <2>3. frame[t] \in ChP!Frames(Requests)
    BY <2>1 DEF ChannelInv, ChP!WireInv, ChP!TypeOK, ChP!NoFrame, Ch!NoFrame, Threads
  <2>4. \A i \in 1..Len(toLens') :
          (i \in 1..Len(toLens) /\ toLens'[i] = toLens[i]) \/ toLens'[i] = frame[t]
    BY <1>0, <2>1, <2>3, QueueGrows
  <2> QED
    BY <2>1, <2>2, <2>4 DEF WireRequests
<1> QED
  BY <1>1, <1>2, LensQueue

LEMMA TodoKept ==
  ASSUME ChannelInv, CallTypes, FrameInv, WireRequests, TodoInv, [Next]_vars
  PROVE  TodoInv'
<1>0. /\ lensRx \in Nat /\ lensRx' \in Nat /\ lensRx <= lensRx'
      /\ call.seq \in Nat /\ call'.seq \in Nat /\ call.seq <= call'.seq
      /\ \A r \in todo : r.seq \in Nat
  BY Onward, CallGrows DEF ChannelInv, TodoTypes, Requests
<1>1. ASSUME todo' \subseteq todo PROVE TodoInv'
  BY <1>0, <1>1 DEF TodoInv
<1>2. CASE LensReceives
  <2>1. CASE todo' = todo
    BY <1>1, <2>1
  <2>2. CASE todo' # todo
    <3>1. /\ toLens # << >> /\ Ch!Verifies(Head(toLens), lensRx) /\ lensRx' = lensRx + 1
          /\ todo' = todo \cup {Head(toLens).msg} /\ call' = call
      BY <1>2, <2>2 DEF LensReceives, Ch!LensReceives, callVars
    <3>2. 1 \in 1..Len(toLens) /\ Head(toLens) = toLens[1]
      BY <3>1, ChannelFacts, EmptySeq, HeadTailProperties
    <3> DEFINE m == toLens[1].msg
    <3>3. m.seq = lensRx + 1 /\ (m.type \in Types => m.seq <= call.seq)
      BY <3>1, <3>2 DEF WireRequests, Ch!Verifies
    <3>4. todo' = todo \cup {m}
      BY <3>1, <3>2
    <3> HIDE DEF m
    <3>5. \A r \in todo : r.seq # m.seq
      BY <1>0, <3>3 DEF TodoInv
    <3> QED
      BY <1>0, <3>1, <3>3, <3>4, <3>5 DEF TodoInv
  <2> QED
    BY <2>1, <2>2
<1>3. CASE \E r \in todo, s \in States \cup {None} : LensAnswers(r, s)
  BY <1>1, <1>3 DEF LensAnswers
<1>4. CASE \/ (\E ty \in Types \cup {KeepAlive} : Call(ty)) \/ CallOverflows \/ StartPoll
           \/ (\E k \in Keepers : StartKeepalive(k)) \/ StopKeepalive \/ Close
           \/ (\E k \in Keepers : KeeperRuns(k)) \/ (\E s \in States : LensNotifies(s))
           \/ Surroundings \/ UNCHANGED vars
  BY <1>1, <1>4 DEF Call, CallOverflows, StartPoll, StartKeepalive, StopKeepalive, Close,
     KeeperRuns, KeeperWakes, KeeperQuits, KeeperBeats, KeeperPosts, KeeperDies,
     KeeperGoes, LensNotifies, Surroundings, lensOwn, vars
<1>5. CASE WorkerRuns
  BY <1>1, <1>5 DEF WorkerRuns, WriteReturns, WriteRaises, WriteRefused, ScanFinds,
     ScanFindsNothing, ReadStray, ReadOverflows, ReadAbsorbed, ReadReply, ReadOther,
     ReadRaises, TimesOut, ReadGoesOn, JoinReturns, CloseTransport, DropSession, lensOwn
<1> QED
  BY <1>2, <1>3, <1>4, <1>5 DEF Next

-----------------------------------------------------------------------------
(* Answers on their way back.  An answer has the number of a request that  *)
(* has been received and is answered only this once; what is decrypted of  *)
(* them answers a call that has begun.                                     *)
IsAnswer(f) == f.ctr # 0 /\ f.msg.type # None

QueuedAnswers ==
  /\ \A i \in 1..Len(toHost) : IsAnswer(toHost[i]) =>
       /\ toHost[i].msg.seq <= lensRx
       /\ toHost[i].msg.type \in Types => toHost[i].msg.seq <= call.seq
       /\ \A r \in todo : r.seq # toHost[i].msg.seq
  /\ \A i, j \in 1..Len(toHost) :
       IsAnswer(toHost[i]) /\ IsAnswer(toHost[j]) /\ i # j
         => toHost[i].msg.seq # toHost[j].msg.seq

GotInv ==
  \A m \in got :
    /\ m.type \in Types /\ m.seq <= lensRx /\ m.seq <= call.seq
    /\ \A r \in todo : r.seq # m.seq
    /\ \A i \in 1..Len(toHost) : IsAnswer(toHost[i]) => toHost[i].msg.seq # m.seq

AnswerInv == QueuedAnswers /\ GotInv

LEMMA TodoMoves ==
  ASSUME [Next]_vars
  PROVE  \/ UNCHANGED todo
         \/ LensReceives
         \/ \E r \in todo, s \in States \cup {None} : LensAnswers(r, s)
<1>1. CASE \/ (\E ty \in Types \cup {KeepAlive} : Call(ty)) \/ CallOverflows \/ StartPoll
           \/ (\E k \in Keepers : StartKeepalive(k)) \/ StopKeepalive \/ Close
           \/ (\E k \in Keepers : KeeperRuns(k)) \/ (\E s \in States : LensNotifies(s))
           \/ Surroundings \/ UNCHANGED vars
  BY <1>1 DEF Call, CallOverflows, StartPoll, StartKeepalive, StopKeepalive, Close,
     KeeperRuns, KeeperWakes, KeeperQuits, KeeperBeats, KeeperPosts, KeeperDies,
     KeeperGoes, LensNotifies, Surroundings, lensOwn, vars
<1>2. CASE WorkerRuns
  BY <1>2 DEF WorkerRuns, WriteReturns, WriteRaises, WriteRefused, ScanFinds,
     ScanFindsNothing, ReadStray, ReadOverflows, ReadAbsorbed, ReadReply, ReadOther,
     ReadRaises, TimesOut, ReadGoesOn, JoinReturns, CloseTransport, DropSession, lensOwn
<1> QED
  BY <1>1, <1>2 DEF Next

LEMMA InboxMoves ==
  ASSUME [Next]_vars
  PROVE  \/ UNCHANGED <<pending, replies, got>>
         \/ ScanFinds /\ UNCHANGED got
         \/ ReadReply \/ ReadOther
<1>1. CASE \/ (\E ty \in Types \cup {KeepAlive} : Call(ty)) \/ CallOverflows \/ StartPoll
           \/ (\E k \in Keepers : StartKeepalive(k)) \/ StopKeepalive \/ Close
           \/ (\E k \in Keepers : KeeperRuns(k)) \/ (\E s \in States : LensNotifies(s))
           \/ Surroundings \/ UNCHANGED vars \/ LensReceives
           \/ \E r \in todo, s \in States \cup {None} : LensAnswers(r, s)
  BY <1>1 DEF Call, CallOverflows, StartPoll, StartKeepalive, StopKeepalive, Close,
     KeeperRuns, KeeperWakes, KeeperQuits, KeeperBeats, KeeperPosts, KeeperDies,
     KeeperGoes, LensNotifies, Surroundings, inboxVars, vars, LensReceives, LensAnswers
<1>2. CASE \/ WriteReturns \/ WriteRaises \/ WriteRefused \/ ScanFinds
           \/ ScanFindsNothing \/ ReadStray \/ ReadOverflows
           \/ ReadAbsorbed \/ ReadRaises \/ TimesOut \/ ReadGoesOn \/ JoinReturns \/ CloseTransport
           \/ DropSession
  BY <1>2 DEF WriteReturns, WriteRaises, WriteRefused, ScanFinds, ScanFindsNothing,
     ReadStray, ReadOverflows, ReadAbsorbed, ReadRaises, TimesOut, ReadGoesOn,
     JoinReturns, CloseTransport, DropSession, inboxVars
<1> QED
  BY <1>1, <1>2 DEF Next, WorkerRuns

(* What is decrypted and passed on is the answer at the head of the queue. *)
LEMMA Taken ==
  ASSUME ChannelInv, StrayInv, ReadReply \/ ReadOther
  PROVE  /\ 1 \in 1..Len(toHost) /\ Incoming = toHost[1].msg /\ IsAnswer(toHost[1])
         /\ Incoming \in LensMessages /\ Incoming.type \in Types
         /\ toHost # << >> /\ toHost' = Tail(toHost) /\ got' = got \cup {Incoming}
         /\ UNCHANGED <<todo, lensRx, call>>
<1>1. Decrypts /\ ~Absorbed(Incoming)
  BY DEF ReadReply, ReadOther, Answers
<1>2. /\ 1 \in 1..Len(toHost) /\ Incoming = toHost[1].msg
      /\ toHost[1].ctr # 0 /\ Incoming \in LensMessages
  BY <1>1, Hearing
<1>3. Incoming.type \in Types /\ IsAnswer(toHost[1])
  BY <1>1, <1>2, NamesAssumption
  DEF Absorbed, IsKeepaliveResponse, LensMessages, IsAnswer
<1>4. /\ toHost # << >> /\ toHost' = Tail(toHost) /\ got' = got \cup {Incoming}
      /\ UNCHANGED <<todo, lensRx, call>>
  BY DEF ReadReply, ReadOther, Ch!Read, Ch!lensVars, lensOwn, callVars
<1> QED
  BY <1>2, <1>3, <1>4

LEMMA AnswersKept ==
  ASSUME ChannelInv, CallTypes, StrayInv, InboxTypes, FrameInv, WireRequests, TodoInv,
         AnswerInv, [Next]_vars
  PROVE  AnswerInv'
<1> USE DEF AnswerInv
<1>0. /\ lensRx \in Nat /\ lensRx' \in Nat /\ lensRx <= lensRx' /\ lensTx \in Nat
      /\ call.seq \in Nat /\ call'.seq \in Nat /\ call.seq <= call'.seq
      /\ toHost \in Seq(ChP!Frames(LensMessages \cup {Plain})) /\ Len(toHost) \in Nat
  BY Onward, CallGrows, ChannelFacts
<1>a. \A m \in LensMessages : m.seq \in Nat
  BY DEF LensMessages
<1>b. /\ \A r \in todo : r.seq \in Nat
      /\ \A m \in got : m.seq \in Nat
      /\ \A i \in 1..Len(toHost) : IsAnswer(toHost[i]) => toHost[i].msg.seq \in Nat
  BY <1>a DEF ChannelInv, TodoTypes, Requests, InboxTypes, StrayInv, IsAnswer
<1>1. ASSUME Shrinks(toHost), todo' = todo, got' = got PROVE AnswerInv'
  <2>1. PICK d \in {0, 1} : Rest(toHost', toHost, d)
    BY <1>1 DEF Shrinks
  <2>2. /\ \A i \in 1..Len(toHost') : i + d \in 1..Len(toHost) /\ toHost'[i] = toHost[i + d]
        /\ \A i, j \in 1..Len(toHost') : i # j => i + d # j + d
        /\ todo' = todo /\ got' = got
    BY <1>0, <1>1, <2>1 DEF Rest
  <2>3. ASSUME NEW i \in 1..Len(toHost'), IsAnswer(toHost'[i])
        PROVE  /\ toHost'[i].msg.seq <= lensRx'
               /\ toHost'[i].msg.type \in Types => toHost'[i].msg.seq <= call'.seq
               /\ \A u \in todo' : u.seq # toHost'[i].msg.seq
    <3>1. i + d \in 1..Len(toHost) /\ toHost'[i] = toHost[i + d] /\ IsAnswer(toHost[i + d])
      BY <2>2, <2>3
    <3>2. toHost[i + d].msg.seq \in Nat
      BY <1>b, <3>1
    <3>3. /\ toHost[i + d].msg.seq <= lensRx
          /\ toHost[i + d].msg.type \in Types => toHost[i + d].msg.seq <= call.seq
          /\ \A u \in todo : u.seq # toHost[i + d].msg.seq
      BY <3>1 DEF QueuedAnswers
    <3> QED
      BY <1>0, <2>2, <3>1, <3>2, <3>3
  <2>4. ASSUME NEW i \in 1..Len(toHost'), NEW j \in 1..Len(toHost'),
               IsAnswer(toHost'[i]), IsAnswer(toHost'[j]), i # j
        PROVE  toHost'[i].msg.seq # toHost'[j].msg.seq
    BY <2>2, <2>4 DEF QueuedAnswers
  <2>5. ASSUME NEW m \in got'
        PROVE  /\ m.type \in Types /\ m.seq <= lensRx' /\ m.seq <= call'.seq
               /\ \A r \in todo' : r.seq # m.seq
               /\ \A i \in 1..Len(toHost') : IsAnswer(toHost'[i]) => toHost'[i].msg.seq # m.seq
    <3>1. m \in got /\ m.seq \in Nat /\ m.seq <= lensRx /\ m.seq <= call.seq
      BY <1>b, <2>2, <2>5 DEF GotInv
    <3>2. m.seq <= lensRx' /\ m.seq <= call'.seq
      BY <1>0, <3>1
    <3> QED
      BY <2>2, <3>1, <3>2 DEF GotInv
  <2>6. QueuedAnswers'
    BY <2>3, <2>4 DEF QueuedAnswers, IsAnswer
  <2>7. GotInv'
    BY <2>5 DEF GotInv, IsAnswer
  <2> QED
    BY <2>6, <2>7
<1>2. ASSUME NEW f \in ChP!Frames(LensMessages \cup {Plain}), toHost' = Append(toHost, f),
             ~IsAnswer(f), todo' = todo, got' = got
      PROVE  AnswerInv'
  <2>1. \A i \in 1..Len(toHost') :
          (i \in 1..Len(toHost) /\ toHost'[i] = toHost[i]) \/ toHost'[i] = f
    BY <1>0, <1>2, QueueGrows
  <2>2. QueuedAnswers'
    BY <1>0, <1>2, <1>b, <2>1 DEF QueuedAnswers, IsAnswer
  <2>3. GotInv'
    BY <1>0, <1>2, <1>b, <2>1 DEF GotInv, IsAnswer
  <2> QED
    BY <2>2, <2>3
<1>3. CASE ReadReply \/ ReadOther
  <2>1. /\ 1 \in 1..Len(toHost) /\ Incoming = toHost[1].msg /\ IsAnswer(toHost[1])
        /\ Incoming.type \in Types
        /\ got' = got \cup {Incoming} /\ UNCHANGED <<todo, lensRx, call>>
    BY <1>3, Taken
  <2>2. \A i \in 1..Len(toHost') : i + 1 \in 1..Len(toHost) /\ toHost'[i] = toHost[i + 1] /\ i + 1 # 1
    <3>1. toHost # << >> /\ toHost' = Tail(toHost)
      BY <1>3, Taken
    <3>2. Rest(toHost', toHost, 1)
      BY <1>0, <3>1, RestOfQueue
    <3> QED
      BY <1>0, <3>2 DEF Rest
  <2>3. QueuedAnswers'
    <3>1. ASSUME NEW i \in 1..Len(toHost'), IsAnswer(toHost'[i])
          PROVE  /\ toHost'[i].msg.seq <= lensRx'
                 /\ toHost'[i].msg.type \in Types => toHost'[i].msg.seq <= call'.seq
                 /\ \A u \in todo' : u.seq # toHost'[i].msg.seq
      BY <2>1, <2>2, <3>1 DEF QueuedAnswers
    <3>2. ASSUME NEW i \in 1..Len(toHost'), NEW j \in 1..Len(toHost'),
                 IsAnswer(toHost'[i]), IsAnswer(toHost'[j]), i # j
          PROVE  toHost'[i].msg.seq # toHost'[j].msg.seq
      <4>1. i + 1 # j + 1
        BY <1>0, <3>2
      <4> QED
        BY <2>2, <3>2, <4>1 DEF QueuedAnswers
    <3> QED
      BY <3>1, <3>2 DEF QueuedAnswers, IsAnswer
  <2>4. ASSUME NEW m \in got'
        PROVE  /\ m.type \in Types /\ m.seq <= lensRx' /\ m.seq <= call'.seq
               /\ \A r \in todo' : r.seq # m.seq
               /\ \A i \in 1..Len(toHost') : IsAnswer(toHost'[i]) => toHost'[i].msg.seq # m.seq
    <3>1. CASE m \in got
      BY <2>1, <2>2, <3>1 DEF GotInv
    <3>2. CASE m = Incoming
      <4>1. /\ m.type \in Types /\ m.seq <= lensRx' /\ m.seq <= call'.seq
            /\ \A r \in todo' : r.seq # m.seq
        BY <2>1, <3>2 DEF QueuedAnswers
      <4>2. \A i \in 1..Len(toHost') : IsAnswer(toHost'[i]) => toHost'[i].msg.seq # m.seq
        BY <2>1, <2>2, <3>2 DEF QueuedAnswers
      <4> QED
        BY <4>1, <4>2
    <3> QED
      BY <2>1, <3>1, <3>2
  <2>5. GotInv'
    BY <2>4 DEF GotInv, IsAnswer
  <2> QED
    BY <2>3, <2>5
<1>4. CASE \E r \in todo, s \in States \cup {None} : LensAnswers(r, s)
  <2>1. PICK r \in todo, s \in States \cup {None} : LensAnswers(r, s)
    BY <1>4
  <2> DEFINE m == [type |-> r.type, seq |-> r.seq, state |-> s]
             f == [ctr |-> lensTx + 1, msg |-> m]
  <2>2. /\ m \in LensMessages /\ m.seq = r.seq /\ m.type = r.type
    BY BoundAssumption DEF ChannelInv, TodoTypes, Requests, LensMessages
  <2>3. /\ toHost' = Append(toHost, f) /\ todo' = todo \ {r}
        /\ UNCHANGED <<got, lensRx, call>>
    BY <2>1 DEF LensAnswers, Ch!LensSends, inboxVars, callVars
  <2> HIDE DEF m
  <2>4. f \in ChP!Frames(LensMessages \cup {Plain}) /\ f.msg = m
    BY <1>0, <2>2 DEF ChP!Frames
  <2> HIDE DEF f
  <2>5. \A i \in 1..Len(toHost') :
          \/ i \in 1..Len(toHost) /\ toHost'[i] = toHost[i]
          \/ i = Len(toHost) + 1 /\ toHost'[i] = f
    <3>1. /\ \A i \in 1..Len(toHost) : toHost'[i] = toHost[i]
          /\ toHost'[Len(toHost) + 1] = f
          /\ \A i \in 1..Len(toHost') : i \in 1..Len(toHost) \/ i = Len(toHost) + 1
      BY <1>0, <2>3, <2>4, QueueGrows DEF f
    <3> QED
      BY <3>1
  <2>6. /\ r.seq <= lensRx /\ (r.type \in Types => r.seq <= call.seq)
        /\ \A u \in todo' : u.seq # r.seq
    BY <2>3 DEF TodoInv
  <2>7. ASSUME NEW i \in 1..Len(toHost'), IsAnswer(toHost'[i])
        PROVE  /\ toHost'[i].msg.seq <= lensRx'
               /\ toHost'[i].msg.type \in Types => toHost'[i].msg.seq <= call'.seq
               /\ \A u \in todo' : u.seq # toHost'[i].msg.seq
    BY <2>2, <2>3, <2>4, <2>5, <2>6, <2>7 DEF QueuedAnswers
  <2>8. ASSUME NEW i \in 1..Len(toHost'), NEW j \in 1..Len(toHost'),
               IsAnswer(toHost'[i]), IsAnswer(toHost'[j]), i # j
        PROVE  toHost'[i].msg.seq # toHost'[j].msg.seq
    BY <2>1, <2>2, <2>4, <2>5, <2>8 DEF QueuedAnswers
  <2>9. ASSUME NEW g \in got'
        PROVE  \A i \in 1..Len(toHost') : IsAnswer(toHost'[i]) => toHost'[i].msg.seq # g.seq
    BY <2>1, <2>2, <2>3, <2>4, <2>5, <2>9 DEF GotInv
  <2>10. QueuedAnswers'
    BY <2>7, <2>8 DEF QueuedAnswers, IsAnswer
  <2>11. GotInv'
    BY <2>3, <2>9 DEF GotInv, IsAnswer
  <2> QED
    BY <2>10, <2>11
<1>5. CASE LensReceives
  <2>1. UNCHANGED <<toHost, got, call>>
    BY <1>5 DEF LensReceives, Ch!LensReceives, inboxVars, callVars
  <2>2. ASSUME NEW r \in todo' PROVE r \in todo \/ r.seq = lensRx + 1
    <3>1. CASE r \notin todo
      <4>1. /\ toLens # << >> /\ Ch!Verifies(Head(toLens), lensRx) /\ r = Head(toLens).msg
        BY <1>5, <2>2, <3>1 DEF LensReceives, Ch!LensReceives
      <4>2. 1 \in 1..Len(toLens) /\ Head(toLens) = toLens[1]
        BY <4>1, ChannelFacts, EmptySeq, HeadTailProperties
      <4> QED
        BY <4>1, <4>2 DEF WireRequests, Ch!Verifies
    <3> QED
      BY <3>1
  <2>3. QueuedAnswers'
    <3>1. ASSUME NEW i \in 1..Len(toHost'), IsAnswer(toHost'[i])
          PROVE  /\ toHost'[i].msg.seq <= lensRx'
                 /\ toHost'[i].msg.type \in Types => toHost'[i].msg.seq <= call'.seq
                 /\ \A u \in todo' : u.seq # toHost'[i].msg.seq
      BY <1>0, <1>b, <2>1, <2>2, <3>1 DEF QueuedAnswers
    <3>2. ASSUME NEW i \in 1..Len(toHost'), NEW j \in 1..Len(toHost'),
                 IsAnswer(toHost'[i]), IsAnswer(toHost'[j]), i # j
          PROVE  toHost'[i].msg.seq # toHost'[j].msg.seq
      BY <2>1, <3>2 DEF QueuedAnswers
    <3> QED
      BY <3>1, <3>2 DEF QueuedAnswers, IsAnswer
  <2>4. GotInv'
    <3>1. ASSUME NEW m \in got'
          PROVE  /\ m.type \in Types /\ m.seq <= lensRx' /\ m.seq <= call'.seq
                 /\ \A r \in todo' : r.seq # m.seq
                 /\ \A i \in 1..Len(toHost') : IsAnswer(toHost'[i]) => toHost'[i].msg.seq # m.seq
      BY <1>0, <1>b, <2>1, <2>2, <3>1 DEF GotInv
    <3> QED
      BY <3>1 DEF GotInv, IsAnswer
  <2> QED
    BY <2>3, <2>4
<1>6. CASE (\E s \in States : LensNotifies(s)) /\ UNCHANGED <<todo, got>>
  <2>1. PICK s \in States : LensNotifies(s)
    BY <1>6
  <2> DEFINE m == [type |-> None, seq |-> 0, state |-> s]
             f == [ctr |-> lensTx + 1, msg |-> m]
  <2>2. m \in LensMessages /\ m.type = None
    BY BoundAssumption DEF LensMessages
  <2>3. toHost' = Append(toHost, f)
    BY <2>1 DEF LensNotifies, Ch!LensSends
  <2> HIDE DEF m
  <2>4. f \in ChP!Frames(LensMessages \cup {Plain}) /\ f.msg = m
    BY <1>0, <2>2 DEF ChP!Frames
  <2> HIDE DEF f
  <2> QED
    BY <1>2, <1>6, <2>2, <2>3, <2>4 DEF IsAnswer
<1>7. CASE Ch!LensSendsPlain /\ UNCHANGED <<todo, got>>
  <2> DEFINE f == [ctr |-> 0, msg |-> Plain]
  <2>1. f \in ChP!Frames(LensMessages \cup {Plain}) /\ ~IsAnswer(f)
    BY <1>0 DEF ChP!Frames, IsAnswer
  <2>2. toHost' = Append(toHost, f)
    BY <1>7 DEF Ch!LensSendsPlain
  <2> HIDE DEF f
  <2> QED
    BY <1>2, <1>7, <2>1, <2>2
<1> QED
  BY <1>1, <1>3, <1>4, <1>5, <1>6, <1>7, HostQueue, TodoMoves, InboxMoves

-----------------------------------------------------------------------------
(* The inbox.  Each answer decrypted is in one place of _pending or was    *)
(* returned by one call.                                                   *)
InboxInv ==
  /\ \A i \in 1..Len(pending) : pending[i] \in got
  /\ \A p \in replies : p.answer \in got
  /\ \A m \in got : \/ \E i \in 1..Len(pending) : pending[i] = m
                    \/ \E p \in replies : p.answer = m
  /\ \A i \in 1..Len(pending), p \in replies : pending[i] # p.answer
  /\ \A i, j \in 1..Len(pending) : i # j => pending[i] # pending[j]
  /\ \A p, q \in replies : p.answer = q.answer => p = q
  /\ IsFiniteSet(replies)

LEMMA InboxKept ==
  ASSUME ChannelInv, StrayInv, InboxTypes, AnswerInv, InboxInv, [Next]_vars
  PROVE  InboxInv'
<1>0. pending \in Seq(LensMessages) /\ Len(pending) \in Nat
  BY LenProperties DEF InboxTypes
<1>1. CASE UNCHANGED <<pending, replies, got>>
  BY <1>1 DEF InboxInv
<1>2. CASE ScanFinds
  <2>1. PICK i \in 1..Len(pending) :
               pending' = RemoveAt(pending, i) /\ ReturnAnswer(pending[i])
    BY <1>2 DEF ScanFinds
  <2> DEFINE p == [request |-> call, answer |-> pending[i]]
             from(j) == IF j < i THEN j ELSE j + 1
  <2>2. got' = got /\ replies' = replies \cup {p} /\ p.answer = pending[i]
    BY <1>2, <2>1 DEF ScanFinds, ReturnAnswer
  <2> HIDE DEF p
  <2>3. /\ Len(pending') = Len(pending) - 1
        /\ \A j \in 1..(Len(pending) - 1) :
             pending'[j] = IF j < i THEN pending[j] ELSE pending[j + 1]
    BY <2>1, Removal, <1>0
  <2>4. \A j \in 1..Len(pending') :
          from(j) \in 1..Len(pending) /\ from(j) # i /\ pending'[j] = pending[from(j)]
    BY <1>0, <2>3
  <2>5. \A j, k \in 1..Len(pending') : j # k => from(j) # from(k)
    BY <1>0, <2>3
  <2>6. \A k \in 1..Len(pending) : k # i => \E j \in 1..Len(pending') : from(j) = k
    <3>1. ASSUME NEW k \in 1..Len(pending), k # i
          PROVE  \E j \in 1..Len(pending') : from(j) = k
      <4>1. CASE k < i
        BY <1>0, <2>3, <4>1
      <4>2. CASE k > i
        <5>1. k - 1 \in 1..Len(pending') /\ from(k - 1) = k
          BY <1>0, <2>3, <4>2
        <5> QED
          BY <5>1
      <4> QED
        BY <1>0, <3>1, <4>1, <4>2
    <3> QED
      BY <3>1
  <2> HIDE DEF from
  <2>7. \A j \in 1..Len(pending') : pending'[j] \in got'
    BY <2>2, <2>4 DEF InboxInv
  <2>8. \A q \in replies' : q.answer \in got'
    BY <2>2 DEF InboxInv
  <2>9. ASSUME NEW m \in got'
        PROVE  \/ \E j \in 1..Len(pending') : pending'[j] = m
               \/ \E q \in replies' : q.answer = m
    <3>1. CASE m = pending[i]
      BY <2>2, <3>1
    <3>2. CASE \E k \in 1..Len(pending) : k # i /\ pending[k] = m
      BY <2>4, <2>6, <3>2
    <3>3. CASE \E q \in replies : q.answer = m
      BY <2>2, <3>3
    <3> QED
      BY <2>2, <3>1, <3>2, <3>3 DEF InboxInv
  <2>10. \A j \in 1..Len(pending'), q \in replies' : pending'[j] # q.answer
    <3>1. ASSUME NEW j \in 1..Len(pending'), NEW q \in replies' PROVE pending'[j] # q.answer
      <4>1. CASE q \in replies
        BY <2>4, <4>1 DEF InboxInv
      <4>2. CASE q = p
        BY <2>2, <2>4, <4>2 DEF InboxInv
      <4> QED
        BY <2>2, <4>1, <4>2
    <3> QED
      BY <3>1
  <2>11. \A j, k \in 1..Len(pending') : j # k => pending'[j] # pending'[k]
    BY <2>4, <2>5 DEF InboxInv
  <2>12. \A q, r \in replies' : q.answer = r.answer => q = r
    BY <2>2 DEF InboxInv
  <2>13. IsFiniteSet(replies')
    BY <2>2, FS_AddElement DEF InboxInv
  <2> QED
    BY <2>7, <2>8, <2>9, <2>10, <2>11, <2>12, <2>13 DEF InboxInv
<1>3. ASSUME ReadReply \/ ReadOther PROVE Incoming \notin got /\ got' = got \cup {Incoming}
  BY <1>3, Taken DEF AnswerInv, GotInv
<1>4. CASE ReadReply
  <2> DEFINE m == Incoming
             p == [request |-> call, answer |-> m]
  <2>1. /\ pending' = pending /\ replies' = replies \cup {p} /\ p.answer = m
    BY <1>4 DEF ReadReply, ReturnAnswer
  <2>2. m \notin got /\ got' = got \cup {m}
    BY <1>3, <1>4
  <2> HIDE DEF m, p
  <2>3. \A i \in 1..Len(pending') : pending'[i] \in got'
    BY <2>1, <2>2 DEF InboxInv
  <2>4. \A q \in replies' : q.answer \in got'
    BY <2>1, <2>2 DEF InboxInv
  <2>5. \A g \in got' : \/ \E i \in 1..Len(pending') : pending'[i] = g
                        \/ \E q \in replies' : q.answer = g
    BY <2>1, <2>2 DEF InboxInv
  <2>6. \A i \in 1..Len(pending'), q \in replies' : pending'[i] # q.answer
    BY <2>1, <2>2 DEF InboxInv
  <2>7. \A i, j \in 1..Len(pending') : i # j => pending'[i] # pending'[j]
    BY <2>1 DEF InboxInv
  <2>8. \A q, r \in replies' : q.answer = r.answer => q = r
    BY <2>1, <2>2 DEF InboxInv
  <2>9. IsFiniteSet(replies')
    BY <2>1, FS_AddElement DEF InboxInv
  <2> QED
    BY <2>3, <2>4, <2>5, <2>6, <2>7, <2>8, <2>9 DEF InboxInv
<1>5. CASE ReadOther
  <2> DEFINE m == Incoming
  <2>1. pending' = Append(pending, m) /\ replies' = replies /\ m \in LensMessages
    BY <1>5, Taken DEF ReadOther
  <2>2. m \notin got /\ got' = got \cup {m}
    BY <1>3, <1>5
  <2> HIDE DEF m
  <2>3. /\ \A i \in 1..Len(pending) : pending'[i] = pending[i] /\ i \in 1..Len(pending')
        /\ pending'[Len(pending) + 1] = m /\ Len(pending) + 1 \in 1..Len(pending')
        /\ \A i \in 1..Len(pending') : i \in 1..Len(pending) \/ i = Len(pending) + 1
    BY <1>0, <2>1, QueueGrows
  <2>4. \A i \in 1..Len(pending') : pending'[i] \in got'
    BY <2>2, <2>3 DEF InboxInv
  <2>5. \A q \in replies' : q.answer \in got'
    BY <2>1, <2>2 DEF InboxInv
  <2>6. \A g \in got' : \/ \E i \in 1..Len(pending') : pending'[i] = g
                        \/ \E q \in replies' : q.answer = g
    BY <2>1, <2>2, <2>3 DEF InboxInv
  <2>7. \A i \in 1..Len(pending'), q \in replies' : pending'[i] # q.answer
    BY <2>1, <2>2, <2>3 DEF InboxInv
  <2>8. \A i, j \in 1..Len(pending') : i # j => pending'[i] # pending'[j]
    BY <2>2, <2>3 DEF InboxInv
  <2>9. (\A q, r \in replies' : q.answer = r.answer => q = r) /\ IsFiniteSet(replies')
    BY <2>1 DEF InboxInv
  <2> QED
    BY <2>4, <2>5, <2>6, <2>7, <2>8, <2>9 DEF InboxInv
<1> QED
  BY <1>1, <1>2, <1>4, <1>5, InboxMoves

-----------------------------------------------------------------------------
(* Replies.  A call under way has not had its reply yet.                   *)
Called == {"write", "scan", "wait"}

RepliesInv ==
  /\ RepliesFit
  /\ \A p \in replies : p.request.seq <= call.seq
  /\ pc \in Called => \A p \in replies : p.request.seq < call.seq

(* Only a call begins to wait for a reply.                                 *)
LEMMA CallsBegin ==
  ASSUME [Next]_vars
  PROVE  \/ \E ty \in Types \cup {KeepAlive} : Call(ty)
         \/ ScanFinds \/ ReadReply
         \/ UNCHANGED <<replies, call>> /\ (pc' \in Called => pc \in Called)
<1> USE DEF Called
<1>1. CASE \/ CallOverflows \/ StartPoll \/ (\E k \in Keepers : StartKeepalive(k))
           \/ StopKeepalive \/ Close
           \/ (\E k \in Keepers : KeeperRuns(k)) \/ (\E s \in States : LensNotifies(s))
           \/ Surroundings \/ UNCHANGED vars \/ LensReceives
           \/ \E r \in todo, s \in States \cup {None} : LensAnswers(r, s)
  BY <1>1 DEF CallOverflows, StartPoll, StartKeepalive, StopKeepalive, Close, SetStop,
     KeeperRuns, KeeperWakes, KeeperQuits, KeeperBeats, KeeperPosts, KeeperDies,
     KeeperGoes, LensNotifies, Surroundings, inboxVars, callVars, vars, LensReceives,
     LensAnswers
<1>2. CASE \/ WriteReturns \/ WriteRaises \/ WriteRefused \/ ScanFindsNothing
           \/ ReadStray \/ ReadOverflows \/ ReadOther
           \/ ReadAbsorbed \/ ReadRaises \/ TimesOut \/ ReadGoesOn \/ JoinReturns \/ CloseTransport
           \/ DropSession
  BY <1>2 DEF WriteReturns, WriteRaises, WriteRefused, ScanFindsNothing, ReadStray,
     ReadOverflows, ReadOther, ReadAbsorbed, ReadRaises, TimesOut, ReadGoesOn,
     JoinReturns, CloseTransport, DropSession, inboxVars, callVars
<1> QED
  BY <1>1, <1>2 DEF Next, WorkerRuns

LEMMA RepliesKept ==
  ASSUME ChannelInv, CallTypes, StrayInv, InboxTypes, FrameInv, AnswerInv, InboxInv,
         RepliesInv, [Next]_vars
  PROVE  RepliesInv'
<1>0. /\ call.seq \in Nat /\ call'.seq \in Nat
      /\ call' = call \/ \E ty \in Types \cup {KeepAlive} : Call(ty)
      /\ tx \in Nat /\ call.seq <= tx
      /\ \A p \in replies : p.request.seq \in Nat
  BY CallGrows, ChannelFacts DEF FrameInv, InboxTypes, Requests
<1>1. CASE \E ty \in Types \cup {KeepAlive} : Call(ty)
  <2>1. call'.seq = tx + 1 /\ replies' = replies
    BY <1>1 DEF Call, NewRequest, inboxVars
  <2>2. \A p \in replies : p.request.seq < call'.seq /\ p.request.seq <= call'.seq
    BY <1>0, <2>1 DEF RepliesInv
  <2> QED
    BY <2>1, <2>2 DEF RepliesInv, RepliesFit
<1>2. ASSUME NEW m, ReturnAnswer(m), m.type = call.type, m.seq <= call.seq, pc \in Called,
             call' = call
      PROVE  RepliesInv'
  <2> DEFINE p == [request |-> call, answer |-> m]
  <2>1. replies' = replies \cup {p} /\ p.request = call /\ p.answer = m /\ pc' \notin Called
    BY <1>2 DEF ReturnAnswer, Called
  <2> HIDE DEF p
  <2>2. \A q \in replies : q.request.seq < call.seq /\ q.request # call
    BY <1>0, <1>2 DEF RepliesInv
  <2>3. RepliesFit'
    BY <1>2, <2>1, <2>2 DEF RepliesInv, RepliesFit
  <2>4. \A q \in replies' : q.request.seq <= call'.seq
    BY <1>0, <1>2, <2>1 DEF RepliesInv
  <2> QED
    BY <2>1, <2>3, <2>4 DEF RepliesInv
<1>3. CASE ScanFinds
  <2>1. PICK i \in 1..Len(pending) : Matches(pending[i], call) /\ ReturnAnswer(pending[i])
    BY <1>3 DEF ScanFinds
  <2>2. pending[i] \in got
    BY DEF InboxInv
  <2>3. pending[i].seq <= call.seq /\ pending[i].type = call.type
    BY <2>1, <2>2 DEF AnswerInv, GotInv, Matches
  <2>4. pc \in Called /\ call' = call
    BY <1>3 DEF ScanFinds, Called
  <2> QED
    BY <1>2, <2>1, <2>3, <2>4
<1>4. CASE ReadReply
  <2>1. 1 \in 1..Len(toHost) /\ Incoming = toHost[1].msg /\ IsAnswer(toHost[1])
        /\ Incoming.type \in Types /\ call' = call
    BY <1>4, Taken
  <2>2. Incoming.seq <= call.seq
    BY <2>1 DEF AnswerInv, QueuedAnswers
  <2>3. Incoming.type = call.type /\ pc \in Called /\ ReturnAnswer(Incoming)
    BY <1>4 DEF ReadReply, Matches, Called
  <2> QED
    BY <1>2, <2>1, <2>2, <2>3
<1>5. CASE UNCHANGED <<replies, call>> /\ (pc' \in Called => pc \in Called)
  BY <1>5 DEF RepliesInv, RepliesFit
<1> QED
  BY <1>0, <1>1, <1>3, <1>4, <1>5, CallsBegin

(* The invariants above hold together: each one is kept by every step from *)
(* a state that has it and those before it.                                *)
RequestInv == FrameInv /\ WireRequests /\ TodoInv

LEMMA AnswersInOrder ==
  Spec => [](/\ ChannelInv /\ CameraTypes
             /\ RequestInv /\ AnswerInv /\ InboxInv /\ RepliesInv)
<1> USE DEF RequestInv
<1>1. Init => RequestInv /\ AnswerInv /\ InboxInv /\ RepliesInv
  <2> SUFFICES ASSUME Init PROVE RequestInv /\ AnswerInv /\ InboxInv /\ RepliesInv
    OBVIOUS
  <2>1. /\ 1..Len(toLens) = {} /\ 1..Len(toHost) = {} /\ 1..Len(pending) = {} /\ todo = {}
        /\ got = {} /\ replies = {} /\ call.seq = 0 /\ tx = 0 /\ pc = "idle"
        /\ \A t \in Threads : frame[t] = Ch!NoFrame
    BY EmptySeq DEF Init, Ch!Init, NoRequest, Threads
  <2>2. FrameInv
    BY <2>1 DEF FrameInv, Threads
  <2>3. IsFiniteSet(replies)
    BY <2>1, FS_EmptySet
  <2> QED
    BY <2>1, <2>2, <2>3
    DEF WireRequests, TodoInv, AnswerInv, QueuedAnswers, GotInv, InboxInv, RepliesInv,
        RepliesFit, Called
<1>2. ChannelInv /\ CameraTypes /\ RequestInv /\ [Next]_vars => RequestInv'
  BY FrameKept, WireRequestsKept, TodoKept DEF CameraTypes
<1>3. ChannelInv /\ CameraTypes /\ RequestInv /\ AnswerInv /\ [Next]_vars => AnswerInv'
  BY AnswersKept DEF CameraTypes
<1>4. ChannelInv /\ CameraTypes /\ AnswerInv /\ InboxInv /\ [Next]_vars => InboxInv'
  BY InboxKept DEF CameraTypes
<1>5. ChannelInv /\ CameraTypes /\ RequestInv /\ AnswerInv /\ InboxInv /\ RepliesInv /\ [Next]_vars
        => RepliesInv'
  BY RepliesKept DEF CameraTypes
<1> HIDE DEF RequestInv
<1> QED
  BY <1>1, <1>2, <1>3, <1>4, <1>5, CameraTypesKept, PTL DEF Spec

(* A call returns an answer of its own type, to its own request or to an   *)
(* earlier one, and no call returns twice, however late and out of order   *)
(* the camera answers.                                                     *)
THEOREM RepliesAreAnswers == Spec => []RepliesFit
<1>1. RepliesInv => RepliesFit
  BY DEF RepliesInv
<1> QED
  BY <1>1, AnswersInOrder, PTL

LEMMA SameSize ==
  ASSUME NEW S, NEW f, IsFiniteSet(S), \A x, y \in S : f[x] = f[y] => x = y
  PROVE  Cardinality({f[x] : x \in S}) = Cardinality(S)
<1> DEFINE T == {f[x] : x \in S}
           g == [x \in S |-> f[x]]
<1>1. g \in Bijection(S, T)
  <2>1. g \in [S -> T] /\ DOMAIN g = S
    OBVIOUS
  <2>2. \A x, y \in S : g[x] = g[y] => x = y
    OBVIOUS
  <2>3. \A t \in T : \E x \in S : g[x] = t
    OBVIOUS
  <2> QED
    BY <2>1, <2>2, <2>3 DEF Bijection, Injection, Surjection, IsInjective
<1>2. ExistsBijection(S, T)
  BY <1>1 DEF ExistsBijection
<1> HIDE DEF T
<1>3. Cardinality(T) = Cardinality(S)
  BY <1>2, FS_Bijection
<1> QED
  BY <1>3 DEF T

(* No decrypted answer is lost and none is used twice: each one sits in    *)
(* one place of _pending or has been returned by one call, for calls that  *)
(* time out and answers that come late as well.                            *)
THEOREM NoAnswerIsLost == Spec => []AnswersConserved
<1>1. ASSUME InboxInv, InboxTypes PROVE AnswersConserved
  <2> DEFINE buffered  == {pending[i] : i \in 1..Len(pending)}
             delivered == {p.answer : p \in replies}
  <2>1. got = buffered \cup delivered /\ buffered \cap delivered = {}
    BY <1>1 DEF InboxInv
  <2>2. Cardinality(buffered) = Len(pending)
    <3>1. Len(pending) \in Nat
      BY <1>1, LenProperties DEF InboxTypes
    <3>2. IsFiniteSet(1..Len(pending)) /\ Cardinality(1..Len(pending)) = Len(pending)
      <4>1. 1 \in Int /\ Len(pending) \in Int /\ (1 > Len(pending) => Len(pending) = 0)
        BY <3>1
      <4>2. /\ IsFiniteSet(1..Len(pending))
            /\ Cardinality(1..Len(pending)) = IF 1 > Len(pending) THEN 0 ELSE Len(pending) - 1 + 1
        BY <4>1, FS_Interval
      <4> QED
        BY <3>1, <4>1, <4>2
    <3>3. \A x, y \in 1..Len(pending) : pending[x] = pending[y] => x = y
      BY <1>1 DEF InboxInv
    <3> QED
      BY <3>2, <3>3, SameSize
  <2>3. Cardinality(delivered) = Cardinality(replies)
    <3> DEFINE f == [p \in replies |-> p.answer]
    <3>1. delivered = {f[p] : p \in replies} /\ \A p, q \in replies : f[p] = f[q] => p = q
      BY <1>1 DEF InboxInv
    <3>2. IsFiniteSet(replies)
      BY <1>1 DEF InboxInv
    <3> HIDE DEF f
    <3>3. Cardinality({f[p] : p \in replies}) = Cardinality(replies)
      BY <3>1, <3>2, SameSize
    <3> QED
      BY <3>1, <3>3
  <2> QED
    BY <2>1, <2>2, <2>3 DEF AnswersConserved
<1> QED
  BY <1>1, AnswersInOrder, PTL DEF CameraTypes
=============================================================================
