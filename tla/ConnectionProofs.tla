--------------------------- MODULE ConnectionProofs ---------------------------
(***************************************************************************)
(* Proofs about Connection, for any number of connections, pairings and    *)
(* attempts: types, the transports the host leaves open, what a mismatch   *)
(* and a stored key mean, and that every step of host and camera is one of *)
(* SessionAgreement or none.                                               *)
(***************************************************************************)
EXTENDS Connection, SequenceTheorems, TLAPS

(* The messages on a connection.                                           *)
LensMessages ==
  [t : {"query", "pairing"}] \cup [t : {"isc"}, app : Nonces] \cup [t : {"csc"}, sess : Sessions]

HostMessages ==
  [t : {"paired"}, key : 1..KeyMax] \cup [t : {"isc", "csc"}, sess : Sessions]
    \cup [t : {"public", "stray"}]

QueueTypes == toLens \in Seq(LensMessages) /\ toHost \in Seq(HostMessages)

KeyTypes ==
  /\ keys \in 0..KeyMax /\ lensKey \in 0..keys /\ setup \in BOOLEAN
  /\ store \in 0..keys /\ mgrKey \in 0..keys /\ key \in 0..keys
  /\ \A i \in 1..Len(toHost) : toHost[i].t = "paired" => toHost[i].key <= keys

CallTypes ==
  /\ user \in {"manager", "pair", "app"}
  /\ pc \in {"idle", "opening", "direct"} \cup Working
  /\ tries \in 0..Attempts /\ (pc = "opening" => tries < Attempts)
  /\ app \in Nonces \cup {NoNonce}
  /\ offer \in Sessions \cup {NoSession}
  /\ verdict \in {"none", "ok", "asleep", "lost", "timeout", "mismatch", "foreign"}

(* Whose transport is whose.                                               *)
TransportInv ==
  /\ conns \in 0..ConnMax /\ opened \subseteq 1..conns /\ alive \subseteq opened
  /\ abandoned \subseteq opened
  /\ held \in 0..conns /\ cur \in 0..conns /\ lensConn \in 0..conns
  /\ cur = 0 <=> pc \in {"idle", "opening"}
  /\ cur # 0 => cur \in opened
  /\ held # 0 => held # cur
  /\ held \notin abandoned /\ cur \notin abandoned
  /\ (user = "manager" /\ pc # "idle") => held = 0
  /\ pc = "direct" => user = "app"
  /\ TransportsAccounted

SessionTypes ==
  /\ lensOffer \in Sessions \cup {NoSession}
  /\ sess \in [Conns -> Sessions \cup {NoSession}]
  /\ lensSess \in [Conns -> Sessions \cup {NoSession}]

(* How many resumes the call has begun on its connection.                  *)
Sent == IF app[1] = cur THEN app[2] ELSE 0

Asks(i) == toLens[i].t = "isc"

(* The camera is not ahead of the ISCs of its connection: its number of    *)
(* answers is below the number of each that is still to be answered.       *)
AnswersInv ==
  lensConn # 0 =>
    /\ \A i \in 1..Len(toLens) : Asks(i) => lensOffer.lens[2] < toLens[i].app[2]
    /\ \A i, j \in 1..Len(toLens) :
         (i < j /\ Asks(i) /\ Asks(j)) => toLens[i].app[2] < toLens[j].app[2]
    /\ cur # 0 =>
         /\ lensConn = cur /\ lensOffer.lens[2] <= Sent
         /\ \A i \in 1..Len(toLens) : Asks(i) => toLens[i].app[2] <= Sent

(* Where sessions come from.                                               *)
AgreeInv ==
  /\ \A c \in Conns : c > conns => sess[c] = NoSession
  /\ \A c \in Conns : lensSess[c] # NoSession => lensSess[c].lens[1] = c
  /\ (lensConn # 0 /\ lensOffer # NoSession) => lensOffer.lens[1] = lensConn
  /\ cur # 0 => \A i \in 1..Len(toHost) :
       toHost[i].t = "csc" => toHost[i].sess = lensSess[cur]

(* From the ISC answer on, the call, then its Camera, then the camera have *)
(* a session under the call's key.                                         *)
KeyedInv ==
  /\ pc \in {"csc", "csc?", "ready"} => offer \in Sessions /\ offer.key = key
  /\ pc \in {"csc?", "ready"} => sess[cur] = offer
  /\ pc = "ready" => lensSess[cur] = offer

(* A call of the manager or of the pair command asks once on its           *)
(* connection: before it has, no ISC is under way in either direction, and *)
(* after it, none with another nonce.  An answer under another key than    *)
(* the call's means that the camera's is another, and stays another.       *)
Early == {"query", "query?", "pair", "pair?", "isc"}

KeyKnown ==
  /\ (user = "manager" /\ pc = "opening") => key # 0
  /\ (user # "app" /\ pc \in {"isc", "isc?", "csc", "csc?", "ready", "saved"}) => key # 0

AskedOnce ==
  (user # "app" /\ cur # 0) => \A i \in 1..Len(toLens) :
    toLens[i].t = "isc" => pc \notin Early /\ toLens[i].app = app

AnsweredOnce ==
  (user # "app" /\ cur # 0) => \A i \in 1..Len(toHost) :
    toHost[i].t = "isc" =>
      /\ pc \notin Early /\ toHost[i].sess.app = app
      /\ toHost[i].sess.key # key => key # lensKey

MismatchInv ==
  (verdict = "mismatch" /\ user # "app") => pc = "idle" /\ key # 0 /\ key # lensKey

OnceInv == KeyKnown /\ AskedOnce /\ AnsweredOnce /\ MismatchInv

-----------------------------------------------------------------------------
(* Every message of q is one of r.                                         *)
Within(q, r) == \A i \in 1..Len(q) : \E j \in 1..Len(r) : q[i] = r[j]

(* Reading a message, losing the last ones or all of them adds none.       *)
LEMMA QueueShrinks ==
  ASSUME NEW S, NEW q \in Seq(S)
  PROVE  /\ Within(q, q)
         /\ Within(<< >>, q) /\ << >> \in Seq(S)
         /\ q # << >> => Tail(q) \in Seq(S) /\ Within(Tail(q), q)
         /\ \A n \in 0..Len(q) : SubSeq(q, 1, n) \in Seq(S) /\ Within(SubSeq(q, 1, n), q)
<1>1. Len(q) \in Nat /\ \A i \in 1..Len(q) : q[i] \in S
  BY LenProperties, ElementOfSeq
<1>2. Within(q, q)
  BY DEF Within
<1>3. Within(<< >>, q) /\ << >> \in Seq(S)
  <2>1. Len(<< >>) = 0 /\ << >> \in Seq(S)
    BY EmptySeq
  <2> QED
    BY <2>1 DEF Within
<1>4. ASSUME q # << >> PROVE Tail(q) \in Seq(S) /\ Within(Tail(q), q)
  <2>1. /\ Tail(q) \in Seq(S) /\ Len(Tail(q)) = Len(q) - 1
        /\ \A i \in 1..Len(Tail(q)) : Tail(q)[i] = q[i + 1]
    BY <1>4, HeadTailProperties
  <2>2. \A i \in 1..Len(Tail(q)) : i + 1 \in 1..Len(q)
    BY <1>1, <2>1
  <2> QED
    BY <2>1, <2>2 DEF Within
<1>5. ASSUME NEW n \in 0..Len(q)
      PROVE  SubSeq(q, 1, n) \in Seq(S) /\ Within(SubSeq(q, 1, n), q)
  <2>1. n \in Int /\ 1 \in Int /\ \A i \in 1..n : q[i] \in S /\ i \in 1..Len(q)
    BY <1>1
  <2>2. /\ SubSeq(q, 1, n) \in Seq(S)
        /\ Len(SubSeq(q, 1, n)) = IF 1 <= n THEN n - 1 + 1 ELSE 0
        /\ \A i \in 1..(n - 1 + 1) : SubSeq(q, 1, n)[i] = q[1 + i - 1]
    BY <2>1, SubSeqProperties
  <2>3. \A i \in 1..Len(SubSeq(q, 1, n)) : SubSeq(q, 1, n)[i] = q[i] /\ i \in 1..Len(q)
    BY <2>1, <2>2
  <2> QED
    BY <2>2, <2>3 DEF Within
<1> QED
  BY <1>2, <1>3, <1>4, <1>5

(* A message that is appended is the only new one.                         *)
LEMMA QueueGrows ==
  ASSUME NEW S, NEW q \in Seq(S), NEW m \in S
  PROVE  /\ Append(q, m) \in Seq(S)
         /\ \A i \in 1..Len(Append(q, m)) :
              \/ i \in 1..Len(q) /\ Append(q, m)[i] = q[i]
              \/ i = Len(q) + 1 /\ Append(q, m)[i] = m
<1>1. Len(q) \in Nat
  BY LenProperties
<1>2. /\ Append(q, m) \in Seq(S) /\ Len(Append(q, m)) = Len(q) + 1
      /\ \A i \in 1..Len(q) : Append(q, m)[i] = q[i]
      /\ Append(q, m)[Len(q) + 1] = m
  BY AppendProperties
<1>3. \A i \in 1..(Len(q) + 1) : i \in 1..Len(q) \/ i = Len(q) + 1
  BY <1>1
<1> QED
  BY <1>2, <1>3

(* The first message of a queue is in it.                                  *)
LEMMA HeadIsFirst ==
  ASSUME NEW S, NEW q \in Seq(S), q # << >>
  PROVE  Head(q) = q[1] /\ 1 \in 1..Len(q) /\ q[1] \in S
<1>1. Len(q) \in Nat \ {0}
  BY EmptySeq
<1>2. Head(q) = q[1] /\ 1 \in 1..Len(q)
  BY <1>1
<1> QED
  BY <1>2, ElementOfSeq

LEMMA LensMessageFields ==
  ASSUME NEW m \in LensMessages
  PROVE  /\ m.t \in {"query", "pairing", "isc", "csc"}
         /\ m.t = "isc" => m.app \in Nonces
         /\ m.t = "csc" => m.sess \in Sessions
BY DEF LensMessages

LEMMA HostMessageFields ==
  ASSUME NEW m \in HostMessages
  PROVE  /\ m.t \in {"public", "paired", "isc", "csc", "stray"}
         /\ m.t = "paired" => m.key \in 1..KeyMax
         /\ m.t \in {"isc", "csc"} => m.sess \in Sessions
BY DEF HostMessages

LEMMA NoSessionIsNone == NoSession \notin Sessions
BY DEF NoSession, Sessions

-----------------------------------------------------------------------------
(* How a call ends badly, or with the pair command: one of these.          *)
Verdicts == {"none", "ok", "asleep", "lost", "timeout", "mismatch", "foreign"}

Ends ==
  \E o \in Verdicts :
    /\ Fails(o) \/ HandsBack(o)
    /\ pc \in Working
    /\ pc = "csc?" => o \in {"lost", "timeout"}
    /\ o = "mismatch" => pc = "isc?" /\ Arrives("isc") /\ ~ProofIsRight(Incoming.sess)

LEMMA EndsAre ==
  ASSUME ReadWrongIsc \/ TimesOut \/ LinkIsLost \/ PairEnds
  PROVE  Ends
<1> USE DEF Verdicts, Ends, EndsWith, Working, Waiting
<1>1. CASE ReadWrongIsc
  BY <1>1 DEF ReadWrongIsc
<1>2. CASE TimesOut
  BY <1>2 DEF TimesOut
<1>3. CASE LinkIsLost
  BY <1>3 DEF LinkIsLost
<1>4. CASE PairEnds
  BY <1>4 DEF PairEnds
<1> QED
  BY <1>1, <1>2, <1>3, <1>4

ToLensShrinks == toLens' \in Seq(LensMessages) /\ Within(toLens', toLens)
ToHostShrinks == toHost' \in Seq(HostMessages) /\ Within(toHost', toHost)

(* Only the host's three requests are added to what the camera is to read, *)
(* and only the camera's three answers and strays to what the host is to.  *)
LEMMA ToLensStep ==
  ASSUME QueueTypes, [Next]_vars
  PROVE  \/ ToLensShrinks
         \/ SendPairing \/ SendQuery \/ SendCsc \/ \E i \in 1..ResumeMax : SendIsc(i)
<1>1. ASSUME toLens' = toLens \/ toLens' = << >> \/ (toLens # << >> /\ toLens' = Tail(toLens))
      PROVE  ToLensShrinks
  BY <1>1, QueueShrinks DEF QueueTypes, ToLensShrinks
<1>2. CASE \/ NewManager \/ Connect \/ Close \/ Forget \/ CloseOnKeeper \/ Crash
           \/ (\E who \in {"pair", "app"} : BeginOther(who))
           \/ (\E c \in Conns : Notices(c)) \/ UNCHANGED vars
  BY <1>1, <1>2 DEF NewManager, Connect, Close, Forget, BeginOther, Notices,
     CloseOnKeeper, Crash, ClearQueues, vars
<1>3. CASE \/ OpenFails \/ (\E c \in Conns : OpenSucceeds(c)) \/ ForeignError \/ Hold
           \/ Save \/ AppHas \/ AppResumes \/ AppLeaves
  BY <1>1, <1>3 DEF OpenFails, OpenSucceeds, ForeignError, Hold, Save, AppHas, AppResumes,
     AppLeaves, ClearQueues
<1>4. CASE ReadPaired \/ ReadPublic \/ QueryUnanswered \/ ReadIsc \/ ReadCsc \/ ReadOther
  BY <1>1, <1>4 DEF ReadPaired, ReadPublic, QueryUnanswered, ReadIsc, ReadCsc,
     ReadOther, Consume
<1>5. CASE Ends
  BY <1>1, <1>5 DEF Ends, Fails, HandsBack, ClearQueues
<1>6. CASE \/ LensPairs \/ LensRefusesPairing \/ LensTellsPublic \/ LensAnswersIsc
           \/ LensAnswersCsc
           \/ LensSendsPlain \/ LensIgnores \/ LinkDrops \/ FactoryReset
           \/ PairedElsewhere
  BY <1>1, <1>6 DEF LensPairs, LensRefusesPairing, LensTellsPublic, LensAnswersIsc,
     LensAnswersCsc, LensSendsPlain, LensIgnores, LinkDrops, FactoryReset,
     PairedElsewhere, Asked, Answer, Drop
<1>7. CASE SendPairing \/ SendQuery \/ SendCsc \/ \E i \in 1..ResumeMax : SendIsc(i)
  BY <1>7
<1> QED
  BY <1>2, <1>3, <1>4, <1>5, <1>6, <1>7, EndsAre DEF Next, CallRuns, Lens

LEMMA ToHostStep ==
  ASSUME QueueTypes, [Next]_vars
  PROVE  \/ ToHostShrinks
         \/ LensTellsPublic \/ LensPairs \/ LensAnswersIsc \/ LensAnswersCsc
         \/ LensSendsPlain
<1>1. ASSUME \/ toHost' = toHost \/ toHost' = << >>
             \/ toHost # << >> /\ toHost' = Tail(toHost)
             \/ \E n \in 0..Len(toHost) : toHost' = SubSeq(toHost, 1, n)
      PROVE  ToHostShrinks
  BY <1>1, QueueShrinks DEF QueueTypes, ToHostShrinks
<1>2. CASE \/ NewManager \/ Connect \/ Close \/ Forget \/ CloseOnKeeper \/ Crash
           \/ (\E who \in {"pair", "app"} : BeginOther(who))
           \/ (\E c \in Conns : Notices(c)) \/ UNCHANGED vars
  BY <1>1, <1>2 DEF NewManager, Connect, Close, Forget, BeginOther, Notices,
     CloseOnKeeper, Crash, ClearQueues, vars
<1>3. CASE \/ OpenFails \/ (\E c \in Conns : OpenSucceeds(c)) \/ ForeignError \/ Hold
           \/ Save \/ AppHas \/ AppResumes \/ AppLeaves
  BY <1>1, <1>3 DEF OpenFails, OpenSucceeds, ForeignError, Hold, Save, AppHas, AppResumes,
     AppLeaves, ClearQueues
<1>4. CASE ReadPaired \/ ReadPublic \/ QueryUnanswered \/ ReadIsc \/ ReadCsc \/ ReadOther
  BY <1>1, <1>4 DEF ReadPaired, ReadPublic, QueryUnanswered, ReadIsc, ReadCsc,
     ReadOther, Arrives, Consume
<1>5. CASE Ends
  BY <1>1, <1>5 DEF Ends, Fails, HandsBack, Arrives, ClearQueues
<1>6. CASE SendPairing \/ SendQuery \/ SendCsc \/ \E i \in 1..ResumeMax : SendIsc(i)
  BY <1>1, <1>6 DEF SendPairing, SendQuery, SendCsc, SendIsc, Send
<1>7. CASE \/ LensRefusesPairing \/ LensIgnores \/ LinkDrops \/ FactoryReset
           \/ PairedElsewhere
  BY <1>1, <1>7 DEF LensRefusesPairing, LensIgnores, LinkDrops, FactoryReset,
     PairedElsewhere, Drop
<1>8. CASE \/ LensTellsPublic \/ LensPairs \/ LensAnswersIsc \/ LensAnswersCsc
           \/ LensSendsPlain
  BY <1>8
<1> QED
  BY <1>2, <1>3, <1>4, <1>5, <1>6, <1>7, <1>8, EndsAre DEF Next, CallRuns, Lens

(* The camera's offer and sessions only move by its own answers, and with  *)
(* a new connection.                                                       *)
LEMMA LensMoves ==
  ASSUME [Next]_vars
  PROVE  /\ LensAnswersIsc \/ (\E c \in Conns : OpenSucceeds(c)) \/ UNCHANGED lensOffer
         /\ LensAnswersCsc \/ UNCHANGED lensSess
<1>1. CASE \/ NewManager \/ Connect \/ Close \/ Forget \/ CloseOnKeeper \/ Crash
           \/ (\E who \in {"pair", "app"} : BeginOther(who)) \/ AppLeaves
           \/ (\E c \in Conns : Notices(c)) \/ AppResumes \/ UNCHANGED vars
  BY <1>1 DEF NewManager, Connect, Close, Forget, CloseOnKeeper, Crash, BeginOther,
     AppLeaves, Notices, AppResumes, CloseTransport, lensVars, vars
<1>2. CASE \/ OpenFails \/ ForeignError \/ Hold \/ Save \/ AppHas \/ SendPairing
           \/ SendQuery \/ SendCsc
           \/ (\E i \in 1..ResumeMax : SendIsc(i)) \/ ReadPaired \/ ReadPublic
           \/ QueryUnanswered \/ ReadIsc \/ ReadCsc
           \/ ReadOther
  BY <1>2 DEF OpenFails, ForeignError, Hold, Save, AppHas, SendPairing, SendQuery,
     SendCsc, SendIsc, ReadPaired, ReadPublic, QueryUnanswered, ReadIsc, ReadCsc,
     ReadOther, lensVars
<1>3. CASE Ends
  BY <1>3 DEF Ends, Fails, HandsBack, CloseTransport, lensVars
<1>4. CASE \E c \in Conns : OpenSucceeds(c)
  BY <1>4 DEF OpenSucceeds
<1>5. CASE Lens
  BY <1>5 DEF Lens, LensPairs, LensRefusesPairing, LensTellsPublic, LensAnswersIsc,
     LensAnswersCsc, LensSendsPlain, LensIgnores, LinkDrops, FactoryReset,
     PairedElsewhere, lensVars, lensSays
<1> QED
  BY <1>1, <1>2, <1>3, <1>4, <1>5, EndsAre DEF Next, CallRuns

-----------------------------------------------------------------------------
(* The invariant of types, with all it rests on.                           *)
TypeInv ==
  /\ QueueTypes /\ KeyTypes /\ CallTypes /\ TransportInv /\ SessionTypes /\ AnswersInv
  /\ KeyedInv

(* What the camera is asked, while it has a connection.                    *)
LEMMA AskedMessage ==
  ASSUME QueueTypes, NEW t, Asked(t)
  PROVE  /\ lensConn # 0 /\ 1 \in 1..Len(toLens) /\ Head(toLens) = toLens[1]
         /\ toLens[1].t = t /\ toLens[1] \in LensMessages
BY HeadIsFirst DEF QueueTypes, Asked

(* The camera's answer to an ISC stands for a session of its connection.   *)
LEMMA OfferIsSession ==
  ASSUME TypeInv, LensAnswersIsc
  PROVE  /\ lensOffer' \in Sessions /\ lensOffer'.key = lensKey
         /\ lensOffer'.app = toLens[1].app
         /\ lensOffer'.lens[1] = lensConn /\ lensOffer'.lens[2] = 1 + lensOffer.lens[2]
<1>1. /\ lensConn # 0 /\ 1 \in 1..Len(toLens) /\ Head(toLens) = toLens[1]
      /\ toLens[1].t = "isc" /\ toLens[1] \in LensMessages
  BY AskedMessage DEF TypeInv, LensAnswersIsc
<1>2. toLens[1].app \in Nonces
  BY <1>1, LensMessageFields
<1>3. lensKey \in 1..KeyMax
  BY BoundsAssumption DEF TypeInv, KeyTypes, LensAnswersIsc
<1>4. lensOffer.lens[2] < toLens[1].app[2]
  BY <1>1 DEF TypeInv, AnswersInv, Asks
<1>5. lensOffer.lens[2] \in Nat
  BY BoundsAssumption DEF TypeInv, SessionTypes, Sessions, NoSession, Nonces, NoNonce
<1>6. toLens[1].app[2] \in 1..ResumeMax
  BY <1>2 DEF Nonces
<1>7. 1 + lensOffer.lens[2] \in 1..ResumeMax
  BY <1>4, <1>5, <1>6, BoundsAssumption
<1>8. lensConn \in Conns
  BY <1>1, BoundsAssumption DEF TypeInv, TransportInv, Conns
<1>9. <<lensConn, 1 + lensOffer.lens[2]>> \in Nonces
  BY <1>7, <1>8 DEF Nonces
<1>10. lensOffer' = [key |-> lensKey, app |-> toLens[1].app,
                     lens |-> <<lensConn, 1 + lensOffer.lens[2]>>]
  BY <1>1 DEF LensAnswersIsc
<1> QED
  BY <1>2, <1>3, <1>9, <1>10 DEF Sessions

(* A CSC that the camera accepts is of a session.                          *)
LEMMA AcceptedIsSession ==
  ASSUME QueueTypes, LensAnswersCsc
  PROVE  lensOffer \in Sessions /\ lensConn # 0
<1>1. /\ lensConn # 0 /\ Head(toLens) = toLens[1]
      /\ toLens[1].t = "csc" /\ toLens[1] \in LensMessages
  BY AskedMessage DEF LensAnswersCsc
<1> QED
  BY <1>1, LensMessageFields DEF LensAnswersCsc

(* What the host reads.                                                    *)
LEMMA IncomingMessage ==
  ASSUME QueueTypes, toHost # << >>
  PROVE  Incoming = toHost[1] /\ 1 \in 1..Len(toHost) /\ toHost[1] \in HostMessages
BY HeadIsFirst DEF QueueTypes, Incoming

LEMMA QueueTypesKept ==
  ASSUME TypeInv, [Next]_vars
  PROVE  QueueTypes'
<1>0. /\ toLens \in Seq(LensMessages) /\ toHost \in Seq(HostMessages)
  BY DEF TypeInv, QueueTypes
<1>1. toLens' \in Seq(LensMessages)
  <2>1. ASSUME NEW m \in LensMessages, Send(m) PROVE toLens' \in Seq(LensMessages)
    BY <1>0, <2>1, QueueGrows DEF Send
  <2>2. CASE SendPairing \/ SendQuery
    <3>1. [t |-> "query"] \in LensMessages /\ [t |-> "pairing"] \in LensMessages
      BY DEF LensMessages
    <3> QED
      BY <2>1, <2>2, <3>1 DEF SendPairing, SendQuery
  <2>3. CASE SendCsc
    <3>1. offer \in Sessions
      BY <2>3 DEF SendCsc, Goes, TypeInv, KeyedInv
    <3>2. [t |-> "csc", sess |-> offer] \in LensMessages
      BY <3>1 DEF LensMessages
    <3> QED
      BY <2>1, <2>3, <3>2 DEF SendCsc
  <2>4. CASE \E i \in 1..ResumeMax : SendIsc(i)
    <3>1. PICK i \in 1..ResumeMax : SendIsc(i)
      BY <2>4
    <3>2. cur \in Conns
      BY <3>1, BoundsAssumption DEF SendIsc, Goes, TypeInv, TransportInv, Conns
    <3>3. [t |-> "isc", app |-> <<cur, i>>] \in LensMessages
      BY <3>2 DEF LensMessages, Nonces
    <3> QED
      BY <2>1, <3>1, <3>3 DEF SendIsc
  <2> QED
    BY <2>2, <2>3, <2>4, ToLensStep DEF TypeInv, ToLensShrinks
<1>2. toHost' \in Seq(HostMessages)
  <2>1. ASSUME NEW m \in HostMessages, toHost' = Append(toHost, m)
        PROVE  toHost' \in Seq(HostMessages)
    BY <1>0, <2>1, QueueGrows
  <2>2. CASE LensPairs
    <3>1. keys' \in 1..KeyMax
      BY <2>2, BoundsAssumption DEF LensPairs, NewKey, TypeInv, KeyTypes
    <3>2. [t |-> "paired", key |-> keys'] \in HostMessages
      BY <3>1 DEF HostMessages
    <3> QED
      BY <2>1, <2>2, <3>2 DEF LensPairs, Answer
  <2>3. CASE LensAnswersIsc
    <3>1. [t |-> "isc", sess |-> lensOffer'] \in HostMessages
      BY <2>3, OfferIsSession DEF HostMessages
    <3> QED
      BY <2>1, <2>3, <3>1 DEF LensAnswersIsc, Answer
  <2>4. CASE LensAnswersCsc
    <3>1. [t |-> "csc", sess |-> lensOffer] \in HostMessages
      BY <2>4, AcceptedIsSession DEF HostMessages, TypeInv
    <3> QED
      BY <2>1, <2>4, <3>1 DEF LensAnswersCsc, Answer
  <2>5. CASE LensSendsPlain
    <3>1. [t |-> "stray"] \in HostMessages
      BY DEF HostMessages
    <3> QED
      BY <2>1, <2>5, <3>1 DEF LensSendsPlain
  <2>6. CASE LensTellsPublic
    <3>1. [t |-> "public"] \in HostMessages
      BY DEF HostMessages
    <3> QED
      BY <2>1, <2>6, <3>1 DEF LensTellsPublic, Answer
  <2> QED
    BY <2>2, <2>3, <2>4, <2>5, <2>6, ToHostStep DEF TypeInv, ToHostShrinks
<1> QED
  BY <1>1, <1>2 DEF QueueTypes

(* A key is never newer than the camera's last pairing.                    *)
LEMMA KeyTypesKept ==
  ASSUME TypeInv, [Next]_vars
  PROVE  KeyTypes'
<1> DEFINE Numbers == /\ keys \in 0..KeyMax /\ lensKey \in 0..keys
                      /\ store \in 0..keys /\ mgrKey \in 0..keys /\ key \in 0..keys
<1>0. Numbers /\ KeyMax \in Nat /\ toHost \in Seq(HostMessages)
  BY BoundsAssumption DEF TypeInv, KeyTypes, QueueTypes
<1>1. Numbers' /\ keys' >= keys
  <2>1. CASE NewManager \/ Connect \/ Forget \/ Save \/ Crash
    BY <1>0, <2>1 DEF NewManager, Connect, Begin, Forget, Save, Crash, CloseTransport,
       managerVars, callVars, lensVars
  <2>2. CASE \E who \in {"pair", "app"} : BeginOther(who)
    BY <1>0, <2>2 DEF BeginOther, Begin, managerVars, lensVars
  <2>3. CASE ReadPaired
    <3>1. Incoming = toHost[1] /\ 1 \in 1..Len(toHost) /\ toHost[1] \in HostMessages
      BY <2>3, IncomingMessage DEF ReadPaired, Arrives, TypeInv
    <3>2. toHost[1].t = "paired"
      BY <2>3, <3>1 DEF ReadPaired, Arrives
    <3>3. toHost[1].key \in 1..KeyMax /\ toHost[1].key <= keys
      BY <3>1, <3>2, HostMessageFields DEF TypeInv, KeyTypes
    <3>4. key' \in 0..keys
      BY <1>0, <2>3, <3>1, <3>3 DEF ReadPaired
    <3> QED
      BY <1>0, <2>3, <3>4 DEF ReadPaired, managerVars, lensVars
  <2>4. CASE LensPairs \/ PairedElsewhere \/ FactoryReset
    BY <1>0, <2>4 DEF LensPairs, PairedElsewhere, FactoryReset, NewKey, hostVars,
       managerVars, callVars
  <2>5. CASE LensAnswersCsc \/ LensAnswersIsc
    BY <1>0, <2>5 DEF LensAnswersCsc, LensAnswersIsc, hostVars, managerVars, callVars
  <2>6. ASSUME UNCHANGED <<keys, lensKey, store, mgrKey, key>>
        PROVE  Numbers' /\ keys' >= keys
    BY <1>0, <2>6
  <2> HIDE DEF Numbers
  <2>7. CASE Ends
    BY <2>6, <2>7 DEF Ends, Fails, HandsBack, CloseTransport, managerVars, lensVars
  <2>8. CASE \/ Close \/ CloseOnKeeper \/ (\E c \in Conns : Notices(c)) \/ AppHas
             \/ AppResumes \/ AppLeaves \/ UNCHANGED vars
    BY <2>6, <2>8 DEF Close, CloseOnKeeper, Notices, AppHas, AppResumes, AppLeaves, vars,
       CloseTransport, managerVars, callVars, lensVars
  <2>9. CASE \/ OpenFails \/ (\E c \in Conns : OpenSucceeds(c)) \/ ForeignError \/ Hold
             \/ SendPairing \/ SendQuery \/ SendCsc \/ \E i \in 1..ResumeMax : SendIsc(i)
    BY <2>6, <2>9 DEF OpenFails, OpenSucceeds, ForeignError, Hold, SendPairing,
       SendQuery, SendCsc, SendIsc, managerVars, lensVars
  <2>10. CASE ReadPublic \/ QueryUnanswered \/ ReadIsc \/ ReadCsc \/ ReadOther
    BY <2>6, <2>10 DEF ReadPublic, QueryUnanswered, ReadIsc, ReadCsc, ReadOther,
       managerVars, callVars, lensVars
  <2>11. CASE \/ LensRefusesPairing \/ LensTellsPublic \/ LensSendsPlain \/ LensIgnores
              \/ LinkDrops
    BY <2>6, <2>11 DEF LensRefusesPairing, LensTellsPublic, LensSendsPlain, LensIgnores,
       LinkDrops, Drop, hostVars, lensSays, lensVars, managerVars, callVars
  <2> QED
    BY <2>1, <2>2, <2>3, <2>4, <2>5, <2>7, <2>8, <2>9, <2>10, <2>11, EndsAre
       DEF Next, CallRuns, Lens
<1> DEFINE OldEnough(q, n) == \A i \in 1..Len(q) : q[i].t = "paired" => q[i].key <= n
<1>2. OldEnough(toHost, keys) /\ \A i \in 1..Len(toHost) : toHost[i] \in HostMessages
  BY <1>0, ElementOfSeq DEF TypeInv, KeyTypes
<1>3. OldEnough(toHost', keys')
  <2>1. ASSUME Within(toHost', toHost) PROVE OldEnough(toHost', keys')
    <3> SUFFICES ASSUME NEW i \in 1..Len(toHost'), toHost'[i].t = "paired"
                 PROVE  toHost'[i].key <= keys'
      OBVIOUS
    <3>1. PICK j \in 1..Len(toHost) : toHost'[i] = toHost[j]
      BY <2>1 DEF Within
    <3>2. toHost[j].key \in 1..KeyMax /\ toHost[j].key <= keys
      BY <1>2, <3>1, HostMessageFields
    <3>3. keys \in Nat /\ keys' \in Nat /\ keys' >= keys
      BY <1>0, <1>1
    <3> QED
      BY <1>0, <3>1, <3>2, <3>3
  <2>2. ASSUME NEW m \in HostMessages, toHost' = Append(toHost, m),
               m.t = "paired" => m.key <= keys'
        PROVE  OldEnough(toHost', keys')
    <3> SUFFICES ASSUME NEW i \in 1..Len(toHost'), toHost'[i].t = "paired"
                 PROVE  toHost'[i].key <= keys'
      OBVIOUS
    <3>1. \/ i \in 1..Len(toHost) /\ toHost'[i] = toHost[i]
          \/ toHost'[i] = m
      BY <1>0, <2>2, QueueGrows
    <3>2. CASE i \in 1..Len(toHost) /\ toHost'[i] = toHost[i]
      <4>1. toHost[i].key \in 1..KeyMax /\ toHost[i].key <= keys
        BY <1>2, <3>2, HostMessageFields
      <4>2. keys \in Nat /\ keys' \in Nat /\ keys' >= keys
        BY <1>0, <1>1
      <4> QED
        BY <1>0, <3>2, <4>1, <4>2
    <3> QED
      BY <2>2, <3>1, <3>2
  <2> HIDE DEF OldEnough
  <2>3. CASE LensPairs
    <3>1. [t |-> "paired", key |-> keys'] \in HostMessages
      <4>1. keys' \in 1..KeyMax
        BY <1>0, <2>3 DEF LensPairs, NewKey
      <4> QED
        BY <4>1 DEF HostMessages
    <3>2. keys' <= keys'
      BY <1>0, <1>1
    <3> QED
      BY <2>2, <2>3, <3>1, <3>2 DEF LensPairs, Answer
  <2>4. CASE LensAnswersIsc
    <3>1. [t |-> "isc", sess |-> lensOffer'] \in HostMessages
      BY <2>4, OfferIsSession DEF HostMessages
    <3> QED
      BY <2>2, <2>4, <3>1 DEF LensAnswersIsc, Answer
  <2>5. CASE LensAnswersCsc
    <3>1. [t |-> "csc", sess |-> lensOffer] \in HostMessages
      BY <2>5, AcceptedIsSession DEF HostMessages, TypeInv
    <3> QED
      BY <2>2, <2>5, <3>1 DEF LensAnswersCsc, Answer
  <2>6. CASE LensSendsPlain
    <3>1. [t |-> "stray"] \in HostMessages
      BY DEF HostMessages
    <3> QED
      BY <2>2, <2>6, <3>1 DEF LensSendsPlain
  <2>7. CASE LensTellsPublic
    <3>1. [t |-> "public"] \in HostMessages
      BY DEF HostMessages
    <3> QED
      BY <2>2, <2>7, <3>1 DEF LensTellsPublic, Answer
  <2> QED
    BY <2>1, <2>3, <2>4, <2>5, <2>6, <2>7, ToHostStep DEF TypeInv, ToHostShrinks
<1>4. setup' \in BOOLEAN
  <2>1. setup \in BOOLEAN
    BY DEF TypeInv, KeyTypes
  <2>2. setup' \in {TRUE, FALSE, setup}
    <3>1. ASSUME Lens PROVE setup' \in {TRUE, FALSE, setup}
      BY <3>1 DEF Lens, LensPairs, LensRefusesPairing, LensTellsPublic, LensAnswersIsc,
         LensAnswersCsc, LensSendsPlain, LensIgnores, LinkDrops, FactoryReset,
         PairedElsewhere, lensVars, lensSays
    <3>2. ASSUME Ends PROVE UNCHANGED setup
      BY <3>2 DEF Ends, Fails, HandsBack, CloseTransport, lensVars
    <3>3. ASSUME \/ NewManager \/ Connect \/ Close \/ Forget \/ CloseOnKeeper \/ Crash
                 \/ (\E who \in {"pair", "app"} : BeginOther(who))
                 \/ (\E c \in Conns : Notices(c)) \/ AppResumes \/ AppLeaves
                 \/ UNCHANGED vars
          PROVE  UNCHANGED setup
      BY <3>3 DEF NewManager, Connect, Close, Forget, CloseOnKeeper, Crash, BeginOther,
         Notices, AppResumes, AppLeaves, CloseTransport, lensVars, vars
    <3>4. ASSUME \/ OpenFails \/ (\E c \in Conns : OpenSucceeds(c)) \/ ForeignError
                 \/ Hold \/ Save \/ AppHas \/ SendPairing \/ SendQuery \/ SendCsc
                 \/ (\E i \in 1..ResumeMax : SendIsc(i)) \/ ReadPaired \/ ReadPublic
                 \/ QueryUnanswered \/ ReadIsc
                 \/ ReadCsc \/ ReadOther
          PROVE  UNCHANGED setup
      BY <3>4 DEF OpenFails, OpenSucceeds, ForeignError, Hold, Save, AppHas,
         SendPairing, SendQuery, SendCsc, SendIsc, ReadPaired, ReadPublic,
         QueryUnanswered, ReadIsc, ReadCsc, ReadOther, lensVars
    <3> QED
      BY <3>1, <3>2, <3>3, <3>4, EndsAre DEF Next, CallRuns
  <2> QED
    BY <2>1, <2>2
<1> QED
  BY <1>1, <1>3, <1>4 DEF KeyTypes

LEMMA CallTypesKept ==
  ASSUME TypeInv, [Next]_vars
  PROVE  CallTypes'
<1> USE DEF CallTypes
<1>0. CallTypes /\ Attempts \in Nat \ {0}
  BY BoundsAssumption DEF TypeInv
<1>1. CASE Connect \/ (\E who \in {"pair", "app"} : BeginOther(who))
  <2>1. /\ user' \in {"manager", "pair", "app"} /\ pc' = "opening" /\ tries' = 0
        /\ verdict' = "none" /\ app' = NoNonce /\ offer' = NoSession
    BY <1>1 DEF Connect, BeginOther, Begin
  <2> QED
    BY <1>0, <2>1
<1>2. CASE OpenFails
  BY <1>0, <1>2 DEF OpenFails
<1>3. CASE \E c \in Conns : OpenSucceeds(c)
  BY <1>0, <1>3 DEF OpenSucceeds, Working
<1>4. CASE Ends
  <2>1. pc' \in {"idle", "direct"} /\ UNCHANGED <<user, tries, app, offer>>
    BY <1>4 DEF Ends, Fails, HandsBack
  <2>2. verdict' \in Verdicts
    BY <1>4 DEF Ends, Fails, HandsBack
  <2> QED
    BY <1>0, <2>1, <2>2 DEF Verdicts
<1>5. CASE \E i \in 1..ResumeMax : SendIsc(i)
  <2>1. PICK i \in 1..ResumeMax : SendIsc(i)
    BY <1>5
  <2>2. cur \in Conns
    BY <2>1, BoundsAssumption DEF SendIsc, Goes, TypeInv, TransportInv, Conns
  <2>3. app' \in Nonces
    BY <2>1, <2>2 DEF SendIsc, Nonces
  <2> QED
    BY <1>0, <2>1, <2>3 DEF SendIsc, Goes, Working, Waiting
<1>6. CASE ReadIsc
  <2>1. Incoming = toHost[1] /\ toHost[1] \in HostMessages /\ Incoming.t = "isc"
    BY <1>6, IncomingMessage DEF ReadIsc, Arrives, TypeInv
  <2>2. offer' \in Sessions
    BY <1>6, <2>1, HostMessageFields DEF ReadIsc
  <2> QED
    BY <1>0, <1>6, <2>2 DEF ReadIsc, Goes, Working, Waiting
<1>7. CASE ForeignError \/ Hold \/ Save \/ AppHas \/ AppResumes \/ AppLeaves \/ Crash
  BY <1>0, <1>7 DEF ForeignError, Hold, Save, AppHas, AppResumes, AppLeaves, Crash, Goes,
     Working
<1>8. CASE \/ SendPairing \/ SendQuery \/ SendCsc \/ ReadPaired \/ ReadPublic
           \/ QueryUnanswered \/ ReadCsc
  BY <1>0, <1>8 DEF SendPairing, SendQuery, SendCsc, ReadPaired, ReadPublic,
     QueryUnanswered, ReadCsc, Goes, Working, Waiting
<1>9. ASSUME UNCHANGED callVars PROVE CallTypes'
  BY <1>0, <1>9 DEF callVars
<1>10. CASE \/ NewManager \/ Close \/ Forget \/ (\E c \in Conns : Notices(c))
            \/ CloseOnKeeper \/ ReadOther \/ Lens \/ UNCHANGED vars
  <2>1. UNCHANGED callVars
    BY <1>10 DEF NewManager, Close, Forget, Notices, CloseOnKeeper, ReadOther, Lens,
       LensPairs, LensRefusesPairing, LensTellsPublic, LensAnswersIsc, LensAnswersCsc,
       LensSendsPlain, LensIgnores, LinkDrops, FactoryReset, PairedElsewhere, hostVars,
       vars
  <2> QED
    BY <1>9, <2>1
<1> QED
  BY <1>1, <1>2, <1>3, <1>4, <1>5, <1>6, <1>7, <1>8, <1>10, EndsAre DEF Next, CallRuns

(* Every transport of the host is held, in use, closed or abandoned.       *)
LEMMA TransportKept ==
  ASSUME TypeInv, [Next]_vars
  PROVE  TransportInv'
<1> USE DEF TransportInv, TransportsAccounted
<1>0. /\ TransportInv /\ ConnMax \in Nat
      /\ pc \in {"idle", "opening", "direct", "query", "pair", "isc", "csc", "ready", "saved",
                 "query?", "pair?", "isc?", "csc?"}
      /\ Working = {"query", "pair", "isc", "csc", "ready", "saved",
                    "query?", "pair?", "isc?", "csc?"}
  BY BoundsAssumption DEF TypeInv, CallTypes, Working, Waiting
<1>1. CASE Connect \/ Close
  BY <1>0, <1>1 DEF Connect, Close, Begin, CloseTransport, LinkUp, callVars
<1>2. CASE \E who \in {"pair", "app"} : BeginOther(who)
  BY <1>0, <1>2 DEF BeginOther, Begin, managerVars, transportVars, lensVars
<1>3. CASE OpenFails
  BY <1>0, <1>3 DEF OpenFails, managerVars, transportVars, lensVars
<1>4. CASE \E c \in Conns : OpenSucceeds(c)
  <2>1. PICK c \in Conns : OpenSucceeds(c)
    BY <1>4
  <2>2. /\ c = conns + 1 /\ conns' = c /\ c \in 1..ConnMax /\ conns \in Nat
        /\ cur' = c /\ lensConn' = c /\ opened' = opened \cup {c}
        /\ alive' = alive \cup {c} /\ pc = "opening" /\ pc' \in {"query", "isc"}
        /\ UNCHANGED <<held, user, abandoned>>
    BY <1>0, <2>1 DEF OpenSucceeds, Conns, managerVars
  <2>3. 1..conns' = 1..conns \cup {c} /\ c \notin 1..conns /\ c \notin 0..conns
    BY <2>2
  <2> QED
    BY <1>0, <2>2, <2>3
<1>5. CASE Ends
  <2>1. /\ pc \in Working /\ UNCHANGED <<held, user, conns, abandoned>>
        /\ opened' \in {opened, opened \ {cur}} /\ pc' \in {"idle", "direct"}
    BY <1>5 DEF Ends, Fails, HandsBack, CloseTransport, managerVars
  <2>2. CASE \E o \in Verdicts : Fails(o)
    <3>1. /\ user # "app" /\ pc' = "idle" /\ cur' = 0 /\ opened' = opened \ {cur}
          /\ alive' = alive \ {cur} /\ lensConn' \in {0, lensConn}
      BY <2>2 DEF Fails, CloseTransport, LinkUp
    <3> QED
      BY <1>0, <2>1, <3>1
  <2>3. CASE \E o \in Verdicts : HandsBack(o)
    <3>1. /\ user = "app" /\ pc' = "direct" /\ UNCHANGED <<cur, opened, lensConn>>
          /\ alive' \in {alive, alive \ {cur}}
      BY <2>3 DEF HandsBack, lensVars
    <3> QED
      BY <1>0, <2>1, <3>1
  <2> QED
    BY <1>5, <2>2, <2>3 DEF Ends
<1>6. CASE ForeignError
  BY <1>0, <1>6 DEF ForeignError, managerVars, lensVars
<1>7. CASE Hold
  BY <1>0, <1>7 DEF Hold, Goes, transportVars, lensVars
<1>8. CASE AppLeaves
  BY <1>0, <1>8 DEF AppLeaves, Goes, CloseTransport, LinkUp, managerVars
<1>9. CASE Crash
  BY <1>0, <1>9 DEF Crash
<1>10. CASE (\E c \in Conns : Notices(c)) \/ CloseOnKeeper
  <2>1. UNCHANGED <<user, pc, cur, conns, opened, lensConn>>
    BY <1>10 DEF Notices, CloseOnKeeper, callVars, lensVars
  <2>2. CASE \E c \in Conns : Notices(c)
    <3>1. alive' \subseteq alive /\ UNCHANGED <<held, abandoned>>
      BY <2>2 DEF Notices, managerVars
    <3> QED
      BY <1>0, <2>1, <3>1
  <2>3. CASE CloseOnKeeper
    <3>1. /\ held \in alive /\ held # 0 /\ alive' = alive \ {held} /\ held' = 0
          /\ abandoned' = abandoned \cup {held}
      BY <2>3 DEF CloseOnKeeper, connected
    <3> QED
      BY <1>0, <2>1, <3>1
  <2> QED
    BY <1>10, <2>2, <2>3
<1>11. ASSUME UNCHANGED <<held, user, cur, conns, opened, alive, abandoned>>,
              lensConn' \in {0, lensConn},
              \/ pc' = pc
              \/ pc \in Working /\ pc' \in Working
              \/ pc = "ready" /\ user = "app" /\ pc' = "direct"
              \/ pc = "direct" /\ pc' = "isc"
       PROVE  TransportInv'
  BY <1>0, <1>11
<1> HIDE DEF TransportInv
<1>12. CASE Save \/ AppHas \/ AppResumes \/ SendPairing \/ SendQuery \/ SendCsc
            \/ (\E i \in 1..ResumeMax : SendIsc(i))
  BY <1>0, <1>11, <1>12 DEF Save, AppHas, AppResumes, SendPairing, SendQuery, SendCsc,
     SendIsc, Goes, managerVars, transportVars, lensVars
<1>13. CASE ReadPaired \/ ReadPublic \/ QueryUnanswered \/ ReadIsc \/ ReadCsc \/ ReadOther
  BY <1>0, <1>11, <1>13 DEF ReadPaired, ReadPublic, QueryUnanswered, ReadIsc, ReadCsc,
     ReadOther, Goes, managerVars, callVars, transportVars, lensVars
<1>14. CASE NewManager \/ Forget \/ UNCHANGED vars
  BY <1>11, <1>14 DEF NewManager, Forget, vars, managerVars, callVars, transportVars,
     lensVars
<1>15. CASE Lens
  <2>1. UNCHANGED hostVars /\ lensConn' \in {0, lensConn}
    BY <1>15 DEF Lens, LensPairs, LensRefusesPairing, LensTellsPublic, LensAnswersIsc,
       LensAnswersCsc, LensSendsPlain, LensIgnores, LinkDrops, FactoryReset,
       PairedElsewhere, Drop, lensVars
  <2> QED
    BY <1>11, <2>1 DEF hostVars, managerVars, callVars, transportVars
<1> QED
  BY <1>1, <1>2, <1>3, <1>4, <1>5, <1>6, <1>7, <1>8, <1>9, <1>10, <1>12, <1>13, <1>14,
     <1>15, EndsAre DEF Next, CallRuns

(* The camera starts a session, the host one that it was offered.          *)
LEMMA SessionTypesKept ==
  ASSUME TypeInv, [Next]_vars
  PROVE  SessionTypes'
<1> USE DEF SessionTypes
<1>0. SessionTypes /\ (cur # 0 => cur \in Conns)
  BY BoundsAssumption DEF TypeInv, TransportInv, Conns
<1>1. sess' \in [Conns -> Sessions \cup {NoSession}]
  <2>1. ASSUME NEW c, CloseTransport(c) PROVE sess' \in [Conns -> Sessions \cup {NoSession}]
    BY <1>0, <2>1 DEF CloseTransport
  <2>2. CASE SendCsc
    BY <1>0, <2>2 DEF SendCsc, TypeInv, CallTypes
  <2>3. CASE Ends
    BY <1>0, <2>1, <2>3 DEF Ends, Fails, HandsBack
  <2>4. CASE ForeignError
    BY <1>0, <2>4 DEF ForeignError
  <2>5. CASE Connect \/ Close \/ AppLeaves \/ Crash
    BY <2>1, <2>5 DEF Connect, Close, AppLeaves, Crash
  <2>6. CASE UNCHANGED sess
    BY <1>0, <2>6
  <2>7. CASE \/ NewManager \/ Forget \/ (\E who \in {"pair", "app"} : BeginOther(who))
             \/ (\E c \in Conns : Notices(c)) \/ CloseOnKeeper \/ AppResumes
             \/ UNCHANGED vars
    BY <2>6, <2>7 DEF NewManager, Forget, BeginOther, Notices, CloseOnKeeper, AppResumes,
       vars, transportVars
  <2>8. CASE \/ OpenFails \/ (\E c \in Conns : OpenSucceeds(c)) \/ Hold \/ Save \/ AppHas
             \/ SendPairing \/ SendQuery \/ (\E i \in 1..ResumeMax : SendIsc(i))
             \/ ReadPaired \/ ReadPublic \/ QueryUnanswered
             \/ ReadIsc \/ ReadCsc \/ ReadOther
    BY <2>6, <2>8 DEF OpenFails, OpenSucceeds, Hold, Save, AppHas, SendPairing,
       SendQuery, SendIsc, ReadPaired, ReadPublic, QueryUnanswered, ReadIsc, ReadCsc,
       ReadOther, transportVars
  <2>9. CASE Lens
    BY <2>6, <2>9 DEF Lens, LensPairs, LensRefusesPairing, LensTellsPublic,
       LensAnswersIsc, LensAnswersCsc, LensSendsPlain, LensIgnores, LinkDrops,
       FactoryReset, PairedElsewhere, hostVars, transportVars
  <2> QED
    BY <2>2, <2>3, <2>4, <2>5, <2>7, <2>8, <2>9, EndsAre DEF Next, CallRuns
<1>2. lensOffer' \in Sessions \cup {NoSession}
  <2>1. CASE LensAnswersIsc
    BY <2>1, OfferIsSession
  <2>2. CASE \E c \in Conns : OpenSucceeds(c)
    BY <2>2 DEF OpenSucceeds
  <2>3. CASE UNCHANGED lensOffer
    BY <1>0, <2>3
  <2> QED
    BY <2>1, <2>2, <2>3, LensMoves
<1>3. lensSess' \in [Conns -> Sessions \cup {NoSession}]
  <2>1. CASE LensAnswersCsc
    BY <1>0, <2>1, AcceptedIsSession DEF LensAnswersCsc, TypeInv
  <2>2. CASE UNCHANGED lensSess
    BY <1>0, <2>2
  <2> QED
    BY <2>1, <2>2, LensMoves
<1> QED
  BY <1>1, <1>2, <1>3

(* The camera never gets ahead of what it was asked.                       *)
LEMMA AnswersKept ==
  ASSUME TypeInv, TransportInv', QueueTypes', [Next]_vars
  PROVE  AnswersInv'
<1> USE DEF AnswersInv
<1>0. /\ AnswersInv /\ toLens \in Seq(LensMessages) /\ Len(toLens) \in Nat
      /\ lensOffer.lens[2] \in Nat /\ Sent \in Nat
      /\ \A i \in 1..Len(toLens) : Asks(i) => toLens[i].app[2] \in 1..ResumeMax
  <2>1. lensOffer.lens[2] \in Nat /\ Sent \in Nat
    BY BoundsAssumption DEF TypeInv, SessionTypes, CallTypes, Sent, Sessions, NoSession,
       Nonces, NoNonce
  <2>2. \A i \in 1..Len(toLens) : Asks(i) => toLens[i].app[2] \in 1..ResumeMax
    <3> TAKE i \in 1..Len(toLens)
    <3>1. toLens[i] \in LensMessages
      BY ElementOfSeq DEF TypeInv, QueueTypes
    <3> QED
      BY <3>1, LensMessageFields DEF Asks, Nonces
  <2> QED
    BY <2>1, <2>2, LenProperties DEF TypeInv, QueueTypes
<1>1. CASE UNCHANGED <<toLens, lensConn, lensOffer>> /\ (cur' # 0 => Sent' = Sent /\ cur' = cur)
  BY <1>0, <1>1 DEF Asks
<1>2. CASE lensConn' = 0
  BY <1>2
<1>3. CASE \E c \in Conns : OpenSucceeds(c)
  <2>1. /\ toLens' = << >> /\ cur' = lensConn' /\ lensOffer' = NoSession
        /\ UNCHANGED app
    BY <1>3 DEF OpenSucceeds, ClearQueues
  <2>2. Sent' \in Nat /\ lensOffer'.lens[2] = 0
    BY <2>1, BoundsAssumption DEF Sent, TypeInv, CallTypes, Nonces, NoNonce, NoSession
  <2>3. \A i \in 1..Len(toLens') : FALSE
    BY <2>1
  <2> QED
    BY <2>1, <2>2, <2>3
<1>4. CASE \/ LensAnswersIsc \/ LensTellsPublic \/ LensPairs \/ LensAnswersCsc
           \/ LensIgnores
  <2>1. /\ toLens # << >> /\ toLens' = Tail(toLens) /\ lensConn # 0
        /\ UNCHANGED <<lensConn, cur, app>>
    BY <1>4 DEF LensAnswersIsc, LensTellsPublic, LensPairs, LensAnswersCsc, LensIgnores,
       Asked, Answer, hostVars, callVars, lensVars
  <2>2. /\ Len(toLens') = Len(toLens) - 1 /\ Len(toLens) > 0
        /\ \A i \in 1..Len(toLens') : toLens'[i] = toLens[i + 1]
    BY <1>0, <2>1, HeadTailProperties, EmptySeq
  <2>3. /\ \A i \in 1..Len(toLens') : i \in Nat /\ i + 1 \in 1..Len(toLens) /\ 1 < i + 1
        /\ \A i, j \in 1..Len(toLens') : i < j => i + 1 < j + 1
    BY <1>0, <2>2
  <2>4. \A i \in 1..Len(toLens') : Asks(i)' <=> toLens[i + 1].t = "isc"
    BY <2>2 DEF Asks
  <2>5. Sent' = Sent
    BY <2>1 DEF Sent
  <2>6. CASE LensAnswersIsc
    <3>1. 1 \in 1..Len(toLens) /\ Asks(1)
      BY <2>6, AskedMessage DEF LensAnswersIsc, Asks, TypeInv
    <3>2. lensOffer'.lens[2] = 1 + lensOffer.lens[2]
      BY <2>6, OfferIsSession
    <3>3. 1 + lensOffer.lens[2] <= toLens[1].app[2] /\ toLens[1].app[2] \in Nat
      BY <1>0, <2>1, <3>1
    <3>4. ASSUME NEW i \in 1..Len(toLens'), Asks(i)'
          PROVE  lensOffer'.lens[2] < toLens'[i].app[2]
      <4>1. toLens[1].app[2] < toLens[i + 1].app[2] /\ toLens[i + 1].app[2] \in Nat
        BY <1>0, <2>1, <2>3, <2>4, <3>1, <3>4 DEF Asks
      <4>2. toLens'[i] = toLens[i + 1]
        BY <2>2
      <4>3. \A a, b, c \in Nat : 1 + a <= b /\ b < c => 1 + a < c
        OBVIOUS
      <4> QED
        BY <1>0, <3>2, <3>3, <4>1, <4>2, <4>3
    <3>5. ASSUME NEW i \in 1..Len(toLens'), NEW j \in 1..Len(toLens'), i < j, Asks(i)',
                 Asks(j)'
          PROVE  toLens'[i].app[2] < toLens'[j].app[2]
      BY <1>0, <2>1, <2>2, <2>3, <2>4, <3>5 DEF Asks
    <3>6. cur' # 0 =>
            /\ lensConn' = cur' /\ lensOffer'.lens[2] <= Sent'
            /\ \A i \in 1..Len(toLens') : Asks(i)' => toLens'[i].app[2] <= Sent'
      <4> SUFFICES ASSUME cur # 0
                   PROVE  /\ lensConn = cur /\ 1 + lensOffer.lens[2] <= Sent
                          /\ \A i \in 1..Len(toLens') : Asks(i)' => toLens'[i].app[2] <= Sent
        BY <2>1, <2>5, <3>2
      <4>1. lensConn = cur /\ toLens[1].app[2] <= Sent
        BY <1>0, <2>1, <3>1
      <4>2. 1 + lensOffer.lens[2] <= Sent
        BY <1>0, <3>3, <4>1
      <4>3. \A i \in 1..Len(toLens') : Asks(i)' => toLens'[i].app[2] <= Sent
        BY <1>0, <2>1, <2>2, <2>3, <2>4 DEF Asks
      <4> QED
        BY <4>1, <4>2, <4>3
    <3> QED
      BY <3>4, <3>5, <3>6
  <2>7. CASE UNCHANGED lensOffer
    <3>1. \A i \in 1..Len(toLens') : Asks(i)' => lensOffer.lens[2] < toLens'[i].app[2]
      BY <1>0, <2>1, <2>2, <2>3, <2>4 DEF Asks
    <3>2. \A i, j \in 1..Len(toLens') :
            (i < j /\ Asks(i)' /\ Asks(j)') => toLens'[i].app[2] < toLens'[j].app[2]
      BY <1>0, <2>1, <2>2, <2>3, <2>4 DEF Asks
    <3>3. cur # 0 => \A i \in 1..Len(toLens') : Asks(i)' => toLens'[i].app[2] <= Sent
      BY <1>0, <2>1, <2>2, <2>3, <2>4 DEF Asks
    <3> QED
      BY <1>0, <2>1, <2>5, <2>7, <3>1, <3>2, <3>3
  <2> QED
    BY <1>4, <2>6, <2>7 DEF LensTellsPublic, LensPairs, LensAnswersCsc, LensIgnores,
       lensVars
<1>5. CASE toLens' = << >> /\ cur' = 0
  BY <1>5 DEF Asks
<1>6. CASE SendPairing \/ SendQuery \/ SendCsc
  <2>1. PICK m : Send(m) /\ m \in LensMessages /\ m.t # "isc"
    <3>1. CASE SendPairing \/ SendQuery
      BY <3>1 DEF SendPairing, SendQuery, LensMessages
    <3>2. CASE SendCsc
      BY <3>2 DEF SendCsc, Goes, LensMessages, TypeInv, KeyedInv
    <3> QED
      BY <1>6, <3>1, <3>2
  <2>2. UNCHANGED <<cur, app, lensConn, lensOffer>> /\ Sent' = Sent
    BY <1>6 DEF SendPairing, SendQuery, SendCsc, Sent, lensVars
  <2>3. \A i \in 1..Len(toLens') : Asks(i)' =>
          i \in 1..Len(toLens) /\ Asks(i) /\ toLens'[i] = toLens[i]
    BY <1>0, <2>1, QueueGrows DEF Send, Asks
  <2> QED
    BY <1>0, <2>2, <2>3
<1>7. CASE \E i \in 1..ResumeMax : SendIsc(i)
  <2>1. PICK n \in 1..ResumeMax : SendIsc(n)
    BY <1>7
  <2>2. /\ n = 1 + Sent /\ app' = <<cur, n>> /\ Send([t |-> "isc", app |-> <<cur, n>>])
        /\ UNCHANGED <<cur, lensConn, lensOffer>> /\ Sent' = n
    BY <2>1 DEF SendIsc, Sent, lensVars
  <2>3. CASE ~LinkUp(cur)
    <3>1. lensConn = 0
      BY <2>1, <2>3 DEF LinkUp, SendIsc, Goes, TypeInv, TransportInv
    <3> QED
      BY <1>2, <2>2, <3>1
  <2>4. CASE LinkUp(cur)
    <3> DEFINE m == [t |-> "isc", app |-> <<cur, n>>]
    <3>1. m \in LensMessages /\ m.t = "isc" /\ m.app[2] = n
      <4>1. cur \in Conns
        BY <2>4, BoundsAssumption DEF LinkUp, TypeInv, TransportInv, Conns
      <4> QED
        BY <4>1 DEF LensMessages, Nonces
    <3>2. toLens' = Append(toLens, m) /\ cur # 0 /\ lensConn = cur
      BY <2>2, <2>4 DEF Send, LinkUp
    <3> HIDE DEF m
    <3>3. \A i \in 1..Len(toLens') :
            \/ i \in 1..Len(toLens) /\ toLens'[i] = toLens[i]
            \/ i = Len(toLens) + 1 /\ toLens'[i] = m
      BY <1>0, <3>1, <3>2, QueueGrows
    <3>4. \A i \in 1..Len(toLens) : Asks(i) =>
            toLens[i].app[2] <= Sent /\ lensOffer.lens[2] < toLens[i].app[2]
      BY <1>0, <3>2
    <3>5. ASSUME NEW i \in 1..Len(toLens'), Asks(i)'
          PROVE  lensOffer'.lens[2] < toLens'[i].app[2] /\ toLens'[i].app[2] <= Sent'
      <4>1. lensOffer.lens[2] <= Sent
        BY <1>0, <3>2
      <4>2. CASE i \in 1..Len(toLens) /\ toLens'[i] = toLens[i]
        <5>1. /\ toLens[i].app[2] \in Nat /\ toLens[i].app[2] <= Sent
              /\ lensOffer.lens[2] < toLens[i].app[2]
          BY <1>0, <3>4, <3>5, <4>2 DEF Asks
        <5> QED
          BY <1>0, <2>2, <4>2, <5>1
      <4>3. CASE toLens'[i] = m
        BY <1>0, <2>2, <3>1, <4>1, <4>3
      <4> QED
        BY <3>3, <4>2, <4>3
    <3>6. ASSUME NEW i \in 1..Len(toLens'), NEW j \in 1..Len(toLens'), i < j, Asks(i)',
                 Asks(j)'
          PROVE  toLens'[i].app[2] < toLens'[j].app[2]
      <4>1. CASE j \in 1..Len(toLens) /\ toLens'[j] = toLens[j]
        <5>1. i \in 1..Len(toLens) /\ toLens'[i] = toLens[i]
          BY <1>0, <3>3, <3>6, <4>1
        <5> QED
          BY <1>0, <3>2, <3>6, <4>1, <5>1 DEF Asks
      <4>2. CASE j = Len(toLens) + 1 /\ toLens'[j] = m
        <5>1. i \in 1..Len(toLens) /\ toLens'[i] = toLens[i]
          BY <1>0, <3>3, <3>6, <4>2
        <5>2. toLens[i].app[2] \in Nat /\ toLens[i].app[2] <= Sent
          BY <1>0, <3>4, <3>6, <5>1 DEF Asks
        <5> QED
          BY <1>0, <2>2, <3>1, <4>2, <5>1, <5>2
      <4> QED
        BY <3>3, <4>1, <4>2
    <3>7. lensOffer'.lens[2] <= Sent'
      BY <1>0, <2>2, <3>2
    <3> QED
      BY <2>2, <3>2, <3>5, <3>6, <3>7
  <2> QED
    BY <2>3, <2>4
<1> HIDE DEF AnswersInv
<1>8. CASE Ends
  <2>1. CASE \E o \in Verdicts : Fails(o)
    BY <1>5, <2>1 DEF Fails, ClearQueues
  <2>2. CASE \E o \in Verdicts : HandsBack(o)
    BY <1>1, <2>2 DEF HandsBack, lensVars, Sent
  <2> QED
    BY <1>8, <2>1, <2>2 DEF Ends
<1>9. CASE Hold \/ AppLeaves \/ Crash
  BY <1>5, <1>9 DEF Hold, AppLeaves, Crash, ClearQueues
<1>10. CASE Connect \/ Close
  <2>1. UNCHANGED <<toLens, lensOffer>> /\ lensConn' \in {0, lensConn}
    BY <1>10 DEF Connect, Close, CloseTransport
  <2>2. cur' # 0 => Sent' = Sent /\ cur' = cur
    BY <1>10 DEF Connect, Close, Begin, callVars, Sent
  <2> QED
    BY <1>1, <1>2, <2>1, <2>2
<1>11. CASE LensRefusesPairing \/ LinkDrops \/ FactoryReset \/ PairedElsewhere
  BY <1>2, <1>11 DEF LensRefusesPairing, LinkDrops, FactoryReset, PairedElsewhere, Drop
<1>12. CASE \/ NewManager \/ Forget \/ (\E who \in {"pair", "app"} : BeginOther(who))
            \/ (\E c \in Conns : Notices(c)) \/ CloseOnKeeper \/ UNCHANGED vars
            \/ LensSendsPlain
  <2>1. UNCHANGED <<toLens, lensConn, lensOffer>> /\ (cur' # 0 => UNCHANGED <<cur, app>>)
    BY <1>12 DEF NewManager, Forget, BeginOther, Begin, Notices, CloseOnKeeper,
       LensSendsPlain, hostVars, callVars, lensVars, vars
  <2> QED
    BY <1>1, <2>1 DEF Sent
<1>13. CASE \/ OpenFails \/ ForeignError \/ Save \/ AppHas \/ AppResumes \/ ReadPaired
            \/ ReadPublic \/ QueryUnanswered
            \/ ReadIsc \/ ReadCsc \/ ReadOther
  <2>1. UNCHANGED <<toLens, lensConn, lensOffer>> /\ (cur' # 0 => UNCHANGED <<cur, app>>)
    BY <1>13 DEF OpenFails, ForeignError, Save, AppHas, AppResumes, ReadPaired,
       ReadPublic, QueryUnanswered, ReadIsc, ReadCsc, ReadOther, Consume, callVars,
       lensVars
  <2> QED
    BY <1>1, <2>1 DEF Sent
<1> QED
  BY <1>3, <1>4, <1>6, <1>7, <1>8, <1>9, <1>10, <1>11, <1>12, <1>13, EndsAre
     DEF Next, CallRuns, Lens

(* The call's transport and Camera.sess move by the call's own steps: a    *)
(* session is only set by SendCsc, at the call's own transport.            *)
LEMMA HostMoves ==
  ASSUME TypeInv, [Next]_vars
  PROVE  /\ cur' \in {0, cur} \/ \E c \in Conns : OpenSucceeds(c)
         /\ SendCsc \/ \A c \in Conns : sess'[c] \in {sess[c], NoSession}
         /\ lensConn' \in {0, lensConn} \/ \E c \in Conns : OpenSucceeds(c)
         /\ conns' = conns \/ \E c \in Conns : OpenSucceeds(c)
<1> DEFINE Still == /\ cur' \in {0, cur} /\ lensConn' \in {0, lensConn} /\ conns' = conns
                    /\ \A c \in Conns : sess'[c] \in {sess[c], NoSession}
<1>0. sess \in [Conns -> Sessions \cup {NoSession}]
  BY DEF TypeInv, SessionTypes
<1>1. ASSUME UNCHANGED sess \/ \E c : CloseTransport(c)
      PROVE  \A c \in Conns : sess'[c] \in {sess[c], NoSession}
  BY <1>0, <1>1 DEF CloseTransport
<1>2. CASE \/ NewManager \/ Forget \/ (\E who \in {"pair", "app"} : BeginOther(who))
           \/ (\E c \in Conns : Notices(c)) \/ CloseOnKeeper \/ AppResumes
           \/ UNCHANGED vars
  <2>1. cur' \in {0, cur} /\ UNCHANGED <<sess, lensConn, conns>>
    BY <1>2 DEF NewManager, Forget, BeginOther, Begin, Notices, CloseOnKeeper, AppResumes,
       vars, transportVars, callVars, lensVars
  <2> QED
    BY <1>1, <2>1
<1>3. CASE Connect \/ Close \/ AppLeaves \/ Crash
  <2>1. /\ cur' \in {0, cur} /\ lensConn' \in {0, lensConn} /\ conns' = conns
    BY <1>3 DEF Connect, Close, AppLeaves, Crash, Begin, callVars, CloseTransport
  <2>2. \A c \in Conns : sess'[c] \in {sess[c], NoSession}
    <3>1. CASE Crash
      BY <3>1 DEF Crash
    <3>2. CASE Connect \/ Close \/ AppLeaves
      BY <1>1, <3>2 DEF Connect, Close, AppLeaves
    <3> QED
      BY <1>3, <3>1, <3>2
  <2> QED
    BY <2>1, <2>2
<1>4. CASE Ends
  <2>1. CASE \E o \in Verdicts : Fails(o)
    <3>1. cur' = 0 /\ lensConn' \in {0, lensConn} /\ conns' = conns
      BY <2>1 DEF Fails, CloseTransport
    <3>2. \E c : CloseTransport(c)
      BY <2>1 DEF Fails
    <3> QED
      BY <1>1, <3>1, <3>2
  <2>2. CASE \E o \in Verdicts : HandsBack(o)
    <3>1. cur' = cur /\ UNCHANGED <<lensConn, conns>>
      BY <2>2 DEF HandsBack, lensVars
    <3>2. sess' \in {sess, [sess EXCEPT ![cur] = NoSession]}
      BY <2>2 DEF HandsBack
    <3>3. \A c \in Conns : sess'[c] \in {sess[c], NoSession}
      BY <1>0, <3>2
    <3> QED
      BY <3>1, <3>3
  <2> QED
    BY <1>4, <2>1, <2>2 DEF Ends
<1>5. CASE ForeignError
  <2>1. \A c \in Conns : sess'[c] \in {sess[c], NoSession}
    BY <1>0, <1>5 DEF ForeignError
  <2> QED
    BY <1>5, <2>1 DEF ForeignError, lensVars
<1>6. CASE \/ OpenFails \/ Hold \/ Save \/ AppHas \/ SendPairing \/ SendQuery
           \/ ReadPaired \/ ReadPublic \/ QueryUnanswered \/ ReadIsc
           \/ (\E i \in 1..ResumeMax : SendIsc(i)) \/ ReadCsc \/ ReadOther
  <2>1. cur' \in {0, cur} /\ UNCHANGED <<sess, lensConn, conns>>
    BY <1>6 DEF OpenFails, Hold, Save, AppHas, SendPairing, SendQuery, ReadPaired,
       ReadPublic, QueryUnanswered, ReadIsc, SendIsc, ReadCsc, ReadOther, transportVars,
       callVars, lensVars
  <2> QED
    BY <1>1, <2>1
<1>7. CASE Lens
  <2>1. UNCHANGED <<cur, sess, conns>> /\ lensConn' \in {0, lensConn}
    BY <1>7 DEF Lens, LensPairs, LensRefusesPairing, LensTellsPublic, LensAnswersIsc,
       LensAnswersCsc, LensSendsPlain, LensIgnores, LinkDrops, FactoryReset,
       PairedElsewhere, Drop, hostVars, callVars, transportVars, lensVars
  <2> QED
    BY <1>1, <2>1
<1>8. CASE SendCsc
  BY <1>8 DEF SendCsc, lensVars
<1>9. CASE \E c \in Conns : OpenSucceeds(c)
  <2>1. UNCHANGED sess
    BY <1>9 DEF OpenSucceeds
  <2> QED
    BY <1>1, <1>9, <2>1
<1> QED
  BY <1>2, <1>3, <1>4, <1>5, <1>6, <1>7, <1>8, <1>9, EndsAre DEF Next, CallRuns

(* What an answer to CSC stands for is the session of its connection.      *)
LEMMA AgreeKept ==
  ASSUME TypeInv, AgreeInv, [Next]_vars
  PROVE  AgreeInv'
<1>0. /\ sess \in [Conns -> Sessions \cup {NoSession}] /\ ConnMax \in Nat
      /\ conns \in 0..ConnMax /\ cur \in 0..conns /\ lensConn \in 0..conns
      /\ lensSess \in [Conns -> Sessions \cup {NoSession}]
      /\ toHost \in Seq(HostMessages)
  BY BoundsAssumption DEF TypeInv, SessionTypes, TransportInv, QueueTypes
<1>1. (\A c \in Conns : c > conns => sess[c] = NoSession)'
  <2>1. conns' \in Nat /\ conns' >= conns
    BY <1>0, HostMoves DEF OpenSucceeds
  <2>2. CASE SendCsc
    <3>1. sess' = [sess EXCEPT ![cur] = offer]
      BY <2>2 DEF SendCsc
    <3> QED
      BY <1>0, <2>1, <3>1 DEF AgreeInv, Conns
  <2>3. CASE \A c \in Conns : sess'[c] \in {sess[c], NoSession}
    BY <1>0, <2>1, <2>3 DEF AgreeInv, Conns
  <2> QED
    BY <2>2, <2>3, HostMoves
<1>2. (\A c \in Conns : lensSess[c] # NoSession => lensSess[c].lens[1] = c)'
  <2>1. CASE LensAnswersCsc
    <3>1. /\ lensSess' = [lensSess EXCEPT ![lensConn] = lensOffer]
          /\ lensOffer \in Sessions /\ lensConn # 0
      BY <2>1, AcceptedIsSession DEF LensAnswersCsc, TypeInv
    <3>2. lensOffer.lens[1] = lensConn
      BY <3>1, NoSessionIsNone DEF AgreeInv
    <3> QED
      BY <1>0, <3>1, <3>2 DEF AgreeInv
  <2>2. CASE UNCHANGED lensSess
    BY <2>2 DEF AgreeInv
  <2> QED
    BY <2>1, <2>2, LensMoves
<1>3. ((lensConn # 0 /\ lensOffer # NoSession) => lensOffer.lens[1] = lensConn)'
  <2>1. CASE LensAnswersIsc
    BY <2>1, OfferIsSession DEF LensAnswersIsc
  <2>2. CASE \E c \in Conns : OpenSucceeds(c)
    BY <2>2 DEF OpenSucceeds
  <2>3. CASE UNCHANGED lensOffer /\ lensConn' \in {0, lensConn}
    BY <2>3 DEF AgreeInv
  <2> QED
    BY <2>1, <2>2, <2>3, LensMoves, HostMoves
<1>4. (cur # 0 => \A i \in 1..Len(toHost) :
         toHost[i].t = "csc" => toHost[i].sess = lensSess[cur])'
  <2> SUFFICES ASSUME cur' # 0, NEW i \in 1..Len(toHost'), toHost'[i].t = "csc"
               PROVE  toHost'[i].sess = lensSess'[cur']
    OBVIOUS
  <2>1. CASE \E c \in Conns : OpenSucceeds(c)
    BY <2>1 DEF OpenSucceeds, ClearQueues
  <2>2. CASE LensAnswersCsc
    <3>1. /\ lensConn # 0 /\ UNCHANGED <<cur, lensOffer>> /\ lensSess[lensConn] = NoSession
          /\ lensSess' = [lensSess EXCEPT ![lensConn] = lensOffer]
          /\ toHost' = Append(toHost, [t |-> "csc", sess |-> lensOffer])
      BY <2>2 DEF LensAnswersCsc, Asked, Answer, Plaintext, hostVars, callVars
    <3>2. cur # 0 /\ lensConn = cur
      BY <3>1 DEF TypeInv, AnswersInv
    <3>3. [t |-> "csc", sess |-> lensOffer] \in HostMessages
      BY <2>2, AcceptedIsSession DEF HostMessages, TypeInv
    <3>4. \/ i \in 1..Len(toHost) /\ toHost'[i] = toHost[i]
          \/ toHost'[i] = [t |-> "csc", sess |-> lensOffer]
      BY <1>0, <3>1, <3>3, QueueGrows
    <3>5. CASE i \in 1..Len(toHost) /\ toHost'[i] = toHost[i]
      <4>1. toHost[i].sess \in Sessions
        BY <1>0, <3>5, ElementOfSeq, HostMessageFields
      <4>2. toHost[i].sess = NoSession
        BY <3>1, <3>2, <3>5 DEF AgreeInv
      <4> QED
        BY <4>1, <4>2, NoSessionIsNone
    <3>6. CASE toHost'[i] = [t |-> "csc", sess |-> lensOffer]
      <4>1. lensSess'[cur] = lensOffer
        BY <1>0, <3>1, <3>2 DEF Conns
      <4> QED
        BY <3>1, <3>6, <4>1
    <3> QED
      BY <3>4, <3>5, <3>6
  <2>3. ASSUME cur' = cur, UNCHANGED lensSess, ToHostShrinks
        PROVE  toHost'[i].sess = lensSess'[cur']
    BY <2>3 DEF AgreeInv, ToHostShrinks, Within
  <2>4. CASE LensTellsPublic \/ LensPairs \/ LensAnswersIsc \/ LensSendsPlain
    <3>1. PICK m \in HostMessages : toHost' = Append(toHost, m) /\ m.t # "csc"
      <4>1. CASE LensPairs
        <5>1. keys' \in 1..KeyMax
          BY <4>1, BoundsAssumption DEF LensPairs, NewKey, TypeInv, KeyTypes
        <5> QED
          BY <4>1, <5>1 DEF LensPairs, Answer, HostMessages
      <4>2. CASE LensAnswersIsc
        <5>1. [t |-> "isc", sess |-> lensOffer'] \in HostMessages
          BY <4>2, OfferIsSession DEF HostMessages
        <5> QED
          BY <4>2, <5>1 DEF LensAnswersIsc, Answer
      <4>3. CASE LensSendsPlain
        BY <4>3 DEF LensSendsPlain, HostMessages
      <4>4. CASE LensTellsPublic
        BY <4>4 DEF LensTellsPublic, Answer, HostMessages
      <4> QED
        BY <2>4, <4>1, <4>2, <4>3, <4>4
    <3>2. i \in 1..Len(toHost) /\ toHost'[i] = toHost[i]
      BY <1>0, <3>1, QueueGrows
    <3>3. UNCHANGED <<cur, lensSess>>
      BY <2>4 DEF LensTellsPublic, LensPairs, LensAnswersIsc, LensSendsPlain, hostVars,
         callVars, lensVars
    <3> QED
      BY <3>2, <3>3 DEF AgreeInv
  <2> QED
    BY <2>1, <2>2, <2>3, <2>4, ToHostStep, LensMoves, HostMoves DEF TypeInv
<1> QED
  BY <1>1, <1>2, <1>3, <1>4 DEF AgreeInv

(* A session under the call's key is what its proofs, its Camera and, once *)
(* it has answered, the camera have.                                       *)
LEMMA KeyedKept ==
  ASSUME TypeInv, AgreeInv, [Next]_vars
  PROVE  KeyedInv'
<1> USE DEF KeyedInv
<1>0. /\ KeyedInv /\ sess \in [Conns -> Sessions \cup {NoSession}]
      /\ lensSess \in [Conns -> Sessions \cup {NoSession}] /\ (cur # 0 => cur \in Conns)
  BY BoundsAssumption DEF TypeInv, SessionTypes, TransportInv, Conns
<1>1. ASSUME pc' \notin {"csc", "csc?", "ready"} PROVE KeyedInv'
  BY <1>1
<1>2. ASSUME UNCHANGED <<pc, cur, offer, key, sess, lensSess>> PROVE KeyedInv'
  BY <1>0, <1>2
<1>3. CASE ReadIsc
  <2>1. Incoming \in HostMessages /\ Incoming.t = "isc"
    BY <1>3, IncomingMessage DEF ReadIsc, Arrives, TypeInv
  <2>2. offer' \in Sessions /\ offer'.key = key /\ pc' = "csc" /\ UNCHANGED key
    BY <1>3, <2>1, HostMessageFields DEF ReadIsc, Goes, ProofIsRight
  <2> QED
    BY <2>2
<1>4. CASE SendCsc
  <2>1. /\ pc = "csc" /\ pc' = "csc?" /\ sess' = [sess EXCEPT ![cur] = offer]
        /\ UNCHANGED <<cur, key, offer>>
    BY <1>4 DEF SendCsc, Goes
  <2>2. cur \in Conns
    BY <1>0, <2>1 DEF TypeInv, TransportInv
  <2> QED
    BY <1>0, <2>1, <2>2
<1>5. CASE ReadCsc
  <2>1. /\ pc = "csc?" /\ Incoming.t = "csc" /\ Incoming.sess = sess[cur]
        /\ UNCHANGED <<cur, key, offer, sess, lensSess>>
    BY <1>5 DEF ReadCsc, Goes, Decrypts, transportVars, lensVars
  <2>2. Incoming = toHost[1] /\ 1 \in 1..Len(toHost)
    BY <1>5, IncomingMessage DEF ReadCsc, TypeInv
  <2>3. toHost[1].sess = lensSess[cur]
    BY <2>1, <2>2 DEF AgreeInv, TypeInv, TransportInv
  <2> QED
    BY <1>0, <2>1, <2>2, <2>3
<1>6. CASE LensAnswersCsc
  <2>1. /\ lensConn # 0 /\ UNCHANGED <<pc, cur, offer, key, sess>>
        /\ lensSess[lensConn] = NoSession
        /\ lensSess' = [lensSess EXCEPT ![lensConn] = lensOffer]
    BY <1>6 DEF LensAnswersCsc, Asked, Plaintext, hostVars, callVars, transportVars
  <2>2. ASSUME pc = "ready" PROVE lensSess'[cur] = lensSess[cur]
    <3>1. cur \in Conns /\ lensSess[cur] \in Sessions
      BY <1>0, <2>2 DEF TypeInv, TransportInv
    <3>2. cur # lensConn
      BY <2>1, <3>1, NoSessionIsNone
    <3> QED
      BY <1>0, <2>1, <3>1, <3>2
  <2> QED
    BY <1>0, <2>1, <2>2
<1> HIDE DEF KeyedInv
<1>7. CASE Ends
  BY <1>1, <1>7 DEF Ends, Fails, HandsBack
<1>8. CASE \/ Connect \/ (\E who \in {"pair", "app"} : BeginOther(who)) \/ Crash
           \/ ForeignError \/ Hold \/ Save \/ AppHas \/ AppResumes \/ AppLeaves
  BY <1>1, <1>8 DEF Connect, BeginOther, Begin, Crash, ForeignError, Hold, Save, AppHas,
     AppResumes, AppLeaves, Goes
<1>9. CASE \/ OpenFails \/ (\E c \in Conns : OpenSucceeds(c)) \/ SendPairing
           \/ SendQuery \/ ReadPaired \/ ReadPublic \/ QueryUnanswered
           \/ (\E i \in 1..ResumeMax : SendIsc(i)) \/ Close
  <2>1. pc' \in {"opening", "idle", "query", "pair", "isc", "query?", "pair?", "isc?"}
    BY <1>9 DEF OpenFails, OpenSucceeds, SendPairing, SendQuery, ReadPaired, ReadPublic,
       QueryUnanswered, SendIsc, Goes, Close, callVars
  <2> QED
    BY <1>1, <2>1
<1>10. CASE \/ NewManager \/ Forget \/ (\E c \in Conns : Notices(c)) \/ CloseOnKeeper
            \/ ReadOther \/ UNCHANGED vars
  BY <1>2, <1>10 DEF NewManager, Forget, Notices, CloseOnKeeper, ReadOther, vars,
     callVars, transportVars, lensVars
<1>11. CASE \/ LensPairs \/ LensRefusesPairing \/ LensTellsPublic \/ LensAnswersIsc
            \/ LensSendsPlain
            \/ LensIgnores \/ LinkDrops \/ FactoryReset \/ PairedElsewhere
  BY <1>2, <1>11 DEF LensPairs, LensRefusesPairing, LensTellsPublic, LensAnswersIsc,
     LensSendsPlain, LensIgnores, LinkDrops, FactoryReset, PairedElsewhere, hostVars,
     callVars, transportVars, lensVars, lensSays
<1> QED
  BY <1>3, <1>4, <1>5, <1>6, <1>7, <1>8, <1>9, <1>10, <1>11, EndsAre
     DEF Next, CallRuns, Lens

LEMMA InitTypes == Init => TypeInv /\ AgreeInv
<1> SUFFICES ASSUME Init PROVE TypeInv /\ AgreeInv
  OBVIOUS
<1>1. QueueTypes /\ Len(toLens) = 0 /\ Len(toHost) = 0
  BY EmptySeq DEF Init, QueueTypes
<1>2. KeyTypes
  BY <1>1, BoundsAssumption DEF Init, KeyTypes
<1>3. CallTypes
  BY BoundsAssumption DEF Init, CallTypes, Working
<1>4. TransportInv
  BY BoundsAssumption DEF Init, TransportInv, TransportsAccounted
<1>5. SessionTypes
  BY DEF Init, SessionTypes
<1>6. AnswersInv /\ KeyedInv
  BY DEF Init, AnswersInv, KeyedInv
<1>7. AgreeInv
  BY DEF Init, AgreeInv
<1> QED
  BY <1>1, <1>2, <1>3, <1>4, <1>5, <1>6, <1>7 DEF TypeInv

LEMMA TypesKept == Spec => [](TypeInv /\ AgreeInv)
<1>1. TypeInv /\ AgreeInv /\ [Next]_vars => (TypeInv /\ AgreeInv)'
  <2> SUFFICES ASSUME TypeInv, AgreeInv, [Next]_vars PROVE (TypeInv /\ AgreeInv)'
    OBVIOUS
  <2>1. QueueTypes' /\ TransportInv'
    BY QueueTypesKept, TransportKept
  <2>2. AnswersInv'
    BY <2>1, AnswersKept
  <2> QED
    BY <2>1, <2>2, KeyTypesKept, CallTypesKept, SessionTypesKept, KeyedKept, AgreeKept
       DEF TypeInv
<1> QED
  BY <1>1, InitTypes, PTL DEF Spec

(* Types, for any bounds: in particular the numbers that the host and the  *)
(* camera draw their nonces from, which no guard of the camera's bounds,   *)
(* stay in range because the camera never answers an ISC it did not get.   *)
THEOREM TypeCorrect == Spec => []TypeOK
<1>1. TypeInv => TypeOK
  <2> SUFFICES ASSUME TypeInv PROVE TypeOK
    OBVIOUS
  <2>1. /\ store \in 0..KeyMax /\ mgrKey \in 0..KeyMax /\ key \in 0..KeyMax
        /\ lensKey \in 0..keys /\ keys \in 0..KeyMax /\ setup \in BOOLEAN
    BY BoundsAssumption DEF TypeInv, KeyTypes
  <2>2. /\ held \in Conns \cup {0} /\ cur \in Conns \cup {0} /\ lensConn \in Conns \cup {0}
        /\ conns \in 0..ConnMax /\ opened \subseteq Conns
        /\ alive \subseteq opened /\ abandoned \subseteq opened
    BY BoundsAssumption DEF TypeInv, TransportInv, Conns
  <2>3. \A i \in 1..Len(toLens) : toLens[i].t \in {"query", "pairing", "isc", "csc"}
    BY ElementOfSeq, LensMessageFields DEF TypeInv, QueueTypes
  <2>4. \A i \in 1..Len(toHost) : toHost[i].t \in {"public", "paired", "isc", "csc", "stray"}
    BY ElementOfSeq, HostMessageFields DEF TypeInv, QueueTypes
  <2> QED
    BY <2>1, <2>2, <2>3, <2>4 DEF TypeOK, TypeInv, CallTypes, SessionTypes
<1> QED
  BY <1>1, TypesKept, PTL

(* No transport is left open by mistake, however often connect, resume and *)
(* pair fail: each one opened is the held one, the call's, or one of those *)
(* let go of by a foreign exception or by a close on the keepalive thread. *)
THEOREM NoTransportLeaks == Spec => []TransportsAccounted
<1>1. TypeInv => TransportsAccounted
  BY DEF TypeInv, TransportInv
<1> QED
  BY <1>1, TypesKept, PTL

-----------------------------------------------------------------------------
(* A key in the store is one that a session of the camera's was started    *)
(* with: cmd_pair saves once resume has returned and no sooner.            *)
THEOREM StoredKeysWork == Spec => []StoredKeyWorks
<1>1. Init => StoredKeyWorks
  BY DEF Init, StoredKeyWorks
<1>2. StoredKeyWorks /\ TypeInv /\ [Next]_vars => StoredKeyWorks'
  <2> SUFFICES ASSUME StoredKeyWorks, TypeInv, [Next]_vars PROVE StoredKeyWorks'
    OBVIOUS
  <2>0. /\ lensSess \in [Conns -> Sessions \cup {NoSession}]
        /\ (cur # 0 => cur \in Conns)
    BY BoundsAssumption DEF TypeInv, SessionTypes, TransportInv, Conns
  <2>1. CASE Save
    <3>1. store' = key /\ pc = "ready" /\ UNCHANGED lensSess /\ cur \in Conns
      BY <2>0, <2>1 DEF Save, Goes, lensVars, TypeInv, TransportInv
    <3>2. lensSess[cur].key = key
      BY <3>1 DEF TypeInv, KeyedInv
    <3> QED
      BY <3>1, <3>2 DEF StoredKeyWorks
  <2>2. CASE Forget
    BY <2>2 DEF Forget, StoredKeyWorks
  <2>3. ASSUME UNCHANGED store PROVE StoredKeyWorks'
    <3>1. CASE LensAnswersCsc
      <4> SUFFICES ASSUME store # 0 PROVE \E c \in Conns : lensSess'[c].key = store
        BY <2>3 DEF StoredKeyWorks
      <4>1. PICK c \in Conns : lensSess[c].key = store
        BY DEF StoredKeyWorks
      <4>2. /\ lensSess' = [lensSess EXCEPT ![lensConn] = lensOffer]
            /\ lensSess[lensConn] = NoSession
        BY <3>1 DEF LensAnswersCsc, Plaintext
      <4>3. c # lensConn
        BY <4>1, <4>2 DEF NoSession
      <4> QED
        BY <2>0, <4>1, <4>2, <4>3
    <3>2. CASE UNCHANGED lensSess
      BY <2>3, <3>2 DEF StoredKeyWorks
    <3> QED
      BY <3>1, <3>2, LensMoves
  <2>4. CASE \/ NewManager \/ Connect \/ Close \/ (\E c \in Conns : Notices(c))
             \/ (\E who \in {"pair", "app"} : BeginOther(who)) \/ CloseOnKeeper \/ Crash
             \/ AppResumes \/ AppLeaves \/ UNCHANGED vars
    BY <2>3, <2>4 DEF NewManager, Connect, Close, Notices, BeginOther, CloseOnKeeper,
       Crash, AppResumes, AppLeaves, vars
  <2>5. CASE \/ OpenFails \/ (\E c \in Conns : OpenSucceeds(c)) \/ ForeignError \/ Hold
             \/ AppHas \/ SendPairing \/ SendQuery \/ SendCsc
             \/ (\E i \in 1..ResumeMax : SendIsc(i))
             \/ ReadPaired \/ ReadPublic \/ QueryUnanswered \/ ReadIsc \/ ReadCsc
             \/ ReadOther
    BY <2>3, <2>5 DEF OpenFails, OpenSucceeds, ForeignError, Hold, AppHas, SendPairing,
       SendQuery, SendCsc, SendIsc, ReadPaired, ReadPublic, QueryUnanswered, ReadIsc,
       ReadCsc, ReadOther
  <2>6. CASE Ends
    BY <2>3, <2>6 DEF Ends, Fails, HandsBack
  <2>7. CASE Lens
    BY <2>3, <2>7 DEF Lens, LensPairs, LensRefusesPairing, LensTellsPublic,
       LensAnswersIsc, LensAnswersCsc, LensSendsPlain, LensIgnores, LinkDrops,
       FactoryReset, PairedElsewhere, hostVars
  <2> QED
    BY <2>1, <2>2, <2>4, <2>5, <2>6, <2>7, EndsAre DEF Next, CallRuns
<1> QED
  BY <1>1, <1>2, TypesKept, PTL DEF Spec

-----------------------------------------------------------------------------
(* But for the camera's answer to CSC, what the host takes for established *)
(* it took for established before.                                         *)
LEMMA HostKeeps ==
  ASSUME TypeInv, AgreeInv, [Next]_vars, ~ReadCsc, NEW c \in Conns, Established(c)'
  PROVE  Established(c) /\ sess'[c] = sess[c]
<1> USE DEF Established
<1>0. /\ sess \in [Conns -> Sessions \cup {NoSession}]
      /\ (pc = "csc?" => cur # 0) /\ (cur # 0 => cur \in Conns) /\ conns \in Nat
  BY BoundsAssumption DEF TypeInv, SessionTypes, TransportInv, Conns
<1>1. CASE \E d \in Conns : OpenSucceeds(d)
  <2>1. PICK d \in Conns : OpenSucceeds(d)
    BY <1>1
  <2>2. sess[d] = NoSession
    BY <1>0, <2>1 DEF OpenSucceeds, AgreeInv
  <2> QED
    BY <2>1, <2>2 DEF OpenSucceeds
<1>2. CASE SendCsc
  BY <1>0, <1>2 DEF SendCsc, Goes
<1>3. CASE Ends
  <2>1. CASE \E o \in Verdicts : Fails(o)
    BY <2>1 DEF Fails, CloseTransport
  <2>2. CASE (\E o \in Verdicts : HandsBack(o)) /\ pc # "csc?"
    BY <1>0, <2>2 DEF HandsBack
  <2>3. CASE pc = "csc?" /\ \E o \in {"lost", "timeout"} : HandsBack(o)
    BY <1>0, <2>3 DEF HandsBack
  <2> QED
    BY <1>3, <2>1, <2>2, <2>3 DEF Ends
<1>4. CASE ForeignError
  BY <1>0, <1>4 DEF ForeignError
<1>5. CASE Crash
  BY <1>5 DEF Crash
<1>6. CASE Connect \/ Close \/ AppLeaves
  BY <1>6 DEF Connect, Close, AppLeaves, Begin, Goes, CloseTransport
<1>7. ASSUME UNCHANGED sess, alive' \subseteq alive, pc # "csc?" \/ UNCHANGED <<pc, cur>>
      PROVE  Established(c) /\ sess'[c] = sess[c]
  BY <1>7
<1> HIDE DEF Established
<1>8. CASE \/ NewManager \/ Forget \/ (\E d \in Conns : Notices(d)) \/ CloseOnKeeper
           \/ ReadOther \/ Lens \/ UNCHANGED vars
  <2>1. UNCHANGED <<pc, cur, sess>> /\ alive' \subseteq alive
    BY <1>8 DEF NewManager, Forget, Notices, CloseOnKeeper, ReadOther, Lens, LensPairs,
       LensRefusesPairing, LensTellsPublic, LensAnswersIsc, LensAnswersCsc,
       LensSendsPlain, LensIgnores, LinkDrops, FactoryReset, PairedElsewhere, hostVars,
       vars, callVars, transportVars
  <2> QED
    BY <1>7, <2>1
<1>9. CASE \/ (\E who \in {"pair", "app"} : BeginOther(who)) \/ AppResumes \/ OpenFails
           \/ Hold \/ Save \/ AppHas \/ SendPairing \/ SendQuery
           \/ (\E i \in 1..ResumeMax : SendIsc(i))
           \/ ReadPaired \/ ReadPublic \/ QueryUnanswered \/ ReadIsc
  <2>1. UNCHANGED <<sess, alive>> /\ pc # "csc?"
    BY <1>9 DEF BeginOther, Begin, AppResumes, OpenFails, Hold, Save, AppHas,
       SendPairing, SendQuery, SendIsc, ReadPaired, ReadPublic, QueryUnanswered,
       ReadIsc, Goes, transportVars
  <2> QED
    BY <1>7, <2>1
<1> QED
  BY <1>1, <1>2, <1>3, <1>4, <1>5, <1>6, <1>8, <1>9, EndsAre DEF Next, CallRuns

(* Every step of host and camera is one of SessionAgreement's or changes   *)
(* nothing of it: Connection implements it.  A session both sides take for *)
(* established has the same key and nonces on both.                        *)
THEOREM HandshakeAgrees == Spec => SessionsAgree
<1> DEFINE believed == [c \in Conns |-> IF Established(c) THEN sess[c] ELSE NoSession]
<1>1. Init => Agreement!Init
  BY DEF Init, Agreement!Init, Established
<1>2. TypeInv /\ AgreeInv /\ [Next]_vars => [Agreement!Next]_(Agreement!agreementVars)
  <2> SUFFICES ASSUME TypeInv, AgreeInv, [Next]_vars
               PROVE  Agreement!Next \/ UNCHANGED <<lensSess, believed>>
    BY DEF Agreement!agreementVars
  <2>0. /\ lensSess \in [Conns -> Sessions \cup {NoSession}]
        /\ lensConn \in Conns \cup {0} /\ (cur # 0 => cur \in Conns)
    BY BoundsAssumption DEF TypeInv, SessionTypes, TransportInv, Conns
  <2>1. CASE LensAnswersCsc
    <3>1. /\ lensConn \in Conns /\ lensOffer \in Sessions
          /\ lensSess[lensConn] = NoSession /\ UNCHANGED hostVars
          /\ lensSess' = [lensSess EXCEPT ![lensConn] = lensOffer]
      BY <2>0, <2>1, AcceptedIsSession DEF LensAnswersCsc, Plaintext, TypeInv
    <3>2. ASSUME NEW d \in Conns PROVE lensSess[d] # lensOffer
      <4>1. lensOffer.lens[1] = lensConn
        BY <3>1, NoSessionIsNone DEF AgreeInv, Conns
      <4>2. lensSess[d] \in Sessions => lensSess[d].lens[1] = d
        BY NoSessionIsNone DEF AgreeInv
      <4> QED
        BY <3>1, <4>1, <4>2, NoSessionIsNone
    <3>3. UNCHANGED believed
      BY <3>1 DEF hostVars, transportVars, callVars, Established
    <3>4. Agreement!CameraStarts(lensConn, lensOffer)
      BY <3>1, <3>2, <3>3 DEF Agreement!CameraStarts
    <3> QED
      BY <3>1, <3>4 DEF Agreement!Next
  <2>2. CASE ReadCsc
    <3>1. /\ pc = "csc?" /\ pc' = "ready" /\ UNCHANGED <<cur, sess, alive, lensSess>>
          /\ cur \in Conns
      BY <2>0, <2>2 DEF ReadCsc, Goes, transportVars, lensVars, TypeInv, TransportInv
    <3>2. sess[cur] = lensSess[cur] /\ sess[cur] # NoSession
      <4>1. KeyedInv'
        BY KeyedKept
      <4>2. KeyedInv
        BY DEF TypeInv
      <4> QED
        BY <3>1, <4>1, <4>2, NoSessionIsNone DEF KeyedInv
    <3>3. CASE cur \in alive
      <4>1. believed' = [believed EXCEPT ![cur] = lensSess[cur]]
        BY <3>1, <3>2, <3>3 DEF Established
      <4>2. PICK c \in Conns : c = cur
        BY <3>1
      <4>3. Agreement!HostAdopts(c)
        BY <3>1, <3>2, <4>1, <4>2 DEF Agreement!HostAdopts
      <4> QED
        BY <4>3 DEF Agreement!Next
    <3>4. CASE cur \notin alive
      BY <3>1, <3>4 DEF Established
    <3> QED
      BY <3>3, <3>4
  <2>3. CASE ~LensAnswersCsc /\ ~ReadCsc
    <3>0. PICK C \in SUBSET Conns : \A c \in Conns : c \in C <=> ~Established(c)'
      <4>1. \A c \in Conns :
              c \in {d \in Conns : ~Established(d)'} <=> ~Established(c)'
        OBVIOUS
      <4> QED
        BY <4>1
    <3>1. UNCHANGED lensSess
      BY <2>3, LensMoves
    <3>2. believed' = [c \in Conns |-> IF c \in C THEN NoSession ELSE believed[c]]
      BY <2>3, <3>0, HostKeeps
    <3>3. Agreement!HostDrops(C)
      BY <3>1, <3>2 DEF Agreement!HostDrops
    <3> QED
      BY <3>3 DEF Agreement!Next
  <2> QED
    BY <2>1, <2>2, <2>3
<1> QED
  BY <1>1, <1>2, TypesKept, PTL DEF Spec, SessionsAgree, Agreement!Spec

-----------------------------------------------------------------------------
(* How a call of the manager or the pair command moves on.                 *)
LEMMA CallMoves ==
  ASSUME TypeInv, [Next]_vars, user' # "app", cur' # 0
  PROVE  \/ \E c \in Conns : OpenSucceeds(c)
         \/ \E i \in 1..ResumeMax : SendIsc(i)
         \/ /\ UNCHANGED <<user, cur, app>>
            /\ pc' \in Early => pc \in Early
            /\ key' = key \/ pc \in Early
<1> DEFINE Goal == /\ UNCHANGED <<user, cur, app>>
                   /\ pc' \in Early => pc \in Early
                   /\ key' = key \/ pc \in Early
<1>1. ASSUME UNCHANGED callVars PROVE Goal
  BY <1>1 DEF callVars
<1>2. CASE \/ Connect \/ (\E who \in {"pair", "app"} : BeginOther(who)) \/ Hold
           \/ AppLeaves \/ Crash \/ ForeignError
  BY <1>2 DEF Connect, BeginOther, Begin, Hold, AppLeaves, Crash, ForeignError
<1>3. CASE Ends
  BY <1>3 DEF Ends, Fails, HandsBack
<1>4. CASE AppHas \/ AppResumes
  BY <1>4 DEF AppHas, AppResumes, Goes, TypeInv, TransportInv
<1>5. CASE OpenFails
  BY <1>5 DEF OpenFails, TypeInv, TransportInv
<1>6. CASE \/ Save \/ SendPairing \/ SendQuery \/ SendCsc \/ ReadPaired \/ ReadPublic
           \/ QueryUnanswered \/ ReadIsc \/ ReadCsc
  BY <1>6 DEF Save, SendPairing, SendQuery, SendCsc, ReadPaired, ReadPublic,
     QueryUnanswered, ReadIsc, ReadCsc, Goes, Early
<1>7. ASSUME \/ NewManager \/ Close \/ Forget \/ (\E c \in Conns : Notices(c)) \/ ReadOther
            \/ CloseOnKeeper \/ UNCHANGED vars
      PROVE  UNCHANGED callVars
  BY <1>7 DEF NewManager, Close, Forget, Notices, ReadOther, CloseOnKeeper, vars
<1>8. ASSUME Lens PROVE UNCHANGED callVars
  BY <1>8 DEF Lens, LensPairs, LensRefusesPairing, LensTellsPublic, LensAnswersIsc,
     LensAnswersCsc, LensSendsPlain, LensIgnores, LinkDrops, FactoryReset,
     PairedElsewhere, hostVars
<1> QED
  BY <1>1, <1>2, <1>3, <1>4, <1>5, <1>6, <1>7, <1>8, EndsAre DEF Next, CallRuns

(* The camera's key is replaced by a newer one than any before, or reset.  *)
LEMMA LensKeyMoves ==
  ASSUME TypeInv, [Next]_vars
  PROVE  lensKey' = lensKey \/ lensKey' = 0 \/ lensKey' = keys + 1
<1>1. CASE Lens
  BY <1>1 DEF Lens, LensPairs, LensRefusesPairing, LensTellsPublic, LensAnswersIsc,
     LensAnswersCsc, LensSendsPlain, LensIgnores, LinkDrops, FactoryReset,
     PairedElsewhere, NewKey, lensVars, lensSays
<1>2. CASE Ends
  BY <1>2 DEF Ends, Fails, HandsBack, CloseTransport, lensVars
<1>3. CASE \/ NewManager \/ Connect \/ Close \/ Forget \/ CloseOnKeeper \/ Crash
           \/ (\E who \in {"pair", "app"} : BeginOther(who)) \/ AppResumes \/ AppLeaves
           \/ (\E c \in Conns : Notices(c)) \/ UNCHANGED vars
  BY <1>3 DEF NewManager, Connect, Close, Forget, CloseOnKeeper, Crash, BeginOther,
     AppResumes, AppLeaves, Notices, CloseTransport, lensVars, vars
<1>4. CASE \/ OpenFails \/ (\E c \in Conns : OpenSucceeds(c)) \/ ForeignError \/ Hold
           \/ Save \/ AppHas \/ SendPairing \/ SendQuery \/ SendCsc \/ ReadPaired
           \/ ReadPublic \/ QueryUnanswered \/ ReadIsc
           \/ ReadCsc \/ ReadOther \/ (\E i \in 1..ResumeMax : SendIsc(i))
  BY <1>4 DEF OpenFails, OpenSucceeds, ForeignError, Hold, Save, AppHas, SendPairing,
     SendQuery, SendCsc, SendIsc, ReadPaired, ReadPublic, QueryUnanswered, ReadIsc,
     ReadCsc, ReadOther, lensVars
<1> QED
  BY <1>1, <1>2, <1>3, <1>4, EndsAre DEF Next, CallRuns

(* Hence a key that is not the camera's never becomes it.                  *)
LEMMA OldKeyStaysOld ==
  ASSUME TypeInv, [Next]_vars, key # 0, key # lensKey
  PROVE  key # lensKey'
<1>1. key \in 0..keys /\ keys \in Nat
  BY BoundsAssumption DEF TypeInv, KeyTypes
<1> QED
  BY <1>1, LensKeyMoves

LEMMA AskedOnceKept ==
  ASSUME TypeInv, OnceInv, [Next]_vars
  PROVE  AskedOnce'
<1> SUFFICES ASSUME user' # "app", cur' # 0, NEW i \in 1..Len(toLens'), toLens'[i].t = "isc"
             PROVE  pc' \notin Early /\ toLens'[i].app = app'
  BY DEF AskedOnce
<1>0. toLens \in Seq(LensMessages)
  BY DEF TypeInv, QueueTypes
<1>1. CASE \E c \in Conns : OpenSucceeds(c)
  BY <1>1 DEF OpenSucceeds, ClearQueues
<1>2. CASE \E n \in 1..ResumeMax : SendIsc(n)
  <2>1. PICK n \in 1..ResumeMax : SendIsc(n)
    BY <1>2
  <2> DEFINE m == [t |-> "isc", app |-> <<cur, n>>]
  <2>2. pc = "isc" /\ pc' = "isc?" /\ app' = <<cur, n>> /\ Send(m) /\ UNCHANGED <<user, cur>>
    BY <2>1 DEF SendIsc, Goes
  <2>3. m \in LensMessages
    BY <2>2, BoundsAssumption DEF LensMessages, Nonces, Conns, TypeInv, TransportInv
  <2>4. \/ i \in 1..Len(toLens) /\ toLens'[i] = toLens[i]
        \/ toLens'[i] = m
    <3> HIDE DEF m
    <3> QED
      BY <1>0, <2>2, <2>3, QueueGrows DEF Send
  <2>5. CASE i \in 1..Len(toLens) /\ toLens'[i] = toLens[i]
    BY <2>2, <2>5 DEF OnceInv, AskedOnce, Early
  <2> QED
    BY <2>2, <2>4, <2>5 DEF Early
<1>3. CASE /\ UNCHANGED <<user, cur, app>>
           /\ pc' \in Early => pc \in Early
  <2>1. ASSUME NEW j \in 1..Len(toLens), toLens'[i] = toLens[j]
        PROVE  pc' \notin Early /\ toLens'[i].app = app'
    BY <1>3, <2>1 DEF OnceInv, AskedOnce
  <2>2. CASE ToLensShrinks
    BY <2>1, <2>2 DEF ToLensShrinks, Within
  <2>3. CASE SendPairing \/ SendQuery \/ SendCsc
    <3>1. PICK m \in LensMessages : Send(m) /\ m.t # "isc"
      <4>1. CASE SendPairing \/ SendQuery
        BY <4>1 DEF SendPairing, SendQuery, LensMessages
      <4>2. CASE SendCsc
        BY <4>2 DEF SendCsc, Goes, LensMessages, TypeInv, KeyedInv
      <4> QED
        BY <2>3, <4>1, <4>2
    <3>2. i \in 1..Len(toLens) /\ toLens'[i] = toLens[i]
      BY <1>0, <3>1, QueueGrows DEF Send
    <3> QED
      BY <2>1, <3>2
  <2> QED
    BY <1>2, <2>2, <2>3, ToLensStep DEF TypeInv
<1> QED
  BY <1>1, <1>2, <1>3, CallMoves

LEMMA AnsweredOnceKept ==
  ASSUME TypeInv, OnceInv, [Next]_vars
  PROVE  AnsweredOnce'
<1> SUFFICES ASSUME user' # "app", cur' # 0, NEW i \in 1..Len(toHost'), toHost'[i].t = "isc"
             PROVE  /\ pc' \notin Early /\ toHost'[i].sess.app = app'
                    /\ toHost'[i].sess.key # key' => key' # lensKey'
  BY DEF AnsweredOnce
<1>0. toHost \in Seq(HostMessages)
  BY DEF TypeInv, QueueTypes
<1>1. CASE \E c \in Conns : OpenSucceeds(c)
  BY <1>1 DEF OpenSucceeds, ClearQueues
<1>2. CASE \E n \in 1..ResumeMax : SendIsc(n)
  <2>1. pc = "isc" /\ UNCHANGED <<user, cur, toHost>>
    BY <1>2 DEF SendIsc, Goes, Send
  <2> QED
    BY <2>1 DEF OnceInv, AnsweredOnce, Early
<1>3. CASE /\ UNCHANGED <<user, cur, app>>
           /\ pc' \in Early => pc \in Early
           /\ key' = key \/ pc \in Early
  <2>1. ASSUME NEW j \in 1..Len(toHost), toHost'[i] = toHost[j]
        PROVE  /\ pc' \notin Early /\ toHost'[i].sess.app = app'
               /\ toHost'[i].sess.key # key' => key' # lensKey'
    <3>1. /\ pc \notin Early /\ toHost[j].sess.app = app
          /\ toHost[j].sess.key # key => key # lensKey
      BY <1>3, <2>1 DEF OnceInv, AnsweredOnce
    <3>2. key # 0
      <4>1. pc \in {"isc?", "csc", "csc?", "ready", "saved"}
        BY <1>3, <3>1 DEF TypeInv, CallTypes, TransportInv, Working, Waiting, Early
      <4> QED
        BY <1>3, <4>1 DEF OnceInv, KeyKnown
    <3> QED
      BY <1>3, <2>1, <3>1, <3>2, OldKeyStaysOld
  <2>2. CASE ToHostShrinks
    BY <2>1, <2>2 DEF ToHostShrinks, Within
  <2>3. CASE LensAnswersIsc
    <3>1. /\ lensOffer' \in Sessions /\ lensOffer'.key = lensKey
          /\ lensOffer'.app = toLens[1].app
          /\ toHost' = Append(toHost, [t |-> "isc", sess |-> lensOffer'])
          /\ UNCHANGED <<pc, key, lensKey>>
      BY <2>3, OfferIsSession DEF LensAnswersIsc, Answer, hostVars, callVars
    <3>2. [t |-> "isc", sess |-> lensOffer'] \in HostMessages
      BY <3>1 DEF HostMessages
    <3>3. \/ i \in 1..Len(toHost) /\ toHost'[i] = toHost[i]
          \/ toHost'[i] = [t |-> "isc", sess |-> lensOffer']
      BY <1>0, <3>1, <3>2, QueueGrows
    <3>4. 1 \in 1..Len(toLens) /\ toLens[1].t = "isc"
      BY <2>3, AskedMessage DEF LensAnswersIsc, TypeInv
    <3>5. pc \notin Early /\ toLens[1].app = app
      BY <1>3, <3>4 DEF OnceInv, AskedOnce
    <3>6. CASE toHost'[i] = [t |-> "isc", sess |-> lensOffer']
      BY <1>3, <3>1, <3>5, <3>6
    <3> QED
      BY <2>1, <3>3, <3>6
  <2>4. CASE LensTellsPublic \/ LensPairs \/ LensAnswersCsc \/ LensSendsPlain
    <3>1. PICK m \in HostMessages : toHost' = Append(toHost, m) /\ m.t # "isc"
      <4>1. CASE LensPairs
        <5>1. keys' \in 1..KeyMax
          BY <4>1, BoundsAssumption DEF LensPairs, NewKey, TypeInv, KeyTypes
        <5> QED
          BY <4>1, <5>1 DEF LensPairs, Answer, HostMessages
      <4>2. CASE LensAnswersCsc
        <5>1. [t |-> "csc", sess |-> lensOffer] \in HostMessages
          BY <4>2, AcceptedIsSession DEF HostMessages, TypeInv
        <5> QED
          BY <4>2, <5>1 DEF LensAnswersCsc, Answer
      <4>3. CASE LensSendsPlain
        BY <4>3 DEF LensSendsPlain, HostMessages
      <4>4. CASE LensTellsPublic
        BY <4>4 DEF LensTellsPublic, Answer, HostMessages
      <4> QED
        BY <2>4, <4>1, <4>2, <4>3, <4>4
    <3>2. i \in 1..Len(toHost) /\ toHost'[i] = toHost[i]
      BY <1>0, <3>1, QueueGrows
    <3> QED
      BY <2>1, <3>2
  <2> QED
    BY <2>2, <2>3, <2>4, ToHostStep DEF TypeInv
<1> QED
  BY <1>1, <1>2, <1>3, CallMoves

LEMMA KeyKnownKept ==
  ASSUME TypeInv, OnceInv, [Next]_vars
  PROVE  KeyKnown'
<1> USE DEF KeyKnown
<1>0. KeyKnown /\ (pc = "direct" => user = "app")
  BY DEF OnceInv, TypeInv, TransportInv
<1>1. ASSUME pc' \in {"idle", "direct", "query", "query?", "pair", "pair?"} PROVE KeyKnown'
  BY <1>1
<1>2. CASE Connect \/ (\E who \in {"pair", "app"} : BeginOther(who))
  <2>1. pc' = "opening" /\ (user' = "manager" => key' # 0)
    <3>1. CASE Connect
      BY <3>1 DEF Connect, Begin
    <3>2. CASE \E who \in {"pair", "app"} : BeginOther(who)
      BY <3>2 DEF BeginOther, Begin
    <3> QED
      BY <1>2, <3>1, <3>2
  <2> QED
    BY <2>1
<1>3. CASE ReadPaired
  <2>1. Incoming \in HostMessages /\ Incoming.t = "paired"
    BY <1>3, IncomingMessage DEF ReadPaired, Arrives, TypeInv
  <2>2. key' \in 1..KeyMax /\ pc' = "isc"
    BY <1>3, <2>1, HostMessageFields DEF ReadPaired, Goes
  <2> QED
    BY <2>2
<1>4. CASE \E c \in Conns : OpenSucceeds(c)
  <2>1. /\ pc = "opening" /\ UNCHANGED <<user, key>>
        /\ pc' = IF user = "pair" THEN "query" ELSE "isc"
    BY <1>4 DEF OpenSucceeds
  <2>2. user \in {"manager", "pair", "app"}
    BY DEF TypeInv, CallTypes
  <2>3. user # "app" /\ pc' = "isc" => key # 0
    BY <1>0, <2>1, <2>2
  <2> QED
    BY <2>1, <2>3
<1>5. ASSUME UNCHANGED <<user, key>>, \/ pc' = pc
                                      \/ /\ pc \in {"isc", "isc?", "csc", "csc?", "ready"}
                                         /\ pc' # "opening"
      PROVE  KeyKnown'
  <2>1. CASE pc' = pc
    BY <1>0, <1>5, <2>1
  <2>2. CASE pc \in {"isc", "isc?", "csc", "csc?", "ready"} /\ pc' # "opening"
    <3>1. user # "app" => key # 0
      BY <1>0, <2>2
    <3> QED
      BY <1>5, <2>2, <3>1
  <2> QED
    BY <1>5, <2>1, <2>2
<1> HIDE DEF KeyKnown
<1>6. CASE Ends
  BY <1>1, <1>6 DEF Ends, Fails, HandsBack
<1>7. CASE \/ ForeignError \/ Hold \/ AppHas \/ AppLeaves \/ Crash \/ SendPairing
           \/ SendQuery \/ ReadPublic \/ QueryUnanswered
  BY <1>1, <1>7 DEF ForeignError, Hold, AppHas, AppLeaves, Crash, SendPairing, SendQuery,
     ReadPublic, QueryUnanswered, Goes
<1>8. CASE OpenFails
  <2>1. pc' = "idle" \/ UNCHANGED <<pc, user, key>>
    BY <1>8 DEF OpenFails
  <2> QED
    BY <1>1, <1>5, <1>8, <2>1 DEF OpenFails
<1>9. CASE AppResumes
  BY <1>0, <1>9 DEF AppResumes, Goes, KeyKnown
<1>10. CASE Save \/ SendCsc \/ ReadIsc \/ ReadCsc \/ \E n \in 1..ResumeMax : SendIsc(n)
  <2>1. /\ UNCHANGED <<user, key>> /\ pc' # "opening"
        /\ pc \in {"isc", "isc?", "csc", "csc?", "ready"}
    BY <1>10 DEF Save, SendCsc, ReadIsc, ReadCsc, SendIsc, Goes
  <2> QED
    BY <1>5, <2>1
<1>11. CASE \/ NewManager \/ Close \/ Forget \/ (\E c \in Conns : Notices(c)) \/ ReadOther
            \/ CloseOnKeeper \/ UNCHANGED vars
  BY <1>5, <1>11 DEF NewManager, Close, Forget, Notices, ReadOther, CloseOnKeeper,
     callVars, vars
<1>12. CASE Lens
  BY <1>5, <1>12 DEF Lens, LensPairs, LensRefusesPairing, LensTellsPublic,
     LensAnswersIsc, LensAnswersCsc, LensSendsPlain, LensIgnores, LinkDrops,
     FactoryReset, PairedElsewhere, hostVars, callVars
<1> QED
  BY <1>2, <1>3, <1>4, <1>6, <1>7, <1>8, <1>9, <1>10, <1>11, <1>12, EndsAre
     DEF Next, CallRuns

LEMMA MismatchKept ==
  ASSUME TypeInv, OnceInv, [Next]_vars
  PROVE  MismatchInv'
<1> USE DEF MismatchInv
<1>0. MismatchInv
  BY DEF OnceInv
<1>1. ASSUME verdict' # "mismatch" \/ user' = "app" PROVE MismatchInv'
  BY <1>1
<1>2. CASE ReadWrongIsc
  <2>1. PICK i \in 1..Len(toHost) : toHost[i].t = "isc" /\ ~ProofIsRight(toHost[i].sess)
    BY <1>2, IncomingMessage DEF ReadWrongIsc, Arrives, TypeInv
  <2>2. CASE Fails("mismatch")
    <3>1. /\ user # "app" /\ pc = "isc?" /\ cur # 0 /\ pc' = "idle"
          /\ UNCHANGED <<key, lensKey>>
      BY <1>2, <2>2 DEF ReadWrongIsc, Fails, CloseTransport, TypeInv, TransportInv
    <3>2. key # 0
      BY <3>1 DEF OnceInv, KeyKnown
    <3>3. key # lensKey
      BY <2>1, <3>1 DEF OnceInv, AnsweredOnce, ProofIsRight
    <3> QED
      BY <3>1, <3>2, <3>3
  <2>3. CASE HandsBack("mismatch")
    BY <2>3 DEF HandsBack
  <2> QED
    BY <1>2, <2>2, <2>3 DEF ReadWrongIsc, EndsWith
<1>3. ASSUME UNCHANGED <<user, key, verdict>>, pc = "idle" => pc' = "idle" PROVE MismatchInv'
  BY <1>0, <1>3, OldKeyStaysOld
<1> HIDE DEF MismatchInv
<1>4. CASE TimesOut \/ LinkIsLost \/ PairEnds
  <2>1. verdict' \in {"asleep", "timeout", "lost", "ok"}
    BY <1>4 DEF TimesOut, LinkIsLost, PairEnds, EndsWith, Fails, HandsBack
  <2> QED
    BY <1>1, <2>1
<1>5. CASE \/ Connect \/ (\E who \in {"pair", "app"} : BeginOther(who)) \/ ForeignError
           \/ Hold \/ AppHas \/ Crash
  BY <1>1, <1>5 DEF Connect, BeginOther, Begin, ForeignError, Hold, AppHas, Crash
<1>6. CASE AppResumes \/ AppLeaves
  BY <1>1, <1>6 DEF AppResumes, AppLeaves, Goes, TypeInv, TransportInv
<1>7. CASE OpenFails
  <2>1. CASE pc' = "idle"
    BY <1>1, <1>7, <2>1 DEF OpenFails
  <2>2. CASE pc' # "idle"
    BY <1>3, <1>7, <2>2 DEF OpenFails
  <2> QED
    BY <2>1, <2>2
<1>8. CASE ReadPaired \/ ReadPublic \/ QueryUnanswered
  <2>1. verdict' = verdict /\ pc \in {"query?", "pair?"} /\ user' = user
    BY <1>8 DEF ReadPaired, ReadPublic, QueryUnanswered, Goes
  <2> QED
    BY <1>0, <1>1, <2>1 DEF MismatchInv
<1>9. CASE \/ (\E c \in Conns : OpenSucceeds(c)) \/ Save \/ SendPairing \/ SendQuery
           \/ SendCsc \/ ReadIsc
           \/ ReadCsc \/ \E n \in 1..ResumeMax : SendIsc(n)
  <2>1. UNCHANGED <<user, key, verdict>> /\ pc # "idle"
    BY <1>9 DEF OpenSucceeds, Save, SendPairing, SendQuery, SendCsc, ReadIsc, ReadCsc,
       SendIsc, Goes
  <2> QED
    BY <1>3, <2>1
<1>10. CASE \/ NewManager \/ Close \/ Forget \/ (\E c \in Conns : Notices(c)) \/ ReadOther
            \/ CloseOnKeeper \/ UNCHANGED vars
  BY <1>3, <1>10 DEF NewManager, Close, Forget, Notices, ReadOther, CloseOnKeeper,
     callVars, vars
<1>11. CASE Lens
  BY <1>3, <1>11 DEF Lens, LensPairs, LensRefusesPairing, LensTellsPublic,
     LensAnswersIsc, LensAnswersCsc, LensSendsPlain, LensIgnores, LinkDrops,
     FactoryReset, PairedElsewhere, hostVars, callVars
<1> QED
  BY <1>2, <1>4, <1>5, <1>6, <1>7, <1>8, <1>9, <1>10, <1>11 DEF Next, CallRuns

(* When connect or the pair command reports a PairingKeyMismatch, the      *)
(* camera does have another key, and goes on having another: each resume   *)
(* has a connection of its own, so that the answer that failed the proof   *)
(* cannot be one to an earlier nonce.                                      *)
THEOREM MismatchIsTrue == Spec => []MismatchIsReal
<1>1. Init => OnceInv
  <2> SUFFICES ASSUME Init PROVE OnceInv
    OBVIOUS
  <2>1. KeyKnown /\ MismatchInv
    BY DEF Init, KeyKnown, MismatchInv
  <2>2. AskedOnce /\ AnsweredOnce
    BY DEF Init, AskedOnce, AnsweredOnce
  <2> QED
    BY <2>1, <2>2 DEF OnceInv
<1>2. TypeInv /\ OnceInv /\ [Next]_vars => OnceInv'
  BY KeyKnownKept, AskedOnceKept, AnsweredOnceKept, MismatchKept DEF OnceInv
<1>3. OnceInv => MismatchIsReal
  BY DEF OnceInv, MismatchInv, MismatchIsReal
<1> QED
  BY <1>1, <1>2, <1>3, TypesKept, PTL DEF Spec
=============================================================================
