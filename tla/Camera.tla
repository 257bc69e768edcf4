------------------------------- MODULE Camera -------------------------------
(***************************************************************************)
(* One Camera object over an established session: the worker thread that   *)
(* makes calls (request, poll, heartbeat, start_keepalive, stop_keepalive, *)
(* close), the keepalive threads that send heartbeats beside it, and the   *)
(* camera at the far end, which answers when and in the order it likes and *)
(* pushes state notifications in between.  The channel under them is       *)
(* SecureChannel.                                                          *)
(*                                                                         *)
(* Time is abstract: a timeout is a step that may be taken at any moment   *)
(* of the wait it ends.                                                    *)
(***************************************************************************)
EXTENDS Naturals, Sequences, FiniteSets, SequencesExt

CONSTANTS
  Worker,      \* the application's worker thread
  Keepers,     \* the keepalive threads it may start, one after the other
  Types,       \* request types other than KEEP_ALIVE
  LongTypes,   \* those whose frame is too long for one write
  KeepAlive,   \* the request type KEEP_ALIVE
  States,      \* values of the camera's state
  None,        \* no thread, no request type, no state entry
  Plain,       \* the content of a stray plaintext indication
  CounterMax,  \* bound: the messages of one direction
  WindowMax    \* bound: the indications waiting to be read

ASSUME NamesAssumption ==
  /\ Worker \notin Keepers /\ None \notin Keepers \cup {Worker}
  /\ KeepAlive \notin Types /\ None \notin Types \cup {KeepAlive}
  /\ LongTypes \subseteq Types
  /\ None \notin States

VARIABLES
  tx, rx, lensTx, lensRx, lock, frame, refused, toLens, toHost, reading,
  linkUp, alive, emitter,
  sess,       \* Camera.sess is not None
  pc,         \* where the worker is in its current call
  call,       \* the request it waits for
  closing,    \* the stop_keepalive it runs was called by close
  pending,    \* Camera._pending: answers nobody has asked for yet
  mirror,     \* Camera.state
  handle,     \* Camera._hb_thread
  stopping,   \* the keepalive threads whose stop event is set
  keeper,     \* where each keepalive thread is
  todo,       \* the camera: requests received and not answered
  shown,      \* the camera: its state, as last told to the host
  got,        \* history: the answers decrypted
  replies     \* history: the answers returned, each with its request

(* The control methods are requests of a type each.                        *)
Requests == [type : Types \cup {KeepAlive}, seq : 1..CounterMax]
LongRequests == {r \in Requests : r.type \in LongTypes}
LensMessages == [type : Types \cup {KeepAlive, None}, seq : 0..CounterMax,
                 state : States \cup {None}]

ASSUME PlainAssumption == Plain \notin LensMessages
ASSUME BoundAssumption == CounterMax \in Nat \ {0} /\ WindowMax \in Nat \ {0}

Ch == INSTANCE SecureChannel
        WITH Threads <- {Worker} \cup Keepers, Reader <- Worker, Nobody <- None,
             HostMsg <- Requests, LensMsg <- LensMessages, Oversize <- LongRequests

channelVars == <<tx, rx, lensTx, lensRx, lock, frame, refused, toLens, toHost,
                 reading, linkUp, alive, emitter>>
inboxVars  == <<pending, mirror, got, replies>>
keeperVars == <<handle, stopping, keeper>>
callVars   == <<sess, pc, call, closing>>
lensOwn    == <<todo, shown>>
vars == <<channelVars, inboxVars, keeperVars, callVars, lensOwn>>

NoRequest == [type |-> None, seq |-> 0]

(* resume has just returned: the state bundle it carried is the mirror.    *)
Init ==
  /\ Ch!Init
  /\ sess = TRUE /\ pc = "idle" /\ call = NoRequest /\ closing = FALSE
  /\ shown \in States /\ mirror = shown
  /\ pending = << >> /\ got = {} /\ replies = {}
  /\ handle = None /\ stopping = {} /\ keeper = [k \in Keepers |-> "new"]
  /\ todo = {}

-----------------------------------------------------------------------------
(* The worker's calls.                                                     *)

(* _next_seq runs under the lock with encrypt, so sequence numbers and     *)
(* counters advance together.                                              *)
NewRequest(ty) == [type |-> ty, seq |-> tx + 1]

(* request or heartbeat, up to the write.                                  *)
Call(ty) ==
  /\ pc = "idle" /\ sess
  /\ Ch!Seal(Worker, NewRequest(ty))
  /\ call' = NewRequest(ty)
  /\ pc' = "write"
  /\ UNCHANGED <<sess, closing, inboxVars, keeperVars, lensOwn>>

(* OverflowError out of encrypt, now and at every later attempt.           *)
Exhausted(t) ==
  \/ Ch!SealOverflow(t)
  \/ lock = None /\ tx > CounterMax /\ UNCHANGED channelVars

CallOverflows ==
  /\ pc = "idle" /\ sess
  /\ Ch!SealOverflow(Worker)
  /\ UNCHANGED <<inboxVars, keeperVars, callVars, lensOwn>>

(* The write returns; a heartbeat waits for no answer.                     *)
WriteReturns ==
  /\ pc = "write"
  /\ Ch!PostArrives(Worker) \/ Ch!PostSwallowed(Worker)
  /\ pc' = IF call.type = KeepAlive THEN "idle" ELSE "scan"
  /\ UNCHANGED <<sess, call, closing, inboxVars, keeperVars, lensOwn>>

WriteRaises ==
  /\ pc = "write"
  /\ Ch!PostFails(Worker)
  /\ pc' = "idle"
  /\ UNCHANGED <<sess, call, closing, inboxVars, keeperVars, lensOwn>>

(* ValueError out of the transport: the call ends, the connection stays.   *)
WriteRefused ==
  /\ pc = "write"
  /\ Ch!PostOversize(Worker)
  /\ pc' = "idle"
  /\ UNCHANGED <<sess, call, closing, inboxVars, keeperVars, lensOwn>>

(* Mutant of Matches: the next response, whatever it is.                   *)
MatchesAny(m, r) == TRUE

(* _matches with the response field given, as request always gives it: the *)
(* sequence number is not compared.                                        *)
Matches(m, r) == m.type = r.type

ReturnAnswer(m) ==
  /\ replies' = replies \cup {[request |-> call, answer |-> m]}
  /\ pc' = "idle"

(* Mutant of ScanFinds: the answer stays in _pending.                      *)
ScanFindsKeeps ==
  /\ pc = "scan"
  /\ \E i \in 1..Len(pending) :
       /\ Matches(pending[i], call)
       /\ ReturnAnswer(pending[i])
  /\ UNCHANGED <<channelVars, mirror, got, pending, keeperVars, sess, call, closing,
                 lensOwn>>

(* _read_enc looks through _pending first.                                 *)
ScanFinds ==
  /\ pc = "scan"
  /\ \E i \in 1..Len(pending) :
       /\ Matches(pending[i], call)
       /\ \A j \in 1..(i - 1) : ~Matches(pending[j], call)
       /\ pending' = RemoveAt(pending, i)
       /\ ReturnAnswer(pending[i])
  /\ UNCHANGED <<channelVars, mirror, got, keeperVars, sess, call, closing, lensOwn>>

ScanFindsNothing ==
  /\ pc = "scan"
  /\ \A i \in 1..Len(pending) : ~Matches(pending[i], call)
  /\ pc' = "wait"
  /\ UNCHANGED <<channelVars, inboxVars, keeperVars, sess, call, closing, lensOwn>>

StartPoll ==
  /\ pc = "idle" /\ sess
  /\ pc' = "poll"
  /\ UNCHANGED <<channelVars, inboxVars, keeperVars, sess, call, closing, lensOwn>>

-----------------------------------------------------------------------------
(* The rounds of the read loop of request or poll.  The clock is looked at *)
(* between two rounds.                                                     *)
Reading == pc \in {"wait", "poll"}
Decrypts == toHost # << >> /\ Ch!Verifies(Head(toHost), rx)
Incoming == Head(toHost).msg

IsKeepaliveResponse(m) == m.type = KeepAlive

(* _classify: keepalive answers and bare notifications go no further.      *)
Absorbed(m) == IsKeepaliveResponse(m) \/ m.type = None
Answers(m) == Reading /\ Decrypts /\ ~Absorbed(m)

(* Mutant of UpdateFrom: only bare notifications are looked at.            *)
UpdateFromBare(m) == mirror' = IF m.type = None THEN m.state ELSE mirror

(* update_from merges the state entries of whatever is not a keepalive     *)
(* answer, whether or not it is absorbed.                                  *)
UpdateFrom(m) ==
  mirror' = IF ~IsKeepaliveResponse(m) /\ m.state # None THEN m.state ELSE mirror

ReadGoesOn ==
  /\ Reading
  /\ Ch!ReadBegins \/ Ch!ReadNothing
  /\ UNCHANGED <<inboxVars, keeperVars, callVars, lensOwn>>

ReadStray ==
  /\ Reading /\ ~Decrypts
  /\ Ch!Read
  /\ UNCHANGED <<inboxVars, keeperVars, callVars, lensOwn>>

ReadAbsorbed ==
  /\ Reading /\ Decrypts /\ Absorbed(Incoming)
  /\ Ch!Read
  /\ UpdateFrom(Incoming)
  /\ UNCHANGED <<pending, got, replies, keeperVars, callVars, lensOwn>>

ReadReply ==
  /\ Answers(Incoming) /\ pc = "wait" /\ Matches(Incoming, call)
  /\ Ch!Read
  /\ UpdateFrom(Incoming)
  /\ got' = got \cup {Incoming}
  /\ ReturnAnswer(Incoming)
  /\ UNCHANGED <<pending, keeperVars, sess, call, closing, lensOwn>>

ReadOther ==
  /\ Answers(Incoming) /\ (pc = "poll" \/ ~Matches(Incoming, call))
  /\ Ch!Read
  /\ UpdateFrom(Incoming)
  /\ got' = got \cup {Incoming}
  /\ pending' = Append(pending, Incoming)
  /\ UNCHANGED <<replies, keeperVars, callVars, lensOwn>>

(* OverflowError out of decrypt when the receive counter is used up: the   *)
(* indication is gone and the exception ends the call.                     *)
ReadOverflows ==
  /\ Reading /\ rx = CounterMax
  /\ Ch!Read
  /\ pc' = "idle"
  /\ UNCHANGED <<inboxVars, keeperVars, sess, call, closing, lensOwn>>

(* request returns None; poll returns its count.                           *)
TimesOut ==
  /\ Reading /\ ~reading
  /\ pc' = "idle"
  /\ UNCHANGED <<channelVars, inboxVars, keeperVars, sess, call, closing, lensOwn>>

(* ConnectionLost out of the read; the callbacks run unless they have.     *)
ReadRaises ==
  /\ Reading
  /\ Ch!ReadFails
  /\ pc' = "idle"
  /\ UNCHANGED <<inboxVars, keeperVars, sess, call, closing, lensOwn>>

-----------------------------------------------------------------------------
(* Keepalive: one thread at a time has the handle.  A thread sleeps in     *)
(* stop.wait ("asleep"), is on its way into heartbeat ("due"), or has its  *)
(* frame in hand ("writing").                                              *)
StartKeepaliveAgain(k) ==  \* mutant: no look at the handle
  /\ pc = "idle" /\ keeper[k] = "new"
  /\ handle' = k
  /\ keeper' = [keeper EXCEPT ![k] = "asleep"]
  /\ UNCHANGED <<channelVars, stopping, inboxVars, callVars, lensOwn>>

StartKeepalive(k) ==
  /\ pc = "idle" /\ handle = None /\ keeper[k] = "new"
  /\ handle' = k
  /\ keeper' = [keeper EXCEPT ![k] = "asleep"]
  /\ UNCHANGED <<channelVars, stopping, inboxVars, callVars, lensOwn>>

KeeperGoes(k, from, to) ==
  /\ keeper[k] = from
  /\ keeper' = [keeper EXCEPT ![k] = to]
  /\ UNCHANGED <<handle, stopping, inboxVars, callVars, lensOwn>>

KeeperWakes(k) ==
  k \notin stopping /\ KeeperGoes(k, "asleep", "due") /\ UNCHANGED channelVars

KeeperQuitsAlive(k) ==  \* mutant: the stop event is only looked at while alive
  alive /\ k \in stopping /\ KeeperGoes(k, "asleep", "done") /\ UNCHANGED channelVars

KeeperQuits(k) ==
  k \in stopping /\ KeeperGoes(k, "asleep", "done") /\ UNCHANGED channelVars

KeeperBeats(k) ==
  sess /\ KeeperGoes(k, "due", "writing") /\ Ch!Seal(k, NewRequest(KeepAlive))

(* Whatever heartbeat raises ends the thread: NotPaired once sess is None, *)
(* OverflowError, ConnectionLost.  The handle stays.                       *)
KeeperDies(k) ==
  \/ ~sess /\ KeeperGoes(k, "due", "done") /\ UNCHANGED channelVars
  \/ sess /\ KeeperGoes(k, "due", "done") /\ Exhausted(k)
  \/ KeeperGoes(k, "writing", "done") /\ Ch!PostFails(k)

KeeperPostsOnce(k) ==  \* mutant: one heartbeat and no more
  /\ KeeperGoes(k, "writing", "done")
  /\ Ch!PostArrives(k) \/ Ch!PostSwallowed(k)

KeeperPosts(k) ==
  /\ KeeperGoes(k, "writing", "asleep")
  /\ Ch!PostArrives(k) \/ Ch!PostSwallowed(k)

KeeperRuns(k) ==
  \/ KeeperWakes(k) \/ KeeperQuits(k) \/ KeeperBeats(k) \/ KeeperPosts(k)
  \/ KeeperDies(k)

-----------------------------------------------------------------------------
(* stop_keepalive and close.                                               *)
SetStop ==
  /\ handle # None
  /\ stopping' = stopping \cup {handle}
  /\ pc' = "join"

StopKeepalive ==
  /\ pc = "idle"
  /\ SetStop
  /\ closing' = FALSE
  /\ UNCHANGED <<channelVars, handle, keeper, inboxVars, sess, call, lensOwn>>

Close ==
  /\ pc = "idle" /\ sess
  /\ closing' = TRUE
  /\ \/ SetStop
     \/ handle = None /\ pc' = "shut" /\ UNCHANGED stopping
  /\ UNCHANGED <<channelVars, handle, keeper, inboxVars, sess, call, lensOwn>>

(* Mutant of JoinReturns: a join without a bound.                          *)
JoinWithoutBound ==
  /\ pc = "join"
  /\ keeper[handle] = "done"
  /\ handle' = None
  /\ pc' = IF closing THEN "shut" ELSE "idle"
  /\ UNCHANGED <<channelVars, stopping, keeper, inboxVars, sess, call, closing,
                 lensOwn>>

(* join returns when the thread has ended, or after two seconds when the   *)
(* thread is held up in a write, its own or the one it waits behind.       *)
JoinReturns ==
  /\ pc = "join"
  /\ \/ keeper[handle] = "done"
     \/ keeper[handle] \in {"due", "writing"} /\ lock # None
  /\ handle' = None
  /\ pc' = IF closing THEN "shut" ELSE "idle"
  /\ UNCHANGED <<channelVars, stopping, keeper, inboxVars, sess, call, closing,
                 lensOwn>>

CloseTransport ==
  /\ pc = "shut"
  /\ Ch!CloseTransport
  /\ pc' = "unset"
  /\ UNCHANGED <<inboxVars, keeperVars, sess, call, closing, lensOwn>>

DropSession ==
  /\ pc = "unset"
  /\ sess' = FALSE
  /\ pc' = "closed"
  /\ UNCHANGED <<channelVars, inboxVars, keeperVars, call, closing, lensOwn>>

-----------------------------------------------------------------------------
(* The camera at the far end.                                              *)
LensReceives ==
  /\ Ch!LensReceives
  /\ todo' = IF Ch!Verifies(Head(toLens), lensRx)
               THEN todo \cup {Head(toLens).msg} ELSE todo
  /\ UNCHANGED <<shown, inboxVars, keeperVars, callVars>>

Tells(s) == shown' = IF s = None THEN shown ELSE s

(* An answer may carry state entries; that to KEEP_ALIVE never does.       *)
LensAnswers(r, s) ==
  /\ r \in todo
  /\ r.type = KeepAlive => s = None
  /\ Ch!LensSends([type |-> r.type, seq |-> r.seq, state |-> s])
  /\ todo' = todo \ {r}
  /\ Tells(s)
  /\ UNCHANGED <<inboxVars, keeperVars, callVars>>

LensNotifies(s) ==
  /\ s # shown
  /\ Ch!LensSends([type |-> None, seq |-> 0, state |-> s])
  /\ Tells(s)
  /\ UNCHANGED <<todo, inboxVars, keeperVars, callVars>>

Surroundings ==
  /\ Ch!LensSendsPlain \/ Ch!LinkDrops
  /\ UNCHANGED <<inboxVars, keeperVars, callVars, lensOwn>>

-----------------------------------------------------------------------------
(* The steps a call takes on its own, once it has begun.                   *)
WorkerRuns ==
  \/ WriteReturns \/ WriteRaises \/ WriteRefused
  \/ ScanFinds \/ ScanFindsNothing
  \/ ReadGoesOn \/ ReadStray \/ ReadAbsorbed \/ ReadReply \/ ReadOther
  \/ ReadOverflows \/ ReadRaises \/ TimesOut
  \/ JoinReturns \/ CloseTransport \/ DropSession

Next ==
  \/ \E ty \in Types \cup {KeepAlive} : Call(ty)
  \/ CallOverflows \/ StartPoll
  \/ \E k \in Keepers : StartKeepalive(k)
  \/ StopKeepalive \/ Close
  \/ WorkerRuns
  \/ \E k \in Keepers : KeeperRuns(k)
  \/ LensReceives
  \/ \E r \in todo, s \in States \cup {None} : LensAnswers(r, s)
  \/ \E s \in States : LensNotifies(s)
  \/ Surroundings

Spec == Init /\ [][Next]_vars

(* The worker runs on, and its waits end: the read loops look at the clock *)
(* after each round, and a round takes time.  A keepalive thread that is   *)
(* told to stop wakes up, and one that waits for the lock gets it if it is *)
(* free again and again.  Nothing is assumed of the camera, the link or    *)
(* the application, nor that a heartbeat's write ever ends.                *)
Fairness ==
  /\ WF_vars(WorkerRuns) /\ SF_vars(TimesOut)
  /\ \A k \in Keepers :
       /\ WF_vars(KeeperQuits(k))
       /\ SF_vars(keeper[k] = "due" /\ (KeeperBeats(k) \/ KeeperDies(k)))

KeeperWritesEnd ==
  \A k \in Keepers : WF_vars(KeeperPosts(k) \/ KeeperDies(k))

FairSpec == Spec /\ Fairness

-----------------------------------------------------------------------------
(* Types.  Every variable beyond the channel's.                            *)
TypeOK ==
  /\ Ch!TypeOK
  /\ sess \in BOOLEAN /\ closing \in BOOLEAN
  /\ pc \in {"idle", "write", "scan", "wait", "poll", "join", "shut", "unset", "closed"}
  /\ call \in Requests \cup {NoRequest}
  /\ pending \in Seq(LensMessages)
  /\ mirror \in States /\ shown \in States
  /\ handle \in Keepers \cup {None}
  /\ stopping \subseteq Keepers
  /\ keeper \in [Keepers -> {"new", "asleep", "due", "writing", "done"}]
  /\ todo \subseteq Requests
  /\ got \subseteq LensMessages
  /\ replies \subseteq [request : Requests, answer : LensMessages]

(* No answer is lost or used twice once it is decrypted: each one has been *)
(* returned to one call, or sits in _pending, in one place (_read_enc,     *)
(* poll).                                                                  *)
AnswersConserved ==
  LET buffered  == {pending[i] : i \in 1..Len(pending)}
      delivered == {p.answer : p \in replies}
  IN /\ got = buffered \cup delivered
     /\ buffered \cap delivered = {}
     /\ Cardinality(buffered) = Len(pending)
     /\ Cardinality(delivered) = Cardinality(replies)

(* A call gets an answer of its own type, to itself or to an earlier call  *)
(* of that type, never to one that was still to come, and no call gets two *)
(* (_matches, _read_enc).                                                  *)
RepliesFit ==
  /\ \A p \in replies : /\ p.answer.type = p.request.type
                        /\ p.answer.seq <= p.request.seq
  /\ \A p, q \in replies : p.request = q.request => p = q

(* What request says it does: wait for its response (camera.py:247).       *)
AnswerIsOwn == \A p \in replies : p.answer.seq = p.request.seq

(* With no state entry on its way, the mirror is the camera's state,       *)
(* whichever call happened to read the entries and in whatever shape they  *)
(* came (_classify is called by every read loop).                          *)
MirrorIsFresh ==
  (linkUp /\ \A i \in 1..Len(toHost) : toHost[i].msg = Plain \/ toHost[i].msg.state = None)
    => mirror = shown

(* No keepalive thread is left running unknown to the Camera: it has the   *)
(* handle or has been told to stop (start_keepalive, stop_keepalive).      *)
NoStrayKeeper ==
  \A k \in Keepers :
    keeper[k] \in {"asleep", "due", "writing"} => k = handle \/ k \in stopping

(* The handle of a thread that has ended is left behind, and keeps a new   *)
(* one from being started (start_keepalive), only where no heartbeat could *)
(* be sent any more: the connection is lost or the counter is used up.     *)
KeepaliveLives ==
  (handle # None /\ keeper[handle] = "done" /\ handle \notin stopping)
    => ~alive \/ tx > CounterMax

(* Every call that has its frame in hand, or needs none, returns, whatever *)
(* the camera and the link do and even if a heartbeat's write hangs for    *)
(* ever: no read of it waits for ever, and neither does the join of        *)
(* stop_keepalive and close (_read_enc, poll, stop_keepalive).             *)
CallsReturn == (pc # "idle") ~> (pc \in {"idle", "closed"})

(* A keepalive thread told to stop ends, behind a lost link or a closed    *)
(* session as well, if no write hangs for ever.                            *)
StoppedKeepersEnd ==
  KeeperWritesEnd => \A k \in Keepers : (k \in stopping) ~> (keeper[k] = "done")
=============================================================================
