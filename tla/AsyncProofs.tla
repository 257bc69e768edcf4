---------------------------- MODULE AsyncProofs ----------------------------
(***************************************************************************)
(* Proofs about AsyncFacade, for any number of jobs and of connections.    *)
(***************************************************************************)
EXTENDS AsyncFacade, SequencesExt, SequenceTheorems, FiniteSetTheorems, TLAPS

CallPcs  == {"check", "seal", "write", "cmd", "put", "read", "select", "osread", "decrypt"}
ClosePcs == {"lower", "kill", "osclose", "closefd", "forget", "unsess"}
PoolPcs  ==
  {"look", "give", "take", "taken", "open", "resume", "store", "stored"}
EndPcs   == {"queued", "done", "gone"}
Ends     == {"none", "ok", "error", "own", "stray"}
Pcs      == CallPcs \cup ClosePcs \cup PoolPcs \cup EndPcs \cup {"none"}

JobRecords ==
  [kind : {"none", "connect", "close", "call", "aclose"}, on : Facades \cup {None},
   cam : Cameras \cup {None}, pc : Pcs, end : Ends,
   bare : BOOLEAN, awaited : BOOLEAN, beside : BOOLEAN]

CameraRecords == [sess : BOOLEAN, alive : BOOLEAN, fd : {"none", "open", "closed"}]

JobTypes   == jobs \in [Jobs -> JobRecords]
QueueTypes == queue \in [Facades -> Seq(Jobs)]
WrapTypes  == wraps \in [Facades -> Cameras \cup {None}]
NetTypes ==
  /\ managed \in Cameras \cup {None} /\ link \in Cameras \cup {None}
  /\ transport \in Cameras \cup {None} /\ lost \subseteq Cameras
  /\ cams \in [Cameras -> CameraRecords]
  /\ ready \in [Cameras -> BOOLEAN]
  /\ opened \in 0..CamerasMax

LEMMA Numbers ==
  /\ Facades = Jobs /\ None \notin Jobs /\ None \notin Cameras /\ None = 0
  /\ Jobs \subseteq Nat \ {0} /\ Cameras \subseteq Nat \ {0}
  /\ \A c \in 0..CamerasMax : c < CamerasMax => c + 1 \in Cameras
  /\ IsFiniteSet(Facades)
<1>1. 1 \in Int /\ JobsMax \in Int
  BY BoundAssumption
<1>2. IsFiniteSet(1..JobsMax)
  BY <1>1, FS_Interval
<1> QED
  BY <1>2, BoundAssumption DEF Jobs, Facades, Cameras, None

(* Which program a job is in, by its kind.                                 *)
KindOf(r) ==
  /\ r.kind = "none" <=> r.pc = "none"
  /\ r.kind \in {"call", "aclose"} <=> r.on # None
  /\ r.on # None => r.cam # None
  /\ r.kind = "call" => r.pc \in CallPcs \cup EndPcs
  /\ r.kind = "aclose" => r.pc \in ClosePcs \cup EndPcs
  /\ r.kind = "connect" => r.pc \in PoolPcs \cup ClosePcs \cup {"done", "gone"}
  /\ r.kind = "close" => r.pc \in {"take", "taken", "done", "gone"} \cup ClosePcs
  /\ r.pc \in CallPcs \cup ClosePcs \cup {"resume", "store", "stored"} => r.cam # None

KindInv == \A j \in Jobs : KindOf(jobs[j])

(* Only the manager closes a bare transport.                               *)
BareInv == \A j \in Jobs : jobs[j].bare => jobs[j].on = None

-----------------------------------------------------------------------------
(* What a step of a thread does to the jobs: its own moves, others may be  *)
(* noted as beside a close, and nothing else changes.                      *)
Alike(r, s) ==
  /\ s.kind = r.kind /\ s.on = r.on /\ s.cam = r.cam /\ s.pc = r.pc /\ s.end = r.end
  /\ s.bare = r.bare
  /\ r.beside => s.beside

Moves(j) ==
  /\ jobs' \in [Jobs -> JobRecords]
  /\ \A k \in Jobs : k # j => Alike(jobs[k], jobs'[k])
  /\ jobs'[j].kind = jobs[j].kind /\ jobs'[j].on = jobs[j].on
  /\ jobs[j].beside => jobs'[j].beside
  /\ jobs'[j].bare => jobs[j].bare \/ jobs[j].on = None

(* A step that gives one job another record of the same kind and executor. *)
LEMMA RecordMoves ==
  ASSUME JobTypes, NEW j \in Jobs, NEW r \in JobRecords, jobs' = [jobs EXCEPT ![j] = r],
         r.kind = jobs[j].kind, r.on = jobs[j].on, jobs[j].beside => r.beside,
         r.bare => jobs[j].bare \/ jobs[j].on = None
  PROVE  Moves(j) /\ jobs'[j] = r
<1>1. jobs'[j] = r /\ \A k \in Jobs : k # j => jobs'[k] = jobs[k]
  BY DEF JobTypes
<1>2. jobs' \in [Jobs -> JobRecords]
  BY DEF JobTypes
<1>3. \A k \in Jobs : k # j => Alike(jobs[k], jobs'[k])
  BY <1>1 DEF Alike
<1> HIDE DEF JobRecords, JobTypes
<1> QED
  BY <1>1, <1>2, <1>3 DEF Moves

Becomes(j, pc, end, cam) ==
  jobs' = [jobs EXCEPT ![j] = [jobs[j] EXCEPT !.pc = pc, !.end = end, !.cam = cam]]

LEMMA EndMoves ==
  ASSUME JobTypes, NEW j \in Jobs, NEW pc \in Pcs,
         NEW end \in Ends, NEW cam \in Cameras \cup {None},
         Becomes(j, pc, end, cam)
  PROVE  /\ Moves(j) /\ jobs'[j].pc = pc /\ jobs'[j].end = end /\ jobs'[j].cam = cam
         /\ jobs'[j].kind = jobs[j].kind /\ jobs'[j].on = jobs[j].on
         /\ jobs'[j].bare = jobs[j].bare
<1> DEFINE r == [jobs[j] EXCEPT !.pc = pc, !.end = end, !.cam = cam]
<1>0. jobs[j] \in JobRecords
  BY DEF JobTypes
<1>1. /\ r \in JobRecords /\ r.pc = pc /\ r.end = end /\ r.cam = cam
      /\ r.kind = jobs[j].kind /\ r.on = jobs[j].on /\ r.beside = jobs[j].beside
      /\ r.bare = jobs[j].bare
  BY <1>0 DEF JobRecords
<1>2. jobs' = [jobs EXCEPT ![j] = r]
  BY DEF Becomes
<1>3. (jobs[j].beside => r.beside) /\ (r.bare => jobs[j].bare)
  BY <1>1
<1> HIDE DEF r
<1> QED
  <2>1. Moves(j) /\ jobs'[j] = r
    BY <1>1, <1>2, <1>3, RecordMoves, Zenon
  <2> QED
    BY <1>1, <2>1

LEMMA StepMoves ==
  ASSUME JobTypes, NEW j \in Jobs, NEW pc \in Pcs, jobs' = [jobs EXCEPT ![j].pc = pc]
  PROVE  /\ Moves(j) /\ jobs'[j].pc = pc /\ jobs'[j].cam = jobs[j].cam /\ jobs'[j].end = jobs[j].end
         /\ jobs'[j].bare = jobs[j].bare
<1>1. jobs[j] \in JobRecords
  BY DEF JobTypes
<1>2. jobs[j].cam \in Cameras \cup {None} /\ jobs[j].end \in Ends
  BY <1>1 DEF JobRecords
<1>3. Becomes(j, pc, jobs[j].end, jobs[j].cam)
  BY <1>1 DEF JobTypes, JobRecords, Becomes
<1> QED
  BY <1>2, <1>3, EndMoves

LEMMA GotoMoves ==
  ASSUME JobTypes, NEW j \in Jobs, NEW pc \in Pcs, Goto(j, pc)
  PROVE  Moves(j) /\ jobs'[j].pc = pc /\ jobs'[j].cam = jobs[j].cam /\ jobs'[j].end = jobs[j].end
BY StepMoves DEF Goto

LEMMA FinishMoves ==
  ASSUME JobTypes, NEW j \in Jobs, NEW end \in Ends \ {"none"}, Finish(j, end)
  PROVE  Moves(j) /\ jobs'[j].pc = "done" /\ jobs'[j].cam = jobs[j].cam /\ jobs'[j].end = end
<1>1. jobs[j] \in JobRecords
  BY DEF JobTypes
<1>2. jobs[j].cam \in Cameras \cup {None}
  BY <1>1 DEF JobRecords
<1>3. jobs' = [jobs EXCEPT ![j] = [jobs[j] EXCEPT !.pc = "done", !.end = end]]
  BY <1>1 DEF Finish, JobTypes
<1>4. [jobs[j] EXCEPT !.pc = "done", !.end = end] =
        [jobs[j] EXCEPT !.pc = "done", !.end = end, !.cam = jobs[j].cam]
  BY <1>1 DEF JobRecords
<1>5. "done" \in Pcs /\ end \in Ends
  BY DEF Pcs, EndPcs, Ends
<1> QED
  <2>1. Becomes(j, "done", end, jobs[j].cam)
    BY <1>3, <1>4 DEF Becomes
  <2> QED
    BY <1>2, <1>5, <2>1, EndMoves

LEMMA CloseMoves ==
  ASSUME JobTypes, NEW j \in Jobs, NEW from, NEW to \in Pcs, CloseStep(j, from, to)
  PROVE  /\ Moves(j) /\ jobs[j].pc = from /\ jobs'[j].pc = to /\ jobs'[j].cam = jobs[j].cam
         /\ jobs'[j].end = (IF to = "done" THEN "ok" ELSE jobs[j].end)
         /\ \A k \in Jobs : k # j /\ Noted(j, k) => jobs'[k].beside
<1>1. jobs[j].pc = from /\ jobs' = [k \in Jobs |-> jobs'[k]]
  BY DEF CloseStep
<1>2. /\ jobs'[j] = [jobs[j] EXCEPT !.pc = to, !.end = IF to = "done" THEN "ok" ELSE @]
      /\ \A k \in Jobs : k # j => jobs'[k] = [jobs[k] EXCEPT !.beside = @ \/ Noted(j, k)]
  BY DEF CloseStep
<1>3. /\ jobs[j] \in JobRecords /\ \A k \in Jobs : jobs[k] \in JobRecords
  BY DEF JobTypes
<1>4. ASSUME NEW k \in Jobs, k # j
      PROVE  /\ jobs'[k] \in JobRecords /\ Alike(jobs[k], jobs'[k])
             /\ Noted(j, k) => jobs'[k].beside
  <2>1. jobs'[k] = [jobs[k] EXCEPT !.beside = jobs[k].beside \/ Noted(j, k)]
    BY <1>2, <1>4
  <2>2. (jobs[k].beside \/ Noted(j, k)) \in BOOLEAN
    OBVIOUS
  <2> QED
    BY <1>3, <2>1, <2>2 DEF JobRecords, Alike
<1>5. /\ jobs'[j] \in JobRecords /\ jobs'[j].pc = to /\ jobs'[j].cam = jobs[j].cam
      /\ jobs'[j].kind = jobs[j].kind /\ jobs'[j].on = jobs[j].on
      /\ jobs'[j].end = (IF to = "done" THEN "ok" ELSE jobs[j].end)
      /\ (jobs[j].beside => jobs'[j].beside) /\ jobs'[j].bare = jobs[j].bare
  BY <1>2, <1>3 DEF JobRecords, Ends
<1>6. jobs' \in [Jobs -> JobRecords]
  BY <1>1, <1>4, <1>5
<1> QED
  BY <1>1, <1>4, <1>5, <1>6 DEF Moves

LEMMA SetMineEffect ==
  ASSUME NetTypes, NEW j \in Jobs, jobs[j].cam \in Cameras
  PROVE  /\ SetMine(j, "alive", FALSE) =>
              cams' = [cams EXCEPT ![jobs[j].cam] = [cams[jobs[j].cam] EXCEPT !.alive = FALSE]]
         /\ SetMine(j, "sess", FALSE) =>
              cams' = [cams EXCEPT ![jobs[j].cam] = [cams[jobs[j].cam] EXCEPT !.sess = FALSE]]
         /\ SetMine(j, "sess", TRUE) =>
              cams' = [cams EXCEPT ![jobs[j].cam] = [cams[jobs[j].cam] EXCEPT !.sess = TRUE]]
         /\ \A v \in {"none", "closed"} : SetMine(j, "fd", v) =>
              cams' = [cams EXCEPT ![jobs[j].cam] = [cams[jobs[j].cam] EXCEPT !.fd = v]]
BY DEF NetTypes, CameraRecords, SetMine

(* A job that ends leaves the queue of its executor.                       *)
Requeues(j) ==
  \/ queue' = queue /\ (jobs'[j].pc = "done" => jobs[j].on = None)
  \/ /\ jobs'[j].pc = "done" /\ jobs[j].on # None
     /\ queue' = [queue EXCEPT ![jobs[j].on] = Without(queue[jobs[j].on], j)]

Advances(j) ==
  /\ Moves(j) /\ Running(j) /\ KindOf(jobs'[j])
  /\ jobs'[j].pc \notin {"none", "queued", "gone"}
  /\ UNCHANGED wraps
  /\ Requeues(j)

LEMMA GotoAdvances ==
  ASSUME JobTypes, KindInv, NEW j \in Jobs, NEW pc \in Pcs \ {"none", "queued", "gone", "done"},
         Goto(j, pc), Running(j), KindOf([jobs[j] EXCEPT !.pc = pc])
  PROVE  Advances(j)
<1>1. /\ Moves(j) /\ jobs'[j].pc = pc /\ jobs'[j].cam = jobs[j].cam
      /\ jobs'[j].kind = jobs[j].kind /\ jobs'[j].on = jobs[j].on
  BY GotoMoves DEF Moves
<1>2. KindOf(jobs'[j])
  BY <1>1 DEF KindOf, JobTypes, JobRecords
<1> QED
  BY <1>1, <1>2 DEF Advances, Requeues, Goto, loopVars

LEMMA FinishAdvances ==
  ASSUME JobTypes, KindInv, NEW j \in Jobs, NEW end \in Ends \ {"none"},
         Finish(j, end), Running(j)
  PROVE  Advances(j) /\ jobs'[j].pc = "done"
<1>1. /\ Moves(j) /\ jobs'[j].pc = "done" /\ jobs'[j].cam = jobs[j].cam
      /\ jobs'[j].kind = jobs[j].kind /\ jobs'[j].on = jobs[j].on
  BY FinishMoves DEF Moves
<1>2. KindOf(jobs'[j])
  BY <1>1 DEF KindInv, KindOf, Running, EndPcs, CallPcs, ClosePcs
<1>3. Requeues(j)
  BY <1>1 DEF Finish, Requeues
<1> QED
  BY <1>1, <1>2, <1>3 DEF Advances, Finish

LEMMA CallAdvances ==
  ASSUME JobTypes, KindInv, NEW j \in Jobs, Call(j)
  PROVE  Advances(j) /\ jobs[j].kind = "call"
<1>1. jobs[j].pc \in CallPcs /\ Running(j)
  BY DEF Call, Check, Encrypt, Refuses, Write, Cmd, Put, Read, Select, OsRead, Decrypt,
     CallPcs, Ends, Running
<1>2. jobs[j].kind = "call" /\ jobs[j].cam # None
  BY <1>1 DEF KindInv, KindOf, JobTypes, JobRecords, CallPcs, ClosePcs, PoolPcs, EndPcs
<1>3. ASSUME NEW pc \in CallPcs, Goto(j, pc) PROVE Advances(j)
  <2>1. KindOf([jobs[j] EXCEPT !.pc = pc])
    BY <1>2 DEF KindInv, KindOf, JobTypes, JobRecords, CallPcs, ClosePcs, PoolPcs, EndPcs
  <2>2. pc \in Pcs \ {"none", "queued", "gone", "done"}
    BY DEF Pcs, CallPcs
  <2> QED
    BY <1>1, <1>3, <2>1, <2>2, GotoAdvances
<1>4. ASSUME NEW end \in Ends \ {"none"}, Finish(j, end) PROVE Advances(j)
  BY <1>1, <1>4, FinishAdvances
<1>5. \/ \E pc \in CallPcs : Goto(j, pc)
      \/ \E end \in Ends \ {"none"} : Finish(j, end)
  BY DEF Call, Check, Encrypt, Refuses, Write, Cmd, Put, Read, Select, OsRead, Decrypt,
     CallPcs, Ends
<1> QED
  BY <1>2, <1>3, <1>4, <1>5

LEMMA CloseAdvances ==
  ASSUME JobTypes, KindInv, BareInv, NEW j \in Jobs, CloseCamera(j)
  PROVE  /\ Advances(j) /\ jobs[j].cam # None /\ jobs[j].kind \in {"aclose", "close", "connect"}
         /\ jobs'[j].cam = jobs[j].cam /\ jobs[j].pc \in ClosePcs
<1>1. jobs[j].pc \in ClosePcs /\ Running(j)
  BY DEF CloseCamera, Lower, Kill, FindFd, OsClose, OsCloseRaises, ForgetFd, ForgetSess,
     CloseStep, ClosePcs, Running
<1>2. jobs[j].kind \in {"aclose", "close", "connect"} /\ jobs[j].cam # None
  BY <1>1 DEF KindInv, KindOf, JobTypes, JobRecords, CallPcs, ClosePcs, PoolPcs, EndPcs
<1>3. ASSUME NEW to \in ClosePcs \cup {"open", "done"}, NEW from, CloseStep(j, from, to),
             to \in ClosePcs \/ to \in {Closed(j), Shut(j)}, Requeues(j), UNCHANGED wraps
      PROVE  Advances(j) /\ jobs'[j].cam = jobs[j].cam
  <2>1. to \in Pcs /\ to \notin {"none", "queued", "gone"}
    BY DEF Pcs, ClosePcs, PoolPcs, EndPcs
  <2>2. /\ Moves(j) /\ jobs'[j].pc = to /\ jobs'[j].cam = jobs[j].cam
        /\ jobs'[j].kind = jobs[j].kind /\ jobs'[j].on = jobs[j].on
    BY <1>3, <2>1, CloseMoves DEF Moves
  <2>3. KindOf(jobs'[j])
    <3>1. jobs[j].pc \in ClosePcs /\ KindOf(jobs[j])
      BY <1>1 DEF KindInv
    <3> QED
      BY <1>2, <1>3, <2>2, <3>1 DEF KindOf, Closed, Shut, ClosePcs, PoolPcs, EndPcs,
         CallPcs
  <2> QED
    BY <1>1, <1>3, <2>1, <2>2, <2>3 DEF Advances
<1>4. ASSUME NEW to \in ClosePcs, NEW from, CloseStep(j, from, to), UNCHANGED loopVars
      PROVE  Advances(j) /\ jobs'[j].cam = jobs[j].cam
  <2>1. jobs'[j].pc = to /\ to # "done"
    BY <1>4, CloseMoves DEF Pcs, ClosePcs
  <2> QED
    BY <1>3, <1>4, <2>1 DEF Requeues, loopVars
<1>5. CASE Lower(j) \/ Kill(j) \/ OsClose(j)
  BY <1>1, <1>2, <1>4, <1>5 DEF Lower, Kill, OsClose, ClosePcs
<1>8. CASE FindFd(j) \/ ForgetFd(j)
  <2>1. PICK from, to : /\ CloseStep(j, from, to) /\ UNCHANGED loopVars
                        /\ \/ to \in {"closefd", "unsess"}
                           \/ to = Shut(j) /\ jobs[j].bare
    BY <1>8 DEF FindFd, ForgetFd, Shut
  <2>2. CASE to \in {"closefd", "unsess"}
    BY <1>1, <1>2, <1>4, <2>1, <2>2 DEF ClosePcs
  <2>3. CASE to = Shut(j) /\ jobs[j].bare
    <3>1. jobs[j].on = None /\ Shut(j) \in {"open", "done"}
      BY <2>3 DEF BareInv, Shut, Closed
    <3> QED
      BY <1>1, <1>2, <1>3, <2>1, <2>3, <3>1 DEF Requeues, loopVars
  <2> QED
    BY <2>1, <2>2, <2>3
<1>6. CASE OsCloseRaises(j)
  <2>1. CASE jobs[j].kind = "aclose" \/ jobs[j].bare
    BY <1>1, <1>2, <1>6, <2>1, FinishAdvances, FinishMoves DEF OsCloseRaises, Ends
  <2>2. CASE ~(jobs[j].kind = "aclose" \/ jobs[j].bare)
    <3>1. CloseStep(j, "closefd", Closed(j)) /\ UNCHANGED loopVars /\ jobs[j].on = None
      BY <1>2, <1>6, <2>2 DEF OsCloseRaises, KindInv, KindOf
    <3> QED
      BY <1>1, <1>2, <1>3, <3>1 DEF Closed, Requeues, loopVars
  <2> QED
    BY <2>1, <2>2
<1>7. CASE ForgetSess(j)
  <2>1. CloseStep(j, "unsess", Closed(j)) /\ UNCHANGED wraps
    BY <1>7 DEF ForgetSess
  <2>2. jobs'[j].pc = Closed(j)
    BY <2>1, CloseMoves DEF Closed, Pcs, PoolPcs, EndPcs
  <2>3. Requeues(j)
    BY <1>2, <1>7, <2>2 DEF ForgetSess, Requeues, Closed, KindInv, KindOf
  <2> QED
    BY <1>1, <1>2, <1>3, <2>1, <2>3 DEF Closed
<1> QED
  BY <1>5, <1>6, <1>7, <1>8 DEF CloseCamera

(* close takes the transport out, and goes on with what it has got.        *)
LEMMA TransportTaken ==
  ASSUME JobTypes, KindInv, NetTypes, NEW j \in Jobs, TakeTransport(j)
  PROVE  /\ Moves(j) /\ jobs'[j].pc \in {"lower", "open", "done"}
         /\ jobs'[j].end \in {jobs[j].end, "ok"} /\ jobs'[j].cam \in {jobs[j].cam, transport}
         /\ jobs'[j].pc = "lower" => jobs'[j].cam # None
         /\ jobs'[j].pc = "open" => jobs[j].kind = "connect"
         /\ jobs[j].cam # None => jobs'[j].cam = jobs[j].cam /\ jobs'[j].pc = "lower"
<1>1. jobs[j] \in JobRecords /\ transport \in Cameras \cup {None} /\ KindOf(jobs[j])
  BY DEF JobTypes, NetTypes, KindInv
<1>2. jobs[j].pc = "taken" /\ jobs[j].on = None
  BY <1>1 DEF TakeTransport, KindOf, CallPcs, ClosePcs, EndPcs
<1>3. {"lower", "open", "done"} \subseteq Pcs /\ jobs[j].end \in Ends /\ "ok" \in Ends
  BY <1>1 DEF Pcs, ClosePcs, PoolPcs, EndPcs, Ends, JobRecords
<1>4. CASE jobs[j].cam # None
  <2>1. jobs' = [jobs EXCEPT ![j].pc = "lower"]
    BY <1>4 DEF TakeTransport, JobTypes, JobRecords
  <2> QED
    BY <1>3, <1>4, <2>1, StepMoves
<1>5. CASE jobs[j].cam = None /\ transport # None
  <2> DEFINE r == [jobs[j] EXCEPT !.pc = "lower", !.cam = transport, !.bare = TRUE]
  <2>1. jobs' = [jobs EXCEPT ![j] = r]
    BY <1>5 DEF TakeTransport, JobTypes, JobRecords
  <2>2. /\ r \in JobRecords /\ r.pc = "lower" /\ r.cam = transport /\ r.end = jobs[j].end
        /\ r.kind = jobs[j].kind /\ r.on = jobs[j].on /\ r.beside = jobs[j].beside
    BY <1>1, <1>3 DEF JobRecords
  <2> HIDE DEF r
  <2>3. jobs[j].beside => r.beside
    BY <2>2
  <2>4. Moves(j) /\ jobs'[j] = r
    BY <1>2, <2>1, <2>2, <2>3, RecordMoves, Zenon
  <2> QED
    BY <1>5, <2>2, <2>4
<1>6. CASE jobs[j].cam = None /\ transport = None /\ jobs[j].kind = "connect"
  <2>1. jobs' = [jobs EXCEPT ![j].pc = "open"]
    BY <1>6 DEF TakeTransport, JobTypes, JobRecords
  <2> QED
    BY <1>3, <1>6, <2>1, StepMoves
<1>7. CASE jobs[j].cam = None /\ transport = None /\ jobs[j].kind # "connect"
  <2>1. Becomes(j, "done", "ok", jobs[j].cam)
    BY <1>1, <1>7 DEF TakeTransport, JobTypes, JobRecords, Becomes
  <2>2. jobs[j].cam \in Cameras \cup {None}
    BY <1>1 DEF JobRecords
  <2> QED
    BY <1>3, <1>7, <2>1, <2>2, EndMoves
<1> QED
  BY <1>4, <1>5, <1>6, <1>7

LEMMA ManageAdvances ==
  ASSUME JobTypes, KindInv, NetTypes, NEW j \in Jobs, Manage(j)
  PROVE  Advances(j) /\ jobs[j].kind \in {"connect", "close"} /\ jobs[j].pc \in PoolPcs
<1>1. jobs[j].pc \in PoolPcs /\ Running(j)
  BY DEF Manage, Look, Give, TakeOut, TakeTransport, Open, OpenFails, Resumes,
     ResumeFails, ResumeRaises, StoreTransport, Store, PoolPcs, Running
<1>2. jobs[j].kind \in {"connect", "close"} /\ jobs[j].on = None
  BY <1>1 DEF KindInv, KindOf, JobTypes, JobRecords, CallPcs, ClosePcs, PoolPcs, EndPcs
<1>3. KindOf(jobs[j]) /\ jobs[j] \in JobRecords
  BY DEF KindInv, JobTypes
<1>4. CASE Look(j) \/ Resumes(j) \/ StoreTransport(j)
  <2>1. PICK pc \in {"give", "take", "store", "stored"} :
          /\ Goto(j, pc)
          /\ pc = "store" => jobs[j].pc = "resume"
          /\ pc = "stored" => jobs[j].pc = "store"
          /\ pc \in {"give", "take"} => jobs[j].pc = "look"
    BY <1>4 DEF Look, Resumes, StoreTransport
  <2>2. KindOf([jobs[j] EXCEPT !.pc = pc])
    BY <1>2, <1>3, <2>1 DEF KindOf, JobRecords, CallPcs, ClosePcs, PoolPcs, EndPcs
  <2>3. pc \in Pcs \ {"none", "queued", "gone", "done"}
    BY DEF Pcs, PoolPcs
  <2> QED
    BY <1>1, <1>2, <2>1, <2>2, <2>3, GotoAdvances
<1>5. CASE OpenFails(j) \/ ResumeFails(j) \/ ResumeRaises(j) \/ Store(j)
  BY <1>1, <1>2, <1>5, FinishAdvances DEF OpenFails, ResumeFails, ResumeRaises, Store,
     Ends
<1>7. CASE Give(j)
  <2>1. Becomes(j, "done", "ok", managed)
    BY <1>7 DEF Give, JobTypes, JobRecords, Becomes
  <2>4. "done" \in Pcs /\ "ok" \in Ends /\ managed \in Cameras \cup {None}
    BY DEF NetTypes, Pcs, EndPcs, Ends
  <2>2. /\ Moves(j) /\ jobs'[j].pc = "done" /\ jobs'[j].kind = jobs[j].kind
        /\ jobs'[j].on = jobs[j].on
    BY <2>1, <2>4, EndMoves
  <2>3. KindOf(jobs'[j])
    BY <1>2, <1>3, <2>2 DEF KindOf, CallPcs, ClosePcs, PoolPcs, EndPcs
  <2> QED
    BY <1>1, <1>2, <1>7, <2>2, <2>3 DEF Advances, Requeues, Give, loopVars
<1>8. CASE TakeOut(j)
  <2>1. "taken" \in Pcs /\ jobs[j].end \in Ends /\ managed \in Cameras \cup {None}
    BY <1>3 DEF JobRecords, Pcs, PoolPcs, NetTypes
  <2>2. Becomes(j, "taken", jobs[j].end, managed)
    BY <1>3, <1>8 DEF TakeOut, JobRecords, JobTypes, Becomes
  <2>3. /\ Moves(j) /\ jobs'[j].pc = "taken" /\ jobs'[j].kind = jobs[j].kind
        /\ jobs'[j].on = jobs[j].on
    BY <2>1, <2>2, EndMoves
  <2>4. KindOf(jobs'[j])
    BY <1>2, <1>3, <2>3 DEF KindOf, CallPcs, ClosePcs, PoolPcs, EndPcs
  <2> QED
    BY <1>1, <1>2, <1>8, <2>3, <2>4 DEF Advances, Requeues, TakeOut, loopVars
<1>10. CASE TakeTransport(j)
  <2>1. /\ Moves(j) /\ jobs'[j].pc \in {"lower", "open", "done"}
        /\ jobs'[j].pc = "lower" => jobs'[j].cam # None
        /\ jobs'[j].pc = "open" => jobs[j].kind = "connect"
    BY <1>10, TransportTaken
  <2>2. jobs'[j].kind = jobs[j].kind /\ jobs'[j].on = jobs[j].on
    BY <2>1 DEF Moves
  <2>3. KindOf(jobs'[j])
    BY <1>2, <2>1, <2>2 DEF KindOf, CallPcs, ClosePcs, PoolPcs, EndPcs
  <2> QED
    BY <1>1, <1>2, <1>10, <2>1, <2>3 DEF Advances, Requeues, TakeTransport, loopVars
<1>9. CASE Open(j)
  <2>1. /\ "resume" \in Pcs /\ jobs[j].end \in Ends
        /\ opened + 1 \in Cameras
    BY <1>3, <1>9, Numbers DEF Open, NetTypes, JobRecords, Pcs, PoolPcs
  <2>2. Becomes(j, "resume", jobs[j].end, opened + 1)
    BY <1>3, <1>9 DEF Open, JobRecords, JobTypes, Becomes
  <2>3. /\ Moves(j) /\ jobs'[j].pc = "resume" /\ jobs'[j].kind = jobs[j].kind
        /\ jobs'[j].on = jobs[j].on /\ jobs'[j].cam = opened + 1
    BY <2>1, <2>2, EndMoves
  <2>4. KindOf(jobs'[j])
    BY <1>2, <1>3, <1>9, <2>1, <2>3, Numbers
    DEF Open, KindOf, CallPcs, ClosePcs, PoolPcs, EndPcs
  <2> QED
    BY <1>1, <1>2, <1>9, <2>3, <2>4 DEF Advances, Requeues, Open, loopVars
<1> QED
  BY <1>1, <1>2, <1>4, <1>5, <1>7, <1>8, <1>9, <1>10 DEF Manage

-----------------------------------------------------------------------------
(* The queue of an executor holds its jobs, the running one first.         *)
QueueInv ==
  /\ \A f \in Facades : \A i \in 1..Len(queue[f]) : jobs[queue[f][i]].on = f
  /\ \A j \in Jobs : Running(j) /\ jobs[j].on # None =>
       1 \in 1..Len(queue[jobs[j].on]) /\ queue[jobs[j].on][1] = j
  /\ \A j \in Jobs : jobs[j].pc = "queued" /\ jobs[j].on # None =>
       \E i \in 1..Len(queue[jobs[j].on]) : queue[jobs[j].on][i] = j

Shortened(S, q, r, j) ==
  /\ r \in Seq(S) /\ Len(q) \in Nat /\ Len(r) = Len(q) - 1
  /\ \E i \in 1..Len(q) :
       /\ q[i] = j
       /\ \A k \in 1..(Len(q) - 1) : r[k] = IF k < i THEN q[k] ELSE q[k + 1]

(* RemoveAt, the del of a list.                                            *)
LEMMA Removal ==
  ASSUME NEW S, NEW q \in Seq(S), NEW i \in 1..Len(q)
  PROVE  /\ RemoveAt(q, i) \in Seq(S) /\ Len(q) \in Nat
         /\ Len(RemoveAt(q, i)) = Len(q) - 1
         /\ \A j \in 1..(Len(q) - 1) :
              RemoveAt(q, i)[j] = IF j < i THEN q[j] ELSE q[j + 1]
<1>1. Len(q) \in Nat /\ i \in Int /\ \A j \in 1..Len(q) : q[j] \in S
  BY LenProperties, ElementOfSeq
<1>2. /\ SubSeq(q, 1, i - 1) \in Seq(S) /\ Len(SubSeq(q, 1, i - 1)) = i - 1
      /\ \A j \in 1..(i - 1) : SubSeq(q, 1, i - 1)[j] = q[j]
  <2>1. 1 \in Int /\ i - 1 \in Int /\ \A j \in 1..(i - 1) : q[j] \in S
    BY <1>1
  <2>2. /\ SubSeq(q, 1, i - 1) \in Seq(S)
        /\ Len(SubSeq(q, 1, i - 1)) = IF 1 <= i - 1 THEN i - 1 - 1 + 1 ELSE 0
        /\ \A j \in 1..(i - 1 - 1 + 1) : SubSeq(q, 1, i - 1)[j] = q[1 + j - 1]
    BY ONLY <2>1, SubSeqProperties
  <2> QED
    BY <1>1, <2>2
<1>3. /\ SubSeq(q, i + 1, Len(q)) \in Seq(S) /\ Len(SubSeq(q, i + 1, Len(q))) = Len(q) - i
      /\ \A j \in 1..(Len(q) - i) : SubSeq(q, i + 1, Len(q))[j] = q[i + j]
  <2>1. i + 1 \in Int /\ Len(q) \in Int /\ \A j \in (i + 1)..Len(q) : q[j] \in S
    BY <1>1
  <2>2. /\ SubSeq(q, i + 1, Len(q)) \in Seq(S)
        /\ Len(SubSeq(q, i + 1, Len(q))) = IF i + 1 <= Len(q) THEN Len(q) - (i + 1) + 1 ELSE 0
        /\ \A j \in 1..(Len(q) - (i + 1) + 1) :
             SubSeq(q, i + 1, Len(q))[j] = q[(i + 1) + j - 1]
    BY ONLY <2>1, SubSeqProperties
  <2> QED
    BY <1>1, <2>2
<1> DEFINE a == SubSeq(q, 1, i - 1)
           b == SubSeq(q, i + 1, Len(q))
<1>4. /\ a \o b \in Seq(S) /\ Len(a \o b) = Len(a) + Len(b)
      /\ \A j \in 1..(Len(a) + Len(b)) :
           (a \o b)[j] = IF j <= Len(a) THEN a[j] ELSE b[j - Len(a)]
  BY <1>2, <1>3, ConcatProperties
<1>5. RemoveAt(q, i) = a \o b
  BY DEF RemoveAt
<1>6. /\ Len(a) = i - 1 /\ Len(b) = Len(q) - i
      /\ \A j \in 1..(i - 1) : a[j] = q[j]
      /\ \A j \in 1..(Len(q) - i) : b[j] = q[i + j]
  BY <1>2, <1>3
<1> HIDE DEF a, b
<1>7. ASSUME NEW j \in 1..(Len(q) - 1)
      PROVE  (a \o b)[j] = IF j < i THEN q[j] ELSE q[j + 1]
  <2>1. j \in 1..(Len(a) + Len(b))
    BY <1>1, <1>6
  <2>2. CASE j < i
    BY <1>1, <1>4, <1>6, <2>1, <2>2
  <2>3. CASE ~(j < i)
    <3>1. j - (i - 1) \in 1..(Len(q) - i) /\ i + (j - (i - 1)) = j + 1 /\ ~(j <= i - 1)
      BY <1>1, <2>3
    <3> QED
      BY <1>4, <1>6, <2>1, <2>3, <3>1
  <2> QED
    BY <2>2, <2>3
<1>8. Len(a) + Len(b) = Len(q) - 1
  BY <1>1, <1>6
<1> QED
  BY <1>1, <1>4, <1>5, <1>7, <1>8

LEMMA WithoutOne ==
  ASSUME NEW S, NEW q \in Seq(S), NEW j, \E i \in 1..Len(q) : q[i] = j
  PROVE  Shortened(S, q, Without(q, j), j)
<1> DEFINE i == CHOOSE i \in 1..Len(q) : q[i] = j
<1>1. i \in 1..Len(q) /\ q[i] = j
  OBVIOUS
<1>2. Without(q, j) = RemoveAt(q, i)
  BY DEF Without
<1> HIDE DEF i
<1> QED
  BY <1>1, <1>2, Removal DEF Shortened

(* A job leaves the queue of its executor.                                 *)
LeavesQueue(j) ==
  queue' = [queue EXCEPT ![jobs[j].on] = Without(queue[jobs[j].on], j)]

LEMMA Dequeued ==
  ASSUME JobTypes, QueueTypes, QueueInv, NEW j \in Jobs, jobs[j].on # None,
         \E i \in 1..Len(queue[jobs[j].on]) : queue[jobs[j].on][i] = j,
         LeavesQueue(j),
         \A k \in Jobs : jobs'[k].on = jobs[k].on,
         \A k \in Jobs : k # j => jobs'[k].pc = jobs[k].pc,
         jobs'[j].pc \in {"done", "gone"}
  PROVE  QueueTypes' /\ QueueInv'
<1> DEFINE f == jobs[j].on
           q == queue[f]
           r == queue'[f]
<1>1. f \in Facades /\ q \in Seq(Jobs)
  BY DEF JobTypes, JobRecords, QueueTypes
<1>2. r = Without(q, j) /\ \A g \in Facades : g # f => queue'[g] = queue[g]
  BY <1>1 DEF QueueTypes, LeavesQueue
<1>0. queue' = [g \in Facades |-> queue'[g]]
  BY DEF QueueTypes, LeavesQueue
<1> HIDE DEF q, r
<1>3. /\ r \in Seq(Jobs) /\ Len(q) \in Nat /\ Len(r) = Len(q) - 1
      /\ \E i \in 1..Len(q) :
           /\ q[i] = j
           /\ \A k \in 1..(Len(q) - 1) : r[k] = IF k < i THEN q[k] ELSE q[k + 1]
  <2>1. \E i \in 1..Len(q) : q[i] = j
    BY DEF q
  <2> QED
    <3>1. Shortened(Jobs, q, Without(q, j), j)
      BY <1>1, <2>1, WithoutOne
    <3> QED
      BY <1>2, <3>1 DEF Shortened
<1>4. PICK i \in 1..Len(q) : /\ q[i] = j
                             /\ \A k \in 1..(Len(q) - 1) : r[k] = IF k < i THEN q[k] ELSE q[k + 1]
  BY <1>3
<1>5. QueueTypes'
  <2>1. ASSUME NEW g \in Facades PROVE queue'[g] \in Seq(Jobs)
    BY <1>1, <1>2, <1>3 DEF QueueTypes, r
  <2> QED
    BY <1>0, <2>1 DEF QueueTypes
<1>6. \A k \in 1..Len(r) : \E n \in 1..Len(q) : r[k] = q[n]
  <2>1. ASSUME NEW k \in 1..Len(r) PROVE k \in 1..Len(q) /\ k + 1 \in 1..Len(q) /\ k \in 1..(Len(q) - 1)
    BY <1>3
  <2> QED
    BY <1>4, <2>1
<1>7. \A k \in Jobs : k # j /\ (\E n \in 1..Len(q) : q[n] = k) => \E n \in 1..Len(r) : r[n] = k
  <2>1. ASSUME NEW k \in Jobs, k # j, NEW n \in 1..Len(q), q[n] = k
        PROVE  \E m \in 1..Len(r) : r[m] = k
    <3>1. CASE n < i
      <4>1. n \in 1..Len(r) /\ n \in 1..(Len(q) - 1)
        BY <1>3, <3>1
      <4> QED
        BY <1>4, <2>1, <3>1, <4>1
    <3>2. CASE n > i
      <4>1. n - 1 \in 1..Len(r) /\ n - 1 \in 1..(Len(q) - 1) /\ ~(n - 1 < i) /\ (n - 1) + 1 = n
        BY <1>3, <3>2
      <4>2. r[n - 1] = q[n]
        BY <1>4, <4>1
      <4> QED
        BY <2>1, <4>1, <4>2
    <3> QED
      BY <1>3, <1>4, <2>1, <3>1, <3>2
  <2> QED
    BY <2>1
<1>8. \A k \in Jobs : k # j /\ 1 \in 1..Len(q) /\ q[1] = k => 1 \in 1..Len(r) /\ r[1] = k
  <2>1. ASSUME NEW k \in Jobs, k # j, q[1] = k PROVE 1 \in 1..Len(r) /\ r[1] = k
    <3>1. 1 < i
      BY <1>3, <1>4, <2>1
    <3>2. 1 \in 1..Len(r) /\ 1 \in 1..(Len(q) - 1)
      BY <1>3, <3>1
    <3> QED
      BY <1>4, <2>1, <3>1, <3>2
  <2> QED
    BY <2>1
<1>9. \A g \in Facades : \A k \in 1..Len(queue'[g]) : jobs'[queue'[g][k]].on = g
  <2>1. ASSUME NEW g \in Facades, NEW k \in 1..Len(queue'[g]) PROVE jobs'[queue'[g][k]].on = g
    <3>1. CASE g # f
      <4>1. queue[g][k] \in Jobs /\ queue'[g] = queue[g]
        BY <1>2, <2>1, <3>1, ElementOfSeq DEF QueueTypes
      <4> QED
        BY <2>1, <4>1 DEF QueueInv
    <3>2. CASE g = f
      <4>1. PICK n \in 1..Len(q) : r[k] = q[n]
        BY <1>6, <2>1, <3>2 DEF r
      <4>2. q[n] \in Jobs
        BY <1>1, ElementOfSeq
      <4>3. jobs[q[n]].on = f
        BY <1>1 DEF QueueInv, q
      <4> QED
        BY <3>2, <4>1, <4>2, <4>3 DEF r
    <3> QED
      BY <3>1, <3>2
  <2> QED
    BY <2>1
<1>10. ASSUME NEW k \in Jobs, jobs'[k].pc \notin {"done", "gone"}, jobs'[k].on # None
       PROVE  /\ k # j /\ jobs'[k].pc = jobs[k].pc /\ jobs'[k].on = jobs[k].on
              /\ jobs[k].on \in Facades
              /\ jobs[k].on # f => queue'[jobs[k].on] = queue[jobs[k].on]
  BY <1>2, <1>10 DEF JobTypes, JobRecords
<1> HIDE DEF f
<1>11. \A k \in Jobs : Running(k)' /\ jobs'[k].on # None =>
         1 \in 1..Len(queue'[jobs'[k].on]) /\ queue'[jobs'[k].on][1] = k
  <2> SUFFICES ASSUME NEW k \in Jobs, Running(k)', jobs'[k].on # None
               PROVE  1 \in 1..Len(queue'[jobs'[k].on]) /\ queue'[jobs'[k].on][1] = k
    OBVIOUS
  <2>1. /\ k # j /\ jobs'[k].on = jobs[k].on /\ Running(k)
        /\ jobs[k].on # f => queue'[jobs[k].on] = queue[jobs[k].on]
    BY <1>10 DEF Running
  <2>2. 1 \in 1..Len(queue[jobs[k].on]) /\ queue[jobs[k].on][1] = k
    BY <2>1 DEF QueueInv
  <2>3. CASE jobs[k].on = f
    BY <1>8, <2>1, <2>2, <2>3 DEF q, r
  <2>4. CASE jobs[k].on # f
    BY <2>1, <2>2, <2>4
  <2> QED
    BY <2>3, <2>4
<1>12. \A k \in Jobs : jobs'[k].pc = "queued" /\ jobs'[k].on # None =>
         \E n \in 1..Len(queue'[jobs'[k].on]) : queue'[jobs'[k].on][n] = k
  BY <1>7, <1>10 DEF QueueInv, q, r
<1> QED
  BY <1>5, <1>9, <1>11, <1>12 DEF QueueInv

-----------------------------------------------------------------------------
(* What the event loop does to the jobs: it submits a new one, or one that *)
(* is there goes a step on its way through the loop.                       *)
TypesInv == JobTypes /\ KindInv /\ BareInv /\ QueueTypes /\ QueueInv /\ WrapTypes /\ NetTypes

Enters(j, r) ==
  /\ jobs[j].kind = "none" /\ jobs' = [jobs EXCEPT ![j] = r]
  /\ r \in JobRecords /\ r.kind # "none" /\ KindOf(r) /\ r.end = "none"
  /\ r.bare = FALSE
  /\ UNCHANGED <<wraps, camVars>>
  /\ \/ r.on = None /\ r.cam = None /\ r.pc \in {"look", "take"} /\ queue' = queue
     \/ /\ r.on \in Facades /\ r.cam = wraps[r.on] /\ r.cam # None /\ r.pc = "queued"
        /\ queue' = [queue EXCEPT ![r.on] = Append(queue[r.on], j)]

LEMMA SubmitEnters ==
  ASSUME TypesInv, NEW f \in Facades, NEW kind \in {"call", "aclose"}, Submit(f, kind)
  PROVE  \E j \in Jobs, r \in JobRecords : Enters(j, r)
<1>1. PICK j \in Jobs :
        /\ Free(j) /\ wraps[f] # None
        /\ jobs' = [jobs EXCEPT ![j] = NewJob(kind, f, wraps[f], "queued")]
        /\ queue' = [queue EXCEPT ![f] = Append(queue[f], j)]
        /\ UNCHANGED <<wraps, camVars>>
  BY DEF Submit, TypesInv, QueueTypes
<1> DEFINE r == NewJob(kind, f, wraps[f], "queued")
<1>2. /\ r.kind = kind /\ r.on = f /\ r.cam = wraps[f] /\ r.pc = "queued" /\ r.end = "none"
      /\ r \in JobRecords /\ r.bare = FALSE
  BY DEF NewJob, TypesInv, WrapTypes, JobRecords, Pcs, EndPcs, Ends
<1>3. KindOf(r)
  BY <1>1, <1>2, Numbers DEF KindOf, CallPcs, ClosePcs, PoolPcs, EndPcs
<1>4. jobs[j].kind = "none"
  BY <1>1 DEF Free, Submitted
<1> HIDE DEF r
<1>5. jobs' = [jobs EXCEPT ![j] = r] /\ queue' = [queue EXCEPT ![r.on] = Append(queue[r.on], j)]
  BY <1>1, <1>2 DEF r
<1> QED
  BY <1>1, <1>2, <1>3, <1>4, <1>5 DEF Enters

LEMMA SubmitToPoolEnters ==
  ASSUME TypesInv, NEW kind \in {"connect", "close"}, SubmitToPool(kind)
  PROVE  \E j \in Jobs, r \in JobRecords : Enters(j, r)
<1>1. PICK j \in Jobs :
        /\ Free(j)
        /\ jobs' = [jobs EXCEPT ![j] =
                      NewJob(kind, None, None, IF kind = "connect" THEN "look" ELSE "take")]
        /\ UNCHANGED <<queue, wraps, camVars>>
  BY DEF SubmitToPool
<1> DEFINE r == NewJob(kind, None, None, IF kind = "connect" THEN "look" ELSE "take")
<1>2. /\ r.kind = kind /\ r.on = None /\ r.cam = None /\ r.end = "none"
      /\ r.pc = (IF kind = "connect" THEN "look" ELSE "take")
      /\ r \in JobRecords /\ r.bare = FALSE
  BY DEF NewJob, JobRecords, Pcs, PoolPcs, Ends
<1>3. KindOf(r)
  BY <1>2 DEF KindOf, CallPcs, ClosePcs, PoolPcs, EndPcs
<1>4. jobs[j].kind = "none"
  BY <1>1 DEF Free, Submitted
<1> HIDE DEF r
<1>5. jobs' = [jobs EXCEPT ![j] = r]
  BY <1>1 DEF r
<1> QED
  BY <1>1, <1>2, <1>3, <1>4, <1>5 DEF Enters

TakesTurn(j) ==
  /\ Moves(j) /\ jobs'[j].cam = jobs[j].cam /\ jobs'[j].end = jobs[j].end
  /\ jobs'[j].bare = jobs[j].bare
  /\ UNCHANGED camVars
  /\ \/ /\ jobs[j].pc = "queued" /\ jobs'[j].pc = "gone" /\ wraps' = wraps
        /\ queue' = [queue EXCEPT ![jobs[j].on] = Without(queue[jobs[j].on], j)]
     \/ jobs'[j].pc = jobs[j].pc /\ UNCHANGED <<queue, wraps>>
     \/ /\ jobs[j].pc = "done" /\ jobs'[j].pc = "gone" /\ queue' = queue
        /\ \/ wraps' = wraps
           \/ jobs[j].kind = "connect" /\ wraps' = [wraps EXCEPT ![j] = jobs[j].cam]
     \/ /\ jobs[j].pc = "queued" /\ UNCHANGED <<queue, wraps>>
        /\ jobs'[j].pc = (IF jobs[j].kind = "call" THEN "check" ELSE "lower")
        /\ 1 \in 1..Len(queue[jobs[j].on]) /\ queue[jobs[j].on][1] = j

LEMMA CancelTurns ==
  ASSUME TypesInv, NEW j \in Jobs, Cancel(j)
  PROVE  TakesTurn(j)
<1> USE DEF TypesInv
<1>1. CASE jobs[j].pc = "queued"
  <2>1. /\ jobs' = [jobs EXCEPT ![j].pc = "gone", ![j].awaited = FALSE]
        /\ queue' = [queue EXCEPT ![jobs[j].on] = Without(queue[jobs[j].on], j)]
        /\ UNCHANGED <<wraps, camVars>>
    BY <1>1 DEF Cancel, QueueTypes
  <2>2. jobs' = [jobs EXCEPT ![j] = [jobs[j] EXCEPT !.pc = "gone", !.awaited = FALSE]]
    BY <2>1 DEF JobTypes, JobRecords
  <2>3. /\ Moves(j) /\ jobs'[j].cam = jobs[j].cam /\ jobs'[j].end = jobs[j].end
        /\ jobs'[j].pc = "gone" /\ jobs'[j].bare = jobs[j].bare
    <3>1. jobs[j] \in JobRecords /\ "gone" \in Pcs
      BY DEF JobTypes, Pcs, EndPcs
    <3>2. /\ [jobs[j] EXCEPT !.pc = "gone", !.awaited = FALSE] \in JobRecords
          /\ jobs'[j] = [jobs[j] EXCEPT !.pc = "gone", !.awaited = FALSE]
      BY <2>2, <3>1 DEF JobTypes, JobRecords
    <3>3. /\ jobs'[j].cam = jobs[j].cam /\ jobs'[j].end = jobs[j].end /\ jobs'[j].pc = "gone"
          /\ jobs'[j].kind = jobs[j].kind /\ jobs'[j].on = jobs[j].on
          /\ jobs'[j].beside = jobs[j].beside /\ jobs'[j].bare = jobs[j].bare
      BY <3>1, <3>2 DEF JobRecords
    <3>4. \A k \in Jobs : k # j => jobs'[k] = jobs[k]
      BY <2>2 DEF JobTypes
    <3>5. jobs' \in [Jobs -> JobRecords]
      BY <2>2, <3>2 DEF JobTypes
    <3> QED
      BY <3>3, <3>4, <3>5 DEF Moves, Alike
  <2> QED
    BY <1>1, <2>1, <2>3 DEF TakesTurn
<1>2. CASE jobs[j].pc # "queued"
  <2>1. jobs' = [jobs EXCEPT ![j].awaited = FALSE] /\ UNCHANGED <<queue, wraps, camVars>>
    BY <1>2 DEF Cancel
  <2>2. /\ Moves(j) /\ jobs'[j].cam = jobs[j].cam /\ jobs'[j].end = jobs[j].end
        /\ jobs'[j].pc = jobs[j].pc /\ jobs'[j].bare = jobs[j].bare
    <3> DEFINE r == [jobs[j] EXCEPT !.awaited = FALSE]
    <3>1. jobs[j] \in JobRecords
      BY DEF JobTypes
    <3>2. /\ r \in JobRecords /\ r.pc = jobs[j].pc /\ r.end = jobs[j].end
          /\ r.cam = jobs[j].cam /\ r.kind = jobs[j].kind /\ r.on = jobs[j].on
          /\ r.beside = jobs[j].beside /\ r.bare = jobs[j].bare
      BY <3>1 DEF JobRecords
    <3>3. /\ jobs' = [jobs EXCEPT ![j] = r]
          /\ (jobs[j].beside => r.beside) /\ (r.bare => jobs[j].bare)
      BY <2>1, <3>2
    <3> HIDE DEF r
    <3>4. Moves(j) /\ jobs'[j] = r
      BY <3>2, <3>3, RecordMoves, Zenon
    <3> QED
      BY <3>2, <3>4
  <2> QED
    BY <2>1, <2>2 DEF TakesTurn
<1> QED
  BY <1>1, <1>2

LEMMA ResumeTurns ==
  ASSUME TypesInv, NEW j \in Jobs, Resume(j)
  PROVE  TakesTurn(j)
<1>1. /\ jobs[j].pc = "done" /\ jobs' = [jobs EXCEPT ![j].pc = "gone"]
      /\ UNCHANGED <<queue, camVars>>
      /\ \/ wraps' = wraps
         \/ jobs[j].kind = "connect" /\ wraps' = [wraps EXCEPT ![j] = jobs[j].cam]
  BY DEF Resume
<1>2. /\ Moves(j) /\ jobs'[j].cam = jobs[j].cam /\ jobs'[j].end = jobs[j].end
      /\ jobs'[j].pc = "gone" /\ jobs'[j].bare = jobs[j].bare
  BY <1>1, StepMoves DEF TypesInv, Pcs, EndPcs
<1> QED
  BY <1>1, <1>2 DEF TakesTurn

LEMMA TakeTurns ==
  ASSUME TypesInv, NEW f \in Facades, Take(f)
  PROVE  \E j \in Jobs : TakesTurn(j)
<1> USE DEF TypesInv
<1>1. queue[f] \in Seq(Jobs) /\ queue[f] # << >> /\ Begin(f, Head(queue[f]))
  BY DEF Take, QueueTypes
<1>2. 1 \in 1..Len(queue[f]) /\ Head(queue[f]) = queue[f][1] /\ queue[f][1] \in Jobs
  <2>1. Len(queue[f]) \in Nat /\ Len(queue[f]) # 0
    BY <1>1, LenProperties, EmptySeq
  <2>2. 1 \in 1..Len(queue[f])
    BY <2>1
  <2> QED
    BY <1>1, <2>2, HeadTailProperties, ElementOfSeq
<1> DEFINE j == queue[f][1]
<1>3. jobs[j].on = f
  BY <1>2 DEF QueueInv
<1> HIDE DEF j
<1>4. /\ j \in Jobs /\ jobs[j].pc = "queued" /\ UNCHANGED <<queue, wraps, camVars>>
      /\ jobs' = [jobs EXCEPT ![j].pc = IF jobs[j].kind = "call" THEN "check" ELSE "lower"]
  BY <1>1, <1>2 DEF j, Begin, loopVars
<1>5. /\ Moves(j) /\ jobs'[j].cam = jobs[j].cam /\ jobs'[j].end = jobs[j].end
      /\ jobs'[j].bare = jobs[j].bare
      /\ jobs'[j].pc = (IF jobs[j].kind = "call" THEN "check" ELSE "lower")
  <2>1. (IF jobs[j].kind = "call" THEN "check" ELSE "lower") \in Pcs
    BY DEF Pcs, CallPcs, ClosePcs
  <2> QED
    BY <1>4, <2>1, StepMoves
<1>6. 1 \in 1..Len(queue[jobs[j].on]) /\ queue[jobs[j].on][1] = j
  BY <1>2, <1>3 DEF j
<1> QED
  BY <1>4, <1>5, <1>6 DEF TakesTurn

(* All steps there are.                                                    *)
LEMMA Steps ==
  ASSUME TypesInv, [Next]_vars
  PROVE  \/ \E j \in Jobs : Work(j) /\ Advances(j)
         \/ \E j \in Jobs, r \in JobRecords : Enters(j, r)
         \/ \E j \in Jobs : TakesTurn(j)
         \/ /\ UNCHANGED <<jobs, queue, wraps, managed, cams, transport, lost, opened>>
            /\ LinkDrops \/ OutputArrives \/ UNCHANGED <<link, ready>>
<1>1. CASE \E f \in Facades : Submit(f, "call") \/ Submit(f, "aclose")
  BY <1>1, SubmitEnters
<1>2. CASE SubmitToPool("connect") \/ SubmitToPool("close")
  BY <1>2, SubmitToPoolEnters
<1>3. CASE \E f \in Facades : Take(f)
  BY <1>3, TakeTurns
<1>4. CASE \E j \in Jobs : Cancel(j) \/ Resume(j)
  BY <1>4, CancelTurns, ResumeTurns
<1>5. CASE \E j \in Jobs : Work(j)
  BY <1>5, CallAdvances, CloseAdvances, ManageAdvances DEF Work, TypesInv
<1>6. CASE LinkDrops \/ OutputArrives
  BY <1>6 DEF LinkDrops, OutputArrives, loopVars
<1>7. CASE UNCHANGED vars
  BY <1>7 DEF vars, loopVars, camVars, netVars
<1> QED
  BY <1>1, <1>2, <1>3, <1>4, <1>5, <1>6, <1>7 DEF Next

LEMMA KindsKept ==
  ASSUME TypesInv, [Next]_vars
  PROVE  JobTypes' /\ KindInv' /\ WrapTypes'
<1> USE DEF TypesInv
<1>1. ASSUME NEW j \in Jobs, Moves(j), KindOf(jobs'[j]) PROVE JobTypes' /\ KindInv'
  <2>1. \A k \in Jobs : k # j => Alike(jobs[k], jobs'[k])
    BY <1>1 DEF Moves
  <2>2. \A k \in Jobs : KindOf(jobs'[k])
    BY <1>1, <2>1 DEF KindInv, KindOf, Alike
  <2> QED
    BY <1>1, <2>2 DEF Moves, JobTypes, KindInv
<1>2. CASE \E j \in Jobs : Work(j) /\ Advances(j)
  BY <1>1, <1>2 DEF Advances, WrapTypes
<1>3. CASE \E j \in Jobs, r \in JobRecords : Enters(j, r)
  <2>1. PICK j \in Jobs, r \in JobRecords : Enters(j, r)
    BY <1>3
  <2>2. /\ jobs' = [jobs EXCEPT ![j] = r] /\ KindOf(r) /\ wraps' = wraps
    BY <2>1 DEF Enters
  <2> QED
    BY <2>2 DEF JobTypes, KindInv, WrapTypes
<1>4. CASE \E j \in Jobs : TakesTurn(j)
  <2>1. PICK j \in Jobs : TakesTurn(j)
    BY <1>4
  <2>2. /\ Moves(j) /\ jobs'[j].cam = jobs[j].cam
        /\ jobs'[j].kind = jobs[j].kind /\ jobs'[j].on = jobs[j].on
    BY <2>1 DEF TakesTurn, Moves
  <2>3. KindOf(jobs[j])
    BY DEF KindInv
  <2>4. \/ jobs[j].pc \in {"queued", "done"} /\ jobs'[j].pc = "gone"
        \/ jobs'[j].pc = jobs[j].pc
        \/ /\ jobs[j].pc = "queued"
           /\ jobs'[j].pc = (IF jobs[j].kind = "call" THEN "check" ELSE "lower")
    BY <2>1 DEF TakesTurn
  <2>5. jobs[j].pc = "queued" => jobs[j].kind \in {"call", "aclose"}
    BY <2>3 DEF KindOf, CallPcs, ClosePcs, PoolPcs, EndPcs, JobTypes, JobRecords
  <2>6. KindOf(jobs'[j])
    BY <2>2, <2>3, <2>4, <2>5 DEF KindOf, CallPcs, ClosePcs, PoolPcs, EndPcs
  <2>7. WrapTypes'
    BY <2>1 DEF TakesTurn, WrapTypes, JobTypes, JobRecords
  <2> QED
    BY <1>1, <2>2, <2>6, <2>7
<1>5. CASE UNCHANGED <<jobs, wraps>>
  BY <1>5 DEF JobTypes, KindInv, WrapTypes
<1> QED
  BY <1>2, <1>3, <1>4, <1>5, Steps

LEMMA BareKept ==
  ASSUME TypesInv, [Next]_vars
  PROVE  BareInv'
<1> USE DEF TypesInv
<1>1. ASSUME NEW j \in Jobs, Moves(j) PROVE BareInv'
  <2>1. ASSUME NEW k \in Jobs, jobs'[k].bare PROVE jobs'[k].on = None
    <3>1. CASE k = j
      BY <1>1, <2>1, <3>1 DEF Moves, BareInv
    <3>2. CASE k # j
      BY <1>1, <2>1, <3>2 DEF Moves, Alike, BareInv
    <3> QED
      BY <3>1, <3>2
  <2> QED
    BY <2>1 DEF BareInv
<1>2. CASE \E j \in Jobs, r \in JobRecords : Enters(j, r)
  BY <1>2 DEF Enters, BareInv, JobTypes
<1>3. CASE UNCHANGED jobs
  BY <1>3 DEF BareInv
<1> QED
  BY <1>1, <1>2, <1>3, Steps DEF Advances, TakesTurn

LEMMA QueuesStay ==
  ASSUME JobTypes, KindInv, QueueTypes, QueueInv, NEW j \in Jobs, Moves(j), queue' = queue,
         jobs'[j].pc = "queued" => jobs[j].pc = "queued",
         \/ Running(j) \/ ~Running(j)' \/ jobs[j].on = None
         \/ 1 \in 1..Len(queue[jobs[j].on]) /\ queue[jobs[j].on][1] = j
  PROVE  QueueTypes' /\ QueueInv'
<1>1. /\ \A k \in Jobs : jobs'[k].on = jobs[k].on
      /\ \A k \in Jobs : k # j => jobs'[k].pc = jobs[k].pc
  BY DEF Moves, Alike
<1>2. QueueTypes'
  BY DEF QueueTypes
<1>3. \A f \in Facades : \A i \in 1..Len(queue'[f]) : jobs'[queue'[f][i]].on = f
  <2>1. ASSUME NEW f \in Facades, NEW i \in 1..Len(queue[f]) PROVE jobs'[queue[f][i]].on = f
    BY <1>1, ElementOfSeq DEF QueueTypes, QueueInv
  <2> QED
    BY <2>1
<1>4. \A k \in Jobs : Running(k)' /\ jobs'[k].on # None =>
        1 \in 1..Len(queue'[jobs'[k].on]) /\ queue'[jobs'[k].on][1] = k
  BY <1>1 DEF QueueInv, Running
<1>5. \A k \in Jobs : jobs'[k].pc = "queued" /\ jobs'[k].on # None =>
        \E i \in 1..Len(queue'[jobs'[k].on]) : queue'[jobs'[k].on][i] = k
  BY <1>1 DEF QueueInv
<1> QED
  BY <1>2, <1>3, <1>4, <1>5 DEF QueueInv

LEMMA QueuesGrow ==
  ASSUME TypesInv, NEW j \in Jobs, NEW r \in JobRecords, Enters(j, r)
  PROVE  QueueTypes' /\ QueueInv'
<1> USE DEF TypesInv
<1>1. jobs[j].on = None /\ jobs' = [jobs EXCEPT ![j] = r] /\ jobs \in [Jobs -> JobRecords]
  BY DEF Enters, KindInv, KindOf, JobTypes
<1>2. jobs'[j] = r /\ \A k \in Jobs : k # j => jobs'[k] = jobs[k]
  BY <1>1
<1>3. \A f \in Facades : \A i \in 1..Len(queue[f]) :
        /\ queue[f][i] \in Jobs /\ queue[f][i] # j /\ jobs'[queue[f][i]].on = f
  <2>1. ASSUME NEW f \in Facades, NEW i \in 1..Len(queue[f])
        PROVE  /\ queue[f][i] \in Jobs /\ queue[f][i] # j /\ jobs'[queue[f][i]].on = f
    <3>1. queue[f][i] \in Jobs /\ jobs[queue[f][i]].on = f /\ f # None
      BY ElementOfSeq, Numbers DEF QueueTypes, QueueInv
    <3> QED
      BY <1>1, <1>2, <3>1
  <2> QED
    BY <2>1
<1>4. CASE r.on = None /\ queue' = queue
  <2>1. QueueTypes' /\ \A f \in Facades : \A i \in 1..Len(queue'[f]) : jobs'[queue'[f][i]].on = f
    BY <1>3, <1>4 DEF QueueTypes
  <2>2. \A k \in Jobs : jobs'[k].on # None => k # j /\ jobs'[k] = jobs[k]
    BY <1>2, <1>4
  <2>3. \A k \in Jobs : Running(k)' /\ jobs'[k].on # None =>
          1 \in 1..Len(queue'[jobs'[k].on]) /\ queue'[jobs'[k].on][1] = k
    BY <1>4, <2>2 DEF QueueInv, Running
  <2>4. \A k \in Jobs : jobs'[k].pc = "queued" /\ jobs'[k].on # None =>
          \E i \in 1..Len(queue'[jobs'[k].on]) : queue'[jobs'[k].on][i] = k
    BY <1>4, <2>2 DEF QueueInv
  <2> QED
    BY <2>1, <2>3, <2>4 DEF QueueInv
<1>5. CASE /\ r.on \in Facades /\ r.pc = "queued"
           /\ queue' = [queue EXCEPT ![r.on] = Append(queue[r.on], j)]
  <2> DEFINE f == r.on
             q == queue[f]
             s == queue'[f]
  <2>1. q \in Seq(Jobs) /\ s = Append(q, j) /\ \A g \in Facades : g # f => queue'[g] = queue[g]
    BY <1>5 DEF QueueTypes
  <2>2. f \in Facades
    BY <1>5
  <2> HIDE DEF q, s
  <2>3. /\ s \in Seq(Jobs) /\ Len(q) \in Nat /\ Len(s) = Len(q) + 1 /\ s[Len(q) + 1] = j
        /\ \A i \in 1..Len(q) : s[i] = q[i]
    BY <2>1, AppendProperties, LenProperties
  <2>4. /\ Len(s) \in 1..Len(s) /\ s[Len(s)] = j
        /\ \A i \in 1..Len(q) : i \in 1..Len(s)
        /\ \A i \in 1..Len(s) : i \in 1..Len(q) \/ i = Len(s)
    BY <2>3
  <2>5. QueueTypes'
    BY <1>5, <2>1, <2>3 DEF QueueTypes, s
  <2>6. \A g \in Facades : \A i \in 1..Len(queue'[g]) : jobs'[queue'[g][i]].on = g
    <3>1. ASSUME NEW g \in Facades, NEW i \in 1..Len(queue'[g]) PROVE jobs'[queue'[g][i]].on = g
      <4>1. CASE g # f
        BY <1>3, <2>1, <3>1, <4>1
      <4>2. CASE g = f /\ i \in 1..Len(q)
        BY <1>3, <2>2, <2>3, <4>2 DEF q, s
      <4>3. CASE g = f /\ i = Len(s)
        BY <1>2, <2>4, <4>3 DEF s
      <4> QED
        BY <2>4, <3>1, <4>1, <4>2, <4>3 DEF s
    <3> QED
      BY <3>1
  <2> HIDE DEF f
  <2>7. \A k \in Jobs : k # j /\ jobs'[k].on # None => jobs'[k] = jobs[k] /\ jobs[k].on \in Facades
    BY <1>2 DEF JobTypes, JobRecords
  <2>8. \A k \in Jobs : Running(k)' /\ jobs'[k].on # None =>
          1 \in 1..Len(queue'[jobs'[k].on]) /\ queue'[jobs'[k].on][1] = k
    <3>1. ASSUME NEW k \in Jobs, Running(k)', jobs'[k].on # None
          PROVE  1 \in 1..Len(queue'[jobs'[k].on]) /\ queue'[jobs'[k].on][1] = k
      <4>1. k # j /\ Running(k) /\ jobs'[k].on = jobs[k].on /\ jobs[k].on \in Facades
        <5>1. k # j
          BY <1>2, <1>5, <3>1 DEF Running
        <5> QED
          BY <2>7, <3>1, <5>1 DEF Running
      <4>2. 1 \in 1..Len(queue[jobs[k].on]) /\ queue[jobs[k].on][1] = k
        BY <3>1, <4>1 DEF QueueInv
      <4>3. CASE jobs[k].on # f
        BY <2>1, <4>1, <4>2, <4>3
      <4>4. CASE jobs[k].on = f
        BY <2>3, <2>4, <4>1, <4>2, <4>4 DEF q, s
      <4> QED
        BY <4>3, <4>4
    <3> QED
      BY <3>1
  <2>9. \A k \in Jobs : jobs'[k].pc = "queued" /\ jobs'[k].on # None =>
          \E i \in 1..Len(queue'[jobs'[k].on]) : queue'[jobs'[k].on][i] = k
    <3>1. ASSUME NEW k \in Jobs, jobs'[k].pc = "queued", jobs'[k].on # None
          PROVE  \E i \in 1..Len(queue'[jobs'[k].on]) : queue'[jobs'[k].on][i] = k
      <4>1. CASE k = j
        BY <1>2, <2>4, <4>1 DEF f, s
      <4>2. CASE k # j
        <5>1. jobs'[k].on = jobs[k].on /\ jobs[k].on \in Facades /\ jobs[k].pc = "queued"
          BY <2>7, <3>1, <4>2
        <5>2. PICK i \in 1..Len(queue[jobs[k].on]) : queue[jobs[k].on][i] = k
          BY <3>1, <5>1 DEF QueueInv
        <5>3. CASE jobs[k].on # f
          BY <2>1, <5>1, <5>2, <5>3
        <5>4. CASE jobs[k].on = f
          BY <2>3, <2>4, <5>1, <5>2, <5>4 DEF q, s
        <5> QED
          BY <5>3, <5>4
      <4> QED
        BY <4>1, <4>2
    <3> QED
      BY <3>1
  <2> QED
    BY <2>5, <2>6, <2>8, <2>9 DEF QueueInv
<1> QED
  BY <1>4, <1>5 DEF Enters

LEMMA QueuesKept ==
  ASSUME TypesInv, [Next]_vars
  PROVE  QueueTypes' /\ QueueInv'
<1> USE DEF TypesInv
<1>1. CASE \E j \in Jobs : Work(j) /\ Advances(j)
  <2>1. PICK j \in Jobs : Advances(j)
    BY <1>1
  <2>2. /\ \A k \in Jobs : jobs'[k].on = jobs[k].on
        /\ \A k \in Jobs : k # j => jobs'[k].pc = jobs[k].pc
    BY <2>1 DEF Advances, Moves, Alike
  <2>3. CASE queue' = queue
    BY <2>1, <2>3, QueuesStay DEF Advances
  <2>4. CASE /\ jobs'[j].pc = "done" /\ jobs[j].on # None
             /\ queue' = [queue EXCEPT ![jobs[j].on] = Without(queue[jobs[j].on], j)]
    <3>1. \E i \in 1..Len(queue[jobs[j].on]) : queue[jobs[j].on][i] = j
      BY <2>1, <2>4 DEF Advances, QueueInv
    <3> QED
      BY <2>2, <2>4, <3>1, Dequeued DEF LeavesQueue
  <2> QED
    BY <2>1, <2>3, <2>4 DEF Advances, Requeues
<1>2. CASE \E j \in Jobs, r \in JobRecords : Enters(j, r)
  BY <1>2, QueuesGrow
<1>3. CASE \E j \in Jobs : TakesTurn(j)
  <2>1. PICK j \in Jobs : TakesTurn(j)
    BY <1>3
  <2>2. /\ \A k \in Jobs : jobs'[k].on = jobs[k].on
        /\ \A k \in Jobs : k # j => jobs'[k].pc = jobs[k].pc
    BY <2>1 DEF TakesTurn, Moves, Alike
  <2>3. CASE queue' = queue
    <3>1. Moves(j) /\ (jobs'[j].pc = "queued" => jobs[j].pc = "queued")
      BY <2>1 DEF TakesTurn
    <3>2. \/ Running(j) \/ ~Running(j)'
          \/ 1 \in 1..Len(queue[jobs[j].on]) /\ queue[jobs[j].on][1] = j
      BY <2>1 DEF TakesTurn, Running
    <3> QED
      BY <2>3, <3>1, <3>2, QueuesStay
  <2>4. CASE /\ jobs[j].pc = "queued" /\ jobs'[j].pc = "gone"
             /\ queue' = [queue EXCEPT ![jobs[j].on] = Without(queue[jobs[j].on], j)]
    <3>1. jobs[j].on # None
      BY <2>4 DEF KindInv, KindOf, CallPcs, ClosePcs, PoolPcs, EndPcs, JobTypes,
         JobRecords
    <3>2. \E i \in 1..Len(queue[jobs[j].on]) : queue[jobs[j].on][i] = j
      BY <2>4, <3>1 DEF QueueInv
    <3> QED
      BY <2>2, <2>4, <3>1, <3>2, Dequeued DEF LeavesQueue
  <2> QED
    BY <2>1, <2>3, <2>4 DEF TakesTurn
<1>4. CASE UNCHANGED <<jobs, queue>>
  BY <1>4 DEF QueueTypes, QueueInv, Running
<1> QED
  BY <1>1, <1>2, <1>3, <1>4, Steps

LEMMA RecordsKept ==
  ASSUME NEW r \in CameraRecords
  PROVE  /\ \A b \in BOOLEAN : /\ [r EXCEPT !.alive = b] \in CameraRecords
                             /\ [r EXCEPT !.sess = b] \in CameraRecords
         /\ \A v \in {"none", "closed"} : [r EXCEPT !.fd = v] \in CameraRecords
BY DEF CameraRecords

LEMMA NetsKept ==
  ASSUME TypesInv, [Next]_vars
  PROVE  NetTypes'
<1> USE DEF TypesInv
<1>1. ASSUME NEW j \in Jobs, Call(j) PROVE NetTypes'
  <2>1. jobs[j].cam \in Cameras
    <3>1. jobs[j].kind = "call" /\ jobs[j] \in JobRecords /\ KindOf(jobs[j])
      BY <1>1, CallAdvances DEF JobTypes, KindInv
    <3> QED
      BY <3>1 DEF KindOf, JobRecords
  <2> DEFINE c == jobs[j].cam
  <2>2. cams[c] \in CameraRecords
    BY <2>1 DEF NetTypes
  <2>3. /\ UNCHANGED <<managed, transport, lost, opened, link>>
        /\ \/ cams' = cams
           \/ cams' = [cams EXCEPT ![c].alive = FALSE]
        /\ \/ ready' = ready
           \/ ready' = [ready EXCEPT ![c] = FALSE]
    BY <1>1 DEF Call, Check, Encrypt, Refuses, Write, Cmd, Put, Read, Select, OsRead,
       Decrypt, camVars, netVars
  <2>4. cams' \in [Cameras -> CameraRecords]
    <3>1. cams' = cams \/ cams' = [cams EXCEPT ![c] = [cams[c] EXCEPT !.alive = FALSE]]
      BY <2>1, <2>3 DEF NetTypes, CameraRecords
    <3> QED
      BY <2>1, <2>2, <3>1, RecordsKept DEF NetTypes
  <2>5. ready' \in [Cameras -> BOOLEAN]
    BY <2>1, <2>3 DEF NetTypes
  <2> QED
    BY <2>3, <2>4, <2>5 DEF NetTypes
<1>2. ASSUME NEW j \in Jobs, CloseCamera(j) PROVE NetTypes'
  <2>1. jobs[j].cam \in Cameras
    BY <1>2, CloseAdvances DEF JobTypes, JobRecords
  <2> DEFINE c == jobs[j].cam
  <2>2. cams[c] \in CameraRecords
    BY <2>1 DEF NetTypes
  <2>3. /\ UNCHANGED <<managed, transport, lost, opened>>
        /\ \/ cams' = cams
           \/ SetMine(j, "alive", FALSE)
           \/ SetMine(j, "sess", FALSE)
           \/ \E v \in {"none", "closed"} : SetMine(j, "fd", v)
        /\ ready' = ready \/ ready' = [ready EXCEPT ![c] = TRUE]
        /\ link' = link \/ link' = None
    BY <1>2 DEF CloseCamera, Lower, Kill, FindFd, OsClose, OsCloseRaises, ForgetFd,
       ForgetSess, camVars, netVars
  <2>4. cams' \in [Cameras -> CameraRecords]
    <3>1. \/ cams' = cams
          \/ cams' = [cams EXCEPT ![c] = [cams[c] EXCEPT !.alive = FALSE]]
          \/ cams' = [cams EXCEPT ![c] = [cams[c] EXCEPT !.sess = FALSE]]
          \/ \E v \in {"none", "closed"} : cams' = [cams EXCEPT ![c] = [cams[c] EXCEPT !.fd = v]]
      BY <2>1, <2>3, SetMineEffect
    <3> QED
      <4>1. cams \in [Cameras -> CameraRecords]
        BY DEF NetTypes
      <4>2. \A r \in CameraRecords : [cams EXCEPT ![c] = r] \in [Cameras -> CameraRecords]
        BY <4>1, Zenon
      <4>3. /\ [cams[c] EXCEPT !.alive = FALSE] \in CameraRecords
            /\ [cams[c] EXCEPT !.sess = FALSE] \in CameraRecords
            /\ \A v \in {"none", "closed"} : [cams[c] EXCEPT !.fd = v] \in CameraRecords
        BY <2>2, RecordsKept
      <4> QED
        BY <3>1, <4>1, <4>2, <4>3, Zenon
  <2>5. ready' \in [Cameras -> BOOLEAN]
    BY <2>1, <2>3 DEF NetTypes
  <2> QED
    BY <2>3, <2>4, <2>5 DEF NetTypes
<1>3. ASSUME NEW j \in Jobs, Manage(j) PROVE NetTypes'
  <2>1. jobs[j] \in JobRecords /\ KindOf(jobs[j]) /\ managed \in Cameras \cup {None}
    BY DEF JobTypes, KindInv, NetTypes
  <2>2. CASE Look(j) \/ Give(j) \/ OpenFails(j)
    BY <2>2 DEF Look, Give, OpenFails, camVars, netVars, NetTypes
  <2>3. CASE TakeOut(j) \/ TakeTransport(j)
    BY <2>3 DEF TakeOut, TakeTransport, netVars, NetTypes
  <2>4. CASE StoreTransport(j) \/ Store(j)
    BY <2>1, <2>4 DEF StoreTransport, Store, netVars, NetTypes, JobRecords
  <2>8. CASE ResumeRaises(j)
    <3>1. jobs[j].cam \in Cameras
      BY <2>1, <2>8 DEF ResumeRaises, KindOf, JobRecords
    <3> QED
      BY <2>8, <3>1 DEF ResumeRaises, NetTypes
  <2>5. CASE Open(j)
    <3>1. /\ opened < CamerasMax /\ opened' = opened + 1 /\ link' = opened + 1
          /\ cams' = [cams EXCEPT ![opened + 1] = [sess |-> FALSE, alive |-> TRUE, fd |-> "open"]]
          /\ UNCHANGED <<managed, transport, lost, ready>>
      BY <2>5 DEF Open
    <3>2. opened \in Nat /\ opened + 1 \in Cameras /\ opened + 1 \in 0..CamerasMax
      BY <3>1, Numbers, BoundAssumption DEF NetTypes
    <3>3. cams' \in [Cameras -> CameraRecords]
      BY <3>1, <3>2 DEF NetTypes, CameraRecords
    <3> QED
      BY <3>1, <3>2, <3>3 DEF NetTypes
  <2>6. CASE Resumes(j)
    <3>1. jobs[j].cam \in Cameras
      BY <2>1, <2>6 DEF Resumes, KindOf, JobRecords
    <3>2. /\ cams' = [cams EXCEPT ![jobs[j].cam] = [cams[jobs[j].cam] EXCEPT !.sess = TRUE]]
          /\ UNCHANGED <<managed, netVars>>
      BY <2>6, <3>1, SetMineEffect DEF Resumes
    <3> QED
      BY <3>1, <3>2 DEF NetTypes, CameraRecords, netVars
  <2>7. CASE ResumeFails(j)
    <3>1. /\ cams' = [cams EXCEPT ![jobs[j].cam] = Unborn]
          /\ link' = link \/ link' = None
          /\ UNCHANGED <<managed, transport, lost, ready, opened>>
      BY <2>7 DEF ResumeFails
    <3>2. Unborn \in CameraRecords
      BY DEF Unborn, CameraRecords
    <3> QED
      BY <3>1, <3>2 DEF NetTypes
  <2> QED
    BY <1>3, <2>2, <2>3, <2>4, <2>5, <2>6, <2>7, <2>8 DEF Manage
<1>4. CASE UNCHANGED camVars
  BY <1>4 DEF camVars, netVars, NetTypes
<1>5. CASE LinkDrops \/ OutputArrives
  BY <1>5 DEF LinkDrops, OutputArrives, NetTypes
<1>6. CASE UNCHANGED <<link, ready, managed, cams, transport, lost, opened>>
  BY <1>6 DEF NetTypes
<1>7. ASSUME NEW j \in Jobs, Work(j) PROVE NetTypes'
  BY <1>1, <1>2, <1>3, <1>7 DEF Work
<1> QED
  BY <1>4, <1>5, <1>6, <1>7, Steps DEF Enters, TakesTurn

LEMMA TypesKept ==
  ASSUME TypesInv, [Next]_vars
  PROVE  TypesInv'
BY KindsKept, BareKept, QueuesKept, NetsKept DEF TypesInv

LEMMA TypesStart ==
  ASSUME Init
  PROVE  TypesInv
<1>1. JobTypes /\ \A j \in Jobs : jobs[j] = NoJob
  BY DEF Init, JobTypes, JobRecords, NoJob, Pcs, Ends
<1>2. KindInv
  BY <1>1 DEF KindInv, KindOf, NoJob, CallPcs, ClosePcs, PoolPcs
<1>8. BareInv
  BY <1>1 DEF BareInv, NoJob
<1>3. QueueTypes /\ \A f \in Facades : queue[f] = << >>
  BY DEF Init, QueueTypes
<1>4. \A f \in Facades : Len(queue[f]) = 0
  BY <1>3
<1>5. QueueInv
  BY <1>1, <1>4 DEF QueueInv, NoJob, Running
<1>6. WrapTypes
  BY DEF Init, WrapTypes
<1>7. NetTypes
  BY BoundAssumption DEF Init, NetTypes, Unborn, CameraRecords
<1> QED
  BY <1>1, <1>2, <1>3, <1>5, <1>6, <1>7, <1>8 DEF TypesInv

(* What connect has opened and nobody else has heard of.                   *)
Opening(k) == jobs[k].pc \in {"resume", "store"}

LEMMA CallKeeps ==
  ASSUME TypesInv, NEW j \in Jobs, Call(j)
  PROVE  /\ Moves(j) /\ jobs'[j].cam = jobs[j].cam /\ jobs[j].cam \in Cameras
         /\ ~Opening(j)' /\ ~Opening(j)
         /\ UNCHANGED <<managed, transport, lost, opened, link, wraps>>
<1> USE DEF TypesInv
<1>1. /\ Moves(j) /\ jobs[j].kind = "call" /\ jobs'[j].kind = "call"
      /\ KindOf(jobs[j]) /\ KindOf(jobs'[j]) /\ jobs[j] \in JobRecords
      /\ UNCHANGED wraps
  BY CallAdvances DEF Advances, Moves, KindInv, JobTypes
<1>2. ~Opening(j)' /\ ~Opening(j) /\ jobs[j].cam \in Cameras
  BY <1>1 DEF KindOf, Opening, CallPcs, EndPcs, JobRecords
<1>3. \/ \E pc \in CallPcs : Goto(j, pc)
      \/ \E end \in Ends \ {"none"} : Finish(j, end)
  BY DEF Call, Check, Encrypt, Refuses, Write, Cmd, Put, Read, Select, OsRead, Decrypt,
     CallPcs, Ends
<1>4. jobs'[j].cam = jobs[j].cam
  BY <1>3, GotoMoves, FinishMoves DEF Pcs
<1>5. UNCHANGED <<managed, transport, lost, opened, link>>
  BY DEF Call, Check, Encrypt, Refuses, Write, Cmd, Put, Read, Select, OsRead, Decrypt,
     camVars, netVars
<1> QED
  BY <1>1, <1>2, <1>4, <1>5

LEMMA CloseKeeps ==
  ASSUME TypesInv, NEW j \in Jobs, CloseCamera(j)
  PROVE  /\ Moves(j) /\ jobs'[j].cam = jobs[j].cam /\ jobs[j].cam \in Cameras
         /\ jobs[j].pc \in ClosePcs /\ jobs'[j].pc \in ClosePcs \cup {"open", "done"}
         /\ ~Opening(j)' /\ ~Opening(j)
         /\ UNCHANGED <<managed, transport, lost, opened, wraps>>
         /\ link' = link \/ link' = None
<1> USE DEF TypesInv
<1>1. /\ Moves(j) /\ jobs'[j].cam = jobs[j].cam /\ jobs[j].cam \in Cameras
      /\ jobs[j].pc \in ClosePcs /\ UNCHANGED wraps
  BY CloseAdvances DEF Advances, JobTypes, JobRecords
<1>2. \/ \E to \in ClosePcs \cup {"open", "done"}, from \in ClosePcs : CloseStep(j, from, to)
      \/ Finish(j, "stray")
  BY DEF CloseCamera, Lower, Kill, FindFd, OsClose, OsCloseRaises, ForgetFd, ForgetSess,
     ClosePcs, Closed, Shut
<1>3. jobs'[j].pc \in ClosePcs \cup {"open", "done"}
  BY <1>2, CloseMoves, FinishMoves DEF Pcs, PoolPcs, EndPcs, Ends
<1>4. ~Opening(j)' /\ ~Opening(j)
  BY <1>1, <1>3 DEF Opening, ClosePcs
<1>5. UNCHANGED <<managed, transport, lost, opened>> /\ (link' = link \/ link' = None)
  BY DEF CloseCamera, Lower, Kill, FindFd, OsClose, OsCloseRaises, ForgetFd, ForgetSess,
     camVars, netVars
<1> QED
  BY <1>1, <1>3, <1>4, <1>5

(* A connect makes its facade when it is done, the others find theirs.     *)
WrapInv ==
  /\ \A f \in Facades : wraps[f] # None => jobs[f].pc = "gone"
  /\ \A j \in Jobs : jobs[j].on # None => wraps[jobs[j].on] = jobs[j].cam

LEMMA WrapsKept ==
  ASSUME TypesInv, TypesInv', WrapInv, [Next]_vars
  PROVE  WrapInv'
<1> USE DEF TypesInv
<1>1. ASSUME NEW j \in Jobs, Moves(j), jobs'[j].cam = jobs[j].cam \/ jobs[j].on = None,
             wraps' = wraps, jobs[j].pc = "gone" => jobs'[j].pc = "gone"
      PROVE  WrapInv'
  <2>1. /\ \A k \in Jobs : k # j => /\ jobs'[k].pc = jobs[k].pc /\ jobs'[k].on = jobs[k].on
                                    /\ jobs'[k].cam = jobs[k].cam
        /\ jobs'[j].on = jobs[j].on
    BY <1>1 DEF Moves, Alike
  <2> QED
    BY <1>1, <2>1, Numbers DEF WrapInv
<1>2. ASSUME NEW j \in Jobs, Work(j), Advances(j) PROVE WrapInv'
  <2>1. Moves(j) /\ wraps' = wraps /\ jobs[j].pc # "gone"
    BY <1>2 DEF Advances, Running
  <2>2. jobs'[j].cam = jobs[j].cam \/ jobs[j].on = None
    <3>1. CASE Manage(j)
      <4>1. jobs[j].kind \in {"connect", "close"} /\ KindOf(jobs[j])
        BY <3>1, ManageAdvances DEF KindInv
      <4> QED
        BY <4>1 DEF KindOf
    <3> QED
      BY <1>2, <3>1, CallKeeps, CloseKeeps DEF Work
  <2> QED
    BY <1>1, <2>1, <2>2
<1>3. ASSUME NEW j \in Jobs, NEW r \in JobRecords, Enters(j, r) PROVE WrapInv'
  <2>1. /\ jobs'[j] = r /\ \A k \in Jobs : k # j => jobs'[k] = jobs[k]
        /\ wraps' = wraps /\ (r.on # None => r.cam = wraps[r.on])
    BY <1>3 DEF Enters, JobTypes
  <2>2. jobs[j].kind = "none" /\ jobs[j].pc # "gone"
    BY <1>3 DEF Enters, KindInv, KindOf
  <2> QED
    BY <2>1, <2>2, Numbers DEF WrapInv
<1>4. ASSUME NEW j \in Jobs, TakesTurn(j) PROVE WrapInv'
  <2>1. Moves(j) /\ jobs'[j].cam = jobs[j].cam
    BY <1>4 DEF TakesTurn
  <2>2. CASE wraps' = wraps
    <3>1. jobs[j].pc = "gone" => jobs'[j].pc = "gone"
      BY <1>4 DEF TakesTurn
    <3> QED
      BY <1>1, <2>1, <2>2, <3>1
  <2>3. CASE wraps' # wraps
    <3>1. /\ jobs[j].pc = "done" /\ jobs'[j].pc = "gone" /\ jobs[j].kind = "connect"
          /\ wraps' = [wraps EXCEPT ![j] = jobs[j].cam]
      BY <1>4, <2>3 DEF TakesTurn
    <3>2. wraps[j] = None
      BY <3>1, Numbers DEF WrapInv
    <3>3. /\ \A k \in Jobs : /\ k # j => jobs'[k].pc = jobs[k].pc
                             /\ jobs'[k].on = jobs[k].on /\ jobs'[k].cam = jobs[k].cam
          /\ jobs'[j].on = jobs[j].on
      BY <2>1 DEF Moves, Alike
    <3>4. \A f \in Facades : wraps'[f] # None => jobs'[f].pc = "gone"
      BY <3>1, <3>3, Numbers DEF WrapInv, WrapTypes
    <3>5. \A k \in Jobs : jobs[k].on # None => jobs[k].on # j /\ jobs[k].on \in Facades
      BY <3>2 DEF WrapInv, KindInv, KindOf, JobTypes, JobRecords
    <3>6. \A k \in Jobs : jobs'[k].on # None => wraps'[jobs'[k].on] = jobs'[k].cam
      BY <3>1, <3>3, <3>5 DEF WrapInv, WrapTypes
    <3> QED
      BY <3>4, <3>6 DEF WrapInv
  <2> QED
    BY <2>2, <2>3
<1>5. CASE UNCHANGED <<jobs, wraps>>
  BY <1>5 DEF WrapInv
<1> QED
  BY <1>2, <1>3, <1>4, <1>5, Steps

(* Nobody has heard of a camera that its connect is still opening.         *)
NumbersInv ==
  /\ managed <= opened /\ transport <= opened /\ link <= opened
  /\ \A j \in Jobs : jobs[j].cam <= opened
  /\ \A f \in Facades : wraps[f] <= opened

SecretInv ==
  \A k \in Jobs : Opening(k) =>
    /\ managed # jobs[k].cam /\ transport # jobs[k].cam
    /\ \A f \in Facades : wraps[f] # jobs[k].cam
    /\ \A j \in Jobs : j # k => jobs[j].cam # jobs[k].cam

BornInv == NumbersInv /\ SecretInv

LEMMA Ordinals ==
  ASSUME TypesInv, BornInv
  PROVE  /\ opened \in Nat /\ None <= opened /\ None \in Nat
         /\ managed \in Nat /\ managed <= opened /\ link <= opened
         /\ transport \in Nat /\ transport <= opened
         /\ \A k \in Jobs : jobs[k].cam \in Nat /\ jobs[k].cam <= opened
         /\ \A f \in Facades : wraps[f] \in Nat /\ wraps[f] <= opened
<1>1. opened \in Nat /\ None <= opened /\ None \in Nat
  BY BoundAssumption DEF TypesInv, NetTypes, None
<1>2. \A c \in Cameras \cup {None} : c \in Nat
  BY Numbers
<1>3. /\ managed \in Nat /\ managed <= opened /\ link <= opened
      /\ transport \in Nat /\ transport <= opened
  BY <1>2 DEF TypesInv, NetTypes, BornInv, NumbersInv
<1>4. \A k \in Jobs : jobs[k].cam \in Nat /\ jobs[k].cam <= opened
  BY <1>2 DEF TypesInv, JobTypes, JobRecords, BornInv, NumbersInv
<1>5. \A f \in Facades : wraps[f] \in Nat /\ wraps[f] <= opened
  BY <1>2 DEF TypesInv, WrapTypes, BornInv, NumbersInv
<1> QED
  BY <1>1, <1>3, <1>4, <1>5

(* A step that hands out no camera, one that hands out a known one.        *)
Hands(j, c) ==
  /\ Moves(j) /\ jobs'[j].cam \in {jobs[j].cam, c}
  /\ managed' \in {managed, None, c} /\ transport' \in {transport, None, c}
  /\ opened' = opened
  /\ link' = link \/ link' = None
  /\ wraps' = wraps \/ wraps' = [wraps EXCEPT ![j] = c]

LEMMA HandsKeeps ==
  ASSUME TypesInv, BornInv, NEW j \in Jobs, NEW c \in {managed, transport, None, jobs[j].cam}, Hands(j, c),
         Opening(j)' => Opening(j) /\ c = None,
         Opening(j)' => jobs'[j].cam = jobs[j].cam
  PROVE  BornInv'
<1> USE DEF TypesInv
<1>1. /\ \A k \in Jobs : k # j => jobs'[k].cam = jobs[k].cam /\ jobs'[k].pc = jobs[k].pc
      /\ \A k \in Jobs : k # j => (Opening(k)' <=> Opening(k))
  BY DEF Hands, Moves, Alike, Opening
<1>2. /\ c <= opened /\ opened \in Nat /\ None <= opened /\ c \in Nat
      /\ \A k \in Jobs : jobs[k].cam \in Nat /\ jobs[k].cam <= opened
      /\ \A f \in Facades : wraps[f] \in Nat /\ wraps[f] <= opened
      /\ managed <= opened /\ transport <= opened /\ link <= opened
  BY Ordinals
<1>3. NumbersInv'
  <2>1. managed' <= opened' /\ transport' <= opened' /\ link' <= opened'
    BY <1>2 DEF Hands
  <2>2. \A k \in Jobs : jobs'[k].cam <= opened'
    BY <1>1, <1>2 DEF Hands
  <2>3. \A f \in Facades : wraps'[f] <= opened'
    BY <1>2 DEF Hands, WrapTypes
  <2> QED
    BY <2>1, <2>2, <2>3 DEF NumbersInv
<1>4. ASSUME NEW k \in Jobs, Opening(k)'
      PROVE  /\ managed' # jobs'[k].cam /\ transport' # jobs'[k].cam
             /\ \A f \in Facades : wraps'[f] # jobs'[k].cam
             /\ \A i \in Jobs : i # k => jobs'[i].cam # jobs'[k].cam
  <2>1. Opening(k) /\ jobs[k].cam # None
    BY <1>1, <1>4 DEF KindInv, KindOf, Opening
  <2>2. /\ managed # jobs[k].cam /\ transport # jobs[k].cam
        /\ \A f \in Facades : wraps[f] # jobs[k].cam
        /\ \A i \in Jobs : i # k => jobs[i].cam # jobs[k].cam
    BY <2>1 DEF BornInv, SecretInv
  <2>3. CASE k # j
    <3>1. c # jobs[k].cam /\ jobs'[k].cam = jobs[k].cam
      BY <1>1, <2>1, <2>2, <2>3
    <3>2. managed' # jobs'[k].cam /\ transport' # jobs'[k].cam
      BY <2>1, <2>2, <3>1 DEF Hands
    <3>3. \A f \in Facades : wraps'[f] # jobs'[k].cam
      BY <2>2, <3>1 DEF Hands, WrapTypes
    <3>4. \A i \in Jobs : i # k => jobs'[i].cam # jobs'[k].cam
      BY <1>1, <2>2, <3>1 DEF Hands
    <3> QED
      BY <3>2, <3>3, <3>4
  <2>4. CASE k = j
    <3>1. c = None /\ jobs'[k].cam = jobs[k].cam
      BY <1>4, <2>1, <2>4 DEF Hands
    <3>2. managed' # jobs'[k].cam /\ transport' # jobs'[k].cam
      BY <2>1, <2>2, <3>1 DEF Hands
    <3>3. \A f \in Facades : wraps'[f] # jobs'[k].cam
      BY <2>1, <2>2, <3>1 DEF Hands, WrapTypes
    <3>4. \A i \in Jobs : i # k => jobs'[i].cam # jobs'[k].cam
      BY <1>1, <2>2, <2>4, <3>1
    <3> QED
      BY <3>2, <3>3, <3>4
  <2> QED
    BY <2>3, <2>4
<1> QED
  BY <1>3, <1>4 DEF BornInv, SecretInv

LEMMA ManageKeepsBorn ==
  ASSUME TypesInv, BornInv, NEW j \in Jobs, Manage(j)
  PROVE  BornInv'
<1> USE DEF TypesInv
<1>1. Moves(j) /\ wraps' = wraps
  BY ManageAdvances DEF Advances
<1>2. CASE Look(j)
  <2>1. \E pc \in {"give", "take"} : Goto(j, pc)
    BY <1>2 DEF Look
  <2>2. jobs'[j].cam = jobs[j].cam /\ ~Opening(j)'
    BY <2>1, GotoMoves DEF Pcs, PoolPcs, Opening
  <2> QED
    BY <1>1, <1>2, <2>2, HandsKeeps DEF Look, Hands, camVars, netVars
<1>3. CASE OpenFails(j) \/ ResumeFails(j) \/ ResumeRaises(j)
  <2>1. jobs'[j].cam = jobs[j].cam /\ jobs'[j].pc = "done"
    BY <1>3, FinishMoves DEF OpenFails, ResumeFails, ResumeRaises, Ends
  <2>2. UNCHANGED <<managed, transport, opened>> /\ (link' = link \/ link' = None)
    BY <1>3 DEF OpenFails, ResumeFails, ResumeRaises, camVars, netVars
  <2> QED
    BY <1>1, <2>1, <2>2, HandsKeeps DEF Hands, Opening
<1>4. CASE Resumes(j)
  <2>1. jobs'[j].cam = jobs[j].cam /\ jobs[j].pc = "resume"
    BY <1>4, GotoMoves DEF Resumes, Pcs, PoolPcs
  <2>2. UNCHANGED <<managed, transport, opened, link>>
    BY <1>4 DEF Resumes, netVars
  <2> QED
    BY <1>1, <2>1, <2>2, HandsKeeps DEF Hands, Opening
<1>5. CASE Give(j)
  <2>1. jobs'[j].cam = managed /\ jobs'[j].pc = "done" /\ jobs[j].pc = "give"
    BY <1>5 DEF Give, JobTypes, JobRecords
  <2>2. UNCHANGED <<managed, transport, opened, link>>
    BY <1>5 DEF Give, camVars, netVars
  <2> QED
    BY <1>1, <2>1, <2>2, HandsKeeps DEF Hands, Opening
<1>6. CASE TakeOut(j)
  <2>1. jobs'[j].cam = managed /\ ~Opening(j)' /\ managed' = None
    BY <1>6 DEF TakeOut, JobTypes, JobRecords, Opening
  <2>2. UNCHANGED <<transport, opened, link>>
    BY <1>6 DEF TakeOut, netVars
  <2> QED
    BY <1>1, <2>1, <2>2, HandsKeeps DEF Hands
<1>9. CASE TakeTransport(j)
  <2>1. jobs'[j].cam \in {jobs[j].cam, transport} /\ ~Opening(j)'
    BY <1>9, TransportTaken DEF Opening
  <2>2. transport' = None /\ UNCHANGED <<managed, opened, link>>
    BY <1>9 DEF TakeTransport
  <2> QED
    BY <1>1, <2>1, <2>2, HandsKeeps DEF Hands
<1>10. CASE StoreTransport(j)
  <2>1. /\ jobs'[j].cam = jobs[j].cam /\ jobs'[j].pc = "stored"
        /\ transport' = jobs[j].cam
    BY <1>10, GotoMoves DEF StoreTransport, Pcs, PoolPcs
  <2>2. UNCHANGED <<managed, opened, link>>
    BY <1>10 DEF StoreTransport
  <2> QED
    BY <1>1, <2>1, <2>2, HandsKeeps DEF Hands, Opening
<1>7. CASE Store(j)
  <2>1. /\ jobs'[j].cam = jobs[j].cam /\ jobs'[j].pc = "done" /\ managed' = jobs[j].cam
    BY <1>7, FinishMoves DEF Store, Ends
  <2>2. UNCHANGED <<transport, opened, link>>
    BY <1>7 DEF Store
  <2> QED
    BY <1>1, <2>1, <2>2, HandsKeeps DEF Hands, Opening
<1>8. CASE Open(j)
  <2>1. /\ opened' = opened + 1 /\ link' = opened + 1
        /\ UNCHANGED <<managed, transport>>
        /\ jobs'[j].cam = opened + 1
        /\ \A k \in Jobs : k # j => jobs'[k].cam = jobs[k].cam /\ jobs'[k].pc = jobs[k].pc
    BY <1>8 DEF Open, JobTypes, JobRecords
  <2>2. /\ opened \in Nat
        /\ \A k \in Jobs : jobs[k].cam \in Nat /\ jobs[k].cam <= opened
        /\ \A f \in Facades : wraps[f] \in Nat /\ wraps[f] <= opened
        /\ managed \in Nat /\ managed <= opened
        /\ transport \in Nat /\ transport <= opened
    BY Ordinals
  <2>3. NumbersInv'
    BY <1>1, <2>1, <2>2 DEF NumbersInv
  <2>4. /\ managed' # opened + 1 /\ transport' # opened + 1
        /\ \A f \in Facades : wraps'[f] # opened + 1
        /\ \A k \in Jobs : k # j => jobs'[k].cam # opened + 1
    BY <1>1, <2>1, <2>2
  <2>5. SecretInv'
    BY <1>1, <2>1, <2>4 DEF BornInv, SecretInv, Opening
  <2> QED
    BY <2>3, <2>5 DEF BornInv
<1> QED
  BY <1>2, <1>3, <1>4, <1>5, <1>6, <1>7, <1>8, <1>9, <1>10 DEF Manage

LEMMA BornKept ==
  ASSUME TypesInv, WrapInv, BornInv, [Next]_vars
  PROVE  BornInv'
<1> USE DEF TypesInv
<1>1. ASSUME NEW j \in Jobs, Call(j) \/ CloseCamera(j) PROVE BornInv'
  <2>1. /\ Moves(j) /\ jobs'[j].cam = jobs[j].cam /\ ~Opening(j)'
        /\ UNCHANGED <<managed, transport, opened, wraps>> /\ (link' = link \/ link' = None)
    BY <1>1, CallKeeps, CloseKeeps
  <2> QED
    BY <2>1, HandsKeeps DEF Hands
<1>2. ASSUME NEW j \in Jobs, NEW r \in JobRecords, Enters(j, r) PROVE BornInv'
  <2>1. /\ jobs'[j] = r /\ \A k \in Jobs : k # j => jobs'[k] = jobs[k]
        /\ UNCHANGED <<wraps, managed, transport, link, opened>>
        /\ ~Opening(j)' /\ (r.cam = None \/ \E f \in Facades : r.cam = wraps[f])
    BY <1>2 DEF Enters, JobTypes, Opening, camVars, netVars
  <2>2. None <= opened /\ \A k \in Jobs : Opening(k) => jobs[k].cam # None
    BY Numbers DEF NetTypes, KindInv, KindOf, Opening
  <2>3. NumbersInv'
    BY <2>1, <2>2 DEF BornInv, NumbersInv
  <2>4. SecretInv'
    BY <2>1, <2>2 DEF BornInv, SecretInv, Opening
  <2> QED
    BY <2>3, <2>4 DEF BornInv
<1>3. ASSUME NEW j \in Jobs, TakesTurn(j) PROVE BornInv'
  <2>1. /\ Moves(j) /\ jobs'[j].cam = jobs[j].cam /\ UNCHANGED <<managed, transport, opened, link>>
        /\ Opening(j)' => Opening(j) /\ wraps' = wraps
        /\ \/ wraps' = wraps
           \/ wraps' = [wraps EXCEPT ![j] = jobs[j].cam] /\ ~Opening(j)'
    BY <1>3 DEF TakesTurn, Opening, camVars, netVars
  <2>2. CASE wraps' = wraps
    BY <2>1, <2>2, HandsKeeps DEF Hands
  <2>3. CASE wraps' = [wraps EXCEPT ![j] = jobs[j].cam] /\ ~Opening(j)'
    BY <2>1, <2>3, HandsKeeps DEF Hands
  <2> QED
    BY <2>1, <2>2, <2>3
<1>4. CASE /\ UNCHANGED <<jobs, wraps, managed, transport, opened>>
           /\ LinkDrops \/ OutputArrives \/ UNCHANGED <<link, ready>>
  <2>1. link' = link \/ link' = None
    BY <1>4 DEF LinkDrops, OutputArrives
  <2>2. None <= opened
    BY Numbers DEF NetTypes
  <2>3. NumbersInv' /\ SecretInv'
    BY <1>4, <2>1, <2>2 DEF BornInv, NumbersInv, SecretInv, Opening
  <2> QED
    BY <2>3 DEF BornInv
<1>5. ASSUME NEW j \in Jobs, Work(j) PROVE BornInv'
  BY <1>1, <1>5, ManageKeepsBorn DEF Work
<1> QED
  BY <1>2, <1>3, <1>4, <1>5, Steps

-----------------------------------------------------------------------------
(* What each kind of work does to the cameras.                             *)
LEMMA CallOnCams ==
  ASSUME TypesInv, NEW j \in Jobs, Call(j)
  PROVE  \A c \in Cameras : /\ cams'[c].sess = cams[c].sess /\ cams'[c].fd = cams[c].fd
                            /\ cams'[c].alive => cams[c].alive
<1>1. jobs[j].cam \in Cameras
  BY CallKeeps
<1>2. cams' = cams \/ cams' = [cams EXCEPT ![jobs[j].cam].alive = FALSE]
  BY DEF Call, Check, Encrypt, Refuses, Write, Cmd, Put, Read, Select, OsRead, Decrypt,
     camVars
<1>3. cams' = cams \/ cams' = [cams EXCEPT ![jobs[j].cam] = [cams[jobs[j].cam] EXCEPT !.alive = FALSE]]
  BY <1>1, <1>2 DEF TypesInv, NetTypes, CameraRecords
<1> QED
  BY <1>1, <1>3 DEF TypesInv, NetTypes, CameraRecords

LEMMA CloseOnCams ==
  ASSUME TypesInv, NEW j \in Jobs, CloseCamera(j)
  PROVE  /\ \A c \in Cameras :
              /\ c # jobs[j].cam => cams'[c] = cams[c]
              /\ cams'[c].alive => cams[c].alive
              /\ cams'[c].fd # cams[c].fd => jobs[j].pc \in {"closefd", "forget"}
              /\ cams'[c].fd = "open" => cams[c].fd = "open"
         /\ cams' # cams => \A k \in Jobs : k # j /\ Noted(j, k) => jobs'[k].beside
<1>1. jobs[j].cam \in Cameras
  BY CloseKeeps
<1> DEFINE c == jobs[j].cam
<1>2. \/ cams' = cams
      \/ SetMine(j, "alive", FALSE) \/ SetMine(j, "sess", FALSE)
      \/ jobs[j].pc = "closefd" /\ SetMine(j, "fd", "closed")
      \/ jobs[j].pc = "forget" /\ SetMine(j, "fd", "none")
  BY DEF CloseCamera, Lower, Kill, FindFd, OsClose, OsCloseRaises, ForgetFd, ForgetSess,
     camVars, CloseStep
<1>3. \/ cams' = cams
      \/ cams' = [cams EXCEPT ![c] = [cams[c] EXCEPT !.alive = FALSE]]
      \/ cams' = [cams EXCEPT ![c] = [cams[c] EXCEPT !.sess = FALSE]]
      \/ /\ jobs[j].pc \in {"closefd", "forget"}
         /\ \E v \in {"none", "closed"} : cams' = [cams EXCEPT ![c] = [cams[c] EXCEPT !.fd = v]]
  BY <1>1, <1>2, SetMineEffect DEF TypesInv
<1>4. \A d \in Cameras :
        /\ d # c => cams'[d] = cams[d]
        /\ cams'[d].alive => cams[d].alive
        /\ cams'[d].fd # cams[d].fd => jobs[j].pc \in {"closefd", "forget"}
        /\ cams'[d].fd = "open" => cams[d].fd = "open"
  BY <1>1, <1>3 DEF TypesInv, NetTypes, CameraRecords
<1>5. ASSUME cams' # cams PROVE \A k \in Jobs : k # j /\ Noted(j, k) => jobs'[k].beside
  <2>1. \E from \in ClosePcs, to \in ClosePcs \cup {"open", "done"} : CloseStep(j, from, to)
    BY <1>5 DEF CloseCamera, Lower, Kill, FindFd, OsClose, OsCloseRaises, ForgetFd,
       ForgetSess, camVars, ClosePcs, Closed, Shut
  <2>2. ClosePcs \cup {"open", "done"} \subseteq Pcs
    BY DEF Pcs, PoolPcs, EndPcs
  <2> QED
    BY <2>1, <2>2, CloseMoves DEF TypesInv
<1> QED
  BY <1>4, <1>5

LEMMA ManageOnCams ==
  ASSUME TypesInv, NEW j \in Jobs, Manage(j)
  PROVE  \A c \in Cameras :
           \/ cams'[c] = cams[c]
           \/ /\ Opening(j) /\ c = jobs[j].cam
              /\ cams'[c].alive => cams[c].alive /\ cams'[c].fd = cams[c].fd
              /\ cams'[c].fd = "open" => cams[c].fd = "open"
           \/ /\ c = opened + 1 /\ cams'[c].fd = "open"
<1> USE DEF TypesInv
<1>1. CASE \/ Look(j) \/ Give(j) \/ TakeOut(j) \/ TakeTransport(j) \/ OpenFails(j)
         \/ ResumeRaises(j) \/ StoreTransport(j) \/ Store(j)
  BY <1>1 DEF Look, Give, TakeOut, TakeTransport, OpenFails, ResumeRaises,
     StoreTransport, Store, camVars
<1>2. CASE Open(j)
  <2>1. cams' = [cams EXCEPT ![opened + 1] = [sess |-> FALSE, alive |-> TRUE, fd |-> "open"]]
    BY <1>2 DEF Open
  <2> QED
    BY <2>1 DEF NetTypes
<1>3. CASE Resumes(j)
  <2>1. jobs[j].cam \in Cameras /\ Opening(j)
    BY <1>3 DEF Resumes, KindInv, KindOf, Opening, JobTypes, JobRecords
  <2>2. cams' = [cams EXCEPT ![jobs[j].cam] = [cams[jobs[j].cam] EXCEPT !.sess = TRUE]]
    BY <1>3, <2>1, SetMineEffect DEF Resumes
  <2> QED
    BY <2>1, <2>2 DEF NetTypes, CameraRecords
<1>4. CASE ResumeFails(j)
  <2>1. cams' = [cams EXCEPT ![jobs[j].cam] = Unborn] /\ Opening(j)
    BY <1>4 DEF ResumeFails, Opening
  <2> QED
    BY <2>1 DEF NetTypes, Unborn
<1> QED
  BY <1>1, <1>2, <1>3, <1>4 DEF Manage

(* A live transport has its descriptor, and who has lowered the flag finds *)
(* it down.                                                                *)
AliveInv ==
  /\ \A c \in Cameras : cams[c].alive => cams[c].fd = "open"
  /\ \A k \in Jobs : jobs[k].pc \in ClosePcs \ {"lower"} => ~cams[jobs[k].cam].alive

LEMMA LoweredStays ==
  ASSUME TypesInv, TypesInv', BornInv, AliveInv, NEW j \in Jobs, Moves(j),
         \A c \in Cameras : \/ cams'[c].alive => cams[c].alive /\ cams'[c].fd = cams[c].fd
                            \/ c = opened + 1 /\ cams'[c].fd = "open",
         jobs'[j].pc \in ClosePcs \ {"lower"} =>
           jobs'[j].cam = jobs[j].cam /\ (jobs[j].pc \in ClosePcs \ {"lower"} \/ ~cams'[jobs[j].cam].alive)
  PROVE  AliveInv'
<1> USE DEF TypesInv
<1>1. \A c \in Cameras : cams'[c].alive => cams'[c].fd = "open"
  BY DEF AliveInv
<1>2. ASSUME NEW k \in Jobs, jobs'[k].pc \in ClosePcs \ {"lower"} PROVE ~cams'[jobs'[k].cam].alive
  <2>1. jobs'[k].cam = jobs[k].cam
    BY <1>2 DEF Moves, Alike
  <2>2. jobs[k].cam \in Cameras
    BY <1>2, <2>1 DEF KindInv, KindOf, JobTypes, JobRecords
  <2>3. CASE jobs[k].pc \in ClosePcs \ {"lower"}
    <3>1. ~cams[jobs[k].cam].alive
      BY <2>3 DEF AliveInv
    <3>2. jobs[k].cam <= opened /\ opened \in Nat /\ jobs[k].cam \in Nat
      BY Ordinals
    <3>3. jobs[k].cam # opened + 1
      BY <3>2
    <3> QED
      BY <2>1, <2>2, <3>1, <3>3
  <2>4. CASE jobs[k].pc \notin ClosePcs \ {"lower"}
    <3>1. k = j
      BY <1>2, <2>4 DEF Moves, Alike
    <3> QED
      BY <1>2, <2>1, <2>4, <3>1
  <2> QED
    BY <2>3, <2>4
<1> QED
  BY <1>1, <1>2 DEF AliveInv

LEMMA AliveKept ==
  ASSUME TypesInv, TypesInv', BornInv, AliveInv, [Next]_vars
  PROVE  AliveInv'
<1> USE DEF TypesInv
<1>1. ASSUME NEW j \in Jobs, Call(j) PROVE AliveInv'
  <2>1. Moves(j) /\ KindOf(jobs'[j]) /\ jobs'[j].kind = "call"
    BY <1>1, CallAdvances DEF Advances, Moves
  <2>2. jobs'[j].pc \notin ClosePcs
    BY <2>1 DEF KindOf, CallPcs, EndPcs, ClosePcs
  <2> QED
    BY <1>1, <2>1, <2>2, CallOnCams, LoweredStays
<1>2. ASSUME NEW j \in Jobs, CloseCamera(j) PROVE AliveInv'
  <2>1. Moves(j) /\ jobs'[j].cam = jobs[j].cam /\ jobs[j].cam \in Cameras /\ jobs[j].pc \in ClosePcs
    BY <1>2, CloseKeeps
  <2>2. \A c \in Cameras : cams'[c].alive => cams[c].alive /\ cams'[c].fd = cams[c].fd
    <3>1. ASSUME NEW c \in Cameras, cams'[c].alive PROVE cams[c].alive /\ cams'[c].fd = cams[c].fd
      <4>1. cams[c].alive
        BY <1>2, <3>1, CloseOnCams
      <4>2. ASSUME cams'[c].fd # cams[c].fd PROVE FALSE
        <5>1. jobs[j].pc \in {"closefd", "forget"} /\ cams'[c] # cams[c]
          BY <1>2, <4>2, CloseOnCams
        <5>2. c = jobs[j].cam
          BY <1>2, <5>1, CloseOnCams
        <5> QED
          BY <4>1, <5>1, <5>2 DEF AliveInv, ClosePcs
      <4> QED
        BY <4>1, <4>2
    <3> QED
      BY <3>1
  <2>3. jobs[j].pc = "lower" => ~cams'[jobs[j].cam].alive
    <3>1. ASSUME jobs[j].pc = "lower" PROVE SetMine(j, "alive", FALSE)
      BY <1>2, <3>1 DEF CloseCamera, Lower, Kill, FindFd, OsClose, OsCloseRaises,
         ForgetFd, ForgetSess, CloseStep
    <3>2. SetMine(j, "alive", FALSE) =>
            cams' = [cams EXCEPT ![jobs[j].cam] = [cams[jobs[j].cam] EXCEPT !.alive = FALSE]]
      BY <2>1, SetMineEffect
    <3> QED
      BY <2>1, <3>1, <3>2 DEF NetTypes, CameraRecords
  <2> QED
    BY <2>1, <2>2, <2>3, LoweredStays
<1>3. ASSUME NEW j \in Jobs, Manage(j) PROVE AliveInv'
  <2>1. Moves(j) /\ jobs[j].pc \in PoolPcs
    BY <1>3, ManageAdvances DEF Advances
  <2>2. jobs'[j].pc \notin ClosePcs \ {"lower"}
    <3>1. CASE Look(j) \/ Resumes(j) \/ StoreTransport(j)
      <4>1. PICK pc \in {"give", "take", "store", "stored"} : Goto(j, pc)
        BY <3>1 DEF Look, Resumes, StoreTransport
      <4>2. pc \in Pcs /\ pc \notin ClosePcs
        BY DEF Pcs, PoolPcs, ClosePcs
      <4> QED
        BY <4>1, <4>2, GotoMoves
    <3>2. CASE OpenFails(j) \/ ResumeFails(j) \/ ResumeRaises(j) \/ Store(j)
      BY <3>2, FinishMoves DEF OpenFails, ResumeFails, ResumeRaises, Store, ClosePcs, Ends
    <3>3. CASE Give(j) \/ TakeOut(j) \/ TakeTransport(j) \/ Open(j)
      <4>1. jobs'[j].pc \in {"done", "taken", "lower", "open", "resume"}
        BY <3>3, TransportTaken DEF Give, TakeOut, Open, JobTypes, JobRecords
      <4> QED
        BY <4>1 DEF ClosePcs
    <3> QED
      BY <1>3, <3>1, <3>2, <3>3 DEF Manage
  <2>3. \A c \in Cameras : \/ cams'[c].alive => cams[c].alive /\ cams'[c].fd = cams[c].fd
                           \/ c = opened + 1 /\ cams'[c].fd = "open"
    BY <1>3, ManageOnCams
  <2> QED
    BY <2>1, <2>2, <2>3, LoweredStays
<1>4. ASSUME NEW j \in Jobs, NEW r \in JobRecords, Enters(j, r) PROVE AliveInv'
  <2>1. /\ jobs'[j] = r /\ \A k \in Jobs : k # j => jobs'[k] = jobs[k]
        /\ r.pc \notin ClosePcs /\ cams' = cams
    BY <1>4 DEF Enters, JobTypes, camVars, ClosePcs
  <2> QED
    BY <2>1 DEF AliveInv
<1>5. ASSUME NEW j \in Jobs, TakesTurn(j) PROVE AliveInv'
  <2>1. Moves(j) /\ jobs'[j].cam = jobs[j].cam /\ cams' = cams
    BY <1>5 DEF TakesTurn, camVars
  <2>2. jobs'[j].pc = jobs[j].pc \/ jobs'[j].pc \in {"gone", "check", "lower"}
    BY <1>5 DEF TakesTurn
  <2> QED
    BY <2>1, <2>2, LoweredStays DEF ClosePcs
<1>6. CASE UNCHANGED <<jobs, cams>>
  BY <1>6 DEF AliveInv
<1>7. ASSUME NEW j \in Jobs, Work(j) PROVE AliveInv'
  BY <1>1, <1>2, <1>3, <1>7 DEF Work
<1> QED
  BY <1>4, <1>5, <1>6, <1>7, Steps

-----------------------------------------------------------------------------
(* A call that nobody has closed the camera beside finds it as it left it. *)
Fits(j) ==
  ~jobs[j].beside =>
    /\ jobs[j].end # "stray"
    /\ jobs[j].pc \in CallPcs \ {"check"} => Mine(j).sess
    /\ jobs[j].pc = "put" => Mine(j).fd # "none"
    /\ jobs[j].pc \in {"select", "osread"} => Mine(j).fd = "open"
    /\ (jobs[j].kind = "aclose" \/ jobs[j].bare) /\ jobs[j].pc = "closefd" =>
         Mine(j).fd # "none"

StrayInv == \A j \in Jobs : Fits(j)

LEMMA OthersFit ==
  ASSUME TypesInv, NEW k \in Jobs, Alike(jobs[k], jobs'[k]), Fits(k),
         \/ jobs'[k].beside
         \/ Running(k) /\ jobs[k].cam \in Cameras =>
              /\ cams'[jobs[k].cam].sess = cams[jobs[k].cam].sess
              /\ cams'[jobs[k].cam].fd = cams[jobs[k].cam].fd
  PROVE  Fits(k)'
<1>1. jobs[k].pc \in CallPcs \cup ClosePcs => Running(k) /\ jobs[k].cam \in Cameras
  BY DEF TypesInv, KindInv, KindOf, JobTypes, JobRecords, CallPcs, ClosePcs, Running
<1>2. jobs[k].pc \in {"put", "select", "osread", "closefd"} => jobs[k].pc \in CallPcs \cup ClosePcs
  BY DEF CallPcs, ClosePcs
<1> QED
  BY <1>1, <1>2 DEF Alike, Fits, Mine

LEMMA CallFits ==
  ASSUME TypesInv, AliveInv, NEW j \in Jobs, Call(j), Fits(j)
  PROVE  Fits(j)'
<1> USE DEF TypesInv
<1>1. /\ jobs[j].cam \in Cameras /\ jobs'[j].cam = jobs[j].cam /\ jobs'[j].kind = jobs[j].kind
      /\ jobs[j].kind = "call" /\ (jobs[j].beside => jobs'[j].beside)
  BY CallKeeps, CallAdvances DEF Moves
<1>2. Mine(j)'.sess = Mine(j).sess /\ Mine(j)'.fd = Mine(j).fd
  BY <1>1, CallOnCams DEF Mine
<1>3. Mine(j) \in CameraRecords
  BY <1>1 DEF NetTypes, Mine
<1>4. ASSUME NEW pc \in CallPcs, Goto(j, pc) PROVE jobs'[j].pc = pc /\ jobs'[j].end = jobs[j].end
  BY <1>4, GotoMoves DEF Pcs
<1>5. ASSUME NEW end \in Ends \ {"none"}, Finish(j, end)
      PROVE  jobs'[j].pc = "done" /\ jobs'[j].end = end
  BY <1>5, FinishMoves
<1>6. ASSUME jobs'[j].pc = "done", jobs'[j].end \in {"ok", "error", "own"}
      PROVE  Fits(j)'
  BY <1>1, <1>6 DEF Fits, CallPcs
<1>7. ASSUME jobs'[j].beside PROVE Fits(j)'
  BY <1>7 DEF Fits
<1>8. ASSUME ~jobs[j].beside
      PROVE  /\ jobs[j].end # "stray"
             /\ jobs[j].pc \in CallPcs \ {"check"} => Mine(j).sess
             /\ jobs[j].pc = "put" => Mine(j).fd # "none"
             /\ jobs[j].pc \in {"select", "osread"} => Mine(j).fd = "open"
  BY <1>8 DEF Fits
<1>9. CASE jobs[j].beside
  BY <1>1, <1>7, <1>9
<1>10. CASE ~jobs[j].beside
  <2>1. ASSUME NEW pc \in CallPcs, Goto(j, pc), Mine(j).sess,
               pc = "put" => Mine(j).fd # "none",
               pc \in {"select", "osread"} => Mine(j).fd = "open"
        PROVE  Fits(j)'
    <3>1. jobs'[j].pc = pc /\ jobs'[j].end # "stray"
      BY <1>4, <1>8, <1>10, <2>1
    <3> QED
      BY <1>1, <1>2, <2>1, <3>1 DEF Fits, CallPcs
  <2>2. ASSUME NEW end \in {"ok", "error", "own"}, Finish(j, end) PROVE Fits(j)'
    BY <1>5, <1>6, <2>2 DEF Ends
  <2>3. /\ jobs[j].pc \in {"seal", "write", "cmd", "put", "read", "select", "osread", "decrypt"} =>
             Mine(j).sess
        /\ Mine(j).alive => Mine(j).fd = "open"
    BY <1>1, <1>8, <1>10 DEF CallPcs, AliveInv, Mine
  <2>4. CASE Check(j) \/ Encrypt(j)
    BY <2>1, <2>2, <2>3, <2>4 DEF Check, Encrypt, CallPcs
  <2>5. CASE Write(j) \/ Cmd(j) \/ Read(j)
    BY <2>1, <2>2, <2>3, <2>5 DEF Write, Cmd, Read, CallPcs
  <2>6. CASE Put(j)
    <3>1. Mine(j).fd \in {"open", "closed"} /\ Mine(j).sess
      BY <1>3, <1>8, <1>10, <2>3, <2>6 DEF Put, CameraRecords
    <3>2. Goto(j, "read") \/ Finish(j, "error")
      BY <2>6, <3>1 DEF Put
    <3> QED
      BY <2>1, <2>2, <3>1, <3>2 DEF CallPcs
  <2>7. CASE Select(j)
    <3>1. Mine(j).fd = "open" /\ Mine(j).sess
      BY <1>8, <1>10, <2>3, <2>7 DEF Select
    <3>2. Goto(j, "osread") \/ Finish(j, "ok")
      BY <2>7, <3>1 DEF Select
    <3> QED
      BY <2>1, <2>2, <3>1, <3>2 DEF CallPcs
  <2>8. CASE OsRead(j)
    <3>1. Mine(j).fd = "open" /\ Mine(j).sess
      BY <1>8, <1>10, <2>3, <2>8 DEF OsRead
    <3>2. Goto(j, "decrypt") \/ Finish(j, "error")
      BY <2>8, <3>1 DEF OsRead
    <3> QED
      BY <2>1, <2>2, <3>1, <3>2 DEF CallPcs
  <2>9. CASE Decrypt(j) \/ Refuses(j)
    BY <2>2, <2>3, <2>9 DEF Decrypt, Refuses
  <2> QED
    BY <2>4, <2>5, <2>6, <2>7, <2>8, <2>9 DEF Call
<1> QED
  BY <1>9, <1>10

LEMMA CloseFits ==
  ASSUME TypesInv, NEW j \in Jobs, CloseCamera(j), Fits(j)
  PROVE  Fits(j)'
<1> USE DEF TypesInv
<1>1. /\ Moves(j) /\ jobs'[j].kind = jobs[j].kind /\ jobs'[j].cam = jobs[j].cam
      /\ (jobs[j].beside => jobs'[j].beside)
      /\ jobs'[j].pc \in ClosePcs \cup {"open", "done"}
  BY CloseKeeps DEF Moves
<1>2. jobs'[j].pc \notin CallPcs \cup {"put", "select", "osread"}
  BY <1>1 DEF CallPcs, ClosePcs
<1>3. CASE OsCloseRaises(j) /\ (jobs[j].kind = "aclose" \/ jobs[j].bare)
  BY <1>1, <1>3 DEF OsCloseRaises, Fits
<1>4. CASE ~(OsCloseRaises(j) /\ (jobs[j].kind = "aclose" \/ jobs[j].bare))
  <2>1. \E from \in ClosePcs, to \in ClosePcs \cup {"open", "done"} : CloseStep(j, from, to)
    BY <1>4 DEF CloseCamera, Lower, Kill, FindFd, OsClose, OsCloseRaises, ForgetFd,
       ForgetSess, ClosePcs, Closed, Shut
  <2>2. PICK from \in ClosePcs, to \in ClosePcs \cup {"open", "done"} : CloseStep(j, from, to)
    BY <2>1
  <2>3. to \in Pcs
    BY DEF Pcs, PoolPcs, EndPcs
  <2>4. jobs'[j].end = (IF to = "done" THEN "ok" ELSE jobs[j].end)
    BY <2>2, <2>3, CloseMoves
  <2>5. ASSUME jobs'[j].pc = "closefd" PROVE Mine(j)'.fd # "none"
    <3>1. FindFd(j) /\ Mine(j).fd # "none"
      <4>1. to = "closefd"
        BY <2>2, <2>3, <2>5, CloseMoves
      <4>2. /\ jobs[j] \in JobRecords /\ jobs'[j].pc = "closefd"
            /\ \A f, t \in Pcs : CloseStep(j, f, t) => jobs'[j].pc = t
        BY <2>5, CloseMoves DEF JobTypes
      <4>3. ~Lower(j) /\ ~Kill(j) /\ ~OsClose(j) /\ ~ForgetFd(j)
        BY <4>2 DEF Lower, Kill, OsClose, ForgetFd, Shut, Closed, Pcs, ClosePcs,
           PoolPcs, EndPcs
      <4>4. ~OsCloseRaises(j) /\ ~ForgetSess(j)
        BY <4>2, FinishMoves DEF OsCloseRaises, ForgetSess, Closed, Pcs, ClosePcs,
           PoolPcs, EndPcs, Ends
      <4>5. FindFd(j)
        BY <4>3, <4>4 DEF CloseCamera
      <4>6. ASSUME Mine(j).fd = "none" PROVE FALSE
        BY <4>2, <4>5, <4>6 DEF FindFd, Shut, Closed, Pcs, ClosePcs, PoolPcs, EndPcs
      <4> QED
        BY <4>5, <4>6
    <3> QED
      BY <1>1, <3>1 DEF FindFd, camVars, Mine
  <2> QED
    BY <1>1, <1>2, <2>4, <2>5 DEF Fits
<1> QED
  BY <1>3, <1>4

LEMMA ManageFits ==
  ASSUME TypesInv, NEW j \in Jobs, Manage(j), Fits(j)
  PROVE  Fits(j)'
<1> USE DEF TypesInv
<1>1. /\ Moves(j) /\ jobs'[j].kind = jobs[j].kind /\ (jobs[j].beside => jobs'[j].beside)
      /\ jobs[j].kind \in {"connect", "close"} /\ KindOf(jobs'[j])
  BY ManageAdvances DEF Advances, Moves
<1>2. jobs'[j].pc \notin CallPcs
  BY <1>1 DEF KindOf, CallPcs, ClosePcs, PoolPcs, EndPcs
<1>3. /\ jobs'[j].end = jobs[j].end \/ jobs'[j].end \in {"ok", "error", "own"}
      /\ jobs'[j].pc # "closefd"
  <2>1. CASE Look(j) \/ Resumes(j) \/ StoreTransport(j)
    <3>1. PICK pc \in {"give", "take", "store", "stored"} : Goto(j, pc)
      BY <2>1 DEF Look, Resumes, StoreTransport
    <3>2. pc \in Pcs
      BY DEF Pcs, PoolPcs
    <3> QED
      BY <3>1, <3>2, GotoMoves
  <2>2. CASE OpenFails(j) \/ ResumeFails(j) \/ ResumeRaises(j) \/ Store(j)
    BY <2>2, FinishMoves DEF OpenFails, ResumeFails, ResumeRaises, Store, Ends
  <2>3. CASE Give(j) \/ TakeOut(j) \/ TakeTransport(j) \/ Open(j)
    BY <2>3, TransportTaken DEF Give, TakeOut, Open, JobTypes, JobRecords
  <2> QED
    BY <2>1, <2>2, <2>3 DEF Manage
<1> QED
  BY <1>1, <1>2, <1>3 DEF Fits, CallPcs

LEMMA StrayKept ==
  ASSUME TypesInv, BornInv, AliveInv, StrayInv, [Next]_vars
  PROVE  StrayInv'
<1> USE DEF TypesInv
<1>1. ASSUME NEW j \in Jobs, Call(j), NEW k \in Jobs PROVE Fits(k)'
  <2>1. CASE k = j
    BY <1>1, <2>1, CallFits DEF StrayInv
  <2>2. CASE k # j
    BY <1>1, <2>2, CallKeeps, CallOnCams, OthersFit DEF StrayInv, Moves
  <2> QED
    BY <2>1, <2>2
<1>2. ASSUME NEW j \in Jobs, CloseCamera(j), NEW k \in Jobs PROVE Fits(k)'
  <2>1. CASE k = j
    BY <1>2, <2>1, CloseFits DEF StrayInv
  <2>2. CASE k # j
    <3>1. Alike(jobs[k], jobs'[k]) /\ Fits(k) /\ jobs[j].pc \in ClosePcs /\ Running(j)
      BY <1>2, <2>2, CloseKeeps DEF StrayInv, Moves, Running, ClosePcs
    <3>2. ASSUME Running(k), jobs[k].cam \in Cameras, ~jobs'[k].beside
          PROVE  cams'[jobs[k].cam] = cams[jobs[k].cam]
      <4>1. CASE cams' = cams
        BY <4>1
      <4>2. CASE jobs[k].cam # jobs[j].cam
        BY <1>2, <3>2, <4>2, CloseOnCams
      <4>3. CASE cams' # cams /\ jobs[k].cam = jobs[j].cam
        <5>1. ~Noted(j, k)
          BY <1>2, <2>2, <3>2, <4>3, CloseOnCams
        <5>2. jobs[j].on # None /\ jobs[k].on = jobs[j].on
          BY <3>2, <4>3, <5>1 DEF Noted
        <5> QED
          BY <2>2, <3>1, <3>2, <5>2 DEF QueueInv
      <4> QED
        BY <4>1, <4>2, <4>3
    <3> QED
      BY <3>1, <3>2, OthersFit
  <2> QED
    BY <2>1, <2>2
<1>3. ASSUME NEW j \in Jobs, Manage(j), NEW k \in Jobs PROVE Fits(k)'
  <2>1. CASE k = j
    BY <1>3, <2>1, ManageFits DEF StrayInv
  <2>2. CASE k # j
    <3>1. Alike(jobs[k], jobs'[k]) /\ Fits(k)
      BY <1>3, <2>2, ManageAdvances DEF Advances, Moves, StrayInv
    <3>2. ASSUME jobs[k].cam \in Cameras
          PROVE  cams'[jobs[k].cam] = cams[jobs[k].cam]
      <4>1. ~(Opening(j) /\ jobs[k].cam = jobs[j].cam)
        BY <2>2 DEF BornInv, SecretInv
      <4>2. jobs[k].cam \in Nat /\ opened \in Nat /\ jobs[k].cam <= opened
        BY Ordinals
      <4>3. jobs[k].cam # opened + 1
        BY <4>2
      <4> QED
        BY <1>3, <3>2, <4>1, <4>3, ManageOnCams
    <3> QED
      BY <3>1, <3>2, OthersFit
  <2> QED
    BY <2>1, <2>2
<1>4. ASSUME NEW j \in Jobs, NEW r \in JobRecords, Enters(j, r), NEW k \in Jobs PROVE Fits(k)'
  <2>1. /\ jobs'[j] = r /\ (k # j => jobs'[k] = jobs[k]) /\ cams' = cams
        /\ r.end = "none" /\ r.pc \in {"queued", "look", "take"}
    BY <1>4 DEF Enters, JobTypes, camVars
  <2> QED
    BY <2>1 DEF StrayInv, Fits, Mine, CallPcs
<1>5. ASSUME NEW j \in Jobs, TakesTurn(j), NEW k \in Jobs PROVE Fits(k)'
  <2>1. /\ Moves(j) /\ jobs'[j].cam = jobs[j].cam /\ jobs'[j].end = jobs[j].end /\ cams' = cams
        /\ jobs'[j].kind = jobs[j].kind /\ (jobs[j].beside => jobs'[j].beside)
        /\ jobs'[j].bare = jobs[j].bare
        /\ k # j => Alike(jobs[k], jobs'[k])
    BY <1>5 DEF TakesTurn, camVars, Moves
  <2>2. jobs'[j].pc = jobs[j].pc \/ jobs'[j].pc \in {"gone", "check", "lower"}
    BY <1>5 DEF TakesTurn
  <2>3. CASE k = j
    BY <2>1, <2>2, <2>3 DEF StrayInv, Fits, Mine, CallPcs
  <2>4. CASE k # j
    BY <2>1, <2>4, OthersFit DEF StrayInv
  <2> QED
    BY <2>3, <2>4
<1>6. CASE UNCHANGED <<jobs, cams>>
  BY <1>6 DEF StrayInv, Fits, Mine
<1>7. ASSUME NEW j \in Jobs, Work(j) PROVE StrayInv'
  BY <1>1, <1>2, <1>3, <1>7 DEF Work, StrayInv
<1> QED
  BY <1>4, <1>5, <1>6, <1>7, Steps DEF StrayInv

-----------------------------------------------------------------------------
(* A call that reads alone finds what select has promised.                 *)
Promised(j) ==
  (/\ jobs[j].pc = "osread" /\ Mine(j).fd = "open"
   /\ \A f \in Facades : wraps[f] = jobs[j].cam => f = jobs[j].on)
    => ready[jobs[j].cam] \/ link # jobs[j].cam

ReadInv == \A j \in Jobs : Promised(j)

(* A step that takes no output from the camera of j and opens it no link.  *)
LEMMA PromiseStays ==
  ASSUME TypesInv, BornInv, NEW j \in Jobs, Promised(j),
         jobs'[j].cam = jobs[j].cam, jobs'[j].on = jobs[j].on, jobs'[j].pc = jobs[j].pc,
         \A f \in Facades : wraps[f] = jobs[j].cam => wraps'[f] = wraps[f],
         jobs[j].cam \in Cameras /\ jobs[j].pc = "osread" =>
           /\ cams'[jobs[j].cam].fd = "open" => cams[jobs[j].cam].fd = "open"
           /\ ready[jobs[j].cam] => ready'[jobs[j].cam],
         link' \in {link, None, opened + 1}
  PROVE  Promised(j)'
<1> SUFFICES ASSUME jobs'[j].pc = "osread", Mine(j)'.fd = "open",
                    \A f \in Facades : wraps'[f] = jobs'[j].cam => f = jobs'[j].on
             PROVE  ready'[jobs'[j].cam] \/ link' # jobs'[j].cam
  BY DEF Promised
<1>1. jobs[j].cam \in Cameras
  BY DEF TypesInv, KindInv, KindOf, JobTypes, JobRecords, CallPcs
<1>2. ready[jobs[j].cam] \/ link # jobs[j].cam
  <2>1. \A f \in Facades : wraps[f] = jobs[j].cam => f = jobs[j].on
    OBVIOUS
  <2>2. Mine(j).fd = "open"
    BY <1>1 DEF Mine
  <2> QED
    BY <2>1, <2>2 DEF Promised
<1>3. jobs[j].cam \in Nat /\ jobs[j].cam <= opened /\ opened \in Nat
  BY Ordinals
<1>4. jobs[j].cam # opened + 1
  BY <1>3
<1>5. jobs[j].cam # None
  BY <1>1, Numbers
<1> QED
  BY <1>1, <1>2, <1>4, <1>5

LEMMA CallPromises ==
  ASSUME TypesInv, WrapInv, BornInv, ReadInv, NEW j \in Jobs, Call(j), NEW k \in Jobs
  PROVE  Promised(k)'
<1> USE DEF TypesInv
<1>1. /\ Moves(j) /\ jobs'[j].cam = jobs[j].cam /\ jobs[j].cam \in Cameras
      /\ UNCHANGED <<link, wraps>>
  BY CallKeeps
<1>2. jobs[j].kind = "call" /\ Running(j) /\ jobs'[j].on = jobs[j].on /\ jobs[j].on \in Facades
  <2>1. jobs[j].kind = "call" /\ Running(j) /\ jobs'[j].on = jobs[j].on
    BY CallAdvances DEF Advances, Moves
  <2> QED
    BY <2>1 DEF KindInv, KindOf, JobTypes, JobRecords
<1>3. ready' = ready \/ (OsRead(j) /\ Mine(j).fd = "open" /\ ready' = [ready EXCEPT ![jobs[j].cam] = FALSE])
  <2>1. ~OsRead(j) => ready' = ready
    BY DEF Call, Check, Encrypt, Refuses, Write, Cmd, Put, Read, Select, Decrypt,
       camVars, netVars
  <2>2. OsRead(j) /\ Mine(j).fd \in {"none", "closed"} => ready' = ready
    BY DEF OsRead
  <2>3. Mine(j).fd \in {"none", "closed", "open"}
    BY <1>1 DEF Mine, NetTypes, CameraRecords
  <2>4. OsRead(j) /\ Mine(j).fd = "open" => ready' = [ready EXCEPT ![jobs[j].cam] = FALSE]
    BY DEF OsRead
  <2> QED
    BY <2>1, <2>2, <2>3, <2>4
<1>4. CASE k # j
  <2>1. /\ jobs'[k].cam = jobs[k].cam /\ jobs'[k].on = jobs[k].on /\ jobs'[k].pc = jobs[k].pc
        /\ \A c \in Cameras : cams'[c].fd = cams[c].fd
    BY <1>1, <1>4, CallOnCams DEF Moves, Alike
  <2>2. CASE ready' = ready
    BY <1>1, <2>1, <2>2, PromiseStays DEF ReadInv
  <2>3. CASE jobs[k].cam # jobs[j].cam
    <3>1. jobs[k].cam \in Cameras => (ready[jobs[k].cam] => ready'[jobs[k].cam])
      BY <1>1, <1>3, <2>3 DEF NetTypes
    <3> QED
      BY <1>1, <2>1, <3>1, PromiseStays DEF ReadInv
  <2>4. CASE jobs[k].cam = jobs[j].cam
    <3>1. wraps[jobs[j].on] = jobs[j].cam
      BY <1>2, Numbers DEF WrapInv
    <3>2. SUFFICES ASSUME jobs'[k].pc = "osread",
                          \A f \in Facades : wraps'[f] = jobs'[k].cam => f = jobs'[k].on
                   PROVE  FALSE
      BY DEF Promised
    <3>3. jobs[k].on = jobs[j].on /\ Running(k)
      BY <1>1, <1>2, <2>1, <2>4, <3>1, <3>2 DEF Running
    <3> QED
      BY <1>2, <1>4, <3>3, Numbers DEF QueueInv
  <2> QED
    BY <2>3, <2>4
<1>5. CASE k = j
  <2>1. SUFFICES ASSUME jobs'[j].pc = "osread" PROVE ready'[jobs'[j].cam]
    BY <1>5 DEF Promised
  <2>2. Select(j) /\ ready[jobs[j].cam]
    <3>1. \A pc \in CallPcs : Goto(j, pc) => pc = "osread"
      BY <2>1, GotoMoves DEF Pcs
    <3>2. \A end \in Ends \ {"none"} : ~Finish(j, end)
      BY <2>1, FinishMoves
    <3> QED
      BY <3>1, <3>2 DEF Call, Check, Encrypt, Refuses, Write, Cmd, Put, Read, Select,
         OsRead, Decrypt, CallPcs, Ends
  <2> QED
    BY <1>1, <2>2 DEF Select, camVars, netVars
<1> QED
  BY <1>4, <1>5

LEMMA ReadKept ==
  ASSUME TypesInv, WrapInv, BornInv, ReadInv, [Next]_vars
  PROVE  ReadInv'
<1> USE DEF TypesInv
<1>1. ASSUME NEW j \in Jobs, CloseCamera(j), NEW k \in Jobs PROVE Promised(k)'
  <2>1. /\ Moves(j) /\ jobs'[j].cam = jobs[j].cam /\ jobs[j].cam \in Cameras
        /\ jobs'[j].pc \in ClosePcs \cup {"open", "done"}
        /\ wraps' = wraps /\ link' \in {link, None}
    BY <1>1, CloseKeeps
  <2>2. ready' = ready \/ ready' = [ready EXCEPT ![jobs[j].cam] = TRUE]
    BY <1>1 DEF CloseCamera, Lower, Kill, FindFd, OsClose, OsCloseRaises, ForgetFd,
       ForgetSess, camVars, netVars
  <2>3. CASE k = j
    BY <2>1, <2>3 DEF Promised, ClosePcs
  <2>4. CASE k # j
    <3>1. /\ jobs'[k].cam = jobs[k].cam /\ jobs'[k].on = jobs[k].on /\ jobs'[k].pc = jobs[k].pc
      BY <2>1, <2>4 DEF Moves, Alike
    <3>2. \A c \in Cameras : /\ ready[c] => ready'[c]
                             /\ cams'[c].fd = "open" => cams[c].fd = "open"
      BY <1>1, <2>1, <2>2, CloseOnCams DEF NetTypes
    <3> QED
      BY <2>1, <3>1, <3>2, PromiseStays DEF ReadInv
  <2> QED
    BY <2>3, <2>4
<1>2. ASSUME NEW j \in Jobs, Manage(j), NEW k \in Jobs PROVE Promised(k)'
  <2>1. /\ Moves(j) /\ KindOf(jobs'[j]) /\ jobs'[j].kind \in {"connect", "close"} /\ wraps' = wraps
    BY <1>2, ManageAdvances DEF Advances, Moves
  <2>2. ready' = ready /\ link' \in {link, None, opened + 1}
    BY <1>2 DEF Manage, Look, Give, TakeOut, TakeTransport, Open, OpenFails, Resumes,
       ResumeFails, ResumeRaises, StoreTransport, Store, camVars, netVars
  <2>3. CASE k = j
    BY <2>1, <2>3 DEF Promised, KindOf, ClosePcs, PoolPcs
  <2>4. CASE k # j
    <3>1. /\ jobs'[k].cam = jobs[k].cam /\ jobs'[k].on = jobs[k].on /\ jobs'[k].pc = jobs[k].pc
      BY <2>1, <2>4 DEF Moves, Alike
    <3>2. jobs[k].cam \in Nat /\ opened \in Nat /\ jobs[k].cam <= opened
      BY Ordinals
    <3>3. jobs[k].cam # opened + 1
      BY <3>2
    <3>4. jobs[k].cam \in Cameras =>
            (cams'[jobs[k].cam].fd = "open" => cams[jobs[k].cam].fd = "open")
      BY <1>2, <3>3, ManageOnCams
    <3> QED
      BY <2>1, <2>2, <3>1, <3>4, PromiseStays DEF ReadInv
  <2> QED
    BY <2>3, <2>4
<1>3. ASSUME NEW j \in Jobs, NEW r \in JobRecords, Enters(j, r), NEW k \in Jobs PROVE Promised(k)'
  <2>1. /\ jobs'[j] = r /\ (k # j => jobs'[k] = jobs[k]) /\ UNCHANGED <<cams, ready, link, wraps>>
        /\ r.pc \in {"queued", "look", "take"}
    BY <1>3 DEF Enters, JobTypes, camVars, netVars
  <2> QED
    BY <2>1 DEF ReadInv, Promised, Mine
<1>4. ASSUME NEW j \in Jobs, TakesTurn(j), NEW k \in Jobs PROVE Promised(k)'
  <2>1. /\ Moves(j) /\ jobs'[j].cam = jobs[j].cam /\ UNCHANGED <<cams, ready, link>>
        /\ jobs'[j].on = jobs[j].on
        /\ k # j => jobs'[k].cam = jobs[k].cam /\ jobs'[k].on = jobs[k].on /\ jobs'[k].pc = jobs[k].pc
    BY <1>4 DEF TakesTurn, camVars, netVars, Moves, Alike
  <2>2. jobs'[j].pc = jobs[j].pc \/ jobs'[j].pc \in {"gone", "check", "lower"}
    BY <1>4 DEF TakesTurn
  <2>3. \A f \in Facades : wraps[f] # None => wraps'[f] = wraps[f]
    <3>1. CASE wraps' = wraps
      BY <3>1
    <3>2. CASE jobs[j].pc = "done" /\ wraps' = [wraps EXCEPT ![j] = jobs[j].cam]
      <4>1. wraps[j] = None
        BY <3>2, Numbers DEF WrapInv
      <4> QED
        BY <3>2, <4>1 DEF WrapTypes
    <3> QED
      BY <1>4, <3>1, <3>2 DEF TakesTurn
  <2>4. jobs[k].pc = "osread" => jobs[k].cam # None
    BY DEF KindInv, KindOf, CallPcs
  <2>5. CASE jobs'[k].pc # "osread"
    BY <2>5 DEF Promised
  <2>6. CASE jobs'[k].pc = "osread"
    <3>1. /\ jobs[k].pc = "osread" /\ jobs'[k].cam = jobs[k].cam /\ jobs'[k].on = jobs[k].on
      BY <2>1, <2>2, <2>6
    <3> QED
      BY <2>1, <2>3, <2>4, <2>6, <3>1, PromiseStays DEF ReadInv
  <2> QED
    BY <2>5, <2>6
<1>5. CASE /\ UNCHANGED <<jobs, wraps, cams, opened>>
           /\ LinkDrops \/ OutputArrives \/ UNCHANGED <<link, ready>>
  <2>1. link' \in {link, None} /\ \A c \in Cameras : ready[c] => ready'[c]
    BY <1>5 DEF LinkDrops, OutputArrives, NetTypes
  <2> QED
    BY <1>5, <2>1, PromiseStays DEF ReadInv
<1>6. ASSUME NEW j \in Jobs, Work(j) PROVE ReadInv'
  BY <1>1, <1>2, <1>6, CallPromises DEF Work, ReadInv
<1> QED
  BY <1>3, <1>4, <1>5, <1>6, Steps DEF ReadInv

-----------------------------------------------------------------------------
(* The connection is the manager's, one that an exception or another       *)
(* connect has left, or that of the job that opens it or closes it.        *)
Holds(k) == jobs[k].pc \in {"resume", "store", "stored", "taken", "lower", "kill"}

LinkInv ==
  link # None =>
    managed = link \/ link \in lost \/ \E k \in Jobs : jobs[k].cam = link /\ Holds(k)

(* The same after a step of j.                                             *)
Kept(j) == managed' = link \/ link \in lost' \/ (jobs'[j].cam = link /\ Holds(j)')

(* A step of one job that leaves hold of nothing.                          *)
LEMMA HeldStays ==
  ASSUME LinkInv, NEW j \in Jobs, Moves(j), link' \in {link, None}, lost \subseteq lost',
         link' # None /\ managed = link => Kept(j),
         link' # None /\ jobs[j].cam = link /\ Holds(j) => Kept(j)
  PROVE  LinkInv'
<1> SUFFICES ASSUME link' # None
             PROVE  \/ managed' = link' \/ link' \in lost'
                    \/ \E k \in Jobs : jobs'[k].cam = link' /\ Holds(k)'
  BY DEF LinkInv
<1>1. link' = link
  OBVIOUS
<1>2. CASE managed = link \/ link \in lost
  BY <1>1, <1>2 DEF Kept
<1>3. CASE \E k \in Jobs : jobs[k].cam = link /\ Holds(k)
  <2>1. PICK k \in Jobs : jobs[k].cam = link /\ Holds(k)
    BY <1>3
  <2>2. CASE k = j
    BY <1>1, <2>1, <2>2 DEF Kept
  <2>3. CASE k # j
    <3>1. jobs'[k].cam = link /\ Holds(k)'
      BY <2>1, <2>3 DEF Moves, Alike, Holds
    <3> QED
      BY <1>1, <3>1
  <2> QED
    BY <2>2, <2>3
<1> QED
  BY <1>1, <1>2, <1>3 DEF LinkInv

LEMMA CloseHolds ==
  ASSUME TypesInv, LinkInv, NEW j \in Jobs, CloseCamera(j)
  PROVE  LinkInv'
<1>1. /\ Moves(j) /\ jobs'[j].cam = jobs[j].cam /\ jobs[j].pc \in ClosePcs
      /\ UNCHANGED <<managed, lost>> /\ link' \in {link, None}
  BY CloseKeeps
<1>2. CASE jobs[j].pc \notin {"lower", "kill"}
  BY <1>1, <1>2, HeldStays DEF Holds, Kept, ClosePcs
<1>3. CASE Lower(j)
  <2>1. jobs'[j].pc = "kill"
    BY <1>3, CloseMoves DEF Lower, Pcs, ClosePcs, TypesInv
  <2> QED
    BY <1>1, <2>1, HeldStays DEF Holds, Kept
<1>4. CASE Kill(j)
  <2>1. link' # None => jobs[j].cam # link
    BY <1>4 DEF Kill
  <2> QED
    BY <1>1, <2>1, HeldStays DEF Kept
<1>5. jobs[j].pc \in {"lower", "kill"} => Lower(j) \/ Kill(j)
  BY DEF CloseCamera, FindFd, OsClose, OsCloseRaises, ForgetFd, ForgetSess, CloseStep
<1> QED
  BY <1>2, <1>3, <1>4, <1>5

LEMMA ManageHolds ==
  ASSUME TypesInv, LinkInv, NEW j \in Jobs, Manage(j)
  PROVE  LinkInv'
<1> USE DEF TypesInv
<1>1. Moves(j)
  BY ManageAdvances DEF Advances
<1>2. CASE Look(j) \/ Give(j) \/ OpenFails(j)
  <2>1. ~Holds(j) /\ UNCHANGED <<managed, lost, link>>
    BY <1>2 DEF Look, Give, OpenFails, Holds, camVars, netVars
  <2> QED
    BY <1>1, <2>1, HeldStays DEF Kept
<1>3. CASE TakeOut(j)
  <2>1. ~Holds(j) /\ UNCHANGED <<lost, link>>
    BY <1>3 DEF TakeOut, Holds, netVars
  <2>2. jobs'[j].cam = managed /\ Holds(j)'
    BY <1>3 DEF TakeOut, Holds, JobTypes, JobRecords
  <2> QED
    BY <1>1, <2>1, <2>2, HeldStays DEF Kept
<1>4. CASE TakeTransport(j)
  <2>1. UNCHANGED <<managed, lost, link>>
    BY <1>4 DEF TakeTransport
  <2>2. jobs[j].cam # None => jobs'[j].cam = jobs[j].cam /\ Holds(j)'
    BY <1>4, TransportTaken DEF Holds
  <2> QED
    BY <1>1, <2>1, <2>2, HeldStays DEF Kept
<1>5. CASE Resumes(j) \/ StoreTransport(j)
  <2>1. UNCHANGED <<managed, lost, link>>
    BY <1>5 DEF Resumes, StoreTransport, netVars
  <2>2. jobs'[j].cam = jobs[j].cam /\ jobs'[j].pc \in {"store", "stored"}
    BY <1>5, GotoMoves DEF Resumes, StoreTransport, Pcs, PoolPcs
  <2> QED
    BY <1>1, <2>1, <2>2, HeldStays DEF Kept, Holds
<1>6. CASE ResumeFails(j)
  <2>1. /\ UNCHANGED <<managed, lost>> /\ link' \in {link, None}
        /\ link' # None => jobs[j].cam # link
    BY <1>6 DEF ResumeFails
  <2> QED
    BY <1>1, <2>1, HeldStays DEF Kept
<1>7. CASE ResumeRaises(j)
  <2>1. UNCHANGED <<managed, link>> /\ lost' = lost \cup {jobs[j].cam}
    BY <1>7 DEF ResumeRaises
  <2> QED
    BY <1>1, <2>1, HeldStays DEF Kept
<1>8. CASE Store(j)
  <2>1. /\ managed' = jobs[j].cam /\ link' = link
        /\ lost' = lost \cup ({managed} \ {managed', None})
    BY <1>8 DEF Store
  <2> QED
    BY <1>1, <2>1, HeldStays DEF Kept
<1>9. CASE Open(j)
  <2>1. link' = opened + 1 /\ jobs'[j].cam = opened + 1 /\ jobs'[j].pc = "resume"
    BY <1>9 DEF Open, JobTypes, JobRecords
  <2> QED
    BY <2>1 DEF LinkInv, Holds
<1> QED
  BY <1>2, <1>3, <1>4, <1>5, <1>6, <1>7, <1>8, <1>9 DEF Manage

LEMMA LinkKept ==
  ASSUME TypesInv, LinkInv, [Next]_vars
  PROVE  LinkInv'
<1> USE DEF TypesInv
<1>1. ASSUME NEW j \in Jobs, Call(j) PROVE LinkInv'
  <2>1. Moves(j) /\ UNCHANGED <<managed, lost, link>>
    BY <1>1, CallKeeps
  <2>2. ~Holds(j)
    BY <1>1 DEF Call, Check, Encrypt, Refuses, Write, Cmd, Put, Read, Select, OsRead,
       Decrypt, Holds
  <2> QED
    BY <2>1, <2>2, HeldStays DEF Kept
<1>2. ASSUME NEW j \in Jobs, NEW r \in JobRecords, Enters(j, r) PROVE LinkInv'
  <2>1. /\ \A k \in Jobs : k # j => jobs'[k] = jobs[k]
        /\ UNCHANGED <<managed, lost, link>> /\ jobs[j].kind = "none"
    BY <1>2 DEF Enters, JobTypes, camVars, netVars
  <2>2. ~Holds(j)
    BY <2>1 DEF KindInv, KindOf, Holds
  <2> QED
    BY <2>1, <2>2 DEF LinkInv, Holds
<1>3. ASSUME NEW j \in Jobs, TakesTurn(j) PROVE LinkInv'
  <2>1. Moves(j) /\ jobs'[j].cam = jobs[j].cam /\ UNCHANGED <<managed, lost, link>>
    BY <1>3 DEF TakesTurn, camVars, netVars
  <2>2. Holds(j) => Holds(j)'
    BY <1>3 DEF TakesTurn, Holds
  <2> QED
    BY <2>1, <2>2, HeldStays DEF Kept
<1>4. CASE /\ UNCHANGED <<jobs, managed, lost>>
           /\ LinkDrops \/ OutputArrives \/ UNCHANGED <<link, ready>>
  <2>1. link' \in {link, None}
    BY <1>4 DEF LinkDrops, OutputArrives
  <2> QED
    BY <1>4, <2>1 DEF LinkInv, Holds
<1>5. ASSUME NEW j \in Jobs, Work(j) PROVE LinkInv'
  BY <1>1, <1>5, CloseHolds, ManageHolds DEF Work
<1> QED
  BY <1>2, <1>3, <1>4, <1>5, Steps

-----------------------------------------------------------------------------
Inv == TypesInv /\ WrapInv /\ BornInv /\ AliveInv /\ StrayInv /\ ReadInv /\ LinkInv

LEMMA InvStarts ==
  ASSUME Init
  PROVE  Inv
<1>1. TypesInv /\ \A j \in Jobs : jobs[j] = NoJob
  BY TypesStart DEF Init
<1>2. \A j \in Jobs : /\ jobs[j].pc = "none" /\ jobs[j].on = None /\ jobs[j].cam = None
                      /\ jobs[j].end = "none" /\ jobs[j].kind = "none"
  BY <1>1 DEF NoJob
<1>3. WrapInv
  BY <1>2 DEF Init, WrapInv
<1>4. BornInv
  BY <1>2 DEF Init, BornInv, NumbersInv, SecretInv, Opening, None
<1>5. AliveInv
  BY <1>2 DEF Init, AliveInv, Unborn, ClosePcs
<1>6. StrayInv
  BY <1>2 DEF StrayInv, Fits, CallPcs
<1>7. ReadInv
  BY <1>2 DEF ReadInv, Promised
<1>8. LinkInv
  BY DEF Init, LinkInv
<1> QED
  BY <1>1, <1>3, <1>4, <1>5, <1>6, <1>7, <1>8 DEF Inv

LEMMA InvKept ==
  ASSUME Inv, [Next]_vars
  PROVE  Inv'
<1>1. TypesInv'
  BY TypesKept DEF Inv
<1> QED
  BY <1>1, WrapsKept, BornKept, AliveKept, StrayKept, ReadKept, LinkKept DEF Inv

(* The parts hold together in every reachable state, for any number of     *)
(* jobs and connections, whatever the coroutines cancel and whenever the   *)
(* link drops (aio.py, the threads of its executors beneath).              *)
THEOREM InvAlways == Spec => []Inv
<1>1. Init => Inv
  BY InvStarts
<1>2. Inv /\ [Next]_vars => Inv'
  BY InvKept
<1> QED
  BY <1>1, <1>2, PTL DEF Spec

(* The exceptions of a session or a terminal that is not there come out of *)
(* a call, an aclose or the close of a bare transport only when another    *)
(* executor has closed the camera beside it, for any number of jobs,       *)
(* cameras and cancellations; the ValueErrors and OverflowErrors of what   *)
(* is sent or read are told apart (aio.py __getattr__, aclose).            *)
THEOREM StrayIsExplained == Spec => []StrayOnlyBesideClose
<1>1. Inv => StrayOnlyBesideClose
  BY DEF Inv, StrayInv, Fits, StrayOnlyBesideClose
<1> QED
  BY <1>1, InvAlways, PTL

(* A call that holds the only facade of its camera never waits in os.read  *)
(* for output that another call has taken: the one thread of the facade's  *)
(* executor is enough (aio.py _executor, ble_btgatt.py _pump).             *)
THEOREM ReadsAreReady == Spec => []ReadNeverWaits
<1>1. ASSUME Inv, NEW j \in Jobs, jobs[j].pc = "osread", Mine(j).fd = "open",
             Cardinality(Wrapped(jobs[j].cam)) = 1
      PROVE  ready[jobs[j].cam] \/ link # jobs[j].cam
  <2>1. IsFiniteSet(Wrapped(jobs[j].cam))
    BY Numbers, FS_Subset DEF Wrapped
  <2>2. PICK f \in Wrapped(jobs[j].cam) : Wrapped(jobs[j].cam) = {f}
    <3>1. \E f : Wrapped(jobs[j].cam) = {f}
      BY <1>1, <2>1, FS_Singleton
    <3> QED
      BY <3>1
  <2>3. jobs[j].on \in Facades /\ wraps[jobs[j].on] = jobs[j].cam
    <3>1. jobs[j].on # None
      BY <1>1 DEF Inv, TypesInv, KindInv, KindOf, JobTypes, JobRecords, CallPcs, ClosePcs,
         PoolPcs, EndPcs
    <3> QED
      BY <1>1, <3>1 DEF Inv, TypesInv, JobTypes, JobRecords, WrapInv
  <2>4. \A g \in Facades : wraps[g] = jobs[j].cam => g = jobs[j].on
    BY <2>2, <2>3 DEF Wrapped
  <2> QED
    BY <1>1, <2>4 DEF Inv, ReadInv, Promised
<1>2. Inv => ReadNeverWaits
  BY <1>1 DEF ReadNeverWaits
<1> QED
  BY <1>2, InvAlways, PTL

(* When no job runs any more, a connection that is up is the manager's,    *)
(* whichever awaits were cancelled and whatever closed or connected        *)
(* meanwhile, unless the exception of a resume left it open or a connect   *)
(* stored another camera over it (aio.py connect, connection.py connect    *)
(* and close).                                                             *)
THEOREM NoLinkIsLost == Spec => []LinkIsReachable
<1>1. ASSUME Inv, link # None, \A j \in Jobs : ~Running(j)
      PROVE  managed = link \/ link \in lost
  <2>1. \A k \in Jobs : ~Holds(k)
    BY <1>1 DEF Running, Holds
  <2> QED
    BY <1>1, <2>1 DEF Inv, LinkInv
<1>2. Inv => LinkIsReachable
  BY <1>1 DEF LinkIsReachable
<1> QED
  BY <1>2, InvAlways, PTL
=============================================================================
