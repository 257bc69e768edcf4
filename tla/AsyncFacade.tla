----------------------------- MODULE AsyncFacade -----------------------------
(***************************************************************************)
(* The asyncio facade (aio.py) over ConnectionManager and Camera: the      *)
(* event loop submits jobs, each AsyncCamera has an executor of one thread *)
(* for the calls of its camera, connect and close run on the threads of    *)
(* the loop's default executor.  What a call and a close do to the same    *)
(* Camera and BtgattTransport from two threads is modelled one access to   *)
(* sess, alive and fd a step.                                              *)
(*                                                                         *)
(* A call reads in rounds until its answer or its time is up; one round is *)
(* modelled, as the close may come at any point of it.  The handshake and  *)
(* the keepalive thread are abstracted (Connection, Camera).               *)
(***************************************************************************)
EXTENDS Naturals, Sequences, FiniteSets, SequencesExt

CONSTANTS
  JobsMax,     \* bound: the jobs submitted
  CamerasMax   \* bound: the connections opened

ASSUME BoundAssumption == JobsMax \in Nat /\ CamerasMax \in Nat

Jobs == 1..JobsMax
Cameras == 1..CamerasMax
Facades == 1..JobsMax      \* one per connect that returns
None == 0

VARIABLES
  jobs,        \* what was submitted, by number
  queue,       \* per facade: the jobs of its executor, the running one first
  down,        \* per facade: its executor is shut down
  wraps,       \* per facade: its camera, None before it is made
  current,     \* AsyncConnection._cam
  managed,     \* ConnectionManager.camera
  transport,   \* ConnectionManager.transport, by the camera it was made for
  lost,        \* history: the cameras left open by an exception of connect, or
               \* forgotten because another connect stored its own over them
  cams,        \* per camera: Camera.sess, and its transport's alive and fd
  link,        \* the camera whose client holds the BLE connection
  ready,       \* per camera: the terminal has output to read
  opened,      \* the connections opened so far
  dropped      \* bound: the link has dropped once

loopVars == <<queue, down, wraps, current>>
netVars == <<transport, lost, link, ready, opened, dropped>>
camVars == <<managed, cams, netVars>>
vars == <<jobs, loopVars, camVars>>

NoJob == [kind |-> "none", on |-> None, cam |-> None, pc |-> "none", end |-> "none",
          bare |-> FALSE, awaited |-> FALSE, beside |-> FALSE]

Unborn == [sess |-> FALSE, alive |-> FALSE, fd |-> "none"]

Init ==
  /\ jobs = [j \in Jobs |-> NoJob]
  /\ queue = [f \in Facades |-> << >>]
  /\ down = [f \in Facades |-> FALSE]
  /\ wraps = [f \in Facades |-> None]
  /\ current = None
  /\ managed = None /\ transport = None /\ lost = {}
  /\ cams = [c \in Cameras |-> Unborn]
  /\ link = None
  /\ ready = [c \in Cameras |-> FALSE]
  /\ opened = 0
  /\ dropped = FALSE

Submitted(j) == jobs[j].kind # "none"
Free(j) == ~Submitted(j) /\ \A k \in 1..(j - 1) : Submitted(k)

(* Started and not finished.                                               *)
Running(j) == jobs[j].pc \notin {"none", "queued", "done", "gone"}

Without(s, j) == RemoveAt(s, CHOOSE i \in 1..Len(s) : s[i] = j)

NewJob(kind, f, c, pc) ==
  [kind |-> kind, on |-> f, cam |-> c, pc |-> pc, end |-> "none",
   bare |-> FALSE, awaited |-> TRUE, beside |-> FALSE]

-----------------------------------------------------------------------------
(* The event loop.  A wrapped method or aclose goes to the facade's own    *)
(* executor, which refuses it once it is shut down; connect and close to   *)
(* the default one, where a thread takes it at once.                       *)
Submit(f, kind) ==
  \E j \in Jobs :
    /\ Free(j) /\ wraps[f] # None /\ ~down[f]
    /\ jobs' = [jobs EXCEPT ![j] = NewJob(kind, f, wraps[f], "queued")]
    /\ queue' = [queue EXCEPT ![f] = Append(@, j)]
    /\ UNCHANGED <<down, wraps, current, camVars>>

SubmitToPool(kind) ==
  \E j \in Jobs :
    /\ Free(j)
    /\ jobs' = [jobs EXCEPT ![j] =
                  NewJob(kind, None, None, IF kind = "connect" THEN "look" ELSE "take")]
    /\ UNCHANGED <<queue, down, wraps, current, camVars>>

(* The awaiting task is cancelled: a job no thread has taken is taken out  *)
(* of the queue, a running one runs on with nobody waiting for it.         *)
Cancel(j) ==
  /\ jobs[j].awaited /\ jobs[j].pc \notin {"done", "gone"}
  /\ IF jobs[j].pc = "queued"
       THEN /\ jobs' = [jobs EXCEPT ![j].pc = "gone", ![j].awaited = FALSE]
            /\ queue' = [queue EXCEPT ![jobs[j].on] = Without(@, j)]
       ELSE /\ jobs' = [jobs EXCEPT ![j].awaited = FALSE]
            /\ UNCHANGED queue
  /\ UNCHANGED <<down, wraps, current, camVars>>

(* The task goes on behind its await: connect makes a facade for what it   *)
(* got, close and aclose shut an executor down without waiting.            *)
Resume(j) ==
  /\ jobs[j].awaited /\ jobs[j].pc = "done"
  /\ jobs' = [jobs EXCEPT ![j].pc = "gone"]
  /\ IF jobs[j].kind = "connect" /\ jobs[j].end = "ok"
       THEN /\ wraps' = [wraps EXCEPT ![j] = jobs[j].cam]
            /\ current' = j
       ELSE UNCHANGED <<wraps, current>>
  /\ down' = CASE jobs[j].kind = "close" /\ current # None -> [down EXCEPT ![current] = TRUE]
               [] jobs[j].kind = "aclose" /\ jobs[j].end = "ok" ->
                    [down EXCEPT ![jobs[j].on] = TRUE]
               [] OTHER -> down
  /\ UNCHANGED <<queue, camVars>>

Begin(f, j) ==
  /\ jobs[j].pc = "queued"
  /\ jobs' = [jobs EXCEPT ![j].pc = IF jobs[j].kind = "call" THEN "check" ELSE "lower"]
  /\ UNCHANGED <<loopVars, camVars>>

(* Mutants of Take: an executor that runs nothing more once it is shut     *)
(* down; an executor of many threads.                                      *)
TakeIfUp(f) == queue[f] # << >> /\ ~down[f] /\ Begin(f, Head(queue[f]))
TakeAny(f) == \E j \in ToSet(queue[f]) : Begin(f, j)

(* The thread of an executor takes the oldest job, shut down or not, when  *)
(* it has finished the one before.                                         *)
Take(f) == queue[f] # << >> /\ Begin(f, Head(queue[f]))

-----------------------------------------------------------------------------
(* The threads.  end is "ok", "error" for a CameraError, "own" for the     *)
(* ValueError or OverflowError of what is sent or read, "stray" for the    *)
(* exceptions of a session or a terminal that is not there.                *)
Goto(j, pc) == jobs' = [jobs EXCEPT ![j].pc = pc] /\ UNCHANGED loopVars

Finish(j, end) ==
  /\ jobs' = [jobs EXCEPT ![j].pc = "done", ![j].end = end]
  /\ queue' = IF jobs[j].on = None THEN queue
              ELSE [queue EXCEPT ![jobs[j].on] = Without(@, j)]
  /\ UNCHANGED <<down, wraps, current>>

Mine(j) == cams[jobs[j].cam]

(* A call: _send_enc looks at sess, and uses it when it encrypts.          *)
Check(j) ==
  /\ jobs[j].pc = "check"
  /\ IF Mine(j).sess THEN Goto(j, "seal") ELSE Finish(j, "error")
  /\ UNCHANGED camVars

Encrypt(j) ==
  /\ jobs[j].pc = "seal"
  /\ IF Mine(j).sess THEN Goto(j, "write") ELSE Finish(j, "stray")
  /\ UNCHANGED camVars

(* Whatever the camera does beside: a used-up counter is an OverflowError  *)
(* out of encrypt and decrypt, a frame too long for one write a ValueError *)
(* ahead of _cmd, and so is an answer the parsers do not take.             *)
Refuses(j) ==
  /\ \/ jobs[j].pc \in {"seal", "decrypt"} /\ Mine(j).sess
     \/ jobs[j].pc = "cmd"
  /\ Finish(j, "own")
  /\ UNCHANGED camVars

(* _write: _check_alive; _cmd, whose lock close does not take; os.write.   *)
Write(j) ==
  /\ jobs[j].pc = "write"
  /\ IF Mine(j).alive THEN Goto(j, "cmd") ELSE Finish(j, "error")
  /\ UNCHANGED camVars

Cmd(j) ==
  /\ jobs[j].pc = "cmd"
  /\ IF Mine(j).alive /\ Mine(j).fd # "none" THEN Goto(j, "put") ELSE Finish(j, "error")
  /\ UNCHANGED camVars

(* A closed descriptor is an OSError, which _write turns into              *)
(* ConnectionLost; None is a TypeError.                                    *)
Put(j) ==
  /\ jobs[j].pc = "put"
  /\ CASE Mine(j).fd = "open"   -> Goto(j, "read") /\ UNCHANGED cams
       [] Mine(j).fd = "closed" -> /\ Finish(j, "error")
                                   /\ cams' = [cams EXCEPT ![jobs[j].cam].alive = FALSE]
       [] OTHER                 -> Finish(j, "stray") /\ UNCHANGED cams
  /\ UNCHANGED <<managed, netVars>>

(* _read_raw: _check_alive, then the pump; without a descriptor it returns *)
(* nothing, and the next _check_alive finds the flag down.                 *)
Read(j) ==
  /\ jobs[j].pc = "read"
  /\ IF Mine(j).alive /\ Mine(j).fd # "none" THEN Goto(j, "select") ELSE Finish(j, "error")
  /\ UNCHANGED camVars

(* select is outside the pump's try: its OSError for a closed descriptor,  *)
(* like its TypeError for None, leaves the call.  With nothing to read the *)
(* call's time runs out.                                                   *)
Select(j) ==
  /\ jobs[j].pc = "select"
  /\ IF Mine(j).fd # "open" THEN Finish(j, "stray")
     ELSE IF ready[jobs[j].cam] THEN Goto(j, "osread")
     ELSE Finish(j, "ok")
  /\ UNCHANGED camVars

(* os.read waits when another reader has taken the output.  The end of a   *)
(* connection is in the output too, and lowers the flag; its notice taken, *)
(* the client's exit ends the wait (its timeout at the latest).            *)
OsRead(j) ==
  /\ jobs[j].pc = "osread"
  /\ LET c == jobs[j].cam
     IN CASE Mine(j).fd = "none"   -> Finish(j, "stray") /\ UNCHANGED <<cams, ready>>
          [] Mine(j).fd = "closed" -> /\ Finish(j, "error")
                                      /\ cams' = [cams EXCEPT ![c].alive = FALSE]
                                      /\ UNCHANGED ready
          [] OTHER -> /\ ready[c] \/ link # c
                      /\ ready' = [ready EXCEPT ![c] = FALSE]
                      /\ IF link = c
                           THEN Goto(j, "decrypt") /\ UNCHANGED cams
                           ELSE /\ Finish(j, "error")
                                /\ cams' = [cams EXCEPT ![c].alive = FALSE]
  /\ UNCHANGED <<managed, transport, lost, link, opened, dropped>>

Decrypt(j) ==
  /\ jobs[j].pc = "decrypt"
  /\ Finish(j, IF Mine(j).sess THEN "ok" ELSE "stray")
  /\ UNCHANGED camVars

Call(j) ==
  \/ Check(j) \/ Encrypt(j) \/ Refuses(j) \/ Write(j) \/ Cmd(j) \/ Put(j)
  \/ Read(j) \/ Select(j) \/ OsRead(j) \/ Decrypt(j)

-----------------------------------------------------------------------------
(* Camera.close: the flag, the client process, the descriptor's number,    *)
(* the attribute, and the session last, which the close of a bare          *)
(* transport has not.  Each step is noted with the jobs of other executors *)
(* that use the camera just then.  connect opens when it has closed.       *)
Closed(j) == IF jobs[j].kind = "connect" THEN "open" ELSE "done"
Shut(j) == IF jobs[j].bare THEN Closed(j) ELSE "unsess"

Noted(j, k) ==
  /\ jobs[k].cam = jobs[j].cam /\ Running(k)
  /\ jobs[j].on = None \/ jobs[k].on # jobs[j].on

CloseStep(j, from, to) ==
  /\ jobs[j].pc = from
  /\ jobs' = [k \in Jobs |->
                IF k = j THEN [jobs[k] EXCEPT !.pc = to, !.end = IF to = "done" THEN "ok" ELSE @]
                ELSE [jobs[k] EXCEPT !.beside = @ \/ Noted(j, k)]]

SetMine(j, field, value) == cams' = [cams EXCEPT ![jobs[j].cam][field] = value]

Lower(j) ==
  /\ CloseStep(j, "lower", "kill")
  /\ SetMine(j, "alive", FALSE)
  /\ UNCHANGED <<loopVars, managed, netVars>>

Kill(j) ==
  /\ CloseStep(j, "kill", "osclose")
  /\ link' = IF link = jobs[j].cam THEN None ELSE link
  /\ ready' = [ready EXCEPT ![jobs[j].cam] = TRUE]
  /\ UNCHANGED <<loopVars, managed, cams, transport, lost, opened, dropped>>

FindFd(j) ==
  /\ jobs[j].pc = "osclose"
  /\ CloseStep(j, "osclose", IF Mine(j).fd = "none" THEN Shut(j) ELSE "closefd")
  /\ UNCHANGED <<loopVars, camVars>>

OsClose(j) ==
  /\ jobs[j].pc = "closefd" /\ Mine(j).fd # "none"
  /\ CloseStep(j, "closefd", "forget")
  /\ SetMine(j, "fd", "closed")
  /\ UNCHANGED <<loopVars, managed, netVars>>

(* Another close has set the attribute to None since: TypeError, which     *)
(* ConnectionManager.close swallows from a camera and not from a bare      *)
(* transport, and aclose does not.                                         *)
OsCloseRaises(j) ==
  /\ jobs[j].pc = "closefd" /\ Mine(j).fd = "none"
  /\ IF jobs[j].kind = "aclose" \/ jobs[j].bare THEN Finish(j, "stray")
     ELSE CloseStep(j, "closefd", Closed(j)) /\ UNCHANGED loopVars
  /\ UNCHANGED camVars

ForgetFd(j) ==
  /\ CloseStep(j, "forget", Shut(j))
  /\ SetMine(j, "fd", "none")
  /\ UNCHANGED <<loopVars, managed, netVars>>

ForgetSess(j) ==
  /\ CloseStep(j, "unsess", Closed(j))
  /\ SetMine(j, "sess", FALSE)
  /\ queue' = IF jobs[j].kind = "aclose"
                THEN [queue EXCEPT ![jobs[j].on] = Without(@, j)] ELSE queue
  /\ UNCHANGED <<down, wraps, current, managed, netVars>>

CloseCamera(j) ==
  \/ Lower(j) \/ Kill(j) \/ FindFd(j) \/ OsClose(j) \/ OsCloseRaises(j) \/ ForgetFd(j)
  \/ ForgetSess(j)

-----------------------------------------------------------------------------
(* ConnectionManager.  connect gives out the camera it has while that is   *)
(* connected; a close in between leaves it None to give.                   *)
Look(j) ==
  /\ jobs[j].pc = "look"
  /\ Goto(j, IF managed # None /\ cams[managed].sess /\ cams[managed].alive
               THEN "give" ELSE "take")
  /\ UNCHANGED camVars

Give(j) ==
  /\ jobs[j].pc = "give"
  /\ jobs' = [jobs EXCEPT ![j].pc = "done", ![j].end = "ok", ![j].cam = managed]
  /\ UNCHANGED <<loopVars, camVars>>

(* close takes the camera out of the manager, then the transport, and      *)
(* closes the camera, or the transport alone where there is no camera;     *)
(* connect closes what there is before it opens.                           *)
TakeOut(j) ==
  /\ jobs[j].pc = "take"
  /\ jobs' = [jobs EXCEPT ![j].pc = "taken", ![j].cam = managed]
  /\ managed' = None
  /\ UNCHANGED <<loopVars, cams, netVars>>

TakeTransport(j) ==
  /\ jobs[j].pc = "taken"
  /\ transport' = None
  /\ jobs' = [jobs EXCEPT ![j] =
       CASE @.cam # None      -> [@ EXCEPT !.pc = "lower"]
         [] @.cam = None /\ transport # None ->
              [@ EXCEPT !.pc = "lower", !.cam = transport, !.bare = TRUE]
         [] @.cam = None /\ transport = None /\ @.kind = "connect" ->
              [@ EXCEPT !.pc = "open"]
         [] OTHER             -> [@ EXCEPT !.pc = "done", !.end = "ok"]]
  /\ UNCHANGED <<loopVars, managed, cams, lost, link, ready, opened, dropped>>

(* The camera accepts one connection; attempts may always fail.            *)
Open(j) ==
  /\ jobs[j].pc = "open"
  /\ link = None /\ opened < CamerasMax
  /\ LET c == opened + 1
     IN /\ opened' = c
        /\ link' = c
        /\ cams' = [cams EXCEPT ![c] = [sess |-> FALSE, alive |-> TRUE, fd |-> "open"]]
        /\ jobs' = [jobs EXCEPT ![j].pc = "resume", ![j].cam = c]
  /\ UNCHANGED <<loopVars, managed, transport, lost, ready, dropped>>

OpenFails(j) ==
  /\ jobs[j].pc = "open"
  /\ Finish(j, "error")
  /\ UNCHANGED camVars

(* resume and time_sync.  A CameraError closes the transport; another      *)
(* exception leaves connect with everything open, and nobody has it.       *)
Resumes(j) ==
  /\ jobs[j].pc = "resume" /\ link = jobs[j].cam
  /\ Goto(j, "store")
  /\ SetMine(j, "sess", TRUE)
  /\ UNCHANGED <<managed, netVars>>

ResumeFails(j) ==
  /\ jobs[j].pc = "resume"
  /\ Finish(j, "error")
  /\ cams' = [cams EXCEPT ![jobs[j].cam] = Unborn]
  /\ link' = IF link = jobs[j].cam THEN None ELSE link
  /\ UNCHANGED <<managed, transport, lost, ready, opened, dropped>>

ResumeRaises(j) ==
  /\ jobs[j].pc = "resume"
  /\ Finish(j, "own")
  /\ lost' = lost \cup {jobs[j].cam}
  /\ UNCHANGED <<managed, cams, transport, link, ready, opened, dropped>>

(* The manager takes the transport, then the camera.                       *)
StoreTransport(j) ==
  /\ jobs[j].pc = "store"
  /\ Goto(j, "stored")
  /\ transport' = jobs[j].cam
  /\ UNCHANGED <<managed, cams, lost, link, ready, opened, dropped>>

(* Mutant of Store: the coroutine keeps the camera, not the thread.        *)
StoreIfAwaited(j) ==
  /\ jobs[j].pc = "stored"
  /\ Finish(j, "ok")
  /\ managed' = IF jobs[j].awaited THEN jobs[j].cam ELSE managed
  /\ lost' = lost \cup ({managed} \ {managed', None})
  /\ UNCHANGED <<cams, transport, link, ready, opened, dropped>>

Store(j) ==
  /\ jobs[j].pc = "stored"
  /\ Finish(j, "ok")
  /\ managed' = jobs[j].cam
  /\ lost' = lost \cup ({managed} \ {managed', None})
  /\ UNCHANGED <<cams, transport, link, ready, opened, dropped>>

Manage(j) ==
  \/ Look(j) \/ Give(j) \/ TakeOut(j) \/ TakeTransport(j) \/ Open(j) \/ OpenFails(j)
  \/ Resumes(j) \/ ResumeFails(j) \/ ResumeRaises(j) \/ StoreTransport(j) \/ Store(j)

-----------------------------------------------------------------------------
(* The link goes down; btgatt-client says so in its output.                *)
LinkDrops ==
  /\ link # None /\ ~dropped
  /\ dropped' = TRUE
  /\ link' = None
  /\ ready' = [ready EXCEPT ![link] = TRUE]
  /\ UNCHANGED <<jobs, loopVars, managed, cams, transport, lost, opened>>

(* An answer, a notification or the answer to a heartbeat.                 *)
OutputArrives ==
  /\ link # None /\ ~ready[link]
  /\ ready' = [ready EXCEPT ![link] = TRUE]
  /\ UNCHANGED <<jobs, loopVars, managed, cams, transport, lost, link, opened, dropped>>

Work(j) ==
  \/ jobs[j].kind = "call" /\ Call(j)
  \/ jobs[j].kind # "call" /\ (CloseCamera(j) \/ Manage(j))

Next ==
  \/ \E f \in Facades : Submit(f, "call") \/ Submit(f, "aclose") \/ Take(f)
  \/ SubmitToPool("connect") \/ SubmitToPool("close")
  \/ \E j \in Jobs : Cancel(j) \/ Resume(j) \/ Work(j)
  \/ LinkDrops \/ OutputArrives

Spec == Init /\ [][Next]_vars

(* While a job is left that can go on, some thread takes one or runs on,   *)
(* or the loop turns, or a live camera answers a heartbeat of the          *)
(* keepalive thread.  Which of them is the scheduler's choice.             *)
Fairness ==
  WF_vars(\/ OutputArrives
          \/ \E f \in Facades : Take(f)
          \/ \E j \in Jobs : Resume(j) \/ (Running(j) /\ Work(j)))

FairSpec == Spec /\ Fairness

-----------------------------------------------------------------------------
(* A call ends with the TypeError, AttributeError or OSError of a session  *)
(* or a terminal that is not there, or a close of a bare transport does,   *)
(* only when another thread has closed the camera meanwhile: the calls of  *)
(* an executor and its aclose wait their turns (aio.py __getattr__,        *)
(* aclose), the manager's close does not wait for them.                    *)
StrayOnlyBesideClose == \A j \in Jobs : jobs[j].end = "stray" => jobs[j].beside

(* The one thread of an executor keeps its camera's calls from reading the *)
(* terminal together, where one takes the output select has promised the   *)
(* other and leaves it waiting beyond its time; the exception is a camera  *)
(* that connect has given out twice (aio.py:3).                            *)
Wrapped(c) == {f \in Facades : wraps[f] = c}
ReadNeverWaits ==
  \A j \in Jobs :
    (jobs[j].pc = "osread" /\ Mine(j).fd = "open" /\ Cardinality(Wrapped(jobs[j].cam)) = 1)
      => ready[jobs[j].cam] \/ link # jobs[j].cam

(* When every job has ended, a connection that is still up is the          *)
(* manager's, so that a later close or connect finds it, also when the     *)
(* connect was cancelled, was tried again beside the cancelled one, or had *)
(* a close come while it was under way (connect, close).  The exceptions   *)
(* are those connect itself leaves: one whose resume raised what is no     *)
(* CameraError, one that a second connect stored its own over.             *)
LinkIsReachable ==
  (link # None /\ \A j \in Jobs : ~Running(j)) => managed = link \/ link \in lost

(* Every job comes to its end, whoever closes, cancels or shuts down       *)
(* meanwhile: no executor forgets a job and no read waits for ever.  Of    *)
(* the jobs, which are finitely many, in the end none is under way.        *)
EveryJobEnds == <>[](\A j \in Jobs : jobs[j].pc \in {"none", "done", "gone"})
=============================================================================
