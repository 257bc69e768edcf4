--------------------------- MODULE SecureChannel ---------------------------
(***************************************************************************)
(* The encrypted channel of one connection, after the handshake: the two   *)
(* SecureSession objects (crypto.py), the send path of Camera (camera.py,  *)
(* _send_enc, _write, _check_alive) run by several threads, its receive    *)
(* path (_read_raw, _decrypt) run by one thread, the transport's alive     *)
(* flag, the BLE link and the camera at its far end.                       *)
(*                                                                         *)
(* A frame is a pair of the counter its nonce was made from and a message: *)
(* EAX verifies exactly when the receiver tries the same counter.  A stray *)
(* plaintext indication carries counter 0, which no receiver ever tries.   *)
(***************************************************************************)
EXTENDS Naturals, Sequences

CONSTANTS
  Threads,     \* the threads that call into one Camera
  Reader,      \* the one that reads indications (the worker)
  Nobody,      \* neither a thread nor a frame
  HostMsg,     \* the messages the host encrypts
  LensMsg,     \* the messages the camera encrypts
  Plain,       \* the content of a stray plaintext indication
  Oversize,    \* the host messages that make a frame too long for one write
  CounterMax,  \* the last counter COUNTER_SIZE bytes hold
  WindowMax    \* bound: the indications waiting to be read

ASSUME ReaderAssumption == Reader \in Threads /\ Nobody \notin Threads
ASSUME MsgAssumption == Oversize \subseteq HostMsg /\ Plain \notin LensMsg
ASSUME BoundAssumption == CounterMax \in Nat \ {0} /\ WindowMax \in Nat \ {0}

VARIABLES
  tx, rx,          \* the host's SecureSession: tx_counter, rx_counter
  lensTx, lensRx,  \* the camera's
  lock,            \* who holds Camera._lock
  frame,           \* per thread: the frame it has encrypted and not written
  toLens,          \* frames on their way to the camera
  toHost,          \* indications not read yet
  reading,         \* the reader is inside read_indication
  linkUp,          \* the BLE link, which nobody sees directly
  alive,           \* Transport.alive, what the host believes of it
  emitter,         \* who ran the "disconnected" callbacks
  refused          \* history: an oversized frame consumed a counter in vain

hostVars    == <<tx, rx, reading>>
lensVars    == <<lensTx, lensRx>>
sendVars    == <<lock, frame, refused>>
linkVars    == <<linkUp, alive, emitter>>
vars == <<hostVars, lensVars, sendVars, toLens, toHost, linkVars>>

Frames(M) == [ctr : Nat, msg : M]
NoFrame == [ctr |-> 0, msg |-> Nobody]

Init ==
  /\ tx = 0 /\ rx = 0 /\ lensTx = 0 /\ lensRx = 0
  /\ lock = Nobody
  /\ frame = [t \in Threads |-> NoFrame]
  /\ refused = FALSE
  /\ toLens = << >> /\ toHost = << >> /\ reading = FALSE
  /\ linkUp = TRUE /\ alive = TRUE /\ emitter = Nobody

-----------------------------------------------------------------------------
(* Mutant of Seal: without the lock.                                       *)
SealUnlocked(t, m) ==
  /\ frame[t] = NoFrame
  /\ tx < CounterMax
  /\ tx' = tx + 1
  /\ lock' = t
  /\ frame' = [frame EXCEPT ![t] = [ctr |-> tx + 1, msg |-> m]]
  /\ UNCHANGED <<rx, reading, lensVars, refused, toLens, toHost, linkVars>>

(* Sending: _send_enc takes the lock and encrypts, which advances the      *)
(* counter for good.                                                       *)
Seal(t, m) ==
  /\ lock = Nobody
  /\ tx < CounterMax
  /\ tx' = tx + 1
  /\ lock' = t
  /\ frame' = [frame EXCEPT ![t] = [ctr |-> tx + 1, msg |-> m]]
  /\ UNCHANGED <<rx, reading, lensVars, refused, toLens, toHost, linkVars>>

(* One more than COUNTER_SIZE bytes hold: to_bytes raises OverflowError    *)
(* after the increment.  Later attempts do the same again, which changes   *)
(* only tx; the model stops counting at CounterMax + 1.                    *)
SealOverflow(t) ==
  /\ lock = Nobody
  /\ tx = CounterMax
  /\ tx' = tx + 1
  /\ UNCHANGED <<rx, reading, lensVars, sendVars, toLens, toHost, linkVars>>

Release(t) ==
  /\ lock' = Nobody
  /\ frame' = [frame EXCEPT ![t] = NoFrame]

(* _check_alive with the flag down: the callbacks run on the calling       *)
(* thread, unless some thread has run them before.                         *)
Report(t) ==
  /\ alive' = FALSE
  /\ emitter' = IF emitter = Nobody THEN t ELSE emitter

(* _write hands the frame to the transport and the link carries it.        *)
PostArrives(t) ==
  /\ frame[t] # NoFrame
  /\ alive /\ linkUp
  /\ frame[t].msg \notin Oversize
  /\ toLens' = Append(toLens, frame[t])
  /\ Release(t)
  /\ UNCHANGED <<refused, hostVars, lensVars, toHost, linkVars>>

(* The link is gone and nothing has told the host: btgatt-client takes the *)
(* command line and drops it.                                              *)
PostSwallowed(t) ==
  /\ frame[t] # NoFrame
  /\ alive /\ ~linkUp
  /\ frame[t].msg \notin Oversize
  /\ Release(t)
  /\ UNCHANGED <<refused, hostVars, lensVars, toLens, toHost, linkVars>>

(* ValueError from the transport: not an OSError, so it leaves _write as   *)
(* it is and alive stays up.  The counter has been consumed.               *)
PostOversize(t) ==
  /\ frame[t] # NoFrame
  /\ alive
  /\ frame[t].msg \in Oversize
  /\ Release(t)
  /\ refused' = TRUE
  /\ UNCHANGED <<hostVars, lensVars, toLens, toHost, linkVars>>

(* The first _check_alive of _write raises, or the write raises OSError    *)
(* and _write lowers the flag and calls _check_alive itself.               *)
PostFails(t) ==
  /\ frame[t] # NoFrame
  /\ \/ ~alive
     \/ ~linkUp /\ frame[t].msg \notin Oversize
  /\ Report(t)
  /\ Release(t)
  /\ UNCHANGED <<refused, hostVars, lensVars, toLens, toHost, linkUp>>

Post(t) == PostArrives(t) \/ PostSwallowed(t) \/ PostOversize(t) \/ PostFails(t)

-----------------------------------------------------------------------------
(* Receiving.  decrypt tries the next counter and no other.  Once rx is    *)
(* CounterMax there is no next one: _nonce raises OverflowError where a    *)
(* message would be refused, and rx stays as it is in both cases.          *)
Verifies(f, counter) == f.ctr = counter + 1 /\ counter < CounterMax

(* Mutant of ReadBegins: without a look at the flag.                       *)
ReadBeginsUnchecked ==
  /\ ~reading
  /\ reading' = TRUE
  /\ UNCHANGED <<tx, rx, lensVars, sendVars, toLens, toHost, linkVars>>

(* One round of a read loop: _read_raw looks at the flag and goes into     *)
(* read_indication.  The flag may fall while it is in there.               *)
ReadBegins ==
  /\ alive /\ ~reading
  /\ reading' = TRUE
  /\ UNCHANGED <<tx, rx, lensVars, sendVars, toLens, toHost, linkVars>>

ReadAdvances ==  \* mutant of Read: the counter advances for a stray as well
  /\ reading /\ toHost # << >>
  /\ reading' = FALSE
  /\ toHost' = Tail(toHost)
  /\ rx' = rx + 1
  /\ alive' \in IF linkUp THEN {alive} ELSE {alive, FALSE}
  /\ UNCHANGED <<tx, lensVars, sendVars, toLens, linkUp, emitter>>

(* The round gets an indication, which is consumed whether it decrypts or  *)
(* not; the flag is not looked at again.  The pump may find the disconnect *)
(* notice behind it in the same chunk and lower the flag.                  *)
Read ==
  /\ reading /\ toHost # << >>
  /\ reading' = FALSE
  /\ toHost' = Tail(toHost)
  /\ IF Verifies(Head(toHost), rx)
       THEN rx' = rx + 1
       ELSE UNCHANGED rx
  /\ alive' \in IF linkUp THEN {alive} ELSE {alive, FALSE}
  /\ UNCHANGED <<tx, lensVars, sendVars, toLens, linkUp, emitter>>

(* The round gets nothing, and the flag is as it was: if the link is gone, *)
(* the notice of it has not come yet.                                      *)
ReadNothing ==
  /\ reading /\ toHost = << >>
  /\ alive
  /\ reading' = FALSE
  /\ UNCHANGED <<tx, rx, lensVars, sendVars, toLens, toHost, linkVars>>

(* Mutant of ReadFails: no look at the flag before the read.               *)
ReadFailsLate ==
  /\ reading /\ alive /\ ~linkUp /\ toHost = << >>
  /\ Report(Reader)
  /\ reading' = FALSE
  /\ UNCHANGED <<tx, rx, lensVars, sendVars, toLens, toHost, linkUp>>

(* _check_alive raises: before the read, or after it when it has returned  *)
(* nothing, for the disconnect notice was all there was, or the flag has   *)
(* fallen meanwhile.                                                       *)
ReadFails ==
  /\ ~alive \/ (reading /\ ~linkUp /\ toHost = << >>)
  /\ Report(Reader)
  /\ reading' = FALSE
  /\ UNCHANGED <<tx, rx, lensVars, sendVars, toLens, toHost, linkUp>>

ReadRound == ReadBegins \/ Read \/ ReadNothing \/ ReadFails

-----------------------------------------------------------------------------
(* The camera: the mirror image of the host's session, one thread.         *)
LensReceives ==
  /\ toLens # << >>
  /\ toLens' = Tail(toLens)
  /\ IF Verifies(Head(toLens), lensRx)
       THEN lensRx' = lensRx + 1
       ELSE UNCHANGED lensRx
  /\ UNCHANGED <<hostVars, lensTx, sendVars, toHost, linkVars>>

LensSends(m) ==
  /\ linkUp
  /\ lensTx < CounterMax
  /\ Len(toHost) < WindowMax
  /\ lensTx' = lensTx + 1
  /\ toHost' = Append(toHost, [ctr |-> lensTx + 1, msg |-> m])
  /\ UNCHANGED <<hostVars, lensRx, sendVars, toLens, linkVars>>

LensSendsPlain ==
  /\ linkUp
  /\ Len(toHost) < WindowMax
  /\ toHost' = Append(toHost, [ctr |-> 0, msg |-> Plain])
  /\ UNCHANGED <<hostVars, lensVars, sendVars, toLens, linkVars>>

(* What was on the air is lost; what had reached the host's buffer stays.  *)
LinkDrops ==
  /\ linkUp
  /\ linkUp' = FALSE
  /\ toLens' = << >>
  /\ \E n \in 0..Len(toHost) : toHost' = SubSeq(toHost, 1, n)
  /\ UNCHANGED <<hostVars, lensVars, sendVars, alive, emitter>>

(* Transport.close: the flag goes down and the connection with it.         *)
CloseTransport ==
  /\ alive' = FALSE
  /\ linkUp' = FALSE
  /\ toLens' = << >>
  /\ UNCHANGED <<hostVars, lensVars, sendVars, toHost, emitter>>

-----------------------------------------------------------------------------
Next ==
  \/ \E t \in Threads :
       \/ \E m \in HostMsg : Seal(t, m)
       \/ SealOverflow(t)
       \/ Post(t)
  \/ ReadRound
  \/ LensReceives
  \/ \E m \in LensMsg : LensSends(m)
  \/ LensSendsPlain
  \/ LinkDrops \/ CloseTransport

Spec == Init /\ [][Next]_vars

(* A thread that holds the lock runs on and writes; the camera reads what  *)
(* reaches it; the application keeps a call or a poll in progress; and the *)
(* notice of a lost link comes in the end, to a read that waits for it.    *)
Fairness ==
  /\ \A t \in Threads : WF_vars(Post(t))
  /\ WF_vars(LensReceives)
  /\ WF_vars(ReadRound) /\ SF_vars(ReadFails)

FairSpec == Spec /\ Fairness

-----------------------------------------------------------------------------
(* Types.  Every state variable of the channel.                            *)
TypeOK ==
  /\ tx \in Nat /\ rx \in Nat /\ lensTx \in Nat /\ lensRx \in Nat
  /\ lock \in Threads \cup {Nobody}
  /\ frame \in [Threads -> Frames(HostMsg) \cup {NoFrame}]
  /\ refused \in BOOLEAN
  /\ toLens \in Seq(Frames(HostMsg))
  /\ toHost \in Seq(Frames(LensMsg \cup {Plain}))
  /\ reading \in BOOLEAN /\ linkUp \in BOOLEAN /\ alive \in BOOLEAN
  /\ emitter \in Threads \cup {Nobody}

(* The lock makes the order on the wire the order of the counters: frames  *)
(* arrive with growing counters, all beyond the camera's, all handed out   *)
(* by encrypt (_send_enc holds the lock over encrypt and write).           *)
WireOrder ==
  /\ \A i, j \in 1..Len(toLens) : i < j => toLens[i].ctr < toLens[j].ctr
  /\ \A i \in 1..Len(toLens) : lensRx < toLens[i].ctr /\ toLens[i].ctr <= tx

(* While the link is up the camera can decrypt every frame in flight, in   *)
(* the order it gets them: no interleaving of threads, no failed call and  *)
(* no stray indication has made the counters part, unless the transport    *)
(* has refused an oversized frame.                                         *)
UplinkInSync ==
  (linkUp /\ ~refused) => \A i \in 1..Len(toLens) : toLens[i].ctr = lensRx + i

(* The same for the host: the first indication in the buffer that is not a *)
(* stray verifies, so a stray never desynchronises the receive counter     *)
(* (decrypt leaves it untouched when the tag does not verify).             *)
IsStray(i) == toHost[i].ctr = 0
DownlinkInSync ==
  \A i \in 1..Len(toHost) :
    (~IsStray(i) /\ \A k \in 1..(i - 1) : IsStray(k)) => toHost[i].ctr = rx + 1

(* With nothing in hand and nothing in flight, the host's send counter is  *)
(* the camera's receive counter (tests/test_camera.py:179).                *)
CountersAgree ==
  (linkUp /\ lock = Nobody /\ toLens = << >> /\ tx <= CounterMax) => tx = lensRx

(* A dropped link is always noticed in the end: some thread runs the       *)
(* "disconnected" callbacks, as long as the application keeps reading.     *)
DisconnectIsReported == ~linkUp ~> emitter # Nobody
=============================================================================
