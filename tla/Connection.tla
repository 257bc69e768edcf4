------------------------------ MODULE Connection ------------------------------
(***************************************************************************)
(* How a session comes about and ends: ConnectionManager (connection.py)   *)
(* with its retries, Camera.pair and Camera.resume (camera.py), the pair   *)
(* command with the stored key (cli.py, store.py), an application that     *)
(* holds a Camera of its own, and the camera, which accepts one GATT       *)
(* connection at a time, may be asleep, late, reset or paired elsewhere.   *)
(*                                                                         *)
(* A nonce is the connection and the number of the attempt it was drawn    *)
(* for: os.urandom never repeats itself.  A key is the number of the       *)
(* pairing it comes from.  A proof is right exactly when key and nonces    *)
(* are, and so is the first encrypted message.  What an established        *)
(* session carries is the matter of Camera and SecureChannel.              *)
(***************************************************************************)
EXTENDS Naturals, Sequences

CONSTANTS
  Attempts,   \* ConnectionManager.attempts, --retries of the pair command
  ConnMax,    \* bound: GATT connections the host opens
  ResumeMax,  \* bound: calls of resume on one connection
  KeyMax,     \* bound: pairings, here and elsewhere
  WindowMax   \* bound: the indications a stray one may wait behind

ASSUME BoundsAssumption ==
  /\ Attempts \in Nat \ {0} /\ ConnMax \in Nat \ {0}
  /\ ResumeMax \in Nat \ {0} /\ KeyMax \in Nat \ {0} /\ WindowMax \in Nat

VARIABLES
  store,      \* durable: the key in the pairing store, 0 for none
  mgrKey,     \* ConnectionManager.pairing_key, read once from the store
  held,       \* its transport and camera, 0 for None
  user,       \* who makes the call: "manager", "pair" (the command), "app"
  pc,         \* where the call is
  cur,        \* the transport the call works on, 0 for none yet
  tries,      \* GATT attempts made by the call
  key,        \* pairing_key of the call's Camera
  app,        \* its app_nonce
  offer,      \* the session the camera's ISC answer stands for
  verdict,    \* how the last call, or the last resume, ended
  conns,      \* connections opened so far
  opened,     \* transports constructed and not closed
  alive,      \* those whose alive flag is up
  sess,       \* Camera.sess, per connection
  abandoned,  \* history: transports let go of without close
  lensKey, setup, keys,           \* the camera: key, setup mode, pairings so far
  lensConn, lensOffer, lensSess,  \* its connection, last ISC, sessions started
  toLens, toHost                  \* messages on the connection of cur

managerVars == <<mgrKey, held>>
callVars == <<user, pc, cur, tries, key, app, offer, verdict>>
transportVars == <<conns, opened, alive, sess, abandoned>>
lensVars == <<lensKey, setup, keys, lensConn, lensOffer, lensSess>>
vars == <<store, managerVars, callVars, transportVars, lensVars, toLens, toHost>>

Conns == 1..ConnMax
NoNonce == <<0, 0>>
Nonces == Conns \X (1..ResumeMax)
Sessions == [key : 1..KeyMax, app : Nonces, lens : Nonces]
NoSession == [key |-> 0, app |-> NoNonce, lens |-> NoNonce]

(* A camera in setup mode and a host that knows nothing.                   *)
Init ==
  /\ store = 0 /\ mgrKey = 0 /\ held = 0
  /\ user = "manager" /\ pc = "idle" /\ cur = 0 /\ tries = 0
  /\ key = 0 /\ app = NoNonce /\ offer = NoSession /\ verdict = "none"
  /\ conns = 0 /\ opened = {} /\ alive = {} /\ abandoned = {}
  /\ sess = [c \in Conns |-> NoSession]
  /\ lensKey = 0 /\ setup = TRUE /\ keys = 0
  /\ lensConn = 0 /\ lensOffer = NoSession
  /\ lensSess = [c \in Conns |-> NoSession]
  /\ toLens = << >> /\ toHost = << >>

-----------------------------------------------------------------------------
(* Transports.                                                             *)
LinkUp(c) == c # 0 /\ lensConn = c

(* Transport.close, and the Camera on it is no longer used.                *)
CloseTransport(c) ==
  /\ opened' = opened \ {c}
  /\ alive' = alive \ {c}
  /\ sess' = [d \in Conns |-> IF d = c THEN NoSession ELSE sess[d]]
  /\ lensConn' = IF LinkUp(c) THEN 0 ELSE lensConn
  /\ UNCHANGED <<conns, abandoned, lensKey, setup, keys, lensOffer, lensSess>>

ClearQueues == toLens' = << >> /\ toHost' = << >>

(* A frame written on a dead link that nobody has noticed is swallowed.    *)
Send(m) ==
  /\ toLens' = IF LinkUp(cur) THEN Append(toLens, m) ELSE toLens
  /\ UNCHANGED toHost

-----------------------------------------------------------------------------
(* Beginning a call.                                                       *)
connected == held # 0 /\ held \in alive

Begin(who, k) ==
  /\ pc = "idle"
  /\ user' = who /\ key' = k
  /\ pc' = "opening" /\ tries' = 0 /\ cur' = 0 /\ verdict' = "none"
  /\ app' = NoNonce /\ offer' = NoSession

(* ConnectionManager.__init__ looks the address up once.                   *)
NewManager ==
  /\ pc = "idle" /\ held = 0
  /\ mgrKey' = store
  /\ UNCHANGED <<store, held, callVars, transportVars, lensVars, toLens, toHost>>

(* Mutant of Connect: the dead session is forgotten and not closed.        *)
ConnectForgets ==
  /\ mgrKey # 0 /\ ~connected
  /\ Begin("manager", mgrKey)
  /\ held' = 0
  /\ UNCHANGED <<store, mgrKey, transportVars, lensVars, toLens, toHost>>

(* connect and ensure without a live session, reconnect with or without.   *)
(* With a live one connect and ensure return it and change nothing.        *)
Connect ==
  /\ mgrKey # 0
  /\ Begin("manager", mgrKey)
  /\ CloseTransport(held) /\ held' = 0
  /\ UNCHANGED <<store, mgrKey, toLens, toHost>>

Close ==
  /\ pc = "idle" /\ held # 0
  /\ CloseTransport(held) /\ held' = 0
  /\ UNCHANGED <<store, mgrKey, callVars, toLens, toHost>>

(* The pair command, and an application with a transport of its own.       *)
BeginOther(who) ==
  /\ Begin(who, IF who = "app" THEN store ELSE 0)
  /\ who = "app" => store # 0
  /\ UNCHANGED <<store, managerVars, transportVars, lensVars, toLens, toHost>>

(* The forget command; a manager that has looked the key up keeps it.      *)
Forget ==
  /\ pc = "idle" /\ store # 0
  /\ store' = 0
  /\ UNCHANGED <<managerVars, callVars, transportVars, lensVars, toLens, toHost>>

-----------------------------------------------------------------------------
(* Opening the transport.                                                  *)
OpenFailsUncounted ==  \* mutant of OpenFails: the attempts are not counted
  /\ pc = "opening"
  /\ UNCHANGED vars

OpenFails ==
  /\ pc = "opening"
  /\ tries' = tries + 1
  /\ IF tries' = Attempts THEN pc' = "idle" /\ verdict' = "lost"
                          ELSE UNCHANGED <<pc, verdict>>
  /\ UNCHANGED <<store, managerVars, user, cur, key, app, offer, transportVars,
                 lensVars, toLens, toHost>>

(* Only a camera without a connection accepts one.                         *)
OpenSucceeds(c) ==
  /\ pc = "opening" /\ lensConn = 0
  /\ c = conns + 1 /\ conns' = c
  /\ cur' = c /\ lensConn' = c
  /\ opened' = opened \cup {c} /\ alive' = alive \cup {c}
  /\ lensOffer' = NoSession
  /\ pc' = IF user = "pair" THEN "query" ELSE "isc"
  /\ ClearQueues
  /\ UNCHANGED <<store, managerVars, user, tries, key, app, offer, verdict, sess,
                 abandoned, lensKey, setup, keys, lensSess>>

-----------------------------------------------------------------------------
(* How a call ends badly.  connect closes the transport for CameraError,   *)
(* and the with block of the pair command closes it for anything.          *)
Fails(o) ==
  /\ user # "app"
  /\ verdict' = o
  /\ pc' = "idle" /\ cur' = 0
  /\ CloseTransport(cur) /\ ClearQueues
  /\ UNCHANGED <<store, managerVars, user, tries, key, app, offer>>

(* An application with a Camera of its own gets the exception and may call *)
(* resume again.  Only the timeout of CSC drops the session.               *)
HandsBack(o) ==
  /\ user = "app"
  /\ verdict' = o
  /\ pc' = "direct"
  /\ sess' = IF o = "timeout" THEN [sess EXCEPT ![cur] = NoSession] ELSE sess
  /\ alive' = IF o = "lost" THEN alive \ {cur} ELSE alive
  /\ toHost' = IF o = "mismatch" THEN Tail(toHost) ELSE toHost
  /\ UNCHANGED <<store, managerVars, user, cur, tries, key, app, offer, conns,
                 opened, abandoned, lensVars, toLens>>

EndsWith(o) == Fails(o) \/ HandsBack(o)

Waiting == {"query?", "pair?", "isc?", "csc?"}
Working == {"query", "pair", "isc", "csc", "ready", "saved"} \cup Waiting

(* A write or a read finds the link gone: ConnectionLost.                  *)
LinkIsLost == pc \in Working /\ ~LinkUp(cur) /\ EndsWith("lost")

(* An exception outside CameraError: a BleakError, KeyboardInterrupt.      *)
(* connect does not see it and the transport stays open.                   *)
ForeignError ==
  /\ pc \in Working /\ user = "manager"
  /\ verdict' = "foreign"
  /\ pc' = "idle" /\ cur' = 0
  /\ abandoned' = abandoned \cup {cur}
  /\ sess' = [sess EXCEPT ![cur] = NoSession]
  /\ UNCHANGED <<store, managerVars, user, tries, key, app, offer, conns, opened,
                 alive, lensVars, toLens, toHost>>

-----------------------------------------------------------------------------
(* Camera.pair and Camera.resume.                                          *)
Goes(from, to) == pc = from /\ pc' = to

SendQuery ==
  /\ Goes("query", "query?")
  /\ Send([t |-> "query"])
  /\ UNCHANGED <<store, managerVars, user, cur, tries, key, app, offer, verdict,
                 transportVars, lensVars>>

SendPairing ==
  /\ Goes("pair", "pair?")
  /\ Send([t |-> "pairing"])
  /\ UNCHANGED <<store, managerVars, user, cur, tries, key, app, offer, verdict,
                 transportVars, lensVars>>

(* A new nonce for every call of resume.                                   *)
SendIsc(i) ==
  /\ Goes("isc", "isc?")
  /\ i = 1 + (IF app[1] = cur THEN app[2] ELSE 0)
  /\ app' = <<cur, i>>
  /\ Send([t |-> "isc", app |-> <<cur, i>>])
  /\ UNCHANGED <<store, managerVars, user, cur, tries, key, offer, verdict,
                 transportVars, lensVars>>

SendCsc ==
  /\ Goes("csc", "csc?")
  /\ Send([t |-> "csc", sess |-> offer])
  /\ sess' = [sess EXCEPT ![cur] = offer]
  /\ UNCHANGED <<store, managerVars, user, cur, tries, key, app, offer, verdict,
                 conns, opened, alive, abandoned, lensVars>>

Incoming == Head(toHost)
Arrives(t) == toHost # << >> /\ Incoming.t = t
Consume == toHost' = Tail(toHost) /\ UNCHANGED toLens

(* pair goes on with the answer to PUBLIC_QUERY or, once 6 s are over,     *)
(* without.                                                                *)
ReadPublic ==
  /\ Arrives("public") /\ Goes("query?", "pair")
  /\ Consume
  /\ UNCHANGED <<store, managerVars, user, cur, tries, key, app, offer, verdict,
                 transportVars, lensVars>>

QueryUnanswered ==
  /\ Goes("query?", "pair")
  /\ UNCHANGED <<store, managerVars, user, cur, tries, key, app, offer, verdict,
                 transportVars, lensVars, toLens, toHost>>

ReadPaired ==
  /\ Arrives("paired") /\ Goes("pair?", "isc")
  /\ Consume
  /\ key' = Incoming.key
  /\ UNCHANGED <<store, managerVars, user, cur, tries, app, offer, verdict,
                 transportVars, lensVars>>

ProofOverOldNonce(s) ==  \* mutant of ProofIsRight: app_nonce set too late
  s.key = key /\ s.app = offer.app

(* lens_proof over the pairing key and both nonces, the host's own among   *)
(* them.                                                                   *)
ProofIsRight(s) == s.key = key /\ s.app = app

ReadIsc ==
  /\ Arrives("isc") /\ Goes("isc?", "csc")
  /\ ProofIsRight(Incoming.sess)
  /\ offer' = Incoming.sess
  /\ Consume
  /\ UNCHANGED <<store, managerVars, user, cur, tries, key, app, verdict,
                 transportVars, lensVars>>

(* PairingKeyMismatch.                                                     *)
ReadWrongIsc ==
  /\ pc = "isc?" /\ Arrives("isc")
  /\ ~ProofIsRight(Incoming.sess)
  /\ EndsWith("mismatch")

DecryptsAll(m) == TRUE  \* mutant of Decrypts: no look at the tag

(* The camera's first encrypted message, under the host's own session.     *)
Decrypts(m) == m.t = "csc" /\ m.sess = sess[cur]

ReadCsc ==
  /\ Goes("csc?", "ready")
  /\ toHost # << >> /\ Decrypts(Incoming)
  /\ Consume
  /\ UNCHANGED <<store, managerVars, user, cur, tries, key, app, offer, verdict,
                 transportVars, lensVars>>

(* Whatever is not the answer of this wait is read and dropped.            *)
ReadOther ==
  /\ toHost # << >>
  /\ \/ pc = "query?" /\ ~Arrives("public")
     \/ pc = "pair?" /\ ~Arrives("paired")
     \/ pc = "isc?" /\ ~Arrives("isc")
     \/ pc = "csc?" /\ ~Decrypts(Incoming)
  /\ Consume
  /\ UNCHANGED <<store, managerVars, callVars, transportVars, lensVars>>

(* CameraAsleep for pair and ISC, RequestTimeout for CSC.                  *)
TimesOut ==
  \/ pc \in {"pair?", "isc?"} /\ EndsWith("asleep")
  \/ pc = "csc?" /\ EndsWith("timeout")

-----------------------------------------------------------------------------
(* How a call ends well.                                                   *)
Hold ==
  /\ user = "manager" /\ Goes("ready", "idle")
  /\ held' = cur /\ cur' = 0 /\ verdict' = "ok"
  /\ ClearQueues
  /\ UNCHANGED <<store, mgrKey, user, tries, key, app, offer, transportVars, lensVars>>

SaveEarly ==  \* mutant of Save: stored as soon as pair returns
  /\ user = "pair" /\ Goes("isc", "saved")
  /\ store' = key
  /\ UNCHANGED <<managerVars, user, cur, tries, key, app, offer, verdict,
                 transportVars, lensVars, toLens, toHost>>

(* cmd_pair: store.put and store.save, once resume has returned.           *)
Save ==
  /\ user = "pair" /\ Goes("ready", "saved")
  /\ store' = key
  /\ UNCHANGED <<managerVars, user, cur, tries, key, app, offer, verdict,
                 transportVars, lensVars, toLens, toHost>>

PairEnds == pc = "saved" /\ Fails("ok")

AppHas ==
  /\ user = "app" /\ Goes("ready", "direct")
  /\ verdict' = "ok"
  /\ UNCHANGED <<store, managerVars, user, cur, tries, key, app, offer,
                 transportVars, lensVars, toLens, toHost>>

AppResumes ==
  /\ Goes("direct", "isc")
  /\ verdict # "ok" /\ cur \in alive /\ app[2] < ResumeMax
  /\ UNCHANGED <<store, managerVars, user, cur, tries, key, app, offer, verdict,
                 transportVars, lensVars, toLens, toHost>>

AppLeaves ==
  /\ Goes("direct", "idle")
  /\ CloseTransport(cur) /\ cur' = 0 /\ ClearQueues
  /\ UNCHANGED <<store, managerVars, user, tries, key, app, offer, verdict>>

-----------------------------------------------------------------------------
(* Around the calls.  Heartbeats and polls find the link of a live session *)
(* gone.                                                                   *)
Notices(c) ==
  /\ c = held \/ (c = cur /\ pc = "direct")
  /\ c \in alive /\ ~LinkUp(c)
  /\ alive' = alive \ {c}
  /\ UNCHANGED <<store, managerVars, callVars, conns, opened, sess, abandoned,
                 lensVars, toLens, toHost>>

(* The keepalive thread finds it, and a disconnected callback calls close: *)
(* the thread joins itself, the RuntimeError is swallowed by close, and    *)
(* the transport is let go of.                                             *)
CloseOnKeeper ==
  /\ connected /\ ~LinkUp(held)
  /\ alive' = alive \ {held}
  /\ abandoned' = abandoned \cup {held}
  /\ held' = 0
  /\ UNCHANGED <<store, mgrKey, callVars, conns, opened, sess, lensVars, toLens,
                 toHost>>

(* The host's process dies; its transports die with it.                    *)
Crash ==
  /\ conns > 0
  /\ mgrKey' = 0 /\ held' = 0
  /\ pc' = "idle" /\ cur' = 0 /\ verdict' = "none"
  /\ opened' = {} /\ alive' = {} /\ abandoned' = {}
  /\ sess' = [c \in Conns |-> NoSession]
  /\ lensConn' = 0 /\ ClearQueues
  /\ UNCHANGED <<store, user, tries, key, app, offer, conns, lensKey, setup, keys,
                 lensOffer, lensSess>>

-----------------------------------------------------------------------------
(* The camera.                                                             *)
lensSays == <<lensKey, setup, keys, lensOffer, lensSess>>
hostVars == <<store, managerVars, callVars, transportVars>>

Drop ==
  /\ lensConn' = 0
  /\ toLens' = << >>
  /\ \E n \in 0..Len(toHost) : toHost' = SubSeq(toHost, 1, n)

LinkDrops ==
  /\ lensConn # 0
  /\ Drop
  /\ UNCHANGED <<hostVars, lensSays>>

FactoryReset ==
  /\ ~setup
  /\ lensKey' = 0 /\ setup' = TRUE
  /\ Drop
  /\ UNCHANGED <<hostVars, keys, lensOffer, lensSess>>

NewKey ==
  /\ setup /\ keys < KeyMax
  /\ keys' = keys + 1 /\ lensKey' = keys'

PairedElsewhere ==
  /\ lensConn = 0
  /\ NewKey /\ setup' = FALSE
  /\ UNCHANGED <<hostVars, lensConn, lensOffer, lensSess, toLens, toHost>>

Asked(t) == lensConn # 0 /\ toLens # << >> /\ Head(toLens).t = t
Answer(m) == toLens' = Tail(toLens) /\ toHost' = Append(toHost, m)
Plaintext == lensSess[lensConn] = NoSession

LensTellsPublic ==
  /\ Asked("query") /\ Plaintext /\ setup
  /\ Answer([t |-> "public"])
  /\ UNCHANGED <<hostVars, lensVars>>

LensPairs ==
  /\ Asked("pairing") /\ Plaintext
  /\ NewKey
  /\ Answer([t |-> "paired", key |-> keys'])
  /\ UNCHANGED <<hostVars, setup, lensConn, lensOffer, lensSess>>

(* Plaintext PUBLIC_QUERY outside setup mode drops the link.               *)
LensRefusesPairing ==
  /\ Asked("query") /\ ~setup
  /\ Drop
  /\ UNCHANGED <<hostVars, lensSays>>

(* A nonce of the camera's own for every ISC.                              *)
LensAnswersIsc ==
  /\ Asked("isc") /\ Plaintext /\ lensKey # 0
  /\ lensOffer' = [key |-> lensKey, app |-> Head(toLens).app,
                   lens |-> <<lensConn, 1 + lensOffer.lens[2]>>]
  /\ Answer([t |-> "isc", sess |-> lensOffer'])
  /\ UNCHANGED <<hostVars, lensKey, setup, keys, lensConn, lensSess>>

LensAnswersCsc ==
  /\ Asked("csc") /\ Plaintext
  /\ Head(toLens).sess = lensOffer
  /\ setup' = FALSE
  /\ lensSess' = [lensSess EXCEPT ![lensConn] = lensOffer]
  /\ Answer([t |-> "csc", sess |-> lensOffer])
  /\ UNCHANGED <<hostVars, lensKey, keys, lensConn, lensOffer>>

LensSendsPlain ==
  /\ lensConn # 0 /\ Plaintext
  /\ Len(toHost) < WindowMax
  /\ toHost' = Append(toHost, [t |-> "stray"])
  /\ UNCHANGED <<hostVars, lensVars, toLens>>

(* Asleep, or nothing it understands.                                      *)
LensIgnores ==
  /\ lensConn # 0 /\ toLens # << >>
  /\ toLens' = Tail(toLens)
  /\ UNCHANGED <<hostVars, lensVars, toHost>>

-----------------------------------------------------------------------------
(* The steps a call takes on its own, once it has begun.                   *)
CallRuns ==
  \/ OpenFails \/ \E c \in Conns : OpenSucceeds(c)
  \/ SendQuery \/ ReadPublic \/ QueryUnanswered \/ SendPairing \/ ReadPaired
  \/ \E i \in 1..ResumeMax : SendIsc(i)
  \/ ReadIsc \/ ReadWrongIsc \/ SendCsc \/ ReadCsc \/ ReadOther
  \/ TimesOut \/ LinkIsLost \/ ForeignError
  \/ Hold \/ Save \/ PairEnds \/ AppHas

Lens ==
  \/ LensTellsPublic \/ LensRefusesPairing \/ LensPairs
  \/ LensAnswersIsc \/ LensAnswersCsc \/ LensSendsPlain \/ LensIgnores
  \/ LinkDrops \/ FactoryReset \/ PairedElsewhere

Next ==
  \/ NewManager \/ Connect \/ Close \/ Forget
  \/ \E who \in {"pair", "app"} : BeginOther(who)
  \/ CallRuns
  \/ AppResumes \/ AppLeaves
  \/ \E c \in Conns : Notices(c)
  \/ CloseOnKeeper \/ Crash
  \/ Lens

Spec == Init /\ [][Next]_vars

(* A call runs on and its waits end: the read loops look at the clock in   *)
(* each round.  Nothing is assumed of the camera, the link or the          *)
(* application.                                                            *)
Fairness == WF_vars(CallRuns) /\ WF_vars(TimesOut \/ QueryUnanswered)

FairSpec == Spec /\ Fairness

-----------------------------------------------------------------------------
(* Types.  Every variable.                                                 *)
TypeOK ==
  /\ store \in 0..KeyMax /\ mgrKey \in 0..KeyMax /\ key \in 0..KeyMax
  /\ user \in {"manager", "pair", "app"}
  /\ pc \in {"idle", "opening", "direct"} \cup Working
  /\ held \in Conns \cup {0} /\ cur \in Conns \cup {0}
  /\ tries \in 0..Attempts
  /\ app \in Nonces \cup {NoNonce}
  /\ offer \in Sessions \cup {NoSession} /\ lensOffer \in Sessions \cup {NoSession}
  /\ verdict \in {"none", "ok", "asleep", "lost", "timeout", "mismatch", "foreign"}
  /\ conns \in 0..ConnMax
  /\ opened \subseteq Conns /\ alive \subseteq opened /\ abandoned \subseteq opened
  /\ sess \in [Conns -> Sessions \cup {NoSession}]
  /\ lensSess \in [Conns -> Sessions \cup {NoSession}]
  /\ lensKey \in 0..keys /\ keys \in 0..KeyMax /\ setup \in BOOLEAN
  /\ lensConn \in Conns \cup {0}
  /\ \A i \in 1..Len(toLens) : toLens[i].t \in {"query", "pairing", "isc", "csc"}
  /\ \A i \in 1..Len(toHost) : toHost[i].t \in {"public", "paired", "isc", "csc", "stray"}

(* The host takes a session for established: resume has seen the camera's  *)
(* answer to CSC, and the alive flag is up.                                *)
Established(c) ==
  c \in alive /\ sess[c] # NoSession /\ ~(c = cur /\ pc = "csc?")

Agreement == INSTANCE SessionAgreement
  WITH camera <- lensSess,
       host <- [c \in Conns |-> IF Established(c) THEN sess[c] ELSE NoSession]

(* Host and camera agree on key and nonces of every session either takes   *)
(* for established, and no session is ever started twice, whatever is      *)
(* late, lost, reset or tried again (resume).                              *)
SessionsAgree == Agreement!Spec

(* A PairingKeyMismatch from the manager or the pair command is always     *)
(* right: the camera does have another key.  Needs that each attempt has a *)
(* connection of its own (connect opens a transport per resume).           *)
MismatchIsReal == (verdict = "mismatch" /\ user # "app") => key # lensKey

(* What errors.py:13 says of it, of whoever calls resume.                  *)
MismatchMeansReset == verdict = "mismatch" => key # lensKey

(* A key that gets into the store has started a session with the camera:   *)
(* a pairing that fails midway leaves the store as it was (cmd_pair).      *)
StoredKeyWorks ==
  store # 0 => \E c \in Conns : lensSess[c].key = store

(* The camera takes one connection at a time: a transport left open locks  *)
(* the host out.  Every transport opened and not closed is in use, but for *)
(* the two ways out of connect and close that abandon it.                  *)
TransportsAccounted == opened \subseteq {held, cur} \cup abandoned

(* Every call of connect, pair and resume returns.                         *)
ConnectReturns ==
  (pc \notin {"idle", "direct"}) ~> (pc \in {"idle", "direct"})
=============================================================================
