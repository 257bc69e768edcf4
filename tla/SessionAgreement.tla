-------------------------- MODULE SessionAgreement --------------------------
(***************************************************************************)
(* What the handshake promises, with no message, proof or timeout in       *)
(* sight: on each connection the camera starts at most one session, every  *)
(* session is a new one, and the host takes up the camera's session of     *)
(* that connection, or none, and only after the camera has started it.     *)
(***************************************************************************)
CONSTANTS Conns, Sessions, NoSession

VARIABLES
  camera,  \* per connection: the session the camera started on it
  host     \* per connection: the session the host believes established

agreementVars == <<camera, host>>

Init ==
  /\ camera = [c \in Conns |-> NoSession]
  /\ host = [c \in Conns |-> NoSession]

CameraStarts(c, s) ==
  /\ camera[c] = NoSession
  /\ \A d \in Conns : camera[d] # s
  /\ camera' = [camera EXCEPT ![c] = s]
  /\ UNCHANGED host

HostAdopts(c) ==
  /\ camera[c] # NoSession
  /\ host' = [host EXCEPT ![c] = camera[c]]
  /\ UNCHANGED camera

(* The host may give up several connections at once: its process dies.     *)
HostDrops(C) ==
  /\ host' = [c \in Conns |-> IF c \in C THEN NoSession ELSE host[c]]
  /\ UNCHANGED camera

Next ==
  \/ \E c \in Conns, s \in Sessions : CameraStarts(c, s)
  \/ \E c \in Conns : HostAdopts(c)
  \/ \E C \in SUBSET Conns : HostDrops(C)

Spec == Init /\ [][Next]_agreementVars
=============================================================================
