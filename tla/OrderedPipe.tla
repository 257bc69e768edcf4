---------------------------- MODULE OrderedPipe ----------------------------
(***************************************************************************)
(* What one direction of the secure channel promises its user, with no     *)
(* counter, lock, frame or transport in sight: messages are heard in the   *)
(* order they were sent, none twice, none invented, none skipped, until    *)
(* the pipe closes; once it has closed nothing more is heard.              *)
(***************************************************************************)
EXTENDS Naturals, Sequences

CONSTANT Msg

VARIABLES
  sent,    \* the messages handed to the pipe, oldest first
  heard,   \* the messages that came out of it, oldest first
  open     \* FALSE once the pipe delivers nothing more

pipeVars == <<sent, heard, open>>

Init ==
  /\ sent = << >>
  /\ heard = << >>
  /\ open = TRUE

(* A sender cannot always tell that the pipe is closed, so it may push     *)
(* into a closed one.                                                      *)
Push ==
  /\ \E m \in Msg : sent' = Append(sent, m)
  /\ UNCHANGED <<heard, open>>

(* The next message comes out; it may be the last one.                     *)
Pop ==
  /\ open
  /\ Len(heard) < Len(sent)
  /\ heard' = Append(heard, sent[Len(heard) + 1])
  /\ open' \in {TRUE, FALSE}
  /\ UNCHANGED sent

Close ==
  /\ open' = FALSE
  /\ UNCHANGED <<sent, heard>>

Next == Push \/ Pop \/ Close

Spec == Init /\ [][Next]_pipeVars

(* A pipe that stays open delivers everything that was put in.             *)
Delivery == WF_pipeVars(Pop)
=============================================================================
