------------------------------ MODULE MCCodec ------------------------------
(***************************************************************************)
(* WireFormat and Messages on a small instance.  The two share no state:   *)
(* each moves while the other is where it starts.                          *)
(***************************************************************************)
EXTENDS Messages, WireFormat

MCInputs == {-130, -1, 0, 1, 127, 128, 300, 65535, 65536}
MCBlobs == {<< >>, <<8>>, [i \in 1..130 |-> i % 7]}

Init == WireInit /\ MsgInit

Next ==
  \/ reported = 0 /\ WireNext /\ UNCHANGED msgVars
  \/ data = << >> /\ built = << >> /\ MsgNext /\ UNCHANGED wireVars

Spec == Init /\ [][Next]_<<wireVars, msgVars>>
=============================================================================
