------------------------------ MODULE MCCamera ------------------------------
(***************************************************************************)
(* Camera on a small instance.  Request types, keepalive threads and the   *)
(* camera's states are interchangeable.                                    *)
(***************************************************************************)
EXTENDS Camera, TLC

Symmetry == Permutations(Types \ LongTypes) \cup Permutations(Keepers) \cup Permutations(States)
=============================================================================
