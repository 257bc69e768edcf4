------------------------------- MODULE MCSync -------------------------------
(***************************************************************************)
(* Sync on a small instance: two sessions with a moment each, of different *)
(* numbers, so that a listing taken for the wrong session plans a moment   *)
(* the camera does not have, and an application that names a moment twice. *)
(***************************************************************************)
EXTENDS Sync

MCContent == <<<<1>>, <<2>>>>
MCGiven == {<<1, <<1, 1>>>>}
MCOptions == {<<FALSE, TRUE>>, <<TRUE, FALSE>>}
=============================================================================
