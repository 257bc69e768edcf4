------------------------------ MODULE MCAsync ------------------------------
(***************************************************************************)
(* AsyncFacade on a small instance.                                        *)
(***************************************************************************)
EXTENDS AsyncFacade
=============================================================================
