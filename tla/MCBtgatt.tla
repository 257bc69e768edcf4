------------------------------ MODULE MCBtgatt ------------------------------
(***************************************************************************)
(* BtgattTransport on a small instance.                                    *)
(***************************************************************************)
EXTENDS BtgattTransport
=============================================================================
