----------------------------- MODULE MCChannel -----------------------------
(***************************************************************************)
(* ChannelDelivery, and SecureChannel with it, on a small instance: the    *)
(* worker and two keepalive threads, two messages that fit in one write    *)
(* and one that does not.                                                  *)
(***************************************************************************)
EXTENDS ChannelDelivery
=============================================================================
