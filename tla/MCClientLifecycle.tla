------------------------- MODULE MCClientLifecycle -------------------------
(* A small instance of ClientLifecycle for TLC. *)
EXTENDS ClientLifecycle

MCDelays == <<10, 20, 40>>
=============================================================================
