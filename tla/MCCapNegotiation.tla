------------------------- MODULE MCCapNegotiation -------------------------
(* A small instance of CapNegotiation for TLC. *)
EXTENDS CapNegotiation

MCRequested == {"account-tag", "batch"}
=============================================================================
