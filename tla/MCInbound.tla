----------------------------- MODULE MCInbound -----------------------------
(* Instances of Inbound for TLC. *)
EXTENDS Inbound
=============================================================================
