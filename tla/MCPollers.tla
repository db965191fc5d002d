----------------------------- MODULE MCPollers -----------------------------
(* Instance of Pollers; the constants are given in the configuration. *)
EXTENDS Pollers
=============================================================================
