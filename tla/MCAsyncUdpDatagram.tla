------------------------- MODULE MCAsyncUdpDatagram -------------------------
(* A small instance of AsyncUdpDatagram for TLC. *)
EXTENDS AsyncUdpDatagram
=============================================================================
