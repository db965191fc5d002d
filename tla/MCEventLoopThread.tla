------------------------- MODULE MCEventLoopThread -------------------------
(* Small instance of EventLoopThread for TLC. *)
EXTENDS EventLoopThread
=============================================================================
