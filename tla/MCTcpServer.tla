---------------------------- MODULE MCTcpServer ----------------------------
(* Instances of TcpServer; the constants are given in the configurations. *)
EXTENDS TcpServer
=============================================================================
