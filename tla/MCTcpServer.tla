---------------------------- MODULE MCTcpServer ----------------------------
(* A server with no, one and two io threads.                               *)
EXTENDS TcpServer
=============================================================================
