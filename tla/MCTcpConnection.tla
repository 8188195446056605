-------------------------- MODULE MCTcpConnection --------------------------
(* One connection, its loop thread and its writer threads.               *)
EXTENDS TcpConnection
=============================================================================
