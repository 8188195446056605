---------------------------- MODULE MCUdpServer ----------------------------
(* A server that gets and sends a few datagrams of two sizes.            *)
EXTENDS UdpServer
=============================================================================
