-------------------------- MODULE MCEventLoopPool --------------------------
(* A pool of a few io threads.                                             *)
EXTENDS EventLoopPool
=============================================================================
