---------------------------- MODULE MCEventLoop ----------------------------
(* Two threads post to one loop and stop it.                               *)
EXTENDS EventLoop
=============================================================================
