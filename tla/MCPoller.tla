------------------------------ MODULE MCPoller ------------------------------
(* A few channels on fewer descriptors, a vector of one event to begin.    *)
EXTENDS Poller
=============================================================================
