------------------------------ MODULE MCBuilds -------------------------------
(* A goodfile of up to three calls and two metrics with two values each. *)
EXTENDS Builds
==============================================================================
