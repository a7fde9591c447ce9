----------------------------- MODULE MCArtifacts -----------------------------
(* Four chunks through a pipe of two, and a viewer: viewers do not meet. *)
EXTENDS Artifacts, TLC

CONSTANTS v1

MCViewers == {v1}
==============================================================================
