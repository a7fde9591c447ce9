------------------------------ MODULE MCDriver -------------------------------
(* Small instances of Driver: an unrestricted runner on one host, a runner  *)
(* with a list of pushers on another, and a job for all hosts, pushed by a  *)
(* pusher both accept or by nobody known, so that only the first runner may *)
(* take it.  Sessions are interchangeable.                                  *)
EXTENDS Driver, TLC

CONSTANTS n1, n2, h1, h2, pushed, unattributed, dev, s1, s2

MCRunners == {n1, n2}
MCHosts == {h1, h2}
MCHostOf == n1 :> h1 @@ n2 :> h2
MCHostOfOne == n1 :> h1
MCJobSource == pushed :> dev @@ unattributed :> None
MCAcceptedSources == n1 :> None @@ n2 :> {dev}
MCSessions == {s1, s2}
SessionSymmetry == Permutations(MCSessions)
==============================================================================
