------------------------------ MODULE MCIntake -------------------------------
(* Two pushes of one commit (a branch and a tag, or a redelivery) and a     *)
(* command that creates a job for it; for another commit a push, a push     *)
(* whose event names no pusher's email, and one to an unregistered remote.  *)
EXTENDS Intake, TLC

CONSTANTS p1, p2, p3, p4, p5, c1, a, b, main, tag, dev, admin

MCShaOf == p1 :> a @@ p2 :> a @@ p3 :> b @@ p4 :> b @@ p5 :> b @@ c1 :> a
MCRefOf == p1 :> main @@ p2 :> tag @@ p3 :> main @@ p4 :> main @@ p5 :> main
MCSourceOf == p1 :> dev @@ p2 :> dev @@ p3 :> dev @@ p4 :> None @@ p5 :> dev
              @@ c1 :> admin
==============================================================================
