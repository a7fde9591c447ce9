------------------------------ MODULE MCRecords ------------------------------
(* Two connections of one machine, which reports two frequencies: only the  *)
(* first of them is let in; and one of another.  Durations are 0s, 1.030s,  *)
(* 1m0s, 1m1s, 58m59s, 59m59s or 1h: each form, and the last before an hour.*)
EXTENDS Records, TLC

CONSTANTS s1, s2, s3, desktop, board

MCMachineOf == s1 :> desktop @@ s2 :> desktop @@ s3 :> board
MCFreqs == s1 :> {2400} @@ s2 :> {3600} @@ s3 :> {2400}
MCMetrics == <<"size", "time">>
MCMoments == <<0, 1030, 61030, 3600030>>
==============================================================================
