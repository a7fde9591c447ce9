---------------------------- MODULE Builds_proofs ----------------------------
(****************************************************************************)
(* What is proved of Builds for any goodfile, any names and values of its   *)
(* metrics, and any number of faults.                                       *)
(****************************************************************************)
EXTENDS Builds, TLAPS

Slots == DOMAIN toDriver
IsStatus(i) == toDriver[i].kind \in {"finished", "interrupted"}
IsMetric(i, n) == toDriver[i].kind = "metric" /\ toDriver[i].name = n

Settled == state \in {"finished", "error"}

(* The result is somewhere on its way from the report to the row. *)
Reported == Settled \/ verdict # None \/ \E i \in Slots : IsStatus(i)

(* Where the session stands. *)
SessionInv == /\ task = "acked" => state = "pending"
              /\ task = "telling" <=> verdict # None
              /\ verdict # None \/ Settled => toDriver = <<>>
              /\ \A i \in Slots : IsStatus(i) => i = Len(toDriver)
              /\ Reported => at = "idle" /\ ~up

(* What is known of a failure, at each stage of a build and of its report. *)
Wrong(m) == Verdict(m) = "fail"
ResultInv == /\ at \in Commands \cup {"goodfile", "script", "upload", "pass"} => ~broke
             /\ at \in {"bad_ref", "failed"} => broke
             /\ \A i \in Slots : IsStatus(i) => (Wrong(toDriver[i]) <=> broke)
             /\ verdict # None => (verdict = "fail" <=> broke)
             /\ PassIsEarned

(* A metric's last value is the last under way, or in its row. *)
InStep(n) == \/ \E i \in Slots : /\ IsMetric(i, n) /\ toDriver[i].value = said[n]
                                 /\ \A k \in Slots : IsMetric(k, n) => k <= i
             \/ /\ \A k \in Slots : ~IsMetric(k, n)
                /\ metrics[n] = said[n]

MetricInv == up \/ Reported => \A n \in Names : InStep(n)

(* Without a fault the connection is there while the runner builds, and its *)
(* report arrives.                                                          *)
QuietInv == faults = 0 =>
  /\ at \notin {"idle", "dead"} => up
  /\ at = "idle" => Reported
  /\ at = "dead" => cause \in Panics
  /\ task = "gone" /\ state = "started" => at = "dead"

Inv == TypeOK /\ SessionInv /\ ResultInv /\ MetricInv /\ QuietInv

(* The runner is at the build. *)
Building == Commands \cup Reports \cup {"goodfile", "script", "upload"}

------------------------------------------------------------------------------
(* The messages under way *)

LEMMA ChannelFacts ==
  ASSUME TypeOK
  PROVE  /\ toDriver \in Seq(Message) /\ Len(toDriver) \in Nat
         /\ Slots = 1..Len(toDriver)
         /\ \A i \in Slots : toDriver[i] \in Message
<1>1. toDriver \in Seq(Message)
  BY DEF TypeOK
<1> QED BY <1>1 DEF Slots

(* What a message can be *)
LEMMA MessageFacts ==
  ASSUME NEW m \in Message
  PROVE  /\ m.kind \in {"command", "finished", "interrupted", "metric"}
         /\ m.kind = "metric" => m.name \in Names /\ m.value \in Values
         /\ Verdict(m) \in {"pass", "fail"}
BY DEF Message, Verdict

(* A message more *)
LEMMA AppendFacts ==
  ASSUME TypeOK, NEW m \in Message, toDriver' = Append(toDriver, m)
  PROVE  /\ toDriver' \in Seq(Message)
         /\ Len(toDriver') = Len(toDriver) + 1
         /\ Slots' = Slots \cup {Len(toDriver) + 1}
         /\ \A i \in Slots : toDriver'[i] = toDriver[i] /\ i < Len(toDriver) + 1
         /\ toDriver'[Len(toDriver) + 1] = m
<1>1. toDriver \in Seq(Message) /\ Len(toDriver) \in Nat /\ Slots = 1..Len(toDriver)
  BY ChannelFacts
<1>2. Slots' = 1..(Len(toDriver) + 1)
  BY <1>1 DEF Slots
<1> QED BY <1>1, <1>2 DEF Slots

(* Where the runner stands still, types are those of the driver's end.      *)
LEMMA RunnerStandsStill ==
  ASSUME TypeOK, UNCHANGED runnerVars, state' = state,
         up' \in BOOLEAN, toDriver' \in Seq(Message), token' \in {"unset", "valid", "expired"},
         metrics' \in [Names -> Values \cup {None}],
         task' \in {"acked", "running", "telling", "gone"},
         verdict' \in {"pass", "fail", None}, faults' \in 0..MaxFaults
  PROVE  TypeOK'
<1>1. /\ at' = at /\ posts' = posts /\ calls' = calls
      /\ said' = said /\ broke' = broke /\ cause' = cause
  BY DEF runnerVars
<1>2. /\ at' \in Commands \cup Reports \cup {"goodfile", "script", "upload", "idle", "dead"}
      /\ posts' \in 0..2 /\ calls' \in 0..MaxCalls
      /\ (at' = "dead") <=> (cause' # "none")
  BY <1>1 DEF TypeOK
<1>3. /\ said' \in [Names -> Values \cup {None}] /\ broke' \in BOOLEAN
      /\ cause' \in Panics \cup {"none", "hang up", "crash"}
      /\ state' \in {"pending", "started", "finished", "error"}
  BY <1>1 DEF TypeOK
<1> QED BY <1>2, <1>3 DEF TypeOK

(* A prefix has some of the slots, as they were. *)
LEMMA PrefixFacts ==
  ASSUME TypeOK, NEW n \in 0..Len(toDriver), toDriver' = SubSeq(toDriver, 1, n)
  PROVE  /\ toDriver' \in Seq(Message) /\ Slots' \subseteq Slots
         /\ \A i \in Slots' : toDriver'[i] = toDriver[i]
<1>1. toDriver \in Seq(Message) /\ Len(toDriver) \in Nat /\ Slots = 1..Len(toDriver) /\ n \in Nat
  BY ChannelFacts
<1>2. Len(toDriver') = n /\ Slots' = 1..n /\ \A i \in 1..n : toDriver'[i] = toDriver[i]
  BY <1>1 DEF Slots
<1>3. \A i \in 1..n : i \in Slots /\ toDriver[i] \in Message
  BY <1>1, ChannelFacts
<1>4. toDriver' \in Seq(Message)
  BY <1>1
<1> QED BY <1>2, <1>3, <1>4

(* A message less *)
LEMMA TailFacts ==
  ASSUME TypeOK, toDriver # <<>>, toDriver' = Tail(toDriver)
  PROVE  /\ toDriver' \in Seq(Message)
         /\ Head(toDriver) = toDriver[1] /\ Head(toDriver) \in Message /\ 1 \in Slots
         /\ Len(toDriver) = Len(toDriver') + 1
         /\ \A i \in Slots' : i \in Nat \ {0} /\ i + 1 \in Slots /\ toDriver'[i] = toDriver[i + 1]
         /\ \A i \in Slots : i = 1 \/ (i \in Nat /\ i - 1 \in Slots' /\ toDriver'[i - 1] = toDriver[i])
<1>1. toDriver \in Seq(Message) /\ Len(toDriver) \in Nat \ {0} /\ Slots = 1..Len(toDriver)
  BY ChannelFacts
<1>2. /\ toDriver' \in Seq(Message) /\ Len(toDriver') = Len(toDriver) - 1
      /\ Slots' = 1..(Len(toDriver) - 1)
      /\ \A i \in 1..(Len(toDriver) - 1) : toDriver'[i] = toDriver[i + 1]
  BY <1>1 DEF Slots
<1>3. Head(toDriver) = toDriver[1] /\ 1 \in Slots
  BY <1>1
<1> QED BY <1>1, <1>2, <1>3, ChannelFacts

------------------------------------------------------------------------------

(* A build starts with its session acknowledged and nothing said. *)
LEMMA InvInit == Init => Inv
<1> SUFFICES ASSUME Init PROVE Inv
  OBVIOUS
<1>1. toDriver \in Seq(Message) /\ Slots = {}
  BY DEF Init, Slots
<1>2. TypeOK
  <2>1. said \in [Names -> Values \cup {None}] /\ metrics \in [Names -> Values \cup {None}]
    BY DEF Init
  <2>2. calls \in 0..MaxCalls /\ faults \in 0..MaxFaults /\ posts \in 0..2
    BY BuildsBounds DEF Init
  <2>3. broke \in BOOLEAN /\ up \in BOOLEAN
    BY DEF Init
  <2> QED BY <1>1, <2>1, <2>2, <2>3 DEF Init, TypeOK, Commands
<1>3. SessionInv /\ ResultInv /\ QuietInv
  BY <1>1 DEF Init, SessionInv, Settled, Reported, ResultInv, PassIsEarned, QuietInv, Commands
<1>4. MetricInv
  BY <1>1 DEF Init, MetricInv, InStep
<1> QED BY <1>2, <1>3, <1>4 DEF Inv

(* While the runner builds, nothing is reported. *)
LEMMA BuildingFacts ==
  ASSUME Inv, at \in Building
  PROVE  /\ ~Reported /\ ~Settled /\ verdict = None
         /\ \A i \in Slots : ~IsStatus(i)
         /\ cause = "none" /\ at \notin {"idle", "dead"}
         /\ faults = 0 => up
<1>1. at \notin {"idle", "dead"}
  BY DEF Building, Commands, Reports
<1>2. ~Reported
  BY <1>1 DEF Inv, SessionInv
<1> QED BY <1>1, <1>2 DEF Reported, Inv, TypeOK, QuietInv

(* The runner goes on, and says nothing. *)
LEMMA MovesOn ==
  ASSUME Inv, at \in Building, at' \in Building,
         posts' \in 0..2, calls' \in 0..MaxCalls, broke' \in BOOLEAN,
         broke' <=> at' \in {"bad_ref", "failed"},
         UNCHANGED <<said, cause, netVars, driverVars, faults>>
  PROVE  Inv'
<1>1. /\ ~Reported /\ ~Settled /\ verdict = None
      /\ \A i \in Slots : ~IsStatus(i)
      /\ cause = "none" /\ at \notin {"idle", "dead"}
      /\ faults = 0 => up
  BY BuildingFacts
<1>2. at' \notin {"idle", "dead"}
  BY DEF Building, Commands, Reports
<1>3. TypeOK'
  BY <1>1, <1>2 DEF Inv, TypeOK, Building, netVars, driverVars
<1>4. /\ Slots' = Slots /\ Settled' = Settled /\ Reported' = Reported
      /\ \A i : IsStatus(i)' = IsStatus(i)
      /\ \A n : InStep(n)' = InStep(n)
  BY DEF netVars, driverVars, Slots, Settled, Reported, IsStatus, InStep, IsMetric
<1>5. SessionInv'
  BY <1>1, <1>4 DEF Inv, SessionInv, netVars, driverVars
<1>6. ResultInv'
  BY <1>1, <1>4 DEF ResultInv, PassIsEarned, Settled, Commands, driverVars
<1>7. MetricInv'
  BY <1>1, <1>4 DEF Inv, MetricInv, netVars
<1>8. QuietInv'
  BY <1>1, <1>2 DEF Inv, QuietInv, netVars, driverVars
<1> QED BY <1>3, <1>5, <1>6, <1>7, <1>8 DEF Inv

(* The runner goes on, and sends a message that is no result. *)
LEMMA Sends ==
  ASSUME Inv, at \in Building, at' \in Building, NEW m \in Message,
         m.kind \in {"command", "metric"}, Send(m),
         said' = IF m.kind = "metric" THEN [said EXCEPT ![m.name] = m.value] ELSE said,
         posts' \in 0..2, calls' \in 0..MaxCalls, broke' \in BOOLEAN,
         broke' <=> at' \in {"bad_ref", "failed"},
         UNCHANGED <<cause, driverVars, faults>>
  PROVE  Inv'
<1>0. PICK last \in Nat : last = Len(toDriver) + 1
  BY ChannelFacts DEF Inv
<1>1. /\ ~Reported /\ ~Settled /\ verdict = None
      /\ \A i \in Slots : ~IsStatus(i)
      /\ cause = "none" /\ at \notin {"idle", "dead"}
      /\ faults = 0 => up
  BY BuildingFacts
<1>2. at' \notin {"idle", "dead"} /\ up' = up
  BY DEF Building, Commands, Reports, Send
<1>3. /\ toDriver' \in Seq(Message)
      /\ \A i \in Slots' : toDriver'[i].kind \notin {"finished", "interrupted"}
      /\ up => /\ toDriver'[last] = m /\ Slots' = Slots \cup {last}
               /\ \A i \in Slots : toDriver'[i] = toDriver[i] /\ i < last
  <2>1. CASE up
    <3>1. toDriver' = Append(toDriver, m)
      BY <2>1 DEF Send
    <3>2. /\ toDriver' \in Seq(Message) /\ Slots' = Slots \cup {last}
          /\ \A i \in Slots : toDriver'[i] = toDriver[i] /\ i < last
          /\ toDriver'[last] = m
      BY <1>0, <3>1, AppendFacts DEF Inv
    <3>3. \A i \in Slots : toDriver[i].kind \notin {"finished", "interrupted"}
      BY <1>1 DEF IsStatus
    <3> QED BY <3>2, <3>3
  <2>2. CASE ~up
    <3>1. toDriver' = toDriver
      BY <2>2 DEF Send
    <3> QED BY <1>1, <2>2, <3>1 DEF Inv, TypeOK, IsStatus, Slots
  <2> QED BY <2>1, <2>2
<1>4. said' \in [Names -> Values \cup {None}]
  BY MessageFacts DEF Inv, TypeOK
<1>5. TypeOK'
  BY <1>1, <1>2, <1>3, <1>4 DEF Inv, TypeOK, Building, driverVars
<1>6. ~Reported' /\ ~Settled' /\ \A i \in Slots' : ~IsStatus(i)'
  BY <1>1, <1>3 DEF Reported, Settled, IsStatus, driverVars
<1>7. SessionInv'
  BY <1>1, <1>6 DEF Inv, SessionInv, driverVars
<1>8. ResultInv'
  BY <1>1, <1>6 DEF ResultInv, PassIsEarned, Settled, Commands, driverVars
<1>9. MetricInv'
  <2> SUFFICES ASSUME up, NEW n \in Names PROVE InStep(n)'
    BY <1>2, <1>6 DEF MetricInv
  <2>1. InStep(n)
    BY DEF Inv, MetricInv
  <2>2. \A i \in Slots : i # last
    BY <1>3
  <2>3. \A i \in Slots : IsMetric(i, n)' <=> IsMetric(i, n)
    BY <1>3 DEF IsMetric
  <2>4. said \in [Names -> Values \cup {None}] /\ metrics' = metrics
    BY DEF Inv, TypeOK, driverVars
  <2>5. CASE m.kind = "metric" /\ m.name = n
    <3>1. last \in Slots' /\ IsMetric(last, n)' /\ toDriver'[last].value = said'[n]
      BY <1>3, <2>4, <2>5 DEF IsMetric
    <3>2. \A k \in Slots' : k <= last
      <4>1. Len(toDriver) \in Nat /\ Slots = 1..Len(toDriver)
        BY ChannelFacts DEF Inv
      <4> QED BY <1>0, <1>3, <4>1
    <3> QED BY <3>1, <3>2 DEF InStep
  <2>6. CASE ~(m.kind = "metric" /\ m.name = n)
    <3>1. ~IsMetric(last, n)' /\ said'[n] = said[n]
      BY <1>3, <2>4, <2>6 DEF IsMetric
    <3>2. CASE \A k \in Slots : ~IsMetric(k, n)
      BY <1>3, <2>1, <2>3, <2>4, <3>1, <3>2 DEF InStep
    <3>3. CASE \E k \in Slots : IsMetric(k, n)
      <4>1. PICK i \in Slots : /\ IsMetric(i, n) /\ toDriver[i].value = said[n]
                               /\ \A k \in Slots : IsMetric(k, n) => k <= i
        BY <2>1, <3>3 DEF InStep
      <4>2. /\ i \in Slots' /\ IsMetric(i, n)' /\ toDriver'[i].value = said'[n]
            /\ \A k \in Slots' : IsMetric(k, n)' => k <= i
        BY <1>3, <2>3, <3>1, <4>1
      <4> QED BY <4>2 DEF InStep
    <3> QED BY <3>2, <3>3
  <2> QED BY <2>5, <2>6
<1>10. QuietInv'
  BY <1>1, <1>2 DEF Inv, QuietInv, driverVars
<1> QED BY <1>5, <1>7, <1>8, <1>9, <1>10 DEF Inv

(* The runner's process ends, and with it the connection. *)
LEMMA Dies ==
  ASSUME Inv, at \in Building, NEW c \in Panics \cup {"hang up", "crash"}, Die(c),
         faults' \in 0..MaxFaults, faults' = 0 => faults = 0 /\ c \in Panics
  PROVE  Inv'
<1>1. /\ ~Reported /\ ~Settled /\ verdict = None
      /\ \A i \in Slots : ~IsStatus(i)
  BY BuildingFacts
<1>2. /\ at' = "dead" /\ cause' = c /\ up' = FALSE
      /\ UNCHANGED <<posts, calls, said, broke, driverVars>>
  BY DEF Die
<1>3. PICK n \in 0..Len(toDriver) : toDriver' = SubSeq(toDriver, 1, n)
  BY DEF Die
<1>4. /\ toDriver' \in Seq(Message) /\ Slots' \subseteq Slots
      /\ \A i \in Slots' : toDriver'[i] = toDriver[i]
  BY <1>3, PrefixFacts DEF Inv
<1>5. TypeOK'
  <2>1. cause' \in Panics \cup {"hang up", "crash"} /\ cause' # "none"
    BY <1>2 DEF Panics
  <2> QED BY <1>2, <1>4, <2>1 DEF Inv, TypeOK, driverVars
<1>6. ~Reported' /\ ~Settled' /\ \A i \in Slots' : ~IsStatus(i)'
  BY <1>1, <1>2, <1>4 DEF Reported, Settled, IsStatus, driverVars
<1>7. SessionInv'
  BY <1>1, <1>2, <1>6 DEF Inv, SessionInv, driverVars
<1>8. ResultInv'
  BY <1>1, <1>2, <1>6 DEF ResultInv, PassIsEarned, Settled, Commands, driverVars
<1>9. MetricInv'
  BY <1>2, <1>6 DEF MetricInv
<1>10. QuietInv'
  BY <1>2 DEF QuietInv
<1> QED BY <1>5, <1>7, <1>8, <1>9, <1>10 DEF Inv

(* The report, which is the last message. *)
LEMMA ReportStep ==
  ASSUME Inv, ReportTaskStatus
  PROVE  Inv'
<1>0. PICK last \in Nat : last = Len(toDriver) + 1
  BY ChannelFacts DEF Inv
<1>1. at \in Building /\ at \in Reports
  BY DEF ReportTaskStatus, Building
<1>2. /\ ~Reported /\ ~Settled /\ verdict = None
      /\ \A i \in Slots : ~IsStatus(i)
      /\ cause = "none" /\ (faults = 0 => up)
  BY <1>1, BuildingFacts
<1>3. /\ at' = "idle" /\ up' = FALSE
      /\ UNCHANGED <<posts, calls, said, broke, cause, driverVars, faults>>
      /\ toDriver' = IF up THEN Append(toDriver, StatusMessage) ELSE toDriver
  BY DEF ReportTaskStatus
<1>4. /\ StatusMessage \in Message /\ StatusMessage.kind \in {"finished", "interrupted"}
      /\ Wrong(StatusMessage) <=> broke
  BY <1>1 DEF StatusMessage, Reports, Message, Wrong, Verdict, Inv, ResultInv
<1>5. CASE ~up
  <2>1. toDriver' = toDriver
    BY <1>3, <1>5
  <2>2. TypeOK'
    BY <1>2, <1>3, <2>1 DEF Inv, TypeOK, driverVars
  <2>3. ~Reported' /\ ~Settled' /\ \A i \in Slots' : ~IsStatus(i)'
    BY <1>2, <1>3, <2>1 DEF Reported, Settled, IsStatus, Slots, driverVars
  <2>4. SessionInv' /\ ResultInv' /\ MetricInv' /\ QuietInv'
    BY <1>2, <1>3, <1>5, <2>3 DEF Inv, SessionInv, ResultInv, PassIsEarned, Settled, Commands,
       MetricInv, QuietInv, driverVars
  <2> QED BY <2>2, <2>4 DEF Inv
<1>6. CASE up
  <2>1. /\ toDriver' \in Seq(Message) /\ Len(toDriver') = last
        /\ Slots' = Slots \cup {last}
        /\ \A i \in Slots : toDriver'[i] = toDriver[i] /\ i < last
        /\ toDriver'[last] = StatusMessage
    BY <1>0, <1>3, <1>4, <1>6, AppendFacts DEF Inv
  <2>2. TypeOK'
    BY <1>2, <1>3, <2>1 DEF Inv, TypeOK, driverVars
  <2>3. \A i \in Slots' : IsStatus(i)' <=> i = last
    BY <1>2, <1>4, <2>1 DEF IsStatus
  <2>4. Reported' /\ ~Settled' /\ last \in Slots'
    BY <1>2, <1>3, <2>1, <2>3 DEF Reported, Settled, driverVars
  <2>5. SessionInv'
    BY <1>2, <1>3, <2>1, <2>3, <2>4 DEF Inv, SessionInv, driverVars
  <2>6. ResultInv'
    <3>1. \A i \in Slots' : IsStatus(i)' => (Wrong(toDriver'[i]) <=> broke')
      BY <1>3, <1>4, <2>1, <2>3
    <3> QED BY <1>2, <1>3, <2>4, <3>1
            DEF ResultInv, PassIsEarned, Settled, Commands, driverVars, Wrong, Verdict
  <2>7. MetricInv'
    <3> SUFFICES ASSUME NEW n \in Names PROVE InStep(n)'
      BY DEF MetricInv
    <3>1. InStep(n)
      BY <1>6 DEF Inv, MetricInv
    <3>2. \A i \in Slots' : IsMetric(i, n)' <=> i \in Slots /\ IsMetric(i, n)
      BY <1>4, <2>1 DEF IsMetric
    <3>3. said' = said /\ metrics' = metrics
      BY <1>3 DEF driverVars
    <3>4. CASE \A k \in Slots : ~IsMetric(k, n)
      <4>1. \A k \in Slots' : ~IsMetric(k, n)'
        BY <3>2, <3>4
      <4>2. metrics[n] = said[n]
        BY <3>1, <3>4 DEF InStep
      <4> QED BY <3>3, <4>1, <4>2 DEF InStep
    <3>5. CASE \E k \in Slots : IsMetric(k, n)
      <4>1. PICK i \in Slots : /\ IsMetric(i, n) /\ toDriver[i].value = said[n]
                               /\ \A k \in Slots : IsMetric(k, n) => k <= i
        BY <3>1, <3>5 DEF InStep
      <4>2. /\ i \in Slots' /\ IsMetric(i, n)' /\ toDriver'[i].value = said'[n]
            /\ \A k \in Slots' : IsMetric(k, n)' => k <= i
        BY <2>1, <3>2, <3>3, <4>1
      <4> QED BY <4>2 DEF InStep
    <3> QED BY <3>4, <3>5
  <2>8. QuietInv'
    BY <1>1, <1>3, <2>4 DEF Inv, QuietInv, Reports, driverVars
  <2> QED BY <2>2, <2>5, <2>6, <2>7, <2>8 DEF Inv
<1> QED BY <1>5, <1>6 DEF Inv, TypeOK

(* The session takes a message that is no result. *)
LEMMA Takes ==
  ASSUME Inv, task = "running", toDriver # <<>>, Head(toDriver).kind \in {"command", "metric"},
         toDriver' = Tail(toDriver), UNCHANGED <<up, token, state, task, verdict, runnerVars, faults>>,
         metrics' = LET m == Head(toDriver) IN
           IF m.kind = "metric" THEN [metrics EXCEPT ![m.name] = m.value] ELSE metrics
  PROVE  Inv'
<1> DEFINE m == toDriver[1]
<1>1. /\ toDriver' \in Seq(Message)
      /\ m \in Message /\ 1 \in Slots /\ m.kind \in {"command", "metric"}
      /\ Len(toDriver) = Len(toDriver') + 1 /\ Len(toDriver') \in Nat
      /\ \A i \in Slots' : i \in Nat \ {0} /\ i + 1 \in Slots /\ toDriver'[i] = toDriver[i + 1]
      /\ \A i \in Slots : i = 1 \/ (i \in Nat /\ i - 1 \in Slots' /\ toDriver'[i - 1] = toDriver[i])
      /\ metrics' = IF m.kind = "metric" THEN [metrics EXCEPT ![m.name] = m.value] ELSE metrics
  <2>1. Len(toDriver') \in Nat
    BY TailFacts DEF Inv
  <2> QED BY <2>1, TailFacts DEF Inv
<1>2. verdict = None /\ ~Settled
  BY DEF Inv, SessionInv
<1>3. metrics' \in [Names -> Values \cup {None}]
  BY <1>1, MessageFacts DEF Inv, TypeOK
<1>4. TypeOK'
  <2>1. /\ up \in BOOLEAN /\ token \in {"unset", "valid", "expired"}
        /\ task \in {"acked", "running", "telling", "gone"}
        /\ verdict \in {"pass", "fail", None} /\ faults \in 0..MaxFaults
    BY DEF Inv, TypeOK
  <2> QED BY <1>1, <1>3, <2>1, RunnerStandsStill DEF Inv
<1>5. \A i \in Slots : IsStatus(i) => i # 1
  BY <1>1 DEF IsStatus
<1>6. Reported' <=> Reported
  BY <1>1, <1>2, <1>5 DEF Reported, Settled, IsStatus
<1>7. SessionInv'
  <2>1. ASSUME NEW i \in Slots', IsStatus(i)' PROVE i = Len(toDriver')
    <3>1. i + 1 \in Slots /\ IsStatus(i + 1) /\ i \in Nat
      BY <1>1, <2>1 DEF IsStatus
    <3>2. i + 1 = Len(toDriver)
      BY <3>1 DEF Inv, SessionInv
    <3>3. Len(toDriver) = Len(toDriver') + 1 /\ Len(toDriver') \in Nat
      BY <1>1
    <3> QED BY <3>1, <3>2, <3>3
  <2> QED BY <1>2, <1>6, <2>1 DEF Inv, SessionInv, Settled, runnerVars
<1>8. ResultInv'
  <2>1. \A i \in Slots' : IsStatus(i)' => (Wrong(toDriver'[i]) <=> broke')
    BY <1>1 DEF Inv, ResultInv, IsStatus, runnerVars
  <2> QED BY <1>2, <2>1 DEF Inv, ResultInv, PassIsEarned, Settled, runnerVars, Wrong, Verdict
<1>9. MetricInv'
  <2> SUFFICES ASSUME up \/ Reported, NEW n \in Names PROVE InStep(n)'
    BY <1>6 DEF MetricInv
  <2>1. InStep(n) /\ said' = said
    BY DEF Inv, MetricInv, runnerVars
  <2>2. \A i \in Slots' : i \in Nat \ {0} /\ i + 1 \in Slots /\ (IsMetric(i, n)' <=> IsMetric(i + 1, n))
    BY <1>1 DEF IsMetric
  <2>3. metrics \in [Names -> Values \cup {None}]
    BY DEF Inv, TypeOK
  <2>4. CASE \A k \in Slots : ~IsMetric(k, n)
    <3>1. metrics[n] = said[n] /\ ~IsMetric(1, n)
      BY <1>1, <2>1, <2>4 DEF InStep
    <3>2. metrics'[n] = said'[n]
      BY <1>1, <2>1, <2>3, <3>1 DEF IsMetric
    <3>3. \A k \in Slots' : ~IsMetric(k, n)'
      BY <2>2, <2>4
    <3> QED BY <3>2, <3>3 DEF InStep
  <2>5. CASE \E k \in Slots : IsMetric(k, n)
    <3>1. PICK i \in Slots : /\ IsMetric(i, n) /\ toDriver[i].value = said[n]
                             /\ \A k \in Slots : IsMetric(k, n) => k <= i
      BY <2>1, <2>5 DEF InStep
    <3>2. CASE i = 1
      <4>1. \A k \in Slots' : ~IsMetric(k, n)'
        BY <2>2, <3>1, <3>2
      <4>2. metrics'[n] = said'[n]
        BY <1>1, <2>1, <2>3, <3>1, <3>2 DEF IsMetric
      <4> QED BY <4>1, <4>2 DEF InStep
    <3>3. CASE i # 1
      <4>1. PICK j \in Slots' : j = i - 1 /\ i \in Nat /\ toDriver'[j] = toDriver[i]
        BY <1>1, <3>3
      <4>2. /\ IsMetric(j, n)' /\ toDriver'[j].value = said'[n]
            /\ \A k \in Slots' : IsMetric(k, n)' => k <= j
        <5>1. IsMetric(j, n)' /\ toDriver'[j].value = said'[n]
          BY <2>1, <3>1, <4>1 DEF IsMetric
        <5>2. ASSUME NEW k \in Slots', IsMetric(k, n)' PROVE k <= j
          <6>1. k \in Nat /\ k + 1 <= i
            BY <2>2, <3>1, <5>2
          <6> QED BY <4>1, <6>1
        <5> QED BY <5>1, <5>2
      <4> QED BY <4>2 DEF InStep
    <3> QED BY <3>2, <3>3
  <2> QED BY <2>4, <2>5
<1>10. QuietInv'
  BY <1>6 DEF Inv, QuietInv, runnerVars
<1> QED BY <1>4, <1>7, <1>8, <1>9, <1>10 DEF Inv

(* The result is the last message, and the metrics are in their rows. *)
LEMMA TakesResult ==
  ASSUME Inv, RecvStatus
  PROVE  Inv'
<1>1. /\ task = "running" /\ toDriver # <<>>
      /\ Head(toDriver).kind \in {"finished", "interrupted"}
      /\ toDriver' = Tail(toDriver) /\ up' = up
      /\ verdict' = Verdict(Head(toDriver)) /\ task' = "telling"
      /\ UNCHANGED <<token, state, metrics, runnerVars, faults>>
  BY DEF RecvStatus, Receives
<1>2. Head(toDriver) = toDriver[1] /\ 1 \in Slots /\ Head(toDriver) \in Message
  BY <1>1, TailFacts DEF Inv
<1>3. IsStatus(1)
  BY <1>1, <1>2 DEF IsStatus
<1>4. Len(toDriver) = 1 /\ Slots = {1} /\ toDriver \in Seq(Message)
  <2>1. Len(toDriver) = 1
    BY <1>2, <1>3 DEF Inv, SessionInv
  <2> QED BY <2>1, ChannelFacts DEF Inv
<1>5. toDriver' = <<>> /\ Slots' = {}
  BY <1>1, <1>4 DEF Slots
<1>6. Reported /\ at = "idle" /\ ~up /\ ~Settled
  BY <1>1, <1>2, <1>3 DEF Inv, SessionInv, Reported
<1>7. verdict' \in {"pass", "fail"} /\ verdict' # None /\ (verdict' = "fail" <=> broke)
  BY <1>1, <1>2, <1>3, MessageFacts, BuildsBounds DEF Inv, ResultInv, Wrong
<1>8. TypeOK'
  <2>1. toDriver' \in Seq(Message)
    BY <1>5
  <2> QED BY <1>1, <1>7, <2>1 DEF Inv, TypeOK, runnerVars
<1>9. SessionInv' /\ QuietInv'
  BY <1>1, <1>5, <1>6, <1>7 DEF Inv, SessionInv, QuietInv, Reported, Settled, runnerVars
<1>10. ResultInv'
  BY <1>1, <1>5, <1>6, <1>7 DEF Inv, ResultInv, PassIsEarned, Settled, runnerVars, Commands
<1>11. MetricInv'
  <2> SUFFICES ASSUME NEW n \in Names PROVE metrics[n] = said[n]
    BY <1>1, <1>5 DEF MetricInv, InStep, runnerVars
  <2>1. InStep(n)
    BY <1>6 DEF Inv, MetricInv
  <2>2. ~IsMetric(1, n)
    BY <1>3 DEF IsStatus, IsMetric
  <2> QED BY <1>4, <2>1, <2>2 DEF InStep
<1> QED BY <1>8, <1>9, <1>10, <1>11 DEF Inv

(* The rest of the session reads nothing: what it changes. *)
LEMMA SessionStep ==
  ASSUME Inv, ActivateRun \/ TokenExpires \/ CompleteRun \/ HangUp
  PROVE  Inv'
<1>1. UNCHANGED <<metrics, runnerVars, netVars, faults>>
  BY DEF ActivateRun, TokenExpires, CompleteRun, HangUp
<1>2. /\ Slots' = Slots /\ \A i : IsStatus(i)' = IsStatus(i)
      /\ \A n : InStep(n)' = InStep(n)
  BY <1>1 DEF netVars, runnerVars, Slots, IsStatus, InStep, IsMetric
<1>3. CASE ActivateRun
  <2>1. /\ task = "acked" /\ task' = "running" /\ state = "pending" /\ state' = "started"
        /\ token' = "valid" /\ verdict' = verdict /\ verdict = None
    BY <1>3 DEF ActivateRun, Inv, SessionInv
  <2>2. Reported' <=> Reported
    BY <1>2, <2>1 DEF Reported, Settled
  <2>3. TypeOK'
    BY <1>1, <2>1 DEF Inv, TypeOK, runnerVars, netVars
  <2>4. SessionInv' /\ QuietInv'
    BY <1>1, <1>2, <2>1, <2>2 DEF Inv, SessionInv, QuietInv, Settled, runnerVars, netVars
  <2>5. ResultInv' /\ MetricInv'
    BY <1>1, <1>2, <2>1, <2>2 DEF Inv, ResultInv, PassIsEarned, MetricInv, Settled, runnerVars,
       netVars, Wrong, Verdict
  <2> QED BY <2>3, <2>4, <2>5 DEF Inv
<1>4. CASE TokenExpires
  <2>1. token' = "expired" /\ UNCHANGED <<state, task, verdict>>
    BY <1>4 DEF TokenExpires
  <2>2. Reported' <=> Reported
    BY <1>2, <2>1 DEF Reported, Settled
  <2>3. TypeOK'
    <3>1. /\ up \in BOOLEAN /\ toDriver \in Seq(Message) /\ metrics \in [Names -> Values \cup {None}]
          /\ task \in {"acked", "running", "telling", "gone"} /\ verdict \in {"pass", "fail", None}
          /\ faults \in 0..MaxFaults
      BY DEF Inv, TypeOK
    <3>2. UNCHANGED <<up, toDriver, state, metrics, task, verdict, faults, runnerVars>>
      BY <1>1, <2>1 DEF netVars
    <3> QED BY <2>1, <3>1, <3>2, RunnerStandsStill DEF Inv
  <2>4. SessionInv' /\ QuietInv'
    BY <1>1, <1>2, <2>1, <2>2 DEF Inv, SessionInv, QuietInv, Settled, runnerVars, netVars
  <2>5. ResultInv' /\ MetricInv'
    BY <1>1, <1>2, <2>1, <2>2 DEF Inv, ResultInv, PassIsEarned, MetricInv, Settled, runnerVars,
       netVars, Wrong, Verdict
  <2> QED BY <2>3, <2>4, <2>5 DEF Inv
<1>5. CASE CompleteRun
  <2>1. /\ task = "telling" /\ task' = "running" /\ verdict # None /\ verdict' = None
        /\ state' = (IF verdict = "pass" THEN "finished" ELSE "error") /\ token' = token
        /\ toDriver = <<>> /\ Reported
    BY <1>5 DEF CompleteRun, Inv, SessionInv, Reported
  <2>2. Reported' /\ Settled' /\ Slots = {} /\ verdict \in {"pass", "fail"}
    <3>1. Settled' /\ Reported'
      BY <2>1 DEF Settled, Reported
    <3>2. verdict \in {"pass", "fail"}
      BY <2>1 DEF Inv, TypeOK
    <3>3. Slots = {}
      BY <2>1 DEF Slots
    <3> QED BY <3>1, <3>2, <3>3
  <2>3. TypeOK'
    BY <1>1, <2>1 DEF Inv, TypeOK, runnerVars, netVars
  <2>4. SessionInv' /\ QuietInv'
    BY <1>1, <1>2, <2>1, <2>2 DEF Inv, SessionInv, QuietInv, runnerVars, netVars
  <2>5. ResultInv'
    BY <1>1, <1>2, <2>1, <2>2 DEF Inv, ResultInv, PassIsEarned, runnerVars, netVars
  <2>6. MetricInv'
    BY <1>2, <2>1 DEF Inv, MetricInv
  <2> QED BY <2>3, <2>4, <2>5, <2>6 DEF Inv
<1>6. CASE HangUp
  <2>1. /\ task = "running" /\ task' = "gone" /\ UNCHANGED <<token, state, verdict>>
        /\ toDriver = <<>> /\ ~up /\ verdict = None
    BY <1>6 DEF HangUp, Inv, SessionInv
  <2>2. (Reported' <=> Reported) /\ Slots = {}
    BY <1>2, <2>1 DEF Reported, Settled, Slots
  <2>3. TypeOK'
    BY <1>1, <2>1 DEF Inv, TypeOK, runnerVars, netVars
  <2>4. SessionInv'
    BY <1>1, <1>2, <2>1, <2>2 DEF Inv, SessionInv, Settled, runnerVars, netVars
  <2>5. ResultInv' /\ MetricInv'
    BY <1>1, <1>2, <2>1, <2>2 DEF Inv, ResultInv, PassIsEarned, MetricInv, Settled, runnerVars,
       netVars, Wrong, Verdict
  <2>6. QuietInv'
    BY <1>1, <2>1, <2>2 DEF Inv, QuietInv, Reported, Settled, runnerVars, netVars
  <2> QED BY <2>3, <2>4, <2>5, <2>6 DEF Inv
<1> QED BY <1>3, <1>4, <1>5, <1>6

(* A fault takes messages and the session's result with it; a result in the *)
(* row has no message behind it.                                            *)
LEMMA FaultStep ==
  ASSUME Inv, SessionDies \/ ConnLost
  PROVE  Inv'
<1>1. faults' \in 0..MaxFaults /\ faults' # 0
  <2>1. faults < MaxFaults /\ faults' = faults + 1
    BY DEF SessionDies, ConnLost, Fault
  <2>2. faults \in 0..MaxFaults
    BY DEF Inv, TypeOK
  <2> QED BY <2>1, <2>2, BuildsBounds
<1>2. QuietInv'
  BY <1>1 DEF QuietInv
<1>3. CASE SessionDies
  <2>1. /\ task' = "gone" /\ up' = FALSE /\ toDriver' = <<>> /\ verdict' = None
        /\ UNCHANGED <<token, state, metrics, runnerVars>>
    BY <1>3 DEF SessionDies
  <2>2. toDriver' \in Seq(Message) /\ Slots' = {}
    BY <2>1 DEF Slots
  <2>3. TypeOK'
    BY <1>1, <2>1, <2>2 DEF Inv, TypeOK, runnerVars
  <2>4. /\ Settled' <=> Settled
        /\ Reported' <=> Settled
    BY <2>1, <2>2 DEF Reported, Settled
  <2>5. Settled => Reported /\ toDriver = <<>> /\ Slots = {}
    BY DEF Reported, Inv, SessionInv, Slots
  <2>6. SessionInv'
    BY <2>1, <2>2, <2>4, <2>5 DEF Inv, SessionInv, runnerVars
  <2>7. ResultInv'
    BY <2>1, <2>2 DEF Inv, ResultInv, PassIsEarned, runnerVars
  <2>8. MetricInv'
    BY <2>1, <2>2, <2>4, <2>5 DEF Inv, MetricInv, InStep, runnerVars
  <2> QED BY <1>2, <2>3, <2>6, <2>7, <2>8 DEF Inv
<1>4. CASE ConnLost
  <2>1. up /\ up' = FALSE /\ UNCHANGED <<runnerVars, driverVars>>
    BY <1>4 DEF ConnLost
  <2>2. PICK n \in 0..Len(toDriver) : toDriver' = SubSeq(toDriver, 1, n)
    BY <1>4 DEF ConnLost
  <2>3. /\ toDriver' \in Seq(Message) /\ Slots' \subseteq Slots
        /\ \A i \in Slots' : toDriver'[i] = toDriver[i]
    BY <2>2, PrefixFacts DEF Inv
  <2>4. ~Reported /\ verdict = None /\ ~Settled /\ \A i \in Slots : ~IsStatus(i)
    BY <2>1 DEF Inv, SessionInv, Reported
  <2>5. ~Reported' /\ ~Settled' /\ \A i \in Slots' : ~IsStatus(i)'
    BY <2>1, <2>3, <2>4 DEF Reported, Settled, IsStatus, driverVars
  <2>6. TypeOK'
    <3>1. /\ token \in {"unset", "valid", "expired"} /\ metrics \in [Names -> Values \cup {None}]
          /\ task \in {"acked", "running", "telling", "gone"} /\ verdict \in {"pass", "fail", None}
      BY DEF Inv, TypeOK
    <3>2. UNCHANGED <<token, state, metrics, task, verdict>> /\ UNCHANGED runnerVars /\ up' = FALSE
      BY <2>1 DEF driverVars
    <3> QED BY <1>1, <2>3, <3>1, <3>2, RunnerStandsStill DEF Inv
  <2>7. SessionInv' /\ ResultInv'
    BY <2>1, <2>4, <2>5 DEF Inv, SessionInv, ResultInv, PassIsEarned, Settled, runnerVars, driverVars
  <2>8. MetricInv'
    BY <2>1, <2>5 DEF MetricInv
  <2> QED BY <1>2, <2>6, <2>7, <2>8 DEF Inv
<1> QED BY <1>3, <1>4
------------------------------------------------------------------------------

(* Every step of the build and of its session keeps the invariant. *)
LEMMA InvNext == Inv /\ [Next]_vars => Inv'
<1> SUFFICES ASSUME Inv, [Next]_vars PROVE Inv'
  OBVIOUS
<1>1. /\ posts \in 0..2 /\ calls \in 0..MaxCalls /\ broke \in BOOLEAN
      /\ faults \in 0..MaxFaults
  BY DEF Inv, TypeOK
<1>2. at \in Building => (broke <=> at \in {"bad_ref", "failed"})
  BY <1>1 DEF Inv, ResultInv, Building, Commands, Reports
<1>3. ASSUME Call PROVE /\ at = "script" /\ at \in Building /\ ~broke
                        /\ calls' \in 0..MaxCalls
  <2>1. at = "script" /\ calls < MaxCalls /\ calls' = calls + 1
    BY <1>3 DEF Call
  <2>2. calls' \in 0..MaxCalls
    BY <1>1, <2>1, BuildsBounds
  <2> QED BY <1>2, <2>1, <2>2 DEF Building
<1>4. ASSUME ~broke,
             \/ at' \in Building \ {"bad_ref", "failed"} /\ broke' = broke
             \/ at' \in {"bad_ref", "failed"} /\ broke' = TRUE
      PROVE  at' \in Building /\ broke' \in BOOLEAN /\ (broke' <=> at' \in {"bad_ref", "failed"})
  <2>1. CASE at' \in Building \ {"bad_ref", "failed"} /\ broke' = broke
    BY <1>1, <1>4, <2>1, Zenon
  <2>2. CASE at' \in {"bad_ref", "failed"} /\ broke' = TRUE
    <3>1. at' \in Building
      BY <2>2 DEF Building, Reports
    <3> QED BY <2>2, <3>1, Zenon
  <2> QED BY <1>4, <2>1, <2>2
<1>4a. /\ Commands \subseteq Building \ {"bad_ref", "failed"}
       /\ {"goodfile", "script", "upload", "pass"} \subseteq Building \ {"bad_ref", "failed"}
  BY DEF Building, Commands, Reports
<1>4b. Raise => \/ at' \in Building \ {"bad_ref", "failed"} /\ broke' = broke
                \/ at' \in {"bad_ref", "failed"} /\ broke' = TRUE
  BY <1>4a DEF Raise
<1>5. ASSUME NEW c \in Panics, at \in Building, Die(c), UNCHANGED faults
      PROVE  Inv'
  BY <1>1, <1>5, Dies
<1>6. CASE PostArtifact
  <2>1. /\ at \in Commands /\ posts < 2 /\ posts' = posts + 1
        /\ UNCHANGED <<at, calls, said, broke, cause, netVars, driverVars, faults>>
    BY <1>6 DEF PostArtifact
  <2>2. posts' \in 0..2
    BY <1>1, <2>1
  <2>3. at \in Building /\ at' \in Building
    BY <2>1 DEF Building
  <2>4. calls' \in 0..MaxCalls /\ broke' \in BOOLEAN /\ (broke' <=> at' \in {"bad_ref", "failed"})
    BY <1>1, <1>2, <2>1, <2>3
  <2> QED BY <2>1, <2>2, <2>3, <2>4, MovesOn
<1>7. CASE RefusedArtifact \/ UnsentArtifact
  <2>1. at \in Building /\ (Die("refused") \/ Die("unsent")) /\ UNCHANGED faults
    BY <1>7 DEF RefusedArtifact, UnsentArtifact, Building
  <2> QED BY <1>5, <2>1 DEF Panics
<1>7a. CASE TmpdirPanics \/ SetupPanics
  <2>1. at \in Building /\ (Die("tmpdir") \/ Die("setup")) /\ UNCHANGED faults
    BY <1>7a DEF TmpdirPanics, SetupPanics, Building, Commands
  <2> QED BY <1>5, <2>1 DEF Panics
<1>7b. CASE CallPanics
  <2>1. at \in Building /\ (Die("argument") \/ Die("no command")) /\ UNCHANGED faults
    BY <1>7b DEF CallPanics, Building, Commands
  <2> QED BY <1>5, <2>1 DEF Panics
<1>7c. CASE FindGoodfile
  <2>1. /\ at = "goodfile"
        /\ \/ at' = "script" /\ broke' = broke
           \/ at' \in {"bad_ref", "failed"} /\ broke' = TRUE
        /\ UNCHANGED <<posts, calls, said, cause, netVars, driverVars, faults>>
    BY <1>7c DEF FindGoodfile
  <2>2. at \in Building /\ ~broke
    BY <1>2, <2>1 DEF Building
  <2>3. at' \in Building /\ broke' \in BOOLEAN /\ (broke' <=> at' \in {"bad_ref", "failed"})
    <3>1. at' = "script" => at' \in Building \ {"bad_ref", "failed"}
      BY <1>4a
    <3> QED BY <1>4, <2>1, <2>2, <3>1
  <2>4. posts' \in 0..2 /\ calls' \in 0..MaxCalls
    BY <1>1, <2>1
  <2> QED BY <2>1, <2>2, <2>3, <2>4, MovesOn
<1>8. CASE GitEnds
  <2>1. /\ at \in {"clone", "checkout"} /\ posts' = 0
        /\ \/ at' \in {"checkout", "goodfile"} /\ broke' = broke
           \/ at' \in {"bad_ref", "failed"} /\ broke' = TRUE
        /\ UNCHANGED <<calls, said, cause, netVars, driverVars, faults>>
    BY <1>8 DEF GitEnds, CheckoutFails
  <2>2. at \in Building /\ ~broke
    BY <1>2, <2>1 DEF Building, Commands
  <2>3. at' \in Building /\ broke' \in BOOLEAN /\ (broke' <=> at' \in {"bad_ref", "failed"})
    <3>1. at' \in {"checkout", "goodfile"} => at' \in Building \ {"bad_ref", "failed"}
      BY <1>4a DEF Commands
    <3> QED BY <1>4, <2>1, <2>2, <3>1
  <2>4. posts' \in 0..2 /\ calls' \in 0..MaxCalls
    BY <1>1, <2>1
  <2> QED BY <2>1, <2>2, <2>3, <2>4, MovesOn
<1>9. CASE RunCommand
  <2> DEFINE m == [kind |-> "command"]
  <2>1. /\ Call /\ Send(m) /\ at' = "run" /\ posts' = 0
        /\ UNCHANGED <<said, broke, cause, driverVars, faults>>
    BY <1>9 DEF RunCommand
  <2>2. m \in Message /\ m.kind \in {"command", "metric"} /\ m.kind # "metric"
    BY DEF Message
  <2>3. /\ at \in Building /\ at' \in Building /\ posts' \in 0..2 /\ calls' \in 0..MaxCalls
        /\ broke' \in BOOLEAN /\ (broke' <=> at' \in {"bad_ref", "failed"})
    <3>1. at' \in Building \ {"bad_ref", "failed"}
      BY <1>4a, <2>1 DEF Commands
    <3> QED BY <1>3, <1>4, <2>1, <3>1
  <2>4. said' = IF m.kind = "metric" THEN [said EXCEPT ![m.name] = m.value] ELSE said
    BY <2>1, <2>2
  <2> HIDE DEF m
  <2> QED BY <2>1, <2>2, <2>3, <2>4, Sends
<1>10. CASE CommandExits
  <2> DEFINE m == [kind |-> "command"]
  <2>1. /\ at = "run" /\ Send(m)
        /\ (at' = "script" /\ UNCHANGED broke) \/ Raise
        /\ UNCHANGED <<posts, calls, said, cause, driverVars, faults>>
    BY <1>10 DEF CommandExits
  <2>2. m \in Message /\ m.kind \in {"command", "metric"} /\ m.kind # "metric"
    BY DEF Message
  <2>3. at \in Building /\ ~broke
    BY <1>2, <2>1 DEF Building, Commands
  <2>4. at' \in Building /\ broke' \in BOOLEAN /\ (broke' <=> at' \in {"bad_ref", "failed"})
    BY <1>4, <1>4a, <1>4b, <2>1, <2>3
  <2>5. posts' \in 0..2 /\ calls' \in 0..MaxCalls
    BY <1>1, <2>1
  <2>6. said' = IF m.kind = "metric" THEN [said EXCEPT ![m.name] = m.value] ELSE said
    BY <2>1, <2>2
  <2> HIDE DEF m
  <2> QED BY <2>1, <2>2, <2>3, <2>4, <2>5, <2>6, Sends
<1>11. CASE CommandFailsToStart
  <2>1. /\ at = "run" /\ Raise
        /\ UNCHANGED <<posts, calls, said, cause, netVars, driverVars, faults>>
    BY <1>11 DEF CommandFailsToStart
  <2>2. at \in Building /\ ~broke
    BY <1>2, <2>1 DEF Building, Commands
  <2>3. at' \in Building /\ broke' \in BOOLEAN /\ (broke' <=> at' \in {"bad_ref", "failed"})
    BY <1>4, <1>4b, <2>1, <2>2
  <2>4. posts' \in 0..2 /\ calls' \in 0..MaxCalls
    BY <1>1, <2>1
  <2> QED BY <2>1, <2>2, <2>3, <2>4, MovesOn
<1>12. CASE CommandUnwraps
  <2>1. ~up /\ at \in Building /\ Die("hang up") /\ UNCHANGED faults
    BY <1>12 DEF CommandUnwraps, Building, Commands
  <2>2. faults' # 0 /\ faults' \in 0..MaxFaults
    BY <1>1, <2>1, BuildingFacts
  <2> QED BY <2>1, <2>2, Dies
<1>13. ASSUME NEW n \in Names, NEW v \in Values, SendMetric(n, v) PROVE Inv'
  <2> DEFINE m == [kind |-> "metric", name |-> n, value |-> v]
  <2>1. /\ Call
        /\ \/ Send(m) /\ said' = [said EXCEPT ![n] = v] /\ UNCHANGED <<at, broke>>
           \/ Raise /\ UNCHANGED <<said, netVars>>
        /\ UNCHANGED <<posts, cause, driverVars, faults>>
    BY <1>13 DEF SendMetric
  <2>2. /\ at = "script" /\ at \in Building /\ ~broke /\ posts' \in 0..2
        /\ calls' \in 0..MaxCalls
    BY <1>1, <1>3, <2>1
  <2>3. CASE Send(m) /\ said' = [said EXCEPT ![n] = v] /\ UNCHANGED <<at, broke>>
    <3>1. m \in Message /\ m.kind \in {"command", "metric"}
      BY DEF Message
    <3>2. said' = IF m.kind = "metric" THEN [said EXCEPT ![m.name] = m.value] ELSE said
      BY <2>3
    <3>3. at' \in Building /\ broke' \in BOOLEAN /\ (broke' <=> at' \in {"bad_ref", "failed"})
      BY <1>1, <2>2, <2>3
    <3>4. Send(m) /\ UNCHANGED <<cause, driverVars, faults>>
      BY <2>1, <2>3
    <3> HIDE DEF m
    <3> QED BY <2>2, <3>1, <3>2, <3>3, <3>4, Sends
  <2>4. CASE Raise /\ UNCHANGED <<said, netVars>>
    <3>1. at' \in Building /\ broke' \in BOOLEAN /\ (broke' <=> at' \in {"bad_ref", "failed"})
      BY <1>4, <1>4b, <2>2, <2>4
    <3> QED BY <2>1, <2>2, <2>4, <3>1, MovesOn
  <2> QED BY <2>1, <2>3, <2>4
<1>14. CASE CallArtifact \/ CallFails
  <2>1. /\ Call
        /\ (at' = "upload" /\ UNCHANGED broke) \/ Raise
        /\ UNCHANGED <<posts, said, cause, netVars, driverVars, faults>>
    BY <1>14 DEF CallArtifact, CallFails
  <2>2. /\ at \in Building /\ ~broke /\ posts' \in 0..2 /\ calls' \in 0..MaxCalls
    BY <1>1, <1>3, <2>1
  <2>3. at' \in Building /\ broke' \in BOOLEAN /\ (broke' <=> at' \in {"bad_ref", "failed"})
    BY <1>4, <1>4a, <1>4b, <2>1, <2>2
  <2> QED BY <2>1, <2>2, <2>3, MovesOn
<1>15. CASE UploadFile
  <2>1. /\ at = "upload"
        /\ (at' = "script" /\ UNCHANGED broke) \/ Raise
        /\ UNCHANGED <<posts, calls, said, cause, netVars, driverVars, faults>>
    BY <1>15 DEF UploadFile
  <2>2. at \in Building /\ ~broke
    BY <1>2, <2>1 DEF Building
  <2>3. at' \in Building /\ broke' \in BOOLEAN /\ (broke' <=> at' \in {"bad_ref", "failed"})
    BY <1>4, <1>4a, <1>4b, <2>1, <2>2
  <2>4. posts' \in 0..2 /\ calls' \in 0..MaxCalls
    BY <1>1, <2>1
  <2> QED BY <2>1, <2>2, <2>3, <2>4, MovesOn
<1>16. CASE NoSuchFile
  <2>1. at \in Building /\ Die("no file") /\ UNCHANGED faults
    BY <1>16 DEF NoSuchFile, Building
  <2> QED BY <1>5, <2>1 DEF Panics
<1>17. CASE GoodfileEnds
  <2>1. /\ at = "script"
        /\ \/ at' = "pass" /\ UNCHANGED broke
           \/ at' = "failed" /\ broke' = TRUE
        /\ UNCHANGED <<posts, calls, said, cause, netVars, driverVars, faults>>
    BY <1>17 DEF GoodfileEnds
  <2>2. at \in Building /\ ~broke
    BY <1>2, <2>1 DEF Building
  <2>3. at' \in Building /\ broke' \in BOOLEAN /\ (broke' <=> at' \in {"bad_ref", "failed"})
    BY <1>4, <1>4a, <2>1, <2>2
  <2>4. posts' \in 0..2 /\ calls' \in 0..MaxCalls
    BY <1>1, <2>1
  <2> QED BY <2>1, <2>2, <2>3, <2>4, MovesOn
<1>18. CASE ReportTaskStatus
  BY <1>18, ReportStep
<1>19. CASE RecvMetric \/ RecvCommand
  <2>1. /\ task = "running" /\ toDriver # <<>> /\ Head(toDriver).kind \in {"command", "metric"}
        /\ toDriver' = Tail(toDriver)
        /\ UNCHANGED <<up, token, state, task, verdict, runnerVars, faults>>
    BY <1>19 DEF RecvMetric, RecvCommand, Receives
  <2>2. metrics' = LET m == Head(toDriver) IN
          IF m.kind = "metric" THEN [metrics EXCEPT ![m.name] = m.value] ELSE metrics
    BY <1>19 DEF RecvMetric, RecvCommand, Receives
  <2> QED BY <2>1, <2>2, Takes
<1>20. CASE RecvStatus
  BY <1>20, TakesResult
<1>21. CASE ActivateRun \/ TokenExpires \/ CompleteRun \/ HangUp
  BY <1>21, SessionStep
<1>22. CASE SessionDies \/ ConnLost
  BY <1>22, FaultStep
<1>23. CASE RunnerCrash
  <2>1. Die("crash") /\ at \notin {"idle", "dead"} /\ faults < MaxFaults /\ faults' = faults + 1
    BY <1>23 DEF RunnerCrash, Fault
  <2>2. at \in Building
    BY <2>1 DEF Inv, TypeOK, Building
  <2>3. faults' \in 0..MaxFaults /\ faults' # 0
    BY <1>1, <2>1, BuildsBounds
  <2> QED BY <2>1, <2>2, <2>3, Dies
<1>24. CASE UNCHANGED vars
  <2>1. UNCHANGED <<at, posts, calls, said, broke, cause, up, toDriver, token, state, metrics,
                    task, verdict, faults>>
    BY <1>24 DEF vars, runnerVars, netVars, driverVars
  <2>2. /\ TypeOK' = TypeOK /\ Slots' = Slots /\ Settled' = Settled /\ Reported' = Reported
        /\ \A i : IsStatus(i)' = IsStatus(i)
        /\ \A n : InStep(n)' = InStep(n)
    BY <2>1 DEF TypeOK, Slots, Settled, Reported, IsStatus, InStep, IsMetric
  <2>3. SessionInv' /\ MetricInv' /\ QuietInv'
    BY <2>1, <2>2 DEF Inv, SessionInv, MetricInv, QuietInv
  <2>4. ResultInv'
    BY <2>1, <2>2 DEF Inv, ResultInv, PassIsEarned, Wrong, Verdict
  <2> QED BY <2>2, <2>3, <2>4 DEF Inv
<1> QED BY <1>6, <1>7, <1>7a, <1>7b, <1>7c, <1>8, <1>9, <1>10, <1>11, <1>12, <1>13, <1>14, <1>15,
           <1>16, <1>17, <1>18, <1>19, <1>20, <1>21, <1>22, <1>23, <1>24
        DEF Next, RunnerStep, GoodfileStep, DriverStep

LEMMA Invariance == Spec => []Inv
BY InvInit, InvNext, PTL DEF Spec

------------------------------------------------------------------------------

(* Runner, connection and session stay within what the code gives them. *)
THEOREM BuildTypes == Spec => []TypeOK
<1>1. Inv => TypeOK
  BY DEF Inv
<1> QED BY <1>1, Invariance, PTL

(* handle_event takes a TaskInfo for what it says: the row's result is the  *)
(* build's, whatever the runner's process, the connection or the session's  *)
(* task went through on the way.                                            *)
THEOREM PassesAreEarned == Spec => []PassIsEarned
<1>1. Inv => PassIsEarned
  BY DEF Inv, ResultInv
<1> QED BY <1>1, Invariance, PTL

(* insert_metric has been called for the last value of every metric before  *)
(* complete_run writes a result.                                            *)
THEOREM MetricsAreThere == Spec => []MetricsPrecedeResult
<1>1. Inv => MetricsPrecedeResult
  <2> SUFFICES ASSUME Inv, Settled PROVE metrics = said
    BY DEF MetricsPrecedeResult, Settled
  <2>1. toDriver = <<>> /\ Reported
    BY DEF Inv, SessionInv, Reported
  <2>2. Slots = {}
    BY <2>1 DEF Slots
  <2>3. \A n \in Names : metrics[n] = said[n]
    BY <2>1, <2>2 DEF Inv, MetricInv, InStep
  <2>4. metrics \in [Names -> Values \cup {None}] /\ said \in [Names -> Values \cup {None}]
    BY DEF Inv, TypeOK
  <2> QED BY <2>3, <2>4
<1> QED BY <1>1, Invariance, PTL

(* report_task_status, or a panic of the runner on what the build has it    *)
(* do, precedes the end of every session that nothing disturbs.             *)
THEOREM SilenceHasACause == Spec => []SilentEndsHaveACause
<1>1. Inv => SilentEndsHaveACause
  <2> SUFFICES ASSUME Inv, task = "gone", state = "started", ~(faults > 0)
               PROVE  cause \in Panics
    BY DEF SilentEndsHaveACause
  <2>1. faults = 0
    <3>1. faults \in 0..MaxFaults
      BY DEF Inv, TypeOK
    <3> QED BY <3>1, BuildsBounds
  <2> QED BY <2>1 DEF Inv, QuietInv
<1> QED BY <1>1, Invariance, PTL
------------------------------------------------------------------------------
(* The end of a build *)

(* What is left to do, at most: of the goodfile and of the report, of the   *)
(* messages under way, of the session.  A call costs no more than a command *)
(* with its two artifacts, two messages and the end of it.                  *)
RunnerWork == IF at = "clone" THEN 12 - posts
              ELSE IF at = "checkout" THEN 9 - posts
              ELSE IF at = "goodfile" THEN 6
              ELSE IF at = "run" THEN 11 - posts
              ELSE IF at = "upload" THEN 6
              ELSE IF at = "script" THEN 5
              ELSE IF at \in Reports THEN 4 ELSE 0
TaskWork == IF task \in {"acked", "telling"} THEN 2 ELSE IF task = "running" THEN 1 ELSE 0
TokenWork == IF token = "unset" THEN 2 ELSE IF token = "valid" THEN 1 ELSE 0
ConnWork == (IF up THEN 1 ELSE 0) + 3 * Len(toDriver)

Work == 10 * (MaxCalls - calls) + RunnerWork + TaskWork + TokenWork + ConnWork

BuildIsOver == task = "gone" /\ at \in {"idle", "dead"}

(* The guards of the steps that fairness is about: the runner's and the     *)
(* task's.                                                                  *)
RunnerGoesOn ==
  \/ at \in Commands /\ posts < 2                \* PostArtifact, RefusedArtifact
  \/ at \in {"clone", "checkout"} /\ posts = 2   \* GitEnds
  \/ at = "goodfile"                             \* FindGoodfile
  \/ at = "run" /\ posts = 2                     \* CommandFailsToStart
  \/ at = "script"                               \* GoodfileEnds
  \/ at = "upload"                               \* UploadFile, RefusedArtifact
  \/ at \in Reports                              \* ReportTaskStatus

TaskGoesOn ==
  \/ task \in {"acked", "telling"}               \* ActivateRun, CompleteRun
  \/ task = "running" /\ toDriver # <<>>         \* RecvMetric, RecvCommand, RecvStatus
  \/ task = "running" /\ ~up                     \* HangUp, at the end

SomebodyGoesOn == BuildIsOver \/ RunnerGoesOn \/ TaskGoesOn

(* A runner that is through has let go of the connection, and no token is   *)
(* in the row before the session has put it there.                          *)
EndsInv == /\ at \in {"idle", "dead"} => ~up
           /\ task = "acked" => token = "unset"

LEMMA EndsNext == EndsInv /\ [Next]_vars => EndsInv'
<1> SUFFICES ASSUME EndsInv, [Next]_vars PROVE EndsInv'
  OBVIOUS
<1>1. CASE UNCHANGED vars
  BY <1>1 DEF vars, runnerVars, netVars, driverVars, EndsInv
<1>2. CASE RunnerStep \/ RunnerCrash
  <2>1. UNCHANGED <<task, token>>
    BY <1>2 DEF RunnerStep, RunnerCrash, PostArtifact, UnsentArtifact, RefusedArtifact,
       TmpdirPanics, GitEnds, FindGoodfile, SetupPanics, CallPanics, GoodfileStep,
       CommandExits, CommandFailsToStart, CommandUnwraps, UploadFile, NoSuchFile,
       ReportTaskStatus, RunCommand, CallArtifact, CallFails, GoodfileEnds, SendMetric,
       Die, driverVars
  <2>2. at' \in {"idle", "dead"} => ~up'
    <3>1. CASE \/ UnsentArtifact \/ RefusedArtifact \/ TmpdirPanics \/ SetupPanics \/ CallPanics
               \/ CommandUnwraps \/ NoSuchFile \/ RunnerCrash \/ ReportTaskStatus
      BY <3>1 DEF UnsentArtifact, RefusedArtifact, TmpdirPanics, SetupPanics, CallPanics,
         CommandUnwraps, NoSuchFile, RunnerCrash, ReportTaskStatus, Die
    <3>2. CASE PostArtifact \/ GitEnds \/ FindGoodfile
      BY <3>2 DEF PostArtifact, GitEnds, CheckoutFails, FindGoodfile, Commands
    <3>3. CASE GoodfileStep
      BY <3>3 DEF GoodfileStep, RunCommand, CallArtifact, CallFails, GoodfileEnds, SendMetric,
         Call, Raise
    <3>4. CASE CommandExits \/ CommandFailsToStart \/ UploadFile
      BY <3>4 DEF CommandExits, CommandFailsToStart, UploadFile, Raise
    <3> QED BY <1>2, <3>1, <3>2, <3>3, <3>4 DEF RunnerStep
  <2> QED BY <2>1, <2>2 DEF EndsInv
<1>3. CASE DriverStep \/ TokenExpires
  BY <1>3 DEF DriverStep, TokenExpires, ActivateRun, RecvMetric, RecvCommand, RecvStatus,
     CompleteRun, HangUp, Receives, runnerVars, netVars, EndsInv
<1>4. CASE SessionDies \/ ConnLost
  BY <1>4 DEF SessionDies, ConnLost, runnerVars, driverVars, EndsInv
<1> QED BY <1>1, <1>2, <1>3, <1>4 DEF Next

LEMMA EndsHold == Spec => []EndsInv
<1>1. Init => EndsInv
  BY DEF Init, EndsInv
<1> QED BY <1>1, EndsNext, PTL DEF Spec

(* The parts of it, as numbers *)
Amounts(c, r, t, k, n) == /\ c = calls /\ r = RunnerWork
                          /\ t = TaskWork /\ k = TokenWork /\ n = ConnWork

WorkOK == \E c \in 0..MaxCalls, r, t, k, n \in Nat :
            Amounts(c, r, t, k, n) /\ Work = 10 * (MaxCalls - c) + r + t + k + n

LEMMA WorkTypes == TypeOK => WorkOK
<1> SUFFICES ASSUME TypeOK PROVE WorkOK
  OBVIOUS
<1>1. calls \in 0..MaxCalls /\ MaxCalls \in Nat /\ posts \in 0..2
  BY BuildsBounds DEF TypeOK
<1>2. Len(toDriver) \in Nat
  BY ChannelFacts
<1>3. RunnerWork \in Nat
  BY <1>1 DEF RunnerWork
<1>4. TaskWork \in Nat /\ TokenWork \in Nat
  BY DEF TaskWork, TokenWork
<1>5. ConnWork \in Nat
  BY <1>2 DEF ConnWork
<1>6. PICK c, r, t, k, n : Amounts(c, r, t, k, n)
  BY DEF Amounts
<1>7. Work = 10 * (MaxCalls - c) + r + t + k + n
  BY <1>6 DEF Work, Amounts
<1>8. c \in 0..MaxCalls /\ r \in Nat /\ t \in Nat /\ k \in Nat /\ n \in Nat
  BY <1>1, <1>3, <1>4, <1>5, <1>6 DEF Amounts
<1> QED BY <1>6, <1>7, <1>8 DEF WorkOK

LEMMA WorkTypesNext == TypeOK' => WorkOK'
BY WorkTypes, PTL

(* The sums, of numbers. *)
LEMMA LessOf ==
  ASSUME NEW M \in Nat, NEW c \in 0..M, NEW c2 \in 0..M,
         NEW r \in Nat, NEW t \in Nat, NEW k \in Nat, NEW n \in Nat,
         NEW r2 \in Nat, NEW t2 \in Nat, NEW k2 \in Nat, NEW n2 \in Nat,
         10 * c + r2 + t2 + k2 + n2 < 10 * c2 + r + t + k + n
  PROVE  10 * (M - c2) + r2 + t2 + k2 + n2 < 10 * (M - c) + r + t + k + n
OBVIOUS

(* A step with less to do afterwards. *)
LEMMA LessToDo ==
  ASSUME TypeOK, TypeOK',
         \A c, c2 \in 0..MaxCalls, r, t, k, n, r2, t2, k2, n2 \in Nat :
            Amounts(c, r, t, k, n) /\ Amounts(c2, r2, t2, k2, n2)'
            => 10 * c + r2 + t2 + k2 + n2 < 10 * c2 + r + t + k + n
  PROVE  Work' < Work
<1>1. PICK c \in 0..MaxCalls, r, t, k, n \in Nat :
        Amounts(c, r, t, k, n) /\ Work = 10 * (MaxCalls - c) + r + t + k + n
  BY WorkTypes DEF WorkOK
<1>2. PICK c2 \in 0..MaxCalls, r2, t2, k2, n2 \in Nat :
        Amounts(c2, r2, t2, k2, n2)' /\ Work' = 10 * (MaxCalls - c2) + r2 + t2 + k2 + n2
  BY WorkTypesNext DEF WorkOK
<1>3. 10 * c + r2 + t2 + k2 + n2 < 10 * c2 + r + t + k + n
  BY <1>1, <1>2
<1>4. 10 * (MaxCalls - c2) + r2 + t2 + k2 + n2 < 10 * (MaxCalls - c) + r + t + k + n
  BY <1>3, LessOf, BuildsBounds
<1> QED BY <1>1, <1>2, <1>4

(* A message more is three units more, and only while it can arrive. *)
LEMMA SendWork ==
  ASSUME TypeOK, NEW m \in Message, Send(m)
  PROVE  ConnWork' <= ConnWork + 3 /\ ConnWork' \in Nat
<1>1. Len(toDriver) \in Nat /\ up' = up
  BY ChannelFacts DEF Send
<1>2. Len(toDriver') = Len(toDriver) + 1 \/ Len(toDriver') = Len(toDriver)
  BY AppendFacts DEF Send
<1> QED BY <1>1, <1>2 DEF ConnWork

(* A connection that is lost has less under way. *)
LEMMA CutWork ==
  ASSUME TypeOK, up' = FALSE, NEW n \in 0..Len(toDriver), toDriver' = SubSeq(toDriver, 1, n)
  PROVE  ConnWork' \in Nat /\ ConnWork' <= ConnWork /\ (up => ConnWork' < ConnWork)
<1>1. Len(toDriver) \in Nat /\ Len(toDriver') = n /\ n \in Nat /\ n <= Len(toDriver)
  <2>1. toDriver \in Seq(Message) /\ Len(toDriver) \in Nat
    BY ChannelFacts
  <2>2. n \in Nat /\ n <= Len(toDriver)
    BY <2>1
  <2>3. Len(SubSeq(toDriver, 1, n)) = n
    BY <2>1, <2>2
  <2> QED BY <2>1, <2>2, <2>3
<1> QED BY <1>1 DEF ConnWork

(* Whoever takes a step, there is less to do. *)
LEMMA LessWork == TypeOK /\ TypeOK' /\ EndsInv /\ Next => Work' < Work
<1> SUFFICES ASSUME TypeOK, TypeOK', EndsInv, Next,
                    NEW c \in 0..MaxCalls, NEW c2 \in 0..MaxCalls,
                    NEW r \in Nat, NEW t \in Nat, NEW k \in Nat, NEW n \in Nat,
                    NEW r2 \in Nat, NEW t2 \in Nat, NEW k2 \in Nat, NEW n2 \in Nat,
                    Amounts(c, r, t, k, n), Amounts(c2, r2, t2, k2, n2)'
             PROVE  10 * c + r2 + t2 + k2 + n2 < 10 * c2 + r + t + k + n
  BY LessToDo
<1> DEFINE Less == 10 * c + r2 + t2 + k2 + n2 < 10 * c2 + r + t + k + n
<1>0. posts \in 0..2 /\ c \in Nat
  <2>1. posts \in 0..2
    BY DEF TypeOK
  <2>2. MaxCalls \in Nat
    BY BuildsBounds
  <2> QED BY <2>1, <2>2
<1>a. UNCHANGED <<task, token>> => t2 = t /\ k2 = k
  BY DEF Amounts, TaskWork, TokenWork
<1>b. UNCHANGED netVars => n2 = n
  BY DEF Amounts, ConnWork, netVars
<1>c. UNCHANGED <<task, token, calls>> => t2 = t /\ k2 = k /\ c2 = c
  BY <1>a DEF Amounts
<1>d. UNCHANGED runnerVars => r2 = r /\ c2 = c
  BY DEF Amounts, RunnerWork, runnerVars
\* between two calls of the goodfile
<1>1. CASE \/ PostArtifact \/ GitEnds \/ FindGoodfile
           \/ CommandFailsToStart \/ UploadFile \/ GoodfileEnds
  <2>1. UNCHANGED <<task, token, calls, netVars>>
    BY <1>1 DEF PostArtifact, GitEnds, CheckoutFails, FindGoodfile, CommandFailsToStart,
       UploadFile, GoodfileEnds, driverVars
  <2>2. RunnerWork' < RunnerWork
    <3>1. CASE PostArtifact \/ GitEnds \/ FindGoodfile
      BY <1>0, <3>1 DEF PostArtifact, GitEnds, CheckoutFails, FindGoodfile, RunnerWork, Commands,
         Reports
    <3>2. CASE CommandFailsToStart \/ UploadFile \/ GoodfileEnds
      BY <1>0, <3>2 DEF CommandFailsToStart, UploadFile, GoodfileEnds, Raise, RunnerWork, Reports
    <3> QED BY <1>1, <3>1, <3>2
  <2>3. r2 < r
    BY <2>2 DEF Amounts
  <2>4. t2 = t /\ k2 = k /\ c2 = c /\ n2 = n
    BY <1>b, <1>c, <2>1
  <2> QED BY <1>0, <2>3, <2>4
\* a call: it may cost less than the ten that it takes
<1>2. ASSUME Call, UNCHANGED driverVars, RunnerWork' <= RunnerWork + 6,
             UNCHANGED netVars \/ \E m \in Message : Send(m)
      PROVE  Less
  <2>1. c2 = c + 1
    BY <1>2 DEF Call, Amounts
  <2>2. r2 <= r + 6
    BY <1>2 DEF Amounts
  <2>3. t2 = t /\ k2 = k
    BY <1>2, <1>a DEF driverVars
  <2>4. n2 <= n + 3
    <3>1. CASE UNCHANGED netVars
      BY <1>b, <3>1
    <3>2. CASE \E m \in Message : Send(m)
      BY <3>2, SendWork DEF Amounts
    <3> QED BY <1>2, <3>1, <3>2
  <2> QED BY <1>0, <2>1, <2>2, <2>3, <2>4
<1>3. CASE CallArtifact \/ CallFails
  <2>1. Call /\ UNCHANGED <<driverVars, netVars>>
    BY <1>3 DEF CallArtifact, CallFails
  <2>2. RunnerWork' <= RunnerWork + 6
    BY <1>3, <2>1 DEF CallArtifact, CallFails, Raise, Call, RunnerWork, Reports
  <2> QED BY <1>2, <2>1, <2>2
<1>4. CASE RunCommand
  <2>1. Call /\ UNCHANGED driverVars /\ \E m \in Message : Send(m)
    BY <1>4 DEF RunCommand, Message
  <2>2. RunnerWork' <= RunnerWork + 6
    BY <1>4, <2>1 DEF RunCommand, Call, RunnerWork
  <2> QED BY <1>2, <2>1, <2>2
<1>5. ASSUME NEW name \in Names, NEW v \in Values, SendMetric(name, v) PROVE Less
  <2>1. Call /\ UNCHANGED driverVars /\ at = "script" /\ UNCHANGED posts
    BY <1>5 DEF SendMetric, Call
  <2>2. RunnerWork' <= RunnerWork + 6
    BY <1>0, <1>5, <2>1 DEF SendMetric, Raise, RunnerWork, Reports
  <2>3. UNCHANGED netVars \/ \E m \in Message : Send(m)
    BY <1>5 DEF SendMetric, Message
  <2> QED BY <1>2, <2>1, <2>2, <2>3
\* the runner's last words about a command, and about the build
<1>6. CASE CommandExits
  <2>1. UNCHANGED <<task, token, calls>>
    BY <1>6 DEF CommandExits, driverVars
  <2>2. RunnerWork = 9 /\ (RunnerWork' = 5 \/ RunnerWork' = 4)
    BY <1>6 DEF CommandExits, Raise, RunnerWork, Reports
  <2>3. n2 <= n + 3
    <3>1. [kind |-> "command"] \in Message
      BY DEF Message
    <3> QED BY <1>6, <3>1, SendWork DEF CommandExits, Amounts
  <2>4. r = 9 /\ r2 <= 5
    BY <2>2 DEF Amounts
  <2>5. t2 = t /\ k2 = k /\ c2 = c
    BY <1>c, <2>1
  <2> QED BY <1>0, <2>3, <2>4, <2>5
<1>7. CASE ReportTaskStatus
  <2>1. UNCHANGED <<task, token, calls>>
    BY <1>7 DEF ReportTaskStatus, driverVars
  <2>2. RunnerWork = 4 /\ RunnerWork' = 0
    BY <1>7 DEF ReportTaskStatus, RunnerWork, Reports
  <2>3. n2 <= n + 2
    <3>1. StatusMessage \in Message
      BY <1>7 DEF ReportTaskStatus, StatusMessage, Message, Reports
    <3>2. up => Len(toDriver') = Len(toDriver) + 1
      BY <1>7, <3>1, AppendFacts DEF ReportTaskStatus
    <3>3. ~up => toDriver' = toDriver
      BY <1>7 DEF ReportTaskStatus
    <3>4. up' = FALSE /\ Len(toDriver) \in Nat
      BY <1>7, ChannelFacts DEF ReportTaskStatus
    <3>5. ConnWork' <= ConnWork + 2
      BY <3>2, <3>3, <3>4 DEF ConnWork
    <3> QED BY <3>5 DEF Amounts
  <2>4. r = 4 /\ r2 = 0
    BY <2>2 DEF Amounts
  <2>5. t2 = t /\ k2 = k /\ c2 = c
    BY <1>c, <2>1
  <2> QED BY <1>0, <2>3, <2>4, <2>5
\* the end of the process
<1>8. CASE \/ UnsentArtifact \/ RefusedArtifact \/ TmpdirPanics \/ SetupPanics \/ CallPanics
           \/ CommandUnwraps \/ NoSuchFile \/ RunnerCrash
  <2>1. PICK why : Die(why)
    BY <1>8 DEF UnsentArtifact, RefusedArtifact, TmpdirPanics, SetupPanics, CallPanics,
       CommandUnwraps, NoSuchFile, RunnerCrash
  <2>2. at \in Commands \cup Reports \cup {"goodfile", "script", "upload"}
    BY <1>8 DEF UnsentArtifact, RefusedArtifact, TmpdirPanics, SetupPanics, CallPanics,
       CommandUnwraps, NoSuchFile, RunnerCrash, Commands, TypeOK
  <2>3. RunnerWork > 0
    BY <1>0, <2>2 DEF RunnerWork, Commands, Reports
  <2>4. at' = "dead" /\ UNCHANGED <<task, token, calls>>
    BY <2>1 DEF Die, driverVars
  <2>5. RunnerWork' = 0
    BY <2>4 DEF RunnerWork, Reports
  <2>6. r > 0 /\ r2 = 0
    BY <2>3, <2>5 DEF Amounts
  <2>7. n2 <= n
    BY <2>1, CutWork DEF Die, Amounts
  <2>8. t2 = t /\ k2 = k /\ c2 = c
    BY <1>c, <2>4
  <2> QED BY <1>0, <2>6, <2>7, <2>8
\* the session, and faults
<1>9. CASE ActivateRun \/ TokenExpires \/ CompleteRun \/ HangUp
  <2>1. r2 = r /\ c2 = c /\ n2 = n
    BY <1>9, <1>b, <1>d DEF ActivateRun, TokenExpires, CompleteRun, HangUp
  <2>2. t2 + k2 < t + k
    <3>1. CASE ActivateRun
      <4>1. task = "acked" /\ task' = "running" /\ token' = "valid"
        BY <3>1 DEF ActivateRun
      <4>2. token = "unset"
        BY <4>1 DEF EndsInv
      <4>3. t = 2 /\ t2 = 1 /\ k2 = 1 /\ k = 2
        BY <4>1, <4>2 DEF TaskWork, TokenWork, Amounts
      <4> QED BY <4>3
    <3>2. CASE TokenExpires
      <4>1. t2 = t /\ k2 = 0 /\ k = 1
        BY <3>2 DEF TokenExpires, TaskWork, TokenWork, Amounts
      <4> QED BY <4>1
    <3>3. CASE CompleteRun \/ HangUp
      <4>1. t2 < t /\ k2 = k
        BY <3>3 DEF CompleteRun, HangUp, TaskWork, TokenWork, Amounts
      <4> QED BY <4>1
    <3> QED BY <1>9, <3>1, <3>2, <3>3
  <2> QED BY <1>0, <2>1, <2>2
<1>10. CASE RecvMetric \/ RecvCommand \/ RecvStatus
  <2>1. /\ UNCHANGED <<runnerVars, token, up>> /\ task = "running"
        /\ toDriver # <<>> /\ toDriver' = Tail(toDriver) /\ task' \in {"running", "telling"}
    BY <1>10 DEF RecvMetric, RecvCommand, RecvStatus, Receives
  <2>2. Len(toDriver) = Len(toDriver') + 1 /\ Len(toDriver') \in Nat
    BY <2>1, TailFacts
  <2>3. n = n2 + 3
    BY <2>1, <2>2 DEF ConnWork, Amounts
  <2>4. t = 1 /\ t2 <= 2 /\ k2 = k
    BY <2>1 DEF TaskWork, TokenWork, Amounts
  <2>5. r2 = r /\ c2 = c
    BY <1>d, <2>1
  <2> QED BY <1>0, <2>3, <2>4, <2>5
<1>11. CASE SessionDies
  <2>1. /\ UNCHANGED <<runnerVars, token>> /\ task # "gone" /\ task' = "gone"
        /\ up' = FALSE /\ toDriver' = <<>>
    BY <1>11 DEF SessionDies
  <2>2. n2 = 0
    BY <2>1 DEF ConnWork, Amounts
  <2>3. task \in {"acked", "running", "telling"}
    BY <2>1 DEF TypeOK
  <2>4. t2 = 0 /\ t > 0 /\ k2 = k
    BY <2>1, <2>3 DEF TaskWork, TokenWork, Amounts
  <2>5. r2 = r /\ c2 = c
    BY <1>d, <2>1
  <2> QED BY <1>0, <2>2, <2>4, <2>5
<1>12. CASE ConnLost
  <2>1. /\ UNCHANGED <<runnerVars, task, token>> /\ up /\ up' = FALSE
        /\ \E m \in 0..Len(toDriver) : toDriver' = SubSeq(toDriver, 1, m)
    BY <1>12 DEF ConnLost, driverVars
  <2>2. n2 < n
    BY <2>1, CutWork DEF Amounts
  <2>3. r2 = r /\ t2 = t /\ k2 = k /\ c2 = c
    BY <1>a, <1>d, <2>1
  <2> QED BY <1>0, <2>2, <2>3
<1> QED BY <1>1, <1>3, <1>4, <1>5, <1>6, <1>7, <1>8, <1>9, <1>10, <1>11, <1>12
        DEF Next, RunnerStep, GoodfileStep, DriverStep

(* ClientJob::run and RunningJob::run: there is an end to every build of a  *)
(* goodfile that makes so many calls.  Each step, of whomever, also a       *)
(* fault, leaves less to do, and as long as one end has not let go the      *)
(* runner or the session's task has a step to take.                         *)
THEOREM BuildsEnd == Spec => [](Work \in Nat) /\ [][Work' < Work]_vars /\ []SomebodyGoesOn
<1>1. Inv => TypeOK /\ Work \in Nat
  <2> SUFFICES ASSUME Inv PROVE TypeOK /\ Work \in Nat
    OBVIOUS
  <2>1. TypeOK
    BY DEF Inv
  <2>2. PICK c \in 0..MaxCalls, r, t, k, n \in Nat : Work = 10 * (MaxCalls - c) + r + t + k + n
    BY <2>1, WorkTypes DEF WorkOK
  <2>3. 10 * (MaxCalls - c) + r + t + k + n \in Nat
    BY BuildsBounds
  <2> QED BY <2>1, <2>2, <2>3
<1>2. Inv /\ Inv' /\ EndsInv /\ [Next]_vars => [Work' < Work]_vars
  BY LessWork DEF Inv
<1>3. TypeOK /\ EndsInv => SomebodyGoesOn
  <2> SUFFICES ASSUME TypeOK, EndsInv, ~RunnerGoesOn, ~TaskGoesOn PROVE BuildIsOver
    BY DEF SomebodyGoesOn
  <2>0. /\ at \in Commands \cup Reports \cup {"goodfile", "script", "upload", "idle", "dead"}
        /\ posts \in 0..2
    BY DEF TypeOK
  <2>1. at \in {"idle", "dead"}
    <3>1. at \notin Reports \cup {"goodfile", "script", "upload"}
      BY DEF RunnerGoesOn
    <3>2. at \in Commands => posts = 2
      BY <2>0 DEF RunnerGoesOn
    <3>3. at \notin Commands
      BY <3>2 DEF RunnerGoesOn, Commands
    <3> QED BY <2>0, <3>1, <3>3
  <2>2. ~up
    BY <2>1 DEF EndsInv
  <2>3. task = "gone"
    BY <2>2 DEF TypeOK, TaskGoesOn
  <2> QED BY <2>1, <2>3 DEF BuildIsOver
<1> QED BY <1>1, <1>2, <1>3, Invariance, EndsHold, PTL DEF Spec
==============================================================================
