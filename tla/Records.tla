------------------------------- MODULE Records -------------------------------
(****************************************************************************)
(* What is written down about the runs of a job, and what the web server's  *)
(* pages make of it: the times, result, host and token in the rows of       *)
(* `runs`, and the rows of `hosts`, `metrics` and `artifacts`.              *)
(*                                                                          *)
(* Which session may start, settle or give up a run at what moment is taken *)
(* from RunLedger, which module Driver implements.  A session is one        *)
(* connection of a runner, here never reused, and stands for its token.     *)
(*                                                                          *)
(* Times are indices into Moments, which says how many milliseconds they    *)
(* are: the clock advances by steps on either side of a second, a minute    *)
(* and an hour.  The clock does not go back.                                *)
(****************************************************************************)
EXTENDS Integers, Sequences, FiniteSets

CONSTANTS Runs,         \* the runs of one job
          Sessions,     \* connections of runners
          MachineOf,    \* what a runner says of its machine, but for ...
          FreqsOf,      \* ... the frequencies it may read from the system
          Metrics,      \* names of the metrics a goodfile reports, in the order it
                        \* first reports them (a repeat finds its row, as does a
                        \* report of a second session)
          Moments,      \* milliseconds at each time of the clock
          MaxArtifacts, \* bound on uploaded artifacts
          Wrap,         \* numbers of milliseconds are taken modulo this
          None

Times == DOMAIN Moments
Machines == {MachineOf[s] : s \in Sessions}
Freqs == UNION {FreqsOf[s] : s \in Sessions}

ASSUME ClockAssumption == /\ Moments \in Seq(Nat) /\ Moments # <<>>
                          /\ \A i, j \in Times : i < j => Moments[i] < Moments[j]
                          /\ Wrap \in Nat
                          /\ \A t \in Times : Moments[t] < Wrap \div 2
ASSUME NullAssumption == None \notin Sessions \cup Nat \cup {"pass", "fail"}
ASSUME MetricsAssumption == /\ Metrics \in Seq({Metrics[i] : i \in DOMAIN Metrics})
                            /\ \A i, j \in DOMAIN Metrics : Metrics[i] = Metrics[j] => i = j

VARIABLES
  clock,
  \* rows of `runs`
  status,     \* runs.state
  started,    \* runs.started_time
  completed,  \* runs.complete_time
  result,     \* runs.build_result
  host,       \* runs.host_id
  token,      \* runs.build_token
  \* other rows
  hosts,      \* hosts by id
  metrics,    \* names of a run's metrics, by id
  artifacts,  \* artifacts: run, session that uploaded it, kind, created_time
  \* sessions of the driver
  conn,       \* whether the runner has been let in
  freq,       \* the frequency the runner reported
  hostId,     \* RunnerClient.host_id
  claims, owners,
  now,        \* `now` of activate_run, None before it
  reported,   \* how much of its metrics the build has reported, or Done
  \* history
  tried       \* the sessions a run was ever offered to

rowVars  == <<started, completed, result, host, token>>
sideVars == <<hosts, metrics, artifacts>>
sessVars == <<conn, freq, hostId, now, reported>>
ledgerVars == <<status, claims, owners>>
vars == <<clock, ledgerVars, rowVars, sideVars, sessVars, tried>>

Ledger == INSTANCE RunLedger

Verdicts == {"pass", "fail"}
Done == Len(Metrics) + 1
Host == [machine : Machines, freq : Freqs]

(* What an artifact's name tells: a command's output is "... (stdout)" or   *)
(* "... (stderr)", what Build.artifact uploads is named after its file.     *)
Kinds == {"log", "upload"}
Artifact == [run : Runs, by : Sessions, kind : Kinds, at : Times]

TypeOK ==
  /\ clock \in Times
  /\ Ledger!TypeOK
  /\ started \in [Runs -> Times \cup {None}]
  /\ completed \in [Runs -> Times \cup {None}]
  /\ result \in [Runs -> Verdicts \cup {None}]
  /\ token \in [Runs -> Sessions \cup {None}]
  /\ hosts \in Seq(Host)
  /\ host \in [Runs -> DOMAIN hosts \cup {None}]
  /\ metrics \in [Runs -> Seq({Metrics[i] : i \in DOMAIN Metrics})]
  /\ \A r \in Runs : Len(metrics[r]) <= Len(Metrics)
  /\ artifacts \subseteq Artifact
  /\ conn \in [Sessions -> {"new", "up", "refused", "gone"}]
  /\ freq \in [Sessions -> Freqs \cup {None}]
  /\ hostId \in [Sessions -> DOMAIN hosts \cup {None}]
  /\ now \in [Sessions -> Times \cup {None}]
  /\ reported \in [Sessions -> 0..Done]
  /\ tried \in [Runs -> SUBSET Sessions]

Init ==
  /\ clock = 1
  /\ Ledger!Init
  /\ started = [r \in Runs |-> None]
  /\ completed = [r \in Runs |-> None]
  /\ result = [r \in Runs |-> None]
  /\ host = [r \in Runs |-> None]
  /\ token = [r \in Runs |-> None]
  /\ hosts = <<>>
  /\ metrics = [r \in Runs |-> <<>>]
  /\ artifacts = {}
  /\ conn = [s \in Sessions |-> "new"]
  /\ freq = [s \in Sessions |-> None]
  /\ hostId = [s \in Sessions |-> None]
  /\ now = [s \in Sessions |-> None]
  /\ reported = [s \in Sessions |-> 0]
  /\ tried = [r \in Runs |-> {}]

------------------------------------------------------------------------------
(* Time *)

Tick == /\ clock < Len(Moments)
        /\ clock' = clock + 1
        /\ UNCHANGED <<ledgerVars, rowVars, sideVars, sessVars, tried>>

------------------------------------------------------------------------------
(* Hosts: id_for_host, for a runner that connects *)

(* Rows that a host with this description would violate the UNIQUE          *)
(* constraint with; it leaves out the frequency.                            *)
Duplicates(d) == {h \in DOMAIN hosts : hosts[h].machine = d.machine}

(* Faulty variant: the frequency of a known host is updated. *)
InsertHost_updates(d) ==
  hosts' = IF Duplicates(d) = {}
           THEN Append(hosts, d)
           ELSE [h \in DOMAIN hosts |-> IF h \in Duplicates(d) THEN d ELSE hosts[h]]

(* "insert or ignore" *)
InsertHost(d) == hosts' = IF Duplicates(d) = {} THEN Append(hosts, d) ELSE hosts

(* The lookup asks for the frequency as well. *)
FoundHosts(d) == {h \in DOMAIN hosts' : hosts'[h] = d}

(* handle_next_job: a runner whose host is not found is not let in. *)
Connect(s, f) ==
  LET d == [machine |-> MachineOf[s], freq |-> f] IN
  /\ conn[s] = "new"
  /\ InsertHost(d)
  /\ freq' = [freq EXCEPT ![s] = f]
  /\ \/ \E h \in FoundHosts(d) : /\ hostId' = [hostId EXCEPT ![s] = h]
                                 /\ conn' = [conn EXCEPT ![s] = "up"]
     \/ /\ FoundHosts(d) = {}
        /\ conn' = [conn EXCEPT ![s] = "refused"]
        /\ UNCHANGED hostId
  /\ UNCHANGED <<clock, ledgerVars, rowVars, metrics, artifacts, now, reported, tried>>

------------------------------------------------------------------------------
(* Runs *)

Free(s) == conn[s] = "up" /\ \A r \in Runs : s \notin claims[r] \cup owners[r]

Offered(r, s) == /\ tried' = [tried EXCEPT ![r] = @ \cup {s}]
                 /\ UNCHANGED <<clock, rowVars, sideVars, sessVars>>

(* new_run *)
NewRun(r) == /\ Ledger!Create(r)
             /\ UNCHANGED <<clock, rowVars, sideVars, sessVars, tried>>

(* find_client_task reads a pending run that it will return, or inserts one *)
(* of its own.                                                              *)
Offer(r, s) == Free(s) /\ Ledger!Claim(r, s) /\ Offered(r, s)

OfferAlternate(r, s) == Free(s) /\ Ledger!CreateClaimed(r, s) /\ Offered(r, s)

(* activate_run takes the time first, when others may have started or       *)
(* settled the run since it was read, and then submits it to the runner.    *)
TakeTime(r, s) ==
  /\ s \in claims[r] /\ now[s] = None
  /\ now' = [now EXCEPT ![s] = clock]
  /\ UNCHANGED <<clock, ledgerVars, rowVars, sideVars, conn, freq, hostId, reported, tried>>

(* The rest of activate_run, after Started: complete_time and build_result  *)
(* are left as they are.                                                    *)
Activate(r, s) ==
  /\ now[s] # None
  /\ Ledger!Start(r, s)
  /\ started' = [started EXCEPT ![r] = now[s]]
  /\ host' = [host EXCEPT ![r] = hostId[s]]
  /\ token' = [token EXCEPT ![r] = s]
  /\ UNCHANGED <<clock, completed, result, sideVars, sessVars, tried>>

(* The runner's Finished, which a build sends once, and last. *)
Settle(r, s) ==
  /\ reported[s] # Done
  /\ reported' = [reported EXCEPT ![s] = Done]
  /\ \E v \in Verdicts : /\ Ledger!Finish(r, s)
                         /\ (status'[r] = "finished") <=> (v = "pass")
                         /\ result' = [result EXCEPT ![r] = v]
  /\ UNCHANGED <<clock, started, host, token, sideVars, conn, freq, hostId, now, tried>>

(* Faulty variant: the state is not part of the update. *)
CompleteRun_keepsState(r, s) ==
  /\ s \in owners[r] /\ reported[s] # Done
  /\ reported' = [reported EXCEPT ![s] = Done]
  /\ \E v \in Verdicts : result' = [result EXCEPT ![r] = v]
  /\ completed' = [completed EXCEPT ![r] = clock]
  /\ UNCHANGED <<clock, ledgerVars, started, host, token, sideVars,
                 conn, freq, hostId, now, tried>>

(* Faulty variant: the time of the first completion is kept. *)
CompleteRun_keepsTime(r, s) ==
  Settle(r, s) /\ completed' = [completed EXCEPT ![r] = IF @ = None THEN clock ELSE @]

(* ClientJob::run, after the remotes were told of the result. *)
CompleteRun(r, s) == Settle(r, s) /\ completed' = [completed EXCEPT ![r] = clock]

(* reap_task *)
ReapTask(r) == /\ Ledger!Reap(r)
               /\ UNCHANGED <<clock, rowVars, sideVars, sessVars, tried>>

Leave(s) == /\ conn[s] = "up"
            /\ Ledger!Leave(s)
            /\ conn' = [conn EXCEPT ![s] = "gone"]
            /\ UNCHANGED <<clock, rowVars, sideVars, freq, hostId, now, reported, tried>>

DriverRestart == /\ Ledger!Crash
                 /\ conn' = [s \in Sessions |-> IF conn[s] = "up" THEN "gone" ELSE conn[s]]
                 /\ UNCHANGED <<clock, rowVars, sideVars, freq, hostId, now, reported, tried>>

------------------------------------------------------------------------------
(* Metrics and artifacts of a build *)

(* Faulty variants of insert_metric: no conflict clause; "insert or         *)
(* replace", which gives the row a new id.                                  *)
InsertMetric_always(r, m) == metrics' = [metrics EXCEPT ![r] = Append(@, m)]

InsertMetric_replaces(r, m) ==
  metrics' = [metrics EXCEPT ![r] = Append(SelectSeq(@, LAMBDA x : x # m), m)]

(* insert_metric updates the row of a metric the run has. *)
InsertMetric(r, m) ==
  metrics' = [metrics EXCEPT ![r] = IF \E i \in DOMAIN @ : @[i] = m THEN @ ELSE Append(@, m)]

(* The build reports the next metric of its goodfile to its session. *)
ReportMetric(r, s) ==
  /\ s \in owners[r] /\ reported[s] < Len(Metrics)
  /\ reported' = [reported EXCEPT ![s] = @ + 1]
  /\ InsertMetric(r, Metrics[reported[s] + 1])
  /\ UNCHANGED <<clock, ledgerVars, rowVars, hosts, artifacts, conn, freq, hostId, now, tried>>

(* handle_artifact: a runner posts an artifact with the token of the run,   *)
(* whether its session is still there or not.                               *)
ReserveArtifact(r, s) ==
  /\ token[r] = s
  /\ Cardinality(artifacts) < MaxArtifacts
  /\ \E k \in Kinds : artifacts' = artifacts \cup {[run |-> r, by |-> s, kind |-> k, at |-> clock]}
  /\ UNCHANGED <<clock, ledgerVars, rowVars, hosts, metrics, sessVars, tried>>

------------------------------------------------------------------------------

SessionStep(r, s) == \/ Offer(r, s) \/ OfferAlternate(r, s)
                     \/ TakeTime(r, s) \/ Activate(r, s) \/ CompleteRun(r, s)
                     \/ ReportMetric(r, s) \/ ReserveArtifact(r, s)

Next == \/ Tick
        \/ \E r \in Runs : NewRun(r) \/ ReapTask(r)
        \/ \E s \in Sessions : Leave(s) \/ \E f \in FreqsOf[s] : Connect(s, f)
        \/ \E r \in Runs, s \in Sessions : SessionStep(r, s)
        \/ DriverRestart

Spec == Init /\ [][Next]_vars

------------------------------------------------------------------------------
(* The pages *)

(* Subtraction of u64 milliseconds. *)
Elapsed(from, to) == (Moments[to] - Moments[from]) % Wrap

Ongoing(r) == [says |-> "ongoing", ms |-> Elapsed(started[r], clock)]
Took(r) == [says |-> "took", ms |-> Elapsed(started[r], completed[r])]
Says(s) == [says |-> s, ms |-> None]

(* display_run_time *)
DisplayRunTime(r) ==
  CASE started[r] = None -> Says("not yet run")
    [] started[r] # None /\ completed[r] # None ->
         IF completed[r] >= started[r] THEN Took(r)
         ELSE IF status[r] = "started" THEN Ongoing(r) ELSE Says("invalid data")
    [] started[r] # None /\ completed[r] = None ->
         IF status[r] = "invalid" THEN Says("n/a") ELSE Ongoing(r)

(* Faulty variant: minutes are not taken modulo the hour. *)
DurationAsHumanString_minutes(ms) ==
  LET sec == ms \div 1000  min == sec \div 60  hours == min \div 60 IN
  CASE hours # 0             -> [h |-> hours, m |-> min, s |-> 0, ms |-> 0]
    [] hours = 0 /\ min # 0  -> [h |-> 0, m |-> min, s |-> sec % 60, ms |-> 0]
    [] hours = 0 /\ min = 0  -> [h |-> 0, m |-> 0, s |-> sec, ms |-> ms % 1000]

(* duration_as_human_string: the numbers it prints, 0 for a unit it leaves  *)
(* out.                                                                     *)
DurationAsHumanString(ms) ==
  LET sec == ms \div 1000  min == sec \div 60  hours == min \div 60 IN
  CASE hours # 0             -> [h |-> hours, m |-> min % 60, s |-> 0, ms |-> 0]
    [] hours = 0 /\ min # 0  -> [h |-> 0, m |-> min, s |-> sec % 60, ms |-> 0]
    [] hours = 0 /\ min = 0  -> [h |-> 0, m |-> 0, s |-> sec, ms |-> ms % 1000]

(* The column `result` of the index and of a repository's summary. *)
IndexResult(r) ==
  CASE result[r] # None -> result[r]
    [] result[r] = None /\ status[r] = "pending" -> "unstarted"
    [] result[r] = None /\ status[r] = "started" -> "in progress"
    [] result[r] = None /\ status[r] \notin {"pending", "started"} -> "unreported"

(* The status on a commit's page. *)
CommitStatus(r) ==
  CASE status[r] \in {"pending", "started"} -> "pending"
    [] status[r] = "finished" -> IF result[r] = None THEN "unreported" ELSE result[r]
    [] status[r] = "error" -> "error"
    [] status[r] = "invalid" -> "server error"

(* The query for a run's artifacts, by their names. *)
ArtifactsForRun(r) == {a \in artifacts : a.run = r /\ a.kind = "log"}

ShownSince(r) == IF started[r] = None THEN clock ELSE started[r]

(* Faulty variant: what was created in the millisecond of the start is out. *)
ShownArtifacts_strict(r) == {a \in ArtifactsForRun(r) : a.at > ShownSince(r)}

(* The artifacts on a commit's page.  Those that an earlier session uploaded *)
(* between the later one's `now` and its start are among them.              *)
ShownArtifacts(r) == {a \in ArtifactsForRun(r) : a.at >= ShownSince(r)}

(* What a commit's page says of the machine a run is from. *)
HostDesc(r) == IF host[r] = None THEN None ELSE hosts[host[r]]

------------------------------------------------------------------------------
(* Properties *)

(* However sessions take turns on a run, the time of a finished or failed   *)
(* run is shown as what it took, which is no less than 0 and no more than   *)
(* the clock; "invalid data" is left to runs that the reaper gave up after  *)
(* another session had completed them.                                      *)
ShownTimesAreReal == \A r \in Runs : LET d == DisplayRunTime(r) IN
  /\ status[r] \in {"finished", "error"} => d.says = "took"
  /\ d.says = "invalid data" => status[r] = "invalid" /\ Cardinality(tried[r]) > 1
  /\ d.says \in {"took", "ongoing"} => d.ms <= Moments[clock]

(* A duration as printed is never more than it was, and less by under one   *)
(* of the smallest unit its form can print: a minute from an hour on, a     *)
(* second from a minute on, else not at all.                                *)
ReadBack(p) == ((p.h * 60 + p.m) * 60 + p.s) * 1000 + p.ms
LeftOut(ms) == IF ms >= 3600000 THEN 60000 ELSE IF ms >= 60000 THEN 1000 ELSE 1
DurationsReadBack == \A r \in Runs : LET d == DisplayRunTime(r) IN
  d.ms # None => d.ms - ReadBack(DurationAsHumanString(d.ms)) \in 0..(LeftOut(d.ms) - 1)

(* Of what the holder of a run's token uploaded, the page lists every log   *)
(* of a command, however many sessions started the run and in whatever      *)
(* order, and nothing that Build.artifact uploaded.                         *)
OwnArtifactsAreShown == \A a \in artifacts :
  token[a.run] = a.by => ((a \in ShownArtifacts(a.run)) <=> (a.kind = "log"))

(* "metrics *will* be consistently ordered": the rows of a run's metrics    *)
(* are in the goodfile's order, also when several sessions report the same  *)
(* run's metrics at a time.                                                 *)
MetricsKeepOrder == \A r \in Runs : metrics[r] = SubSeq(Metrics, 1, Len(metrics[r]))

(* A run that was only ever offered to one session is told the same on      *)
(* every page, and shows as ongoing exactly while it is started: what runs  *)
(* misread is owed to several sessions having been offered them.            *)
SoleRunsReadRight == \A r \in Runs : Cardinality(tried[r]) = 1 =>
  /\ IndexResult(r) = "in progress" => CommitStatus(r) = "pending"
  /\ IndexResult(r) = "pass" => CommitStatus(r) = "pass"
  /\ IndexResult(r) = "fail" => CommitStatus(r) = "error"
  /\ (DisplayRunTime(r).says = "ongoing") <=> (status[r] = "started")

(* The host a run is shown under is the machine, at the frequency, that its *)
(* last session reported, however hosts were registered since.              *)
HostRowsHold == \A r \in Runs : host[r] # None =>
  HostDesc(r) = [machine |-> MachineOf[token[r]], freq |-> freq[token[r]]]
==============================================================================
