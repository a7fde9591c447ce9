------------------------------- MODULE Driver --------------------------------
(****************************************************************************)
(* Dispatch of runs to runners: the ci-driver process (one accept handler   *)
(* per connection, the main loop, one find_client_task and then one         *)
(* ClientJob task per candidate, the start-up reaper), the rows of the      *)
(* `jobs` and `runs` tables they read and write, and the runner processes   *)
(* at the other end of the connections.                                     *)
(*                                                                          *)
(* Every SQL statement is one step (DbCtx holds the connection's mutex for  *)
(* one statement); between two statements of a task any other task runs.    *)
(*                                                                          *)
(* A session is one accepted connection and the driver task that serves it. *)
(* Session identities are recycled: when a slot is taken again, rows that   *)
(* still carry the token of its previous user hold the token Retired.  The  *)
(* build token is random per connection, so a session stands for its token. *)
(****************************************************************************)
EXTENDS Naturals, Sequences, FiniteSets

CONSTANTS Jobs,             \* job ids
          Verdicts,         \* results a build may report
          MaxRuns,          \* bound on rows of `runs`; ids count up from 1
          Sessions,         \* session slots (bound on live connections)
          Runners,          \* runner processes
          Hosts,            \* rows of `hosts`
          HostOf,           \* the host a runner runs on
          JobSource,        \* jobs.source, None when unknown
          AcceptedSources,  \* a runner's allowed_pushers, None for everyone
          RunsEverywhere,   \* jobs with run_preferences = "all"
          Unready,          \* jobs whose remote, repo or commit has no row
          ChanCap,          \* capacity of the pending-client channel
          MaxFaults,        \* bound on crashes, lost connections, panics
          None, Retired     \* SQL null or Rust None; a token of a past session

Runs == 1..MaxRuns

ASSUME BoundsAssumption == /\ MaxRuns \in Nat
                           /\ ChanCap \in Nat
                           /\ MaxFaults \in Nat
ASSUME NullAssumption == /\ None \notin Jobs \cup Runs \cup Sessions \cup Hosts \cup Runners
                         /\ Retired \notin Sessions \cup {None}
ASSUME ConfigAssumption == /\ HostOf \in [Runners -> Hosts]
                           /\ RunsEverywhere \subseteq Jobs
                           /\ Unready \subseteq Jobs
                           /\ Verdicts \subseteq {"pass", "fail"}

VARIABLES
  \* the database
  jobs,      \* rows of `jobs`
  recent,    \* jobs created within the last day
  state,     \* runs.state, "absent" while there is no such row
  job,       \* runs.job_id
  pref,      \* runs.host_preference
  host,      \* runs.host_id
  token,     \* runs.build_token
  result,    \* runs.build_result
  \* the driver's tasks
  queue,     \* the pending-client channel
  phase,     \* where a session's task stands
  client,    \* RunnerClient: the runner at the other end
  task,      \* the run the session chose
  missing,   \* jobs it must look up and that had no row when it chose
  pick,      \* the job the session is about to insert a run for
  verdict,   \* the reported result the session is recording
  active,    \* ACTIVE_TASKS: ids inserted and never removed
  sweep,     \* where old_task_reaper stands
  stale,     \* potentially_stale_tasks: pairs of a run and its state when read
  \* the connections
  up,        \* "up", "cut" (lost, neither end told), "down" (they see its end)
  toRunner,  \* messages to the runner
  toDriver,  \* messages to the driver
  \* the runners
  rsess,     \* the connection a runner holds
  rphase,    \* idle, waiting for work, or building
  faults     \* faults so far

dbVars   == <<jobs, recent, state, job, pref, host, token, result>>
sessVars == <<queue, phase, client, task, missing, pick, verdict>>
memVars  == <<active, sweep, stale>>
netVars  == <<up, toRunner, toDriver>>
rnrVars  == <<rsess, rphase>>
vars == <<dbVars, sessVars, memVars, netVars, rnrVars, faults>>

------------------------------------------------------------------------------
(* Types *)

RunState == {"pending", "started", "finished", "error", "invalid"}

Phases == {"closed",      \* no task
           "queued",      \* RunnerClient in the channel
           "finding",     \* find_client_task, before get_pending_runs
           "looking",     \* job_by_id of the rows read, then activate_run
           "alt",         \* before jobs_needing_task_runs_for_host
           "altsel",      \* an alternate job is chosen, before new_run
           "pinging",     \* Ping sent, Pong awaited
           "offered",     \* NewTask sent, Started awaited
           "acked",       \* Started received, before the update of the row
           "running",     \* ClientJob::run awaits a message
           "reporting"}   \* result received, before the update of the row

RunnerMsgs == {"ping", "newtask"}
DriverMsgs == {"pong", "started"} \cup Verdicts

RowsTypeOK ==
  /\ jobs \subseteq Jobs /\ recent \subseteq jobs
  /\ state \in [Runs -> RunState \cup {"absent"}]
  /\ job \in [Runs -> Jobs \cup {None}]
  /\ pref \in [Runs -> Hosts \cup {None}]
  /\ host \in [Runs -> Hosts \cup {None}]
  /\ token \in [Runs -> Sessions \cup {None, Retired}]
  /\ result \in [Runs -> Verdicts \cup {None}]

SessionsTypeOK ==
  /\ queue \in Seq(Sessions) /\ Len(queue) <= ChanCap
  /\ phase \in [Sessions -> Phases]
  /\ client \in [Sessions -> Runners \cup {None}]
  /\ task \in [Sessions -> Runs \cup {None}]
  /\ missing \in [Sessions -> SUBSET (Jobs \cup {None})]
  /\ pick \in [Sessions -> Jobs \cup {None}]
  /\ verdict \in [Sessions -> Verdicts \cup {None}]

ReaperTypeOK ==
  /\ active \subseteq Runs
  /\ sweep \in {"boot", "snapped", "reaping"}
  /\ stale \subseteq Runs \X RunState

NetTypeOK ==
  /\ up \in [Sessions -> {"up", "cut", "down"}]
  /\ toRunner \in [Sessions -> Seq(RunnerMsgs)]
  /\ toDriver \in [Sessions -> Seq(DriverMsgs)]

RunnersTypeOK ==
  /\ rsess \in [Runners -> Sessions \cup {None}]
  /\ rphase \in [Runners -> {"idle", "waiting", "building"}]

TypeOK == /\ RowsTypeOK /\ SessionsTypeOK /\ ReaperTypeOK
          /\ NetTypeOK /\ RunnersTypeOK /\ faults \in 0..MaxFaults

Init ==
  /\ jobs = {} /\ recent = {}
  /\ state = [r \in Runs |-> "absent"]
  /\ job = [r \in Runs |-> None]
  /\ pref = [r \in Runs |-> None]
  /\ host = [r \in Runs |-> None]
  /\ token = [r \in Runs |-> None]
  /\ result = [r \in Runs |-> None]
  /\ queue = <<>>
  /\ phase = [s \in Sessions |-> "closed"]
  /\ client = [s \in Sessions |-> None]
  /\ task = [s \in Sessions |-> None]
  /\ missing = [s \in Sessions |-> {}]
  /\ pick = [s \in Sessions |-> None]
  /\ verdict = [s \in Sessions |-> None]
  /\ active = {} /\ sweep = "boot" /\ stale = {}
  /\ up = [s \in Sessions |-> "down"]
  /\ toRunner = [s \in Sessions |-> <<>>]
  /\ toDriver = [s \in Sessions |-> <<>>]
  /\ rsess = [n \in Runners |-> None]
  /\ rphase = [n \in Runners |-> "idle"]
  /\ faults = 0

------------------------------------------------------------------------------
(* Rows: DbCtx::new_job, DbCtx::new_run and what becomes of them with time *)

(* Bound: rows are inserted while ids remain that no session reserved by    *)
(* choosing an alternate job.                                               *)
HasRoom == Cardinality({r \in Runs : state[r] = "absent"})
             > Cardinality({s \in Sessions : phase[s] = "altsel"})

NextId(r) == /\ state[r] = "absent"
             /\ \A q \in 1..(r - 1) : state[q] # "absent"

InsertRun(r, j, h) == /\ NextId(r)
                      /\ state' = [state EXCEPT ![r] = "pending"]
                      /\ job' = [job EXCEPT ![r] = j]
                      /\ pref' = [pref EXCEPT ![r] = h]
                      /\ UNCHANGED <<jobs, recent, host, token, result>>

(* The web server or ci_ctl inserts a job, and then, or again later, a run  *)
(* of it that any host may take; ci_ctl's `job rerun` inserts one for       *)
(* whatever id it is given.                                                 *)
CreateJob(j) == /\ j \notin jobs
                /\ jobs' = jobs \cup {j}
                /\ recent' = recent \cup {j}
                /\ UNCHANGED <<state, job, pref, host, token, result>>
                /\ UNCHANGED <<sessVars, memVars, netVars, rnrVars, faults>>

QueueRun(j) == /\ HasRoom
               /\ \E r \in Runs : InsertRun(r, j, None)
               /\ UNCHANGED <<sessVars, memVars, netVars, rnrVars, faults>>

(* Only the age of jobs for all hosts is ever read. *)
AgeOut(j) == /\ j \in recent \cap RunsEverywhere
             /\ recent' = recent \ {j}
             /\ UNCHANGED <<jobs, state, job, pref, host, token, result>>
             /\ UNCHANGED <<sessVars, memVars, netVars, rnrVars, faults>>

------------------------------------------------------------------------------
(* Connections *)

(* RunnerClient.host_id: the row id_for_host returned for what the runner   *)
(* says of its machine.                                                     *)
MyHost(s) == HostOf[client[s]]

Holds(s, r) == /\ task[s] = r
               /\ phase[s] \in {"looking", "offered", "acked", "running", "reporting"}

Send(s, m) == toRunner' = IF up[s] = "up" THEN [toRunner EXCEPT ![s] = Append(@, m)]
                                          ELSE toRunner

Receive(s, m) == /\ toDriver[s] # <<>>
                 /\ Head(toDriver[s]) = m
                 /\ toDriver' = [toDriver EXCEPT ![s] = Tail(@)]
                 /\ UNCHANGED <<up, toRunner>>

(* A task that waits for a message finds the other end gone.  It has no     *)
(* timeout: of a connection that was cut it learns when the network says so *)
(* (ConnNoticed), if it ever does.                                          *)
SeesHangUp(s) == toDriver[s] = <<>> /\ up[s] = "down"

(* An end that lets go of a cut connection cannot tell the other. *)
Ended(u) == IF u = "cut" THEN "cut" ELSE "down"

(* The task of s returns and drops its RunnerClient; what it sent is still  *)
(* delivered, what it has not read is not.                                  *)
Close(s) == /\ phase' = [phase EXCEPT ![s] = "closed"]
            /\ client' = [client EXCEPT ![s] = None]
            /\ task' = [task EXCEPT ![s] = None]
            /\ missing' = [missing EXCEPT ![s] = {}]
            /\ verdict' = [verdict EXCEPT ![s] = None]
            /\ up' = [up EXCEPT ![s] = Ended(@)]
            /\ toDriver' = [toDriver EXCEPT ![s] = <<>>]
            /\ UNCHANGED <<queue, pick, toRunner>>

(* A lost connection delivers a prefix of what was under way. *)
Prefix(q) == {SubSeq(q, 1, n) : n \in 0..Len(q)}

Fault == faults < MaxFaults /\ faults' = faults + 1

Idle(s) == phase[s] = "closed" /\ \A n \in Runners : rsess[n] # s

(* Faulty variant: the channel takes any number of clients. *)
HandleNextJob_unbounded(n, s) ==
  /\ rphase[n] = "idle" /\ Idle(s)
  /\ queue' = Append(queue, s)
  /\ phase' = [phase EXCEPT ![s] = "queued"]
  /\ client' = [client EXCEPT ![s] = n]
  /\ up' = [up EXCEPT ![s] = "up"]
  /\ toRunner' = [toRunner EXCEPT ![s] = <<>>]
  /\ token' = [r \in Runs |-> IF token[r] = s THEN Retired ELSE token[r]]
  /\ rsess' = [rsess EXCEPT ![n] = s]
  /\ rphase' = [rphase EXCEPT ![n] = "waiting"]
  /\ UNCHANGED <<jobs, recent, state, job, pref, host, result>>
  /\ UNCHANGED <<task, missing, pick, verdict, memVars, toDriver, faults>>

(* handle_next_job: a runner posts to /api/next_job; with the channel full  *)
(* it is turned away and nothing changes.                                   *)
HandleNextJob(n, s) ==
  /\ rphase[n] = "idle" /\ Idle(s)
  /\ Len(queue) < ChanCap
  /\ queue' = Append(queue, s)
  /\ phase' = [phase EXCEPT ![s] = "queued"]
  /\ client' = [client EXCEPT ![s] = n]
  /\ up' = [up EXCEPT ![s] = "up"]
  /\ toRunner' = [toRunner EXCEPT ![s] = <<>>]
  /\ token' = [r \in Runs |-> IF token[r] = s THEN Retired ELSE token[r]]
  /\ rsess' = [rsess EXCEPT ![n] = s]
  /\ rphase' = [rphase EXCEPT ![n] = "waiting"]
  /\ UNCHANGED <<jobs, recent, state, job, pref, host, result>>
  /\ UNCHANGED <<task, missing, pick, verdict, memVars, toDriver, faults>>

------------------------------------------------------------------------------
(* main loop and find_client_task *)

At(s, p) == phase[s] = p
Goto(s, p) == phase' = [phase EXCEPT ![s] = p]

Dispatch == /\ queue # <<>>
            /\ queue' = Tail(queue)
            /\ At(Head(queue), "queued") /\ Goto(Head(queue), "finding")
            /\ UNCHANGED <<client, task, missing, pick, verdict>>
            /\ UNCHANGED <<dbVars, memVars, netVars, rnrVars, faults>>

WillAccept(n, j) == \/ AcceptedSources[n] = None
                    \/ /\ JobSource[j] # None
                       /\ JobSource[j] \in AcceptedSources[n]

(* Faulty variants: the host preference is not part of the query; rows with *)
(* none are not found by it.                                                *)
PendingRuns_anyHost(h) == {r \in Runs : state[r] = "pending"}
PendingRuns_thisHostOnly(h) == {r \in Runs : state[r] = "pending" /\ pref[r] = h}

(* get_pending_runs: pending and meant for anyone or for this host. *)
PendingRuns(h) == {r \in Runs : state[r] = "pending" /\ pref[r] \in {h, None}}

(* What will_accept says of a pending run, whose job may have no row yet.   *)
Choices(s) == {r \in PendingRuns(MyHost(s)) : WillAccept(client[s], job[r])}

(* The jobs of the rows R that have no row. *)
Missing(R) == {job[r] : r \in R} \ jobs

(* Faulty variant: the oldest row is looked at first. *)
FindPending_oldestFirst(s) ==
  /\ At(s, "finding") /\ Goto(s, "looking")
  /\ \/ \E r \in Choices(s) : /\ \A q \in Choices(s) : r <= q
                              /\ task' = [task EXCEPT ![s] = r]
                              /\ missing' = [missing EXCEPT ![s] =
                                   Missing({q \in PendingRuns(MyHost(s)) : q <= r})]
     \/ /\ Choices(s) = {}
        /\ missing' = [missing EXCEPT ![s] = Missing(PendingRuns(MyHost(s)))]
        /\ task' = [task EXCEPT ![s] = None]
  /\ UNCHANGED <<queue, client, pick, verdict>>
  /\ UNCHANGED <<dbVars, memVars, netVars, rnrVars, faults>>

(* The rows get_pending_runs returns are gone through newest first (ids     *)
(* count up as created_time does), each by job_by_id and will_accept, up to *)
(* the first acceptable one.  A job's source never changes, so the rows     *)
(* decide which that is, while the jobs are looked up later (`missing`).    *)
(* The chosen row is not touched: it stays pending and others may choose it.*)
FindPending(s) ==
  /\ At(s, "finding") /\ Goto(s, "looking")
  /\ \/ \E r \in Choices(s) : /\ \A q \in Choices(s) : q <= r
                              /\ task' = [task EXCEPT ![s] = r]
                              /\ missing' = [missing EXCEPT ![s] =
                                   Missing({q \in PendingRuns(MyHost(s)) : q >= r})]
     \/ /\ Choices(s) = {}
        /\ missing' = [missing EXCEPT ![s] = Missing(PendingRuns(MyHost(s)))]
        /\ task' = [task EXCEPT ![s] = None]
  /\ UNCHANGED <<queue, client, pick, verdict>>
  /\ UNCHANGED <<dbVars, memVars, netVars, rnrVars, faults>>

(* `expect("job exists")`: the task panics on a run whose job still has no  *)
(* row when it is looked up.  Jobs are never deleted.                       *)
JobMissing(s) ==
  /\ At(s, "looking") /\ ~(missing[s] \subseteq jobs)
  /\ Close(s)
  /\ UNCHANGED <<dbVars, memVars, rnrVars, faults>>

LookedUp(s) == At(s, "looking") /\ missing[s] \subseteq jobs

NothingPending(s) ==
  /\ LookedUp(s) /\ task[s] = None
  /\ Goto(s, "alt")
  /\ missing' = [missing EXCEPT ![s] = {}]
  /\ UNCHANGED <<queue, client, task, pick, verdict>>
  /\ UNCHANGED <<dbVars, memVars, netVars, rnrVars, faults>>

(* activate_run panics on a job that lacks its remote, repo or commit ...   *)
PreludePanics(s) ==
  /\ LookedUp(s) /\ task[s] # None
  /\ job[task[s]] \in Unready
  /\ Close(s)
  /\ UNCHANGED <<dbVars, memVars, rnrVars, faults>>

(* ... and otherwise submits the run: NewTask is sent. *)
Submit(s) ==
  /\ LookedUp(s) /\ task[s] # None
  /\ job[task[s]] \notin Unready
  /\ Goto(s, "offered")
  /\ Send(s, "newtask")
  /\ missing' = [missing EXCEPT ![s] = {}]
  /\ UNCHANGED <<queue, client, task, pick, verdict, up, toDriver>>
  /\ UNCHANGED <<dbVars, memVars, rnrVars, faults>>

(* jobs_needing_task_runs_for_host: recent jobs for all hosts of which no   *)
(* run was started on this host.                                            *)
NeedingRunOn(h) == {j \in recent \cap RunsEverywhere :
                      ~\E r \in Runs : job[r] = j /\ host[r] = h}

(* Faulty variant: alternate jobs are not put to will_accept. *)
AltChoices_anySource(s) == IF HasRoom THEN NeedingRunOn(MyHost(s)) ELSE {}

AltChoices(s) == IF HasRoom
                 THEN {j \in NeedingRunOn(MyHost(s)) : WillAccept(client[s], j)}
                 ELSE {}

(* An acceptable one is chosen; without any, the connection is tested.      *)
FindAlt(s) ==
  /\ At(s, "alt")
  /\ \/ \E j \in AltChoices(s) : /\ pick' = [pick EXCEPT ![s] = j]
                                 /\ Goto(s, "altsel")
                                 /\ UNCHANGED toRunner
     \/ /\ AltChoices(s) = {}
        /\ Goto(s, "pinging")
        /\ Send(s, "ping")
        /\ UNCHANGED pick
  /\ UNCHANGED <<queue, client, task, missing, verdict, up, toDriver>>
  /\ UNCHANGED <<dbVars, memVars, rnrVars, faults>>

AltNewRun(s) ==
  /\ At(s, "altsel") /\ Goto(s, "looking")
  /\ \E r \in Runs : /\ InsertRun(r, pick[s], MyHost(s))
                     /\ task' = [task EXCEPT ![s] = r]
  /\ pick' = [pick EXCEPT ![s] = None]
  /\ UNCHANGED <<queue, client, missing, verdict>>
  /\ UNCHANGED <<memVars, netVars, rnrVars, faults>>

(* The Pong arrives: another round, or the five minutes are over. *)
TestConnection(s) ==
  /\ At(s, "pinging") /\ Receive(s, "pong")
  /\ Goto(s, "finding")
  /\ UNCHANGED <<queue, client, task, missing, pick, verdict>>
  /\ UNCHANGED <<dbVars, memVars, rnrVars, faults>>

Deadline(s) ==
  /\ phase[s] = "pinging"
  /\ toDriver[s] # <<>> /\ Head(toDriver[s]) = "pong"
  /\ Close(s)
  /\ UNCHANGED <<dbVars, memVars, rnrVars, faults>>

(* Faulty variants: a run whose runner is gone is made pending again; a     *)
(* hang-up during the build goes unnoticed.                                 *)
HangUp_requeues(s) ==
  /\ phase[s] \in {"pinging", "offered", "running"}
  /\ SeesHangUp(s)
  /\ Close(s)
  /\ state' = IF phase[s] = "running" THEN [state EXCEPT ![task[s]] = "pending"] ELSE state
  /\ UNCHANGED <<jobs, recent, job, pref, host, token, result>>
  /\ UNCHANGED <<memVars, rnrVars, faults>>

HangUp_ignoredWhileRunning(s) ==
  /\ phase[s] \in {"pinging", "offered"}
  /\ SeesHangUp(s)
  /\ Close(s)
  /\ UNCHANGED <<dbVars, memVars, rnrVars, faults>>

(* test_connection, submit or ClientJob::run finds the runner gone; the row *)
(* stays as it is.                                                          *)
HangUp(s) ==
  /\ phase[s] \in {"pinging", "offered", "running"}
  /\ SeesHangUp(s)
  /\ Close(s)
  /\ UNCHANGED <<dbVars, memVars, rnrVars, faults>>

------------------------------------------------------------------------------
(* activate_run and ClientJob::run *)

(* submit: the acknowledged run enters ACTIVE_TASKS. *)
RecvStarted(s) ==
  /\ At(s, "offered") /\ Receive(s, "started")
  /\ Goto(s, "acked")
  /\ active' = active \cup {task[s]}
  /\ UNCHANGED <<queue, client, task, missing, pick, verdict, sweep, stale>>
  /\ UNCHANGED <<dbVars, rnrVars, faults>>

(* Faulty variant: host_id is kept once it is set. *)
ActivateRun_keepsHost(s) ==
  /\ At(s, "acked") /\ Goto(s, "running")
  /\ state' = [state EXCEPT ![task[s]] = "started"]
  /\ host' = [host EXCEPT ![task[s]] = IF @ = None THEN MyHost(s) ELSE @]
  /\ token' = [token EXCEPT ![task[s]] = s]
  /\ UNCHANGED <<jobs, recent, job, pref, result>>
  /\ UNCHANGED <<queue, client, task, missing, pick, verdict>>
  /\ UNCHANGED <<memVars, netVars, rnrVars, faults>>

(* The row is marked started, whatever it was. *)
ActivateRun(s) ==
  /\ At(s, "acked") /\ Goto(s, "running")
  /\ state' = [state EXCEPT ![task[s]] = "started"]
  /\ host' = [host EXCEPT ![task[s]] = MyHost(s)]
  /\ token' = [token EXCEPT ![task[s]] = s]
  /\ UNCHANGED <<jobs, recent, job, pref, result>>
  /\ UNCHANGED <<queue, client, task, missing, pick, verdict>>
  /\ UNCHANGED <<memVars, netVars, rnrVars, faults>>

RecvStatus(s) ==
  /\ At(s, "running")
  /\ \E v \in Verdicts : Receive(s, v) /\ verdict' = [verdict EXCEPT ![s] = v]
  /\ Goto(s, "reporting")
  /\ UNCHANGED <<queue, client, task, missing, pick>>
  /\ UNCHANGED <<dbVars, memVars, rnrVars, faults>>

(* activate_run cannot make the artifacts directory, or a notifier panics   *)
(* before the result is recorded.                                           *)
TaskPanics(s) ==
  /\ Fault
  /\ task[s] # None
  /\ LookedUp(s) \/ At(s, "reporting")
  /\ Close(s)
  /\ UNCHANGED <<dbVars, memVars, rnrVars>>

(* The result is recorded, whatever the row says; the task waits for more. *)
CompleteRun(s) ==
  /\ At(s, "reporting") /\ Goto(s, "running")
  /\ state' = [state EXCEPT ![task[s]] = IF verdict[s] = "pass" THEN "finished" ELSE "error"]
  /\ result' = [result EXCEPT ![task[s]] = verdict[s]]
  /\ verdict' = [verdict EXCEPT ![s] = None]
  /\ UNCHANGED <<jobs, recent, job, pref, host, token>>
  /\ UNCHANGED <<queue, client, task, missing, pick>>
  /\ UNCHANGED <<memVars, netVars, rnrVars, faults>>

------------------------------------------------------------------------------
(* old_task_reaper: once per driver process *)

ReaperSnapshot ==
  /\ sweep = "boot"
  /\ sweep' = "snapped"
  /\ stale' = {<<r, state[r]>> : r \in {q \in Runs : state[q] \in {"pending", "started"}}}
  /\ UNCHANGED <<dbVars, sessVars, active, netVars, rnrVars, faults>>

(* Faulty variants: pending runs are not filtered out; ACTIVE_TASKS is not   *)
(* consulted.                                                               *)
ReaperFilter_keepsPending ==
  /\ sweep = "snapped"
  /\ sweep' = "reaping"
  /\ \E old \in SUBSET stale : stale' = {p \in old : p[1] \notin active}
  /\ UNCHANGED <<dbVars, sessVars, active, netVars, rnrVars, faults>>

ReaperFilter_ignoresActive ==
  /\ sweep = "snapped"
  /\ sweep' = "reaping"
  /\ \E old \in SUBSET stale : stale' = {p \in old : p[2] = "started"}
  /\ UNCHANGED <<dbVars, sessVars, active, netVars, rnrVars, faults>>

(* ACTIVE_TASKS is read after the rows.  Of the runs that were started and  *)
(* are not active, those started over a minute ago are kept: any of them,   *)
(* for only runs of an earlier driver process are left.                     *)
ReaperFilter ==
  /\ sweep = "snapped"
  /\ sweep' = "reaping"
  /\ \E old \in SUBSET stale :
       stale' = {p \in old : p[1] \notin active /\ p[2] = "started"}
  /\ UNCHANGED <<dbVars, sessVars, active, netVars, rnrVars, faults>>

Reap(r) ==
  /\ sweep = "reaping"
  /\ \E p \in stale : p[1] = r /\ stale' = stale \ {p}
  /\ state' = [state EXCEPT ![r] = "invalid"]
  /\ UNCHANGED <<jobs, recent, job, pref, host, token, result>>
  /\ UNCHANGED <<sessVars, active, sweep, netVars, rnrVars, faults>>

(* The driver process dies and is started again: its tasks, the channel and *)
(* ACTIVE_TASKS are gone, the database is as it was, the reaper runs again. *)
DriverRestart ==
  /\ Fault
  /\ queue' = <<>>
  /\ phase' = [s \in Sessions |-> "closed"]
  /\ client' = [s \in Sessions |-> None]
  /\ task' = [s \in Sessions |-> None]
  /\ missing' = [s \in Sessions |-> {}]
  /\ pick' = [s \in Sessions |-> None]
  /\ verdict' = [s \in Sessions |-> None]
  /\ active' = {} /\ sweep' = "boot" /\ stale' = {}
  /\ up' = [s \in Sessions |-> Ended(up[s])]
  /\ toDriver' = [s \in Sessions |-> <<>>]
  /\ \E lost \in SUBSET Sessions :
       toRunner' = [s \in Sessions |-> IF s \in lost THEN <<>> ELSE toRunner[s]]
  /\ UNCHANGED <<dbVars, rnrVars>>

------------------------------------------------------------------------------
(* Runners: run_remote, wait_for_work and RunningJob::run *)

Reply(s, m) == toDriver' = IF up[s] = "up" THEN [toDriver EXCEPT ![s] = Append(@, m)]
                                           ELSE toDriver

Gets(n, m) == LET s == rsess[n] IN /\ rphase[n] = "waiting"
                                   /\ toRunner[s] # <<>>
                                   /\ Head(toRunner[s]) = m
                                   /\ toRunner' = [toRunner EXCEPT ![s] = Tail(@)]

(* The runner drops its end of the connection; `read` of what it sent still *)
(* reaches the driver.                                                      *)
Disconnect(n, read) == LET s == rsess[n] IN
  /\ rsess' = [rsess EXCEPT ![n] = None]
  /\ rphase' = [rphase EXCEPT ![n] = "idle"]
  /\ up' = [up EXCEPT ![s] = Ended(@)]
  /\ toRunner' = [toRunner EXCEPT ![s] = <<>>]
  /\ toDriver' = [toDriver EXCEPT ![s] = read]

RunnerPong(n) == /\ Gets(n, "ping")
                 /\ Reply(rsess[n], "pong")
                 /\ UNCHANGED <<up, rnrVars>>
                 /\ UNCHANGED <<dbVars, sessVars, memVars, faults>>

(* NewTask arrives: the runner reports the start and builds, ... *)
RunnerStart(n) == /\ Gets(n, "newtask")
                  /\ Reply(rsess[n], "started")
                  /\ rphase' = [rphase EXCEPT ![n] = "building"]
                  /\ UNCHANGED <<up, rsess>>
                  /\ UNCHANGED <<dbVars, sessVars, memVars, faults>>

(* ... or finds the connection gone when it reports, panics and restarts.   *)
RunnerStartPanic(n) == /\ rphase[n] = "waiting"
                       /\ up[rsess[n]] # "up"
                       /\ toRunner[rsess[n]] # <<>>
                       /\ Head(toRunner[rsess[n]]) = "newtask"
                       /\ Disconnect(n, toDriver[rsess[n]])
                       /\ UNCHANGED <<dbVars, sessVars, memVars, faults>>

(* Faulty variant: the runner waits for more work on the same connection.   *)
RunnerReport_keepsConnection(n) ==
  /\ rphase[n] = "building"
  /\ \E v \in Verdicts : Reply(rsess[n], v)
  /\ rphase' = [rphase EXCEPT ![n] = "waiting"]
  /\ UNCHANGED <<up, toRunner, rsess>>
  /\ UNCHANGED <<dbVars, sessVars, memVars, faults>>

RunnerReport(n) == /\ rphase[n] = "building"
                   /\ \E v \in Verdicts :
                        Disconnect(n, IF up[rsess[n]] = "up" THEN Append(toDriver[rsess[n]], v)
                                                             ELSE toDriver[rsess[n]])
                   /\ UNCHANGED <<dbVars, sessVars, memVars, faults>>

(* wait_for_work finds the driver gone; of a cut connection its request's   *)
(* timeout of ten minutes tells it.                                         *)
RunnerClosed(n) == /\ rphase[n] = "waiting"
                   /\ toRunner[rsess[n]] = <<>> /\ up[rsess[n]] # "up"
                   /\ Disconnect(n, toDriver[rsess[n]])
                   /\ UNCHANGED <<dbVars, sessVars, memVars, faults>>

RunnerCrash(n) == /\ Fault
                  /\ rphase[n] # "idle"
                  /\ \E read \in Prefix(toDriver[rsess[n]]) : Disconnect(n, read)
                  /\ UNCHANGED <<dbVars, sessVars, memVars>>

(* The network loses a connection; neither end has noticed yet, ... *)
ConnLost(s) == /\ Fault
               /\ up[s] = "up"
               /\ up' = [up EXCEPT ![s] = "cut"]
               /\ \E q \in Prefix(toRunner[s]) : toRunner' = [toRunner EXCEPT ![s] = q]
               /\ \E q \in Prefix(toDriver[s]) : toDriver' = [toDriver EXCEPT ![s] = q]
               /\ UNCHANGED <<dbVars, sessVars, memVars, rnrVars>>

(* ... until a reset or a failed retransmission tells them, which need not  *)
(* ever happen to an end that only reads.                                   *)
ConnNoticed(s) == /\ up[s] = "cut"
                  /\ up' = [up EXCEPT ![s] = "down"]
                  /\ UNCHANGED <<toRunner, toDriver>>
                  /\ UNCHANGED <<dbVars, sessVars, memVars, rnrVars, faults>>

------------------------------------------------------------------------------
(* Next-state relation and fairness *)

SessionStep(s) == \/ FindPending(s) \/ JobMissing(s) \/ NothingPending(s)
                  \/ PreludePanics(s) \/ Submit(s) \/ FindAlt(s) \/ AltNewRun(s)
                  \/ TestConnection(s) \/ Deadline(s) \/ HangUp(s)
                  \/ RecvStarted(s) \/ ActivateRun(s)
                  \/ RecvStatus(s) \/ CompleteRun(s)

ReaperStep == ReaperSnapshot \/ ReaperFilter \/ \E r \in Runs : Reap(r)

RunnerStep(n) == \/ RunnerPong(n) \/ RunnerStart(n) \/ RunnerStartPanic(n)
                 \/ RunnerReport(n) \/ RunnerClosed(n)

Connect(n) == \E s \in Sessions : HandleNextJob(n, s)

Environment == \E j \in Jobs : CreateJob(j) \/ QueueRun(j) \/ AgeOut(j)

Network == \E s \in Sessions : ConnNoticed(s)

Faulty == \/ DriverRestart
          \/ \E n \in Runners : RunnerCrash(n)
          \/ \E s \in Sessions : ConnLost(s) \/ TaskPanics(s)

Next == \/ Environment
        \/ \E n \in Runners : Connect(n) \/ RunnerStep(n)
        \/ Dispatch
        \/ \E s \in Sessions : SessionStep(s)
        \/ ReaperStep
        \/ Network
        \/ Faulty

Spec == Init /\ [][Next]_vars

(* Tokio polls every ready task and the runners' builds end.                *)
(* Connecting is strongly fair because a free slot is a bound of the model: *)
(* the driver accepts connections at any time, and a full channel drains.   *)
(* That a runner whose process died connects again is assumed of whoever    *)
(* supervises it.  Nothing is assumed of the network (ConnNoticed).         *)
Fairness == /\ WF_vars(Dispatch)
            /\ WF_vars(ReaperStep)
            /\ \A s \in Sessions : WF_vars(SessionStep(s))
            /\ \A n \in Runners : WF_vars(RunnerStep(n)) /\ SF_vars(Connect(n))

FairSpec == Spec /\ Fairness

------------------------------------------------------------------------------
(* Safety *)

(* A run inserted for a host is offered to and started on runners of that   *)
(* host only, however sessions of several hosts interleave between reading  *)
(* the pending rows, inserting an alternate run and starting it.            *)
HostPinned == \A r \in Runs : pref[r] # None =>
                /\ host[r] \in {None, pref[r]}
                /\ \A s \in Sessions : Holds(s, r) => MyHost(s) = pref[r]

(* A runner that restricts its pushers is never handed a run of a job with  *)
(* another source, on any path by which a session can choose a run.         *)
SourceTrusted == \A s \in Sessions, r \in Runs :
                   Holds(s, r) => WillAccept(client[s], job[r])

(* The row a live token names is the row its session is running, and its    *)
(* host is that session's host, even after several sessions started it: the *)
(* files a runner uploads under its token never land in another run.        *)
TokenNamesHolder == \A r \in Runs, s \in Sessions :
                      (token[r] = s /\ phase[s] \in {"running", "reporting"})
                        => task[s] = r /\ host[r] = MyHost(s)

(* The reaper gives up a run only when no session of the driver has it, at  *)
(* whatever moment of its start-up sweep sessions choose and start runs.    *)
Reaps(r) == state[r] # "invalid" /\ state'[r] = "invalid"
ReaperSparesHeldRuns ==
  [][\A r \in Runs : Reaps(r) => state[r] = "started" /\ ~\E s \in Sessions : Holds(s, r)]_vars

(* A run that was given up stays given up: no session holds one, so none    *)
(* can start it again or record a result for it.                            *)
ReapedIsFinal == [][\A r \in Runs : state[r] = "invalid" => state'[r] = "invalid"]_vars

(* Why the reaper is right.  ACTIVE_TASKS is extended before the row leaves *)
(* pending and is read after the rows were, so a run that is past pending   *)
(* and not active belongs to an earlier process: no session has it, none    *)
(* can choose it, and it cannot become active again.                        *)
SessionsHaveClients == \A s \in Sessions : phase[s] # "closed" => client[s] \in Runners
HoldersHaveTasks == \A s \in Sessions :
  phase[s] \in {"offered", "acked", "running", "reporting"} => task[s] \in Runs
RunnersAreAttached == \A n \in Runners : rphase[n] # "idle" => rsess[n] \in Sessions
AckedIsActive == \A s \in Sessions :
  phase[s] \in {"acked", "running", "reporting"} => task[s] \in active
OthersAreUnheld == \A r \in Runs :
  (state[r] \notin {"absent", "pending"} /\ r \notin active) => ~\E s \in Sessions : Holds(s, r)
StaleIsUnheld == \A r \in Runs :
  <<r, "started">> \in stale /\ r \notin active
    => state[r] = "started" /\ ~\E s \in Sessions : Holds(s, r)
ReapingIsInactive == sweep = "reaping" =>
  \A p \in stale : p[2] = "started" /\ p[1] \notin active

ReapedIsInactive == \A r \in Runs : state[r] = "invalid" => r \notin active

ReaperInv == /\ SessionsHaveClients /\ HoldersHaveTasks /\ RunnersAreAttached
             /\ AckedIsActive /\ OthersAreUnheld
             /\ StaleIsUnheld /\ ReapingIsInactive /\ ReapedIsInactive

(* No session and its runner wait for each other.  A task that waits has a   *)
(* message it waits for, or the end of the connection, before it, or its    *)
(* runner has something to do; a runner that waits has a message or the end *)
(* of the connection before it, or its task has something to do: across the *)
(* channel, pings, offers, reports, lost connections and either end's death.*)
(* Only a connection cut without a word leaves anyone waiting, and only the *)
(* driver's task, which has no timeout; its runner gives up by itself.      *)
Awaited(s) == CASE phase[s] = "pinging" -> {"pong"}
                [] phase[s] = "offered" -> {"started"}
                [] phase[s] = "running" -> Verdicts
                [] OTHER -> {}

TaskGoesOn(s) ==
  \/ phase[s] \in {"finding", "looking", "alt", "altsel", "acked", "reporting"}
  \/ phase[s] = "queued" /\ At(Head(queue), "queued") /\ \E i \in DOMAIN queue : queue[i] = s
  \/ phase[s] \in {"pinging", "offered", "running"} /\ SeesHangUp(s)
  \/ toDriver[s] # <<>> /\ Head(toDriver[s]) \in Awaited(s)

RunnerGoesOn(n) == \/ rphase[n] = "building"
                   \/ rphase[n] = "waiting" /\ (toRunner[rsess[n]] # <<>> \/ up[rsess[n]] # "up")

NoMutualWait ==
  /\ \A s \in Sessions : phase[s] # "closed" =>
       TaskGoesOn(s) \/ up[s] = "cut" \/ \E n \in Runners : rsess[n] = s /\ RunnerGoesOn(n)
  /\ \A n \in Runners : rphase[n] # "idle" => RunnerGoesOn(n) \/ TaskGoesOn(rsess[n])

(* The driver implements the ledger of runs. *)
Ledger == INSTANCE RunLedger WITH
  status <- state,
  claims <- [r \in Runs |-> {s \in Sessions :
                              task[s] = r /\ phase[s] \in {"looking", "offered", "acked"}}],
  owners <- [r \in Runs |-> {s \in Sessions : task[s] = r /\ phase[s] \in {"running", "reporting"}}]

ImplementsLedger == Ledger!Spec

------------------------------------------------------------------------------
(* Liveness *)

Eligible(r, n) == WillAccept(n, job[r]) /\ pref[r] \in {None, HostOf[n]}

(* A run that waits: pending, complete in the database, and some runner may *)
(* take it.  What is ahead of it for runner n: a newer pending run that n   *)
(* takes, or whose job has no row so that n's session ends over it.         *)
Waits(r) == /\ state[r] = "pending" /\ job[r] \in jobs \ Unready
            /\ \E n \in Runners : Eligible(r, n)
Ahead(q, r, n) == /\ q > r /\ state[q] = "pending" /\ pref[q] \in {None, HostOf[n]}
                  /\ job[q] \notin jobs \/ WillAccept(n, job[q])
Overtaken(r) == \A n \in Runners : Eligible(r, n) => \E q \in Runs : Ahead(q, r, n)

(* A run that waits does not wait for ever unless, again and again, every   *)
(* runner that may take it has a newer run ahead of it: not because runners *)
(* lose connections, give up after five minutes or fail before the start,   *)
(* nor because an older run is one of no job.  Under newer runs that keep   *)
(* arriving, or behind one whose job never comes, it does starve: rows are  *)
(* read newest first.                                                       *)
PendingIsTaken == \A r \in Runs : Waits(r) ~> ~Waits(r) \/ Overtaken(r)

(* A run that a session has started does not stay started in its hands: its *)
(* result is recorded or the session ends, unless its connection is cut     *)
(* and nothing ever tells the driver.                                       *)
HasStarted(s) == \E r \in Runs : Holds(s, r) /\ state[r] = "started"
StartedIsSettled == \A s \in Sessions : HasStarted(s) ~> ~HasStarted(s) \/ up[s] = "cut"
==============================================================================
