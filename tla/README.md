# A verification project for build-o-tron

build-o-tron is a small CI system: GitHub tells a web server about pushes, the
web server writes jobs and runs into a SQLite database, a driver hands pending
runs to runners that connect to it over HTTP, runners build and stream the
output of their commands back, and remotes are told how it went. The modules in
this directory model the parts of it where several tasks, processes or machines
touch the same rows and connections. TLC checks them on small instances; TLAPS
proves the most important results for every value of the constants.

Paths below are relative to `src/`.

## 1. Inventory

| component | code | state it keeps | operations |
|---|---|---|---|
| web server, intake | `ci-web-server/src/main.rs:123-228, 696-746` | rows of `commits`, `jobs`, `runs`, `commit_names`; the mutex of its one connection | one handler task per webhook: look up, insert commit, job, run, tell the remotes, name the commit |
| web server, pages | `ci-web-server/src/main.rs:230-694`, `ci-lib-web/src/lib.rs` | none of its own | read rows and show them; tail the file of a live artifact (492-550) |
| driver, dispatch | `ci-driver/src/main.rs:101-578` | the pending-client channel, a task per session, `ACTIVE_TASKS`, rows of `runs` | accept a runner, choose or insert a run, ping, offer, start, record a result |
| driver, reaper | `ci-driver/src/main.rs:580-625` | a snapshot of the active rows | mark stale runs invalid, once, at start-up |
| driver, artifacts | `ci-driver/src/main.rs:327-403` | rows of `artifacts` and the files | check the token, reserve, store the body, finalize |
| driver, build messages | `ci-driver/src/main.rs:131-224` | rows of `metrics` | insert a metric, drop command reports, take the result |
| host registry | `ci-lib-core/src/dbctx.rs` (`id_for_host`), `sql.rs` | rows of `hosts` | insert or ignore, look up by every column |
| runner | `ci-runner/src/main.rs`, `ci-runner/src/lua/mod.rs` | its connection, the build directory, the goodfile's Lua state | ask for work, answer pings, check out, run the goodfile, report, upload |
| notifier | `ci-lib-native/src/notifier.rs`, `dbctx_ext.rs`, `lib.rs` | none | post a commit status to GitHub, send a mail |
| ci_ctl | `ci-ctl/src/main.rs` | none | create and rerun jobs, add repositories and remotes |
| core library | `ci-lib-core/src/dbctx.rs`, `sql.rs`, `protocol.rs` | the connection and its mutex | one SQL statement, or two under one guard, per operation |
| wasm frontend | `ci-wasm-frontend` | none | the index page over a copy of the database |

How they interact:

- The web server, ci_ctl and the driver are processes that share only the
  database. Each takes its connection's mutex for one statement (or an insert
  and its `last_insert_rowid`), so between two statements of a handler anything
  may happen, in its own process and in the others. A panic while the guard is
  held poisons the mutex for good.
- Driver and runner talk over one long HTTP exchange per session: the request's
  body carries the runner's messages, the response's body the driver's. A
  lost connection delivers a prefix of what was under way. An end learns of it
  when the network tells it; the driver's end only reads, without a timeout, and
  may never be told.
- A session's task moves from the accept handler into a channel, from there to
  `find_client_task`, and from there to `ClientJob::run`.
- Artifacts travel on connections of their own, named by the run's token.
- The pages read, without a transaction, what all of these have written.

The hard parts, and what makes each component correct:

- **Dispatch.** Choosing a run does not reserve it: sessions interleave between
  reading the pending rows, offering a run and starting it. A run of a job that
  does not exist panics the session that looks it up. Correct: a run pinned to a
  host stays there, a runner that restricts pushers gets only theirs, a live
  token names the run it was issued for, a run that can be taken is taken, and
  one that was started is settled or let go of.
- **Reaper.** It compares a snapshot of rows with a map in memory while sessions
  go on. Correct: it never gives up a run some session has, and what it gave up
  stays given up.
- **Intake.** Six statements without a transaction, redelivered webhooks, and a
  second process inserting the same rows. Correct: one job per commit, ids
  belong to the handler that uses them, a push that is answered and was not
  refused gets built unless a handler was cut off, and pages can be shown while
  handlers are between their inserts.
- **Notices.** Two processes tell the same remotes about the same commit, remotes
  fail, and the result is recorded only after the last of them was told. Correct:
  nothing is told twice, failures do not stop the others, rows and notices agree.
- **Builds.** A goodfile is any program; its calls fail, are caught or not, or
  panic the runner; the report crosses a connection that may be gone on either
  side. Correct: a row says pass only of a build that passed, metrics are there
  with the result, nothing ends in silence without a cause, both ends let go.
- **Artifacts.** Five stages with buffers between them, a runtime that is dropped
  under a running forwarder, a file that is written behind the program's back,
  viewers that stop reading. Correct: what a complete artifact lacks is bounded
  and has a cause, no command blocks for ever, tails end.
- **Records.** Several sessions may start one run; each overwrites some columns of
  its row and leaves others. Correct: times are shown that could be, the last
  session's logs and metrics are all there, a host is the machine that built, and
  durations read back.

`PROJECT.json` lists every hazard found while reading, at its line.

## 2. Modules and how they correspond to the code

| module | models | composed with |
|---|---|---|
| `RunLedger` | what the driver promises about a run: a status, the sessions that claim it, the sessions that own it | implemented by `Driver`, used by `Records` |
| `Driver`, `MCDriver` | dispatch, reaper, runners, connections, faults | `INSTANCE RunLedger WITH` |
| `Driver_proofs` | theorems about `Driver`: types and the reaper | `EXTENDS Driver, TLAPS` |
| `Dispatch_proofs` | theorems about `Driver`: which runs a session gets, tokens, and the conversation of a task and its runner | `EXTENDS Driver_proofs` |
| `Ledger_proofs` | that `Driver` implements `RunLedger` | `EXTENDS Dispatch_proofs` |
| `CommitLedger` | what the intake promises about a commit: how far it has come, who asked for it, its names | implemented by `Intake` |
| `Intake`, `MCIntake` | push handler, `job create`, reruns, and when a page panics on their rows | `INSTANCE CommitLedger WITH` |
| `Intake_proofs` | theorems about `Intake`, and that it implements `CommitLedger` | `EXTENDS Intake, TLAPS` |
| `Notices`, `MCNotices` | notices against rows | takes `NewRun` from the intake and `Start` / `HangUp` from the driver as its environment |
| `Notices_proofs` | theorems about `Notices` | `EXTENDS Notices, TLAPS` |
| `Builds`, `MCBuilds` | one build with the session it reports to | refines what `Driver` takes for one step of a runner |
| `Builds_proofs` | theorems about `Builds` | `EXTENDS Builds, TLAPS` |
| `Artifacts`, `MCArtifacts` | upload, storage and tail of one artifact | |
| `Artifacts_proofs` | theorems about `Artifacts` | `EXTENDS Artifacts, TLAPS` |
| `Records`, `MCRecords` | columns and rows about runs, and how pages show them | `INSTANCE RunLedger`: the ledger says which session may do what to a run, `Records` adds what each step writes |
| `Records_proofs` | theorems about `Records` | `EXTENDS Records, TLAPS` |

Every definition that stands for code is in `PROJECT.json` under `map`, with its
lines. An operator called `X_...` next to a definition `X` is a faulty variant of
it, a bug the code could plausibly have; a property is listed there together with
the variant that breaks it. Variants are used by nothing else.

### Driver

| state | code |
|---|---|
| `jobs`, `recent`, `state`, `job`, `pref`, `host`, `token`, `result` | columns of `jobs` and `runs`; `recent` are the jobs younger than a day |
| `queue` | the `mpsc` channel between `handle_next_job` and `main` |
| `phase`, `client`, `task`, `missing`, `pick`, `verdict` | where the session's task stands and its locals (`RunnerClient`, `PendingRun`, the jobs it has yet to look up and that had no row, the alternate `Job`, the result) |
| `active`, `sweep`, `stale` | `ACTIVE_TASKS`, where `old_task_reaper` stands, `potentially_stale_tasks` |
| `up`, `toRunner`, `toDriver` | the two bodies of the exchange; `up` is `"cut"` when the connection is lost and neither end has been told, `"down"` when they see its end |
| `rsess`, `rphase` | the runner process |

Each action is the code between two awaits or two statements. `FindPending` is the
pending query, and with it the choice, since a job's source never changes;
`JobMissing` the panic of `job_by_id(..).expect("job exists")` on a row up to the
chosen one, `NothingPending` the end of the loop without a choice, `PreludePanics`
the expects at the head of `activate_run` on a job whose remote, repository or commit
has no row (`Unready`), and `Submit` the offer. `FindAlt` is the alternate query,
`AltNewRun` the insert, `TestConnection` / `Deadline` the answer to a ping,
`RecvStarted` the insertion in `ACTIVE_TASKS`, `ActivateRun` the update of the row,
`RecvStatus` and `CompleteRun` the two halves of recording a result. `TaskPanics` is a
panic that the rows do not explain: of the artifacts directory in `activate_run`, or of a
notifier between the two halves. `QueueRun` is the insert of the intake and of ci_ctl,
which takes any id for a job's. `ConnLost` cuts a connection, and `ConnNoticed` is
the network's word to its ends, which need not come. A runner then gives up by its
request's timeout of ten minutes (`RunnerClosed`); a driver's task waits.

Choices worth knowing:

- A session is a connection and stands for its random build token. Slots are
  recycled; a row that still has the token of an earlier user of the slot gets
  `Retired`, so that a token never means two connections.
- `PENDING_RUNS` orders by `created_time desc`; ids count up with it, and the
  newest acceptable run is the one with the greatest id.
- `host` is the column `host_id`; `MyHost` is what `id_for_host` returns. The row of
  a runner's host is taken as there and fixed per runner; how it gets there is
  in `Records`.
- The reaper's 60 seconds are a choice: any subset of the stale runs may be older.
  A run whose `start_time` is recent is exactly one the choice leaves out.
- The five minutes of `find_client_task` may be over after any Pong.
- The columns `runs.host_preference` (used by the queries, missing in
  `CREATE_RUNS_TABLE`) and `metrics.run_id` are taken as in the migrated database
  the queries are written for. In one made by `create_tables` the column of
  `metrics` is `job_id`, and the first metric panics under the guard.

### Intake

`pc` is the next statement of a handler (`received`, `commit`, `job`, `run`, `notify`,
`name`); `commits`, `jobs`, `runs` are sequences, because SQLite ids count up and no
row is deleted; `poisoned` is the web server's mutex. `process_push_event` and the
create command of ci_ctl share the actions of `new_job` and `new_run`, as they
share `DbCtx`; a command has a connection of its own and is not poisoned. `Rerun`
takes any id, as `ci_ctl job rerun` does. `runs[..].asked` records which commit a
`rerun-commit` was asked for; no code reads it. `handle_github_event` throws away what
`process_push_event` returns: a push to an unknown repository (`refused`) is answered
200 "ok" like any other (`Answered`). `CommitPagePanics`, `SummaryPanics` and
`IndexPanics` are the `expect`s and indexings of the pages on rows that are missing.

### Notices

`stage`, `says` and `at` are the push handler's loop over the remotes (teller 0) and
that of each run's `ClientJob`; `log` is what a remote has received, `missed` the
notices whose teller saw an error. A failed notice may have arrived. An error is
a panic in the push handler (`expect`), a line of log in `ClientJob`, and a panic in
either when the mail server cannot be reached (`unwrap`). The kinds are those
`new_remote` writes: `github`, and `email` for `github-email`.

### Builds

| state | code |
|---|---|
| `at` | where `RunningJob::run` stands: git's two commands, the goodfile's text, the goodfile between calls, a command or an upload, the status about to be reported, or the end |
| `posts` | `create_artifact` calls of the current command that were answered |
| `up`, `toDriver` | the connection and the `ClientProto` messages on it |
| `token`, `state`, `metrics` | `runs.build_token`, `runs.state`, rows of `metrics` |
| `task`, `verdict` | where `ClientJob::run` stands and the result it is telling |
| `calls`, `said`, `broke`, `cause` | bound and histories: the last value reported of each metric, whether checkout or goodfile failed, what the runner panicked on |

A goodfile's next call is any call; an error of a call is caught (`pcall`) or ends the
build (`Raise`). A panic of the runner goes through pcall, the Lua thread and its
join. `Panics` are those a build can cause by itself: the working directory cannot be
made anew (`tmpdir`), the goodfile is there and `read_to_string` fails, or the machine
has no known toolchain (`setup`), an argument is not unicode (`argument`),
`Build.run({})` (`no command`), and an artifact that cannot be asked for, is refused, or is
of a file that is not there (`unsent`, `refused`, `no file`). `ActivateRun` is apart from
`RecvStarted`, so that the runner may post before the token is in the row. What is written to a connection that is gone is lost
until the runner is told so; then `Build.metric` raises an error and a command's
report panics.

### Artifacts

One artifact, in counted chunks: `out` written by the command, `sent` taken by the
request's body, `wire` on its way, `writing` the chunk tokio's file has taken and not
yet written, or has lost, `file` written. `kind` says whose output it is, and with it on
which tokio runtime the forwarder lives; `runtime` whether that one is still there;
`pooled` whether the POST found a pooled connection of the main runtime or opened one
on the short-lived runtime. `ForwardFails` is `forward_data`'s error path for a file: the
sender is dropped with it, the body ends like any other, and the driver finalizes what
it got. A write that fails (`WriteFails`) is reported by the *next* write, where
`store_all` ends with the error (`StoreChunkFails`); if there is none, by nobody. `tail`
and `pos` are the web server's tails, and `peer` is the viewer at the other end, who reads, stops
reading, or goes away: a tail whose viewer has gone skips to the end of the file, one
whose viewer stands still waits in the middle of a write.

### Records

`status`, `started`, `completed`, `result`, `host`, `token` are columns of `runs`; `hosts`,
`metrics` and `artifacts` are rows, by id. A session's `now` is the time `activate_run`
takes before it submits the run (`TakeTime`); the run was read in a step of its own
(`Offer`), and others may have started or completed it since. An artifact is a `log`, the
stdout or stderr of a command, or an `upload` of `Build.artifact`; the page's query asks
for names of the first kind (`ArtifactsForRun`). Each action is a step of `RunLedger` joined with
what the code writes in that step: `Activate` leaves `complete_time` and
`build_result` of an earlier start, `CompleteRun` writes whatever the row says.
`DisplayRunTime`, `DurationAsHumanString`, `IndexResult`, `CommitStatus`,
`ShownArtifacts` and `HostDesc` are what the pages make of the rows, `Elapsed` the
subtraction of `u64` milliseconds. Times are indices into `Moments`.

## 3. Runs

| run | module | what it shows |
|---|---|---|
| `driver_dispatch` | MCDriver | no faults, two runs, two jobs for all hosts of which one is for one runner only: `HostPinned`, `SourceTrusted`, `TokenNamesHolder`, `TypeOK`; deadlock is checked |
| `driver_faults` | MCDriver | two faults, one run: `NoMutualWait`, `ReaperSparesHeldRuns`, `ReapedIsFinal`, and `ImplementsLedger`; deadlock is checked |
| `driver_live` | MCDriver | one fault, fairness, one runner, two runs so that a newer one can arrive at any time: `PendingIsTaken`, `StartedIsSettled` |
| `driver_orphans` | MCDriver | no faults, fairness, two runners, a good job and one without a remote, either of which may have no row yet when a run of it is queued: `PendingIsTaken` |
| `intake` | MCIntake | five pushes of two commits, one command, a rerun and a fault: `OneJobPerCommit`, `JobsBuildTheirPush`, `PagesRender`, `PushIsQueued`, and `ImplementsCommits` |
| `notices` | MCNotices | two runs, two remotes of either kind, two faults, fairness: `RecordedIsTold`, `ToldOnce`, `RowAgreesWithNotices`, `OnlyMailLosesResults`, `ReportsAreRecorded` |
| `builds` | MCBuilds | any goodfile of three calls, two metrics with two values each, two faults, fairness: `PassIsEarned`, `MetricsPrecedeResult`, `SilentEndsHaveACause`, `BothEndsLetGo` |
| `artifacts` | MCArtifacts | four chunks, a viewer, two faults, fairness: `CompleteIsWhole`, `UploadsSettle`, `OutputDrains`, `TailsEnd` |
| `records` | MCRecords | one run, three connections of two machines, three moments: `ShownTimesAreReal`, `DurationsReadBack`, `OwnArtifactsAreShown`, `MetricsKeepOrder`, `SoleRunsReadRight`, `HostRowsHold` |

Three more runs expect a violation. Each checks one statement a message of the code
makes, and TLC's counterexample is the disagreement:

| run | statement | what happens |
|---|---|---|
| `intake_rerun` | `rerunning job {} (commit {})` (`ci-ctl/src/main.rs:108`) | `job_for_commit` returns the commit's id, which is another job's |
| `artifact_tail` | `we've sent the whole thing` (`ci-web-server/src/main.rs:544`) | the last chunk arrives during the last wait |
| `builds_token` | `.await.expect("works")` of an artifact's request (`ci-runner/src/main.rs:284`) | the runner posts its first artifact before `activate_run` has recorded the token, is answered 400 and dies of it |

### Bounds

- **Two sessions, two runners, two hosts.** Everything a session does to another goes
  through a row, `ACTIVE_TASKS` or the channel, and every property relates at most two
  sessions. Two runs are needed for `HostPinned` (a run pinned elsewhere beside one
  that is not), for a newer run to arrive while one is pending, and for an orphan to be
  pending together with a good run; one is enough for the reaper, the ledger and the
  conversation, which speak of one run and what any sessions do to it. Two jobs, one of
  a source both runners accept and one only the first may build, put a run a runner must
  refuse beside one it may take, on the pending and on the alternate path. `driver_live`
  has one runner: who else may take a run only helps. Jobs for all hosts make the driver
  insert runs of its own. The channel's capacity of one makes it full. Where results are
  not looked at, builds have one verdict.
- **Faults** of one or two: a restart followed by a lost connection in the new
  process is the longest story the reaper has; in a build, one end fails and then
  the other.
- `HasRoom` keeps a row id for each session that has chosen an alternate job: an
  insert that was chosen can always be made, so the bound never blocks a session.
- **Intake**: two pushes and a command for one commit are every pair of racers; a
  second commit tells whose id was returned; one push has no email and one no remote.
  One fault is a kill, a restart that cuts off every push at once, or a failed notice.
- **Builds**: three calls are a metric that is reported twice with something between or
  after it; two values tell a first from a last; two metrics share the channel.
- **Artifacts**: four chunks with a pipe of two leave a chunk in every stage at once
  and some to come. One viewer, since viewers do not meet: each has its own task,
  and reads the file and the row.
- **Records**: three connections, two of one machine with two frequencies between
  them, are a second and a third session on a run and the host that is not found.
  The moments 0, 1030 and 3600030 ms make durations of 0s, 1.030s, 59m59s and 1h:
  one of each form and the last before an hour. One artifact at any time of any
  session is every artifact, since pages judge each by itself. `Wrap` stands for
  2^64: it is greater than twice any time, so that an underflow would show.
- **Notices**: two remotes, so that one comes before and one after a failure.
- **Sizes** (distinct states): `driver_dispatch` 2.35 million, `driver_faults` 1.49
  million, `driver_live` 162 thousand, `driver_orphans` 117 thousand, `intake` 2.04
  million, `artifacts` 228 thousand, `builds` 38 thousand.
- `CHECK_DEADLOCK FALSE` is set for Intake, Notices, Builds, Artifacts and Records:
  their handlers, notices, builds, uploads and clocks come to an end. The driver
  never does, and deadlock is checked in its runs.
- Sessions are symmetric where no liveness is checked.

### Fairness

- `Driver`: weak fairness of the main loop, the reaper, every session's task and
  every runner. Tokio polls every task that is ready; a build is assumed to end.
  `Connect` is strongly fair because a free slot is a bound of the model, not of the
  driver: the driver accepts a connection at any time, and a full channel drains.
  For the same reason the live runs have no fewer slots than runners. That a runner
  whose process died asks for work again is assumed of whoever supervises it. Nothing
  is assumed of the environment, of faults, or of the network: `ConnNoticed` is not
  fair, so a lost connection may stay unnoticed. `SessionStep` contains both
  outcomes of a Pong, so fairness does not promise that the deadline is missed.
- `Builds`: weak fairness of the runner and of the session's task. Of the runner it
  supposes that commands exit and the goodfile ends, which nothing in the code sees
  to: there is no timeout on a build. Tokens need not expire.
- `Notices`: weak fairness of a teller's next notice and of the update of the row; a
  request ends in an answer or an error. Failures are never required.
- `Artifacts`: weak fairness of runner, driver and tails. Nothing is assumed of files
  that cannot be read (`ForwardFails`) or of writes that fail. Nobody has to look at an
  artifact, tokens need not expire, and a viewer need neither read nor leave:
  `TailsEnd` excuses a tail whose viewer stands still.
- `Intake` and `Records` state only safety.

## 4. Proofs

`tlapm X_proofs.tla` checks every step, for `X` one of `Driver`, `Dispatch`, `Ledger`,
`Intake`, `Notices`, `Builds`, `Artifacts` and `Records`.

**Assumptions.** `Driver`: `BoundsAssumption` (the bounds are natural numbers),
`NullAssumption` (`None` and `Retired` are no ids), `ConfigAssumption` (every runner has
a host, jobs for all hosts and unready jobs are jobs, results are `pass` or `fail`).
`Intake`: `IntakeBounds`, `IntakeConfig` (a push is not a command, `None` is no sha). `Notices`: `NoticesBounds`. `Builds`: `BuildsBounds` (bounds, and `None` is no value
and no verdict). `Artifacts`: `ArtifactBounds`. `Records`: `ClockAssumption` (the moments of
the clock ascend and stay below half of `Wrap`, which is 2^64 in the code),
`NullAssumption` (`None` is no session, number or verdict), `MetricsAssumption` (`Metrics` is a
sequence without repeats). Nothing is assumed about how many jobs, runs,
sessions, runners, hosts, pushes, remotes, calls, metrics, chunks or viewers there are.

**Driver.** `TypeCorrect` proves `TypeInv`, which is `TypeOK` with `Linked`: a session
with a task has a client, a session that holds a run has a task, and a runner that
is not idle has a session. Types alone are not inductive: `host[task[s]] := HostOf[client[s]]`
keeps its type only because of the links. There is one lemma per action, and a few
for what actions share (`Frame`, `SessionFrame`, `MoveOn`, `CloseType`, `DisconnectType`).

`ReaperInvHolds` adds `Unheld`, why the reaper is right:

1. a session past the acknowledgement has its run in `ACTIVE_TASKS` (`AckedIsActive`);
2. so a run past `pending` that is not there is held by nobody (`OthersAreUnheld`): it
   cannot be chosen any more, since only pending runs are, and it cannot become active;
3. hence what the snapshot saw as `started` and is not in `ACTIVE_TASKS` when the map is
   read, *after* the rows, is still `started` and unheld (`StaleIsUnheld`), and stays so
   until it is reaped (`ReapingIsInactive`);
4. a reaped run is not active either (`ReapedIsInactive`), so it stays as it is.

The order of the two reads is what step 3 needs, and it is in no comment of the code.
`ReaperSpares` and `ReapedStaysReaped` are the two action properties that follow:
a step that makes a row invalid is a `Reap` of an unheld started run, and no session
can write to a row that is invalid.

**Dispatch.** `HostPinned`, `SourceTrusted` and `TokenNamesHolder` are about a run that a
session has held for some time, while their reasons are in the step that gave it the
run. `DispatchInv` carries them over what other sessions and processes insert in
between: a row is there before a session holds it (`HeldRunsExist`), so no insert falls
on a held run; it is blank before it is there (`AbsentIsBlank`), so an insert cannot
revive a token; what a session is about to insert a run of was put to `will_accept`
(`PickIsTrusted`); and the token of a new connection is in no row (`TokensAreFresh`).

**Conversation.** `SessionsGoOn` proves `NoMutualWait`: a task and its runner never both
wait for a message with nothing under way. Types say nothing about this; the reason is
a protocol that is written down nowhere, and `TalkInv` writes it down. While a connection
is there, one runner is at its other end, and `Talk` lists where both can stand and what
is on its way: a ping or its pong, an offer or its acknowledgement, at most one message
in either direction. When it is gone, `Unread` lists what a task may still have to read,
which is always a beginning of what it waits for. A connection that was cut is one that is
gone and of which a waiting task has not been told: the theorem says that nothing else
leaves a task waiting, and nothing at all a runner. `ChannelInv` (the channel holds exactly the
sessions that wait in it, each once) and `RunnersApart` (two runners have two connections)
make it inductive (`ConversationsHold`). The conclusion is the part of `StartedIsSettled`
that needs no fairness: whenever a task cannot go on, its runner can.

**Refinement.** `DriverImplementsLedger` proves `ImplementsLedger`: one lemma per kind of step
says which action of `RunLedger` it is, or that it changes nothing the ledger sees. Two
steps need invariants. A session that starts a run must not reopen one that was given
up: its run is in `ACTIVE_TASKS` since the acknowledgement (`AckedIsActive`), and a run
given up is not (`ReapedIsInactive`). And the reaper must find no owner, which is
step 2 of its argument above.

**Intake.** The five invariants of the run are proved from one inductive invariant,
`TypeOK /\ CommitInv /\ JobInv /\ NameInv /\ ProgressInv`. Shas are unique, so a commit's row
tells whose it is. The step that matters is the insert of a job, which looks at
nothing: `MakersAreAlone` says that a handler about to make it is the only one that
came by its commit in that way and that no job has the commit yet, because the only
way to that statement is to have inserted the commit. The other half is that nothing
is forgotten: a commit without a job, or a job without a run, belongs to a handler
that stands before that insert, or that was cut off there (`CommitsGetJobs`,
`JobsGetRuns`), and from these follow `PagesRender` and `PushIsQueued`. For the latter
one also needs that a push is refused only when it is not of a registered repository
(`OriginInv`), and that an answered one that made no rows itself found its commit's row
(`KnownCommits`), whose maker is on its way, through, or was cut off.

`IntakeImplementsCommits` proves `ImplementsCommits`, one lemma per kind of step: `new_commit`
is a `Learn`, `new_job` a `Plan`, `new_run` and the reruns a `Queue` or nothing new,
`update_commit_name` a `Name`, and everything else changes nothing the ledger sees. A `Plan`
needs `MakersAreAlone` (the commit had no job) and that only a registered push or a command,
with an email, gets that far (`OriginInv`). The status of a commit is computed from rows
that refer to each other by ids, so each lemma first says which commits' rows an
insert leaves alone: ids that handlers hold are of rows that are there, and a row is
never changed. `Plan` may go straight to `queued`: `ci_ctl job rerun` can have inserted a
run of a job id that was only given out later.

**Notices.** The five invariants of the run follow from `TypeOK /\ LogInv /\ StageInv` and
`OnlyMailLosesResults`. `LogInv` relates what each remote has received to the place of
each teller in the list: a remote has heard a teller only if the teller is past it, or
was cut off at it (`HeardInTurn`), and a teller is past no remote that has neither heard
it nor failed (`TurnsAreTold`). The first is why nobody hears a notice twice, the second
why a recorded result was told; `StageInv` joins both to the row, which has a result
only when its teller is over and past the last remote.

**Builds.** The inductive invariant follows the result on its way from the report
to the row: the status is the last message, the runner is idle and has closed its
end when there is one (`SessionInv`), and at every place the result is about to be a
failure exactly when something broke (`ResultInv`). `MetricsPrecedeResult` is about two
functions at the end; `MetricInv` says why at every moment before: the last value a
goodfile reported of a metric is the last one under way, or none is under way and
it is in its row, as long as the connection is there or the result is on its way.
With no fault the connection is there while the runner builds, and a session that
is over has a result or a runner that died of one of `Panics` (`QuietInv`).

`BuildsEnd` is what `BothEndsLetGo` takes besides fairness. `Work` is a measure: ten for
each call the goodfile may still make, the stage of the runner, three for each
message under way, and the stages of task, token and connection. Every step, of
whomever, lowers it (`LessWork`), so no behaviour goes on for ever, whatever the number
of calls; and as long as one end has not let go the guard of a step of the runner or
of the task holds (`SomebodyGoesOn`), for which one has to know that a runner that is
through has closed the connection (`EndsInv`). That a guard which holds makes the step
possible is `ENABLED`, and the last word on `BothEndsLetGo` is TLC's.

**Artifacts.** `CompleteArtifacts` proves `CompleteIsWhole` from `Inv`: types and sizes with
`NothingIsLost` (while the connection lives what was sent is in the file, in tokio's hands or
on the way), `EndedIsSent` (the body ends at the end of the output, unless a build
command's runtime was dropped or a file could not be read) and `StoredBeforeComplete`
(only the task that has seen the body end marks the row, and then all but the chunk in
tokio's hands is in the file). That it is one chunk and no more is the work of
`StoreChunk`, which waits for the last write, and of `StoreChunkFails`, which makes the
next write fail instead of completing the row. None of the three is inductive without the
others: the property is about the row and the file, its reason is in the task, the task's
in the body, and the body's in the runner.

**Records.** All seven invariants of the run follow from one inductive invariant. Its core
is `SessInv`: a connection is chosen for one run, and whatever bears a session's name
(a token, an artifact, a reported metric) is of a run that the session owns, or the
session is gone. So a session that starts a run finds nothing of its own there, and

- `TimeInv`: every time in a row or in a session's `now` has been; a settled run has a
  completion no earlier than its start, since the session that settles it started it with a
  `now` that had been, and another that starts it later makes it `started` again. A
  start *after* a completion is possible, and shown as ongoing; when the reaper then gives
  the run up it is shown as "invalid data", which takes two sessions (`SoleInv`);
- `ArtifactInv`: the session in `token` uploaded after the start in the row, because it had
  uploaded nothing when it wrote that row;
- `MetricInv`: what an owner has reported has rows, so that its next report finds its row
  or appends the next one, whoever else reports;
- `HostInv`: rows of `hosts` are never changed, and the one a session got is what it
  reported;
- `SoleInv`: a run offered once has the row its status calls for.

`DurationKeepsUnits` is arithmetic: quotients and remainders by 1000 and 60.

**Only model-checked.** Liveness under fairness (`PendingIsTaken`, `StartedIsSettled`,
`BothEndsLetGo`, `UploadsSettle`, `OutputDrains`, `TailsEnd`, `ReportsAreRecorded`) and `ENABLED`
are beyond the prover. Every invariant, every action property and both refinements of
the passing runs are proved. Of `BothEndsLetGo`, what it takes besides fairness is
proved as well: some step has its guard, and every step brings the end nearer.

## 5. What the properties leave open

These are things the code does that a reader of the properties might not expect:

- Two sessions may be given the same pending run (`ci-driver/src/main.rs:539`).
  `ImplementsLedger` states what is left: an owner settles a run, nobody else, and a run
  given up is final. A settled run may be started again; the ledger allows it because
  the code does.
- Pending runs are read newest first (`ci-lib-core/src/sql.rs:280`): under newer runs that
  keep arriving an older one starves. `PendingIsTaken` says that nothing else makes it wait:
  it is taken unless, again and again, every runner that may take it has a newer run
  ahead of it (`Overtaken`).
- A newer run of a job without a row is ahead in the same way: each session that could
  come to the older run panics over it. With `ci_ctl job rerun` of a wrong id that is for
  good. So is a newer run of a job that lacks its remote, repository or commit, for the
  runners that accept its source: each chooses it, panics, and leaves it pending.
- Nothing tells the driver of a connection that goes dead without a word
  (`ci-driver/src/main.rs:134, 261` read without a timeout, and there is no keepalive):
  the task and its run may then wait for ever. `NoMutualWait` and `StartedIsSettled` excuse the
  task of such a connection, and no runner. `Builds` takes a lost connection to be noticed.
- A run whose runner is lost while the driver is up stays `started` until the driver
  starts again (511): `StartedIsSettled` is satisfied by the end of its session.
- A handler cut off after its commit's row leaves a commit that is known and never
  built, since a redelivery finds it. The redelivery is answered "ok" all the same, and so
  is a push that was refused (`ci-web-server/src/main.rs:216`): the answer says nothing of a
  run. `PushIsQueued` says what can be behind it, and that an answered push loses its run
  only by a handler that was itself cut off. `PagesRender` excuses the same handlers.
- A pending notice may follow the result of its run, and is then what the remote
  shows. `RowAgreesWithNotices` is about results. The first remote that refuses a pending
  notice keeps the other remotes from theirs, and the commit from its name.
- `OnlyMailLosesResults` takes the remotes' configuration files to load.
- A row is marked complete when the body has ended and been handed to tokio's file. The
  last chunk may still be on its way to the disk, and is lost when the driver is killed
  or the write fails, since nobody asks. `CompleteIsWhole` bounds the loss to that chunk.
- A truncated artifact can be complete: a build command's output ends where its runtime
  was dropped, and a file that stops being readable in the middle ends there
  (`ci-lib-native/src/io.rs:145`); the driver is told of neither.
- `UploadsSettle` includes a task that panics. Its artifact then stays live for ever,
  which is why `TailsEnd` only speaks of complete ones. A tail opened between the row and
  its file panics, and has ended.
- `OutputDrains` excuses faults: once the body is gone the forwarder asks to be polled
  for ever, and the command blocks on its pipe.
- `SilentEndsHaveACause` excuses the panics of the runner on what a build has it do
  (`Panics`): a goodfile can kill its runner with `Build.run({})`, or with an argument that is
  not unicode, and no result is ever recorded. One of them, a refused artifact, needs no
  help of the build, as `builds_token` shows.
- A run that a second session starts while, or after, the first completes it keeps the
  first's `complete_time` and `build_result`. If the second took its `started_time` before
  that completion, the page shows a duration the run "took", although it is going on or
  was somebody else's build; if after it, the page says "ongoing"
  (`ci-lib-web/src/lib.rs:80`), or "invalid data" once the reaper has given the run up.
  `ShownTimesAreReal` says that a duration is one that can have been, not whose, and
  `SoleRunsReadRight` speaks of runs offered to one session only.
- Artifacts that an earlier session uploaded between a later session's offer and its
  start pass the page's filter (`ci-web-server/src/main.rs:339`); `OwnArtifactsAreShown` says
  that none of the last session's logs is missing, not that none is foreign.
- What `Build.artifact` uploads is listed on no page: the query asks for the names of
  stdout and stderr (`ci-lib-core/src/sql.rs:303`). `OwnArtifactsAreShown` says so.
- A machine that reports another frequency than at first is turned away for good: the
  insert is ignored and the lookup finds nothing (`sql.rs:271`), although a comment has it
  that a record may be created (`dbctx.rs:562`). Without a cpufreq driver the runner
  reports the frequency of the moment (`ci-runner/src/main.rs:704`). `Records` models the
  refusal; no property calls it right.
- The comment on `duration_as_human_string` (`ci-lib-web/src/lib.rs:8`) speaks of the largest
  two non-zero units ("1m", "1.03s"), and the code prints "1m0s" and "1.030s":
  `DurationsReadBack` is about the numbers.
- `Records` takes the clock not to go back and builds to report their metrics in the
  order of the goodfile, each once (a repeat would find its row, like a second session's
  report); `Builds` takes the session to have its run to itself.

## 6. Not modelled, and why

- The HTML of the pages, their links, and which runs a page lists: wording and layout.
- The wasm frontend: a read-only SQLite VFS over a copy of the database, one request
  at a time. Its `read_exact_at` does not advance the offset after a short read
  (`ci-wasm-frontend/src/main.rs:183`), which matters only to the backend it reads from.
- TLS, the shared secret, and the authentication and parsing of webhooks: outside the
  properties.
- What Lua computes, what commands do to the working directory, the goodfile's
  environment and file checks: local to the runner. `Step` only keeps names that nobody
  reads. The output `check_output` returns may lack its end, since the buffer is taken
  right after the wait (`ci-lib-native/src/io.rs:21`): a goodfile's own affair.
- `ArtifactCreate`, which no runner sends.
- The local runner of `ci_runner local` (no driver involved).
- `ci_ctl job list`, `add repo`, `add remote`, `validate`: single statements by hand.
  The query of `job list` reads "oder by" (`ci-lib-core/src/sql.rs:369`) and cannot be
  prepared. `find_id_like_host` is not used.
- `config/`, `goodfile`: data. The schema's migrations are not in the repository: see the
  note on columns above.

## 7. Plan

Written and checked so far, in this order: `RunLedger`, `Driver`, `Driver_proofs`, `Intake`,
`Artifacts`, `Artifacts_proofs`, `Notices`, `Records`, `Builds`, viewers in `Artifacts`, orphans
in `Driver`, page predicates in `Intake`, `Intake_proofs`, `Builds_proofs`, `Records_proofs`,
`Dispatch_proofs`, `Ledger_proofs`, `Notices_proofs`. Next:

1. The messages of `Builds` with several sessions on one run, which `Records` has
   without the messages.
2. Connections lost without a word in `Builds`, which has them noticed: what is left of
   `BothEndsLetGo` when only the runner's request has a timeout.
3. For uploads and notices what `BuildsEnd` shows of builds, with measures of their own:
   what is left of `UploadsSettle` and `OutputDrains` besides fairness.
