------------------------------- MODULE Intake --------------------------------
(****************************************************************************)
(* How commits become jobs and runs: the web server's push handler          *)
(* (process_push_event, one task per delivered webhook, all sharing one     *)
(* DbCtx and its mutex) and ci_ctl's job commands (a process and a          *)
(* connection each).                                                        *)
(*                                                                          *)
(* A handler takes the mutex once per statement, so other handlers run      *)
(* between any two of its statements.  A statement that panics while the    *)
(* guard is held poisons the mutex: every later `lock().unwrap()` of that   *)
(* process panics, until the process is restarted.                          *)
(*                                                                          *)
(* Row ids are positions: no row of these tables is ever deleted.           *)
(****************************************************************************)
EXTENDS Naturals, Sequences

CONSTANTS Pushes,      \* delivered push webhooks, redeliveries included
          Creates,     \* invocations of `ci_ctl job create`
          ShaOf,       \* the commit a push or create is about
          RefOf,       \* the ref a push moved
          SourceOf,    \* the pusher's email, None when the event has none
          Registered,  \* pushes to a repository with a remote
          MaxReruns,   \* bound on `ci_ctl job rerun` and `rerun-commit`
          MaxFaults,   \* bound on restarts, killed commands, failed notifiers
          None

(* A webhook that passes handle_repo_event gets a handler of its own. *)
Handlers == Pushes \cup Creates
Shas == {ShaOf[h] : h \in Handlers}

ASSUME IntakeBounds == MaxReruns \in Nat /\ MaxFaults \in Nat
ASSUME IntakeConfig == /\ Pushes \cap Creates = {}
                       /\ Registered \subseteq Pushes
                       /\ None \notin Shas

VARIABLES
  commits,   \* commits.sha by id
  jobs,      \* jobs.commit_id and jobs.source by id
  runs,      \* runs.job_id by id, with the commit a rerun was asked for
  names,     \* commit_names: pairs of commit_id and name
  poisoned,  \* the web server's connection mutex is poisoned
  pc,        \* where a handler stands
  commit,    \* commit_id a handler works with, 0 before it has one
  job,       \* job_id a handler got from new_job, 0 before
  reruns, faults

rows == <<commits, jobs, runs, names>>
vars == <<rows, poisoned, pc, commit, job, reruns, faults>>

Steps == {"received",    \* before the commit is looked up
          "commit",      \* before new_commit
          "job",         \* before the insert of new_job
          "run",         \* before new_run
          "notify",      \* before the notifiers are told
          "name"}        \* before update_commit_name
Ends == {"done", "refused", "dead"}

CommitIds == DOMAIN commits
JobIds == DOMAIN jobs

TypeOK ==
  /\ commits \in Seq(Shas)
  /\ jobs \in Seq([commit : Nat, source : {SourceOf[h] : h \in Handlers}])
  /\ runs \in Seq([job : Nat, asked : Shas \cup {None}])
  /\ names \subseteq Nat \X {RefOf[p] : p \in Pushes}
  /\ poisoned \in BOOLEAN
  /\ pc \in [Handlers -> Steps \cup Ends]
  /\ commit \in [Handlers -> 0..Len(commits)]
  /\ job \in [Handlers -> 0..Len(jobs)]
  /\ reruns \in 0..MaxReruns /\ faults \in 0..MaxFaults

Init ==
  /\ commits = <<>> /\ jobs = <<>> /\ runs = <<>> /\ names = {}
  /\ poisoned = FALSE
  /\ pc = [h \in Handlers |-> IF h \in Pushes THEN "received" ELSE "commit"]
  /\ commit = [h \in Handlers |-> 0]
  /\ job = [h \in Handlers |-> 0]
  /\ reruns = 0 /\ faults = 0

------------------------------------------------------------------------------
(* Steps of a handler *)

(* The mutex of a handler's connection can be taken. *)
Locks(h) == h \in Creates \/ ~poisoned

At(h, step) == pc[h] = step /\ Locks(h)
Goto(h, step) == pc' = [pc EXCEPT ![h] = step]

Fault == faults < MaxFaults /\ faults' = faults + 1

(* The remote and the commit are looked up; a known commit needs no job.    *)
(* Without a remote process_push_event is over with a 404 that never leaves *)
(* the server: handle_github_event drops its result and answers "ok".       *)
LookupCommit(p) ==
  /\ At(p, "received")
  /\ \/ p \notin Registered /\ Goto(p, "refused") /\ UNCHANGED commit
     \/ /\ p \in Registered
        /\ \E c \in CommitIds : /\ commits[c] = ShaOf[p]
                                /\ commit' = [commit EXCEPT ![p] = c]
        /\ Goto(p, "name")
     \/ /\ p \in Registered
        /\ \A c \in CommitIds : commits[c] # ShaOf[p]
        /\ Goto(p, "commit")
        /\ UNCHANGED commit
  /\ UNCHANGED <<rows, poisoned, job, reruns, faults>>

HasEmail(h) == SourceOf[h] # None

(* Faulty variants of new_commit: a duplicate is ignored, and the id        *)
(* returned is that of the last row inserted; the next id is returned; the  *)
(* pusher's email is looked for after the insert.                           *)
NewCommit_ignoresDuplicates(h) ==
  /\ At(h, "commit") /\ HasEmail(h)
  /\ commits' = IF \E c \in CommitIds : commits[c] = ShaOf[h]
                THEN commits ELSE Append(commits, ShaOf[h])
  /\ commit' = [commit EXCEPT ![h] = Len(commits')]
  /\ Goto(h, "job")
  /\ UNCHANGED <<jobs, runs, names, poisoned, job, reruns, faults>>

NewCommit_nextId(h) ==
  /\ At(h, "commit") /\ HasEmail(h)
  /\ \A c \in CommitIds : commits[c] # ShaOf[h]
  /\ commits' = Append(commits, ShaOf[h])
  /\ commit' = [commit EXCEPT ![h] = Len(commits') + 1]
  /\ Goto(h, "job")
  /\ UNCHANGED <<jobs, runs, names, poisoned, job, reruns, faults>>

NewCommit_beforeEmail(h) ==
  /\ At(h, "commit")
  /\ \A c \in CommitIds : commits[c] # ShaOf[h]
  /\ commits' = Append(commits, ShaOf[h])
  /\ commit' = [commit EXCEPT ![h] = Len(commits')]
  /\ Goto(h, IF HasEmail(h) THEN "job" ELSE "dead")
  /\ UNCHANGED <<jobs, runs, names, poisoned, job, reruns, faults>>

(* A push without an email panics; no guard is held.  Otherwise new_commit: *)
(* the sha is unique; inserting it again panics with the guard held.        *)
NewCommit(h) ==
  /\ At(h, "commit")
  /\ \/ /\ ~HasEmail(h)
        /\ Goto(h, "dead")
        /\ UNCHANGED <<commits, commit, poisoned>>
     \/ /\ HasEmail(h)
        /\ \A c \in CommitIds : commits[c] # ShaOf[h]
        /\ commits' = Append(commits, ShaOf[h])
        /\ commit' = [commit EXCEPT ![h] = Len(commits')]
        /\ Goto(h, "job")
        /\ UNCHANGED poisoned
     \/ /\ HasEmail(h)
        /\ \E c \in CommitIds : commits[c] = ShaOf[h]
        /\ Goto(h, "dead")
        /\ poisoned' = (poisoned \/ h \in Pushes)
        /\ UNCHANGED <<commits, commit>>
  /\ UNCHANGED <<jobs, runs, names, job, reruns, faults>>

(* Faulty variants of new_job: the job is of the last commit, whoever made  *)
(* it; the caller forgets new_run.                                          *)
NewJob_lastCommit(h) ==
  /\ At(h, "job")
  /\ jobs' = Append(jobs, [commit |-> Len(commits), source |-> SourceOf[h]])
  /\ job' = [job EXCEPT ![h] = Len(jobs')]
  /\ Goto(h, "run")
  /\ UNCHANGED <<commits, runs, names, poisoned, commit, reruns, faults>>

NewJob_skipsRun(h) ==
  /\ At(h, "job")
  /\ jobs' = Append(jobs, [commit |-> commit[h], source |-> SourceOf[h]])
  /\ job' = [job EXCEPT ![h] = Len(jobs')]
  /\ Goto(h, IF h \in Pushes THEN "notify" ELSE "done")
  /\ UNCHANGED <<commits, runs, names, poisoned, commit, reruns, faults>>

(* The rest of new_job: a row for the commit just made. *)
NewJob(h) ==
  /\ At(h, "job")
  /\ jobs' = Append(jobs, [commit |-> commit[h], source |-> SourceOf[h]])
  /\ job' = [job EXCEPT ![h] = Len(jobs')]
  /\ Goto(h, "run")
  /\ UNCHANGED <<commits, runs, names, poisoned, commit, reruns, faults>>

InsertRun(j, sha) == runs' = Append(runs, [job |-> j, asked |-> sha])

(* new_run, after which a command is done. *)
NewRun(h) ==
  /\ At(h, "run")
  /\ InsertRun(job[h], None)
  /\ Goto(h, IF h \in Pushes THEN "notify" ELSE "done")
  /\ UNCHANGED <<commits, jobs, names, poisoned, commit, job, reruns, faults>>

(* The notifiers are told of the pending job. *)
Notify(p) ==
  /\ At(p, "notify")
  /\ Goto(p, "name")
  /\ UNCHANGED <<rows, poisoned, commit, job, reruns, faults>>

(* A notifier fails, and the handler with it. *)
NotifyFails(p) ==
  /\ Fault
  /\ At(p, "notify")
  /\ Goto(p, "dead")
  /\ UNCHANGED <<rows, poisoned, commit, job, reruns>>

(* update_commit_name given the last commit, whoever made it. *)
NameCommit_lastCommit(p) ==
  /\ At(p, "name")
  /\ names' = names \cup {<<Len(commits), RefOf[p]>>}
  /\ Goto(p, "done")
  /\ UNCHANGED <<commits, jobs, runs, poisoned, commit, job, reruns, faults>>

(* update_commit_name, and the answer. *)
NameCommit(p) ==
  /\ At(p, "name")
  /\ names' = names \cup {<<commit[p], RefOf[p]>>}
  /\ Goto(p, "done")
  /\ UNCHANGED <<commits, jobs, runs, poisoned, commit, job, reruns, faults>>

(* A handler meets the poisoned mutex. *)
Panic(p) ==
  /\ poisoned
  /\ pc[p] \in Steps
  /\ Goto(p, "dead")
  /\ UNCHANGED <<rows, poisoned, commit, job, reruns, faults>>

------------------------------------------------------------------------------
(* ci_ctl, restarts *)

(* `ci_ctl job rerun <id>`, with whatever id it is given: the run is of no  *)
(* job when there is none of that id, until one is inserted.                *)
Rerun(j) ==
  /\ reruns < MaxReruns /\ reruns' = reruns + 1
  /\ InsertRun(j, None)
  /\ UNCHANGED <<commits, jobs, names, poisoned, pc, commit, job, faults>>

(* `ci_ctl job rerun-commit <sha>`: job_for_commit returns the commit's id. *)
RerunCommit(sha) ==
  /\ reruns < MaxReruns /\ reruns' = reruns + 1
  /\ \E c \in CommitIds : commits[c] = sha /\ InsertRun(c, sha)
  /\ UNCHANGED <<commits, jobs, names, poisoned, pc, commit, job, faults>>

(* The web server is stopped and started again; its handlers are gone. *)
WebRestart ==
  /\ Fault
  /\ poisoned' = FALSE
  /\ pc' = [h \in Handlers |-> IF h \in Pushes /\ pc[h] \in Steps \ {"received"}
                               THEN "dead" ELSE pc[h]]
  /\ UNCHANGED <<rows, commit, job, reruns>>

CtlKilled(h) ==
  /\ Fault
  /\ pc[h] \in Steps
  /\ Goto(h, "dead")
  /\ UNCHANGED <<rows, poisoned, commit, job, reruns>>

------------------------------------------------------------------------------

HandlerStep(h) == NewCommit(h) \/ NewJob(h) \/ NewRun(h)

PushStep(p) == LookupCommit(p) \/ Notify(p) \/ NameCommit(p) \/ Panic(p)

Next == \/ \E h \in Handlers : HandlerStep(h)
        \/ \E p \in Pushes : PushStep(p) \/ NotifyFails(p)
        \/ \E h \in Creates : CtlKilled(h)
        \/ \E j \in 1..(Len(jobs) + 1) : Rerun(j)
        \/ \E sha \in Shas : RerunCommit(sha)
        \/ WebRestart

Spec == Init /\ [][Next]_vars

------------------------------------------------------------------------------
(* What the pages of the web server expect of the rows *)

JobsOf(c) == {j \in JobIds : jobs[j].commit = c}
RunsOf(j) == {r \in DOMAIN runs : runs[r].job = j}

(* The page of a commit: the commit's first job, and a run of it. *)
CommitPagePanics(c) ==
  \A j \in JobsOf(c) : (\A i \in JobsOf(c) : j <= i) => RunsOf(j) = {}

(* The page of a repository, for each of its latest jobs. *)
SummaryPanics(j) == RunsOf(j) = {}

(* The index passes over a job without a run, but expects a job of every    *)
(* active run.  A run of no job stays pending: no session gets past it.     *)
IndexPanics == \E r \in DOMAIN runs : runs[r].job \notin JobIds

------------------------------------------------------------------------------
(* Properties *)

Queued(sha) == \E r \in DOMAIN runs : LET j == runs[r].job IN
                 j \in JobIds /\ commits[jobs[j].commit] = sha

OnItsWay(sha) ==
  Queued(sha) \/ \E h \in Handlers : ShaOf[h] = sha /\ pc[h] \in {"job", "run"}

(* However deliveries of one commit race with each other and with           *)
(* `ci_ctl job create`, a commit gets one job.                              *)
OneJobPerCommit == \A i, j \in JobIds : jobs[i].commit = jobs[j].commit => i = j

(* The ids a handler got from last_insert_rowid are those of its own rows:  *)
(* its job is of the commit it was told of, with the pusher it was told of, *)
(* and its run is of that job.                                              *)
JobsBuildTheirPush == \A h \in Handlers : job[h] # 0 =>
  /\ jobs[job[h]] = [commit |-> commit[h], source |-> SourceOf[h]]
  /\ commits[commit[h]] = ShaOf[h]

(* Who may have a commit built: a push to a repository with a remote, or a  *)
(* command, with somebody's email.                                          *)
Announces(h) == HasEmail(h) /\ h \in Registered \cup Creates

AnnouncedSources == [sha \in Shas |->
  {SourceOf[h] : h \in {g \in Handlers : ShaOf[g] = sha /\ Announces(g)}}]
PushedRefs == [sha \in Shas |-> {RefOf[p] : p \in {q \in Registered : ShaOf[q] = sha}}]

JobsOfSha(sha) == {j \in JobIds : commits[jobs[j].commit] = sha}

(* How far the rows say that a commit has come: "twice" is what the ledger  *)
(* of commits has no name for.                                              *)
Status(sha) == LET made == JobsOfSha(sha) IN
  IF \A c \in CommitIds : commits[c] # sha THEN "unknown"
  ELSE IF made = {} THEN "known"
  ELSE IF \E i, j \in made : i # j THEN "twice"
  ELSE IF Queued(sha) THEN "queued" ELSE "planned"

(* The intake implements the ledger of commits: whoever races with whom,    *)
(* dies, or asks for reruns of whatever id, a commit is planned once, for   *)
(* somebody who announced it, and goes by the refs of its own pushes.       *)
Commits == INSTANCE CommitLedger WITH
  SourcesOf <- AnnouncedSources,
  RefsOf <- PushedRefs,
  status <- [sha \in Shas |-> Status(sha)],
  sources <- [sha \in Shas |-> {jobs[j].source : j \in JobsOfSha(sha)}],
  names <- {<<commits[n[1]], n[2]>> : n \in names}

ImplementsCommits == Commits!Spec

(* A name is only given to the commit whose push moved that ref. *)
NamesFollowPushes == \A n \in names :
  \E p \in Pushes : commits[n[1]] = ShaOf[p] /\ RefOf[p] = n[2]

(* A restart, a kill, a failed notice or the poisoned mutex may have cut a  *)
(* handler off between two of its statements.                               *)
CutOff(h) == pc[h] = "dead" /\ (poisoned \/ faults > 0)

(* "TODO: run exists if job exists (small race if querying while creating   *)
(* job": the pages expect a job of every commit and a run of every job.  A  *)
(* page can only panic while the handler that made the row stands before    *)
(* its next insert, or was cut off there; and the index, which expects a    *)
(* job of every active run, only once an operator has asked for a rerun.    *)
PagesRender ==
  /\ \A c \in CommitIds : CommitPagePanics(c) =>
       \E h \in Handlers : commit[h] = c /\ (pc[h] \in {"job", "run"} \/ CutOff(h))
  /\ \A j \in JobIds : SummaryPanics(j) =>
       \E h \in Handlers : job[h] = j /\ (pc[h] = "run" \/ CutOff(h))
  /\ IndexPanics => reruns > 0

(* 200 "ok" is the answer to every push that is not cut short. *)
Answered(p) == pc[p] \in {"done", "refused"}

(* The handler that made the commit's rows was cut off before its new_run.  *)
LeftUnbuilt(sha) == \E h \in Handlers :
  /\ ShaOf[h] = sha /\ commit[h] # 0 /\ CutOff(h)
  /\ job[h] = 0 \/ RunsOf(job[h]) = {}

(* "commit already exists": an answered push to a remote of ours has a run  *)
(* for its commit, or relies on another handler, which is on its way to one *)
(* or was cut off before it.  The answer does not tell these apart, nor     *)
(* from a push that was refused, for which there is nothing.  And a push    *)
(* with an email is answered unless it was cut off itself.                  *)
PushIsQueued == \A p \in Pushes :
  /\ Answered(p) => \/ OnItsWay(ShaOf[p])
                    \/ LeftUnbuilt(ShaOf[p])
                    \/ p \notin Registered
  /\ pc[p] = "dead" => CutOff(p) \/ ~HasEmail(p)

(* "rerunning job {} (commit {})": a run queued by rerun-commit is a run of *)
(* a job of that commit.                                                    *)
RerunsBuildTheirCommit == \A r \in DOMAIN runs : runs[r].asked # None =>
  /\ runs[r].job \in JobIds
  /\ commits[jobs[runs[r].job].commit] = runs[r].asked
==============================================================================
