---------------------------- MODULE Intake_proofs ----------------------------
(****************************************************************************)
(* What is proved of Intake for any webhooks and commands, any commits,     *)
(* pushers and refs, any reruns and any number of faults.                   *)
(****************************************************************************)
EXTENDS Intake, TLAPS

(* A commit has one row, and the handlers that have its id were told of it. *)
ShasDiffer == \A c, d \in CommitIds : commits[c] = commits[d] => c = d

CommitsOfHandlers == \A h \in Handlers :
  /\ commit[h] # 0 => commits[commit[h]] = ShaOf[h]
  /\ commit[h] = 0 => pc[h] \in {"received", "commit", "refused", "dead"}
  /\ pc[h] \in {"received", "commit"} => commit[h] = 0

(* A handler has a job from its insert on, and that job is of its commit.   *)
JobsOfHandlers == \A h \in Handlers :
  /\ job[h] # 0 => commit[h] # 0
  /\ pc[h] = "run" => job[h] # 0
  /\ pc[h] \in {"received", "commit", "job"} => job[h] = 0

JobsHaveCommits == \A j \in JobIds : jobs[j].commit \in CommitIds

(* Whoever is about to insert a job has just inserted its commit: nobody    *)
(* else is, and it has no job.                                              *)
MakersAreAlone == \A h \in Handlers : pc[h] = "job" =>
  /\ \A j \in JobIds : jobs[j].commit # commit[h]
  /\ \A g \in Handlers : pc[g] = "job" /\ commit[g] = commit[h] => g = h

(* A commit without a job, and a job without a run, are those of a handler  *)
(* that is about to insert one, or was cut off.                             *)
CommitsGetJobs == \A c \in CommitIds : JobsOf(c) = {} =>
  \E h \in Handlers : commit[h] = c /\ (pc[h] = "job" \/ CutOff(h))

JobsGetRuns == \A j \in JobIds : RunsOf(j) = {} =>
  \E h \in Handlers : job[h] = j /\ (pc[h] = "run" \/ CutOff(h))

NamesHaveCommits == \A n \in names : n[1] \in CommitIds

DeadPushes == \A p \in Pushes : pc[p] = "dead" => CutOff(p) \/ ~HasEmail(p)

CommitInv == ShasDiffer /\ CommitsOfHandlers
JobInv == /\ JobsOfHandlers /\ JobsHaveCommits /\ OneJobPerCommit
          /\ JobsBuildTheirPush /\ MakersAreAlone
NameInv == NamesHaveCommits /\ NamesFollowPushes
ProgressInv == CommitsGetJobs /\ JobsGetRuns /\ DeadPushes /\ (IndexPanics => reruns > 0)

Inv == TypeOK /\ CommitInv /\ JobInv /\ NameInv /\ ProgressInv

------------------------------------------------------------------------------

(* A row more, with the next id. *)
LEMMA AppendFacts ==
  ASSUME NEW S, NEW s \in Seq(S), NEW e \in S
  PROVE  /\ Append(s, e) \in Seq(S)
         /\ Len(s) \in Nat /\ Len(Append(s, e)) = Len(s) + 1
         /\ DOMAIN s = 1..Len(s) /\ DOMAIN Append(s, e) = 1..(Len(s) + 1)
         /\ \A i \in DOMAIN s : Append(s, e)[i] = s[i]
         /\ Append(s, e)[Len(s) + 1] = e
OBVIOUS

(* At the start there are no rows. *)
LEMMA InvInit == Init => Inv
<1> SUFFICES ASSUME Init PROVE Inv
  OBVIOUS
<1>1. CommitIds = {} /\ JobIds = {} /\ DOMAIN runs = {}
  BY DEF Init, CommitIds, JobIds
<1>2. TypeOK
  <2>1. commits \in Seq(Shas) /\ names \subseteq Nat \X {RefOf[p] : p \in Pushes}
    BY DEF Init
  <2>2. /\ jobs \in Seq([commit : Nat, source : {SourceOf[h] : h \in Handlers}])
        /\ runs \in Seq([job : Nat, asked : Shas \cup {None}])
    BY DEF Init
  <2>3. /\ pc \in [Handlers -> Steps \cup Ends]
        /\ commit \in [Handlers -> 0..Len(commits)] /\ job \in [Handlers -> 0..Len(jobs)]
    BY DEF Init, Steps, Ends
  <2>4. reruns \in 0..MaxReruns /\ faults \in 0..MaxFaults
    BY IntakeBounds DEF Init
  <2>5. poisoned \in BOOLEAN
    BY DEF Init
  <2> QED BY <2>1, <2>2, <2>3, <2>4, <2>5 DEF TypeOK
<1>3. CommitInv /\ JobInv /\ NameInv
  BY <1>1 DEF Init, CommitInv, ShasDiffer, CommitsOfHandlers, JobInv, JobsOfHandlers,
     JobsHaveCommits, OneJobPerCommit, JobsBuildTheirPush, MakersAreAlone, NameInv,
     NamesHaveCommits, NamesFollowPushes
<1>4. ProgressInv
  BY <1>1 DEF Init, ProgressInv, CommitsGetJobs, JobsGetRuns, DeadPushes, IndexPanics, Handlers
<1> QED BY <1>2, <1>3, <1>4 DEF Inv

(* A handler that goes on, or ends, without inserting a row. *)
Proceeds(h) == \/ pc'[h] = pc[h]
               \/ pc[h] = "received" /\ pc'[h] \in {"commit", "refused"}
               \/ pc[h] = "notify" /\ pc'[h] = "name"
Ended(h) == /\ pc'[h] = "dead"
            /\ \/ poisoned' \/ faults' > 0
               \/ pc[h] \in {"received", "commit"} /\ (h \in Pushes => ~HasEmail(h))

LEMMA MoveStep ==
  ASSUME Inv, UNCHANGED <<rows, commit, job, reruns>>,
         pc' \in [Handlers -> Steps \cup Ends],
         \A h \in Handlers : Proceeds(h) \/ Ended(h),
         poisoned' \in BOOLEAN, faults' \in 0..MaxFaults,
         poisoned \/ faults > 0 => poisoned' \/ faults' > 0
  PROVE  Inv'
<1>1. TypeOK'
  BY DEF Inv, TypeOK, rows, Handlers, Shas
<1>2. CommitInv'
  BY DEF Inv, CommitInv, ShasDiffer, CommitsOfHandlers, rows, CommitIds, Proceeds, Ended
<1>3. \A h \in Handlers : /\ pc'[h] = "job" => pc[h] = "job"
                          /\ pc'[h] = "run" => pc[h] = "run"
                          /\ pc'[h] \in {"received", "commit"} => pc[h] \in {"received", "commit"}
  BY DEF Proceeds, Ended
<1>4. /\ JobIds' = JobIds /\ CommitIds' = CommitIds
      /\ \A c : JobsOf(c)' = JobsOf(c)
      /\ \A j : RunsOf(j)' = RunsOf(j)
  BY DEF rows, JobIds, CommitIds, JobsOf, RunsOf
<1>5. JobInv'
  <2>1. JobsOfHandlers'
    BY <1>3 DEF Inv, JobInv, JobsOfHandlers
  <2>2. JobsHaveCommits' /\ OneJobPerCommit' /\ JobsBuildTheirPush'
    BY <1>4 DEF Inv, JobInv, JobsHaveCommits, OneJobPerCommit, JobsBuildTheirPush, rows
  <2>3. MakersAreAlone'
    BY <1>3, <1>4 DEF Inv, JobInv, MakersAreAlone, rows
  <2> QED BY <2>1, <2>2, <2>3 DEF JobInv
<1>6. NameInv'
  BY <1>4 DEF Inv, NameInv, NamesHaveCommits, NamesFollowPushes, rows
<1>7. ProgressInv'
  <2>1. \A h \in Handlers : CutOff(h) => CutOff(h)'
    BY DEF CutOff, Proceeds, Ended
  <2>2. \A h \in Handlers : pc[h] \in {"job", "run"} => pc'[h] = pc[h] \/ CutOff(h)'
    BY DEF CutOff, Proceeds, Ended
  <2>3. CommitsGetJobs' /\ JobsGetRuns'
    BY <1>4, <2>1, <2>2 DEF Inv, ProgressInv, CommitsGetJobs, JobsGetRuns
  <2>4. DeadPushes'
    <3> SUFFICES ASSUME NEW p \in Pushes, pc'[p] = "dead" PROVE CutOff(p)' \/ ~HasEmail(p)
      BY DEF DeadPushes, HasEmail
    <3>1. p \in Handlers
      BY DEF Handlers
    <3>2. CASE pc[p] = "dead"
      BY <2>1, <3>1, <3>2 DEF Inv, ProgressInv, DeadPushes
    <3>3. CASE pc[p] # "dead"
      BY <3>1, <3>3 DEF Proceeds, Ended, CutOff
    <3> QED BY <3>2, <3>3
  <2>5. IndexPanics' => reruns' > 0
    BY <1>4 DEF Inv, ProgressInv, IndexPanics, rows
  <2> QED BY <2>3, <2>4, <2>5 DEF ProgressInv
<1> QED BY <1>1, <1>2, <1>5, <1>6, <1>7 DEF Inv

(* A known commit: the push has only a name to give. *)
LEMMA LookupStep ==
  ASSUME Inv, NEW p \in Pushes, LookupCommit(p)
  PROVE  Inv'
<1>1. p \in Handlers /\ pc[p] = "received" /\ UNCHANGED <<rows, poisoned, job, reruns, faults>>
  BY DEF LookupCommit, At, Handlers
<1>2. pc \in [Handlers -> Steps \cup Ends] /\ commit \in [Handlers -> 0..Len(commits)]
  BY DEF Inv, TypeOK
<1>3. ASSUME NEW x \in {"commit", "refused"}, Goto(p, x), UNCHANGED commit
      PROVE  Inv'
  <2>1. pc' \in [Handlers -> Steps \cup Ends] /\ \A h \in Handlers : Proceeds(h)
    BY <1>1, <1>2, <1>3 DEF Goto, Proceeds, Steps, Ends
  <2> QED BY <1>1, <1>3, <2>1, MoveStep DEF Inv, TypeOK
<1>4. ASSUME NEW c \in CommitIds, commits[c] = ShaOf[p], commit' = [commit EXCEPT ![p] = c],
             Goto(p, "name")
      PROVE  Inv'
  <2>1. /\ pc' = [pc EXCEPT ![p] = "name"] /\ pc'[p] = "name" /\ commit'[p] = c
        /\ \A h \in Handlers : h # p => pc'[h] = pc[h] /\ commit'[h] = commit[h]
    BY <1>1, <1>2, <1>4 DEF Goto
  <2>2. c \in 1..Len(commits) /\ Len(commits) \in Nat
    BY DEF CommitIds, Inv, TypeOK
  <2>3. TypeOK'
    <3>1. pc' \in [Handlers -> Steps \cup Ends]
      BY <1>2, <2>1 DEF Steps
    <3>2. c \in 0..Len(commits)
      BY <2>2
    <3>3. commit' \in [Handlers -> 0..Len(commits)]
      BY <1>2, <1>4, <3>2
    <3> QED BY <1>1, <3>1, <3>3 DEF Inv, TypeOK, rows
  <2>4. /\ JobIds' = JobIds /\ CommitIds' = CommitIds
        /\ \A x : JobsOf(x)' = JobsOf(x)
        /\ \A j : RunsOf(j)' = RunsOf(j)
    BY <1>1 DEF rows, JobIds, CommitIds, JobsOf, RunsOf
  <2>5. c # 0
    BY <2>2
  <2>6. CommitInv'
    BY <1>1, <1>4, <2>1, <2>4, <2>5 DEF Inv, CommitInv, ShasDiffer, CommitsOfHandlers, rows
  <2>7. job[p] = 0
    BY <1>1 DEF Inv, JobInv, JobsOfHandlers
  <2>8. JobInv'
    <3>1. JobsOfHandlers'
      BY <1>1, <2>1, <2>7 DEF Inv, JobInv, JobsOfHandlers
    <3>2. JobsHaveCommits' /\ OneJobPerCommit'
      BY <1>1, <2>4 DEF Inv, JobInv, JobsHaveCommits, OneJobPerCommit, rows
    <3>3. JobsBuildTheirPush'
      BY <1>1, <2>1, <2>7 DEF Inv, JobInv, JobsBuildTheirPush, rows
    <3>4. MakersAreAlone'
      BY <1>1, <2>1, <2>4 DEF Inv, JobInv, MakersAreAlone, rows
    <3> QED BY <3>1, <3>2, <3>3, <3>4 DEF JobInv
  <2>9. NameInv'
    BY <1>1, <2>4 DEF Inv, NameInv, NamesHaveCommits, NamesFollowPushes, rows
  <2>10. ProgressInv'
    <3>1. \A h \in Handlers : CutOff(h) => h # p /\ CutOff(h)'
      BY <1>1, <2>1 DEF CutOff
    <3>2. CommitsGetJobs' /\ JobsGetRuns'
      BY <1>1, <2>1, <2>4, <3>1 DEF Inv, ProgressInv, CommitsGetJobs, JobsGetRuns
    <3>3. DeadPushes'
      BY <1>1, <2>1, <3>1 DEF Inv, ProgressInv, DeadPushes, HasEmail, Handlers
    <3>4. IndexPanics' => reruns' > 0
      BY <1>1, <2>4 DEF Inv, ProgressInv, IndexPanics, rows
    <3> QED BY <3>2, <3>3, <3>4 DEF ProgressInv
  <2> QED BY <2>3, <2>6, <2>8, <2>9, <2>10 DEF Inv
<1> QED BY <1>3, <1>4 DEF LookupCommit

(* A commit's row, which nobody had: its id is new to every handler. *)
LEMMA InsertCommitStep ==
  ASSUME Inv, NEW h \in Handlers, pc[h] = "commit",
         \A c \in CommitIds : commits[c] # ShaOf[h],
         commits' = Append(commits, ShaOf[h]),
         commit' = [commit EXCEPT ![h] = Len(commits')],
         Goto(h, "job"),
         UNCHANGED <<jobs, runs, names, poisoned, job, reruns, faults>>
  PROVE  Inv'
<1> DEFINE n == Len(commits) + 1
<1>1. /\ commits \in Seq(Shas) /\ ShaOf[h] \in Shas
      /\ pc \in [Handlers -> Steps \cup Ends] /\ commit \in [Handlers -> 0..Len(commits)]
  BY DEF Inv, TypeOK, Shas
<1>2. /\ commits' \in Seq(Shas) /\ Len(commits) \in Nat /\ Len(commits') = n
      /\ CommitIds = 1..Len(commits) /\ CommitIds' = 1..n
      /\ \A c \in CommitIds : commits'[c] = commits[c]
      /\ commits'[n] = ShaOf[h]
  BY <1>1, AppendFacts DEF CommitIds
<1>3. n \notin CommitIds /\ n # 0 /\ CommitIds' = CommitIds \cup {n}
  BY <1>2
<1>4. /\ pc'[h] = "job" /\ commit'[h] = n
      /\ \A g \in Handlers : g # h => pc'[g] = pc[g] /\ commit'[g] = commit[g]
  BY <1>1, <1>2 DEF Goto
<1>5. \A g \in Handlers : commit[g] # 0 => commit[g] \in CommitIds
  BY <1>1, <1>2
<1>6. TypeOK'
  <2>1. pc' \in [Handlers -> Steps \cup Ends]
    BY <1>1 DEF Goto, Steps
  <2>2. commit' \in [Handlers -> 0..Len(commits')]
    <3>1. 0..Len(commits) \subseteq 0..n /\ n \in 0..n
      BY <1>2
    <3> QED BY <1>1, <1>2, <3>1
  <2> QED BY <1>2, <2>1, <2>2 DEF Inv, TypeOK
<1>7. CommitInv'
  <2>1. ShasDiffer'
    BY <1>2, <1>3 DEF Inv, CommitInv, ShasDiffer
  <2>2. CommitsOfHandlers'
    BY <1>2, <1>3, <1>4, <1>5 DEF Inv, CommitInv, CommitsOfHandlers
  <2> QED BY <2>1, <2>2 DEF CommitInv
<1>8. JobIds' = JobIds /\ \A j : RunsOf(j)' = RunsOf(j) /\ JobsOf(j)' = JobsOf(j)
  BY DEF JobIds, JobsOf, RunsOf
<1>9. \A j \in JobIds : jobs[j].commit # n
  BY <1>3 DEF Inv, JobInv, JobsHaveCommits
<1>10. job[h] = 0
  BY DEF Inv, JobInv, JobsOfHandlers
<1>11. JobInv'
  <2>1. JobsOfHandlers'
    BY <1>3, <1>4, <1>10 DEF Inv, JobInv, JobsOfHandlers
  <2>2. JobsHaveCommits' /\ OneJobPerCommit'
    BY <1>3, <1>8 DEF Inv, JobInv, JobsHaveCommits, OneJobPerCommit
  <2>3. JobsBuildTheirPush'
    <3> SUFFICES ASSUME NEW g \in Handlers, job[g] # 0
                 PROVE  /\ jobs[job[g]] = [commit |-> commit'[g], source |-> SourceOf[g]]
                        /\ commits'[commit'[g]] = ShaOf[g]
      BY DEF JobsBuildTheirPush
    <3>1. g # h /\ commit'[g] = commit[g] /\ commit[g] # 0
      BY <1>4, <1>10 DEF Inv, JobInv, JobsOfHandlers
    <3>2. commits'[commit[g]] = commits[commit[g]]
      BY <1>2, <1>5, <3>1
    <3> QED BY <3>1, <3>2 DEF Inv, JobInv, JobsBuildTheirPush
  <2>4. MakersAreAlone'
    <3> SUFFICES ASSUME NEW g \in Handlers, pc'[g] = "job"
                 PROVE  /\ \A j \in JobIds : jobs[j].commit # commit'[g]
                        /\ \A k \in Handlers : pc'[k] = "job" /\ commit'[k] = commit'[g] => k = g
      BY <1>8 DEF MakersAreAlone
    <3>1. \A k \in Handlers : k # h => commit'[k] # n
      BY <1>3, <1>4, <1>5
    <3>2. CASE g = h
      BY <1>4, <1>9, <3>1, <3>2
    <3>3. CASE g # h
      BY <1>4, <3>1, <3>3 DEF Inv, JobInv, MakersAreAlone
    <3> QED BY <3>2, <3>3
  <2> QED BY <2>1, <2>2, <2>3, <2>4 DEF JobInv
<1>12. NameInv'
  BY <1>2, <1>3 DEF Inv, NameInv, NamesHaveCommits, NamesFollowPushes
<1>13. ProgressInv'
  <2>1. \A g \in Handlers : CutOff(g) => g # h /\ CutOff(g)'
    BY <1>4 DEF CutOff
  <2>2. CommitsGetJobs'
    BY <1>3, <1>4, <1>8, <2>1 DEF Inv, ProgressInv, CommitsGetJobs
  <2>3. JobsGetRuns'
    BY <1>4, <1>8, <2>1 DEF Inv, ProgressInv, JobsGetRuns
  <2>4. DeadPushes'
    BY <1>4, <2>1 DEF Inv, ProgressInv, DeadPushes, HasEmail, Handlers
  <2>5. IndexPanics' => reruns' > 0
    BY <1>8 DEF Inv, ProgressInv, IndexPanics
  <2> QED BY <2>2, <2>3, <2>4, <2>5 DEF ProgressInv
<1> QED BY <1>6, <1>7, <1>11, <1>12, <1>13 DEF Inv

(* A job's row, for a commit that has none. *)
LEMMA InsertJobStep ==
  ASSUME Inv, NEW h \in Handlers, NewJob(h)
  PROVE  Inv'
<1> DEFINE n == Len(jobs) + 1
           row == [commit |-> commit[h], source |-> SourceOf[h]]
<1>1. /\ pc[h] = "job" /\ jobs' = Append(jobs, row) /\ Goto(h, "run")
      /\ job' = [job EXCEPT ![h] = Len(jobs')]
      /\ UNCHANGED <<commits, runs, names, poisoned, commit, reruns, faults>>
  BY DEF NewJob, At
<1>2. /\ jobs \in Seq([commit : Nat, source : {SourceOf[g] : g \in Handlers}])
      /\ Len(commits) \in Nat /\ CommitIds = 1..Len(commits)
      /\ pc \in [Handlers -> Steps \cup Ends] /\ commit \in [Handlers -> 0..Len(commits)]
      /\ job \in [Handlers -> 0..Len(jobs)]
  BY DEF Inv, TypeOK, CommitIds
<1>3. /\ commit[h] # 0 /\ commit[h] \in CommitIds /\ commits[commit[h]] = ShaOf[h]
      /\ job[h] = 0
  <2>1. commit[h] # 0 /\ commits[commit[h]] = ShaOf[h]
    BY <1>1 DEF Inv, CommitInv, CommitsOfHandlers
  <2>2. job[h] = 0
    BY <1>1 DEF Inv, JobInv, JobsOfHandlers
  <2>3. commit[h] \in 0..Len(commits)
    BY <1>2
  <2> QED BY <1>2, <2>1, <2>2, <2>3
<1>4. row \in [commit : Nat, source : {SourceOf[g] : g \in Handlers}]
  BY <1>2, <1>3
<1>5. /\ jobs' \in Seq([commit : Nat, source : {SourceOf[g] : g \in Handlers}])
      /\ Len(jobs) \in Nat /\ Len(jobs') = n
      /\ JobIds = 1..Len(jobs) /\ JobIds' = 1..n
      /\ \A j \in JobIds : jobs'[j] = jobs[j]
      /\ jobs'[n] = row
  <2> DEFINE Rows == [commit : Nat, source : {SourceOf[g] : g \in Handlers}]
  <2>1. jobs \in Seq(Rows) /\ row \in Rows
    BY <1>2, <1>4
  <2> HIDE DEF Rows, row
  <2>2. /\ Append(jobs, row) \in Seq(Rows)
        /\ Len(jobs) \in Nat /\ Len(Append(jobs, row)) = n
        /\ DOMAIN jobs = 1..Len(jobs) /\ DOMAIN Append(jobs, row) = 1..n
        /\ \A i \in DOMAIN jobs : Append(jobs, row)[i] = jobs[i]
        /\ Append(jobs, row)[n] = row
    BY <2>1, AppendFacts
  <2> QED BY <1>1, <2>2 DEF JobIds, Rows
<1>6. n \notin JobIds /\ n # 0 /\ JobIds' = JobIds \cup {n} /\ row.commit = commit[h]
  BY <1>5
<1>7. /\ pc'[h] = "run" /\ job'[h] = n
      /\ \A g \in Handlers : g # h => pc'[g] = pc[g] /\ job'[g] = job[g]
  BY <1>1, <1>2, <1>5 DEF Goto
<1>8. \A g \in Handlers : job[g] # 0 => job[g] \in JobIds
  BY <1>2, <1>5
<1>9. TypeOK'
  <2>1. pc' \in [Handlers -> Steps \cup Ends]
    BY <1>1, <1>2 DEF Goto, Steps
  <2>2. 0..Len(jobs) \subseteq 0..n /\ n \in 0..n
    BY <1>5
  <2>3. job' \in [Handlers -> 0..Len(jobs')]
    BY <1>1, <1>2, <1>5, <2>2
  <2> QED BY <1>1, <1>5, <2>1, <2>3 DEF Inv, TypeOK
<1>10. CommitIds' = CommitIds /\ \A j : RunsOf(j)' = RunsOf(j)
  BY <1>1 DEF CommitIds, RunsOf
<1>11. CommitInv'
  BY <1>1, <1>3, <1>7, <1>10 DEF Inv, CommitInv, ShasDiffer, CommitsOfHandlers
<1>12. \A j \in JobIds : jobs[j].commit # commit[h]
  BY <1>1 DEF Inv, JobInv, MakersAreAlone
<1>13. JobInv'
  <2>1. JobsOfHandlers'
    BY <1>1, <1>3, <1>6, <1>7 DEF Inv, JobInv, JobsOfHandlers
  <2>2. JobsHaveCommits'
    BY <1>3, <1>5, <1>6, <1>10 DEF Inv, JobInv, JobsHaveCommits
  <2>3. OneJobPerCommit'
    <3>1. \A i, j \in JobIds : jobs[i].commit = jobs[j].commit => i = j
      BY DEF Inv, JobInv, OneJobPerCommit
    <3>2. /\ jobs'[n].commit = commit[h]
          /\ \A j \in JobIds : jobs'[j].commit = jobs[j].commit
      BY <1>5, <1>6
    <3>3. \A i, j \in JobIds \cup {n} : jobs'[i].commit = jobs'[j].commit => i = j
      BY <1>12, <3>1, <3>2
    <3> QED BY <1>6, <3>3 DEF OneJobPerCommit
  <2>4. JobsBuildTheirPush'
    <3> SUFFICES ASSUME NEW g \in Handlers, job'[g] # 0
                 PROVE  /\ jobs'[job'[g]] = [commit |-> commit[g], source |-> SourceOf[g]]
                        /\ commits[commit[g]] = ShaOf[g]
      BY <1>1 DEF JobsBuildTheirPush
    <3>1. CASE g = h
      BY <1>3, <1>5, <1>7, <3>1
    <3>2. CASE g # h
      <4>1. job'[g] = job[g] /\ job[g] # 0
        BY <1>7, <3>2
      <4>2. /\ jobs[job[g]] = [commit |-> commit[g], source |-> SourceOf[g]]
            /\ commits[commit[g]] = ShaOf[g]
        BY <4>1 DEF Inv, JobInv, JobsBuildTheirPush
      <4>3. jobs'[job[g]] = jobs[job[g]]
        BY <1>5, <1>8, <4>1
      <4> QED BY <4>1, <4>2, <4>3
    <3> QED BY <3>1, <3>2
  <2>5. MakersAreAlone'
    <3> SUFFICES ASSUME NEW g \in Handlers, pc'[g] = "job"
                 PROVE  /\ \A j \in JobIds' : jobs'[j].commit # commit[g]
                        /\ \A k \in Handlers : pc'[k] = "job" /\ commit[k] = commit[g] => k = g
      BY <1>1 DEF MakersAreAlone
    <3>1. g # h /\ pc[g] = "job" /\ commit[g] # commit[h]
      BY <1>1, <1>7 DEF Inv, JobInv, MakersAreAlone
    <3>2. \A j \in JobIds' : jobs'[j].commit # commit[g]
      BY <1>5, <1>6, <3>1 DEF Inv, JobInv, MakersAreAlone
    <3> QED BY <1>7, <3>1, <3>2 DEF Inv, JobInv, MakersAreAlone
  <2> QED BY <2>1, <2>2, <2>3, <2>4, <2>5 DEF JobInv
<1>14. NameInv'
  BY <1>1, <1>10 DEF Inv, NameInv, NamesHaveCommits, NamesFollowPushes
<1>15. ProgressInv'
  <2>1. \A g \in Handlers : CutOff(g) => g # h /\ CutOff(g)'
    BY <1>1, <1>7 DEF CutOff
  <2>2. CommitsGetJobs'
    <3> SUFFICES ASSUME NEW c \in CommitIds, JobsOf(c)' = {}
                 PROVE  \E g \in Handlers : commit'[g] = c /\ (pc'[g] = "job" \/ CutOff(g)')
      BY <1>10 DEF CommitsGetJobs
    <3>1. c # commit[h] /\ JobsOf(c) = {}
      BY <1>5, <1>6 DEF JobsOf
    <3>2. PICK g \in Handlers : commit[g] = c /\ (pc[g] = "job" \/ CutOff(g))
      BY <3>1 DEF Inv, ProgressInv, CommitsGetJobs
    <3> QED BY <1>1, <1>7, <2>1, <3>1, <3>2
  <2>3. JobsGetRuns'
    <3> SUFFICES ASSUME NEW j \in JobIds', RunsOf(j) = {}
                 PROVE  \E g \in Handlers : job'[g] = j /\ (pc'[g] = "run" \/ CutOff(g)')
      BY <1>10 DEF JobsGetRuns
    <3>1. CASE j = n
      BY <1>7, <3>1
    <3>2. CASE j \in JobIds
      <4>1. PICK g \in Handlers : job[g] = j /\ (pc[g] = "run" \/ CutOff(g))
        BY <3>2 DEF Inv, ProgressInv, JobsGetRuns
      <4>2. g # h
        BY <1>1, <2>1, <4>1
      <4> QED BY <1>7, <2>1, <4>1, <4>2
    <3> QED BY <1>6, <3>1, <3>2
  <2>4. DeadPushes'
    BY <1>7, <2>1 DEF Inv, ProgressInv, DeadPushes, HasEmail, Handlers
  <2>5. IndexPanics' => reruns' > 0
    BY <1>1, <1>6 DEF Inv, ProgressInv, IndexPanics
  <2> QED BY <2>2, <2>3, <2>4, <2>5 DEF ProgressInv
<1> QED BY <1>9, <1>11, <1>13, <1>14, <1>15 DEF Inv

(* A run's row, by a handler or by a rerun. *)
LEMMA InsertRunFacts ==
  ASSUME Inv, NEW j \in Nat, NEW sha \in Shas \cup {None}, InsertRun(j, sha)
  PROVE  /\ runs' \in Seq([job : Nat, asked : Shas \cup {None}])
         /\ RunsOf(j)' # {}
         /\ \A i : RunsOf(i) \subseteq RunsOf(i)'
         /\ \A r \in DOMAIN runs' : runs'[r].job = j \/ (r \in DOMAIN runs /\ runs'[r] = runs[r])
<1> DEFINE n == Len(runs) + 1
<1>1. /\ runs \in Seq([job : Nat, asked : Shas \cup {None}])
      /\ [job |-> j, asked |-> sha] \in [job : Nat, asked : Shas \cup {None}]
  BY DEF Inv, TypeOK
<1>2. /\ runs' \in Seq([job : Nat, asked : Shas \cup {None}])
      /\ Len(runs) \in Nat /\ DOMAIN runs = 1..Len(runs) /\ DOMAIN runs' = 1..n
      /\ \A r \in DOMAIN runs : runs'[r] = runs[r]
      /\ runs'[n] = [job |-> j, asked |-> sha]
  BY <1>1, AppendFacts DEF InsertRun
<1>3. DOMAIN runs' = DOMAIN runs \cup {n} /\ runs'[n].job = j
  BY <1>2
<1>4. RunsOf(j)' # {}
  <2>1. n \in {r \in DOMAIN runs' : runs'[r].job = j}
    BY <1>3
  <2> QED BY <2>1 DEF RunsOf
<1>5. \A i : RunsOf(i) \subseteq RunsOf(i)'
  BY <1>2, <1>3 DEF RunsOf
<1> QED BY <1>2, <1>3, <1>4, <1>5

(* The rest of the invariant does not look at runs. *)
LEMMA RunsFrame ==
  ASSUME Inv, NEW j \in Nat, NEW sha \in Shas \cup {None}, InsertRun(j, sha),
         UNCHANGED <<commits, jobs, names, poisoned, commit, job, faults>>,
         pc' \in [Handlers -> Steps \cup Ends], reruns' \in 0..MaxReruns
  PROVE  /\ TypeOK' /\ ShasDiffer' /\ JobsHaveCommits' /\ OneJobPerCommit'
         /\ JobsBuildTheirPush' /\ NameInv'
         /\ \A c : JobsOf(c)' = JobsOf(c)
<1>1. TypeOK'
  BY InsertRunFacts DEF Inv, TypeOK
<1>2. CommitIds' = CommitIds /\ JobIds' = JobIds /\ \A c : JobsOf(c)' = JobsOf(c)
  BY DEF CommitIds, JobIds, JobsOf
<1>3. ShasDiffer' /\ JobsHaveCommits' /\ OneJobPerCommit' /\ JobsBuildTheirPush'
  BY <1>2 DEF Inv, CommitInv, JobInv, ShasDiffer, JobsHaveCommits, OneJobPerCommit,
     JobsBuildTheirPush
<1>4. NameInv'
  BY <1>2 DEF Inv, NameInv, NamesHaveCommits, NamesFollowPushes
<1> QED BY <1>1, <1>2, <1>3, <1>4

(* The run of a handler's own job. *)
LEMMA InsertRunStep ==
  ASSUME Inv, NEW h \in Handlers, NewRun(h)
  PROVE  Inv'
<1> DEFINE next == IF h \in Pushes THEN "notify" ELSE "done"
<1>1. /\ pc[h] = "run" /\ InsertRun(job[h], None) /\ Goto(h, next)
      /\ UNCHANGED <<commits, jobs, names, poisoned, commit, job, reruns, faults>>
  BY DEF NewRun, At
<1>2. /\ pc \in [Handlers -> Steps \cup Ends] /\ job \in [Handlers -> 0..Len(jobs)]
      /\ Len(jobs) \in Nat /\ JobIds = 1..Len(jobs) /\ reruns \in 0..MaxReruns
  BY DEF Inv, TypeOK, JobIds
<1>3. job[h] # 0 /\ job[h] \in 0..Len(jobs)
  BY <1>1, <1>2 DEF Inv, JobInv, JobsOfHandlers
<1>4. job[h] \in Nat /\ job[h] \in JobIds
  BY <1>2, <1>3
<1>5. /\ pc'[h] = next
      /\ \A g \in Handlers : g # h => pc'[g] = pc[g]
      /\ pc' \in [Handlers -> Steps \cup Ends]
  BY <1>1, <1>2 DEF Goto, Steps, Ends
<1>6. /\ TypeOK' /\ ShasDiffer' /\ JobsHaveCommits' /\ OneJobPerCommit'
      /\ JobsBuildTheirPush' /\ NameInv'
      /\ \A c : JobsOf(c)' = JobsOf(c)
  BY <1>1, <1>2, <1>4, <1>5, RunsFrame
<1>7. CommitsOfHandlers' /\ JobsOfHandlers'
  <2>1. commit[h] # 0
    BY <1>1 DEF Inv, CommitInv, CommitsOfHandlers
  <2> QED BY <1>1, <1>3, <1>5, <2>1 DEF Inv, CommitInv, CommitsOfHandlers, JobInv, JobsOfHandlers
<1>8. MakersAreAlone'
  BY <1>1, <1>5 DEF Inv, JobInv, MakersAreAlone, JobIds
<1>9. ProgressInv'
  <2>1. \A g \in Handlers : CutOff(g) => g # h /\ CutOff(g)'
    BY <1>1, <1>5 DEF CutOff
  <2>2. CommitsGetJobs'
    <3> SUFFICES ASSUME NEW c \in CommitIds, JobsOf(c) = {}
                 PROVE  \E g \in Handlers : commit[g] = c /\ (pc'[g] = "job" \/ CutOff(g)')
      BY <1>1, <1>6 DEF CommitsGetJobs, CommitIds
    <3>1. PICK g \in Handlers : commit[g] = c /\ (pc[g] = "job" \/ CutOff(g))
      BY DEF Inv, ProgressInv, CommitsGetJobs
    <3> QED BY <1>1, <1>5, <2>1, <3>1
  <2>3. JobsGetRuns'
    <3> SUFFICES ASSUME NEW j \in JobIds, RunsOf(j)' = {}
                 PROVE  \E g \in Handlers : job[g] = j /\ (pc'[g] = "run" \/ CutOff(g)')
      BY <1>1 DEF JobsGetRuns, JobIds
    <3>1. RunsOf(job[h])' # {} /\ RunsOf(j) \subseteq RunsOf(j)'
      BY <1>1, <1>4, InsertRunFacts
    <3>2. RunsOf(j) = {}
      BY <3>1
    <3>3. PICK g \in Handlers : job[g] = j /\ (pc[g] = "run" \/ CutOff(g))
      BY <3>2 DEF Inv, ProgressInv, JobsGetRuns
    <3>4. g # h
      <4>1. j # job[h]
        <5> SUFFICES ASSUME j = job[h] PROVE FALSE
          OBVIOUS
        <5>1. RunsOf(job[h])' = {r \in DOMAIN runs' : runs'[r].job = job'[h]}
          BY DEF RunsOf
        <5>2. RunsOf(j)' = {r \in DOMAIN runs' : runs'[r].job = j}
          BY DEF RunsOf
        <5> QED BY <1>1, <3>1, <5>1, <5>2
      <4> QED BY <3>3, <4>1
    <3> QED BY <1>5, <2>1, <3>3, <3>4
  <2>4. DeadPushes'
    BY <1>5, <2>1 DEF Inv, ProgressInv, DeadPushes, HasEmail, Handlers
  <2>5. IndexPanics' => reruns' > 0
    <3>1. \A r \in DOMAIN runs' : runs'[r].job = job[h] \/ (r \in DOMAIN runs /\ runs'[r] = runs[r])
      BY <1>1, <1>4, InsertRunFacts
    <3> QED BY <1>1, <1>4, <3>1 DEF Inv, ProgressInv, IndexPanics, JobIds
  <2> QED BY <2>2, <2>3, <2>4, <2>5 DEF ProgressInv
<1> QED BY <1>6, <1>7, <1>8, <1>9 DEF Inv, CommitInv, JobInv

(* A rerun, of any id. *)
LEMMA RerunStep ==
  ASSUME Inv, NEW j \in Nat, NEW sha \in Shas \cup {None}, InsertRun(j, sha),
         reruns < MaxReruns, reruns' = reruns + 1,
         UNCHANGED <<commits, jobs, names, poisoned, pc, commit, job, faults>>
  PROVE  Inv'
<1>1. reruns \in Nat /\ reruns' \in 0..MaxReruns /\ reruns' > 0
  BY IntakeBounds DEF Inv, TypeOK
<1>2. /\ TypeOK' /\ ShasDiffer' /\ JobsHaveCommits' /\ OneJobPerCommit'
      /\ JobsBuildTheirPush' /\ NameInv'
      /\ \A c : JobsOf(c)' = JobsOf(c)
  <2>1. pc' \in [Handlers -> Steps \cup Ends]
    BY DEF Inv, TypeOK
  <2> QED BY <1>1, <2>1, RunsFrame
<1>3. CommitsOfHandlers' /\ JobsOfHandlers' /\ MakersAreAlone'
  BY DEF Inv, CommitInv, CommitsOfHandlers, JobInv, JobsOfHandlers, MakersAreAlone, JobIds
<1>4. CommitsGetJobs'
  BY <1>2 DEF Inv, ProgressInv, CommitsGetJobs, CommitIds, CutOff
<1>5. JobsGetRuns'
  <2>1. \A i : RunsOf(i)' = {} => RunsOf(i) = {}
    BY InsertRunFacts
  <2> QED BY <2>1 DEF Inv, ProgressInv, JobsGetRuns, JobIds, CutOff
<1>6. DeadPushes'
  BY DEF Inv, ProgressInv, DeadPushes, HasEmail, CutOff
<1> QED BY <1>1, <1>2, <1>3, <1>4, <1>5, <1>6 DEF Inv, CommitInv, JobInv, ProgressInv

(* A name for the commit the push is about. *)
LEMMA NameStep ==
  ASSUME Inv, NEW p \in Pushes, NameCommit(p)
  PROVE  Inv'
<1>1. /\ p \in Handlers /\ pc[p] = "name" /\ Goto(p, "done")
      /\ names' = names \cup {<<commit[p], RefOf[p]>>}
      /\ UNCHANGED <<commits, jobs, runs, poisoned, commit, job, reruns, faults>>
  BY DEF NameCommit, At, Handlers
<1>2. /\ pc \in [Handlers -> Steps \cup Ends] /\ commit \in [Handlers -> 0..Len(commits)]
      /\ Len(commits) \in Nat /\ CommitIds = 1..Len(commits)
  BY DEF Inv, TypeOK, CommitIds
<1>3. commit[p] # 0 /\ commits[commit[p]] = ShaOf[p]
  BY <1>1 DEF Inv, CommitInv, CommitsOfHandlers
<1>4. commit[p] \in CommitIds /\ commit[p] \in Nat
  <2>1. commit[p] \in 0..Len(commits)
    BY <1>1, <1>2
  <2> QED BY <1>2, <1>3, <2>1
<1>5. /\ pc'[p] = "done"
      /\ \A g \in Handlers : g # p => pc'[g] = pc[g]
      /\ pc' \in [Handlers -> Steps \cup Ends]
  BY <1>1, <1>2 DEF Goto, Ends
<1>6. TypeOK'
  <2>1. names' \subseteq Nat \X {RefOf[q] : q \in Pushes}
    BY <1>1, <1>4 DEF Inv, TypeOK
  <2> QED BY <1>1, <1>5, <2>1 DEF Inv, TypeOK
<1>7. /\ JobIds' = JobIds /\ CommitIds' = CommitIds
      /\ \A c : JobsOf(c)' = JobsOf(c)
      /\ \A j : RunsOf(j)' = RunsOf(j)
  BY <1>1 DEF JobIds, CommitIds, JobsOf, RunsOf
<1>8. CommitInv'
  BY <1>1, <1>3, <1>5, <1>7 DEF Inv, CommitInv, ShasDiffer, CommitsOfHandlers
<1>9. JobInv'
  <2>1. JobsOfHandlers' /\ MakersAreAlone'
    BY <1>1, <1>5, <1>7 DEF Inv, JobInv, JobsOfHandlers, MakersAreAlone
  <2>2. JobsHaveCommits' /\ OneJobPerCommit' /\ JobsBuildTheirPush'
    BY <1>1, <1>7 DEF Inv, JobInv, JobsHaveCommits, OneJobPerCommit, JobsBuildTheirPush
  <2> QED BY <2>1, <2>2 DEF JobInv
<1>10. NameInv'
  <2> DEFINE new == <<commit[p], RefOf[p]>>
  <2>1. new[1] \in CommitIds /\ commits[new[1]] = ShaOf[p] /\ RefOf[p] = new[2]
    BY <1>3, <1>4
  <2>2. names' = names \cup {new}
    BY <1>1
  <2> QED BY <1>1, <1>7, <2>1, <2>2 DEF Inv, NameInv, NamesHaveCommits, NamesFollowPushes
<1>11. ProgressInv'
  <2>1. \A g \in Handlers : CutOff(g) => g # p /\ CutOff(g)'
    BY <1>1, <1>5 DEF CutOff
  <2>2. CommitsGetJobs' /\ JobsGetRuns'
    BY <1>1, <1>5, <1>7, <2>1 DEF Inv, ProgressInv, CommitsGetJobs, JobsGetRuns
  <2>3. DeadPushes'
    BY <1>1, <1>5, <2>1 DEF Inv, ProgressInv, DeadPushes, HasEmail, Handlers
  <2>4. IndexPanics' => reruns' > 0
    BY <1>1, <1>7 DEF Inv, ProgressInv, IndexPanics
  <2> QED BY <2>2, <2>3, <2>4 DEF ProgressInv
<1> QED BY <1>6, <1>8, <1>9, <1>10, <1>11 DEF Inv

(* new_commit inserts a row, or the handler is done for. *)
LEMMA CommitStep ==
  ASSUME Inv, NEW h \in Handlers, NewCommit(h)
  PROVE  Inv'
<1>1. /\ pc[h] = "commit" /\ (h \in Creates \/ ~poisoned)
      /\ UNCHANGED <<jobs, runs, names, job, reruns, faults>>
  BY DEF NewCommit, At, Locks
<1>2. CASE Goto(h, "job")
  BY <1>1, <1>2, InsertCommitStep DEF NewCommit, Goto, Inv, TypeOK
<1>3. CASE /\ Goto(h, "dead") /\ UNCHANGED <<commits, commit>>
           /\ \/ ~HasEmail(h) /\ UNCHANGED poisoned
              \/ poisoned' = (poisoned \/ h \in Pushes)
  <2>1. /\ pc' \in [Handlers -> Steps \cup Ends] /\ pc'[h] = "dead"
        /\ \A g \in Handlers : g # h => pc'[g] = pc[g]
    BY <1>3 DEF Goto, Inv, TypeOK, Ends
  <2>2. poisoned' \in BOOLEAN /\ (poisoned => poisoned') /\ (poisoned' \/ h \notin Pushes \/ ~HasEmail(h))
    <3>1. poisoned \in BOOLEAN
      BY DEF Inv, TypeOK
    <3>2. CASE ~HasEmail(h) /\ UNCHANGED poisoned
      BY <3>1, <3>2
    <3>3. CASE poisoned' = (poisoned \/ h \in Pushes)
      <4>1. CASE h \in Pushes
        BY <3>3, <4>1
      <4>2. CASE h \notin Pushes
        <5>1. poisoned' = poisoned
          BY <3>1, <3>3, <4>2
        <5> QED BY <3>1, <4>2, <5>1
      <4> QED BY <4>1, <4>2
    <3> QED BY <1>3, <3>2, <3>3
  <2>3. Ended(h)
    BY <1>1, <2>1, <2>2 DEF Ended
  <2>4. \A g \in Handlers : Proceeds(g) \/ Ended(g)
    BY <2>1, <2>3 DEF Proceeds
  <2>5. faults' \in 0..MaxFaults /\ (poisoned \/ faults > 0 => poisoned' \/ faults' > 0)
    BY <1>1, <2>2 DEF Inv, TypeOK
  <2> QED BY <1>1, <1>3, <2>1, <2>2, <2>4, <2>5, MoveStep DEF rows
<1> QED BY <1>2, <1>3 DEF NewCommit

(* A handler moves on, or is stopped by a fault or the poisoned mutex. *)
LEMMA HandlerMoves ==
  ASSUME Inv, NEW h \in Handlers,
         \/ Notify(h) \/ NotifyFails(h) \/ Panic(h) \/ CtlKilled(h)
  PROVE  Inv'
<1>1. pc \in [Handlers -> Steps \cup Ends] /\ faults \in 0..MaxFaults /\ poisoned \in BOOLEAN
  BY DEF Inv, TypeOK
<1>2. UNCHANGED <<rows, commit, job, reruns>> /\ poisoned' = poisoned
  BY DEF Notify, NotifyFails, Panic, CtlKilled
<1>3. CASE Notify(h)
  <2>1. pc' \in [Handlers -> Steps \cup Ends] /\ \A g \in Handlers : Proceeds(g)
    BY <1>1, <1>3 DEF Notify, At, Goto, Proceeds, Steps
  <2> QED BY <1>1, <1>2, <1>3, <2>1, MoveStep DEF Notify
<1>4. CASE Panic(h)
  <2>1. pc' \in [Handlers -> Steps \cup Ends] /\ \A g \in Handlers : Proceeds(g) \/ Ended(g)
    BY <1>1, <1>2, <1>4 DEF Panic, Goto, Proceeds, Ended, Ends
  <2> QED BY <1>1, <1>2, <1>4, <2>1, MoveStep DEF Panic
<1>5. CASE NotifyFails(h) \/ CtlKilled(h)
  <2>1. faults' \in 0..MaxFaults /\ faults' > 0
    BY <1>1, <1>5, IntakeBounds DEF NotifyFails, CtlKilled, Fault
  <2>2. pc' = [pc EXCEPT ![h] = "dead"]
    BY <1>5 DEF NotifyFails, CtlKilled, Goto
  <2>3. pc' \in [Handlers -> Steps \cup Ends] /\ \A g \in Handlers : Proceeds(g) \/ Ended(g)
    BY <1>1, <2>1, <2>2 DEF Proceeds, Ended, Ends
  <2> QED BY <1>1, <1>2, <2>1, <2>3, MoveStep
<1> QED BY <1>3, <1>4, <1>5

(* A restart ends the handlers that have begun. *)
LEMMA RestartStep ==
  ASSUME Inv, WebRestart
  PROVE  Inv'
<1>1. /\ pc \in [Handlers -> Steps \cup Ends] /\ faults \in 0..MaxFaults
      /\ UNCHANGED <<rows, commit, job, reruns>> /\ poisoned' \in BOOLEAN
  BY DEF WebRestart, Inv, TypeOK
<1>2. faults' \in 0..MaxFaults /\ faults' > 0
  BY <1>1, IntakeBounds DEF WebRestart, Fault
<1>3. \A g \in Handlers : pc'[g] = pc[g] \/ pc'[g] = "dead"
  BY DEF WebRestart
<1>4. pc' \in [Handlers -> Steps \cup Ends]
  <2>1. \A g \in Handlers : (IF g \in Pushes /\ pc[g] \in Steps \ {"received"}
                               THEN "dead" ELSE pc[g]) \in Steps \cup Ends
    BY <1>1 DEF Ends
  <2> QED BY <2>1 DEF WebRestart
<1>5. \A g \in Handlers : Proceeds(g) \/ Ended(g)
  BY <1>2, <1>3 DEF Proceeds, Ended
<1> QED BY <1>1, <1>2, <1>4, <1>5, MoveStep

(* Every step keeps the invariant. *)
LEMMA InvNext == Inv /\ [Next]_vars => Inv'
<1> SUFFICES ASSUME Inv, [Next]_vars PROVE Inv'
  OBVIOUS
<1>1. CASE UNCHANGED vars
  <2>1. UNCHANGED <<rows, commit, job, reruns>> /\ \A g \in Handlers : Proceeds(g)
    BY <1>1 DEF vars, Proceeds
  <2> QED BY <1>1, <2>1, MoveStep DEF vars, Inv, TypeOK
<1>2. CASE \E h \in Handlers : HandlerStep(h)
  BY <1>2, CommitStep, InsertJobStep, InsertRunStep DEF HandlerStep
<1>3. CASE \E p \in Pushes : PushStep(p) \/ NotifyFails(p)
  <2>1. PICK p \in Pushes : PushStep(p) \/ NotifyFails(p)
    BY <1>3
  <2>2. p \in Handlers
    BY DEF Handlers
  <2> QED BY <2>1, <2>2, LookupStep, NameStep, HandlerMoves DEF PushStep
<1>4. CASE \E h \in Creates : CtlKilled(h)
  BY <1>4, HandlerMoves DEF Handlers
<1>5. CASE \E j \in 1..(Len(jobs) + 1) : Rerun(j)
  <2>1. PICK j \in 1..(Len(jobs) + 1) : Rerun(j)
    BY <1>5
  <2>2. j \in Nat
    BY DEF Inv, TypeOK
  <2> QED BY <2>1, <2>2, RerunStep DEF Rerun
<1>6. CASE \E sha \in Shas : RerunCommit(sha)
  <2>1. PICK sha \in Shas : RerunCommit(sha)
    BY <1>6
  <2>2. PICK c \in CommitIds : InsertRun(c, sha)
    BY <2>1 DEF RerunCommit
  <2>3. c \in Nat
    BY DEF Inv, TypeOK, CommitIds
  <2> QED BY <2>1, <2>2, <2>3, RerunStep DEF RerunCommit
<1>7. CASE WebRestart
  BY <1>7, RestartStep
<1> QED BY <1>1, <1>2, <1>3, <1>4, <1>5, <1>6, <1>7 DEF Next

(* The invariant of the intake *)
LEMMA Invariance == Spec => []Inv
BY InvInit, InvNext, PTL DEF Spec

------------------------------------------------------------------------------

(* Ids are of rows that are there, and every handler is at a step of its    *)
(* own: the intake's type invariant.                                        *)
THEOREM IntakeTypes == Spec => []TypeOK
BY Invariance, PTL DEF Inv

(* process_push_event and `job create`: however handlers for one commit     *)
(* interleave, the UNIQUE sha lets one of them get as far as a job.         *)
THEOREM OneJob == Spec => []OneJobPerCommit
<1>1. Inv => OneJobPerCommit
  BY DEF Inv, JobInv
<1> QED BY <1>1, Invariance, PTL

(* last_insert_rowid, read under the guard of its insert: a handler works   *)
(* with the ids of its own rows.                                            *)
THEOREM HandlersOwnTheirJobs == Spec => []JobsBuildTheirPush
<1>1. Inv => JobsBuildTheirPush
  BY DEF Inv, JobInv
<1> QED BY <1>1, Invariance, PTL

(* update_commit_name names the commit of its push. *)
THEOREM NamesAreOfPushes == Spec => []NamesFollowPushes
<1>1. Inv => NamesFollowPushes
  BY DEF Inv, NameInv
<1> QED BY <1>1, Invariance, PTL

(* A job that a handler holds is of the handler's commit. *)
LEMMA HeldJobs ==
  ASSUME Inv, NEW h \in Handlers, job[h] \in JobIds
  PROVE  jobs[job[h]].commit = commit[h] /\ commits[commit[h]] = ShaOf[h]
<1>1. job[h] # 0
  BY DEF Inv, TypeOK, JobIds
<1>2. jobs[job[h]] = [commit |-> commit[h], source |-> SourceOf[h]] /\ commits[commit[h]] = ShaOf[h]
  BY <1>1 DEF Inv, JobInv, JobsBuildTheirPush
<1> QED BY <1>2

(* A commit has at most one job, so its page looks for the runs of that. *)
LEMMA RowsAreReady == Inv => PagesRender
<1> SUFFICES ASSUME Inv PROVE PagesRender
  OBVIOUS
<1>1. \A j \in JobIds : SummaryPanics(j) =>
        \E h \in Handlers : job[h] = j /\ (pc[h] = "run" \/ CutOff(h))
  BY DEF Inv, ProgressInv, JobsGetRuns, SummaryPanics
<1>2. ASSUME NEW c \in CommitIds, CommitPagePanics(c)
      PROVE  \E h \in Handlers : commit[h] = c /\ (pc[h] \in {"job", "run"} \/ CutOff(h))
  <2>1. CASE JobsOf(c) = {}
    BY <2>1 DEF Inv, ProgressInv, CommitsGetJobs
  <2>2. CASE JobsOf(c) # {}
    <3>1. PICK j \in JobIds : jobs[j].commit = c
      BY <2>2 DEF JobsOf
    <3>2. j \in JobsOf(c) /\ \A i \in JobsOf(c) : i = j
      BY <3>1 DEF JobsOf, Inv, JobInv, OneJobPerCommit
    <3>3. j \in Nat
      BY DEF JobIds, Inv, TypeOK
    <3>4. RunsOf(j) = {}
      BY <1>2, <3>2, <3>3 DEF CommitPagePanics
    <3>5. PICK h \in Handlers : job[h] = j /\ (pc[h] = "run" \/ CutOff(h))
      BY <3>4 DEF Inv, ProgressInv, JobsGetRuns
    <3> QED BY <3>1, <3>5, HeldJobs
  <2> QED BY <2>1, <2>2
<1> QED BY <1>1, <1>2 DEF PagesRender, Inv, ProgressInv

(* handle_commit_status, handle_repo_summary and the index only meet rows   *)
(* they do not expect while a handler is between two inserts, after one was *)
(* cut off there, or after a rerun.                                         *)
THEOREM PagesAreRendered == Spec => []PagesRender
BY RowsAreReady, Invariance, PTL

(* A row whose successor is missing has a handler that is about to insert   *)
(* it, or was cut off before it.                                            *)
LEMMA KnownCommits ==
  ASSUME Inv, NEW c \in CommitIds, NEW sha, commits[c] = sha
  PROVE  OnItsWay(sha) \/ LeftUnbuilt(sha)
<1>1. ASSUME NEW h \in Handlers, commit[h] = c
      PROVE  ShaOf[h] = sha /\ commit[h] # 0
  <2>1. c # 0
    BY DEF CommitIds, Inv, TypeOK
  <2> QED BY <1>1, <2>1 DEF Inv, CommitInv, CommitsOfHandlers
<1>2. CASE JobsOf(c) = {}
  <2>1. PICK h \in Handlers : commit[h] = c /\ (pc[h] = "job" \/ CutOff(h))
    BY <1>2 DEF Inv, ProgressInv, CommitsGetJobs
  <2>2. job[h] = 0
    <3> SUFFICES ASSUME job[h] # 0 PROVE FALSE
      OBVIOUS
    <3>1. job[h] \in JobIds
      BY DEF Inv, TypeOK, JobIds
    <3> QED BY <1>2, <2>1, <3>1, HeldJobs DEF JobsOf
  <2> QED BY <1>1, <2>1, <2>2 DEF OnItsWay, LeftUnbuilt
<1>3. CASE JobsOf(c) # {}
  <2>1. PICK j \in JobIds : jobs[j].commit = c
    BY <1>3 DEF JobsOf
  <2>2. CASE RunsOf(j) = {}
    <3>1. PICK h \in Handlers : job[h] = j /\ (pc[h] = "run" \/ CutOff(h))
      BY <2>2 DEF Inv, ProgressInv, JobsGetRuns
    <3>2. commit[h] = c
      BY <2>1, <3>1, HeldJobs
    <3> QED BY <1>1, <2>2, <3>1, <3>2 DEF OnItsWay, LeftUnbuilt
  <2>3. CASE RunsOf(j) # {}
    <3>1. PICK r \in DOMAIN runs : runs[r].job = j
      BY <2>3 DEF RunsOf
    <3> QED BY <2>1, <3>1 DEF OnItsWay, Queued
  <2> QED BY <2>2, <2>3
<1> QED BY <1>2, <1>3

------------------------------------------------------------------------------
(* The ledger of commits *)

Known(x) == \E c \in CommitIds : commits[c] = x

(* Only a registered push gets past its lookup, only others are refused,    *)
(* and nobody without an email gets as far as a job.                        *)
OriginInv ==
  /\ \A p \in Pushes : p \in Registered \/ pc[p] \in {"received", "refused", "dead"}
  /\ \A p \in Pushes : pc[p] = "refused" => p \notin Registered
  /\ \A h \in Handlers : pc[h] = "job" => HasEmail(h)

CommitLedgerInv == Inv /\ OriginInv

LEMMA OriginNext == Inv /\ OriginInv /\ [Next]_vars => OriginInv'
<1> SUFFICES ASSUME Inv, OriginInv, [Next]_vars PROVE OriginInv'
  OBVIOUS
<1>1. pc \in [Handlers -> Steps \cup Ends] /\ Pushes \subseteq Handlers /\ Creates \subseteq Handlers
  BY DEF Inv, TypeOK, Handlers
<1>2. ASSUME NEW h \in Handlers, NEW to, Goto(h, to),
             h \in Pushes => h \in Registered \/ to \in {"refused", "dead"},
             to = "refused" => h \notin Registered,
             to = "job" => HasEmail(h)
      PROVE  OriginInv'
  <2>1. pc'[h] = to /\ \A g \in Handlers : g # h => pc'[g] = pc[g]
    BY <1>1, <1>2 DEF Goto
  <2>2. \A p \in Pushes : p \in Registered \/ pc'[p] \in {"received", "refused", "dead"}
    BY <1>1, <1>2, <2>1 DEF OriginInv
  <2>3. \A g \in Handlers : pc'[g] = "job" => HasEmail(g)
    BY <1>2, <2>1 DEF OriginInv
  <2>4. \A p \in Pushes : pc'[p] = "refused" => p \notin Registered
    BY <1>1, <1>2, <2>1 DEF OriginInv
  <2> QED BY <2>2, <2>3, <2>4 DEF OriginInv, HasEmail
<1>3. ASSUME UNCHANGED pc PROVE OriginInv'
  BY <1>3 DEF OriginInv, HasEmail
<1>4. \A h \in Pushes : pc[h] \notin {"received", "refused", "dead"} => h \in Registered
  BY DEF OriginInv
<1>5. CASE UNCHANGED vars
  BY <1>3, <1>5 DEF vars
<1>6. ASSUME NEW h \in Handlers, HandlerStep(h) PROVE OriginInv'
  <2>1. CASE NewCommit(h)
    <3>1. pc[h] = "commit" /\ (Goto(h, "dead") \/ (HasEmail(h) /\ Goto(h, "job")))
      BY <2>1 DEF NewCommit, At
    <3> QED BY <1>2, <1>4, <3>1
  <2>2. CASE NewJob(h)
    <3>1. pc[h] = "job" /\ Goto(h, "run")
      BY <2>2 DEF NewJob, At
    <3> QED BY <1>2, <1>4, <3>1
  <2>3. CASE NewRun(h)
    <3>1. pc[h] = "run" /\ \E to \in {"notify", "done"} : Goto(h, to)
      BY <2>3 DEF NewRun, At
    <3> QED BY <1>2, <1>4, <3>1
  <2> QED BY <1>6, <2>1, <2>2, <2>3 DEF HandlerStep
<1>7. ASSUME NEW p \in Pushes, PushStep(p) \/ NotifyFails(p) PROVE OriginInv'
  <2>1. p \in Handlers
    BY <1>1
  <2>2. CASE LookupCommit(p)
    <3>1. \/ Goto(p, "refused") /\ p \notin Registered
          \/ p \in Registered /\ \E to \in {"name", "commit"} : Goto(p, to)
      BY <2>2 DEF LookupCommit
    <3> QED BY <1>2, <2>1, <3>1
  <2>3. CASE Notify(p) \/ NameCommit(p)
    <3>1. pc[p] \in {"notify", "name"} /\ \E to \in {"name", "done"} : Goto(p, to)
      BY <2>3 DEF Notify, NameCommit, At
    <3> QED BY <1>2, <1>4, <2>1, <3>1
  <2>4. CASE Panic(p) \/ NotifyFails(p)
    BY <1>2, <2>1, <2>4 DEF Panic, NotifyFails
  <2> QED BY <1>7, <2>2, <2>3, <2>4 DEF PushStep
<1>8. ASSUME NEW h \in Creates, CtlKilled(h) PROVE OriginInv'
  BY <1>1, <1>2, <1>8 DEF CtlKilled
<1>9. CASE (\E j \in 1..(Len(jobs) + 1) : Rerun(j)) \/ (\E sha \in Shas : RerunCommit(sha))
  BY <1>3, <1>9 DEF Rerun, RerunCommit
<1>10. CASE WebRestart
  <2>1. \A g \in Handlers : pc'[g] \in {pc[g], "dead"}
    BY <1>10 DEF WebRestart
  <2> QED BY <1>1, <2>1 DEF OriginInv, HasEmail
<1> QED BY <1>5, <1>6, <1>7, <1>8, <1>9, <1>10 DEF Next

LEMMA CommitLedgerInvariance == Spec => []CommitLedgerInv
<1>1. Init => OriginInv
  BY DEF Init, OriginInv, Handlers
<1> QED BY <1>1, InvInit, InvNext, OriginNext, PTL DEF Spec, CommitLedgerInv

(* What handle_github_event's "ok" is worth to whoever pushed to a remote   *)
(* of ours: a run of the commit, unless the handler that made the commit    *)
(* was cut off before new_run.                                              *)
THEOREM PushesAreQueued == Spec => []PushIsQueued
<1>1. Inv /\ OriginInv => PushIsQueued
  <2> SUFFICES ASSUME Inv, OriginInv, NEW p \in Pushes
               PROVE  /\ Answered(p) => \/ OnItsWay(ShaOf[p])
                                        \/ LeftUnbuilt(ShaOf[p])
                                        \/ p \notin Registered
                      /\ pc[p] = "dead" => CutOff(p) \/ ~HasEmail(p)
    BY DEF PushIsQueued
  <2>1. pc[p] = "dead" => CutOff(p) \/ ~HasEmail(p)
    BY DEF Inv, ProgressInv, DeadPushes
  <2>2. ASSUME pc[p] = "done"
        PROVE  OnItsWay(ShaOf[p]) \/ LeftUnbuilt(ShaOf[p])
    <3>1. commit[p] # 0 /\ commits[commit[p]] = ShaOf[p]
      BY <2>2 DEF Inv, CommitInv, CommitsOfHandlers, Handlers
    <3>2. commit[p] \in CommitIds
      <4>1. commit[p] \in 0..Len(commits) /\ Len(commits) \in Nat /\ CommitIds = 1..Len(commits)
        BY DEF Inv, TypeOK, Handlers, CommitIds
      <4> QED BY <3>1, <4>1
    <3> QED BY <3>1, <3>2, KnownCommits
  <2>3. CASE pc[p] = "refused"
    BY <2>1, <2>3 DEF OriginInv
  <2> QED BY <2>1, <2>2, <2>3 DEF Answered
<1> QED BY <1>1, CommitLedgerInvariance, PTL DEF CommitLedgerInv

(* What the status of a commit is read from. *)
LEMMA StatusFrame ==
  ASSUME NEW x, Known(x)' <=> Known(x), JobsOfSha(x)' = JobsOfSha(x), Queued(x)' <=> Queued(x)
  PROVE  Status(x)' = Status(x)
BY DEF Status, Known

LEMMA QueuedByJobs ==
  ASSUME NEW x
  PROVE  /\ Queued(x) <=> \E r \in DOMAIN runs : runs[r].job \in JobsOfSha(x)
         /\ Queued(x)' <=> \E r \in DOMAIN runs' : runs'[r].job \in JobsOfSha(x)'
BY DEF Queued, JobsOfSha

LEMMA OneJobOfSha ==
  ASSUME Inv, NEW x, NEW i \in JobsOfSha(x), NEW j \in JobsOfSha(x)
  PROVE  i = j
<1>1. jobs[i].commit = jobs[j].commit
  BY DEF JobsOfSha, Inv, JobInv, JobsHaveCommits, CommitInv, ShasDiffer
<1> QED BY <1>1 DEF JobsOfSha, Inv, JobInv, OneJobPerCommit

(* Steps that insert nothing stutter. *)
LEMMA RowsFrame == ASSUME UNCHANGED rows PROVE UNCHANGED Commits!vars
<1>1. ASSUME NEW x
      PROVE  (Known(x)' <=> Known(x)) /\ JobsOfSha(x)' = JobsOfSha(x) /\ (Queued(x)' <=> Queued(x))
  BY DEF rows, Known, CommitIds, JobsOfSha, JobIds, Queued
<1>2. \A x : Status(x)' = Status(x)
  BY <1>1, StatusFrame
<1>3. [x \in Shas |-> Status(x)]' = [x \in Shas |-> Status(x)]
  BY <1>2 DEF Shas, Handlers
<1>4. [x \in Shas |-> {jobs[j].source : j \in JobsOfSha(x)}]'
        = [x \in Shas |-> {jobs[j].source : j \in JobsOfSha(x)}]
  BY <1>1 DEF rows, Shas, Handlers
<1> QED BY <1>3, <1>4 DEF rows, Commits!vars

(* new_commit: the commit becomes known. *)
LEMMA LearnStep ==
  ASSUME Inv, NEW h \in Handlers, NEW sha, sha = ShaOf[h],
         \A c \in CommitIds : commits[c] # sha,
         commits' = Append(commits, sha),
         UNCHANGED <<jobs, runs, names>>
  PROVE  Commits!Learn(sha)
<1> DEFINE n == Len(commits) + 1
<1>1. commits \in Seq(Shas) /\ sha \in Shas
  BY DEF Inv, TypeOK, Shas
<1>2. /\ CommitIds = 1..Len(commits) /\ CommitIds' = CommitIds \cup {n} /\ n \notin CommitIds
      /\ \A c \in CommitIds : commits'[c] = commits[c]
      /\ commits'[n] = sha
  BY <1>1, AppendFacts DEF CommitIds
<1> HIDE DEF n
<1>3. \A x : JobsOfSha(x)' = JobsOfSha(x)
  BY <1>2 DEF JobsOfSha, JobIds, Inv, JobInv, JobsHaveCommits
<1>4. \A x : Queued(x)' <=> Queued(x)
  BY <1>3, QueuedByJobs
<1>5. \A x : x # sha => (Known(x)' <=> Known(x))
  BY <1>2 DEF Known
<1>6. \A x : x # sha => Status(x)' = Status(x)
  BY <1>3, <1>4, <1>5, StatusFrame
<1>7. Status(sha) = "unknown"
  BY DEF Status
<1>8. Status(sha)' = "known"
  <2>1. Known(sha)'
    BY <1>2 DEF Known
  <2>2. JobsOfSha(sha) = {}
    BY DEF JobsOfSha, Inv, JobInv, JobsHaveCommits
  <2>3. JobsOfSha(sha)' = {}
    BY <1>3, <2>2
  <2> QED BY <2>1, <2>3 DEF Status, Known
<1>9. [x \in Shas |-> Status(x)]' = [[x \in Shas |-> Status(x)] EXCEPT ![sha] = "known"]
  BY <1>1, <1>6, <1>8 DEF Shas, Handlers
<1>10. [x \in Shas |-> {jobs[j].source : j \in JobsOfSha(x)}]'
         = [x \in Shas |-> {jobs[j].source : j \in JobsOfSha(x)}]
  BY <1>3 DEF Shas, Handlers
<1>11. {<<commits[m[1]], m[2]>> : m \in names}' = {<<commits[m[1]], m[2]>> : m \in names}
  <2>1. \A m \in names : commits'[m[1]] = commits[m[1]]
    BY <1>2 DEF Inv, NameInv, NamesHaveCommits
  <2> QED BY <2>1
<1> QED BY <1>1, <1>7, <1>9, <1>10, <1>11 DEF Commits!Learn

(* new_job: the commit gets its only job, from its announcer. *)
LEMMA PlanStep ==
  ASSUME Inv, OriginInv, NEW h \in Handlers, NewJob(h), NEW sha, sha = ShaOf[h]
  PROVE  Commits!Plan(sha)
<1> DEFINE n == Len(jobs) + 1
           row == [commit |-> commit[h], source |-> SourceOf[h]]
           Rows == [commit : Nat, source : {SourceOf[g] : g \in Handlers}]
<1>1. /\ pc[h] = "job" /\ jobs' = Append(jobs, row)
      /\ UNCHANGED <<commits, runs, names>>
  BY DEF NewJob, At
<1>2. commit[h] # 0 /\ commits[commit[h]] = sha /\ sha \in Shas
  BY <1>1 DEF Inv, CommitInv, CommitsOfHandlers, Shas
<1>3. commit[h] \in CommitIds /\ commit[h] \in Nat
  <2>1. commit[h] \in 0..Len(commits) /\ Len(commits) \in Nat /\ CommitIds = 1..Len(commits)
    BY DEF Inv, TypeOK, CommitIds
  <2> QED BY <1>2, <2>1
<1>4. /\ JobIds' = JobIds \cup {n} /\ n \notin JobIds
      /\ \A j \in JobIds : jobs'[j] = jobs[j]
      /\ jobs'[n] = row
  <2>1. jobs \in Seq(Rows) /\ row \in Rows
    BY <1>3 DEF Inv, TypeOK
  <2> HIDE DEF Rows, row
  <2>2. /\ Len(jobs) \in Nat /\ JobIds = 1..Len(jobs) /\ JobIds' = 1..n
        /\ \A j \in JobIds : jobs'[j] = jobs[j]
        /\ jobs'[n] = row
    BY <1>1, <2>1, AppendFacts DEF JobIds
  <2> QED BY <2>2
<1>5. row.commit = commit[h] /\ row.source = SourceOf[h]
  OBVIOUS
<1> HIDE DEF n, row
<1>6. JobsOfSha(sha) = {}
  <2> SUFFICES ASSUME NEW j \in JobIds, commits[jobs[j].commit] = sha PROVE FALSE
    BY DEF JobsOfSha
  <2>1. jobs[j].commit = commit[h]
    BY <1>2, <1>3 DEF Inv, JobInv, JobsHaveCommits, CommitInv, ShasDiffer
  <2> QED BY <1>1, <2>1 DEF Inv, JobInv, MakersAreAlone
<1>7. JobsOfSha(sha)' = {n}
  <2>1. \A j \in JobIds : commits'[jobs'[j].commit] # sha
    BY <1>1, <1>4, <1>6 DEF JobsOfSha
  <2>2. commits'[jobs'[n].commit] = sha
    BY <1>1, <1>2, <1>4, <1>5
  <2> QED BY <1>4, <2>1, <2>2 DEF JobsOfSha
<1>8. ASSUME NEW x, x # sha PROVE JobsOfSha(x)' = JobsOfSha(x)
  <2>1. \A j \in JobIds : commits'[jobs'[j].commit] = commits[jobs[j].commit]
    BY <1>1, <1>4
  <2>2. commits'[jobs'[n].commit] # x
    BY <1>1, <1>2, <1>4, <1>5, <1>8
  <2> QED BY <1>4, <2>1, <2>2 DEF JobsOfSha
<1>9. ASSUME NEW x, x # sha PROVE Status(x)' = Status(x)
  <2>1. Queued(x)' <=> Queued(x)
    BY <1>1, <1>8, <1>9, QueuedByJobs
  <2>2. Known(x)' <=> Known(x)
    BY <1>1 DEF Known, CommitIds
  <2> QED BY <1>8, <1>9, <2>1, <2>2, StatusFrame
<1>10. Status(sha) = "known"
  BY <1>2, <1>3, <1>6 DEF Status
<1>11. \E s \in {"planned", "queued"} : Status(sha)' = s
  <2>1. ~(\A c \in CommitIds' : commits'[c] # sha)
    BY <1>1, <1>2, <1>3 DEF CommitIds
  <2> QED BY <1>7, <2>1 DEF Status
<1>12. \E s \in {"planned", "queued"} :
         [x \in Shas |-> Status(x)]' = [[x \in Shas |-> Status(x)] EXCEPT ![sha] = s]
  <2>1. PICK s \in {"planned", "queued"} : Status(sha)' = s
    BY <1>11
  <2>2. [x \in Shas |-> Status(x)]' = [[x \in Shas |-> Status(x)] EXCEPT ![sha] = s]
    BY <1>2, <1>9, <2>1 DEF Shas, Handlers
  <2> QED BY <2>2
<1>13. SourceOf[h] \in AnnouncedSources[sha]
  <2>1. HasEmail(h) /\ h \in Registered \cup Creates
    BY <1>1 DEF OriginInv, Handlers
  <2> QED BY <1>2, <2>1 DEF AnnouncedSources, Announces
<1>14. [x \in Shas |-> {jobs[j].source : j \in JobsOfSha(x)}]'
         = [[x \in Shas |-> {jobs[j].source : j \in JobsOfSha(x)}] EXCEPT ![sha] = {SourceOf[h]}]
  <2>1. {jobs'[j].source : j \in JobsOfSha(sha)'} = {SourceOf[h]}
    BY <1>4, <1>5, <1>7
  <2>2. ASSUME NEW x, x # sha
        PROVE  {jobs'[j].source : j \in JobsOfSha(x)'} = {jobs[j].source : j \in JobsOfSha(x)}
    <3>1. \A j \in JobsOfSha(x) : jobs'[j] = jobs[j]
      BY <1>4 DEF JobsOfSha
    <3> QED BY <1>8, <2>2, <3>1
  <2> QED BY <1>2, <2>1, <2>2 DEF Shas, Handlers
<1>15. {<<commits[m[1]], m[2]>> : m \in names}' = {<<commits[m[1]], m[2]>> : m \in names}
  BY <1>1
<1>16. [x \in Shas |-> Status(x)][sha] = "known"
  BY <1>2, <1>10
<1> QED BY <1>12, <1>13, <1>14, <1>15, <1>16 DEF Commits!Plan

(* A run of whatever job: the commit of the job is queued, if it was not.   *)
LEMMA QueueStep ==
  ASSUME Inv, NEW j, NEW asked, InsertRun(j, asked), UNCHANGED <<commits, jobs, names>>,
         j \in Nat, asked \in Shas \cup {None}
  PROVE  (\E sha \in Shas : Commits!Queue(sha)) \/ UNCHANGED Commits!vars
<1>1. ASSUME NEW x
      PROVE  JobsOfSha(x)' = JobsOfSha(x) /\ (Known(x)' <=> Known(x))
  BY DEF JobsOfSha, JobIds, Known, CommitIds
<1>2. ASSUME NEW x PROVE Queued(x)' <=> Queued(x) \/ j \in JobsOfSha(x)
  <2>1. ASSUME NEW r \in DOMAIN runs PROVE \E q \in DOMAIN runs' : runs'[q].job = runs[r].job
    <3>1. PICK i : i = runs[r].job
      OBVIOUS
    <3>2. r \in RunsOf(i)
      BY <3>1 DEF RunsOf
    <3>3. r \in RunsOf(i)'
      BY <3>2, InsertRunFacts
    <3>4. r \in DOMAIN runs' /\ runs'[r].job = i
      BY <3>3 DEF RunsOf
    <3> QED BY <3>1, <3>4
  <2>2. \E q \in DOMAIN runs' : runs'[q].job = j
    BY InsertRunFacts DEF RunsOf
  <2>3. \A q \in DOMAIN runs' : runs'[q].job = j \/ \E r \in DOMAIN runs : runs'[q].job = runs[r].job
    BY InsertRunFacts
  <2>4. JobsOfSha(x)' = JobsOfSha(x)
    BY <1>1
  <2>5. ASSUME Queued(x)' PROVE Queued(x) \/ j \in JobsOfSha(x)
    BY <2>3, <2>4, <2>5, QueuedByJobs
  <2>6. ASSUME Queued(x) \/ j \in JobsOfSha(x) PROVE Queued(x)'
    BY <2>1, <2>2, <2>4, <2>6, QueuedByJobs
  <2> QED BY <2>5, <2>6
<1>3. [x \in Shas |-> {jobs[i].source : i \in JobsOfSha(x)}]'
        = [x \in Shas |-> {jobs[i].source : i \in JobsOfSha(x)}]
  BY <1>1 DEF Shas, Handlers
<1>4. {<<commits[m[1]], m[2]>> : m \in names}' = {<<commits[m[1]], m[2]>> : m \in names}
  OBVIOUS
<1>5. CASE \A x \in Shas : j \in JobsOfSha(x) => Queued(x)
  <2>1. \A x \in Shas : Status(x)' = Status(x)
    BY <1>1, <1>2, <1>5, StatusFrame
  <2>2. [x \in Shas |-> Status(x)]' = [x \in Shas |-> Status(x)]
    BY <2>1 DEF Shas, Handlers
  <2> QED BY <1>3, <1>4, <2>2 DEF Commits!vars
<1>6. ASSUME NEW sha \in Shas, j \in JobsOfSha(sha), ~Queued(sha)
      PROVE  Commits!Queue(sha)
  <2>1. \A i, k \in JobsOfSha(sha) : i = k
    BY OneJobOfSha
  <2>2. Known(sha)
    BY <1>6 DEF JobsOfSha, Inv, JobInv, JobsHaveCommits, Known
  <2>3. Status(sha) = "planned"
    BY <1>6, <2>1, <2>2 DEF Status, Known
  <2>4. Status(sha)' = "queued"
    <3>1. Known(sha)' /\ Queued(sha)' /\ JobsOfSha(sha)' # {} /\ \A i, k \in JobsOfSha(sha)' : i = k
      BY <1>1, <1>2, <1>6, <2>1, <2>2
    <3> QED BY <3>1 DEF Status, Known
  <2>5. ASSUME NEW x, x # sha PROVE Status(x)' = Status(x)
    <3>1. j \notin JobsOfSha(x)
      BY <1>6, <2>5 DEF JobsOfSha
    <3> QED BY <1>1, <1>2, <3>1, StatusFrame
  <2>6. [x \in Shas |-> Status(x)]' = [[x \in Shas |-> Status(x)] EXCEPT ![sha] = "queued"]
    BY <2>4, <2>5 DEF Shas, Handlers
  <2> QED BY <1>3, <1>4, <2>3, <2>6 DEF Commits!Queue
<1> QED BY <1>5, <1>6

(* update_commit_name: a ref of a push is a name of the push's commit. *)
LEMMA NamingStep ==
  ASSUME Inv, OriginInv, NEW p \in Pushes, NameCommit(p), NEW sha, sha = ShaOf[p]
  PROVE  Commits!Name(sha)
<1>1. /\ p \in Handlers /\ pc[p] = "name" /\ names' = names \cup {<<commit[p], RefOf[p]>>}
      /\ UNCHANGED <<commits, jobs, runs>>
  BY DEF NameCommit, At, Handlers
<1>2. commit[p] # 0 /\ commits[commit[p]] = sha /\ sha \in Shas /\ p \in Registered
  BY <1>1 DEF Inv, CommitInv, CommitsOfHandlers, Shas, OriginInv
<1>3. commit[p] \in CommitIds
  <2>1. commit[p] \in 0..Len(commits) /\ Len(commits) \in Nat /\ CommitIds = 1..Len(commits)
    BY <1>1 DEF Inv, TypeOK, CommitIds
  <2> QED BY <1>2, <2>1
<1>4. ASSUME NEW x
      PROVE  (Known(x)' <=> Known(x)) /\ JobsOfSha(x)' = JobsOfSha(x) /\ (Queued(x)' <=> Queued(x))
  BY <1>1 DEF Known, CommitIds, JobsOfSha, JobIds, Queued
<1>5. [x \in Shas |-> Status(x)]' = [x \in Shas |-> Status(x)]
  <2>1. \A x : Status(x)' = Status(x)
    BY <1>4, StatusFrame
  <2> QED BY <2>1 DEF Shas, Handlers
<1>6. [x \in Shas |-> {jobs[j].source : j \in JobsOfSha(x)}]'
        = [x \in Shas |-> {jobs[j].source : j \in JobsOfSha(x)}]
  BY <1>1, <1>4 DEF Shas, Handlers
<1>7. [x \in Shas |-> Status(x)][sha] # "unknown"
  <2>1. Status(sha) # "unknown"
    BY <1>2, <1>3 DEF Status
  <2> QED BY <1>2, <2>1
<1>8. RefOf[p] \in PushedRefs[sha]
  BY <1>2 DEF PushedRefs
<1>9. {<<commits[m[1]], m[2]>> : m \in names}'
        = {<<commits[m[1]], m[2]>> : m \in names} \cup {<<sha, RefOf[p]>>}
  <2> DEFINE new == <<commit[p], RefOf[p]>>
  <2>1. <<commits[new[1]], new[2]>> = <<sha, RefOf[p]>>
    BY <1>2
  <2>2. names' = names \cup {new} /\ commits' = commits
    BY <1>1
  <2> HIDE DEF new
  <2> QED BY <2>1, <2>2
<1> QED BY <1>5, <1>6, <1>7, <1>8, <1>9 DEF Commits!Name

LEMMA CommitLedgerStep == CommitLedgerInv /\ [Next]_vars => [Commits!Next]_(Commits!vars)
<1> SUFFICES ASSUME Inv, OriginInv, [Next]_vars
             PROVE  Commits!Next \/ UNCHANGED Commits!vars
  BY DEF CommitLedgerInv
<1>1. CASE UNCHANGED vars
  BY <1>1, RowsFrame DEF vars
<1>2. ASSUME NEW h \in Handlers, HandlerStep(h)
      PROVE  Commits!Next \/ UNCHANGED Commits!vars
  <2>1. ShaOf[h] \in Shas
    BY DEF Shas
  <2>2. CASE NewCommit(h)
    <3>1. CASE UNCHANGED commits
      BY <2>2, <3>1, RowsFrame DEF NewCommit, rows
    <3>2. CASE commits' # commits
      <4>1. Commits!Learn(ShaOf[h])
        BY <2>2, <3>2, LearnStep DEF NewCommit
      <4> QED BY <2>1, <4>1 DEF Commits!Next
    <3> QED BY <3>1, <3>2
  <2>3. CASE NewJob(h)
    <3>1. Commits!Plan(ShaOf[h])
      BY <2>3, PlanStep
    <3> QED BY <2>1, <3>1 DEF Commits!Next
  <2>4. CASE NewRun(h)
    <3>1. InsertRun(job[h], None) /\ UNCHANGED <<commits, jobs, names>>
      BY <2>4 DEF NewRun
    <3>2. job[h] \in Nat
      BY DEF Inv, TypeOK
    <3> QED BY <3>1, <3>2, QueueStep DEF Commits!Next
  <2> QED BY <1>2, <2>2, <2>3, <2>4 DEF HandlerStep
<1>3. ASSUME NEW p \in Pushes, PushStep(p) \/ NotifyFails(p)
      PROVE  Commits!Next \/ UNCHANGED Commits!vars
  <2>1. CASE NameCommit(p)
    <3>1. ShaOf[p] \in Shas /\ Commits!Name(ShaOf[p])
      BY <2>1, NamingStep DEF Shas, Handlers
    <3> QED BY <3>1 DEF Commits!Next
  <2>2. CASE LookupCommit(p) \/ Notify(p) \/ Panic(p) \/ NotifyFails(p)
    BY <2>2, RowsFrame DEF LookupCommit, Notify, Panic, NotifyFails
  <2> QED BY <1>3, <2>1, <2>2 DEF PushStep
<1>4. ASSUME NEW h \in Creates, CtlKilled(h) PROVE UNCHANGED Commits!vars
  BY <1>4, RowsFrame DEF CtlKilled
<1>5. ASSUME NEW j \in 1..(Len(jobs) + 1), Rerun(j)
      PROVE  Commits!Next \/ UNCHANGED Commits!vars
  <2>1. j \in Nat /\ InsertRun(j, None) /\ UNCHANGED <<commits, jobs, names>>
    BY <1>5 DEF Rerun, Inv, TypeOK
  <2> QED BY <2>1, QueueStep DEF Commits!Next
<1>6. ASSUME NEW sha \in Shas, RerunCommit(sha)
      PROVE  Commits!Next \/ UNCHANGED Commits!vars
  <2>1. PICK c \in CommitIds : InsertRun(c, sha)
    BY <1>6 DEF RerunCommit
  <2>2. c \in Nat /\ UNCHANGED <<commits, jobs, names>>
    BY <1>6 DEF RerunCommit, Inv, TypeOK, CommitIds
  <2> QED BY <2>1, <2>2, QueueStep DEF Commits!Next
<1>7. CASE WebRestart
  BY <1>7, RowsFrame DEF WebRestart
<1> QED BY <1>1, <1>2, <1>3, <1>4, <1>5, <1>6, <1>7 DEF Next

(* The intake implements the ledger of commits: whatever races, panics and  *)
(* restarts the handlers meet, a commit is learned, planned once for an     *)
(* announcer, queued, and named by its own pushes, in that order.           *)
THEOREM IntakeImplementsCommits == Spec => ImplementsCommits
<1>1. Init => Commits!Init
  <2> SUFFICES ASSUME Init PROVE Commits!Init
    OBVIOUS
  <2>1. CommitIds = {} /\ JobIds = {} /\ names = {}
    BY DEF Init, CommitIds, JobIds
  <2>2. \A x \in Shas : Status(x) = "unknown" /\ JobsOfSha(x) = {}
    BY <2>1 DEF Status, JobsOfSha
  <2> QED BY <2>1, <2>2 DEF Commits!Init
<1> QED BY <1>1, CommitLedgerInvariance, CommitLedgerStep, PTL DEF Spec, ImplementsCommits, Commits!Spec
==============================================================================
