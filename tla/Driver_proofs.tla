---------------------------- MODULE Driver_proofs ----------------------------
(****************************************************************************)
(* What is proved of Driver for every set of jobs, sessions, runners and    *)
(* hosts, every bound and every configuration: type correctness, and that   *)
(* the reaper gives up no run a session has.                                *)
(****************************************************************************)
EXTENDS Driver, SequenceTheorems, TLAPS

(* TypeOK is not inductive by itself: a row gets the host of the session's  *)
(* client and ACTIVE_TASKS the session's run, so a session past the channel *)
(* has a client, one that holds a run has it, and a busy runner has a       *)
(* connection.                                                              *)
Linked == SessionsHaveClients /\ HoldersHaveTasks /\ RunnersAreAttached

TypeInv == TypeOK /\ Linked

USE DEF RunState, Phases, RunnerMsgs, DriverMsgs

------------------------------------------------------------------------------
(* Messages *)

(* A sent message leaves the other messages to the runner what they were. *)
LEMMA SendType ==
  ASSUME NetTypeOK, NEW s \in Sessions, NEW m \in RunnerMsgs, Send(s, m)
  PROVE  toRunner' \in [Sessions -> Seq(RunnerMsgs)]
<1>1. Append(toRunner[s], m) \in Seq(RunnerMsgs)
  BY AppendProperties DEF NetTypeOK
<1> QED BY <1>1 DEF Send, NetTypeOK

(* A received message leaves a sequence of messages. *)
LEMMA ReceiveType ==
  ASSUME NetTypeOK, NEW s \in Sessions, NEW m, Receive(s, m)
  PROVE  NetTypeOK'
<1>1. Tail(toDriver[s]) \in Seq(DriverMsgs)
  BY HeadTailProperties DEF Receive, NetTypeOK
<1> QED BY <1>1 DEF Receive, NetTypeOK

(* The runner's replies are messages to the driver. *)
LEMMA ReplyType ==
  ASSUME NetTypeOK, NEW s \in Sessions, NEW m \in DriverMsgs, Reply(s, m)
  PROVE  toDriver' \in [Sessions -> Seq(DriverMsgs)]
<1>1. Append(toDriver[s], m) \in Seq(DriverMsgs)
  BY AppendProperties DEF NetTypeOK
<1> QED BY <1>1 DEF Reply, NetTypeOK

(* What survives a lost connection is a sequence of messages. *)
LEMMA PrefixType ==
  ASSUME NEW S, NEW q \in Seq(S), NEW p \in Prefix(q)
  PROVE  p \in Seq(S)
<1>1. PICK n \in 0..Len(q) : p = SubSeq(q, 1, n)
  BY DEF Prefix
<1>2. Len(q) \in Nat /\ \A i \in 1..n : q[i] \in S
  BY LenProperties, ElementOfSeq, <1>1
<1>3. SubSeq(q, 1, n) \in Seq(S)
  BY <1>1, <1>2, SubSeqProperties
<1> QED BY <1>1, <1>3

(* A message taken from the connection to the runner. *)
LEMMA GetsType ==
  ASSUME NetTypeOK, Linked, NEW n \in Runners, NEW m, Gets(n, m)
  PROVE  rsess[n] \in Sessions /\ toRunner' \in [Sessions -> Seq(RunnerMsgs)]
<1>1. rsess[n] \in Sessions
  BY DEF Gets, Linked, RunnersAreAttached
<1>2. Tail(toRunner[rsess[n]]) \in Seq(RunnerMsgs)
  BY <1>1, HeadTailProperties DEF Gets, NetTypeOK
<1> QED BY <1>1, <1>2 DEF Gets, NetTypeOK

------------------------------------------------------------------------------
(* Type correctness: what the operations share *)

(* The tables, the channel and the runners start empty. *)
LEMMA TypeInit == Init => TypeInv
<1> SUFFICES ASSUME Init PROVE TypeInv
  OBVIOUS
<1>1. RowsTypeOK /\ ReaperTypeOK /\ RunnersTypeOK /\ faults \in 0..MaxFaults
  BY BoundsAssumption DEF Init, RowsTypeOK, ReaperTypeOK, RunnersTypeOK
<1>2. SessionsTypeOK /\ NetTypeOK
  BY EmptySeq, BoundsAssumption DEF Init, SessionsTypeOK, NetTypeOK
<1>3. Linked
  BY DEF Init, Linked, SessionsHaveClients, HoldersHaveTasks, RunnersAreAttached
<1> QED BY <1>1, <1>2, <1>3 DEF TypeInv, TypeOK

(* Parts no step of which changed keep their types. *)
LEMMA Frame ==
  ASSUME TypeInv
  PROVE  /\ UNCHANGED dbVars => RowsTypeOK'
         /\ UNCHANGED sessVars => SessionsTypeOK' /\ SessionsHaveClients' /\ HoldersHaveTasks'
         /\ UNCHANGED memVars => ReaperTypeOK'
         /\ UNCHANGED netVars => NetTypeOK'
         /\ UNCHANGED rnrVars => RunnersTypeOK' /\ RunnersAreAttached'
         /\ UNCHANGED faults => (faults \in 0..MaxFaults)'
         /\ Fault => (faults \in 0..MaxFaults)'
<1> USE DEF TypeInv, TypeOK, Linked
<1>1. UNCHANGED dbVars => RowsTypeOK'
  BY DEF dbVars, RowsTypeOK
<1>2. UNCHANGED sessVars => SessionsTypeOK' /\ SessionsHaveClients' /\ HoldersHaveTasks'
  BY DEF sessVars, SessionsTypeOK, SessionsHaveClients, HoldersHaveTasks
<1>3. UNCHANGED memVars => ReaperTypeOK'
  BY DEF memVars, ReaperTypeOK
<1>4. UNCHANGED netVars => NetTypeOK'
  BY DEF netVars, NetTypeOK
<1>5. UNCHANGED rnrVars => RunnersTypeOK' /\ RunnersAreAttached'
  BY DEF rnrVars, RunnersTypeOK, RunnersAreAttached
<1>6. Fault => (faults \in 0..MaxFaults)'
  BY BoundsAssumption DEF Fault
<1> QED BY <1>1, <1>2, <1>3, <1>4, <1>5, <1>6

(* A session's task changes its own entries only, and to entries that fit.  *)
LEMMA SessionFrame ==
  ASSUME TypeInv, NEW s \in Sessions, NEW p \in Phases \ {"closed"}, Goto(s, p),
         ~At(s, "closed"), UNCHANGED <<queue, client>>,
         task' \in [Sessions -> Runs \cup {None}], pick' \in [Sessions -> Jobs \cup {None}],
         missing' \in [Sessions -> SUBSET (Jobs \cup {None})],
         verdict' \in [Sessions -> Verdicts \cup {None}],
         \A t \in Sessions \ {s} : task'[t] = task[t],
         p \in {"offered", "acked", "running", "reporting"} => task'[s] \in Runs
  PROVE  SessionsTypeOK' /\ SessionsHaveClients' /\ HoldersHaveTasks'
<1> USE DEF TypeInv, TypeOK, Linked, Goto, At
<1>1. SessionsTypeOK'
  BY DEF SessionsTypeOK
<1>2. SessionsHaveClients'
  BY DEF SessionsTypeOK, SessionsHaveClients
<1>3. HoldersHaveTasks'
  BY DEF SessionsTypeOK, HoldersHaveTasks
<1> QED BY <1>1, <1>2, <1>3

(* The same for a session that moves on with the task it has. *)
LEMMA MoveOn ==
  ASSUME TypeInv, NEW s \in Sessions, NEW from \in Phases \ {"closed"}, At(s, from),
         NEW p \in Phases \ {"closed"}, Goto(s, p),
         UNCHANGED <<queue, client, task, pick>>, missing' \in [Sessions -> SUBSET (Jobs \cup {None})],
         verdict' \in [Sessions -> Verdicts \cup {None}],
         p \in {"offered", "acked", "running", "reporting"}
           => from \in {"offered", "acked", "running", "reporting"}
  PROVE  SessionsTypeOK' /\ SessionsHaveClients' /\ HoldersHaveTasks'
<1>1. ~At(s, "closed") /\ task' \in [Sessions -> Runs \cup {None}]
      /\ pick' \in [Sessions -> Jobs \cup {None}]
  BY DEF TypeInv, TypeOK, SessionsTypeOK, At
<1>2. p \in {"offered", "acked", "running", "reporting"} => task'[s] \in Runs
  BY DEF TypeInv, Linked, HoldersHaveTasks, At
<1> QED BY <1>1, <1>2, SessionFrame

------------------------------------------------------------------------------
(* Type correctness: the operations *)

(* A session that ends leaves the types as they were. *)
LEMMA CloseType ==
  ASSUME TypeInv, NEW s \in Sessions, Close(s)
  PROVE  SessionsTypeOK' /\ SessionsHaveClients' /\ HoldersHaveTasks' /\ NetTypeOK'
<1> USE DEF TypeInv, TypeOK, Linked, Close, SessionsTypeOK
<1>1. SessionsTypeOK'
  OBVIOUS
<1>2. SessionsHaveClients' /\ HoldersHaveTasks'
  BY DEF SessionsHaveClients, HoldersHaveTasks
<1>3. NetTypeOK'
  BY EmptySeq DEF NetTypeOK, Ended
<1> QED BY <1>1, <1>2, <1>3

(* Jobs and runs of ci_ctl and the web server, and jobs that age. *)
LEMMA EnvironmentType == ASSUME TypeInv, Environment PROVE TypeInv'
<1>1. UNCHANGED <<sessVars, memVars, netVars, rnrVars, faults>>
  BY DEF Environment, CreateJob, QueueRun, AgeOut
<1>2. RowsTypeOK'
  <2>1. CASE \E j \in Jobs : CreateJob(j) \/ AgeOut(j)
    BY <2>1 DEF CreateJob, AgeOut, TypeInv, TypeOK, RowsTypeOK
  <2>2. CASE \E j \in Jobs : QueueRun(j)
    BY <2>2 DEF QueueRun, InsertRun, TypeInv, TypeOK, RowsTypeOK
  <2> QED BY <2>1, <2>2 DEF Environment
<1> QED BY <1>1, <1>2, Frame DEF TypeInv, TypeOK, Linked

(* A runner that asks for work gets a place in the channel, or is refused. *)
LEMMA HandleNextJobType ==
  ASSUME TypeInv, NEW n \in Runners, NEW s \in Sessions, HandleNextJob(n, s)
  PROVE  TypeInv'
<1> USE DEF TypeInv, TypeOK, Linked, HandleNextJob
<1>1. queue' \in Seq(Sessions) /\ Len(queue') <= ChanCap
  <2>1. queue \in Seq(Sessions) /\ Len(queue) \in Nat
    BY LenProperties DEF SessionsTypeOK
  <2>2. Append(queue, s) \in Seq(Sessions) /\ Len(Append(queue, s)) = Len(queue) + 1
    BY <2>1, AppendProperties
  <2> QED BY <2>1, <2>2, BoundsAssumption
<1>2. SessionsTypeOK'
  BY <1>1 DEF SessionsTypeOK
<1>3. SessionsHaveClients' /\ HoldersHaveTasks'
  BY DEF SessionsTypeOK, SessionsHaveClients, HoldersHaveTasks
<1>4. RowsTypeOK'
  BY DEF RowsTypeOK
<1>5. NetTypeOK'
  BY EmptySeq DEF NetTypeOK
<1>6. RunnersTypeOK' /\ RunnersAreAttached'
  BY DEF RunnersTypeOK, RunnersAreAttached
<1> QED BY <1>2, <1>3, <1>4, <1>5, <1>6, Frame

(* find_client_task takes the oldest client of the channel. *)
LEMMA DispatchType == ASSUME TypeInv, Dispatch PROVE TypeInv'
<1> USE DEF TypeInv, TypeOK, Linked, Dispatch, At, Goto
<1>1. Head(queue) \in Sessions /\ queue' \in Seq(Sessions) /\ Len(queue') <= ChanCap
  <2>1. queue \in Seq(Sessions) /\ Len(queue) \in Nat /\ Len(queue) <= ChanCap
    BY LenProperties DEF SessionsTypeOK
  <2>2. Head(queue) \in Sessions /\ Tail(queue) \in Seq(Sessions) /\ Len(Tail(queue)) = Len(queue) - 1
    BY <2>1, HeadTailProperties
  <2> QED BY <2>1, <2>2, BoundsAssumption
<1>2. SessionsTypeOK'
  BY <1>1 DEF SessionsTypeOK
<1>3. SessionsHaveClients' /\ HoldersHaveTasks'
  BY <1>1 DEF SessionsTypeOK, SessionsHaveClients, HoldersHaveTasks
<1> QED BY <1>2, <1>3, Frame

(* It picks a pending run its client accepts, or none. *)
LEMMA FindPendingType == ASSUME TypeInv, NEW s \in Sessions, FindPending(s) PROVE TypeInv'
<1> USE DEF FindPending
<1>1. task' \in [Sessions -> Runs \cup {None}] /\ \A t \in Sessions \ {s} : task'[t] = task[t]
  BY DEF Choices, PendingRuns, TypeInv, TypeOK, SessionsTypeOK
<1>2. missing' \in [Sessions -> SUBSET (Jobs \cup {None})]
  <2>1. ASSUME NEW R \in SUBSET PendingRuns(MyHost(s)) PROVE Missing(R) \subseteq Jobs \cup {None}
    BY DEF Missing, PendingRuns, TypeInv, TypeOK, RowsTypeOK
  <2>2. \E R \in SUBSET PendingRuns(MyHost(s)) : missing' = [missing EXCEPT ![s] = Missing(R)]
    <3>1. ASSUME NEW r PROVE {q \in PendingRuns(MyHost(s)) : q >= r} \subseteq PendingRuns(MyHost(s))
      OBVIOUS
    <3> QED BY <3>1
  <2> QED BY <2>1, <2>2 DEF TypeInv, TypeOK, SessionsTypeOK
<1>3. SessionsTypeOK' /\ SessionsHaveClients' /\ HoldersHaveTasks'
  BY <1>1, <1>2, SessionFrame DEF At, TypeInv, TypeOK, SessionsTypeOK
<1> QED BY <1>3, Frame DEF TypeInv, TypeOK, Linked

(* It goes on without a run, ... *)
LEMMA NothingPendingType ==
  ASSUME TypeInv, NEW s \in Sessions, NothingPending(s)
  PROVE  TypeInv'
<1> USE DEF NothingPending, LookedUp
<1>1. missing' \in [Sessions -> SUBSET (Jobs \cup {None})]
  BY DEF TypeInv, TypeOK, SessionsTypeOK
<1>2. SessionsTypeOK' /\ SessionsHaveClients' /\ HoldersHaveTasks'
  BY <1>1, MoveOn DEF TypeInv, TypeOK, SessionsTypeOK
<1> QED BY <1>2, Frame DEF TypeInv, TypeOK, Linked

(* ... or offers the one it has to its client. *)
LEMMA SubmitType == ASSUME TypeInv, NEW s \in Sessions, Submit(s) PROVE TypeInv'
<1> USE DEF Submit, LookedUp
<1>1. NetTypeOK'
  <2>1. toRunner' \in [Sessions -> Seq(RunnerMsgs)]
    BY SendType DEF TypeInv, TypeOK, NetTypeOK
  <2> QED BY <2>1 DEF TypeInv, TypeOK, NetTypeOK
<1>2. missing' \in [Sessions -> SUBSET (Jobs \cup {None})] /\ task'[s] \in Runs /\ ~At(s, "closed")
  BY DEF At, TypeInv, TypeOK, SessionsTypeOK
<1>3. SessionsTypeOK' /\ SessionsHaveClients' /\ HoldersHaveTasks'
  BY <1>2, SessionFrame DEF TypeInv, TypeOK, SessionsTypeOK
<1> QED BY <1>1, <1>3, Frame DEF TypeInv, TypeOK, Linked

(* It picks a job its host has no run of, or goes on. *)
LEMMA FindAltType == ASSUME TypeInv, NEW s \in Sessions, FindAlt(s) PROVE TypeInv'
<1> USE DEF FindAlt
<1>1. NetTypeOK'
  <2>1. toRunner' \in [Sessions -> Seq(RunnerMsgs)]
    BY SendType DEF TypeInv, TypeOK, NetTypeOK
  <2> QED BY <2>1 DEF TypeInv, TypeOK, NetTypeOK
<1>2. SessionsTypeOK' /\ SessionsHaveClients' /\ HoldersHaveTasks'
  <2>1. pick' \in [Sessions -> Jobs \cup {None}]
    BY DEF AltChoices, NeedingRunOn, TypeInv, TypeOK, SessionsTypeOK, RowsTypeOK
  <2>2. PICK p \in {"altsel", "pinging"} : Goto(s, p)
    OBVIOUS
  <2>3. ~At(s, "closed")
    BY DEF At
  <2> QED BY <2>1, <2>2, <2>3, SessionFrame DEF TypeInv, TypeOK, SessionsTypeOK
<1> QED BY <1>1, <1>2, Frame DEF TypeInv, TypeOK, Linked

(* It makes a run of that job for its host. *)
LEMMA AltNewRunType == ASSUME TypeInv, NEW s \in Sessions, AltNewRun(s) PROVE TypeInv'
<1> USE DEF AltNewRun
<1>2. PICK r \in Runs : InsertRun(r, pick[s], MyHost(s)) /\ task' = [task EXCEPT ![s] = r]
  OBVIOUS
<1>3. RowsTypeOK'
  <2>1. MyHost(s) \in Hosts /\ pick[s] \in Jobs \cup {None}
    BY ConfigAssumption DEF At, MyHost, TypeInv, TypeOK, Linked, SessionsHaveClients, SessionsTypeOK
  <2> QED BY <1>2, <2>1 DEF InsertRun, TypeInv, TypeOK, RowsTypeOK
<1>4. SessionsTypeOK' /\ SessionsHaveClients' /\ HoldersHaveTasks'
  <2>1. task' \in [Sessions -> Runs \cup {None}] /\ task'[s] \in Runs
        /\ \A t \in Sessions \ {s} : task'[t] = task[t]
    BY <1>2 DEF TypeInv, TypeOK, SessionsTypeOK
  <2>2. ~At(s, "closed") /\ pick' \in [Sessions -> Jobs \cup {None}]
    BY DEF At, TypeInv, TypeOK, SessionsTypeOK
  <2> QED BY <2>1, <2>2, SessionFrame DEF TypeInv, TypeOK, SessionsTypeOK
<1> QED BY <1>3, <1>4, Frame DEF TypeInv, TypeOK, Linked

(* It pings the client between two looks at the tables. *)
LEMMA TestConnectionType ==
  ASSUME TypeInv, NEW s \in Sessions, TestConnection(s)
  PROVE  TypeInv'
<1>1. NetTypeOK'
  BY ReceiveType DEF TestConnection, TypeInv, TypeOK
<1>2. SessionsTypeOK' /\ SessionsHaveClients' /\ HoldersHaveTasks'
  BY MoveOn DEF TestConnection, TypeInv, TypeOK, SessionsTypeOK
<1> QED BY <1>1, <1>2, Frame DEF TestConnection, TypeInv, TypeOK, Linked

(* submit: the client acknowledges, and the run is active. *)
LEMMA RecvStartedType == ASSUME TypeInv, NEW s \in Sessions, RecvStarted(s) PROVE TypeInv'
<1>1. NetTypeOK'
  BY ReceiveType DEF RecvStarted, TypeInv, TypeOK
<1>2. SessionsTypeOK' /\ SessionsHaveClients' /\ HoldersHaveTasks'
  BY MoveOn DEF RecvStarted, TypeInv, TypeOK, SessionsTypeOK
<1>3. ReaperTypeOK'
  BY DEF RecvStarted, At, TypeInv, TypeOK, Linked, HoldersHaveTasks, ReaperTypeOK
<1> QED BY <1>1, <1>2, <1>3, Frame DEF RecvStarted, TypeInv, TypeOK, Linked

(* activate_run writes the row of the run its client has. *)
LEMMA ActivateRunType == ASSUME TypeInv, NEW s \in Sessions, ActivateRun(s) PROVE TypeInv'
<1> USE DEF ActivateRun
<1>1. RowsTypeOK'
  <2>1. MyHost(s) \in Hosts
    BY ConfigAssumption DEF At, MyHost, TypeInv, TypeOK, Linked, SessionsHaveClients, SessionsTypeOK
  <2> QED BY <2>1 DEF TypeInv, TypeOK, RowsTypeOK
<1>2. SessionsTypeOK' /\ SessionsHaveClients' /\ HoldersHaveTasks'
  BY MoveOn DEF TypeInv, TypeOK, SessionsTypeOK
<1> QED BY <1>1, <1>2, Frame DEF TypeInv, TypeOK, Linked

(* ClientJob::run hears the outcome of its run. *)
LEMMA RecvStatusType == ASSUME TypeInv, NEW s \in Sessions, RecvStatus(s) PROVE TypeInv'
<1>1. NetTypeOK'
  BY ReceiveType DEF RecvStatus, TypeInv, TypeOK
<1>2. verdict' \in [Sessions -> Verdicts \cup {None}]
  BY DEF RecvStatus, TypeInv, TypeOK, SessionsTypeOK
<1>3. SessionsTypeOK' /\ SessionsHaveClients' /\ HoldersHaveTasks'
  BY <1>2, MoveOn DEF RecvStatus, TypeInv, TypeOK, SessionsTypeOK
<1> QED BY <1>1, <1>3, Frame DEF RecvStatus, TypeInv, TypeOK, Linked

(* It writes the outcome and drops the client. *)
LEMMA CompleteRunType == ASSUME TypeInv, NEW s \in Sessions, CompleteRun(s) PROVE TypeInv'
<1> USE DEF CompleteRun
<1>1. RowsTypeOK'
  BY DEF TypeInv, TypeOK, RowsTypeOK, SessionsTypeOK
<1>2. verdict' \in [Sessions -> Verdicts \cup {None}]
  BY DEF TypeInv, TypeOK, SessionsTypeOK
<1>3. SessionsTypeOK' /\ SessionsHaveClients' /\ HoldersHaveTasks'
  BY <1>2, MoveOn DEF TypeInv, TypeOK, SessionsTypeOK
<1> QED BY <1>1, <1>3, Frame DEF TypeInv, TypeOK, Linked

(* old_task_reaper reads the rows, reads ACTIVE_TASKS, and reaps. *)
LEMMA ReaperStepType == ASSUME TypeInv, ReaperStep PROVE TypeInv'
<1>1. CASE ReaperSnapshot
  <2>1. ReaperTypeOK'
    BY <1>1 DEF ReaperSnapshot, TypeInv, TypeOK, ReaperTypeOK, RowsTypeOK
  <2> QED BY <1>1, <2>1, Frame DEF ReaperSnapshot, TypeInv, TypeOK, Linked
<1>2. CASE ReaperFilter
  <2>1. stale' \subseteq stale
    BY <1>2 DEF ReaperFilter
  <2>2. ReaperTypeOK'
    BY <1>2, <2>1 DEF ReaperFilter, TypeInv, TypeOK, ReaperTypeOK
  <2> QED BY <1>2, <2>2, Frame DEF ReaperFilter, TypeInv, TypeOK, Linked
<1>3. CASE \E r \in Runs : Reap(r)
  <2>1. PICK r \in Runs : Reap(r)
    BY <1>3
  <2>2. RowsTypeOK' /\ ReaperTypeOK'
    BY <2>1 DEF Reap, TypeInv, TypeOK, RowsTypeOK, ReaperTypeOK
  <2> QED BY <2>1, <2>2, Frame DEF Reap, TypeInv, TypeOK, Linked
<1> QED BY <1>1, <1>2, <1>3 DEF ReaperStep

(* A new process: no session, nothing active, the rows as they were. *)
LEMMA DriverRestartType == ASSUME TypeInv, DriverRestart PROVE TypeInv'
<1> USE DEF DriverRestart
<1>1. SessionsTypeOK'
  BY EmptySeq, BoundsAssumption DEF SessionsTypeOK
<1>2. SessionsHaveClients' /\ HoldersHaveTasks'
  BY DEF SessionsHaveClients, HoldersHaveTasks
<1>3. ReaperTypeOK'
  BY DEF ReaperTypeOK
<1>4. NetTypeOK'
  BY EmptySeq DEF TypeInv, TypeOK, NetTypeOK, Ended
<1> QED BY <1>1, <1>2, <1>3, <1>4, Frame DEF TypeInv, TypeOK, Linked

(* A lost connection keeps a prefix of what was on it. *)
LEMMA ConnLostType == ASSUME TypeInv, NEW s \in Sessions, ConnLost(s) PROVE TypeInv'
<1>1. NetTypeOK'
  <2>1. PICK q \in Prefix(toRunner[s]), p \in Prefix(toDriver[s]) :
          toRunner' = [toRunner EXCEPT ![s] = q] /\ toDriver' = [toDriver EXCEPT ![s] = p]
    BY DEF ConnLost
  <2>2. q \in Seq(RunnerMsgs) /\ p \in Seq(DriverMsgs)
    BY <2>1, PrefixType DEF TypeInv, TypeOK, NetTypeOK
  <2> QED BY <2>1, <2>2 DEF ConnLost, TypeInv, TypeOK, NetTypeOK
<1> QED BY <1>1, Frame DEF ConnLost, TypeInv, TypeOK, Linked

(* A runner that drops its connection. *)
LEMMA DisconnectType ==
  ASSUME TypeInv, NEW n \in Runners, rphase[n] # "idle",
         NEW read \in Seq(DriverMsgs), Disconnect(n, read)
  PROVE  NetTypeOK' /\ RunnersTypeOK' /\ RunnersAreAttached'
<1> USE DEF TypeInv, TypeOK, Linked, Disconnect
<1>1. NetTypeOK'
  BY EmptySeq DEF NetTypeOK, Ended
<1>2. RunnersTypeOK'
  BY DEF RunnersTypeOK
<1>3. RunnersAreAttached'
  BY DEF RunnersTypeOK, RunnersAreAttached
<1> QED BY <1>1, <1>2, <1>3

(* A runner answers, starts a build, reports, or gives up. *)
LEMMA RunnerStepType == ASSUME TypeInv, NEW n \in Runners, RunnerStep(n) PROVE TypeInv'
<1>1. CASE RunnerPong(n)
  <2>1. rsess[n] \in Sessions /\ toRunner' \in [Sessions -> Seq(RunnerMsgs)]
    BY <1>1, GetsType DEF RunnerPong, TypeInv, TypeOK
  <2>2. toDriver' \in [Sessions -> Seq(DriverMsgs)]
    BY <1>1, <2>1, ReplyType DEF RunnerPong, TypeInv, TypeOK
  <2>3. NetTypeOK'
    BY <1>1, <2>1, <2>2 DEF RunnerPong, TypeInv, TypeOK, NetTypeOK
  <2> QED BY <1>1, <2>3, Frame DEF RunnerPong, TypeInv, TypeOK, Linked
<1>2. CASE RunnerStart(n)
  <2>1. rsess[n] \in Sessions /\ toRunner' \in [Sessions -> Seq(RunnerMsgs)]
    BY <1>2, GetsType DEF RunnerStart, TypeInv, TypeOK
  <2>2. toDriver' \in [Sessions -> Seq(DriverMsgs)]
    BY <1>2, <2>1, ReplyType DEF RunnerStart, TypeInv, TypeOK
  <2>3. NetTypeOK'
    BY <1>2, <2>1, <2>2 DEF RunnerStart, TypeInv, TypeOK, NetTypeOK
  <2>4. RunnersTypeOK' /\ RunnersAreAttached'
    BY <1>2, <2>1 DEF RunnerStart, TypeInv, TypeOK, Linked, RunnersTypeOK, RunnersAreAttached
  <2> QED BY <1>2, <2>3, <2>4, Frame DEF RunnerStart, TypeInv, TypeOK, Linked
<1>3. CASE RunnerStartPanic(n) \/ RunnerClosed(n)
  <2>1. rphase[n] # "idle" /\ Disconnect(n, toDriver[rsess[n]])
    BY <1>3 DEF RunnerStartPanic, RunnerClosed
  <2>2. toDriver[rsess[n]] \in Seq(DriverMsgs)
    BY <2>1 DEF TypeInv, TypeOK, Linked, RunnersAreAttached, NetTypeOK
  <2>3. NetTypeOK' /\ RunnersTypeOK' /\ RunnersAreAttached'
    BY <2>1, <2>2, DisconnectType
  <2> QED BY <1>3, <2>3, Frame DEF RunnerStartPanic, RunnerClosed, TypeInv, TypeOK, Linked
<1>4. CASE RunnerReport(n)
  <2>1. rphase[n] # "idle" /\ toDriver[rsess[n]] \in Seq(DriverMsgs)
    BY <1>4 DEF RunnerReport, TypeInv, TypeOK, Linked, RunnersAreAttached, NetTypeOK
  <2>2. PICK v \in Verdicts :
          Disconnect(n, IF up[rsess[n]] = "up" THEN Append(toDriver[rsess[n]], v)
                                               ELSE toDriver[rsess[n]])
    BY <1>4 DEF RunnerReport
  <2>3. Append(toDriver[rsess[n]], v) \in Seq(DriverMsgs)
    BY <2>1, AppendProperties
  <2>4. NetTypeOK' /\ RunnersTypeOK' /\ RunnersAreAttached'
    BY <2>1, <2>2, <2>3, DisconnectType
  <2> QED BY <1>4, <2>4, Frame DEF RunnerReport, TypeInv, TypeOK, Linked
<1> QED BY <1>1, <1>2, <1>3, <1>4 DEF RunnerStep

(* A panic, a crash or a hang-up, of either side. *)
LEMMA FaultyType == ASSUME TypeInv, Faulty PROVE TypeInv'
<1>1. CASE DriverRestart
  BY <1>1, DriverRestartType
<1>2. ASSUME NEW n \in Runners, RunnerCrash(n) PROVE TypeInv'
  <2>1. rphase[n] # "idle" /\ toDriver[rsess[n]] \in Seq(DriverMsgs)
    BY <1>2 DEF RunnerCrash, TypeInv, TypeOK, Linked, RunnersAreAttached, NetTypeOK
  <2>2. PICK read \in Prefix(toDriver[rsess[n]]) : Disconnect(n, read)
    BY <1>2 DEF RunnerCrash
  <2>3. NetTypeOK' /\ RunnersTypeOK' /\ RunnersAreAttached'
    BY <2>1, <2>2, PrefixType, DisconnectType
  <2> QED BY <1>2, <2>3, Frame DEF RunnerCrash, TypeInv, TypeOK, Linked
<1>3. ASSUME NEW s \in Sessions, ConnLost(s) PROVE TypeInv'
  BY <1>3, ConnLostType
<1>4. ASSUME NEW s \in Sessions, TaskPanics(s) PROVE TypeInv'
  BY <1>4, CloseType, Frame DEF TaskPanics, TypeInv, TypeOK, Linked
<1> QED BY <1>1, <1>2, <1>3, <1>4 DEF Faulty

(* One lemma for each step of a session. *)
LEMMA SessionStepType == ASSUME TypeInv, NEW s \in Sessions, SessionStep(s) PROVE TypeInv'
<1>1. CASE JobMissing(s) \/ PreludePanics(s) \/ Deadline(s) \/ HangUp(s)
  BY <1>1, CloseType, Frame DEF JobMissing, PreludePanics, Deadline, HangUp, TypeInv, TypeOK, Linked
<1> QED BY <1>1, FindPendingType, NothingPendingType, SubmitType, FindAltType, AltNewRunType, TestConnectionType,
           RecvStartedType, ActivateRunType, RecvStatusType, CompleteRunType
        DEF SessionStep

(* Every step keeps the inductive invariant of the types. *)
LEMMA TypeNext == TypeInv /\ [Next]_vars => TypeInv'
<1> SUFFICES ASSUME TypeInv, [Next]_vars PROVE TypeInv'
  OBVIOUS
<1>1. CASE UNCHANGED vars
  BY <1>1, Frame DEF vars, TypeInv, TypeOK, Linked
<1>2. CASE \E n \in Runners : Connect(n) \/ RunnerStep(n)
  BY <1>2, HandleNextJobType, RunnerStepType DEF Connect
<1>3. CASE \E s \in Sessions : SessionStep(s)
  BY <1>3, SessionStepType
<1>4. CASE Network
  <2>1. NetTypeOK'
    BY <1>4 DEF Network, ConnNoticed, TypeInv, TypeOK, NetTypeOK
  <2> QED BY <1>4, <2>1, Frame DEF Network, ConnNoticed, TypeInv, TypeOK, Linked
<1> QED BY <1>1, <1>2, <1>3, <1>4, EnvironmentType, DispatchType, ReaperStepType, FaultyType
        DEF Next

(* Every state the driver, its runners and its database can reach has the   *)
(* stated shape: ids are of rows, the channel never exceeds its capacity,   *)
(* and a session past the channel knows its client.                         *)
THEOREM TypeCorrect == Spec => []TypeInv
BY TypeInit, TypeNext, PTL DEF Spec

(* TypeOK, which the runs check, follows. *)
THEOREM TypesHold == Spec => []TypeOK
<1>1. TypeInv => TypeOK
  BY DEF TypeInv
<1> QED BY <1>1, TypeCorrect, PTL

------------------------------------------------------------------------------
(* The reaper                                                               *)
(*                                                                          *)
(* Unheld collects what ReaperInv adds to the links of TypeInv.             *)
Unheld == /\ AckedIsActive /\ OthersAreUnheld
          /\ StaleIsUnheld /\ ReapingIsInactive /\ ReapedIsInactive

Acked == {"acked", "running", "reporting"}

(* At the start no session has a run and the reaper has seen none. *)
LEMMA UnheldInit == Init => Unheld
BY DEF Init, Unheld, AckedIsActive, OthersAreUnheld, StaleIsUnheld, ReapingIsInactive,
       ReapedIsInactive

(* Steps that leave rows and reaper alone and give no session a run. *)
LEMMA QuietStep ==
  ASSUME Unheld, UNCHANGED <<state, active, sweep, stale>>,
         \A s \in Sessions : phase'[s] \in Acked => phase[s] \in Acked /\ task'[s] = task[s],
         \A s \in Sessions, r \in Runs : Holds(s, r)' => Holds(s, r)
  PROVE  Unheld'
BY DEF Unheld, AckedIsActive, OthersAreUnheld, StaleIsUnheld, ReapingIsInactive,
       ReapedIsInactive, Acked

(* A session that chooses a run chooses a pending one, which is neither     *)
(* stale nor past pending.                                                  *)
LEMMA ChoiceStep ==
  ASSUME TypeInv, Unheld, NEW s \in Sessions, NEW r \in Runs, state'[r] = "pending",
         state[r] \in {"absent", "pending"},
         \A q \in Runs \ {r} : state'[q] = state[q],
         UNCHANGED <<active, sweep, stale>>,
         \A t \in Sessions : phase'[t] \in Acked => phase[t] \in Acked /\ task'[t] = task[t],
         \A t \in Sessions, q \in Runs \ {r} : Holds(t, q)' => Holds(t, q)
  PROVE  Unheld'
<1>1. AckedIsActive'
  BY DEF Unheld, AckedIsActive, Acked
<1>2. OthersAreUnheld'
  BY DEF Unheld, OthersAreUnheld
<1>3. StaleIsUnheld'
  BY DEF Unheld, StaleIsUnheld
<1>4. ReapingIsInactive' /\ ReapedIsInactive'
  BY DEF Unheld, ReapingIsInactive, ReapedIsInactive
<1> QED BY <1>1, <1>2, <1>3, <1>4 DEF Unheld

(* A run made for a host is a new row, held by nobody else. *)
LEMMA InsertUnheld ==
  ASSUME TypeInv, Unheld, NEW s \in Sessions, AltNewRun(s)
  PROVE  Unheld'
<1>1. PICK r \in Runs : InsertRun(r, pick[s], MyHost(s)) /\ task' = [task EXCEPT ![s] = r]
  BY DEF AltNewRun
<1>2. /\ state[r] = "absent" /\ state'[r] = "pending"
      /\ \A q \in Runs \ {r} : state'[q] = state[q]
  BY <1>1 DEF InsertRun, NextId, TypeInv, TypeOK, RowsTypeOK
<1>3. \A t \in Sessions : phase'[t] \in Acked => phase[t] \in Acked /\ task'[t] = task[t]
  BY <1>1 DEF AltNewRun, At, Goto, Acked, TypeInv, TypeOK, SessionsTypeOK
<1>4. \A t \in Sessions, q \in Runs \ {r} : Holds(t, q)' => Holds(t, q)
  BY <1>1 DEF AltNewRun, At, Goto, Holds, TypeInv, TypeOK, SessionsTypeOK
<1>5. UNCHANGED <<active, sweep, stale>>
  BY DEF AltNewRun, memVars
<1> QED BY <1>2, <1>3, <1>4, <1>5, ChoiceStep

(* A queued run is a new row, pending and not yet seen by the reaper. *)
LEMMA QueueUnheld ==
  ASSUME TypeInv, Unheld, NEW j \in Jobs, QueueRun(j)
  PROVE  Unheld'
<1>1. PICK r \in Runs : InsertRun(r, j, None)
  BY DEF QueueRun
<1>2. /\ state[r] = "absent" /\ state'[r] = "pending"
      /\ \A q \in Runs \ {r} : state'[q] = state[q]
  BY <1>1 DEF InsertRun, NextId, TypeInv, TypeOK, RowsTypeOK
<1>3. UNCHANGED <<active, sweep, stale, phase, task>>
  BY DEF QueueRun, memVars, sessVars
<1>4. AckedIsActive'
  BY <1>3 DEF Unheld, AckedIsActive
<1>5. OthersAreUnheld' /\ StaleIsUnheld'
  BY <1>2, <1>3 DEF Unheld, OthersAreUnheld, StaleIsUnheld, Holds
<1>6. ReapingIsInactive' /\ ReapedIsInactive'
  BY <1>2, <1>3 DEF Unheld, ReapingIsInactive, ReapedIsInactive
<1> QED BY <1>4, <1>5, <1>6 DEF Unheld

(* A session takes its run from the pending ones. *)
LEMMA FindPendingUnheld ==
  ASSUME TypeInv, Unheld, NEW s \in Sessions, FindPending(s)
  PROVE  Unheld'
<1>1. UNCHANGED <<state, active, sweep, stale>>
  BY DEF FindPending, dbVars, memVars
<1>2. CASE \E r \in Choices(s) : task' = [task EXCEPT ![s] = r]
  <2>1. PICK r \in Runs : state[r] = "pending" /\ task' = [task EXCEPT ![s] = r]
    BY <1>2 DEF Choices, PendingRuns
  <2>2. phase[s] = "finding" /\ phase' = [phase EXCEPT ![s] = "looking"]
    BY DEF FindPending, At, Goto
  <2>3. \A t \in Sessions : phase'[t] \in Acked => phase[t] \in Acked /\ task'[t] = task[t]
    BY <2>1, <2>2 DEF Acked, TypeInv, TypeOK, SessionsTypeOK
  <2>4. \A t \in Sessions, q \in Runs \ {r} : Holds(t, q)' => Holds(t, q)
    BY <2>1, <2>2 DEF Holds, TypeInv, TypeOK, SessionsTypeOK
  <2> QED BY <1>1, <2>1, <2>3, <2>4, ChoiceStep
<1>3. CASE task' = [task EXCEPT ![s] = None]
  <2>1. phase[s] = "finding" /\ phase' = [phase EXCEPT ![s] = "looking"]
    BY DEF FindPending, At, Goto
  <2>2. \A t \in Sessions : phase'[t] \in Acked => phase[t] \in Acked /\ task'[t] = task[t]
    BY <1>3, <2>1 DEF Acked, TypeInv, TypeOK, SessionsTypeOK
  <2>3. \A t \in Sessions, q \in Runs : Holds(t, q)' => Holds(t, q)
    BY <1>3, <2>1, NullAssumption DEF Holds, TypeInv, TypeOK, SessionsTypeOK
  <2> QED BY <1>1, <2>2, <2>3, QuietStep
<1> QED BY <1>2, <1>3 DEF FindPending

(* The run becomes active while it is held, so it was not about to be       *)
(* reaped, and was not reaped before.                                       *)
LEMMA RecvStartedUnheld ==
  ASSUME TypeInv, Unheld, NEW s \in Sessions, RecvStarted(s)
  PROVE  Unheld'
<1>1. /\ phase[s] = "offered" /\ phase' = [phase EXCEPT ![s] = "acked"]
      /\ UNCHANGED <<state, sweep, stale, task>> /\ active' = active \cup {task[s]}
  BY DEF RecvStarted, At, Goto, dbVars
<1>2. task[s] \in Runs /\ Holds(s, task[s])
  BY <1>1 DEF TypeInv, Linked, HoldersHaveTasks, Holds
<1>3. \A t \in Sessions, q \in Runs : Holds(t, q)' => Holds(t, q)
  BY <1>1 DEF Holds, TypeInv, TypeOK, SessionsTypeOK
<1>4. AckedIsActive'
  BY <1>1 DEF Unheld, AckedIsActive, TypeInv, TypeOK, SessionsTypeOK
<1>5. OthersAreUnheld' /\ StaleIsUnheld'
  BY <1>1, <1>3 DEF Unheld, OthersAreUnheld, StaleIsUnheld
<1>6. ReapingIsInactive'
  <2> SUFFICES ASSUME sweep = "reaping", NEW p \in stale PROVE p[2] = "started" /\ p[1] \notin active'
    BY <1>1 DEF ReapingIsInactive
  <2>1. p[2] = "started" /\ p[1] \notin active
    BY DEF Unheld, ReapingIsInactive
  <2>2. p = <<p[1], "started">> /\ p[1] \in Runs
    BY <2>1 DEF TypeInv, TypeOK, ReaperTypeOK
  <2>3. ~Holds(s, p[1])
    BY <2>1, <2>2 DEF Unheld, StaleIsUnheld
  <2> QED BY <1>1, <1>2, <2>1, <2>3
<1>7. ReapedIsInactive'
  BY <1>1, <1>2 DEF Unheld, ReapedIsInactive, OthersAreUnheld
<1> QED BY <1>4, <1>5, <1>6, <1>7 DEF Unheld

(* A session that writes a row writes that of an active run. *)
LEMMA WriteUnheld ==
  ASSUME TypeInv, Unheld, NEW s \in Sessions, ActivateRun(s) \/ CompleteRun(s)
  PROVE  Unheld'
<1>1. /\ phase[s] \in Acked /\ UNCHANGED <<active, sweep, stale, task>>
      /\ phase' = [phase EXCEPT ![s] = "running"]
  BY DEF ActivateRun, CompleteRun, At, Goto, Acked, memVars
<1>2. task[s] \in active /\ task[s] \in Runs
  BY <1>1 DEF Unheld, AckedIsActive, Acked, TypeInv, Linked, HoldersHaveTasks
<1>3. /\ \A q \in Runs : q # task[s] => state'[q] = state[q]
      /\ state'[task[s]] \in {"started", "finished", "error"}
  BY <1>2 DEF ActivateRun, CompleteRun, TypeInv, TypeOK, RowsTypeOK
<1>4. \A t \in Sessions, q \in Runs : Holds(t, q)' => Holds(t, q)
  BY <1>1 DEF Holds, Acked, TypeInv, TypeOK, SessionsTypeOK
<1>5. AckedIsActive'
  BY <1>1 DEF Unheld, AckedIsActive, Acked, TypeInv, TypeOK, SessionsTypeOK
<1>6. OthersAreUnheld' /\ StaleIsUnheld'
  BY <1>1, <1>2, <1>3, <1>4 DEF Unheld, OthersAreUnheld, StaleIsUnheld
<1>7. ReapingIsInactive' /\ ReapedIsInactive'
  BY <1>1, <1>2, <1>3 DEF Unheld, ReapingIsInactive, ReapedIsInactive
<1> QED BY <1>5, <1>6, <1>7 DEF Unheld

(* The rows the reaper reads as started are of acknowledged runs. *)
LEMMA ReaperSnapshotUnheld == ASSUME TypeInv, Unheld, ReaperSnapshot PROVE Unheld'
<1>1. UNCHANGED <<state, active, phase, task>> /\ sweep' = "snapped"
  BY DEF ReaperSnapshot, dbVars, sessVars
<1>2. \A r \in Runs : <<r, "started">> \in stale' => state[r] = "started"
  BY DEF ReaperSnapshot
<1>3. AckedIsActive' /\ OthersAreUnheld'
  BY <1>1 DEF Unheld, AckedIsActive, OthersAreUnheld, Holds
<1>4. StaleIsUnheld'
  BY <1>1, <1>2 DEF Unheld, StaleIsUnheld, OthersAreUnheld, Holds
<1>5. ReapingIsInactive' /\ ReapedIsInactive'
  BY <1>1 DEF Unheld, ReapingIsInactive, ReapedIsInactive
<1> QED BY <1>3, <1>4, <1>5 DEF Unheld

(* What is left after ACTIVE_TASKS is read is held by no session. *)
LEMMA ReaperFilterUnheld == ASSUME TypeInv, Unheld, ReaperFilter PROVE Unheld'
<1>1. UNCHANGED <<state, active, phase, task>>
  BY DEF ReaperFilter, dbVars, sessVars
<1>2. stale' \subseteq stale /\ \A p \in stale' : p[1] \notin active /\ p[2] = "started"
  BY DEF ReaperFilter
<1>3. AckedIsActive' /\ OthersAreUnheld' /\ ReapedIsInactive'
  BY <1>1 DEF Unheld, AckedIsActive, OthersAreUnheld, ReapedIsInactive, Holds
<1>4. StaleIsUnheld'
  BY <1>1, <1>2 DEF Unheld, StaleIsUnheld, Holds
<1>5. ReapingIsInactive'
  BY <1>1, <1>2 DEF ReapingIsInactive
<1> QED BY <1>3, <1>4, <1>5 DEF Unheld

(* What the reaper is about to give up is started, inactive and unheld. *)
LEMMA ReapIsSafe ==
  ASSUME TypeInv, Unheld, NEW r \in Runs, Reap(r)
  PROVE  /\ <<r, "started">> \in stale /\ stale' = stale \ {<<r, "started">>}
         /\ r \notin active /\ state[r] = "started"
         /\ ~\E s \in Sessions : Holds(s, r)
<1>1. PICK p \in stale : p[1] = r /\ stale' = stale \ {p}
  BY DEF Reap
<1>2. p = <<r, "started">> /\ r \notin active
  BY <1>1 DEF Reap, Unheld, ReapingIsInactive, TypeInv, TypeOK, ReaperTypeOK
<1> QED BY <1>1, <1>2 DEF Unheld, StaleIsUnheld

(* A reaped run stays unheld, and inactive. *)
LEMMA ReapUnheld == ASSUME TypeInv, Unheld, NEW r \in Runs, Reap(r) PROVE Unheld'
<1>1. /\ UNCHANGED <<active, sweep, phase, task>>
      /\ state'[r] = "invalid" /\ \A q \in Runs \ {r} : state'[q] = state[q]
  BY DEF Reap, sessVars, TypeInv, TypeOK, RowsTypeOK
<1>2. AckedIsActive'
  BY <1>1 DEF Unheld, AckedIsActive
<1>3. OthersAreUnheld' /\ ReapedIsInactive'
  BY <1>1, ReapIsSafe DEF Unheld, OthersAreUnheld, ReapedIsInactive, Holds
<1>4. StaleIsUnheld' /\ ReapingIsInactive'
  BY <1>1, ReapIsSafe DEF Unheld, StaleIsUnheld, ReapingIsInactive, Holds
<1> QED BY <1>2, <1>3, <1>4 DEF Unheld

(* After a restart nothing is active and nothing is held. *)
LEMMA DriverRestartUnheld == ASSUME TypeInv, Unheld, DriverRestart PROVE Unheld'
BY DEF DriverRestart, dbVars, Unheld, AckedIsActive, OthersAreUnheld, StaleIsUnheld,
       ReapingIsInactive, ReapedIsInactive, Holds

(* The other steps of a session lose a run or keep the one they have. *)
LEMMA OtherSessionStepUnheld ==
  ASSUME TypeInv, Unheld, NEW s \in Sessions,
         \/ NothingPending(s) \/ Submit(s) \/ FindAlt(s) \/ TestConnection(s) \/ RecvStatus(s)
         \/ JobMissing(s) \/ PreludePanics(s) \/ Deadline(s) \/ HangUp(s) \/ TaskPanics(s)
  PROVE  Unheld'
<1>1. UNCHANGED <<state, active, sweep, stale>>
  BY DEF NothingPending, Submit, FindAlt, TestConnection, RecvStatus, JobMissing, PreludePanics,
         Deadline, HangUp, TaskPanics, dbVars, memVars
<1>2. CASE NothingPending(s) \/ Submit(s) \/ FindAlt(s) \/ TestConnection(s) \/ RecvStatus(s)
  <2>1. /\ task' = task
        /\ \/ phase[s] = "running" /\ phase' = [phase EXCEPT ![s] = "reporting"]
           \/ phase[s] = "looking" /\ phase' = [phase EXCEPT ![s] = "offered"]
           \/ \E p \in {"alt", "altsel", "pinging", "finding"} : phase' = [phase EXCEPT ![s] = p]
    BY <1>2 DEF NothingPending, Submit, LookedUp, FindAlt, TestConnection, RecvStatus, At, Goto
  <2>2. \A t \in Sessions : phase'[t] \in Acked => phase[t] \in Acked /\ task'[t] = task[t]
    BY <2>1 DEF Acked, TypeInv, TypeOK, SessionsTypeOK
  <2>3. \A t \in Sessions, q \in Runs : Holds(t, q)' => Holds(t, q)
    BY <2>1 DEF Holds, TypeInv, TypeOK, SessionsTypeOK
  <2> QED BY <1>1, <2>2, <2>3, QuietStep
<1>3. CASE JobMissing(s) \/ PreludePanics(s) \/ Deadline(s) \/ HangUp(s) \/ TaskPanics(s)
  <2>1. phase' = [phase EXCEPT ![s] = "closed"] /\ task' = [task EXCEPT ![s] = None]
    BY <1>3 DEF JobMissing, PreludePanics, Deadline, HangUp, TaskPanics, Close
  <2>2. \A t \in Sessions : phase'[t] \in Acked => phase[t] \in Acked /\ task'[t] = task[t]
    BY <2>1 DEF Acked, TypeInv, TypeOK, SessionsTypeOK
  <2>3. \A t \in Sessions, q \in Runs : Holds(t, q)' => Holds(t, q)
    BY <2>1 DEF Holds, TypeInv, TypeOK, SessionsTypeOK
  <2> QED BY <1>1, <2>2, <2>3, QuietStep
<1> QED BY <1>2, <1>3

(* New connections and the steps of runners give no session a run. *)
LEMMA OutsideStepUnheld ==
  ASSUME TypeInv, Unheld,
         \/ \E j \in Jobs : CreateJob(j) \/ AgeOut(j)
         \/ \E n \in Runners : Connect(n) \/ RunnerStep(n) \/ RunnerCrash(n)
         \/ Dispatch
         \/ \E s \in Sessions : ConnLost(s) \/ ConnNoticed(s)
  PROVE  Unheld'
<1>1. UNCHANGED <<state, active, sweep, stale, task>>
  BY DEF CreateJob, AgeOut, Connect, HandleNextJob, RunnerStep, RunnerPong, RunnerStart,
         RunnerStartPanic, RunnerReport, RunnerClosed, RunnerCrash, Dispatch, ConnLost, ConnNoticed,
         dbVars, sessVars, memVars
<1>2. phase' = phase \/ \E s : phase' = [phase EXCEPT ![s] = "queued"]
                     \/ phase' = [phase EXCEPT ![s] = "finding"]
  BY DEF CreateJob, AgeOut, Connect, HandleNextJob, RunnerStep, RunnerPong, RunnerStart,
         RunnerStartPanic, RunnerReport, RunnerClosed, RunnerCrash, Dispatch, ConnLost, ConnNoticed,
         sessVars, Goto
<1>3. \A t \in Sessions : phase'[t] \in Acked => phase[t] \in Acked /\ task'[t] = task[t]
  BY <1>1, <1>2 DEF Acked, TypeInv, TypeOK, SessionsTypeOK
<1>4. \A t \in Sessions, q \in Runs : Holds(t, q)' => Holds(t, q)
  BY <1>1, <1>2 DEF Holds, TypeInv, TypeOK, SessionsTypeOK
<1> QED BY <1>1, <1>3, <1>4, QuietStep

(* Every step keeps what the reaper relies on. *)
LEMMA UnheldNext == TypeInv /\ Unheld /\ [Next]_vars => Unheld'
<1> SUFFICES ASSUME TypeInv, Unheld, [Next]_vars PROVE Unheld'
  OBVIOUS
<1>1. CASE UNCHANGED vars
  BY <1>1, QuietStep DEF vars, dbVars, sessVars, memVars, Holds
<1>2. CASE Environment
  BY <1>2, QueueUnheld, OutsideStepUnheld DEF Environment
<1>3. CASE \E n \in Runners : Connect(n) \/ RunnerStep(n)
  BY <1>3, OutsideStepUnheld
<1>4. CASE Dispatch
  BY <1>4, OutsideStepUnheld
<1>5. ASSUME NEW s \in Sessions, SessionStep(s) PROVE Unheld'
  BY <1>5, FindPendingUnheld, InsertUnheld, RecvStartedUnheld, WriteUnheld,
     OtherSessionStepUnheld DEF SessionStep
<1>6. CASE ReaperStep
  BY <1>6, ReaperSnapshotUnheld, ReaperFilterUnheld, ReapUnheld DEF ReaperStep
<1>7. CASE Faulty
  BY <1>7, DriverRestartUnheld, OutsideStepUnheld, OtherSessionStepUnheld DEF Faulty
<1>8. CASE Network
  BY <1>8, OutsideStepUnheld DEF Network
<1> QED BY <1>1, <1>2, <1>3, <1>4, <1>5, <1>6, <1>7, <1>8 DEF Next

(* Runs past pending that no session of this process acknowledged are held  *)
(* by no session, and stay so until the reaper is done with them.           *)
THEOREM ReaperInvHolds == Spec => []ReaperInv
<1>1. Init => TypeInv /\ Unheld
  BY TypeInit, UnheldInit
<1>2. TypeInv /\ Unheld /\ [Next]_vars => (TypeInv /\ Unheld)'
  BY TypeNext, UnheldNext
<1>3. TypeInv /\ Unheld => ReaperInv
  BY DEF TypeInv, Linked, Unheld, ReaperInv
<1> QED BY <1>1, <1>2, <1>3, PTL DEF Spec

------------------------------------------------------------------------------
(* What a step may do to a row's state *)

Recorded(r) == \E s \in Sessions : /\ phase[s] \in Acked /\ task[s] = r
                                   /\ state'[r] \in {"started", "finished", "error"}

(* What a step may do to the state of a run. *)
LEMMA StateStep ==
  ASSUME TypeInv, [Next]_vars, NEW r \in Runs
  PROVE  \/ state'[r] = state[r]
         \/ state[r] = "absent" /\ state'[r] = "pending"
         \/ Recorded(r)
         \/ Reap(r)
<1> DEFINE Goal == \/ state'[r] = state[r]
                   \/ state[r] = "absent" /\ state'[r] = "pending"
                   \/ Recorded(r)
                   \/ Reap(r)
<1>1. ASSUME NEW q \in Runs, NEW j, NEW h, InsertRun(q, j, h) PROVE Goal
  BY <1>1 DEF InsertRun, NextId, TypeInv, TypeOK, RowsTypeOK
<1>2. ASSUME NEW s \in Sessions, ActivateRun(s) \/ CompleteRun(s) PROVE Goal
  <2>1. phase[s] \in Acked
    BY <1>2 DEF ActivateRun, CompleteRun, At, Acked
  <2> QED BY <1>2, <2>1 DEF ActivateRun, CompleteRun, Recorded, TypeInv, TypeOK, RowsTypeOK
<1>3. ASSUME NEW q \in Runs, Reap(q) PROVE Goal
  BY <1>3 DEF Reap, TypeInv, TypeOK, RowsTypeOK
<1>4. CASE Environment
  BY <1>4, <1>1 DEF Environment, QueueRun, CreateJob, AgeOut
<1>5. ASSUME NEW s \in Sessions, SessionStep(s) PROVE Goal
  BY <1>5, <1>1, <1>2
  DEF SessionStep, FindPending, NothingPending, Submit, FindAlt, AltNewRun, TestConnection,
      JobMissing, PreludePanics, Deadline, HangUp, RecvStarted, RecvStatus, dbVars
<1>6. CASE ReaperStep
  BY <1>6, <1>3 DEF ReaperStep, ReaperSnapshot, ReaperFilter, dbVars
<1>7. CASE Faulty \/ Network \/ Dispatch \/ UNCHANGED vars
  BY <1>7 DEF Network, ConnNoticed, Faulty, DriverRestart, RunnerCrash, ConnLost, TaskPanics, Dispatch, vars, dbVars
<1>8. CASE \E n \in Runners : Connect(n) \/ RunnerStep(n)
  BY <1>8 DEF Connect, HandleNextJob, RunnerStep, RunnerPong, RunnerStart, RunnerStartPanic,
              RunnerReport, RunnerClosed, dbVars
<1> QED BY <1>4, <1>5, <1>6, <1>7, <1>8 DEF Next

(* old_task_reaper reads the rows before ACTIVE_TASKS, and submit fills     *)
(* ACTIVE_TASKS before the row is updated; hence no session loses its run   *)
(* to the reaper, whenever the sweep runs.                                  *)
THEOREM ReaperSpares == Spec => ReaperSparesHeldRuns
<1>1. TypeInv /\ Unheld /\ [Next]_vars =>
        [\A r \in Runs : Reaps(r) => state[r] = "started" /\ ~\E s \in Sessions : Holds(s, r)]_vars
  <2> SUFFICES ASSUME TypeInv, Unheld, [Next]_vars, NEW r \in Runs, Reaps(r)
               PROVE  state[r] = "started" /\ ~\E s \in Sessions : Holds(s, r)
    OBVIOUS
  <2>1. Reap(r)
    BY StateStep DEF Reaps, Recorded
  <2> QED BY <2>1, ReapIsSafe
<1> QED BY <1>1, TypeInit, UnheldInit, TypeNext, UnheldNext, PTL DEF Spec, ReaperSparesHeldRuns

(* activate_run and ClientJob::run write a row whatever its state, and yet  *)
(* never that of a run that was given up.                                   *)
THEOREM ReapedStaysReaped == Spec => ReapedIsFinal
<1>1. TypeInv /\ Unheld /\ [Next]_vars =>
        [\A r \in Runs : state[r] = "invalid" => state'[r] = "invalid"]_vars
  <2> SUFFICES ASSUME TypeInv, Unheld, [Next]_vars, NEW r \in Runs, state[r] = "invalid"
               PROVE  state'[r] = "invalid"
    OBVIOUS
  <2>1. ~Recorded(r)
    BY DEF Unheld, ReapedIsInactive, AckedIsActive, Acked, Recorded
  <2>2. ~Reap(r)
    BY ReapIsSafe
  <2> QED BY <2>1, <2>2, StateStep
<1> QED BY <1>1, TypeInit, UnheldInit, TypeNext, UnheldNext, PTL DEF Spec, ReapedIsFinal
==============================================================================
