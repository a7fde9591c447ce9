---------------------------- MODULE Ledger_proofs ----------------------------
(****************************************************************************)
(* The driver implements the ledger of runs: every step of Driver is a step *)
(* of RunLedger, or none, for any number of sessions, runs and faults.      *)
(****************************************************************************)
EXTENDS Dispatch_proofs

(* What stands for the ledger's claims and owners. *)
Claiming == {"looking", "offered", "acked"}
Claims == [r \in Runs |->
             {s \in Sessions : task[s] = r /\ phase[s] \in {"looking", "offered", "acked"}}]
Owners == [r \in Runs |-> {s \in Sessions : task[s] = r /\ phase[s] \in {"running", "reporting"}}]

USE DEF RunState, Phases, Held, Building, Claiming

(* There is no row and no session when the driver first starts. *)
LEMMA LedgerInit == Init => Ledger!Init
BY DEF Init, Ledger!Init

(* Sessions that neither take, start nor give up a run. *)
LEMMA SameClaims ==
  ASSUME \A s \in Sessions : /\ (phase'[s] \in Claiming) <=> (phase[s] \in Claiming)
                             /\ (phase'[s] \in Building) <=> (phase[s] \in Building)
                             /\ phase[s] \in Held => task'[s] = task[s]
  PROVE  Claims' = Claims /\ Owners' = Owners
<1>1. \A s \in Sessions, r \in Runs :
        /\ (task'[s] = r /\ phase'[s] \in Claiming) <=> (task[s] = r /\ phase[s] \in Claiming)
        /\ (task'[s] = r /\ phase'[s] \in Building) <=> (task[s] = r /\ phase[s] \in Building)
  OBVIOUS
<1>2. Claims' = Claims
  BY <1>1 DEF Claims
<1>3. Owners' = Owners
  BY <1>1 DEF Owners
<1> QED BY <1>2, <1>3

(* A session that ends is removed from what it claims and owns. *)
LEMMA CloseIsLeave ==
  ASSUME TypeInv, NEW s \in Sessions, Close(s), UNCHANGED dbVars
  PROVE  Ledger!Leave(s)
<1>1. /\ phase'[s] = "closed" /\ state' = state
      /\ \A t \in Sessions \ {s} : phase'[t] = phase[t] /\ task'[t] = task[t]
  BY DEF Close, TypeInv, TypeOK, SessionsTypeOK, dbVars
<1>2. Claims' = [r \in Runs |-> Claims[r] \ {s}] /\ Owners' = [r \in Runs |-> Owners[r] \ {s}]
  BY <1>1 DEF Claims, Owners
<1> QED BY <1>1, <1>2 DEF Ledger!Leave, Ledger!Without, Claims, Owners

(* A session that is handed a run claims it. *)
LEMMA HandIsClaim ==
  ASSUME TypeInv, NEW s \in Sessions, NEW r \in Runs, phase[s] \in {"finding", "altsel"},
         phase' = [phase EXCEPT ![s] = "looking"], task' = [task EXCEPT ![s] = r]
  PROVE  Claims' = [Claims EXCEPT ![r] = @ \cup {s}] /\ Owners' = Owners
<1>1. /\ phase'[s] = "looking" /\ task'[s] = r
      /\ \A t \in Sessions \ {s} : phase'[t] = phase[t] /\ task'[t] = task[t]
  BY DEF TypeInv, TypeOK, SessionsTypeOK
<1>2. \A t \in Sessions, q \in Runs :
        /\ (task'[t] = q /\ phase'[t] \in Claiming)
             <=> ((task[t] = q /\ phase[t] \in Claiming) \/ (t = s /\ q = r))
        /\ (task'[t] = q /\ phase'[t] \in Building) <=> (task[t] = q /\ phase[t] \in Building)
  BY <1>1
<1>3. \A q \in Runs : {t \in Sessions : task'[t] = q /\ phase'[t] \in Claiming}
        = IF q = r THEN {t \in Sessions : task[t] = q /\ phase[t] \in Claiming} \cup {s}
          ELSE {t \in Sessions : task[t] = q /\ phase[t] \in Claiming}
  BY <1>2
<1>4. Claims' = [Claims EXCEPT ![r] = @ \cup {s}]
  <2>1. Claims' = [q \in Runs |-> IF q = r THEN Claims[q] \cup {s} ELSE Claims[q]]
    BY <1>3 DEF Claims
  <2>2. Claims = [q \in Runs |-> Claims[q]]
    BY DEF Claims
  <2> HIDE DEF Claims
  <2> QED BY <2>1, <2>2
<1>5. Owners' = Owners
  BY <1>2 DEF Owners
<1> QED BY <1>4, <1>5

(* find_client_task chooses a pending run, or none. *)
LEMMA FindPendingIsClaim ==
  ASSUME TypeInv, NEW s \in Sessions, FindPending(s)
  PROVE  (\E r \in Runs : Ledger!Claim(r, s)) \/ UNCHANGED Ledger!vars
<1>1. phase[s] = "finding" /\ phase' = [phase EXCEPT ![s] = "looking"] /\ state' = state
  BY DEF FindPending, At, Goto, dbVars
<1>2. CASE \E r \in Choices(s) : task' = [task EXCEPT ![s] = r]
  <2>1. PICK r \in Runs : state[r] = "pending" /\ task' = [task EXCEPT ![s] = r]
    BY <1>2 DEF Choices, PendingRuns
  <2>2. Claims' = [Claims EXCEPT ![r] = @ \cup {s}] /\ Owners' = Owners
    BY <1>1, <2>1, HandIsClaim
  <2> QED BY <1>1, <2>1, <2>2 DEF Ledger!Claim, Claims, Owners
<1>3. CASE task' = [task EXCEPT ![s] = None]
  <2>1. /\ phase'[s] = "looking" /\ task'[s] = None
        /\ \A t \in Sessions \ {s} : phase'[t] = phase[t] /\ task'[t] = task[t]
    BY <1>1, <1>3 DEF TypeInv, TypeOK, SessionsTypeOK
  <2>2. \A t \in Sessions, r \in Runs :
          /\ (task'[t] = r /\ phase'[t] \in Claiming) <=> (task[t] = r /\ phase[t] \in Claiming)
          /\ (task'[t] = r /\ phase'[t] \in Building) <=> (task[t] = r /\ phase[t] \in Building)
    BY <1>1, <2>1, NullAssumption
  <2>3. Claims' = Claims /\ Owners' = Owners
    BY <2>2 DEF Claims, Owners
  <2> QED BY <1>1, <2>3 DEF Ledger!vars, Claims, Owners
<1> QED BY <1>2, <1>3 DEF FindPending

(* It goes on without a run: it claimed none. *)
LEMMA NothingPendingStutters ==
  ASSUME TypeInv, NEW s \in Sessions, NothingPending(s)
  PROVE  UNCHANGED Ledger!vars
<1>1. /\ task[s] = None /\ task' = task /\ state' = state
      /\ phase'[s] = "alt" /\ \A t \in Sessions \ {s} : phase'[t] = phase[t]
  BY DEF NothingPending, LookedUp, At, Goto, dbVars, TypeInv, TypeOK, SessionsTypeOK
<1>2. \A t \in Sessions, r \in Runs :
        /\ (task'[t] = r /\ phase'[t] \in Claiming) <=> (task[t] = r /\ phase[t] \in Claiming)
        /\ (task'[t] = r /\ phase'[t] \in Building) <=> (task[t] = r /\ phase[t] \in Building)
  BY <1>1, NullAssumption
<1>3. Claims' = Claims /\ Owners' = Owners
  BY <1>2 DEF Claims, Owners
<1> QED BY <1>1, <1>3 DEF Ledger!vars, Claims, Owners

(* An alternate run is inserted and claimed in one step. *)
LEMMA AltNewRunIsCreateClaimed ==
  ASSUME TypeInv, NEW s \in Sessions, AltNewRun(s)
  PROVE  \E r \in Runs : Ledger!CreateClaimed(r, s)
<1>1. PICK r \in Runs : InsertRun(r, pick[s], MyHost(s)) /\ task' = [task EXCEPT ![s] = r]
  BY DEF AltNewRun
<1>2. Claims' = [Claims EXCEPT ![r] = @ \cup {s}] /\ Owners' = Owners
  BY <1>1, HandIsClaim DEF AltNewRun, At, Goto
<1> QED BY <1>1, <1>2 DEF InsertRun, NextId, Ledger!CreateClaimed, Claims, Owners

(* activate_run starts a run that its session claims and that no reaper     *)
(* gave up.                                                                 *)
LEMMA ActivateIsStart ==
  ASSUME TypeInv, Unheld, NEW s \in Sessions, ActivateRun(s)
  PROVE  \E r \in Runs : Ledger!Start(r, s)
<1>0. PICK r \in Runs : r = task[s]
  BY DEF ActivateRun, At, TypeInv, Linked, HoldersHaveTasks
<1>1. /\ phase[s] = "acked" /\ phase' = [phase EXCEPT ![s] = "running"]
      /\ state' = [state EXCEPT ![r] = "started"] /\ task' = task
  BY <1>0 DEF ActivateRun, At, Goto
<1>2. state[r] # "invalid"
  BY <1>0, <1>1 DEF Unheld, AckedIsActive, ReapedIsInactive
<1>3. phase'[s] = "running" /\ \A t \in Sessions \ {s} : phase'[t] = phase[t]
  BY <1>1 DEF TypeInv, TypeOK, SessionsTypeOK
<1>4. s \in Claims[r]
  BY <1>0, <1>1 DEF Claims
<1>5. \A t \in Sessions, q \in Runs :
        /\ (task'[t] = q /\ phase'[t] \in Claiming)
             <=> ((task[t] = q /\ phase[t] \in Claiming) /\ ~(t = s /\ q = r))
        /\ (task'[t] = q /\ phase'[t] \in Building)
             <=> ((task[t] = q /\ phase[t] \in Building) \/ (t = s /\ q = r))
  BY <1>0, <1>1, <1>3
<1>6. Claims' = [Claims EXCEPT ![r] = @ \ {s}]
  <2>1. Claims' = [q \in Runs |-> IF q = r THEN Claims[q] \ {s} ELSE Claims[q]]
    BY <1>5 DEF Claims
  <2>2. Claims = [q \in Runs |-> Claims[q]]
    BY DEF Claims
  <2> HIDE DEF Claims
  <2> QED BY <2>1, <2>2
<1>7. Owners' = [Owners EXCEPT ![r] = @ \cup {s}]
  <2>1. Owners' = [q \in Runs |-> IF q = r THEN Owners[q] \cup {s} ELSE Owners[q]]
    BY <1>5 DEF Owners
  <2>2. Owners = [q \in Runs |-> Owners[q]]
    BY DEF Owners
  <2> HIDE DEF Owners
  <2> QED BY <2>1, <2>2
<1> QED BY <1>1, <1>2, <1>4, <1>6, <1>7 DEF Ledger!Start, Claims, Owners

(* ClientJob::run settles a run that its session owns. *)
LEMMA CompleteIsFinish ==
  ASSUME TypeInv, NEW s \in Sessions, CompleteRun(s)
  PROVE  \E r \in Runs : Ledger!Finish(r, s)
<1>0. PICK r \in Runs : r = task[s]
  BY DEF CompleteRun, At, TypeInv, Linked, HoldersHaveTasks
<1>1. /\ phase[s] = "reporting" /\ phase' = [phase EXCEPT ![s] = "running"] /\ task' = task
      /\ \E v \in {"finished", "error"} : state' = [state EXCEPT ![r] = v]
  BY <1>0 DEF CompleteRun, At, Goto
<1>2. s \in Owners[r]
  BY <1>0, <1>1 DEF Owners
<1>3. Claims' = Claims /\ Owners' = Owners
  <2>1. phase'[s] = "running" /\ \A t \in Sessions \ {s} : phase'[t] = phase[t]
    BY <1>1 DEF TypeInv, TypeOK, SessionsTypeOK
  <2>2. \A t \in Sessions : /\ (phase'[t] \in Claiming) <=> (phase[t] \in Claiming)
                            /\ (phase'[t] \in Building) <=> (phase[t] \in Building)
                            /\ phase[t] \in Held => task'[t] = task[t]
    BY <1>1, <2>1
  <2> QED BY <2>2, SameClaims
<1> QED BY <1>1, <1>2, <1>3 DEF Ledger!Finish, Claims, Owners

(* The reaper gives up a run that nobody stands behind. *)
LEMMA ReapIsReap ==
  ASSUME TypeInv, Unheld, NEW r \in Runs, Reap(r)
  PROVE  Ledger!Reap(r)
<1>1. /\ state[r] = "started" /\ state' = [state EXCEPT ![r] = "invalid"]
      /\ UNCHANGED <<phase, task>>
      /\ ~\E s \in Sessions : Holds(s, r)
  BY ReapIsSafe DEF Reap, sessVars
<1>2. Claims[r] = {} /\ Owners[r] = {}
  BY <1>1 DEF Claims, Owners, Holds
<1>3. Claims' = Claims /\ Owners' = Owners
  BY <1>1 DEF Claims, Owners
<1> QED BY <1>1, <1>2, <1>3 DEF Ledger!Reap, Claims, Owners

(* Steps that the ledger does not see. *)
LEMMA Stutter ==
  ASSUME TypeInv,
         \/ \E j \in Jobs : CreateJob(j) \/ AgeOut(j)
         \/ \E n \in Runners : Connect(n) \/ RunnerStep(n) \/ RunnerCrash(n)
         \/ Dispatch
         \/ \E s \in Sessions : \/ ConnLost(s) \/ ConnNoticed(s) \/ Submit(s)
                                \/ FindAlt(s) \/ TestConnection(s) \/ RecvStarted(s) \/ RecvStatus(s)
         \/ ReaperSnapshot \/ ReaperFilter \/ UNCHANGED vars
  PROVE  UNCHANGED Ledger!vars
<1>1. state' = state /\ task' = task
  BY DEF CreateJob, AgeOut, Connect, HandleNextJob, RunnerStep, RunnerPong, RunnerStart,
         RunnerStartPanic, RunnerReport, RunnerClosed, RunnerCrash, Dispatch, ConnLost, ConnNoticed, Submit, FindAlt,
         TestConnection, RecvStarted, RecvStatus, ReaperSnapshot, ReaperFilter, vars, dbVars, sessVars
<1>2. \/ phase' = phase
      \/ \E s \in Sessions, p \in {"queued", "finding", "altsel", "pinging"} :
           phase[s] \notin Held /\ phase' = [phase EXCEPT ![s] = p]
      \/ \E s \in Sessions : phase[s] = "looking" /\ phase' = [phase EXCEPT ![s] = "offered"]
      \/ \E s \in Sessions : phase[s] = "offered" /\ phase' = [phase EXCEPT ![s] = "acked"]
      \/ \E s \in Sessions : phase[s] = "running" /\ phase' = [phase EXCEPT ![s] = "reporting"]
  <2>1. CASE \/ \E j \in Jobs : CreateJob(j) \/ AgeOut(j)
             \/ \E n \in Runners : RunnerStep(n) \/ RunnerCrash(n)
             \/ \E s \in Sessions : ConnLost(s) \/ ConnNoticed(s)
             \/ ReaperSnapshot \/ ReaperFilter \/ UNCHANGED vars
    BY <2>1 DEF CreateJob, AgeOut, RunnerStep, RunnerPong, RunnerStart, RunnerStartPanic,
                RunnerReport, RunnerClosed, RunnerCrash, ConnLost, ConnNoticed, ReaperSnapshot,
                ReaperFilter,
                vars, sessVars
  <2>2. ASSUME NEW s \in Sessions, NEW n \in Runners, HandleNextJob(n, s)
        PROVE  phase[s] \notin Held /\ phase' = [phase EXCEPT ![s] = "queued"]
    BY <2>2 DEF HandleNextJob, Idle
  <2>3. CASE Dispatch
    <3>1. Head(queue) \in Sessions
      BY <2>3, HeadTailProperties DEF Dispatch, TypeInv, TypeOK, SessionsTypeOK
    <3>2. /\ phase[Head(queue)] = "queued"
          /\ phase' = [phase EXCEPT ![Head(queue)] = "finding"]
      BY <2>3 DEF Dispatch, At, Goto
    <3>3. phase[Head(queue)] \notin Held
      BY <3>2
    <3> QED BY <3>1, <3>2, <3>3
  <2>4. ASSUME NEW s \in Sessions, FindAlt(s) \/ TestConnection(s)
        PROVE  \E p \in {"altsel", "pinging", "finding"} :
                 phase[s] \notin Held /\ phase' = [phase EXCEPT ![s] = p]
    BY <2>4 DEF FindAlt, TestConnection, At, Goto
  <2>5. ASSUME NEW s \in Sessions, RecvStarted(s)
        PROVE  phase[s] = "offered" /\ phase' = [phase EXCEPT ![s] = "acked"]
    BY <2>5 DEF RecvStarted, At, Goto
  <2>6. ASSUME NEW s \in Sessions, RecvStatus(s)
        PROVE  phase[s] = "running" /\ phase' = [phase EXCEPT ![s] = "reporting"]
    BY <2>6 DEF RecvStatus, At, Goto
  <2>7. ASSUME NEW s \in Sessions, Submit(s)
        PROVE  phase[s] = "looking" /\ phase' = [phase EXCEPT ![s] = "offered"]
    BY <2>7 DEF Submit, LookedUp, At, Goto
  <2> HIDE DEF Held
  <2> QED BY <2>1, <2>2, <2>3, <2>4, <2>5, <2>6, <2>7 DEF Connect
<1>3. \A t \in Sessions : /\ (phase'[t] \in Claiming) <=> (phase[t] \in Claiming)
                          /\ (phase'[t] \in Building) <=> (phase[t] \in Building)
                          /\ phase[t] \in Held => task'[t] = task[t]
  <2>1. phase \in [Sessions -> Phases]
    BY DEF TypeInv, TypeOK, SessionsTypeOK
  <2>2. CASE phase' = phase
    BY <1>1, <2>2
  <2>3. CASE \E s \in Sessions, p \in {"queued", "finding", "altsel", "pinging"} :
               phase[s] \notin Held /\ phase' = [phase EXCEPT ![s] = p]
    <3>1. PICK s \in Sessions, p \in {"queued", "finding", "altsel", "pinging"} :
            /\ phase[s] \notin Held /\ phase'[s] = p
            /\ \A t \in Sessions \ {s} : phase'[t] = phase[t]
      BY <2>1, <2>3
    <3> QED BY <1>1, <3>1
  <2>4. CASE \E s \in Sessions : phase[s] = "offered" /\ phase' = [phase EXCEPT ![s] = "acked"]
    <3>1. PICK s \in Sessions : /\ phase[s] = "offered" /\ phase'[s] = "acked"
                                /\ \A t \in Sessions \ {s} : phase'[t] = phase[t]
      BY <2>1, <2>4
    <3> QED BY <1>1, <3>1
  <2>5. CASE \E s \in Sessions : phase[s] = "running" /\ phase' = [phase EXCEPT ![s] = "reporting"]
    <3>1. PICK s \in Sessions : /\ phase[s] = "running" /\ phase'[s] = "reporting"
                                /\ \A t \in Sessions \ {s} : phase'[t] = phase[t]
      BY <2>1, <2>5
    <3> QED BY <1>1, <3>1
  <2>6. CASE \E s \in Sessions : phase[s] = "looking" /\ phase' = [phase EXCEPT ![s] = "offered"]
    <3>1. PICK s \in Sessions : /\ phase[s] = "looking" /\ phase'[s] = "offered"
                                /\ \A t \in Sessions \ {s} : phase'[t] = phase[t]
      BY <2>1, <2>6
    <3> QED BY <1>1, <3>1
  <2> QED BY <1>2, <2>2, <2>3, <2>4, <2>5, <2>6
<1>4. Claims' = Claims /\ Owners' = Owners
  BY <1>3, SameClaims
<1> QED BY <1>1, <1>4 DEF Ledger!vars, Claims, Owners

(* A row that is inserted for anyone is claimed by nobody. *)
LEMMA QueueIsCreate ==
  ASSUME TypeInv, NEW j \in Jobs, QueueRun(j)
  PROVE  \E r \in Runs : Ledger!Create(r)
<1>1. PICK r \in Runs : InsertRun(r, j, None)
  BY DEF QueueRun
<1>2. UNCHANGED <<phase, task>>
  BY DEF QueueRun, sessVars
<1> QED BY <1>1, <1>2 DEF InsertRun, NextId, Ledger!Create

(* No session outlives the driver process. *)
LEMMA RestartIsCrash ==
  ASSUME DriverRestart
  PROVE  Ledger!Crash
<1>1. state' = state /\ \A s \in Sessions : phase'[s] = "closed"
  BY DEF DriverRestart, dbVars
<1>2. Claims' = [r \in Runs |-> {}] /\ Owners' = [r \in Runs |-> {}]
  BY <1>1 DEF Claims, Owners
<1> QED BY <1>1, <1>2 DEF Ledger!Crash, Claims, Owners

(* Every step of the driver is a step of the ledger, or none. *)
LEMMA LedgerStep == TypeInv /\ Unheld /\ [Next]_vars => [Ledger!Next]_(Ledger!vars)
<1> SUFFICES ASSUME TypeInv, Unheld, [Next]_vars PROVE Ledger!Next \/ UNCHANGED Ledger!vars
  OBVIOUS
<1>1. CASE Environment
  BY <1>1, QueueIsCreate, Stutter DEF Environment, Ledger!Next
<1>2. CASE \/ \E n \in Runners : Connect(n) \/ RunnerStep(n)
           \/ Dispatch \/ Network \/ UNCHANGED vars
  BY <1>2, Stutter DEF Network
<1>3. ASSUME NEW s \in Sessions, SessionStep(s) PROVE Ledger!Next \/ UNCHANGED Ledger!vars
  <2>1. CASE FindPending(s)
    BY <2>1, FindPendingIsClaim DEF Ledger!Next
  <2>2. CASE AltNewRun(s)
    BY <2>2, AltNewRunIsCreateClaimed DEF Ledger!Next
  <2>3. CASE ActivateRun(s)
    <3>1. \E r \in Runs : Ledger!Start(r, s)
      BY <2>3, ActivateIsStart
    <3> QED BY <3>1 DEF Ledger!Next
  <2>4. CASE CompleteRun(s)
    BY <2>4, CompleteIsFinish DEF Ledger!Next
  <2>5. CASE JobMissing(s) \/ PreludePanics(s) \/ Deadline(s) \/ HangUp(s)
    <3>1. Ledger!Leave(s)
      BY <2>5, CloseIsLeave DEF JobMissing, PreludePanics, Deadline, HangUp
    <3> QED BY <3>1 DEF Ledger!Next
  <2>6. CASE Submit(s) \/ FindAlt(s) \/ TestConnection(s) \/ RecvStarted(s) \/ RecvStatus(s)
    BY <2>6, Stutter
  <2>7. CASE NothingPending(s)
    BY <2>7, NothingPendingStutters
  <2> QED BY <1>3, <2>1, <2>2, <2>3, <2>4, <2>5, <2>6, <2>7 DEF SessionStep
<1>4. CASE ReaperStep
  BY <1>4, ReapIsReap, Stutter DEF ReaperStep, Ledger!Next
<1>5. CASE Faulty
  <2>1. CASE DriverRestart
    BY <2>1, RestartIsCrash DEF Ledger!Next
  <2>2. ASSUME NEW s \in Sessions, TaskPanics(s) PROVE Ledger!Next
    <3>1. Ledger!Leave(s)
      BY <2>2, CloseIsLeave DEF TaskPanics
    <3> QED BY <3>1 DEF Ledger!Next
  <2>3. CASE (\E n \in Runners : RunnerCrash(n)) \/ \E s \in Sessions : ConnLost(s)
    BY <2>3, Stutter
  <2> QED BY <1>5, <2>1, <2>2, <2>3 DEF Faulty
<1> QED BY <1>1, <1>2, <1>3, <1>4, <1>5 DEF Next

(* ImplementsLedger: a run's row only changes as RunLedger lets it, however *)
(* sessions, the reaper, restarts and other processes interleave.           *)
THEOREM DriverImplementsLedger == Spec => ImplementsLedger
<1>1. Init => Ledger!Init
  BY LedgerInit
<1>2. Init => TypeInv /\ Unheld
  BY TypeInit, UnheldInit
<1>3. TypeInv /\ Unheld /\ [Next]_vars => (TypeInv /\ Unheld)'
  BY TypeNext, UnheldNext
<1>4. TypeInv /\ Unheld /\ [Next]_vars => [Ledger!Next]_(Ledger!vars)
  BY LedgerStep
<1> QED BY <1>1, <1>2, <1>3, <1>4, PTL DEF Spec, ImplementsLedger, Ledger!Spec
==============================================================================
