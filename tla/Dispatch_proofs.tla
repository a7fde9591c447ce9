--------------------------- MODULE Dispatch_proofs ---------------------------
(****************************************************************************)
(* What is proved of the dispatch of runs in Driver: which runs a runner is *)
(* handed, what a build token is a token of, and that a session and its     *)
(* runner never wait for each other.                                        *)
(****************************************************************************)
EXTENDS Driver_proofs

Held == {"looking", "offered", "acked", "running", "reporting"}
Building == {"running", "reporting"}

(* A row is there before a session holds it, and blank before it is there:  *)
(* so that rows are not inserted under a session's feet.                    *)
HeldRunsExist == \A s \in Sessions, r \in Runs : Holds(s, r) => state[r] # "absent"
AbsentIsBlank == \A r \in Runs : state[r] = "absent" => host[r] = None /\ token[r] = None

(* What a session is about to insert a run of was put to will_accept. *)
PickIsTrusted == \A s \in Sessions : phase[s] = "altsel" => WillAccept(client[s], pick[s])

(* A new connection has a new token. *)
TokensAreFresh == \A r \in Runs, s \in Sessions :
                    token[r] = s => phase[s] \in Building \cup {"closed"}

DispatchInv == /\ HeldRunsExist /\ AbsentIsBlank /\ PickIsTrusted /\ TokensAreFresh
               /\ HostPinned /\ SourceTrusted /\ TokenNamesHolder

USE DEF Held, Building

------------------------------------------------------------------------------

(* There is no row and no session when the driver first starts. *)
LEMMA DispatchInit == Init => DispatchInv
BY NullAssumption
DEF Init, DispatchInv, HeldRunsExist, AbsentIsBlank, PickIsTrusted, TokensAreFresh,
    HostPinned, SourceTrusted, TokenNamesHolder, Holds

(* Steps that neither insert nor start a run, and give no session anything. *)
LEMMA QuietDispatch ==
  ASSUME DispatchInv, UNCHANGED <<job, pref, host, token>>,
         \A r \in Runs : state'[r] = "absent" <=> state[r] = "absent",
         \A s \in Sessions : phase'[s] \in Held =>
           phase[s] \in Held /\ task'[s] = task[s] /\ client'[s] = client[s],
         \A s \in Sessions : phase'[s] = "altsel" =>
           phase[s] = "altsel" /\ pick'[s] = pick[s] /\ client'[s] = client[s],
         \A s \in Sessions : phase[s] \in Building \cup {"closed"} =>
           phase'[s] \in Building \cup {"closed"},
         \A s \in Sessions : phase'[s] \in Building => phase[s] \in Building
  PROVE  DispatchInv'
<1>1. \A s \in Sessions, r \in Runs : Holds(s, r)' => Holds(s, r) /\ client'[s] = client[s]
  BY DEF Holds
<1>2. HeldRunsExist' /\ AbsentIsBlank'
  BY <1>1 DEF DispatchInv, HeldRunsExist, AbsentIsBlank
<1>3. PickIsTrusted'
  BY DEF DispatchInv, PickIsTrusted, WillAccept
<1>4. TokensAreFresh'
  BY DEF DispatchInv, TokensAreFresh
<1>5. HostPinned'
  BY <1>1 DEF DispatchInv, HostPinned, MyHost
<1>6. SourceTrusted'
  BY <1>1 DEF DispatchInv, SourceTrusted, WillAccept
<1>7. TokenNamesHolder'
  BY DEF DispatchInv, TokenNamesHolder, MyHost
<1> QED BY <1>2, <1>3, <1>4, <1>5, <1>6, <1>7 DEF DispatchInv

(* A session that ends gives up what it had. *)
LEMMA CloseDispatch ==
  ASSUME TypeInv, DispatchInv, NEW s \in Sessions, Close(s), UNCHANGED dbVars
  PROVE  DispatchInv'
<1>1. /\ phase' = [phase EXCEPT ![s] = "closed"]
      /\ \A t \in Sessions \ {s} : task'[t] = task[t] /\ client'[t] = client[t]
      /\ pick' = pick
  BY DEF Close, TypeInv, TypeOK, SessionsTypeOK
<1>2. phase'[s] = "closed" /\ \A t \in Sessions \ {s} : phase'[t] = phase[t]
  BY <1>1 DEF TypeInv, TypeOK, SessionsTypeOK
<1> QED BY <1>1, <1>2, QuietDispatch DEF dbVars

(* A session that goes from one phase to another with what it has. *)
LEMMA MoveDispatch ==
  ASSUME TypeInv, DispatchInv, NEW s \in Sessions, NEW from, NEW p, phase[s] = from,
         phase' = [phase EXCEPT ![s] = p],
         \/ from \in {"queued", "finding", "alt", "pinging"} /\ p \in {"finding", "alt", "pinging"}
         \/ from = "looking" /\ p \in {"alt", "offered"}
         \/ from = "offered" /\ p = "acked"
         \/ from \in Building /\ p \in Building,
         job' = job, pref' = pref, host' = host, token' = token,
         task' = task, client' = client, pick' = pick,
         \A r \in Runs : state'[r] = "absent" <=> state[r] = "absent"
  PROVE  DispatchInv'
<1>1. phase'[s] = p /\ \A t \in Sessions \ {s} : phase'[t] = phase[t]
  BY DEF TypeInv, TypeOK, SessionsTypeOK
<1>2. /\ \A t \in Sessions : phase'[t] \in Held => phase[t] \in Held
      /\ \A t \in Sessions : phase'[t] = "altsel" => phase[t] = "altsel"
      /\ \A t \in Sessions : phase[t] \in Building \cup {"closed"} =>
           phase'[t] \in Building \cup {"closed"}
      /\ \A t \in Sessions : phase'[t] \in Building => phase[t] \in Building
  BY <1>1
<1> QED BY <1>2, QuietDispatch

(* A new row takes nothing from, and gives nothing to, a session. *)
LEMMA InsertDispatch ==
  ASSUME TypeInv, DispatchInv, NEW r \in Runs, NEW j, NEW h, InsertRun(r, j, h)
  PROVE  /\ state[r] = "absent" /\ state'[r] # "absent" /\ job'[r] = j /\ pref'[r] = h
         /\ host'[r] = None /\ \A s \in Sessions : ~Holds(s, r)
         /\ \A q \in Runs \ {r} : state'[q] = state[q] /\ job'[q] = job[q] /\ pref'[q] = pref[q]
         /\ UNCHANGED <<host, token>>
BY DEF InsertRun, NextId, TypeInv, TypeOK, RowsTypeOK, DispatchInv, HeldRunsExist, AbsentIsBlank

(* new_run for any host, by the web server or ci_ctl. *)
LEMMA QueueDispatch ==
  ASSUME TypeInv, DispatchInv, NEW j \in Jobs, QueueRun(j)
  PROVE  DispatchInv'
<1>1. PICK r \in Runs : InsertRun(r, j, None)
  BY DEF QueueRun
<1>2. UNCHANGED <<phase, client, task, pick>>
  BY DEF QueueRun, sessVars
<1>3. \A s \in Sessions, q \in Runs : Holds(s, q)' <=> Holds(s, q)
  BY <1>2 DEF Holds
<1>4. HeldRunsExist' /\ AbsentIsBlank'
  BY <1>1, <1>3, InsertDispatch DEF DispatchInv, HeldRunsExist, AbsentIsBlank
<1>5. PickIsTrusted' /\ TokensAreFresh' /\ TokenNamesHolder'
  BY <1>1, <1>2, InsertDispatch
  DEF DispatchInv, PickIsTrusted, WillAccept, TokensAreFresh, TokenNamesHolder, MyHost
<1>6. HostPinned' /\ SourceTrusted'
  BY <1>1, <1>2, <1>3, InsertDispatch DEF DispatchInv, HostPinned, SourceTrusted, MyHost, WillAccept
<1> QED BY <1>4, <1>5, <1>6 DEF DispatchInv

(* A new connection: whatever bore the slot's token is of a past session.   *)
LEMMA ConnectDispatch ==
  ASSUME TypeInv, DispatchInv, NEW n \in Runners, NEW s \in Sessions, HandleNextJob(n, s)
  PROVE  DispatchInv'
<1>1. /\ phase[s] = "closed" /\ phase' = [phase EXCEPT ![s] = "queued"]
      /\ client' = [client EXCEPT ![s] = n]
      /\ token' = [r \in Runs |-> IF token[r] = s THEN Retired ELSE token[r]]
      /\ UNCHANGED <<state, job, pref, host, task, pick>>
  BY DEF HandleNextJob, Idle
<1>2. /\ phase'[s] = "queued"
      /\ \A t \in Sessions \ {s} : phase'[t] = phase[t] /\ client'[t] = client[t]
  BY <1>1 DEF TypeInv, TypeOK, SessionsTypeOK
<1>3. \A t \in Sessions, r \in Runs : Holds(t, r)' => Holds(t, r) /\ client'[t] = client[t]
  BY <1>1, <1>2 DEF Holds
<1>4. \A t \in Sessions, r \in Runs : token'[r] = t => t # s /\ token[r] = t
  BY <1>1, NullAssumption
<1>5. HeldRunsExist' /\ AbsentIsBlank'
  <2>1. AbsentIsBlank'
    BY <1>1, NullAssumption DEF DispatchInv, AbsentIsBlank
  <2> QED BY <1>1, <1>3, <2>1 DEF DispatchInv, HeldRunsExist
<1>6. PickIsTrusted'
  BY <1>1, <1>2 DEF DispatchInv, PickIsTrusted, WillAccept
<1>7. TokensAreFresh' /\ TokenNamesHolder'
  BY <1>1, <1>2, <1>4 DEF DispatchInv, TokensAreFresh, TokenNamesHolder, MyHost
<1>8. HostPinned' /\ SourceTrusted'
  BY <1>1, <1>3 DEF DispatchInv, HostPinned, SourceTrusted, MyHost, WillAccept
<1> QED BY <1>5, <1>6, <1>7, <1>8 DEF DispatchInv

(* A session is handed a run that exists, that it may run on its host and   *)
(* whose job it accepts.                                                    *)
LEMMA HandDispatch ==
  ASSUME TypeInv, DispatchInv, NEW s \in Sessions, NEW r \in Runs,
         phase' = [phase EXCEPT ![s] = "looking"], task' = [task EXCEPT ![s] = r],
         phase[s] \in {"finding", "altsel"}, UNCHANGED <<client, host, token>>,
         state'[r] # "absent", pref'[r] \in {None, MyHost(s)}, WillAccept(client[s], job'[r]),
         host'[r] = None \/ UNCHANGED pref, 
         \A q \in Runs : state[q] # "absent" => state'[q] # "absent",
         \A t \in Sessions, q \in Runs : Holds(t, q) => job'[q] = job[q] /\ pref'[q] = pref[q],
         \A q \in Runs \ {r} : pref'[q] = pref[q],
         \A t \in Sessions \ {s} : pick'[t] = pick[t]
  PROVE  DispatchInv'
<1>1. /\ phase'[s] = "looking" /\ task'[s] = r
      /\ \A t \in Sessions \ {s} : phase'[t] = phase[t] /\ task'[t] = task[t]
  BY DEF TypeInv, TypeOK, SessionsTypeOK
<1>2. \A t \in Sessions, q \in Runs : Holds(t, q)' => (t = s /\ q = r) \/ (t # s /\ Holds(t, q))
  BY <1>1 DEF Holds
<1>3. HeldRunsExist' /\ AbsentIsBlank'
  BY <1>2 DEF DispatchInv, HeldRunsExist, AbsentIsBlank
<1>4. PickIsTrusted'
  BY <1>1 DEF DispatchInv, PickIsTrusted, WillAccept
<1>5. TokensAreFresh' /\ TokenNamesHolder'
  BY <1>1 DEF DispatchInv, TokensAreFresh, TokenNamesHolder, MyHost
<1>6. HostPinned'
  BY <1>2 DEF DispatchInv, HostPinned, MyHost
<1>7. SourceTrusted'
  BY <1>2 DEF DispatchInv, SourceTrusted, WillAccept
<1> QED BY <1>3, <1>4, <1>5, <1>6, <1>7 DEF DispatchInv

(* find_client_task looks at runs for anyone or for the runner's host, of   *)
(* jobs that will_accept let through.                                       *)
LEMMA FindPendingDispatch ==
  ASSUME TypeInv, DispatchInv, NEW s \in Sessions, FindPending(s)
  PROVE  DispatchInv'
<1>1. /\ phase[s] = "finding" /\ phase' = [phase EXCEPT ![s] = "looking"]
      /\ UNCHANGED <<state, job, pref, host, token, client, pick>>
  BY DEF FindPending, At, Goto, dbVars
<1>2. CASE \E r \in Choices(s) : task' = [task EXCEPT ![s] = r]
  <2>1. PICK r \in Runs : /\ state[r] = "pending" /\ pref[r] \in {MyHost(s), None}
                          /\ WillAccept(client[s], job[r])
                          /\ task' = [task EXCEPT ![s] = r]
    BY <1>2 DEF Choices, PendingRuns
  <2>2. /\ state'[r] # "absent" /\ pref'[r] \in {None, MyHost(s)}
        /\ WillAccept(client[s], job'[r])
    BY <1>1, <2>1
  <2> QED BY <1>1, <2>1, <2>2, HandDispatch
<1>3. CASE task' = [task EXCEPT ![s] = None]
  <2>1. /\ phase'[s] = "looking" /\ task'[s] = None
        /\ \A t \in Sessions \ {s} : phase'[t] = phase[t] /\ task'[t] = task[t]
    BY <1>1, <1>3 DEF TypeInv, TypeOK, SessionsTypeOK
  <2>2. \A t \in Sessions, q \in Runs : Holds(t, q)' => Holds(t, q)
    BY <2>1, NullAssumption DEF Holds
  <2>3. HeldRunsExist' /\ AbsentIsBlank' /\ HostPinned' /\ SourceTrusted'
    BY <1>1, <2>2 DEF DispatchInv, HeldRunsExist, AbsentIsBlank, HostPinned, SourceTrusted,
                      MyHost, WillAccept
  <2>4. PickIsTrusted' /\ TokensAreFresh' /\ TokenNamesHolder'
    BY <1>1, <2>1 DEF DispatchInv, PickIsTrusted, WillAccept, TokensAreFresh, TokenNamesHolder,
                      MyHost
  <2> QED BY <2>3, <2>4 DEF DispatchInv
<1> QED BY <1>2, <1>3 DEF FindPending

(* An alternate job is put to will_accept, too. *)
LEMMA FindAltDispatch ==
  ASSUME TypeInv, DispatchInv, NEW s \in Sessions, FindAlt(s)
  PROVE  DispatchInv'
<1>1. phase[s] = "alt" /\ UNCHANGED <<state, job, pref, host, token, client, task>>
  BY DEF FindAlt, At, dbVars
<1>2. CASE \E j \in AltChoices(s) : pick' = [pick EXCEPT ![s] = j] /\ Goto(s, "altsel")
  <2>1. PICK j : /\ WillAccept(client[s], j)
                 /\ pick' = [pick EXCEPT ![s] = j] /\ phase' = [phase EXCEPT ![s] = "altsel"]
    BY <1>2 DEF AltChoices, Goto
  <2>2. /\ phase'[s] = "altsel" /\ pick'[s] = j
        /\ \A t \in Sessions \ {s} : phase'[t] = phase[t] /\ pick'[t] = pick[t]
    BY <2>1 DEF TypeInv, TypeOK, SessionsTypeOK
  <2>3. \A t \in Sessions, q \in Runs : Holds(t, q)' <=> Holds(t, q)
    BY <1>1, <2>2 DEF Holds
  <2>4. HeldRunsExist' /\ AbsentIsBlank' /\ HostPinned' /\ SourceTrusted'
    BY <1>1, <2>3 DEF DispatchInv, HeldRunsExist, AbsentIsBlank, HostPinned, SourceTrusted,
                      MyHost, WillAccept
  <2>5. PickIsTrusted'
    BY <1>1, <2>1, <2>2 DEF DispatchInv, PickIsTrusted, WillAccept
  <2>6. TokensAreFresh' /\ TokenNamesHolder'
    BY <1>1, <2>2 DEF DispatchInv, TokensAreFresh, TokenNamesHolder, MyHost
  <2> QED BY <2>4, <2>5, <2>6 DEF DispatchInv
<1>3. CASE Goto(s, "pinging") /\ UNCHANGED pick
  BY <1>1, <1>3, MoveDispatch DEF Goto
<1> QED BY <1>2, <1>3 DEF FindAlt

(* The run inserted for an alternate job is for the host of the session     *)
(* that inserts it.                                                         *)
LEMMA AltNewRunDispatch ==
  ASSUME TypeInv, DispatchInv, NEW s \in Sessions, AltNewRun(s)
  PROVE  DispatchInv'
<1>1. PICK r \in Runs : InsertRun(r, pick[s], MyHost(s)) /\ task' = [task EXCEPT ![s] = r]
  BY DEF AltNewRun
<1>2. /\ phase[s] = "altsel" /\ phase' = [phase EXCEPT ![s] = "looking"] /\ client' = client
      /\ \A t \in Sessions \ {s} : pick'[t] = pick[t]
  BY DEF AltNewRun, At, Goto, TypeInv, TypeOK, SessionsTypeOK
<1>3. WillAccept(client[s], pick[s])
  BY <1>2 DEF DispatchInv, PickIsTrusted
<1>4. /\ state'[r] # "absent" /\ pref'[r] = MyHost(s) /\ job'[r] = pick[s] /\ host'[r] = None
      /\ \A q \in Runs : state[q] # "absent" => state'[q] # "absent"
      /\ \A q \in Runs \ {r} : pref'[q] = pref[q]
      /\ \A t \in Sessions, q \in Runs : Holds(t, q) => job'[q] = job[q] /\ pref'[q] = pref[q]
      /\ UNCHANGED <<host, token>>
  BY <1>1, InsertDispatch
<1>5. WillAccept(client[s], job'[r])
  BY <1>3, <1>4
<1> QED BY <1>1, <1>2, <1>4, <1>5, HandDispatch

(* activate_run writes a host that the run is meant for, and a token that   *)
(* no row had.                                                              *)
LEMMA ActivateDispatch ==
  ASSUME TypeInv, DispatchInv, NEW s \in Sessions, ActivateRun(s)
  PROVE  DispatchInv'
<1> DEFINE r == task[s]
<1>1. /\ phase[s] = "acked" /\ phase' = [phase EXCEPT ![s] = "running"]
      /\ state' = [state EXCEPT ![r] = "started"]
      /\ host' = [host EXCEPT ![r] = MyHost(s)]
      /\ token' = [token EXCEPT ![r] = s]
      /\ UNCHANGED <<job, pref, client, task, pick>>
  BY DEF ActivateRun, At, Goto
<1>2. r \in Runs /\ Holds(s, r)
  BY <1>1 DEF TypeInv, Linked, HoldersHaveTasks, Holds
<1>3. /\ phase'[s] = "running" /\ \A t \in Sessions \ {s} : phase'[t] = phase[t]
      /\ state'[r] = "started" /\ host'[r] = MyHost(s) /\ token'[r] = s
      /\ \A q \in Runs \ {r} : state'[q] = state[q] /\ host'[q] = host[q] /\ token'[q] = token[q]
  BY <1>1, <1>2 DEF TypeInv, TypeOK, SessionsTypeOK, RowsTypeOK
<1>4. \A t \in Sessions, q \in Runs : Holds(t, q)' <=> Holds(t, q)
  BY <1>1, <1>3 DEF Holds
<1>5. \A q \in Runs : token[q] # s
  BY <1>1 DEF DispatchInv, TokensAreFresh
<1> HIDE DEF r
<1>6. HeldRunsExist' /\ AbsentIsBlank'
  BY <1>1, <1>3, <1>4 DEF DispatchInv, HeldRunsExist, AbsentIsBlank
<1>7. PickIsTrusted' /\ TokensAreFresh'
  BY <1>1, <1>3 DEF DispatchInv, PickIsTrusted, TokensAreFresh, WillAccept
<1>8. HostPinned'
  BY <1>1, <1>2, <1>3, <1>4 DEF DispatchInv, HostPinned, MyHost
<1>9. SourceTrusted'
  BY <1>1, <1>4 DEF DispatchInv, SourceTrusted, WillAccept
<1>10. TokenNamesHolder'
  <2> SUFFICES ASSUME NEW q \in Runs, NEW t \in Sessions, token'[q] = t, phase'[t] \in Building
               PROVE  task'[t] = q /\ host'[q] = HostOf[client'[t]]
    BY DEF TokenNamesHolder, MyHost
  <2>1. CASE q = r
    BY <1>1, <1>3, <2>1 DEF r, MyHost
  <2>2. CASE q # r
    BY <1>1, <1>3, <1>5, <2>2 DEF DispatchInv, TokenNamesHolder, MyHost
  <2> QED BY <2>1, <2>2
<1> QED BY <1>6, <1>7, <1>8, <1>9, <1>10 DEF DispatchInv

(* Later steps of a session leave host and token as they are. *)
LEMMA OtherSessionStepDispatch ==
  ASSUME TypeInv, DispatchInv, NEW s \in Sessions,
         \/ NothingPending(s) \/ Submit(s) \/ TestConnection(s)
         \/ RecvStarted(s) \/ RecvStatus(s) \/ CompleteRun(s)
         \/ JobMissing(s) \/ PreludePanics(s) \/ Deadline(s) \/ HangUp(s) \/ TaskPanics(s)
  PROVE  DispatchInv'
<1>1. CASE TestConnection(s)
  BY <1>1, MoveDispatch DEF TestConnection, At, Goto, dbVars
<1>2. CASE RecvStarted(s)
  BY <1>2, MoveDispatch DEF RecvStarted, At, Goto, dbVars
<1>3. CASE RecvStatus(s)
  BY <1>3, MoveDispatch DEF RecvStatus, At, Goto, dbVars
<1>4. CASE CompleteRun(s)
  <2>1. task[s] \in Runs /\ Holds(s, task[s])
    BY <1>4 DEF CompleteRun, At, TypeInv, Linked, HoldersHaveTasks, Holds
  <2>2. \A r \in Runs : state'[r] = "absent" <=> state[r] = "absent"
    BY <1>4, <2>1 DEF CompleteRun, DispatchInv, HeldRunsExist, TypeInv, TypeOK, RowsTypeOK
  <2> QED BY <1>4, <2>2, MoveDispatch DEF CompleteRun, At, Goto
<1>5. CASE JobMissing(s) \/ PreludePanics(s) \/ Deadline(s) \/ HangUp(s) \/ TaskPanics(s)
  BY <1>5, CloseDispatch DEF JobMissing, PreludePanics, Deadline, HangUp, TaskPanics
<1>6. CASE NothingPending(s) \/ Submit(s)
  BY <1>6, MoveDispatch DEF NothingPending, Submit, LookedUp, At, Goto, dbVars
<1> QED BY <1>1, <1>2, <1>3, <1>4, <1>5, <1>6

(* The reaper, other rows, runners and the network hand out no run. *)
LEMMA OutsideStepDispatch ==
  ASSUME TypeInv, Unheld, DispatchInv,
         \/ \E j \in Jobs : CreateJob(j) \/ AgeOut(j)
         \/ \E n \in Runners : RunnerStep(n) \/ RunnerCrash(n)
         \/ \E s \in Sessions : ConnLost(s) \/ ConnNoticed(s)
         \/ ReaperStep \/ DriverRestart \/ UNCHANGED vars
  PROVE  DispatchInv'
<1>1. CASE DriverRestart
  BY <1>1, QuietDispatch DEF DriverRestart, dbVars
<1>2. CASE ReaperStep
  <2>1. UNCHANGED <<job, pref, host, token, phase, task, client, pick>>
    BY <1>2 DEF ReaperStep, ReaperSnapshot, ReaperFilter, Reap, dbVars, sessVars
  <2>2. \A r \in Runs : state'[r] = "absent" <=> state[r] = "absent"
    <3>1. CASE ReaperSnapshot \/ ReaperFilter
      BY <3>1 DEF ReaperSnapshot, ReaperFilter, dbVars
    <3>2. ASSUME NEW r \in Runs, Reap(r)
          PROVE  \A q \in Runs : state'[q] = "absent" <=> state[q] = "absent"
      BY <3>2, ReapIsSafe DEF Reap, TypeInv, TypeOK, RowsTypeOK
    <3> QED BY <1>2, <3>1, <3>2 DEF ReaperStep
  <2> QED BY <2>1, <2>2, QuietDispatch
<1>3. CASE \/ \E j \in Jobs : CreateJob(j) \/ AgeOut(j)
           \/ \E n \in Runners : RunnerStep(n) \/ RunnerCrash(n)
           \/ \E s \in Sessions : ConnLost(s) \/ ConnNoticed(s)
           \/ UNCHANGED vars
  <2>1. UNCHANGED <<state, job, pref, host, token, phase, task, client, pick>>
    BY <1>3 DEF CreateJob, AgeOut, RunnerStep, RunnerPong, RunnerStart, RunnerStartPanic,
                RunnerReport, RunnerClosed, RunnerCrash, ConnLost, ConnNoticed, vars, dbVars, sessVars
  <2> QED BY <2>1, QuietDispatch
<1> QED BY <1>1, <1>2, <1>3

(* The channel hands a session on as it is. *)
LEMMA DispatchDispatch ==
  ASSUME TypeInv, DispatchInv, Dispatch
  PROVE  DispatchInv'
<1> DEFINE s == Head(queue)
<1>1. s \in Sessions
  BY HeadTailProperties DEF Dispatch, TypeInv, TypeOK, SessionsTypeOK
<1>2. /\ At(s, "queued") /\ Goto(s, "finding")
      /\ UNCHANGED <<state, job, pref, host, token, task, client, pick>>
  BY DEF Dispatch, dbVars
<1> HIDE DEF s
<1> QED BY <1>1, <1>2, MoveDispatch DEF At, Goto

(* Every step keeps what a session may rely on of the run it holds. *)
LEMMA DispatchNext == TypeInv /\ Unheld /\ DispatchInv /\ [Next]_vars => DispatchInv'
<1> SUFFICES ASSUME TypeInv, Unheld, DispatchInv, [Next]_vars PROVE DispatchInv'
  OBVIOUS
<1>1. CASE Environment
  BY <1>1, QueueDispatch, OutsideStepDispatch DEF Environment
<1>2. ASSUME NEW n \in Runners, Connect(n) \/ RunnerStep(n) PROVE DispatchInv'
  BY <1>2, ConnectDispatch, OutsideStepDispatch DEF Connect
<1>3. CASE Dispatch
  BY <1>3, DispatchDispatch
<1>4. ASSUME NEW s \in Sessions, SessionStep(s) PROVE DispatchInv'
  BY <1>4, FindPendingDispatch, FindAltDispatch, AltNewRunDispatch, ActivateDispatch,
     OtherSessionStepDispatch DEF SessionStep
<1>5. CASE ReaperStep \/ Network \/ UNCHANGED vars
  BY <1>5, OutsideStepDispatch DEF Network
<1>6. CASE Faulty
  BY <1>6, OutsideStepDispatch, OtherSessionStepDispatch DEF Faulty
<1> QED BY <1>1, <1>2, <1>3, <1>4, <1>5, <1>6 DEF Next

------------------------------------------------------------------------------

(* What find_client_task and activate_run make sure of, of every session.   *)
THEOREM DispatchInvHolds == Spec => []DispatchInv
<1>1. Init => TypeInv /\ Unheld /\ DispatchInv
  BY TypeInit, UnheldInit, DispatchInit
<1>2. TypeInv /\ Unheld /\ DispatchInv /\ [Next]_vars => (TypeInv /\ Unheld /\ DispatchInv)'
  BY TypeNext, UnheldNext, DispatchNext
<1> QED BY <1>1, <1>2, PTL DEF Spec

(* HostPinned: get_pending_runs and activate_run keep a run for a host on   *)
(* that host, for any number of sessions between their statements.          *)
THEOREM RunsStayOnTheirHosts == Spec => []HostPinned
<1>1. DispatchInv => HostPinned
  BY DEF DispatchInv
<1> QED BY <1>1, DispatchInvHolds, PTL

(* SourceTrusted: on both ways by which find_client_task hands a run to a   *)
(* runner, will_accept has let its job through.                             *)
THEOREM RunnersBuildTheirSources == Spec => []SourceTrusted
<1>1. DispatchInv => SourceTrusted
  BY DEF DispatchInv
<1> QED BY <1>1, DispatchInvHolds, PTL

(* TokenNamesHolder: activate_run ties the token of a connection to one     *)
(* run, which its session goes on to build.                                 *)
THEOREM TokensNameHolders == Spec => []TokenNamesHolder
<1>1. DispatchInv => TokenNamesHolder
  BY DEF DispatchInv
<1> QED BY <1>1, DispatchInvHolds, PTL

------------------------------------------------------------------------------
(* The conversation of a task and its runner *)

(* The channel has the sessions that wait in it, each once. *)
ChannelInv ==
  /\ \A i \in DOMAIN queue : phase[queue[i]] = "queued"
  /\ \A i, j \in DOMAIN queue : queue[i] = queue[j] => i = j
  /\ \A s \in Sessions : phase[s] = "queued" => \E i \in DOMAIN queue : queue[i] = s

(* A connection has one runner. *)
RunnersApart ==
  /\ \A n \in Runners : rphase[n] = "idle" => rsess[n] = None
  /\ \A n, m \in Runners : rsess[n] = rsess[m] /\ rsess[n] # None => n = m

(* Where a task and its runner can be while both hold the connection, and   *)
(* what is under way between them.                                          *)
Talk(p, w, down, back) ==
  \/ p \in {"queued", "finding", "looking", "alt", "altsel"} /\ w = "waiting" /\ down = <<>> /\ back = <<>>
  \/ p = "pinging" /\ w = "waiting" /\ down = <<"ping">> /\ back = <<>>
  \/ p = "pinging" /\ w = "waiting" /\ down = <<>> /\ back = <<"pong">>
  \/ p = "offered" /\ w = "waiting" /\ down = <<"newtask">> /\ back = <<>>
  \/ p = "offered" /\ w = "building" /\ down = <<>> /\ back = <<"started">>
  \/ p \in {"acked", "running"} /\ w = "building" /\ down = <<>> /\ back = <<>>

(* What may be left to read of a connection that is gone. *)
Unread(p) == CASE p = "pinging" -> {<<>>, <<"pong">>}
               [] p = "offered" -> {<<>>, <<"started">>} \cup {<<"started", v>> : v \in Verdicts}
               [] p \in {"acked", "running"} -> {<<>>} \cup {<<v>> : v \in Verdicts}
               [] OTHER -> {<<>>}

Talks(s) == \E n \in Runners : rsess[n] = s /\ Talk(phase[s], rphase[n], toRunner[s], toDriver[s])

TalkInv == \A s \in Sessions : IF up[s] = "up" THEN Talks(s) ELSE toDriver[s] \in Unread(phase[s])

ConversationInv == ChannelInv /\ RunnersApart /\ TalkInv

------------------------------------------------------------------------------

(* One message, sent, read or cut off. *)
LEMMA OneMessage ==
  ASSUME NEW a
  PROVE  /\ <<a>> # <<>> /\ Head(<<a>>) = a /\ Tail(<<a>>) = <<>> /\ Append(<<>>, a) = <<a>>
         /\ Prefix(<<a>>) \subseteq {<<>>, <<a>>} /\ Prefix(<<>>) \subseteq {<<>>}
<1>1. /\ <<a>> # <<>> /\ Head(<<a>>) = a /\ Tail(<<a>>) = <<>> /\ Append(<<>>, a) = <<a>>
      /\ Len(<<a>>) = 1 /\ Len(<<>>) = 0
  OBVIOUS
<1>2. SubSeq(<<a>>, 1, 0) = <<>> /\ SubSeq(<<>>, 1, 0) = <<>>
  BY SubSeqEmpty
<1>3. <<a>> \in Seq({a})
  OBVIOUS
<1>4. SubSeq(<<a>>, 1, 1) = <<a>>
  BY <1>1, <1>3, SubSeqFull
<1>5. \A n \in 0..1 : n = 0 \/ n = 1
  OBVIOUS
<1>6. \A n \in 0..0 : n = 0
  OBVIOUS
<1>7. Prefix(<<a>>) \subseteq {<<>>, <<a>>}
  BY <1>1, <1>2, <1>4, <1>5 DEF Prefix
<1>8. Prefix(<<>>) \subseteq {<<>>}
  BY <1>1, <1>2, <1>6 DEF Prefix
<1> QED BY <1>1, <1>7, <1>8

(* Two messages, likewise. *)
LEMMA TwoMessages ==
  ASSUME NEW a, NEW b
  PROVE  /\ <<a, b>> # <<>> /\ Head(<<a, b>>) = a /\ Tail(<<a, b>>) = <<b>>
         /\ Append(<<a>>, b) = <<a, b>>
         /\ Prefix(<<a, b>>) \subseteq {<<>>, <<a>>, <<a, b>>}
<1>1. <<a, b>> # <<>> /\ Head(<<a, b>>) = a /\ Tail(<<a, b>>) = <<b>> /\ Len(<<a, b>>) = 2
  OBVIOUS
<1>2. <<a, b>> \in Seq({a, b}) /\ <<a>> \in Seq({a, b}) /\ Len(<<a>>) = 1
  OBVIOUS
<1>3. Append(<<a>>, b) = <<a, b>>
  <2>1. /\ Append(<<a>>, b) \in Seq({a, b}) /\ Len(Append(<<a>>, b)) = 2
        /\ Append(<<a>>, b)[1] = a /\ Append(<<a>>, b)[2] = b
    BY <1>2, AppendProperties
  <2>2. <<a, b>>[1] = a /\ <<a, b>>[2] = b /\ \A i \in 1..2 : i = 1 \/ i = 2
    OBVIOUS
  <2> QED BY <1>1, <1>2, <2>1, <2>2, SeqEqual
<1>4. SubSeq(<<a, b>>, 1, 0) = <<>>
  BY SubSeqEmpty
<1>5. SubSeq(<<a, b>>, 1, 2) = <<a, b>>
  BY <1>1, <1>2, SubSeqFull
<1>6. SubSeq(<<a, b>>, 1, 1) = <<a>>
  <2>1. \A i \in 1..1 : <<a, b>>[i] \in {a, b}
    BY <1>2, <1>1, ElementOfSeq
  <2>2. /\ SubSeq(<<a, b>>, 1, 1) \in Seq({a, b}) /\ Len(SubSeq(<<a, b>>, 1, 1)) = 1
        /\ SubSeq(<<a, b>>, 1, 1)[1] = a
    BY <2>1, SubSeqProperties
  <2>3. <<a>>[1] = a /\ \A i \in 1..1 : i = 1
    OBVIOUS
  <2> QED BY <1>2, <2>2, <2>3, SeqEqual
<1>7. \A n \in 0..2 : n = 0 \/ n = 1 \/ n = 2
  OBVIOUS
<1>8. Prefix(<<a, b>>) \subseteq {<<>>, <<a>>, <<a, b>>}
  BY <1>1, <1>4, <1>5, <1>6, <1>7 DEF Prefix
<1> QED BY <1>1, <1>8, <1>3

(* The conversation gives each end something to go on with. *)
LEMMA TalkersGoOn == TypeInv /\ ConversationInv => NoMutualWait
<1> SUFFICES ASSUME TypeInv, ConversationInv PROVE NoMutualWait
  OBVIOUS
<1>1. ASSUME NEW s \in Sessions, up[s] = "up", NEW n \in Runners, rsess[n] = s,
             Talk(phase[s], rphase[n], toRunner[s], toDriver[s]), phase[s] # "queued"
      PROVE  /\ TaskGoesOn(s) \/ RunnerGoesOn(n)
  BY <1>1, OneMessage DEF Talk, TaskGoesOn, RunnerGoesOn, Awaited
<1>2. ASSUME NEW s \in Sessions, phase[s] = "queued" PROVE TaskGoesOn(s)
  <2>1. PICK i \in DOMAIN queue : queue[i] = s
    BY <1>2 DEF ConversationInv, ChannelInv
  <2>2. queue \in Seq(Sessions) /\ DOMAIN queue = 1..Len(queue) /\ Len(queue) \in Nat
    BY LenProperties DEF TypeInv, TypeOK, SessionsTypeOK
  <2>3. 1 \in DOMAIN queue /\ Head(queue) = queue[1]
    BY <2>1, <2>2
  <2>4. phase[Head(queue)] = "queued"
    BY <2>3 DEF ConversationInv, ChannelInv
  <2> QED BY <1>2, <2>1, <2>4 DEF TaskGoesOn, At
<1>3. ASSUME NEW s \in Sessions, up[s] = "down", phase[s] # "closed" PROVE TaskGoesOn(s)
  <2>1. toDriver[s] \in Unread(phase[s])
    BY <1>3 DEF ConversationInv, TalkInv
  <2>2. phase[s] \in Phases
    BY DEF TypeInv, TypeOK, SessionsTypeOK
  <2>3. CASE phase[s] = "pinging"
    BY <1>3, <2>1, <2>3, OneMessage DEF Unread, TaskGoesOn, Awaited, SeesHangUp
  <2>4. CASE phase[s] = "offered"
    BY <1>3, <2>1, <2>4, OneMessage, TwoMessages DEF Unread, TaskGoesOn, Awaited, SeesHangUp
  <2>5. CASE phase[s] = "running"
    BY <1>3, <2>1, <2>5, OneMessage DEF Unread, TaskGoesOn, Awaited, SeesHangUp
  <2>6. CASE phase[s] \notin {"pinging", "offered", "running"}
    <3>1. phase[s] \in {"queued", "finding", "looking", "alt", "altsel", "acked", "reporting"}
      BY <1>3, <2>2, <2>6 DEF Phases
    <3>2. CASE phase[s] = "queued"
      BY <1>2, <3>2
    <3>3. CASE phase[s] # "queued"
      BY <3>1, <3>3 DEF TaskGoesOn
    <3> QED BY <3>2, <3>3
  <2> QED BY <2>3, <2>4, <2>5, <2>6
<1>4. ASSUME NEW s \in Sessions, phase[s] # "closed"
      PROVE  TaskGoesOn(s) \/ up[s] = "cut" \/ \E n \in Runners : rsess[n] = s /\ RunnerGoesOn(n)
  <2>1. CASE up[s] = "up"
    <3>1. PICK n \in Runners : /\ rsess[n] = s
                               /\ Talk(phase[s], rphase[n], toRunner[s], toDriver[s])
      BY <2>1 DEF ConversationInv, TalkInv, Talks
    <3> QED BY <1>1, <1>2, <2>1, <3>1
  <2>2. CASE up[s] # "up"
    <3>1. up[s] \in {"cut", "down"}
      BY <2>2 DEF TypeInv, TypeOK, NetTypeOK
    <3> QED BY <1>3, <1>4, <3>1
  <2> QED BY <2>1, <2>2
<1>5. ASSUME NEW n \in Runners, rphase[n] # "idle"
      PROVE  RunnerGoesOn(n) \/ TaskGoesOn(rsess[n])
  <2>1. /\ rsess[n] \in Sessions /\ rphase[n] \in {"waiting", "building"}
        /\ up[rsess[n]] \in {"up", "cut", "down"}
    BY <1>5 DEF TypeInv, TypeOK, RunnersTypeOK, NetTypeOK, Linked, RunnersAreAttached
  <2>2. CASE up[rsess[n]] = "up"
    <3>1. PICK m \in Runners :
            /\ rsess[m] = rsess[n]
            /\ Talk(phase[rsess[n]], rphase[m], toRunner[rsess[n]], toDriver[rsess[n]])
      BY <2>1, <2>2 DEF ConversationInv, TalkInv, Talks
    <3>2. m = n
      BY <2>1, <3>1, NullAssumption DEF ConversationInv, RunnersApart
    <3> QED BY <1>1, <1>2, <2>1, <2>2, <3>1, <3>2
  <2>3. CASE up[rsess[n]] # "up"
    BY <2>1, <2>3 DEF RunnerGoesOn
  <2> QED BY <2>1, <2>2, <2>3
<1> QED BY <1>4, <1>5 DEF NoMutualWait

------------------------------------------------------------------------------

(* Nothing is connected when the driver first starts. *)
LEMMA ConversationInit == Init => ConversationInv
<1> SUFFICES ASSUME Init PROVE ConversationInv
  OBVIOUS
<1>1. ChannelInv
  BY DEF Init, ChannelInv
<1>2. RunnersApart
  BY DEF Init, RunnersApart
<1>3. TalkInv
  BY DEF Init, TalkInv, Unread
<1> QED BY <1>1, <1>2, <1>3 DEF ConversationInv

(* Steps of others leave a conversation as it is. *)
LEMMA OthersTalk ==
  ASSUME TypeInv, ConversationInv, NEW s \in Sessions,
         \A t \in Sessions \ {s} : /\ phase'[t] = phase[t] /\ up'[t] = up[t]
                                   /\ toRunner'[t] = toRunner[t] /\ toDriver'[t] = toDriver[t],
         \A n \in Runners : rsess[n] \in Sessions \ {s} =>
                              rsess'[n] = rsess[n] /\ rphase'[n] = rphase[n],
         IF up'[s] = "up" THEN Talks(s)' ELSE toDriver'[s] \in Unread(phase'[s])
  PROVE  TalkInv'
<1> SUFFICES ASSUME NEW t \in Sessions \ {s}
             PROVE  IF up'[t] = "up" THEN Talks(t)' ELSE toDriver'[t] \in Unread(phase'[t])
  BY DEF TalkInv
<1>1. CASE up[t] = "up"
  <2>1. PICK n \in Runners : rsess[n] = t /\ Talk(phase[t], rphase[n], toRunner[t], toDriver[t])
    BY <1>1 DEF ConversationInv, TalkInv, Talks
  <2>2. rsess'[n] = t /\ Talk(phase[t], rphase[n], toRunner[t], toDriver[t])'
    BY <2>1
  <2> QED BY <1>1, <2>2 DEF Talks
<1>2. CASE up[t] # "up"
  BY <1>2 DEF ConversationInv, TalkInv
<1> QED BY <1>1, <1>2

(* What concerns neither tasks nor connections concerns no conversation. *)
LEMMA QuietTalk ==
  ASSUME ConversationInv, UNCHANGED <<queue, phase, netVars, rnrVars>>
  PROVE  ConversationInv'
<1>1. ChannelInv' /\ RunnersApart'
  BY DEF ConversationInv, ChannelInv, RunnersApart, rnrVars
<1>2. \A s \in Sessions : Talks(s)' <=> Talks(s)
  BY DEF Talks, netVars, rnrVars
<1>3. TalkInv'
  BY <1>2 DEF ConversationInv, TalkInv, netVars
<1> QED BY <1>1, <1>3 DEF ConversationInv

(* A task past the channel leaves it as it is. *)
LEMMA ChannelKept ==
  ASSUME TypeInv, ConversationInv, NEW s \in Sessions, phase[s] # "queued", NEW p, p # "queued",
         phase' = [phase EXCEPT ![s] = p], queue' = queue
  PROVE  ChannelInv' /\ phase'[s] = p /\ \A t \in Sessions \ {s} : phase'[t] = phase[t]
<1>1. phase'[s] = p /\ \A t \in Sessions \ {s} : phase'[t] = phase[t]
  BY DEF TypeInv, TypeOK, SessionsTypeOK
<1>2. \A i \in DOMAIN queue : queue[i] \in Sessions /\ phase[queue[i]] = "queued"
  <2>1. queue \in [1..Len(queue) -> Sessions] /\ DOMAIN queue = 1..Len(queue)
    BY LenProperties DEF TypeInv, TypeOK, SessionsTypeOK
  <2> QED BY <2>1 DEF ConversationInv, ChannelInv
<1>3. ChannelInv'
  BY <1>1, <1>2 DEF ConversationInv, ChannelInv
<1> QED BY <1>1, <1>3

(* A task that ends leaves its runner with what it has sent. *)
LEMMA CloseTalk ==
  ASSUME TypeInv, ConversationInv, NEW s \in Sessions, phase[s] # "queued", Close(s),
         UNCHANGED rnrVars
  PROVE  ConversationInv'
<1>1. /\ phase' = [phase EXCEPT ![s] = "closed"] /\ queue' = queue
      /\ up' = [up EXCEPT ![s] = Ended(@)] /\ toDriver' = [toDriver EXCEPT ![s] = <<>>]
      /\ toRunner' = toRunner /\ rsess' = rsess /\ rphase' = rphase
  BY DEF Close, rnrVars
<1>2. ChannelInv' /\ phase'[s] = "closed" /\ \A t \in Sessions \ {s} : phase'[t] = phase[t]
  BY <1>1, ChannelKept
<1>3. RunnersApart'
  BY <1>1 DEF ConversationInv, RunnersApart
<1>4. /\ up'[s] # "up" /\ toDriver'[s] = <<>>
      /\ \A t \in Sessions \ {s} : up'[t] = up[t] /\ toDriver'[t] = toDriver[t]
  BY <1>1 DEF TypeInv, TypeOK, NetTypeOK, Ended
<1>5. toDriver'[s] \in Unread(phase'[s])
  BY <1>2, <1>4 DEF Unread
<1>6. TalkInv'
  BY <1>1, <1>2, <1>4, <1>5, OthersTalk
<1> QED BY <1>2, <1>3, <1>6 DEF ConversationInv

(* A step of a task that sends, reads or only goes on: what is left to show *)
(* is that the conversation is at one of its places again.                  *)
LEMMA TaskTalk ==
  ASSUME TypeInv, ConversationInv, NEW s \in Sessions, phase[s] # "queued", NEW p, p # "queued",
         phase' = [phase EXCEPT ![s] = p], UNCHANGED <<queue, up, rnrVars>>,
         \A t \in Sessions \ {s} : toRunner'[t] = toRunner[t] /\ toDriver'[t] = toDriver[t],
         \A w : up[s] = "up" /\ Talk(phase[s], w, toRunner[s], toDriver[s])
                  => Talk(p, w, toRunner'[s], toDriver'[s]),
         up[s] # "up" /\ toDriver[s] \in Unread(phase[s]) => toDriver'[s] \in Unread(p)
  PROVE  ConversationInv'
<1>1. ChannelInv' /\ phase'[s] = p /\ \A t \in Sessions \ {s} : phase'[t] = phase[t]
  BY ChannelKept
<1>2. rsess' = rsess /\ rphase' = rphase /\ up' = up
  BY DEF rnrVars
<1>3. RunnersApart'
  BY <1>2 DEF ConversationInv, RunnersApart
<1>4. CASE up[s] = "up"
  <2>1. PICK n \in Runners : rsess[n] = s /\ Talk(phase[s], rphase[n], toRunner[s], toDriver[s])
    BY <1>4 DEF ConversationInv, TalkInv, Talks
  <2>2. Talk(p, rphase[n], toRunner'[s], toDriver'[s])
    BY <1>4, <2>1
  <2>3. Talks(s)'
    BY <1>1, <1>2, <2>1, <2>2 DEF Talks
  <2> QED BY <1>1, <1>2, <1>3, <1>4, <2>3, OthersTalk DEF ConversationInv
<1>5. CASE up[s] # "up"
  <2>1. toDriver'[s] \in Unread(phase'[s])
    BY <1>1, <1>5 DEF ConversationInv, TalkInv
  <2> QED BY <1>1, <1>2, <1>3, <1>5, <2>1, OthersTalk DEF ConversationInv
<1> QED BY <1>4, <1>5

(* NewTask and Ping go to a runner that waits and has been sent nothing.    *)
LEMMA SendTalk ==
  ASSUME TypeInv, ConversationInv, NEW s \in Sessions, NEW p, NEW m, Goto(s, p), Send(s, m),
         phase[s] \in {"looking", "alt"},
         (p = "offered" /\ m = "newtask") \/ (p = "pinging" /\ m = "ping"),
         UNCHANGED <<queue, up, toDriver, rnrVars>>
  PROVE  ConversationInv'
<1>1. \A t \in Sessions \ {s} : toRunner'[t] = toRunner[t] /\ toDriver'[t] = toDriver[t]
  BY DEF Send, TypeInv, TypeOK, NetTypeOK
<1>2. ASSUME NEW w, up[s] = "up", Talk(phase[s], w, toRunner[s], toDriver[s])
      PROVE  Talk(p, w, toRunner'[s], toDriver'[s])
  <2>1. w = "waiting" /\ toRunner[s] = <<>> /\ toDriver[s] = <<>>
    BY <1>2 DEF Talk
  <2>2. toRunner'[s] = <<m>> /\ toDriver'[s] = <<>>
    <3>1. toRunner'[s] = Append(toRunner[s], m)
      BY <1>2 DEF Send, TypeInv, TypeOK, NetTypeOK
    <3> QED BY <2>1, <3>1, OneMessage
  <2> QED BY <2>1, <2>2 DEF Talk
<1>3. ASSUME toDriver[s] \in Unread(phase[s]) PROVE toDriver'[s] \in Unread(p)
  BY <1>3 DEF Unread
<1> QED BY <1>1, <1>2, <1>3, TaskTalk DEF Goto

(* What a task reads is the first of what its place in the conversation lets *)
(* it find there.                                                           *)
LEMMA ReadTalk ==
  ASSUME TypeInv, ConversationInv, NEW s \in Sessions, NEW p, NEW m, Goto(s, p), Receive(s, m),
         \/ phase[s] = "pinging" /\ m = "pong" /\ p = "finding"
         \/ phase[s] = "offered" /\ m = "started" /\ p = "acked"
         \/ phase[s] = "running" /\ p = "reporting",
         UNCHANGED <<queue, rnrVars>>
  PROVE  ConversationInv'
<1>1. /\ toDriver[s] # <<>> /\ toDriver'[s] = Tail(toDriver[s]) /\ up' = up /\ toRunner' = toRunner
      /\ \A t \in Sessions \ {s} : toDriver'[t] = toDriver[t]
  BY DEF Receive, TypeInv, TypeOK, NetTypeOK
<1>2. ASSUME NEW w, up[s] = "up", Talk(phase[s], w, toRunner[s], toDriver[s])
      PROVE  Talk(p, w, toRunner'[s], toDriver'[s])
  <2>1. CASE phase[s] = "pinging"
    <3>1. w = "waiting" /\ toRunner[s] = <<>> /\ toDriver[s] = <<"pong">>
      BY <1>1, <1>2, <2>1 DEF Talk
    <3>2. p = "finding" /\ toDriver'[s] = <<>>
      BY <1>1, <2>1, <3>1, OneMessage
    <3> QED BY <1>1, <3>1, <3>2 DEF Talk
  <2>2. CASE phase[s] = "offered"
    <3>1. w = "building" /\ toRunner[s] = <<>> /\ toDriver[s] = <<"started">>
      BY <1>1, <1>2, <2>2 DEF Talk
    <3>2. p = "acked" /\ toDriver'[s] = <<>>
      BY <1>1, <2>2, <3>1, OneMessage
    <3> QED BY <1>1, <3>1, <3>2 DEF Talk
  <2>3. CASE phase[s] = "running"
    BY <1>1, <1>2, <2>3 DEF Talk
  <2> QED BY <2>1, <2>2, <2>3
<1>3. ASSUME toDriver[s] \in Unread(phase[s]) PROVE toDriver'[s] \in Unread(p)
  <2>1. CASE phase[s] = "pinging"
    <3>1. toDriver'[s] = <<>> /\ p = "finding"
      BY <1>1, <1>3, <2>1, OneMessage DEF Unread
    <3> QED BY <3>1 DEF Unread
  <2>2. CASE phase[s] = "offered"
    <3>1. toDriver'[s] = <<>> \/ \E v \in Verdicts : toDriver'[s] = <<v>>
      <4>1. toDriver[s] = <<"started">> \/ \E v \in Verdicts : toDriver[s] = <<"started", v>>
        BY <1>1, <1>3, <2>2 DEF Unread
      <4>2. CASE toDriver[s] = <<"started">>
        BY <1>1, <4>2, OneMessage
      <4>3. ASSUME NEW v \in Verdicts, toDriver[s] = <<"started", v>>
            PROVE  toDriver'[s] = <<v>>
        BY <1>1, <4>3, TwoMessages
      <4> QED BY <4>1, <4>2, <4>3
    <3>2. p = "acked"
      BY <2>2
    <3> QED BY <3>1, <3>2 DEF Unread
  <2>3. CASE phase[s] = "running"
    <3>1. \E v \in Verdicts : toDriver[s] = <<v>>
      BY <1>1, <1>3, <2>3 DEF Unread
    <3>2. toDriver'[s] = <<>> /\ p = "reporting"
      BY <1>1, <2>3, <3>1, OneMessage
    <3> QED BY <3>2 DEF Unread
  <2> QED BY <2>1, <2>2, <2>3
<1>4. phase[s] # "queued" /\ p # "queued"
  OBVIOUS
<1> QED BY <1>1, <1>2, <1>3, <1>4, TaskTalk DEF Goto

(* A task that only looks at its rows. *)
LEMMA LookTalk ==
  ASSUME TypeInv, ConversationInv, NEW s \in Sessions, NEW p, Goto(s, p),
         \/ phase[s] \in {"finding", "altsel"} /\ p = "looking"
         \/ phase[s] = "looking" /\ p = "alt"
         \/ phase[s] = "alt" /\ p = "altsel"
         \/ phase[s] = "acked" /\ p = "running"
         \/ phase[s] = "reporting" /\ p = "running",
         UNCHANGED <<queue, netVars, rnrVars>>
  PROVE  ConversationInv'
<1>1. up' = up /\ toRunner' = toRunner /\ toDriver' = toDriver
  BY DEF netVars
<1>2. ASSUME NEW w, Talk(phase[s], w, toRunner[s], toDriver[s])
      PROVE  Talk(p, w, toRunner'[s], toDriver'[s])
  BY <1>1, <1>2 DEF Talk
<1>3. ASSUME toDriver[s] \in Unread(phase[s]) PROVE toDriver'[s] \in Unread(p)
  BY <1>1, <1>3 DEF Unread
<1>4. phase[s] # "queued" /\ p # "queued"
  OBVIOUS
<1> QED BY <1>1, <1>2, <1>3, <1>4, TaskTalk DEF Goto

(* Every step of find_client_task, activate_run and ClientJob::run. *)
LEMMA SessionStepTalk ==
  ASSUME TypeInv, ConversationInv, NEW s \in Sessions, SessionStep(s) \/ TaskPanics(s)
  PROVE  ConversationInv'
<1>1. CASE FindPending(s) \/ AltNewRun(s) \/ NothingPending(s)
  BY <1>1, LookTalk DEF FindPending, AltNewRun, NothingPending, LookedUp, At
<1>2. CASE FindAlt(s)
  <2>1. CASE Goto(s, "pinging") /\ Send(s, "ping")
    BY <1>2, <2>1, SendTalk DEF FindAlt, At
  <2>2. CASE Goto(s, "altsel") /\ UNCHANGED toRunner
    BY <1>2, <2>2, LookTalk DEF FindAlt, At, netVars
  <2> QED BY <1>2, <2>1, <2>2 DEF FindAlt
<1>3. CASE Submit(s)
  BY <1>3, SendTalk DEF Submit, LookedUp, At
<1>4. CASE TestConnection(s)
  BY <1>4, ReadTalk DEF TestConnection, At
<1>5. CASE RecvStarted(s)
  BY <1>5, ReadTalk DEF RecvStarted, At
<1>6. CASE RecvStatus(s)
  BY <1>6, ReadTalk DEF RecvStatus, At
<1>7. CASE ActivateRun(s) \/ CompleteRun(s)
  BY <1>7, LookTalk DEF ActivateRun, CompleteRun, At
<1>8. CASE JobMissing(s) \/ PreludePanics(s) \/ Deadline(s) \/ HangUp(s) \/ TaskPanics(s)
  BY <1>8, CloseTalk DEF JobMissing, PreludePanics, Deadline, HangUp, TaskPanics, LookedUp, At
<1> QED BY <1>1, <1>2, <1>3, <1>4, <1>5, <1>6, <1>7, <1>8 DEF SessionStep

(* The main loop takes the first of the channel; everybody else stays.      *)
LEMMA DispatchTalk == ASSUME TypeInv, ConversationInv, Dispatch PROVE ConversationInv'
<1>0. PICK s \in Sessions : s = Head(queue)
  BY HeadTailProperties DEF Dispatch, TypeInv, TypeOK, SessionsTypeOK
<1>1. /\ queue # <<>> /\ queue' = Tail(queue) /\ phase[s] = "queued"
      /\ phase' = [phase EXCEPT ![s] = "finding"]
      /\ UNCHANGED <<up, toRunner, toDriver, rsess, rphase>>
  BY <1>0 DEF Dispatch, At, Goto, netVars, rnrVars
<1>2. /\ queue \in Seq(Sessions) /\ Len(queue) \in Nat /\ DOMAIN queue = 1..Len(queue)
      /\ \A i \in 1..Len(queue) : queue[i] \in Sessions
  BY LenProperties, ElementOfSeq DEF TypeInv, TypeOK, SessionsTypeOK
<1>3. /\ Len(queue) >= 1 /\ s = queue[1]
      /\ DOMAIN queue' = 1..(Len(queue) - 1)
      /\ \A i \in 1..(Len(queue) - 1) : queue'[i] = queue[i + 1]
  <2>1. /\ Tail(queue) \in Seq(Sessions) /\ Len(Tail(queue)) = Len(queue) - 1
        /\ \A i \in 1..Len(Tail(queue)) : Tail(queue)[i] = queue[i + 1]
    BY <1>1, <1>2, HeadTailProperties
  <2>2. Len(queue) >= 1 /\ Head(queue) = queue[1]
    BY <1>1, <1>2, EmptySeq
  <2>3. DOMAIN Tail(queue) = 1..(Len(queue) - 1)
    BY <2>1, LenProperties
  <2> QED BY <1>0, <1>1, <2>1, <2>2, <2>3
<1>4. phase'[s] = "finding" /\ \A t \in Sessions \ {s} : phase'[t] = phase[t]
  BY <1>1, <1>3 DEF TypeInv, TypeOK, SessionsTypeOK
<1>5. ChannelInv'
  <2>1. \A i, j \in 1..Len(queue) : queue[i] = queue[j] => i = j
    BY <1>2 DEF ConversationInv, ChannelInv
  <2>2. \A i \in 1..(Len(queue) - 1) : i + 1 \in 1..Len(queue) /\ i + 1 # 1
    BY <1>2
  <2>3. \A i \in 1..(Len(queue) - 1) : queue'[i] \in Sessions /\ queue'[i] # s
    BY <1>2, <1>3, <2>1, <2>2
  <2>4. \A i \in 1..(Len(queue) - 1) : phase'[queue'[i]] = "queued"
    BY <1>2, <1>3, <1>4, <2>2, <2>3 DEF ConversationInv, ChannelInv
  <2>5. \A i, j \in 1..(Len(queue) - 1) : queue'[i] = queue'[j] => i = j
    <3> SUFFICES ASSUME NEW i \in 1..(Len(queue) - 1), NEW j \in 1..(Len(queue) - 1),
                        queue'[i] = queue'[j]
                 PROVE  i = j
      OBVIOUS
    <3>1. i + 1 = j + 1
      BY <1>3, <2>1, <2>2
    <3> QED BY <1>2, <3>1
  <2>6. ASSUME NEW t \in Sessions, phase'[t] = "queued"
        PROVE  \E i \in 1..(Len(queue) - 1) : queue'[i] = t
    <3>1. t # s /\ phase[t] = "queued"
      BY <1>4, <2>6
    <3>2. PICK k \in 1..Len(queue) : queue[k] = t
      BY <1>2, <3>1 DEF ConversationInv, ChannelInv
    <3>3. k # 1
      BY <1>3, <3>1, <3>2
    <3>4. k - 1 \in 1..(Len(queue) - 1) /\ (k - 1) + 1 = k
      BY <1>2, <3>3
    <3> QED BY <1>3, <3>2, <3>4
  <2> QED BY <1>3, <2>4, <2>5, <2>6 DEF ChannelInv
<1>6. RunnersApart'
  BY <1>1 DEF ConversationInv, RunnersApart
<1>7. IF up'[s] = "up" THEN Talks(s)' ELSE toDriver'[s] \in Unread(phase'[s])
  <2>1. CASE up[s] = "up"
    <3>1. PICK n \in Runners : rsess[n] = s /\ Talk("queued", rphase[n], toRunner[s], toDriver[s])
      BY <1>1, <1>3, <2>1 DEF ConversationInv, TalkInv, Talks
    <3>2. Talk("finding", rphase[n], toRunner[s], toDriver[s])
      BY <3>1 DEF Talk
    <3> QED BY <1>1, <1>4, <2>1, <3>1, <3>2 DEF Talks
  <2>2. CASE up[s] # "up"
    BY <1>1, <1>3, <1>4, <2>2 DEF ConversationInv, TalkInv, Unread
  <2> QED BY <2>1, <2>2
<1>8. TalkInv'
  BY <1>1, <1>3, <1>4, <1>7, OthersTalk
<1> QED BY <1>5, <1>6, <1>8 DEF ConversationInv

(* A new connection: its slot has no task, no runner, and nothing unread.   *)
LEMMA ConnectTalk ==
  ASSUME TypeInv, ConversationInv, NEW n \in Runners, NEW s \in Sessions, HandleNextJob(n, s)
  PROVE  ConversationInv'
<1>1. /\ phase[s] = "closed" /\ \A m \in Runners : rsess[m] # s
      /\ rphase[n] = "idle" /\ queue' = Append(queue, s)
      /\ phase' = [phase EXCEPT ![s] = "queued"] /\ up' = [up EXCEPT ![s] = "up"]
      /\ toRunner' = [toRunner EXCEPT ![s] = <<>>] /\ toDriver' = toDriver
      /\ rsess' = [rsess EXCEPT ![n] = s] /\ rphase' = [rphase EXCEPT ![n] = "waiting"]
  BY DEF HandleNextJob, Idle
<1>2. /\ phase'[s] = "queued" /\ up'[s] = "up" /\ toRunner'[s] = <<>>
      /\ rsess'[n] = s /\ rphase'[n] = "waiting"
      /\ \A t \in Sessions \ {s} : phase'[t] = phase[t] /\ up'[t] = up[t] /\ toRunner'[t] = toRunner[t]
      /\ \A m \in Runners \ {n} : rsess'[m] = rsess[m] /\ rphase'[m] = rphase[m]
  BY <1>1 DEF TypeInv, TypeOK, SessionsTypeOK, NetTypeOK, RunnersTypeOK
<1>3. rsess[n] = None /\ toDriver[s] = <<>>
  <2>1. up[s] # "up"
    BY <1>1 DEF ConversationInv, TalkInv, Talks
  <2> QED BY <1>1, <2>1 DEF ConversationInv, RunnersApart, TalkInv, Unread
<1>4. /\ queue \in Seq(Sessions) /\ Len(queue) \in Nat /\ DOMAIN queue = 1..Len(queue)
      /\ \A i \in 1..Len(queue) : queue[i] \in Sessions
  BY LenProperties, ElementOfSeq DEF TypeInv, TypeOK, SessionsTypeOK
<1>5. /\ DOMAIN queue' = 1..(Len(queue) + 1) /\ queue'[Len(queue) + 1] = s
      /\ \A i \in 1..Len(queue) : queue'[i] = queue[i]
  <2>1. /\ Append(queue, s) \in Seq(Sessions) /\ Len(Append(queue, s)) = Len(queue) + 1
        /\ Append(queue, s)[Len(queue) + 1] = s
        /\ \A i \in 1..Len(queue) : Append(queue, s)[i] = queue[i]
    BY <1>4, AppendProperties
  <2> QED BY <1>1, <2>1, LenProperties
<1>6. ChannelInv'
  <2>1. \A i \in 1..Len(queue) : phase[queue[i]] = "queued" /\ queue[i] # s
    BY <1>1, <1>4 DEF ConversationInv, ChannelInv
  <2>2. \A i \in 1..(Len(queue) + 1) : i \in 1..Len(queue) \/ i = Len(queue) + 1
    BY <1>4
  <2>3. \A i \in 1..(Len(queue) + 1) : phase'[queue'[i]] = "queued"
    BY <1>2, <1>4, <1>5, <2>1, <2>2
  <2>4. \A i, j \in 1..Len(queue) : queue[i] = queue[j] => i = j
    BY <1>4 DEF ConversationInv, ChannelInv
  <2>5. \A i, j \in 1..(Len(queue) + 1) : queue'[i] = queue'[j] => i = j
    BY <1>5, <2>1, <2>2, <2>4
  <2>6. ASSUME NEW t \in Sessions, phase'[t] = "queued"
        PROVE  \E i \in 1..(Len(queue) + 1) : queue'[i] = t
    <3>1. CASE t = s
      BY <1>4, <1>5, <3>1
    <3>2. CASE t # s
      <4>1. PICK k \in 1..Len(queue) : queue[k] = t
        BY <1>2, <1>4, <2>6, <3>2 DEF ConversationInv, ChannelInv
      <4> QED BY <1>4, <1>5, <4>1
    <3> QED BY <3>1, <3>2
  <2> QED BY <1>5, <2>3, <2>5, <2>6 DEF ChannelInv
<1>7. RunnersApart'
  <2>1. \A m \in Runners : rphase'[m] = "idle" => rsess'[m] = None
    BY <1>2 DEF ConversationInv, RunnersApart
  <2>2. \A m, l \in Runners : rsess'[m] = rsess'[l] /\ rsess'[m] # None => m = l
    BY <1>1, <1>2 DEF ConversationInv, RunnersApart
  <2> QED BY <2>1, <2>2 DEF RunnersApart
<1>8. Talks(s)'
  BY <1>1, <1>2, <1>3 DEF Talks, Talk
<1>9. \A m \in Runners : rsess[m] \in Sessions \ {s} => rsess'[m] = rsess[m] /\ rphase'[m] = rphase[m]
  BY <1>2, <1>3, NullAssumption
<1>10. TalkInv'
  BY <1>1, <1>2, <1>8, <1>9, OthersTalk
<1> QED BY <1>6, <1>7, <1>10 DEF ConversationInv

(* What is under way while both ends hold the connection may be left of it, *)
(* and what a loss leaves of what is left may be, too.                      *)
LEMMA UnreadClosed ==
  ASSUME NEW p \in Phases, NEW q
  PROVE  /\ \A w, d : Talk(p, w, d, q) => q \in Unread(p)
         /\ q \in Unread(p) => Prefix(q) \subseteq Unread(p)
<1>1. ASSUME NEW w, NEW d, Talk(p, w, d, q) PROVE q \in Unread(p)
  BY <1>1 DEF Talk, Unread
<1>2. ASSUME q \in Unread(p) PROVE Prefix(q) \subseteq Unread(p)
  <2>1. <<>> \in Unread(p)
    BY DEF Unread
  <2>2. CASE q = <<>>
    BY <2>1, <2>2, OneMessage
  <2>3. CASE p = "pinging" /\ q = <<"pong">>
    BY <1>2, <2>1, <2>3, OneMessage
  <2>4. CASE p = "offered" /\ q = <<"started">>
    BY <1>2, <2>1, <2>4, OneMessage
  <2>5. ASSUME NEW v \in Verdicts, p = "offered", q = <<"started", v>>
        PROVE  Prefix(q) \subseteq Unread(p)
    <3>1. <<"started">> \in Unread(p)
      BY <2>5 DEF Unread
    <3>2. Prefix(q) \subseteq {<<>>, <<"started">>, q}
      BY <2>5, TwoMessages
    <3> QED BY <1>2, <2>1, <3>1, <3>2
  <2>6. ASSUME NEW v \in Verdicts, q = <<v>>
        PROVE  Prefix(q) \subseteq Unread(p)
    BY <1>2, <2>1, <2>6, OneMessage
  <2>7. \/ q = <<>> \/ (p = "pinging" /\ q = <<"pong">>)
        \/ (p = "offered" /\ q = <<"started">>)
        \/ (p = "offered" /\ \E v \in Verdicts : q = <<"started", v>>)
        \/ \E v \in Verdicts : q = <<v>>
    BY <1>2 DEF Unread
  <2> QED BY <2>2, <2>3, <2>4, <2>5, <2>6, <2>7
<1> QED BY <1>1, <1>2

(* A connection that is held is held by the runner that has it. *)
LEMMA RunnerTalks ==
  ASSUME TypeInv, ConversationInv, NEW n \in Runners, rphase[n] # "idle"
  PROVE  /\ rsess[n] \in Sessions
         /\ up[rsess[n]] = "up" =>
              Talk(phase[rsess[n]], rphase[n], toRunner[rsess[n]], toDriver[rsess[n]])
         /\ toDriver[rsess[n]] \in Unread(phase[rsess[n]])
<1>1. rsess[n] \in Sessions
  BY DEF TypeInv, Linked, RunnersAreAttached
<1>2. ASSUME up[rsess[n]] = "up"
      PROVE  Talk(phase[rsess[n]], rphase[n], toRunner[rsess[n]], toDriver[rsess[n]])
  <2>1. PICK m \in Runners :
          /\ rsess[m] = rsess[n]
          /\ Talk(phase[rsess[n]], rphase[m], toRunner[rsess[n]], toDriver[rsess[n]])
    BY <1>1, <1>2 DEF ConversationInv, TalkInv, Talks
  <2>2. m = n
    BY <1>1, <2>1, NullAssumption DEF ConversationInv, RunnersApart
  <2> QED BY <2>1, <2>2
<1>3. toDriver[rsess[n]] \in Unread(phase[rsess[n]])
  <2>1. phase[rsess[n]] \in Phases
    BY <1>1 DEF TypeInv, TypeOK, SessionsTypeOK
  <2> QED BY <1>1, <1>2, <2>1, UnreadClosed DEF ConversationInv, TalkInv
<1> QED BY <1>1, <1>2, <1>3

(* A step of a runner on its connection. *)
LEMMA RunnerTalk ==
  ASSUME TypeInv, ConversationInv, NEW n \in Runners, rphase[n] # "idle",
         NEW s \in Sessions, rsess[n] = s, UNCHANGED <<queue, phase>>,
         \A t \in Sessions \ {s} : /\ up'[t] = up[t] /\ toRunner'[t] = toRunner[t]
                                   /\ toDriver'[t] = toDriver[t],
         \A m \in Runners \ {n} : rsess'[m] = rsess[m] /\ rphase'[m] = rphase[m],
         (rsess'[n] = s /\ rphase'[n] # "idle") \/ rsess'[n] = None,
         IF up'[s] = "up" THEN rsess'[n] = s /\ Talk(phase[s], rphase'[n], toRunner'[s], toDriver'[s])
                   ELSE toDriver'[s] \in Unread(phase[s])
  PROVE  ConversationInv'
<1>1. ChannelInv'
  BY DEF ConversationInv, ChannelInv
<1>2. RunnersApart'
  BY NullAssumption DEF ConversationInv, RunnersApart
<1>3. up'[s] = "up" => Talks(s)'
  BY DEF Talks
<1>4. TalkInv'
  BY <1>3, OthersTalk
<1> QED BY <1>1, <1>2, <1>4 DEF ConversationInv

(* A runner that lets go leaves in the connection what it says. *)
LEMMA DisconnectTalk ==
  ASSUME TypeInv, ConversationInv, NEW n \in Runners, rphase[n] # "idle", NEW read,
         Disconnect(n, read), read \in Unread(phase[rsess[n]]), UNCHANGED <<queue, phase>>
  PROVE  ConversationInv'
<1>1. PICK s \in Sessions : rsess[n] = s
  BY RunnerTalks
<1>2. /\ up'[s] # "up" /\ toDriver'[s] = read /\ rsess'[n] = None
      /\ \A t \in Sessions \ {s} : /\ up'[t] = up[t] /\ toRunner'[t] = toRunner[t]
                                   /\ toDriver'[t] = toDriver[t]
      /\ \A m \in Runners \ {n} : rsess'[m] = rsess[m] /\ rphase'[m] = rphase[m]
  BY <1>1 DEF Disconnect, Ended, TypeInv, TypeOK, NetTypeOK, RunnersTypeOK
<1> QED BY <1>1, <1>2, RunnerTalk

(* A runner answers the first message to it, and builds no two runs at once. *)
LEMMA RunnerAnswersTalk ==
  ASSUME TypeInv, ConversationInv, NEW n \in Runners, RunnerPong(n) \/ RunnerStart(n)
  PROVE  ConversationInv'
<1>1. rphase[n] = "waiting" /\ UNCHANGED <<queue, phase>> /\ up' = up
  BY DEF RunnerPong, RunnerStart, Gets, sessVars
<1>2. PICK s \in Sessions : rsess[n] = s
  BY <1>1, RunnerTalks
<1>3. PICK m \in RunnerMsgs, a \in DriverMsgs, w \in {"waiting", "building"} :
        /\ Gets(n, m) /\ Reply(s, a) /\ rphase'[n] = w /\ rsess' = rsess
        /\ (m = "ping" /\ a = "pong" /\ w = "waiting")
             \/ (m = "newtask" /\ a = "started" /\ w = "building")
        /\ \A l \in Runners \ {n} : rphase'[l] = rphase[l]
  <2>1. CASE RunnerPong(n)
    BY <1>1, <1>2, <2>1 DEF RunnerPong, RunnerMsgs, DriverMsgs, rnrVars
  <2>2. CASE RunnerStart(n)
    BY <1>2, <2>2 DEF RunnerStart, RunnerMsgs, DriverMsgs, TypeInv, TypeOK, RunnersTypeOK
  <2> QED BY <2>1, <2>2
<1>4. /\ toRunner[s] # <<>> /\ Head(toRunner[s]) = m /\ toRunner'[s] = Tail(toRunner[s])
      /\ toDriver'[s] = IF up[s] = "up" THEN Append(toDriver[s], a) ELSE toDriver[s]
      /\ \A t \in Sessions \ {s} : toRunner'[t] = toRunner[t] /\ toDriver'[t] = toDriver[t]
  BY <1>2, <1>3 DEF Gets, Reply, TypeInv, TypeOK, NetTypeOK
<1>5. ASSUME up[s] = "up" PROVE Talk(phase[s], rphase'[n], toRunner'[s], toDriver'[s])
  <2>1. Talk(phase[s], "waiting", toRunner[s], toDriver[s])
    BY <1>1, <1>2, <1>5, RunnerTalks
  <2>2. /\ toRunner[s] # <<>> /\ Head(toRunner[s]) = m /\ toRunner'[s] = Tail(toRunner[s])
        /\ toDriver'[s] = Append(toDriver[s], a)
    BY <1>4, <1>5
  <2>3. /\ toDriver[s] = <<>> /\ phase[s] \in {"pinging", "offered"}
        /\ phase[s] = "pinging" => toRunner[s] = <<"ping">>
        /\ phase[s] = "offered" => toRunner[s] = <<"newtask">>
    BY <2>1, <2>2 DEF Talk
  <2>4. toDriver'[s] = <<a>>
    BY <2>2, <2>3, OneMessage
  <2>5. CASE phase[s] = "pinging"
    <3>1. m = "ping" /\ toRunner'[s] = <<>>
      BY <2>2, <2>3, <2>5, OneMessage
    <3>2. rphase'[n] = "waiting" /\ toDriver'[s] = <<"pong">>
      BY <1>3, <2>4, <3>1
    <3> QED BY <2>5, <3>1, <3>2 DEF Talk
  <2>6. CASE phase[s] = "offered"
    <3>1. m = "newtask" /\ toRunner'[s] = <<>>
      BY <2>2, <2>3, <2>6, OneMessage
    <3>2. rphase'[n] = "building" /\ toDriver'[s] = <<"started">>
      BY <1>3, <2>4, <3>1
    <3> QED BY <2>6, <3>1, <3>2 DEF Talk
  <2> QED BY <2>3, <2>5, <2>6
<1>6. up[s] # "up" => toDriver'[s] \in Unread(phase[s])
  BY <1>1, <1>2, <1>4, RunnerTalks
<1>7. rsess'[n] = s /\ rphase'[n] # "idle" /\ \A l \in Runners \ {n} : rsess'[l] = rsess[l]
  BY <1>2, <1>3
<1> QED BY <1>1, <1>2, <1>3, <1>4, <1>5, <1>6, <1>7, RunnerTalk

(* A runner that reports, panics, crashes, or hears of the driver's end.    *)
LEMMA RunnerEndsTalk ==
  ASSUME TypeInv, ConversationInv, NEW n \in Runners,
         RunnerStartPanic(n) \/ RunnerReport(n) \/ RunnerClosed(n) \/ RunnerCrash(n)
  PROVE  ConversationInv'
<1>1. rphase[n] # "idle" /\ UNCHANGED <<queue, phase>>
  BY DEF RunnerStartPanic, RunnerReport, RunnerClosed, RunnerCrash, sessVars
<1>2. PICK s \in Sessions : rsess[n] = s
  BY <1>1, RunnerTalks
<1>3. toDriver[s] \in Unread(phase[s]) /\ phase[s] \in Phases
  BY <1>1, <1>2, RunnerTalks DEF TypeInv, TypeOK, SessionsTypeOK
<1>4. CASE RunnerStartPanic(n) \/ RunnerClosed(n)
  <2>1. Disconnect(n, toDriver[s])
    BY <1>2, <1>4 DEF RunnerStartPanic, RunnerClosed
  <2> QED BY <1>1, <1>2, <1>3, <2>1, DisconnectTalk
<1>5. CASE RunnerReport(n)
  <2>1. PICK v \in Verdicts :
          Disconnect(n, IF up[s] = "up" THEN Append(toDriver[s], v) ELSE toDriver[s])
    BY <1>2, <1>5 DEF RunnerReport
  <2>2. CASE up[s] = "up"
    <3>1. Talk(phase[s], "building", toRunner[s], toDriver[s])
      BY <1>1, <1>2, <1>5, <2>2, RunnerTalks DEF RunnerReport
    <3>2. CASE phase[s] = "offered" /\ toDriver[s] = <<"started">>
      <4>1. Append(<<"started">>, v) = <<"started", v>>
        BY TwoMessages
      <4>2. Append(toDriver[s], v) \in Unread(phase[s])
        <5>1. <<"started", v>> \in Unread("offered")
          BY DEF Unread
        <5> QED BY <3>2, <4>1, <5>1
      <4> QED BY <1>1, <1>2, <2>1, <2>2, <4>2, DisconnectTalk
    <3>3. CASE phase[s] \in {"acked", "running"} /\ toDriver[s] = <<>>
      <4>1. Append(toDriver[s], v) = <<v>>
        BY <3>3, OneMessage
      <4>2. Append(toDriver[s], v) \in Unread(phase[s])
        BY <3>3, <4>1 DEF Unread
      <4> QED BY <1>1, <1>2, <2>1, <2>2, <4>2, DisconnectTalk
    <3> QED BY <3>1, <3>2, <3>3 DEF Talk
  <2>3. CASE up[s] # "up"
    BY <1>1, <1>2, <1>3, <2>1, <2>3, DisconnectTalk
  <2> QED BY <2>2, <2>3
<1>6. CASE RunnerCrash(n)
  <2>1. PICK read \in Prefix(toDriver[s]) : Disconnect(n, read)
    BY <1>2, <1>6 DEF RunnerCrash
  <2>2. read \in Unread(phase[s])
    BY <1>3, <2>1, UnreadClosed
  <2> QED BY <1>1, <1>2, <2>1, <2>2, DisconnectTalk
<1> QED BY <1>4, <1>5, <1>6

(* The network drops a connection that both ends still hold. *)
LEMMA ConnLostTalk ==
  ASSUME TypeInv, ConversationInv, NEW s \in Sessions, ConnLost(s)
  PROVE  ConversationInv'
<1>1. PICK q \in Prefix(toRunner[s]), p \in Prefix(toDriver[s]) :
        toRunner' = [toRunner EXCEPT ![s] = q] /\ toDriver' = [toDriver EXCEPT ![s] = p]
  BY DEF ConnLost
<1>2. up[s] = "up" /\ up' = [up EXCEPT ![s] = "cut"] /\ UNCHANGED <<queue, phase, rsess, rphase>>
  BY DEF ConnLost, sessVars, rnrVars
<1>3. PICK n \in Runners : rsess[n] = s /\ Talk(phase[s], rphase[n], toRunner[s], toDriver[s])
  BY <1>2 DEF ConversationInv, TalkInv, Talks
<1>4. p \in Unread(phase[s]) /\ phase[s] \in Phases
  BY <1>1, <1>3, UnreadClosed DEF TypeInv, TypeOK, SessionsTypeOK
<1>5. /\ up'[s] # "up" /\ toDriver'[s] = p
      /\ \A t \in Sessions \ {s} : /\ up'[t] = up[t] /\ toRunner'[t] = toRunner[t]
                                   /\ toDriver'[t] = toDriver[t]
  BY <1>1, <1>2 DEF TypeInv, TypeOK, NetTypeOK
<1>6. ChannelInv' /\ RunnersApart'
  BY <1>2 DEF ConversationInv, ChannelInv, RunnersApart
<1>7. TalkInv'
  BY <1>2, <1>4, <1>5, OthersTalk
<1> QED BY <1>6, <1>7 DEF ConversationInv

(* The driver starts again: every task is gone, every connection closed.    *)
LEMMA RestartTalk == ASSUME TypeInv, ConversationInv, DriverRestart PROVE ConversationInv'
<1>1. /\ queue' = <<>> /\ phase' = [s \in Sessions |-> "closed"]
      /\ up' = [s \in Sessions |-> Ended(up[s])] /\ toDriver' = [s \in Sessions |-> <<>>]
      /\ UNCHANGED <<rsess, rphase>>
  BY DEF DriverRestart, rnrVars
<1>2. ChannelInv'
  BY <1>1 DEF ChannelInv
<1>3. RunnersApart'
  BY <1>1 DEF ConversationInv, RunnersApart
<1>4. TalkInv'
  BY <1>1 DEF TalkInv, Unread, Ended
<1> QED BY <1>2, <1>3, <1>4 DEF ConversationInv

(* Both ends are told that the connection is gone. *)
LEMMA ConnNoticedTalk ==
  ASSUME TypeInv, ConversationInv, NEW s \in Sessions, ConnNoticed(s)
  PROVE  ConversationInv'
<1>1. /\ up[s] = "cut" /\ up'[s] = "down" /\ \A t \in Sessions \ {s} : up'[t] = up[t]
      /\ UNCHANGED <<queue, phase, toRunner, toDriver, rsess, rphase>>
  BY DEF ConnNoticed, sessVars, rnrVars, TypeInv, TypeOK, NetTypeOK
<1>2. toDriver'[s] \in Unread(phase'[s])
  BY <1>1 DEF ConversationInv, TalkInv
<1>3. ChannelInv' /\ RunnersApart'
  BY <1>1 DEF ConversationInv, ChannelInv, RunnersApart
<1>4. TalkInv'
  BY <1>1, <1>2, OthersTalk
<1> QED BY <1>3, <1>4 DEF ConversationInv

(* Every step leaves every conversation at one of its places. *)
LEMMA ConversationNext == TypeInv /\ ConversationInv /\ [Next]_vars => ConversationInv'
<1> SUFFICES ASSUME TypeInv, ConversationInv, [Next]_vars PROVE ConversationInv'
  OBVIOUS
<1>1. CASE Environment \/ ReaperStep \/ UNCHANGED vars
  <2>1. UNCHANGED <<queue, phase, netVars, rnrVars>>
    BY <1>1 DEF Environment, CreateJob, QueueRun, AgeOut, ReaperStep, ReaperSnapshot,
                ReaperFilter, Reap, vars, sessVars
  <2> QED BY <2>1, QuietTalk
<1>2. ASSUME NEW n \in Runners, Connect(n) PROVE ConversationInv'
  BY <1>2, ConnectTalk DEF Connect
<1>3. ASSUME NEW n \in Runners, RunnerStep(n) \/ RunnerCrash(n) PROVE ConversationInv'
  BY <1>3, RunnerAnswersTalk, RunnerEndsTalk DEF RunnerStep
<1>4. CASE Dispatch
  BY <1>4, DispatchTalk
<1>5. ASSUME NEW s \in Sessions, SessionStep(s) \/ TaskPanics(s) PROVE ConversationInv'
  BY <1>5, SessionStepTalk
<1>6. CASE Faulty \/ Network
  BY <1>3, <1>5, <1>6, ConnLostTalk, ConnNoticedTalk, RestartTalk DEF Faulty, Network
<1> QED BY <1>1, <1>2, <1>3, <1>4, <1>5, <1>6 DEF Next

(* The protocol of a session: where its two ends can be, and what is under  *)
(* way or left between them, for any number of sessions and faults.         *)
THEOREM ConversationsHold == Spec => []ConversationInv
<1>1. Init => TypeInv /\ ConversationInv
  BY TypeInit, ConversationInit
<1>2. TypeInv /\ ConversationInv /\ [Next]_vars => (TypeInv /\ ConversationInv)'
  BY TypeNext, ConversationNext
<1> QED BY <1>1, <1>2, PTL DEF Spec

(* NoMutualWait: whatever is lost, and whoever dies, one of the two ends of *)
(* a session has something to go on with, down to the end of both.          *)
THEOREM SessionsGoOn == Spec => []NoMutualWait
<1>1. TypeInv /\ ConversationInv => NoMutualWait
  BY TalkersGoOn
<1> QED BY <1>1, TypeCorrect, ConversationsHold, PTL
==============================================================================
