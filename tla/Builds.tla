------------------------------- MODULE Builds --------------------------------
(****************************************************************************)
(* One build, from the runner's Started on: RunningJob::run in the runner,  *)
(* with the calls a goodfile makes, and the session's task in the driver,   *)
(* from activate_run to the end of ClientJob::run.  What Driver takes for   *)
(* one step of a runner, which ends in either verdict, happens here.        *)
(*                                                                          *)
(* A goodfile is any Lua program: it makes calls, may catch their errors    *)
(* with pcall, and ends or fails.  Panics of the runner go through pcall,   *)
(* through the thread that runs Lua and through its join; they end the      *)
(* process.  Calls that neither fail nor reach the driver leave no trace.   *)
(*                                                                          *)
(* The session has the run for itself.                                      *)
(****************************************************************************)
EXTENDS Naturals, Sequences

CONSTANTS Names, Values,  \* of the metrics a goodfile reports
          MaxCalls,       \* bound on the calls of a goodfile
          MaxFaults,      \* bound on crashes, lost connections, panics
          None            \* no value

ASSUME BuildsBounds == /\ MaxCalls \in Nat /\ MaxFaults \in Nat
                       /\ None \notin Values \cup {"pass", "fail"}

VARIABLES
  \* the runner
  at,       \* what RunningJob::run is about
  posts,    \* artifacts of the current command that were accepted
  calls,    \* calls of the goodfile so far
  said,     \* history: the last value of each metric reported
  broke,    \* history: the checkout or the goodfile failed
  cause,    \* history: what the runner panicked on
  \* the connection
  up, toDriver,
  \* the driver
  token,    \* runs.build_token, as artifact requests find it
  state,    \* runs.state
  metrics,  \* rows of `metrics`
  task,     \* the session's task
  verdict,  \* the result it is telling
  faults

runnerVars == <<at, posts, calls, said, broke, cause>>
netVars    == <<up, toDriver>>
driverVars == <<token, state, metrics, task, verdict>>
vars == <<runnerVars, netVars, driverVars, faults>>

Commands == {"clone", "checkout", "run"}     \* have two artifacts each
Reports == {"pass", "bad_ref", "failed"}     \* statuses about to be sent

(* What a build does to a runner for which it panics: the working directory *)
(* cannot be made anew; the goodfile cannot be read, or no toolchain is     *)
(* known for the machine; an argument is not unicode; a command is an empty *)
(* table; an artifact cannot be asked for (its name is no HTTP header), is  *)
(* refused, or is of a file that is not there.                              *)
Panics == {"tmpdir", "setup", "argument", "no command", "unsent", "refused", "no file"}

Message == [kind : {"command"}] \cup [kind : {"finished"}, status : {"pass", "bad_ref"}]
             \cup [kind : {"interrupted"}, status : {"failed"}]
             \cup [kind : {"metric"}, name : Names, value : Values]

TypeOK ==
  /\ at \in Commands \cup Reports \cup {"goodfile", "script", "upload", "idle", "dead"}
  /\ posts \in 0..2 /\ calls \in 0..MaxCalls
  /\ said \in [Names -> Values \cup {None}]
  /\ broke \in BOOLEAN
  /\ cause \in Panics \cup {"none", "hang up", "crash"}
  /\ (at = "dead") <=> (cause # "none")
  /\ up \in BOOLEAN /\ toDriver \in Seq(Message)
  /\ token \in {"unset", "valid", "expired"}
  /\ state \in {"pending", "started", "finished", "error"}
  /\ metrics \in [Names -> Values \cup {None}]
  /\ task \in {"acked", "running", "telling", "gone"}
  /\ verdict \in {"pass", "fail", None}
  /\ faults \in 0..MaxFaults

Init ==
  /\ at = "clone" /\ posts = 0 /\ calls = 0
  /\ said = [n \in Names |-> None]
  /\ broke = FALSE /\ cause = "none"
  /\ up = TRUE /\ toDriver = <<>>
  /\ token = "unset" /\ state = "pending"
  /\ metrics = [n \in Names |-> None]
  /\ task = "acked" /\ verdict = None
  /\ faults = 0

Fault == faults < MaxFaults /\ faults' = faults + 1

------------------------------------------------------------------------------
(* The runner: helpers *)

(* What is sent on a connection that is gone is lost, as long as the runner *)
(* has not noticed.                                                         *)
Send(m) == /\ toDriver' = IF up THEN Append(toDriver, m) ELSE toDriver
           /\ UNCHANGED up

(* The process ends; the driver gets a prefix of what was under way. *)
Die(c) == /\ at' = "dead" /\ cause' = c
          /\ up' = FALSE
          /\ \E n \in 0..Len(toDriver) : toDriver' = SubSeq(toDriver, 1, n)
          /\ UNCHANGED <<posts, calls, said, broke, driverVars>>

(* An error in Lua: the goodfile catches it, or it is the build's end. *)
Raise == \/ at' = "script" /\ UNCHANGED broke
         \/ at' = "failed" /\ broke' = TRUE

Call == at = "script" /\ calls < MaxCalls /\ calls' = calls + 1

(* Faulty variant: a checkout that fails ends the build without a word. *)
CheckoutFails_silently ==
  /\ at' = "idle" /\ broke' = TRUE
  /\ up' = FALSE
  /\ UNCHANGED toDriver

CheckoutFails == at' = "bad_ref" /\ broke' = TRUE /\ UNCHANGED netVars

------------------------------------------------------------------------------
(* clone_remote, and the calls of the goodfile *)

(* create_artifact, for the output of a command: stdout's, then stderr's. *)
PostArtifact ==
  /\ at \in Commands /\ posts < 2
  /\ token = "valid"
  /\ posts' = posts + 1
  /\ UNCHANGED <<at, calls, said, broke, cause, netVars, driverVars, faults>>

(* The request cannot be made, ... *)
UnsentArtifact ==
  /\ \/ at \in Commands /\ posts < 2
     \/ at = "upload"
  /\ Die("unsent")
  /\ UNCHANGED faults

(* ... or is answered 400: `expect` and `unwrap` panic. *)
RefusedArtifact ==
  /\ \/ at \in Commands /\ posts < 2
     \/ at = "upload"
  /\ token # "valid"
  /\ Die("refused")
  /\ UNCHANGED faults

(* remove_dir_all and create_dir, before the checkout *)
TmpdirPanics == at = "clone" /\ posts = 0 /\ Die("tmpdir") /\ UNCHANGED faults

(* git ends, or cannot be started; an error has no further consequence than *)
(* a failed checkout.                                                       *)
GitEnds ==
  /\ at \in {"clone", "checkout"} /\ posts = 2
  /\ posts' = 0
  /\ \/ /\ at' = IF at = "clone" THEN "checkout" ELSE "goodfile"
        /\ UNCHANGED <<broke, netVars>>
     \/ CheckoutFails
  /\ UNCHANGED <<calls, said, cause, driverVars, faults>>

(* The goodfile, or the default one, is loaded, ... *)
FindGoodfile ==
  /\ at = "goodfile"
  /\ \/ at' = "script" /\ UNCHANGED broke
     \/ at' = "failed" /\ broke' = TRUE     \* inaccessible
  /\ UNCHANGED <<posts, calls, said, cause, netVars, driverVars, faults>>

(* ... unless its text is not there for read_to_string. *)
SetupPanics == at = "goodfile" /\ Die("setup") /\ UNCHANGED faults

(* Build.run *)
RunCommand ==
  /\ Call
  /\ Send([kind |-> "command"])
  /\ at' = "run" /\ posts' = 0
  /\ UNCHANGED <<said, broke, cause, driverVars, faults>>

(* The command exits, ... *)
CommandExits ==
  /\ at = "run" /\ posts = 2
  /\ Send([kind |-> "command"])
  /\ \/ at' = "script" /\ UNCHANGED broke
     \/ Raise
  /\ UNCHANGED <<posts, calls, said, cause, driverVars, faults>>

(* ... or could not be started, and no Finished is sent for it. *)
CommandFailsToStart ==
  /\ at = "run" /\ posts = 2
  /\ Raise
  /\ UNCHANGED <<posts, calls, said, cause, netVars, driverVars, faults>>

(* collect_build_args and prep_command, which Build.run and                *)
(* Build.check_output share: Build.run has reported the command by the time *)
(* that it is looked at.                                                    *)
CallPanics ==
  /\ \/ at = "script" /\ calls < MaxCalls /\ Die("argument")
     \/ at = "script" /\ calls < MaxCalls /\ Die("no command")
     \/ at = "run" /\ posts = 0 /\ Die("no command")
  /\ UNCHANGED faults

(* The runner finds the connection gone as it reports about a command. *)
CommandUnwraps ==
  /\ ~up
  /\ \/ at = "script" /\ calls < MaxCalls
     \/ at = "run" /\ posts = 2
  /\ Die("hang up")
  /\ UNCHANGED faults

(* Build.metric, with an error if the connection is found to be gone *)
SendMetric(n, v) ==
  /\ Call
  /\ \/ /\ Send([kind |-> "metric", name |-> n, value |-> v])
        /\ said' = [said EXCEPT ![n] = v]
        /\ UNCHANGED <<at, broke>>
     \/ /\ ~up
        /\ Raise
        /\ UNCHANGED <<said, netVars>>
  /\ UNCHANGED <<posts, cause, driverVars, faults>>

(* Build.artifact: the request, ... *)
CallArtifact ==
  /\ Call
  /\ at' = "upload"
  /\ UNCHANGED <<posts, said, broke, cause, netVars, driverVars, faults>>

(* ... and the file, which may not be there or fail to be read. *)
UploadFile ==
  /\ at = "upload" /\ token = "valid"
  /\ \/ at' = "script" /\ UNCHANGED broke
     \/ Raise
  /\ UNCHANGED <<posts, calls, said, cause, netVars, driverVars, faults>>

NoSuchFile == at = "upload" /\ token = "valid" /\ Die("no file") /\ UNCHANGED faults

(* Calls that fail without a word to the driver: Build.error, dependencies  *)
(* that are missing, check_output of a command that fails, the size of no   *)
(* file.                                                                    *)
CallFails ==
  /\ Call
  /\ Raise
  /\ UNCHANGED <<posts, said, cause, netVars, driverVars, faults>>

GoodfileEnds ==
  /\ at = "script"
  /\ \/ at' = "pass" /\ UNCHANGED broke
     \/ at' = "failed" /\ broke' = TRUE
  /\ UNCHANGED <<posts, calls, said, cause, netVars, driverVars, faults>>

(* report_task_status; the runner then drops the connection. *)
StatusMessage == [kind |-> IF at = "failed" THEN "interrupted" ELSE "finished", status |-> at]

ReportTaskStatus ==
  /\ at \in Reports
  /\ toDriver' = IF up THEN Append(toDriver, StatusMessage) ELSE toDriver
  /\ up' = FALSE
  /\ at' = "idle"
  /\ UNCHANGED <<posts, calls, said, broke, cause, driverVars, faults>>

------------------------------------------------------------------------------
(* The driver *)

(* The rest of activate_run, which reads nothing from the connection. *)
ActivateRun ==
  /\ task = "acked"
  /\ task' = "running"
  /\ state' = "started" /\ token' = "valid"
  /\ UNCHANGED <<metrics, verdict, runnerVars, netVars, faults>>

(* Valid for TOKEN_EXPIRY_MS from the start of the run. *)
TokenExpires ==
  /\ token = "valid"
  /\ token' = "expired"
  /\ UNCHANGED <<state, metrics, task, verdict, runnerVars, netVars, faults>>

Receives(kinds) == /\ task = "running" /\ toDriver # <<>>
                   /\ Head(toDriver).kind \in kinds
                   /\ toDriver' = Tail(toDriver)
                   /\ UNCHANGED up

(* Faulty variant of insert_metric: a metric that is there is left alone. *)
RecvMetric_keepsFirst ==
  /\ Receives({"metric"})
  /\ LET m == Head(toDriver) IN
       metrics' = [metrics EXCEPT ![m.name] = IF @ = None THEN m.value ELSE @]
  /\ UNCHANGED <<token, state, task, verdict, runnerVars, faults>>

RecvMetric ==
  /\ Receives({"metric"})
  /\ LET m == Head(toDriver) IN metrics' = [metrics EXCEPT ![m.name] = m.value]
  /\ UNCHANGED <<token, state, task, verdict, runnerVars, faults>>

(* Nothing is done about a Command. *)
RecvCommand ==
  /\ Receives({"command"})
  /\ UNCHANGED <<token, state, metrics, task, verdict, runnerVars, faults>>

(* Faulty variant: whatever has finished has passed. *)
Verdict_anyFinished(m) == IF m.kind = "finished" THEN "pass" ELSE "fail"

(* Only the status "pass" of a build that finished is a pass. *)
Verdict(m) == IF m.kind = "finished" /\ m.status = "pass" THEN "pass" ELSE "fail"

(* Faulty variant: the runner's word for the result is taken over. *)
RecvStatus_raw ==
  /\ Receives({"finished", "interrupted"})
  /\ verdict' = Head(toDriver).status
  /\ task' = "telling"
  /\ UNCHANGED <<token, state, metrics, runnerVars, faults>>

RecvStatus ==
  /\ Receives({"finished", "interrupted"})
  /\ verdict' = Verdict(Head(toDriver))
  /\ task' = "telling"
  /\ UNCHANGED <<token, state, metrics, runnerVars, faults>>

(* The remotes have been told. *)
CompleteRun ==
  /\ task = "telling"
  /\ task' = "running"
  /\ state' = IF verdict = "pass" THEN "finished" ELSE "error"
  /\ verdict' = None
  /\ UNCHANGED <<token, metrics, runnerVars, netVars, faults>>

(* Faulty variant: the end of the stream is taken for a pause. *)
HangUp_waits ==
  /\ task = "running" /\ state # "started"
  /\ toDriver = <<>> /\ ~up
  /\ task' = "gone"
  /\ UNCHANGED <<token, state, metrics, verdict, runnerVars, netVars, faults>>

HangUp ==
  /\ task = "running"
  /\ toDriver = <<>> /\ ~up
  /\ task' = "gone"
  /\ UNCHANGED <<token, state, metrics, verdict, runnerVars, netVars, faults>>

------------------------------------------------------------------------------
(* Faults *)

(* The session's task ends: a chunk that is not one whole message, a panic  *)
(* of a notifier, an update that fails, a restart of the driver.            *)
SessionDies ==
  /\ Fault
  /\ task # "gone" /\ task' = "gone"
  /\ up' = FALSE /\ toDriver' = <<>>
  /\ verdict' = None
  /\ UNCHANGED <<token, state, metrics, runnerVars>>

ConnLost ==
  /\ Fault
  /\ up /\ up' = FALSE
  /\ \E n \in 0..Len(toDriver) : toDriver' = SubSeq(toDriver, 1, n)
  /\ UNCHANGED <<runnerVars, driverVars>>

RunnerCrash == Fault /\ at \notin {"idle", "dead"} /\ Die("crash")

------------------------------------------------------------------------------

GoodfileStep == \/ RunCommand \/ CallArtifact \/ CallFails \/ GoodfileEnds
                \/ \E n \in Names, v \in Values : SendMetric(n, v)

RunnerStep == \/ PostArtifact \/ UnsentArtifact \/ RefusedArtifact
              \/ TmpdirPanics \/ GitEnds \/ FindGoodfile \/ SetupPanics \/ CallPanics
              \/ GoodfileStep \/ CommandExits \/ CommandFailsToStart \/ CommandUnwraps
              \/ UploadFile \/ NoSuchFile \/ ReportTaskStatus

DriverStep == \/ ActivateRun \/ RecvMetric \/ RecvCommand \/ RecvStatus
              \/ CompleteRun \/ HangUp

Next == \/ RunnerStep \/ DriverStep \/ TokenExpires
        \/ SessionDies \/ ConnLost \/ RunnerCrash

(* The driver's task is scheduled.  That the runner goes on supposes that   *)
(* commands exit and the goodfile ends; nothing in the code sees to it.     *)
Fairness == WF_vars(RunnerStep) /\ WF_vars(DriverStep)

Spec == Init /\ [][Next]_vars /\ Fairness

------------------------------------------------------------------------------
(* Properties *)

(* The row says "finished" only of a build whose checkout worked and whose  *)
(* goodfile ran to its end, and "error" only of one that failed: also the   *)
(* TaskInfo called Finished can be a failure, with the status "bad_ref".    *)
PassIsEarned == /\ state = "finished" => ~broke
                /\ state = "error" => broke

(* Once a result is in the row, the metrics are there as the goodfile last  *)
(* reported them, whatever the connection did.                              *)
MetricsPrecedeResult == state \in {"finished", "error"} => metrics = said

(* A failure that the runner survives is reported: the session is over      *)
(* without a result in the row only after a fault, or after the build made  *)
(* the runner panic; never because the runner found the connection gone.    *)
SilentEndsHaveACause == task = "gone" /\ state = "started" =>
  \/ faults > 0
  \/ cause \in Panics

(* Driver and runner let go of the build, whatever was lost between them.   *)
BothEndsLetGo == <>(task = "gone" /\ at \in {"idle", "dead"})

(* "expect("works")": artifacts are refused only to builds that have        *)
(* outlived their token.                                                    *)
ArtifactsAreTaken == cause = "refused" => token = "expired"
==============================================================================
