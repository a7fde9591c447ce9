------------------------------- MODULE Notices -------------------------------
(****************************************************************************)
(* What the remotes of a repository hear about one commit: the push handler *)
(* of the web server tells each of them that the build is pending, and the  *)
(* driver's ClientJob tells each of them the result of a run before it      *)
(* records it in the row.  A GitHub remote shows the last status it was     *)
(* sent; an email remote is sent a mail for each.                           *)
(*                                                                          *)
(* The push handler and the tasks of the driver live in two processes and   *)
(* do not wait for each other: the run can be taken as soon as its row is   *)
(* there, which is before anyone is told that it is pending.                *)
(*                                                                          *)
(* The configuration file of every remote is taken to load, as both ends    *)
(* demand with an expect before they tell anyone.                           *)
(****************************************************************************)
EXTENDS Naturals, Sequences

CONSTANTS MaxRuns,     \* bound on runs of the commit's job
          Remotes,     \* how many remotes the repository has
          MaxFaults    \* bound on failed notices, lost runners and restarts

ASSUME NoticesBounds == /\ MaxRuns \in Nat \ {0} /\ Remotes \in Nat
                        /\ MaxFaults \in Nat

Runs == 1..MaxRuns
Push == 0                      \* the push handler, as a teller of notices
Tellers == Runs \cup {Push}    \* and the ClientJob of each run

VARIABLES
  kind,      \* remotes.remote_api
  state,     \* runs.state, "absent" while there is no such row
  stage,     \* where a teller stands
  says,      \* the status a teller tells
  at,        \* the remote a teller tells next, of notifiers_by_repo's list
  log,       \* notices a remote has received
  missed,    \* pairs of teller and remote: the notice failed
  restarted, \* the driver was restarted
  faults

vars == <<kind, state, stage, says, at, log, missed, restarted, faults>>

Statuses == {"pending", "success", "failure"}

TypeOK ==
  /\ kind \in [1..Remotes -> {"github", "email"}]
  /\ state \in [Runs -> {"absent", "pending", "started", "finished", "error"}]
  /\ stage \in [Tellers -> {"idle", "building", "telling", "over", "dead"}]
  /\ says \in [Tellers -> Statuses \cup {"nothing"}]
  /\ at \in [Tellers -> 1..(Remotes + 1)]
  /\ log \in [1..Remotes -> Seq([of : Tellers, says : Statuses])]
  /\ missed \subseteq Tellers \X (1..Remotes)
  /\ restarted \in BOOLEAN /\ faults \in 0..MaxFaults

Init ==
  /\ kind \in [1..Remotes -> {"github", "email"}]
  /\ state = [r \in Runs |-> "absent"]
  /\ stage = [t \in Tellers |-> "idle"]
  /\ says = [t \in Tellers |-> "nothing"]
  /\ at = [t \in Tellers |-> 1]
  /\ log = [n \in 1..Remotes |-> <<>>]
  /\ missed = {}
  /\ restarted = FALSE /\ faults = 0

Fault == faults < MaxFaults /\ faults' = faults + 1

------------------------------------------------------------------------------
(* Runs *)

Goto(t, s) == stage' = [stage EXCEPT ![t] = s]

BeginTelling(t, status) == /\ Goto(t, "telling")
                           /\ says' = [says EXCEPT ![t] = status]

(* The push handler's new_run; the notifiers are next. *)
NewRun ==
  /\ stage[Push] = "idle"
  /\ state' = [state EXCEPT ![1] = "pending"]
  /\ BeginTelling(Push, "pending")
  /\ UNCHANGED <<kind, at, log, missed, restarted, faults>>

(* A run for another host, or a rerun by ci_ctl: nobody is told. *)
AnotherRun(r) ==
  /\ r > 1 /\ state[r] = "absent" /\ state[r - 1] # "absent"
  /\ state' = [state EXCEPT ![r] = "pending"]
  /\ UNCHANGED <<kind, stage, says, at, log, missed, restarted, faults>>

(* A runner takes the run (module Driver). *)
Start(r) ==
  /\ state[r] = "pending"
  /\ state' = [state EXCEPT ![r] = "started"]
  /\ Goto(r, "building")
  /\ UNCHANGED <<kind, says, at, log, missed, restarted, faults>>

(* Its TaskStatus reaches ClientJob::run, *)
Report(r) ==
  /\ stage[r] = "building"
  /\ \E v \in {"success", "failure"} : BeginTelling(r, v)
  /\ UNCHANGED <<kind, state, at, log, missed, restarted, faults>>

(* or the runner hangs up instead. *)
HangUp(r) ==
  /\ Fault
  /\ stage[r] = "building"
  /\ Goto(r, "dead")
  /\ UNCHANGED <<kind, state, says, at, log, missed, restarted>>

------------------------------------------------------------------------------
(* Telling the remotes, one after the other *)

(* Faulty variant: the end of the list goes unnoticed. *)
Telling_pastTheEnd(t) == stage[t] = "telling" /\ at[t] <= Remotes + 1

Telling(t) == stage[t] = "telling" /\ at[t] <= Remotes

Deliver(t) == log' = [log EXCEPT ![at[t]] = Append(@, [of |-> t, says |-> says[t]])]

NextRemote(t) == at' = [at EXCEPT ![t] = @ + 1]

(* tell_job_status succeeds. *)
Tell(t) ==
  /\ Telling(t)
  /\ Deliver(t) /\ NextRemote(t)
  /\ UNCHANGED <<kind, state, stage, says, missed, restarted, faults>>

(* Faulty variants: a notice that failed is tried again; a ClientJob gives  *)
(* up as the push handler does.                                             *)
TellFails_retries(t) ==
  /\ Fault
  /\ Telling(t)
  /\ Deliver(t) \/ UNCHANGED log
  /\ missed' = missed \cup {<<t, at[t]>>}
  /\ UNCHANGED <<kind, state, stage, says, at, restarted>>

TellFails_givesUp(t) ==
  /\ Fault
  /\ Telling(t)
  /\ Deliver(t) \/ UNCHANGED log
  /\ missed' = missed \cup {<<t, at[t]>>}
  /\ Goto(t, "dead")
  /\ UNCHANGED <<kind, state, says, at, restarted>>

(* It returns an error, for a bad answer or for one that never came: the    *)
(* push handler panics, ClientJob::run goes on with the next remote.        *)
TellFails(t) ==
  /\ Fault
  /\ Telling(t)
  /\ Deliver(t) \/ UNCHANGED log
  /\ missed' = missed \cup {<<t, at[t]>>}
  /\ \/ t = Push /\ Goto(t, "dead") /\ UNCHANGED at
     \/ t # Push /\ NextRemote(t) /\ UNCHANGED stage
  /\ UNCHANGED <<kind, state, says, restarted>>

(* A mail server that does not answer, or refuses the login, is a panic. *)
NoMailServer(t) ==
  /\ Fault
  /\ Telling(t) /\ kind[at[t]] = "email"
  /\ missed' = missed \cup {<<t, at[t]>>}
  /\ Goto(t, "dead")
  /\ UNCHANGED <<kind, state, says, at, log, restarted>>

(* The push handler goes on to the commit's name. *)
PushDone ==
  /\ stage[Push] = "telling" /\ at[Push] > Remotes
  /\ Goto(Push, "over")
  /\ UNCHANGED <<kind, state, says, at, log, missed, restarted, faults>>

(* RunState and JobResult of a reported status. *)
Recorded(status) == IF status = "success" THEN "finished" ELSE "error"

(* Faulty variants: the row is updated before the remotes are told; only    *)
(* when all were; with the result of no matter which run.                   *)
Record_first(r) ==
  /\ stage[r] = "telling"
  /\ state' = [state EXCEPT ![r] = Recorded(says[r])]
  /\ IF at[r] > Remotes THEN Goto(r, "over") ELSE UNCHANGED stage
  /\ UNCHANGED <<kind, says, at, log, missed, restarted, faults>>

Record_ifDelivered(r) ==
  /\ stage[r] = "telling" /\ at[r] > Remotes
  /\ \A n \in 1..Remotes : <<r, n>> \notin missed
  /\ state' = [state EXCEPT ![r] = Recorded(says[r])]
  /\ Goto(r, "over")
  /\ UNCHANGED <<kind, says, at, log, missed, restarted, faults>>

Record_anyRun(r) ==
  /\ stage[r] = "telling" /\ at[r] > Remotes
  /\ \E q \in Runs : state' = [state EXCEPT ![r] = Recorded(says[q])]
  /\ Goto(r, "over")
  /\ UNCHANGED <<kind, says, at, log, missed, restarted, faults>>

(* The row of the run is updated. *)
Record(r) ==
  /\ stage[r] = "telling" /\ at[r] > Remotes
  /\ state' = [state EXCEPT ![r] = Recorded(says[r])]
  /\ Goto(r, "over")
  /\ UNCHANGED <<kind, says, at, log, missed, restarted, faults>>

------------------------------------------------------------------------------
(* Restarts *)

WebRestart ==
  /\ Fault
  /\ stage[Push] = "telling"
  /\ Goto(Push, "dead")
  /\ UNCHANGED <<kind, state, says, at, log, missed, restarted>>

DriverRestart ==
  /\ Fault
  /\ stage' = [t \in Tellers |-> IF t \in Runs /\ stage[t] \in {"building", "telling"}
                                 THEN "dead" ELSE stage[t]]
  /\ restarted' = TRUE
  /\ UNCHANGED <<kind, state, says, at, log, missed>>

------------------------------------------------------------------------------

TellerStep(t) == Tell(t) \/ IF t = Push THEN PushDone ELSE Record(t)

Next == \/ NewRun
        \/ \E r \in Runs : AnotherRun(r) \/ Start(r) \/ Report(r) \/ HangUp(r)
        \/ \E t \in Tellers : TellerStep(t) \/ TellFails(t) \/ NoMailServer(t)
        \/ WebRestart \/ DriverRestart

Spec == Init /\ [][Next]_vars

(* A task that waits for a remote gets an answer or an error in the end. *)
Fairness == \A t \in Tellers : WF_vars(TellerStep(t))

FairSpec == Spec /\ Fairness

------------------------------------------------------------------------------
(* Properties *)

Heard(n, t) == \E i \in DOMAIN log[n] : log[n][i].of = t

(* A result that is recorded was told to every remote, or telling that      *)
(* remote failed: nothing turns green on the web page that GitHub never     *)
(* heard of because another remote failed first.                            *)
RecordedIsTold == \A r \in Runs : state[r] \in {"finished", "error"} =>
  \A n \in 1..Remotes : Heard(n, r) \/ <<r, n>> \in missed

(* No remote hears the same notice twice, whatever fails: a failed notice   *)
(* may have arrived, and is not repeated.                                   *)
ToldOnce == \A n \in 1..Remotes : \A i, j \in DOMAIN log[n] :
  log[n][i].of = log[n][j].of => i = j

(* What a remote heard of a run is what its row says once it says anything. *)
RowAgreesWithNotices == \A n \in 1..Remotes : \A i \in DOMAIN log[n] :
  LET r == log[n][i].of IN
    (r \in Runs /\ state[r] \in {"finished", "error"})
      => state[r] = Recorded(log[n][i].says)

(* A reported result is lost only when the driver is killed or a mail       *)
(* server fails; GitHub alone cannot lose one.                              *)
OnlyMailLosesResults == \A r \in Runs : (stage[r] = "dead" /\ says[r] # "nothing")
  => restarted \/ \E n \in 1..Remotes : kind[n] = "email"

(* A reported result is recorded although remotes fail, unless it is lost.  *)
ReportsAreRecorded == \A r \in Runs :
  (stage[r] = "telling") ~> (state[r] \in {"finished", "error"} \/ stage[r] = "dead")
==============================================================================
