------------------------------ MODULE RunLedger ------------------------------
(****************************************************************************)
(* What the driver promises about the rows of the `runs` table, with no     *)
(* connection, no queue and no reaper schedule in sight: a run is a status  *)
(* plus the build sessions that stand behind it.  A session first claims a  *)
(* pending run (it was chosen for the session's runner, which may have      *)
(* acknowledged it), then owns it (the row says so), and only an owner may  *)
(* settle the run.  A run may have several claimants: choosing a run takes  *)
(* nothing away from it, and the ledger says what still holds then.         *)
(*                                                                          *)
(* Module Driver implements this specification.                             *)
(****************************************************************************)
CONSTANTS Runs,       \* run ids
          Sessions    \* build sessions

VARIABLES status,     \* status[r]: column runs.state, "absent" before insert
          claims,     \* claims[r]: sessions that chose r and have not started it
          owners      \* owners[r]: sessions that started r and may settle it

vars == <<status, claims, owners>>

Statuses == {"absent", "pending", "started", "finished", "error", "invalid"}

TypeOK == /\ status \in [Runs -> Statuses]
          /\ claims \in [Runs -> SUBSET Sessions]
          /\ owners \in [Runs -> SUBSET Sessions]

Init == /\ status = [r \in Runs |-> "absent"]
        /\ claims = [r \in Runs |-> {}]
        /\ owners = [r \in Runs |-> {}]

(* `f` with session s removed from every run's set. *)
Without(f, s) == [r \in Runs |-> f[r] \ {s}]

(* A row is inserted, for anyone or already chosen for one session. *)
Create(r) == /\ status[r] = "absent"
             /\ status' = [status EXCEPT ![r] = "pending"]
             /\ UNCHANGED <<claims, owners>>

CreateClaimed(r, s) == /\ status[r] = "absent"
                       /\ status' = [status EXCEPT ![r] = "pending"]
                       /\ claims' = [claims EXCEPT ![r] = @ \cup {s}]
                       /\ UNCHANGED owners

(* Only a pending run is chosen. *)
Claim(r, s) == /\ status[r] = "pending"
               /\ claims' = [claims EXCEPT ![r] = @ \cup {s}]
               /\ UNCHANGED <<status, owners>>

(* A claimant starts the run, whatever became of it since it was chosen:    *)
(* with several claimants the last one to start also reopens a settled run. *)
(* A reaped run is never reopened.                                          *)
Start(r, s) == /\ s \in claims[r]
               /\ status[r] # "invalid"
               /\ status' = [status EXCEPT ![r] = "started"]
               /\ claims' = [claims EXCEPT ![r] = @ \ {s}]
               /\ owners' = [owners EXCEPT ![r] = @ \cup {s}]

(* Only an owner settles the run. *)
Finish(r, s) == /\ s \in owners[r]
                /\ \E v \in {"finished", "error"} : status' = [status EXCEPT ![r] = v]
                /\ UNCHANGED <<claims, owners>>

(* A session ends, for whatever reason; the row stays as it is. *)
Leave(s) == /\ claims' = Without(claims, s)
            /\ owners' = Without(owners, s)
            /\ UNCHANGED status

(* A run nobody stands behind any more is given up. *)
Reap(r) == /\ status[r] = "started"
           /\ claims[r] = {}
           /\ owners[r] = {}
           /\ status' = [status EXCEPT ![r] = "invalid"]
           /\ UNCHANGED <<claims, owners>>

(* The driver process dies: every session with it, no row. *)
Crash == /\ claims' = [r \in Runs |-> {}]
         /\ owners' = [r \in Runs |-> {}]
         /\ UNCHANGED status

Next == \/ \E r \in Runs : Create(r) \/ Reap(r)
        \/ \E r \in Runs, s \in Sessions : \/ CreateClaimed(r, s)
                                           \/ Claim(r, s)
                                           \/ Start(r, s)
                                           \/ Finish(r, s)
        \/ \E s \in Sessions : Leave(s)
        \/ Crash

Spec == Init /\ [][Next]_vars
==============================================================================
