---------------------------- MODULE CommitLedger -----------------------------
(****************************************************************************)
(* What the intake promises about a commit, with no handler, no row id and  *)
(* no mutex in sight: it becomes known, is planned once, with the name of   *)
(* somebody who announced it, and then queued to be built; and it goes by   *)
(* the refs that pushes moved to it.                                        *)
(*                                                                          *)
(* Module Intake implements this specification.                             *)
(****************************************************************************)
CONSTANTS Shas,         \* commits
          SourcesOf,    \* the names a job of a commit may carry
          RefsOf        \* the names a commit may go by

VARIABLES status,       \* how far a commit has come
          sources,      \* jobs.source of a commit's job
          names         \* pairs of a commit and a name

vars == <<status, sources, names>>

TypeOK == /\ status \in [Shas -> {"unknown", "known", "planned", "queued"}]
          /\ sources \in [Shas -> SUBSET UNION {SourcesOf[sha] : sha \in Shas}]
          /\ names \subseteq Shas \X UNION {RefsOf[sha] : sha \in Shas}

Init == /\ status = [sha \in Shas |-> "unknown"]
        /\ sources = [sha \in Shas |-> {}]
        /\ names = {}

(* The first to announce a commit makes it known. *)
Learn(sha) == /\ status[sha] = "unknown"
              /\ status' = [status EXCEPT ![sha] = "known"]
              /\ UNCHANGED <<sources, names>>

(* A known commit gets its job, from one of those who announced it.  A run  *)
(* may be waiting for a job of that id: then the commit is queued at once.  *)
Plan(sha) == /\ status[sha] = "known"
             /\ \E s \in {"planned", "queued"} : status' = [status EXCEPT ![sha] = s]
             /\ \E src \in SourcesOf[sha] : sources' = [sources EXCEPT ![sha] = {src}]
             /\ UNCHANGED names

(* A run of its job is inserted. *)
Queue(sha) == /\ status[sha] = "planned"
              /\ status' = [status EXCEPT ![sha] = "queued"]
              /\ UNCHANGED <<sources, names>>

(* A known commit gets the ref of a push as a name. *)
Name(sha) == /\ status[sha] # "unknown"
             /\ \E ref \in RefsOf[sha] : names' = names \cup {<<sha, ref>>}
             /\ UNCHANGED <<status, sources>>

Next == \E sha \in Shas : Learn(sha) \/ Plan(sha) \/ Queue(sha) \/ Name(sha)

Spec == Init /\ [][Next]_vars
==============================================================================
