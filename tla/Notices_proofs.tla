---------------------------- MODULE Notices_proofs ----------------------------
(****************************************************************************)
(* What is proved of Notices for any number of runs, remotes and faults.    *)
(****************************************************************************)
EXTENDS Notices, SequenceTheorems, TLAPS

Entry == [of : Tellers, says : Statuses]

(* A teller has had its turn at a remote, or was cut off there. *)
Passed(t, n) == at[t] > n \/ (at[t] = n /\ stage[t] = "dead")

(* A remote has heard what the teller says, and only in its turn; when the  *)
(* turn is over, it has heard it or the notice failed.                      *)
HeardInTurn == \A n \in 1..Remotes : \A i \in DOMAIN log[n] :
  LET e == log[n][i] IN
    e.says = says[e.of] /\ says[e.of] # "nothing" /\ Passed(e.of, n)
TurnsAreTold == \A t \in Tellers, n \in 1..Remotes :
  at[t] > n => Heard(n, t) \/ <<t, n>> \in missed
LogInv == HeardInTurn /\ ToldOnce /\ TurnsAreTold

(* A teller has something to say once it begins, and a row has a result     *)
(* when its teller is over.                                                 *)
StageInv ==
  /\ \A t \in Tellers : stage[t] = "telling" => says[t] \in Statuses
  /\ \A t \in Tellers : stage[t] \in {"idle", "building"} => says[t] = "nothing"
  /\ \A r \in Runs : state[r] \in {"absent", "pending"} => stage[r] = "idle"
  /\ stage[Push] = "idle" => state[1] = "absent"
  /\ \A r \in Runs : state[r] \in {"finished", "error"} =>
       stage[r] = "over" /\ at[r] > Remotes /\ state[r] = Recorded(says[r])

Inv == TypeOK /\ LogInv /\ StageInv /\ OnlyMailLosesResults

------------------------------------------------------------------------------

(* Runs and the push handler are told apart by their numbers. *)
LEMMA Numbers ==
  /\ 1 \in Runs /\ Push \in Tellers /\ Runs \subseteq Tellers /\ Push \notin Runs
  /\ \A t \in Tellers : t # Push => t \in Runs
  /\ Remotes \in Nat /\ MaxRuns \in Nat
BY NoticesBounds DEF Runs, Push, Tellers

(* Nothing is told of a commit that has no run. *)
LEMMA InvInit == Init => Inv
<1> SUFFICES ASSUME Init PROVE Inv
  OBVIOUS
<1>1. \A n \in 1..Remotes : log[n] = <<>> /\ DOMAIN log[n] = {}
  BY DEF Init
<1>2. TypeOK
  <2>1. log \in [1..Remotes -> Seq([of : Tellers, says : Statuses])]
    BY EmptySeq DEF Init
  <2>2. at \in [Tellers -> 1..(Remotes + 1)] /\ faults \in 0..MaxFaults
    BY NoticesBounds DEF Init
  <2> QED BY <2>1, <2>2 DEF Init, TypeOK
<1>3. LogInv
  BY <1>1, Numbers DEF Init, LogInv, HeardInTurn, ToldOnce, TurnsAreTold
<1>4. StageInv /\ OnlyMailLosesResults
  BY Numbers DEF Init, StageInv, OnlyMailLosesResults
<1> QED BY <1>2, <1>3, <1>4 DEF Inv

(* Steps that send nothing and move on no list. *)
LEMMA QuietLog ==
  ASSUME Inv, log' = log, at' = at, missed \subseteq missed',
         \A t \in Tellers : says[t] # "nothing" => says'[t] = says[t],
         \A t \in Tellers : stage[t] = "dead" => stage'[t] = "dead"
  PROVE  LogInv'
<1>1. \A n \in 1..Remotes : \A i \in DOMAIN log[n] : log[n][i].of \in Tellers
  <2>1. \A n \in 1..Remotes : log[n] \in Seq(Entry)
    BY DEF Inv, TypeOK, Entry
  <2>2. \A n \in 1..Remotes : \A i \in DOMAIN log[n] : log[n][i] \in Entry
    BY <2>1
  <2> QED BY <2>2 DEF Entry
<1>2. HeardInTurn'
  BY <1>1 DEF Inv, LogInv, HeardInTurn, Passed
<1>3. ToldOnce' /\ TurnsAreTold'
  BY DEF Inv, LogInv, ToldOnce, TurnsAreTold, Heard
<1> QED BY <1>2, <1>3 DEF LogInv

(* A notice is put at the end of what its remote received. *)
LEMMA DeliverLog ==
  ASSUME Inv, NEW t \in Tellers, Telling(t), Deliver(t)
  PROVE  /\ at[t] \in 1..Remotes
         /\ log' \in [1..Remotes -> Seq(Entry)]
         /\ \A n \in 1..Remotes : \A i \in DOMAIN log'[n] :
              \/ i \in DOMAIN log[n] /\ log'[n][i] = log[n][i]
              \/ /\ n = at[t] /\ i = Len(log[n]) + 1
                 /\ log'[n][i] = [of |-> t, says |-> says[t]]
         /\ \A n \in 1..Remotes : \A i \in DOMAIN log[n] :
              i \in DOMAIN log'[n] /\ log'[n][i] = log[n][i]
         /\ \E i \in DOMAIN log'[at[t]] : log'[at[t]][i].of = t
<1> DEFINE m == at[t]
           e == [of |-> t, says |-> says[t]]
<1>1. m \in 1..Remotes
  BY Numbers DEF Telling, Inv, TypeOK
<1>2. e \in Entry
  BY DEF Telling, Inv, StageInv, Entry
<1>3. log \in [1..Remotes -> Seq(Entry)]
  BY DEF Inv, TypeOK, Entry
<1>4. log' = [log EXCEPT ![m] = Append(@, e)]
  BY DEF Deliver
<1> HIDE DEF m, e
<1>5. /\ Append(log[m], e) \in Seq(Entry)
      /\ Len(Append(log[m], e)) = Len(log[m]) + 1
      /\ \A i \in 1..Len(log[m]) : Append(log[m], e)[i] = log[m][i]
      /\ Append(log[m], e)[Len(log[m]) + 1] = e
  BY <1>1, <1>2, <1>3, AppendProperties
<1>6. /\ Len(log[m]) \in Nat /\ DOMAIN log[m] = 1..Len(log[m])
      /\ DOMAIN Append(log[m], e) = 1..(Len(log[m]) + 1)
  BY <1>1, <1>3, <1>5
<1>7. log'[m] = Append(log[m], e) /\ \A n \in 1..Remotes : n # m => log'[n] = log[n]
  BY <1>1, <1>3, <1>4
<1>8. log' \in [1..Remotes -> Seq(Entry)]
  BY <1>3, <1>4, <1>5
<1>9. \A n \in 1..Remotes : \A i \in DOMAIN log'[n] :
        \/ i \in DOMAIN log[n] /\ log'[n][i] = log[n][i]
        \/ n = m /\ i = Len(log[n]) + 1 /\ log'[n][i] = e
  <2> SUFFICES ASSUME NEW n \in 1..Remotes, NEW i \in DOMAIN log'[n]
               PROVE  \/ i \in DOMAIN log[n] /\ log'[n][i] = log[n][i]
                      \/ n = m /\ i = Len(log[n]) + 1 /\ log'[n][i] = e
    OBVIOUS
  <2>1. CASE n = m
    <3>1. i \in 1..(Len(log[m]) + 1)
      BY <1>6, <1>7, <2>1
    <3>2. CASE i = Len(log[m]) + 1
      BY <1>5, <1>7, <2>1, <3>2
    <3>3. CASE i \in 1..Len(log[m])
      BY <1>5, <1>6, <1>7, <2>1, <3>3
    <3> QED BY <1>6, <3>1, <3>2, <3>3
  <2>2. CASE n # m
    BY <1>7, <2>2
  <2> QED BY <2>1, <2>2
<1>10. \A n \in 1..Remotes : \A i \in DOMAIN log[n] :
         i \in DOMAIN log'[n] /\ log'[n][i] = log[n][i]
  <2> SUFFICES ASSUME NEW n \in 1..Remotes, NEW i \in DOMAIN log[n]
               PROVE  i \in DOMAIN log'[n] /\ log'[n][i] = log[n][i]
    OBVIOUS
  <2>1. CASE n = m
    BY <1>5, <1>6, <1>7, <2>1
  <2>2. CASE n # m
    BY <1>7, <2>2
  <2> QED BY <2>1, <2>2
<1>11. Len(log[m]) + 1 \in DOMAIN log'[m] /\ log'[m][Len(log[m]) + 1].of = t
  BY <1>5, <1>6, <1>7 DEF e
<1> QED BY <1>1, <1>8, <1>9, <1>10, <1>11 DEF m, e

(* A teller's turn at a remote: the notice arrives or failed, or both, and  *)
(* the teller goes on, or ends there.                                       *)
LEMMA TurnLog ==
  ASSUME Inv, NEW t \in Tellers, Telling(t), Deliver(t) \/ log' = log,
         Deliver(t) \/ <<t, at[t]>> \in missed',
         missed \subseteq missed', says' = says,
         \/ at' = [at EXCEPT ![t] = @ + 1] /\ stage' = stage
         \/ at' = at /\ stage' = [stage EXCEPT ![t] = "dead"]
  PROVE  LogInv' /\ at' \in [Tellers -> 1..(Remotes + 1)] /\ log' \in [1..Remotes -> Seq(Entry)]
<1>1. /\ at \in [Tellers -> 1..(Remotes + 1)] /\ stage \in [Tellers -> {"idle", "building", "telling", "over", "dead"}]
      /\ log \in [1..Remotes -> Seq(Entry)]
      /\ at[t] \in 1..Remotes /\ stage[t] = "telling" /\ says[t] \in Statuses
  <2>1. /\ at \in [Tellers -> 1..(Remotes + 1)] /\ stage \in [Tellers -> {"idle", "building", "telling", "over", "dead"}]
        /\ log \in [1..Remotes -> Seq(Entry)]
    BY DEF Inv, TypeOK, Entry
  <2>2. stage[t] = "telling" /\ says[t] \in Statuses /\ at[t] <= Remotes
    BY DEF Inv, Telling, StageInv
  <2>3. at[t] \in 1..Remotes
    BY <2>1, <2>2, Numbers
  <2> QED BY <2>1, <2>2, <2>3
<1>2. \A n \in 1..Remotes : \A i \in DOMAIN log[n] : log[n][i] \in Entry /\ log[n][i].of \in Tellers
  <2>1. \A n \in 1..Remotes : \A i \in DOMAIN log[n] : log[n][i] \in Entry
    <3> SUFFICES ASSUME NEW n \in 1..Remotes
                 PROVE  \A i \in DOMAIN log[n] : log[n][i] \in Entry
      OBVIOUS
    <3>1. log[n] \in Seq(Entry)
      BY <1>1
    <3> HIDE DEF Entry
    <3> QED BY <3>1
  <2> QED BY <2>1 DEF Entry
<1>3. /\ \A q \in Tellers : q # t => at'[q] = at[q] /\ stage'[q] = stage[q]
      /\ at'[t] = at[t] + 1 \/ (at'[t] = at[t] /\ stage'[t] = "dead")
      /\ at' \in [Tellers -> 1..(Remotes + 1)]
  <2>1. at[t] + 1 \in 1..(Remotes + 1)
    BY <1>1, Numbers
  <2>2. CASE at' = [at EXCEPT ![t] = @ + 1] /\ stage' = stage
    BY <1>1, <2>1, <2>2
  <2>3. CASE at' = at /\ stage' = [stage EXCEPT ![t] = "dead"]
    BY <1>1, <2>3
  <2> QED BY <2>2, <2>3
<1>4. /\ \A q \in Tellers, n \in 1..Remotes : Passed(q, n) => Passed(q, n)'
      /\ Passed(t, at[t]) = FALSE /\ \A n \in 1..Remotes : n = at[t] => Passed(t, n)'
  BY <1>1, <1>3 DEF Passed
<1>5. log' \in [1..Remotes -> Seq(Entry)]
  BY <1>1, DeliverLog
<1>6. /\ \A n \in 1..Remotes : \A i \in DOMAIN log'[n] :
           \/ i \in DOMAIN log[n] /\ log'[n][i] = log[n][i]
           \/ /\ n = at[t] /\ i = Len(log[n]) + 1
              /\ log'[n][i] = [of |-> t, says |-> says[t]]
      /\ \A n \in 1..Remotes : \A i \in DOMAIN log[n] :
           i \in DOMAIN log'[n] /\ log'[n][i] = log[n][i]
  BY DeliverLog
<1>7. \A n \in 1..Remotes : \A i \in DOMAIN log[n] : n = at[t] => log[n][i].of # t
  BY <1>2, <1>4 DEF Inv, LogInv, HeardInTurn
<1>8. HeardInTurn'
  <2> SUFFICES ASSUME NEW n \in 1..Remotes, NEW i \in DOMAIN log'[n]
               PROVE  /\ log'[n][i].says = says'[log'[n][i].of]
                      /\ says'[log'[n][i].of] # "nothing"
                      /\ \/ at'[log'[n][i].of] > n
                         \/ at'[log'[n][i].of] = n /\ stage'[log'[n][i].of] = "dead"
    BY DEF HeardInTurn, Passed
  <2>1. CASE i \in DOMAIN log[n] /\ log'[n][i] = log[n][i]
    <3>1. /\ log[n][i].says = says[log[n][i].of] /\ says[log[n][i].of] # "nothing"
          /\ Passed(log[n][i].of, n) /\ log[n][i].of \in Tellers
      BY <1>2, <2>1 DEF Inv, LogInv, HeardInTurn
    <3>2. PICK q \in Tellers : q = log[n][i].of
      BY <3>1
    <3>3. at'[q] > n \/ (at'[q] = n /\ stage'[q] = "dead")
      BY <1>4, <3>1, <3>2 DEF Passed
    <3> QED BY <2>1, <3>1, <3>2, <3>3
  <2>2. CASE n = at[t] /\ log'[n][i] = [of |-> t, says |-> says[t]]
    <3>1. says[t] # "nothing" /\ log'[n][i].of = t /\ log'[n][i].says = says[t]
      BY <1>1, <2>2 DEF Statuses
    <3>2. at'[t] > n \/ (at'[t] = n /\ stage'[t] = "dead")
      BY <1>1, <1>3, <2>2
    <3> QED BY <3>1, <3>2
  <2> QED BY <1>6, <2>1, <2>2
<1>9. ToldOnce'
  <2> SUFFICES ASSUME NEW n \in 1..Remotes, NEW i \in DOMAIN log'[n], NEW j \in DOMAIN log'[n],
                      log'[n][i].of = log'[n][j].of
               PROVE  i = j
    BY DEF ToldOnce
  <2>1. CASE /\ i \in DOMAIN log[n] /\ log'[n][i] = log[n][i]
             /\ j \in DOMAIN log[n] /\ log'[n][j] = log[n][j]
    BY <2>1 DEF Inv, LogInv, ToldOnce
  <2>2. ASSUME NEW k \in DOMAIN log'[n], log'[n][k] = [of |-> t, says |-> says[t]]
        PROVE  log'[n][k].of = t
    BY <2>2
  <2> QED BY <1>6, <1>7, <2>1, <2>2
<1>10. TurnsAreTold'
  <2> SUFFICES ASSUME NEW q \in Tellers, NEW n \in 1..Remotes, at'[q] > n
               PROVE  (\E i \in DOMAIN log'[n] : log'[n][i].of = q) \/ <<q, n>> \in missed'
    BY DEF TurnsAreTold, Heard
  <2>1. CASE at[q] > n
    BY <1>6, <2>1 DEF Inv, LogInv, TurnsAreTold, Heard
  <2>2. CASE ~(at[q] > n)
    <3>1. q = t /\ n = at[t]
      BY <1>1, <1>3, <2>2
    <3>2. Deliver(t) => \E i \in DOMAIN log'[at[t]] : log'[at[t]][i].of = t
      BY DeliverLog
    <3> QED BY <3>1, <3>2
  <2> QED BY <2>1, <2>2
<1> QED BY <1>3, <1>5, <1>8, <1>9, <1>10 DEF LogInv

------------------------------------------------------------------------------
(* Steps of runs and of the push handler *)

StageNames == {"idle", "building", "telling", "over", "dead"}
StateNames == {"absent", "pending", "started", "finished", "error"}

(* What the types of a state are. *)
LEMMA Typed ==
  ASSUME Inv
  PROVE  /\ state \in [Runs -> StateNames] /\ stage \in [Tellers -> StageNames]
         /\ says \in [Tellers -> Statuses \cup {"nothing"}]
         /\ at \in [Tellers -> 1..(Remotes + 1)]
         /\ faults \in 0..MaxFaults
BY DEF Inv, TypeOK, StageNames, StateNames

(* A fault is one that the bound allows. *)
LEMMA FaultType == ASSUME Inv, Fault PROVE faults' \in 0..MaxFaults
BY NoticesBounds DEF Inv, TypeOK, Fault

(* The push handler inserts the first run. *)
LEMMA StepNewRun == Inv /\ NewRun => Inv'
<1> SUFFICES ASSUME Inv, NewRun PROVE Inv'
  OBVIOUS
<1>1. /\ stage[Push] = "idle" /\ says[Push] = "nothing" /\ state[1] = "absent" /\ stage[1] = "idle"
      /\ state' = [state EXCEPT ![1] = "pending"]
      /\ stage' = [stage EXCEPT ![Push] = "telling"] /\ says' = [says EXCEPT ![Push] = "pending"]
  BY Numbers DEF NewRun, Inv, StageInv, BeginTelling, Goto
<1>2. TypeOK'
  BY <1>1, Numbers DEF NewRun, Inv, TypeOK, Statuses
<1>3. LogInv'
  BY <1>1, Typed, Numbers, QuietLog DEF NewRun
<1>4. StageInv' /\ OnlyMailLosesResults'
  BY <1>1, Typed, Numbers DEF NewRun, Inv, StageInv, OnlyMailLosesResults, Statuses, StageNames
<1> QED BY <1>2, <1>3, <1>4 DEF Inv

(* A run that nobody is told of. *)
LEMMA StepAnotherRun == ASSUME Inv, NEW r \in Runs, AnotherRun(r) PROVE Inv'
<1>1. TypeOK'
  BY DEF AnotherRun, Inv, TypeOK
<1>2. LogInv'
  BY QuietLog DEF AnotherRun
<1>3. StageInv' /\ OnlyMailLosesResults'
  BY Typed, Numbers DEF AnotherRun, Inv, StageInv, OnlyMailLosesResults
<1> QED BY <1>1, <1>2, <1>3 DEF Inv

(* A runner takes a run. *)
LEMMA StepStart == ASSUME Inv, NEW r \in Runs, Start(r) PROVE Inv'
<1>1. /\ stage[r] = "idle" /\ says[r] = "nothing" /\ r \in Tellers /\ r # Push
      /\ state' = [state EXCEPT ![r] = "started"]
      /\ stage' = [stage EXCEPT ![r] = "building"]
  BY Numbers DEF Start, Inv, StageInv, Goto
<1>2. TypeOK'
  BY <1>1 DEF Start, Inv, TypeOK
<1>3. LogInv'
  BY <1>1, Typed, QuietLog DEF Start
<1>4. StageInv' /\ OnlyMailLosesResults'
  BY <1>1, Typed, Numbers DEF Start, Inv, StageInv, OnlyMailLosesResults
<1> QED BY <1>2, <1>3, <1>4 DEF Inv

(* It reports a result. *)
LEMMA StepReport == ASSUME Inv, NEW r \in Runs, Report(r) PROVE Inv'
<1>1. PICK v \in {"success", "failure"} : BeginTelling(r, v)
  BY DEF Report
<1>2. /\ stage[r] = "building" /\ says[r] = "nothing" /\ r \in Tellers /\ r # Push
      /\ state[r] \notin {"absent", "pending", "finished", "error"} /\ v \in Statuses
      /\ stage' = [stage EXCEPT ![r] = "telling"] /\ says' = [says EXCEPT ![r] = v]
  BY <1>1, Numbers DEF Report, Inv, StageInv, BeginTelling, Goto, Statuses
<1>3. TypeOK'
  BY <1>2 DEF Report, Inv, TypeOK
<1>4. LogInv'
  BY <1>2, Typed, QuietLog DEF Report
<1>5. StageInv' /\ OnlyMailLosesResults'
  BY <1>2, Typed, Numbers DEF Report, Inv, StageInv, OnlyMailLosesResults
<1> QED BY <1>3, <1>4, <1>5 DEF Inv

(* Its runner hangs up: no result was reported. *)
LEMMA StepHangUp == ASSUME Inv, NEW r \in Runs, HangUp(r) PROVE Inv'
<1>1. /\ stage[r] = "building" /\ says[r] = "nothing" /\ r \in Tellers /\ r # Push
      /\ state[r] \notin {"absent", "pending", "finished", "error"}
      /\ stage' = [stage EXCEPT ![r] = "dead"]
  BY Numbers DEF HangUp, Inv, StageInv, Goto
<1>2. TypeOK'
  BY <1>1, FaultType DEF HangUp, Inv, TypeOK
<1>3. LogInv'
  BY <1>1, Typed, QuietLog DEF HangUp
<1>4. StageInv' /\ OnlyMailLosesResults'
  BY <1>1, Typed, Numbers DEF HangUp, Inv, StageInv, OnlyMailLosesResults
<1> QED BY <1>2, <1>3, <1>4 DEF Inv

------------------------------------------------------------------------------
(* Steps of telling *)

(* A teller that is telling is no run with a result, nor one without a      *)
(* session.                                                                 *)
LEMMA TellingRuns ==
  ASSUME Inv, NEW t \in Tellers, stage[t] = "telling"
  PROVE  /\ t \in Runs => state[t] \notin {"absent", "pending", "finished", "error"}
         /\ says[t] \in Statuses
BY DEF Inv, StageInv

(* The remote is told. *)
LEMMA StepTell == ASSUME Inv, NEW t \in Tellers, Tell(t) PROVE Inv'
<1>1. /\ Telling(t) /\ stage[t] = "telling" /\ at[t] <= Remotes
      /\ at' = [at EXCEPT ![t] = @ + 1] /\ Deliver(t)
      /\ stage' = stage /\ says' = says /\ missed' = missed
  BY DEF Tell, Telling, NextRemote
<1>2. LogInv' /\ at' \in [Tellers -> 1..(Remotes + 1)] /\ log' \in [1..Remotes -> Seq(Entry)]
  BY <1>1, TurnLog
<1>3. TypeOK'
  BY <1>1, <1>2 DEF Tell, Inv, TypeOK, Entry
<1>4. StageInv' /\ OnlyMailLosesResults'
  BY <1>1, TellingRuns, Typed, Numbers DEF Tell, Inv, StageInv, OnlyMailLosesResults
<1> QED BY <1>2, <1>3, <1>4 DEF Inv

(* Telling it fails. *)
LEMMA StepTellFails == ASSUME Inv, NEW t \in Tellers, TellFails(t) PROVE Inv'
<1>1. /\ Telling(t) /\ stage[t] = "telling" /\ at[t] \in 1..Remotes
      /\ Deliver(t) \/ log' = log
      /\ missed' = missed \cup {<<t, at[t]>>} /\ says' = says
      /\ \/ t = Push /\ stage' = [stage EXCEPT ![t] = "dead"] /\ at' = at
         \/ t # Push /\ at' = [at EXCEPT ![t] = @ + 1] /\ stage' = stage
  BY Typed, Numbers DEF TellFails, Telling, NextRemote, Goto
<1>2. LogInv' /\ at' \in [Tellers -> 1..(Remotes + 1)] /\ log' \in [1..Remotes -> Seq(Entry)]
  BY <1>1, TurnLog
<1>3. missed' \subseteq Tellers \X (1..Remotes)
  BY <1>1 DEF Inv, TypeOK
<1>4. stage' \in [Tellers -> StageNames]
  BY <1>1, Typed DEF StageNames
<1>5. TypeOK'
  BY <1>1, <1>2, <1>3, <1>4, FaultType DEF TellFails, Inv, TypeOK, Entry, StageNames
<1>6. StageInv' /\ OnlyMailLosesResults'
  <2>1. CASE t = Push /\ stage' = [stage EXCEPT ![t] = "dead"] /\ at' = at
    BY <1>1, <2>1, Typed, Numbers DEF TellFails, Inv, StageInv, OnlyMailLosesResults
  <2>2. CASE t # Push /\ at' = [at EXCEPT ![t] = @ + 1] /\ stage' = stage
    BY <1>1, <2>2, TellingRuns, Typed, Numbers
    DEF TellFails, Inv, StageInv, OnlyMailLosesResults
  <2> QED BY <1>1, <2>1, <2>2
<1> QED BY <1>2, <1>5, <1>6 DEF Inv

(* The mail server fails the teller. *)
LEMMA StepNoMailServer == ASSUME Inv, NEW t \in Tellers, NoMailServer(t) PROVE Inv'
<1>1. /\ Telling(t) /\ stage[t] = "telling" /\ at[t] \in 1..Remotes
      /\ kind[at[t]] = "email" /\ kind' = kind
      /\ log' = log /\ at' = at /\ says' = says
      /\ missed' = missed \cup {<<t, at[t]>>}
      /\ stage' = [stage EXCEPT ![t] = "dead"]
  BY Typed, Numbers DEF NoMailServer, Telling, Goto
<1>2. LogInv'
  BY <1>1, TurnLog
<1>3. missed' \subseteq Tellers \X (1..Remotes)
  BY <1>1 DEF Inv, TypeOK
<1>4. TypeOK'
  BY <1>1, <1>3, FaultType DEF NoMailServer, Inv, TypeOK
<1>5. StageInv'
  BY <1>1, TellingRuns, Typed, Numbers DEF NoMailServer, Inv, StageInv
<1>6. OnlyMailLosesResults'
  BY <1>1 DEF OnlyMailLosesResults
<1> QED BY <1>2, <1>4, <1>5, <1>6 DEF Inv

(* The push handler has told them all. *)
LEMMA StepPushDone == Inv /\ PushDone => Inv'
<1> SUFFICES ASSUME Inv, PushDone PROVE Inv'
  OBVIOUS
<1>1. stage[Push] = "telling" /\ stage' = [stage EXCEPT ![Push] = "over"]
  BY DEF PushDone, Goto
<1>2. TypeOK'
  BY <1>1 DEF PushDone, Inv, TypeOK
<1>3. LogInv'
  BY <1>1, Typed, QuietLog DEF PushDone
<1>4. StageInv' /\ OnlyMailLosesResults'
  BY <1>1, Typed, Numbers DEF PushDone, Inv, StageInv, OnlyMailLosesResults
<1> QED BY <1>2, <1>3, <1>4 DEF Inv

(* The result is put in the row. *)
LEMMA StepRecord == ASSUME Inv, NEW r \in Runs, Record(r) PROVE Inv'
<1>1. /\ stage[r] = "telling" /\ at[r] > Remotes /\ r \in Tellers /\ r # Push
      /\ state' = [state EXCEPT ![r] = Recorded(says[r])]
      /\ stage' = [stage EXCEPT ![r] = "over"]
      /\ Recorded(says[r]) \in {"finished", "error"}
  BY Numbers DEF Record, Goto, Recorded
<1>2. state[r] \notin {"absent", "pending", "finished", "error"}
  BY <1>1, TellingRuns
<1>3. TypeOK'
  BY <1>1 DEF Record, Inv, TypeOK
<1>4. LogInv'
  BY <1>1, Typed, QuietLog DEF Record
<1>5. StageInv' /\ OnlyMailLosesResults'
  <2>1. /\ says' = says /\ at' = at /\ restarted' = restarted /\ kind' = kind
        /\ state'[r] = Recorded(says[r]) /\ stage'[r] = "over"
        /\ \A q \in Runs : q # r => state'[q] = state[q]
        /\ \A q \in Tellers : q # r => stage'[q] = stage[q]
    BY <1>1, Typed DEF Record
  <2>2. state[1] = "absent" => r # 1
    BY <1>2
  <2> QED BY <1>1, <1>2, <2>1, <2>2, Numbers DEF Inv, StageInv, OnlyMailLosesResults
<1> QED BY <1>3, <1>4, <1>5 DEF Inv

(* The web server restarts under the push handler. *)
LEMMA StepWebRestart == Inv /\ WebRestart => Inv'
<1> SUFFICES ASSUME Inv, WebRestart PROVE Inv'
  OBVIOUS
<1>1. stage[Push] = "telling" /\ stage' = [stage EXCEPT ![Push] = "dead"]
  BY DEF WebRestart, Goto
<1>2. TypeOK'
  BY <1>1, FaultType DEF WebRestart, Inv, TypeOK
<1>3. LogInv'
  BY <1>1, Typed, QuietLog DEF WebRestart
<1>4. StageInv' /\ OnlyMailLosesResults'
  BY <1>1, Typed, Numbers DEF WebRestart, Inv, StageInv, OnlyMailLosesResults
<1> QED BY <1>2, <1>3, <1>4 DEF Inv

(* The driver restarts under its tasks. *)
LEMMA StepDriverRestart == Inv /\ DriverRestart => Inv'
<1> SUFFICES ASSUME Inv, DriverRestart PROVE Inv'
  OBVIOUS
<1>1. /\ restarted' = TRUE
      /\ \A t \in Tellers :
           \/ stage'[t] = stage[t]
           \/ t \in Runs /\ stage[t] \in {"building", "telling"} /\ stage'[t] = "dead"
      /\ stage' \in [Tellers -> StageNames]
  <2>1. /\ stage \in [Tellers -> StageNames] /\ restarted' = TRUE
        /\ stage' = [t \in Tellers |-> IF t \in Runs /\ stage[t] \in {"building", "telling"}
                                       THEN "dead" ELSE stage[t]]
    BY Typed DEF DriverRestart
  <2>2. \A t \in Tellers : stage'[t] = IF t \in Runs /\ stage[t] \in {"building", "telling"}
                                       THEN "dead" ELSE stage[t]
    BY <2>1
  <2>3. \A t \in Tellers : stage'[t] \in StageNames
    BY <2>1, <2>2 DEF StageNames
  <2>4. stage' \in [Tellers -> StageNames]
    BY <2>1, <2>3
  <2> QED BY <2>1, <2>2, <2>4
<1>2. TypeOK'
  BY <1>1, FaultType DEF DriverRestart, Inv, TypeOK, StageNames
<1>3. LogInv'
  BY <1>1, QuietLog DEF DriverRestart
<1>4. StageInv' /\ OnlyMailLosesResults'
  BY <1>1, Typed, Numbers DEF DriverRestart, Inv, StageInv, OnlyMailLosesResults
<1> QED BY <1>2, <1>3, <1>4 DEF Inv

------------------------------------------------------------------------------

(* Every step keeps the invariant. *)
LEMMA InvNext == Inv /\ [Next]_vars => Inv'
<1> SUFFICES ASSUME Inv, [Next]_vars PROVE Inv'
  OBVIOUS
<1>1. CASE UNCHANGED vars
  <2>1. TypeOK'
    BY <1>1 DEF vars, Inv, TypeOK
  <2>2. LogInv'
    BY <1>1, QuietLog DEF vars
  <2>3. StageInv' /\ OnlyMailLosesResults'
    BY <1>1 DEF vars, Inv, StageInv, OnlyMailLosesResults
  <2> QED BY <2>1, <2>2, <2>3 DEF Inv
<1>2. CASE NewRun
  BY <1>2, StepNewRun
<1>3. ASSUME NEW r \in Runs, AnotherRun(r) \/ Start(r) \/ Report(r) \/ HangUp(r)
      PROVE  Inv'
  BY <1>3, StepAnotherRun, StepStart, StepReport, StepHangUp
<1>4. ASSUME NEW t \in Tellers, TellerStep(t) \/ TellFails(t) \/ NoMailServer(t)
      PROVE  Inv'
  <2>1. CASE TellerStep(t)
    <3>1. CASE Tell(t)
      BY <3>1, StepTell
    <3>2. CASE t = Push /\ PushDone
      BY <3>2, StepPushDone
    <3>3. CASE t # Push /\ Record(t)
      BY <3>3, Numbers, StepRecord
    <3> QED BY <2>1, <3>1, <3>2, <3>3 DEF TellerStep
  <2>2. CASE TellFails(t) \/ NoMailServer(t)
    BY <2>2, StepTellFails, StepNoMailServer
  <2> QED BY <1>4, <2>1, <2>2
<1>5. CASE WebRestart \/ DriverRestart
  BY <1>5, StepWebRestart, StepDriverRestart
<1> QED BY <1>1, <1>2, <1>3, <1>4, <1>5 DEF Next

(* The inductive invariant holds of every behaviour. *)
LEMMA Invariance == Spec => []Inv
BY InvInit, InvNext, PTL DEF Spec

(* Every variable keeps its type: rows, the list of remotes a teller goes   *)
(* through and what the remotes have received (Notices, ClientJob::run and  *)
(* the push handler).                                                       *)
THEOREM NoticeTypes == Spec => []TypeOK
<1>1. Inv => TypeOK
  BY DEF Inv
<1> QED BY Invariance, <1>1, PTL

(* ClientJob::run updates the row when it is through with the list of       *)
(* remotes, and a remote it is through with was told or telling it failed:  *)
(* a recorded result was told to every remote that could be told.           *)
THEOREM ResultsAreTold == Spec => []RecordedIsTold
<1>1. Inv => RecordedIsTold
  <2> SUFFICES ASSUME Inv, NEW r \in Runs, state[r] \in {"finished", "error"}, NEW n \in 1..Remotes
               PROVE  Heard(n, r) \/ <<r, n>> \in missed
    BY DEF RecordedIsTold
  <2>1. r \in Tellers /\ at[r] \in 1..(Remotes + 1) /\ at[r] > Remotes
    BY Typed, Numbers DEF Inv, StageInv
  <2>2. at[r] > n
    BY <2>1, Numbers
  <2> QED BY <2>1, <2>2 DEF Inv, LogInv, TurnsAreTold
<1> QED BY Invariance, <1>1, PTL

(* No remote gets the same notice twice: a teller leaves a remote whether   *)
(* or not telling it succeeded, and is not started again.                   *)
THEOREM NoticesAreSentOnce == Spec => []ToldOnce
<1>1. Inv => ToldOnce
  BY DEF Inv, LogInv
<1> QED BY Invariance, <1>1, PTL

(* The status ClientJob::run tells is the one it records, so the row of a   *)
(* run and what any remote heard of it agree.                               *)
THEOREM RowsAgree == Spec => []RowAgreesWithNotices
<1>1. Inv => RowAgreesWithNotices
  BY Numbers DEF Inv, StageInv, LogInv, HeardInTurn, RowAgreesWithNotices
<1> QED BY Invariance, <1>1, PTL

(* A result that a runner reported is lost in a restart of the driver, or   *)
(* where tell_job_status panics on a mail server; a failure of GitHub loses *)
(* none.                                                                    *)
THEOREM ResultsAreLostByMail == Spec => []OnlyMailLosesResults
<1>1. Inv => OnlyMailLosesResults
  BY DEF Inv
<1> QED BY Invariance, <1>1, PTL
==============================================================================
