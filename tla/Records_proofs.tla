---------------------------- MODULE Records_proofs ----------------------------
(****************************************************************************)
(* What is proved of Records for any runs, sessions, machines, metrics and  *)
(* clocks.                                                                  *)
(****************************************************************************)
EXTENDS Records, FiniteSetTheorems, SequenceTheorems, TLAPS

(* The sessions a run was chosen for and that have not let go of it. *)
Holders(r) == claims[r] \cup owners[r]

(* A connection serves one run, which it first claims and then owns; what   *)
(* bears a session's name is of a run that it owns, or the session is over. *)
Built(r, s) == s \in owners[r] \/ conn[s] = "gone"

SessInv ==
  /\ \A r \in Runs : claims[r] \cap owners[r] = {} /\ Holders(r) \subseteq tried[r]
  /\ \A r \in Runs : \A s \in Holders(r) :
       conn[s] = "up" /\ \A q \in Runs : s \in Holders(q) => q = r
  /\ \A r \in Runs : \A s \in tried[r] : s \in Holders(r) \/ conn[s] = "gone"
  /\ \A r \in Runs : token[r] # None => Built(r, token[r])
  /\ \A a \in artifacts : Built(a.run, a.by)
  /\ \A s \in Sessions : reported[s] # 0 => \E r \in Runs : Built(r, s)

(* Only an owner completes a run, no earlier than it or another started it. *)
TimeInv ==
  /\ \A s \in Sessions : now[s] # None => now[s] <= clock
  /\ \A r \in Runs : started[r] # None => started[r] <= clock
  /\ \A r \in Runs : completed[r] # None => completed[r] <= clock
  /\ \A r \in Runs : owners[r] # {} => started[r] # None
  /\ \A r \in Runs : status[r] \in {"absent", "pending"} =>
       started[r] = None /\ completed[r] = None /\ result[r] = None
  /\ \A r \in Runs : status[r] \in {"finished", "error"} =>
       started[r] # None /\ completed[r] # None /\ started[r] <= completed[r]

ArtifactInv ==
  /\ \A r \in Runs : token[r] # None => started[r] # None
  /\ \A a \in artifacts : token[a.run] = a.by => started[a.run] <= a.at

(* A session has its host's row from the time it is let in. *)
LetIn == {"up", "gone"}
HostInv ==
  /\ \A s \in Sessions : conn[s] \in LetIn =>
       hostId[s] \in DOMAIN hosts /\ hosts[hostId[s]] = [machine |-> MachineOf[s], freq |-> freq[s]]
  /\ \A r \in Runs : host[r] # None =>
       token[r] \in Sessions /\ conn[token[r]] \in LetIn /\ host[r] = hostId[token[r]]

(* What a session's build has reported is in the rows of its run. *)
MetricInv ==
  /\ MetricsKeepOrder
  /\ \A r \in Runs : \A s \in owners[r] : reported[s] = Done \/ reported[s] <= Len(metrics[r])

(* The row of a run with a single session *)
Row(r, res, beg, end) == result[r] = res /\ (started[r] # None) = beg /\ (completed[r] # None) = end
SoleInv == \A r \in Runs :
  /\ IsFiniteSet(tried[r])
  /\ tried[r] = {} => status[r] \in {"absent", "pending"}
  /\ \A s \in Sessions : tried[r] = {s} =>
       /\ status[r] # "absent"
       /\ status[r] = "started" => Row(r, None, TRUE, FALSE)
       /\ status[r] = "finished" => Row(r, "pass", TRUE, TRUE)
       /\ status[r] = "error" => Row(r, "fail", TRUE, TRUE)
       /\ status[r] = "invalid" => Row(r, None, TRUE, FALSE)
       /\ s \in claims[r] => status[r] = "pending"
       /\ s \in owners[r] /\ reported[s] # Done => status[r] = "started"

Inv == TypeOK /\ SessInv /\ TimeInv /\ ArtifactInv /\ HostInv /\ MetricInv /\ SoleInv

------------------------------------------------------------------------------

(* The empty tables of a new database, before any connection. *)
LEMMA InvInit == Init => Inv
<1> SUFFICES ASSUME Init PROVE Inv
  OBVIOUS
<1>1. /\ clock = 1 /\ Times = 1..Len(Moments) /\ Len(Moments) \in Nat \ {0}
      /\ hosts = <<>> /\ DOMAIN hosts = {} /\ Done \in Nat \ {0}
  BY ClockAssumption, MetricsAssumption DEF Init, Times, Done
<1>2. TypeOK
  <2>1. Ledger!TypeOK
    BY DEF Init, Ledger!Init, Ledger!TypeOK, Ledger!Statuses
  <2>2. hosts \in Seq(Host) /\ artifacts \subseteq Artifact
    BY <1>1 DEF Init
  <2>3. metrics \in [Runs -> Seq({Metrics[i] : i \in DOMAIN Metrics})] /\ \A r \in Runs : metrics[r] = <<>>
    BY DEF Init
  <2>4. \A r \in Runs : Len(metrics[r]) <= Len(Metrics)
    BY <2>3, MetricsAssumption
  <2>5. reported \in [Sessions -> 0..Done]
    BY <1>1 DEF Init
  <2>6. /\ started \in [Runs -> Times \cup {None}] /\ completed \in [Runs -> Times \cup {None}]
        /\ result \in [Runs -> Verdicts \cup {None}] /\ token \in [Runs -> Sessions \cup {None}]
        /\ host \in [Runs -> DOMAIN hosts \cup {None}]
    BY DEF Init
  <2>7. /\ conn \in [Sessions -> {"new", "up", "refused", "gone"}]
        /\ freq \in [Sessions -> Freqs \cup {None}]
        /\ hostId \in [Sessions -> DOMAIN hosts \cup {None}] /\ now \in [Sessions -> Times \cup {None}]
        /\ tried \in [Runs -> SUBSET Sessions] /\ clock \in Times
    BY <1>1 DEF Init
  <2> QED BY <2>1, <2>2, <2>3, <2>4, <2>5, <2>6, <2>7 DEF TypeOK
<1>3. \A r \in Runs : claims[r] = {} /\ owners[r] = {} /\ status[r] = "absent"
  BY DEF Init, Ledger!Init
<1>4. SessInv /\ TimeInv /\ ArtifactInv /\ HostInv
  BY <1>3 DEF Init, SessInv, Holders, Built, TimeInv, ArtifactInv, HostInv, LetIn
<1>5. MetricInv
  <2>1. Metrics \in Seq({Metrics[i] : i \in DOMAIN Metrics})
    BY MetricsAssumption
  <2>2. SubSeq(Metrics, 1, 0) = <<>>
    BY <2>1
  <2> QED BY <1>3, <2>2 DEF Init, MetricInv, MetricsKeepOrder
<1>6. SoleInv
  BY <1>3, FS_EmptySet DEF Init, SoleInv
<1> QED BY <1>2, <1>4, <1>5, <1>6 DEF Inv

(* Rows and sessions are where TypeOK says. *)
LEMMA Domains ==
  ASSUME Inv
  PROVE  /\ clock \in Times /\ Times = 1..Len(Moments) /\ Len(Moments) \in Nat /\ clock \in Nat
         /\ Done \in Nat \ {0}
         /\ \A t \in Times : t \in Nat /\ t # None
<1>1. Times = 1..Len(Moments) /\ Len(Moments) \in Nat
  BY ClockAssumption DEF Times
<1>2. Done \in Nat \ {0}
  BY MetricsAssumption DEF Done
<1> QED BY <1>1, <1>2, NullAssumption DEF Inv, TypeOK

(* Time passes. *)
LEMMA TickStep == Inv /\ Tick => Inv'
<1> SUFFICES ASSUME Inv, Tick PROVE Inv'
  OBVIOUS
<1>1. /\ clock' = clock + 1 /\ clock < Len(Moments)
      /\ UNCHANGED <<status, claims, owners, started, completed, result, host, token,
                     hosts, metrics, artifacts, conn, freq, hostId, now, reported, tried>>
  BY DEF Tick, ledgerVars, rowVars, sideVars, sessVars
<1>2. clock \in Nat /\ clock' \in Times /\ clock <= clock'
  BY <1>1, Domains
<1>3. TypeOK'
  BY <1>1, <1>2 DEF Inv, TypeOK, Ledger!TypeOK
<1>4. SessInv'
  BY <1>1 DEF Inv, SessInv, Holders, Built
<1>5. TimeInv'
  <2>1. \A t \in Times : t <= clock => t <= clock'
    BY <1>2, Domains
  <2>2. /\ \A r \in Runs : started[r] \in Times \cup {None} /\ completed[r] \in Times \cup {None}
        /\ \A s \in Sessions : now[s] \in Times \cup {None}
    BY DEF Inv, TypeOK
  <2> QED BY <1>1, <2>1, <2>2 DEF Inv, TimeInv
<1>6. ArtifactInv'
  BY <1>1 DEF Inv, ArtifactInv
<1>7. HostInv'
  BY <1>1 DEF Inv, HostInv
<1>8. MetricInv'
  BY <1>1 DEF Inv, MetricInv, MetricsKeepOrder
<1>9. SoleInv'
  BY <1>1 DEF Inv, SoleInv, Row
<1> QED BY <1>3, <1>4, <1>5, <1>6, <1>7, <1>8, <1>9 DEF Inv

(* A row is inserted, or given up. *)
LEMMA StatusStep == ASSUME Inv, NEW r \in Runs, NewRun(r) \/ ReapTask(r) PROVE Inv'
<1>1. UNCHANGED <<clock, claims, owners, started, completed, result, host, token,
                  hosts, metrics, artifacts, conn, freq, hostId, now, reported, tried>>
  BY DEF NewRun, ReapTask, Ledger!Create, Ledger!Reap, rowVars, sideVars, sessVars
<1>2. \/ status[r] = "absent" /\ status' = [status EXCEPT ![r] = "pending"]
      \/ /\ status[r] = "started" /\ claims[r] = {} /\ owners[r] = {}
         /\ status' = [status EXCEPT ![r] = "invalid"]
  BY DEF NewRun, ReapTask, Ledger!Create, Ledger!Reap
<1>3. status \in [Runs -> Ledger!Statuses]
  BY DEF Inv, TypeOK, Ledger!TypeOK
<1>4. TypeOK'
  <2>1. status' \in [Runs -> Ledger!Statuses]
    BY <1>2, <1>3 DEF Ledger!Statuses
  <2> QED BY <1>1, <2>1 DEF Inv, TypeOK, Ledger!TypeOK
<1>5. SessInv'
  BY <1>1 DEF Inv, SessInv, Holders, Built
<1>6. TimeInv'
  BY <1>1, <1>2, <1>3 DEF Inv, TimeInv, Holders
<1>7. ArtifactInv' /\ HostInv' /\ MetricInv'
  BY <1>1 DEF Inv, ArtifactInv, HostInv, MetricInv, MetricsKeepOrder
<1>8. SoleInv'
  BY <1>1, <1>2, <1>3 DEF Inv, SoleInv, Row
<1> QED BY <1>4, <1>5, <1>6, <1>7, <1>8 DEF Inv

(* A run is chosen for a session that has nothing. *)
LEMMA OfferStep ==
  ASSUME Inv, NEW r \in Runs, NEW s \in Sessions, Offer(r, s) \/ OfferAlternate(r, s)
  PROVE  Inv'
<1>1. /\ Free(s)
      /\ claims' = [claims EXCEPT ![r] = @ \cup {s}]
      /\ tried' = [tried EXCEPT ![r] = @ \cup {s}]
      /\ status[r] \in {"absent", "pending"} /\ status' = [status EXCEPT ![r] = "pending"]
      /\ UNCHANGED <<clock, owners, started, completed, result, host, token,
                     hosts, metrics, artifacts, conn, freq, hostId, now, reported>>
  <2>1. status \in [Runs -> Ledger!Statuses]
    BY DEF Inv, TypeOK, Ledger!TypeOK
  <2>2. CASE Offer(r, s)
    BY <2>1, <2>2 DEF Offer, Ledger!Claim, Offered, rowVars, sideVars, sessVars
  <2>3. CASE OfferAlternate(r, s)
    BY <2>3 DEF OfferAlternate, Ledger!CreateClaimed, Offered, rowVars, sideVars, sessVars
  <2> QED BY <2>2, <2>3
<1>2. conn[s] = "up" /\ \A q \in Runs : s \notin Holders(q) /\ s \notin tried[q]
  BY <1>1 DEF Free, Holders, Inv, SessInv
<1>3. /\ status \in [Runs -> Ledger!Statuses] /\ claims \in [Runs -> SUBSET Sessions]
      /\ owners \in [Runs -> SUBSET Sessions] /\ tried \in [Runs -> SUBSET Sessions]
  BY DEF Inv, TypeOK, Ledger!TypeOK
<1>4. TypeOK'
  <2>1. /\ status' \in [Runs -> Ledger!Statuses] /\ claims' \in [Runs -> SUBSET Sessions]
        /\ tried' \in [Runs -> SUBSET Sessions]
    BY <1>1, <1>3 DEF Ledger!Statuses
  <2> QED BY <1>1, <2>1 DEF Inv, TypeOK, Ledger!TypeOK
<1>5. \A q \in Runs : /\ Holders(q)' = IF q = r THEN Holders(q) \cup {s} ELSE Holders(q)
                      /\ tried'[q] = IF q = r THEN tried[q] \cup {s} ELSE tried[q]
                      /\ owners'[q] = owners[q]
                      /\ claims'[q] = IF q = r THEN claims[q] \cup {s} ELSE claims[q]
  BY <1>1, <1>3 DEF Holders
<1>6. SessInv'
  <2>0. /\ conn' = conn
        /\ \A q \in Runs, t \in Sessions : t \in Holders(q)' <=> (t \in Holders(q) \/ (q = r /\ t = s))
        /\ \A q \in Runs, t \in Sessions : t \in tried'[q] <=> (t \in tried[q] \/ (q = r /\ t = s))
        /\ \A q \in Runs : Holders(q)' \subseteq Sessions /\ tried'[q] \subseteq Sessions
    <3>1. \A q \in Runs : Holders(q) \subseteq Sessions /\ tried[q] \subseteq Sessions
      BY <1>3 DEF Holders
    <3>2. conn' = conn
      BY <1>1
    <3> QED BY <1>5, <3>1, <3>2
  <2>1. \A q \in Runs : claims'[q] \cap owners'[q] = {} /\ Holders(q)' \subseteq tried'[q]
    <3>1. \A q \in Runs : /\ claims[q] \cap owners[q] = {} /\ Holders(q) \subseteq tried[q]
                          /\ s \notin owners[q]
      BY <1>2 DEF Inv, SessInv, Holders
    <3> QED BY <1>5, <3>1
  <2>2. \A q \in Runs : \A t \in Holders(q)' :
          conn'[t] = "up" /\ \A p \in Runs : t \in Holders(p)' => p = q
    <3>1. \A q \in Runs : \A t \in Holders(q) :
            conn[t] = "up" /\ t # s /\ \A p \in Runs : t \in Holders(p) => p = q
      BY <1>2 DEF Inv, SessInv
    <3> QED BY <1>2, <2>0, <3>1
  <2>3. \A q \in Runs : \A t \in tried'[q] : t \in Holders(q)' \/ conn'[t] = "gone"
    <3>1. \A q \in Runs : \A t \in tried[q] : t \in Holders(q) \/ conn[t] = "gone"
      BY DEF Inv, SessInv
    <3> QED BY <2>0, <3>1
  <2>4. /\ \A q \in Runs : token'[q] # None => Built(q, token[q])'
        /\ \A a \in artifacts' : Built(a.run, a.by)'
        /\ \A t \in Sessions : reported'[t] # 0 => \E q \in Runs : Built(q, t)'
    BY <1>1 DEF Inv, SessInv, Built
  <2> QED BY <2>1, <2>2, <2>3, <2>4 DEF SessInv, Built
<1>7. TimeInv'
  <2>1. \A q \in Runs : status'[q] = status[q] \/ (q = r /\ status'[q] = "pending")
    BY <1>1, <1>3
  <2> QED BY <1>1, <2>1 DEF Inv, TimeInv
<1>8. ArtifactInv' /\ HostInv' /\ MetricInv'
  BY <1>1 DEF Inv, ArtifactInv, HostInv, MetricInv, MetricsKeepOrder
<1>9. SoleInv'
  <2> SUFFICES ASSUME NEW q \in Runs
               PROVE  /\ IsFiniteSet(tried'[q])
                      /\ tried'[q] = {} => status'[q] \in {"absent", "pending"}
                      /\ \A t \in Sessions : tried'[q] = {t} =>
                           /\ status'[q] # "absent"
                           /\ status'[q] = "started" => Row(q, None, TRUE, FALSE)'
                           /\ status'[q] = "finished" => Row(q, "pass", TRUE, TRUE)'
                           /\ status'[q] = "error" => Row(q, "fail", TRUE, TRUE)'
                           /\ status'[q] = "invalid" => Row(q, None, TRUE, FALSE)'
                           /\ t \in claims'[q] => status'[q] = "pending"
                           /\ t \in owners'[q] /\ reported'[t] # Done => status'[q] = "started"
    BY DEF SoleInv, Row
  <2>1. CASE q = r
    <3>1. IsFiniteSet(tried'[q])
      <4>1. IsFiniteSet(tried[r]) /\ tried'[q] = tried[r] \cup {s}
        BY <1>5, <2>1 DEF Inv, SoleInv
      <4> QED BY <4>1, FS_AddElement
    <3>2. status'[q] = "pending" /\ s \in tried'[q] /\ s \notin owners'[q]
      BY <1>1, <1>2, <1>3, <1>5, <2>1 DEF Holders
    <3> QED BY <3>1, <3>2
  <2>2. CASE q # r
    BY <1>1, <1>3, <1>5, <2>2 DEF Inv, SoleInv, Row
  <2> QED BY <2>1, <2>2
<1> QED BY <1>4, <1>6, <1>7, <1>8, <1>9 DEF Inv

(* A session that a run is chosen for takes the time. *)
LEMMA TakeTimeStep ==
  ASSUME Inv, NEW r \in Runs, NEW s \in Sessions, TakeTime(r, s)
  PROVE  Inv'
<1>1. /\ now' = [now EXCEPT ![s] = clock]
      /\ UNCHANGED <<clock, status, claims, owners, started, completed, result, host, token,
                     hosts, metrics, artifacts, conn, freq, hostId, reported, tried>>
  BY DEF TakeTime, ledgerVars, rowVars, sideVars
<1>2. now \in [Sessions -> Times \cup {None}] /\ clock \in Times /\ clock \in Nat
  BY Domains DEF Inv, TypeOK
<1>3. TypeOK'
  <2>1. now' \in [Sessions -> Times \cup {None}]
    BY <1>1, <1>2
  <2> QED BY <1>1, <2>1 DEF Inv, TypeOK, Ledger!TypeOK
<1>4. TimeInv'
  BY <1>1, <1>2 DEF Inv, TimeInv
<1>5. SessInv' /\ ArtifactInv' /\ HostInv' /\ MetricInv' /\ SoleInv'
  BY <1>1 DEF Inv, SessInv, Holders, Built, ArtifactInv, HostInv, MetricInv, MetricsKeepOrder,
              SoleInv, Row
<1> QED BY <1>3, <1>4, <1>5 DEF Inv

(* A runner connects: the rows of known hosts stay as they are. *)
LEMMA ConnectStep ==
  ASSUME Inv, NEW s \in Sessions, NEW f \in FreqsOf[s], Connect(s, f)
  PROVE  Inv'
<1> DEFINE d == [machine |-> MachineOf[s], freq |-> f]
<1>1. /\ conn[s] = "new"
      /\ hosts' = IF Duplicates(d) = {} THEN Append(hosts, d) ELSE hosts
      /\ freq' = [freq EXCEPT ![s] = f]
      /\ \/ \E h \in FoundHosts(d) : /\ hostId' = [hostId EXCEPT ![s] = h]
                                      /\ conn' = [conn EXCEPT ![s] = "up"]
         \/ /\ FoundHosts(d) = {}
            /\ conn' = [conn EXCEPT ![s] = "refused"]
            /\ hostId' = hostId
      /\ UNCHANGED <<clock, status, claims, owners, started, completed, result, host, token,
                     metrics, artifacts, now, reported, tried>>
  BY DEF Connect, InsertHost, ledgerVars, rowVars
<1>2. /\ hosts \in Seq(Host) /\ d \in Host /\ f \in Freqs
      /\ freq \in [Sessions -> Freqs \cup {None}] /\ hostId \in [Sessions -> DOMAIN hosts \cup {None}]
      /\ conn \in [Sessions -> {"new", "up", "refused", "gone"}]
      /\ host \in [Runs -> DOMAIN hosts \cup {None}]
  BY DEF Inv, TypeOK, Host, Machines, Freqs
<1>3. /\ hosts' \in Seq(Host) /\ DOMAIN hosts \subseteq DOMAIN hosts'
      /\ \A h \in DOMAIN hosts : hosts'[h] = hosts[h]
      /\ Duplicates(d) = {} => \E h \in DOMAIN hosts' : hosts'[h] = d
  <2> HIDE DEF d
  <2>1. CASE Duplicates(d) = {}
    <3>1. hosts' = Append(hosts, d)
      BY <1>1, <2>1
    <3>2. hosts' \in Seq(Host) /\ Len(hosts') = Len(hosts) + 1 /\ hosts'[Len(hosts) + 1] = d
          /\ \A h \in 1..Len(hosts) : hosts'[h] = hosts[h]
      BY <1>2, <3>1
    <3>3. Len(hosts) \in Nat /\ DOMAIN hosts = 1..Len(hosts) /\ DOMAIN hosts' = 1..(Len(hosts) + 1)
      BY <1>2, <3>2
    <3> QED BY <3>2, <3>3
  <2>2. CASE Duplicates(d) # {}
    BY <1>1, <1>2, <2>2
  <2> QED BY <2>1, <2>2
<1>4. \A t \in Sessions : t # s => conn'[t] = conn[t] /\ freq'[t] = freq[t] /\ hostId'[t] = hostId[t]
  BY <1>1, <1>2
<1>5. /\ conn'[s] \in {"up", "refused"} /\ freq'[s] = f
      /\ conn'[s] = "up" => hostId'[s] \in DOMAIN hosts' /\ hosts'[hostId'[s]] = d
      /\ conn'[s] = "refused" => FoundHosts(d) = {}
  BY <1>1, <1>2 DEF FoundHosts
<1>6. TypeOK'
  <2>1. /\ freq' \in [Sessions -> Freqs \cup {None}]
        /\ conn' \in [Sessions -> {"new", "up", "refused", "gone"}]
    BY <1>1, <1>2
  <2>2. hostId' \in [Sessions -> DOMAIN hosts' \cup {None}]
    BY <1>1, <1>2, <1>3 DEF FoundHosts
  <2>3. host' \in [Runs -> DOMAIN hosts' \cup {None}]
    BY <1>1, <1>2, <1>3
  <2> QED BY <1>1, <1>3, <2>1, <2>2, <2>3 DEF Inv, TypeOK, Ledger!TypeOK
<1>7. SessInv'
  <2>1. \A t \in Sessions : conn[t] \in {"up", "gone"} => conn'[t] = conn[t]
    BY <1>1, <1>4
  <2>2. /\ \A r \in Runs : Holders(r) \subseteq Sessions /\ tried[r] \subseteq Sessions
        /\ \A r \in Runs : token[r] # None => token[r] \in Sessions
        /\ \A a \in artifacts : a.by \in Sessions
    BY DEF Inv, TypeOK, Ledger!TypeOK, Holders, Artifact
  <2> QED BY <1>1, <2>1, <2>2 DEF Inv, SessInv, Holders, Built
<1>8. TimeInv' /\ ArtifactInv' /\ MetricInv' /\ SoleInv'
  BY <1>1 DEF Inv, TimeInv, ArtifactInv, MetricInv, MetricsKeepOrder, SoleInv, Row
<1>9. HostInv'
  <2>1. ASSUME NEW t \in Sessions, conn'[t] \in LetIn
        PROVE  /\ hostId'[t] \in DOMAIN hosts'
               /\ hosts'[hostId'[t]] = [machine |-> MachineOf[t], freq |-> freq'[t]]
    <3>1. CASE t = s
      BY <1>5, <2>1, <3>1 DEF LetIn
    <3>2. CASE t # s
      <4>1. hostId[t] \in DOMAIN hosts /\ hosts[hostId[t]] = [machine |-> MachineOf[t], freq |-> freq[t]]
        BY <1>4, <2>1, <3>2 DEF Inv, HostInv
      <4> QED BY <1>3, <1>4, <3>2, <4>1
    <3> QED BY <3>1, <3>2
  <2>2. ASSUME NEW r \in Runs, host'[r] # None
        PROVE  token'[r] \in Sessions /\ conn'[token'[r]] \in LetIn /\ host'[r] = hostId'[token'[r]]
    <3>1. token[r] \in Sessions /\ conn[token[r]] \in LetIn /\ host[r] = hostId[token[r]]
      BY <1>1, <2>2 DEF Inv, HostInv
    <3>2. token[r] # s
      BY <1>1, <3>1 DEF LetIn
    <3> QED BY <1>1, <1>4, <3>1, <3>2
  <2> QED BY <2>1, <2>2 DEF HostInv
<1> QED BY <1>6, <1>7, <1>8, <1>9 DEF Inv

(* A session with a run chosen for it starts it; nothing bears its name yet. *)
LEMMA ActivateStep ==
  ASSUME Inv, NEW r \in Runs, NEW s \in Sessions, Activate(r, s)
  PROVE  Inv'
<1>1. /\ now[s] # None /\ s \in claims[r] /\ status[r] # "invalid"
      /\ status' = [status EXCEPT ![r] = "started"]
      /\ claims' = [claims EXCEPT ![r] = @ \ {s}]
      /\ owners' = [owners EXCEPT ![r] = @ \cup {s}]
      /\ started' = [started EXCEPT ![r] = now[s]]
      /\ host' = [host EXCEPT ![r] = hostId[s]]
      /\ token' = [token EXCEPT ![r] = s]
      /\ UNCHANGED <<clock, completed, result, hosts, metrics, artifacts, conn, freq, hostId, now,
                     reported, tried>>
  BY DEF Activate, Ledger!Start, sideVars, sessVars
<1>2. /\ status \in [Runs -> Ledger!Statuses] /\ claims \in [Runs -> SUBSET Sessions]
      /\ owners \in [Runs -> SUBSET Sessions] /\ tried \in [Runs -> SUBSET Sessions]
      /\ started \in [Runs -> Times \cup {None}] /\ host \in [Runs -> DOMAIN hosts \cup {None}]
      /\ token \in [Runs -> Sessions \cup {None}] /\ hostId \in [Sessions -> DOMAIN hosts \cup {None}]
  BY DEF Inv, TypeOK, Ledger!TypeOK
<1>3. s \in Holders(r) /\ s \notin owners[r] /\ s # None
  BY <1>1, NullAssumption DEF Holders, Inv, SessInv
<1>4. /\ conn[s] = "up" /\ \A q \in Runs : s \in Holders(q) => q = r
      /\ now[s] \in Times /\ now[s] <= clock
  BY <1>1, <1>3 DEF Inv, TypeOK, SessInv, TimeInv
<1>5. \A q \in Runs : ~Built(q, s)
  BY <1>3, <1>4 DEF Built, Holders
<1>6. reported[s] = 0 /\ \A a \in artifacts : a.by # s \/ a.run \notin Runs
  BY <1>5 DEF Inv, SessInv
<1>7. /\ \A q \in Runs : Holders(q)' = Holders(q)
      /\ \A q \in Runs, t \in Sessions : Built(q, t) => Built(q, t)'
  BY <1>1, <1>2 DEF Holders, Built
<1>8. TypeOK'
  <2>1. /\ status' \in [Runs -> Ledger!Statuses] /\ claims' \in [Runs -> SUBSET Sessions]
        /\ owners' \in [Runs -> SUBSET Sessions]
    BY <1>1, <1>2 DEF Ledger!Statuses
  <2>2. /\ started' \in [Runs -> Times \cup {None}] /\ host' \in [Runs -> DOMAIN hosts \cup {None}]
        /\ token' \in [Runs -> Sessions \cup {None}]
    BY <1>1, <1>2, <1>4
  <2> QED BY <1>1, <2>1, <2>2 DEF Inv, TypeOK, Ledger!TypeOK
<1>9. SessInv'
  <2>1. \A q \in Runs : claims'[q] \cap owners'[q] = {} /\ Holders(q)' \subseteq tried'[q]
    <3>1. \A q \in Runs : claims[q] \cap owners[q] = {} /\ Holders(q) \subseteq tried[q]
      BY DEF Inv, SessInv
    <3> QED BY <1>1, <1>2, <1>7, <3>1
  <2>2. /\ \A q \in Runs : \A t \in Holders(q)' :
             conn'[t] = "up" /\ \A p \in Runs : t \in Holders(p)' => p = q
        /\ \A q \in Runs : \A t \in tried'[q] : t \in Holders(q)' \/ conn'[t] = "gone"
    BY <1>1, <1>7 DEF Inv, SessInv
  <2>3. \A q \in Runs : token'[q] # None => Built(q, token[q])'
    BY <1>1, <1>2, <1>7 DEF Inv, SessInv, Built
  <2>4. \A a \in artifacts' : Built(a.run, a.by)'
    <3>1. \A a \in artifacts : a.run \in Runs /\ a.by \in Sessions /\ Built(a.run, a.by)
      BY DEF Inv, TypeOK, SessInv, Artifact
    <3> QED BY <1>1, <1>7, <3>1
  <2>5. \A t \in Sessions : reported'[t] # 0 => \E q \in Runs : Built(q, t)'
    BY <1>1, <1>7 DEF Inv, SessInv
  <2> QED BY <2>1, <2>2, <2>3, <2>4, <2>5 DEF SessInv
<1>10. TimeInv'
  <2>1. \A q \in Runs : /\ status'[q] = IF q = r THEN "started" ELSE status[q]
                        /\ started'[q] = IF q = r THEN now[s] ELSE started[q]
                        /\ owners'[q] = IF q = r THEN owners[q] \cup {s} ELSE owners[q]
    BY <1>1, <1>2
  <2>2. now[s] \in Nat /\ now[s] # None
    BY <1>1, <1>4, Domains
  <2>3. \A q \in Runs : started'[q] # None => started'[q] <= clock'
    BY <1>1, <1>4, <2>1 DEF Inv, TimeInv
  <2>4. \A q \in Runs : owners'[q] # {} => started'[q] # None
    BY <2>1, <2>2 DEF Inv, TimeInv
  <2>5. \A q \in Runs : status'[q] \in {"absent", "pending", "finished", "error"} =>
          status'[q] = status[q] /\ started'[q] = started[q]
    BY <2>1
  <2>6. UNCHANGED <<clock, completed, result, now>>
    BY <1>1
  <2> QED BY <2>3, <2>4, <2>5, <2>6 DEF Inv, TimeInv
<1>11. ArtifactInv'
  <2>1. now[s] # None
    BY <1>4, Domains
  <2>2. \A q \in Runs : token'[q] # None => started'[q] # None
    BY <1>1, <1>2, <2>1 DEF Inv, ArtifactInv
  <2>3. ASSUME NEW a \in artifacts, token'[a.run] = a.by PROVE started'[a.run] <= a.at
    <3>1. a.run \in Runs
      BY DEF Inv, TypeOK, Artifact
    <3>2. a.run # r
      BY <1>1, <1>2, <1>6, <2>3, <3>1
    <3> QED BY <1>1, <1>2, <2>3, <3>1, <3>2 DEF Inv, ArtifactInv
  <2> QED BY <1>1, <2>2, <2>3 DEF ArtifactInv
<1>12. HostInv'
  BY <1>1, <1>2, <1>4 DEF Inv, HostInv, LetIn
<1>13. MetricInv'
  <2>1. \A q \in Runs : \A t \in owners'[q] : reported'[t] = Done \/ reported'[t] <= Len(metrics'[q])
    <3>1. \A q \in Runs : 0 <= Len(metrics[q])
      BY DEF Inv, TypeOK
    <3> QED BY <1>1, <1>2, <1>6, <3>1 DEF Inv, MetricInv
  <2> QED BY <1>1, <2>1 DEF Inv, MetricInv, MetricsKeepOrder
<1>14. SoleInv'
  <2> SUFFICES ASSUME NEW q \in Runs
               PROVE  /\ IsFiniteSet(tried'[q])
                      /\ tried'[q] = {} => status'[q] \in {"absent", "pending"}
                      /\ \A t \in Sessions : tried'[q] = {t} =>
                           /\ status'[q] # "absent"
                           /\ status'[q] = "started" => Row(q, None, TRUE, FALSE)'
                           /\ status'[q] = "finished" => Row(q, "pass", TRUE, TRUE)'
                           /\ status'[q] = "error" => Row(q, "fail", TRUE, TRUE)'
                           /\ status'[q] = "invalid" => Row(q, None, TRUE, FALSE)'
                           /\ t \in claims'[q] => status'[q] = "pending"
                           /\ t \in owners'[q] /\ reported'[t] # Done => status'[q] = "started"
    BY DEF SoleInv, Row
  <2>1. CASE q = r
    <3>1. s \in tried[r] /\ now[s] # None /\ status'[q] = "started"
      BY <1>1, <1>2, <1>3, <1>4, <2>1, Domains DEF Inv, SessInv
    <3>2. ASSUME NEW t \in Sessions, tried[r] = {t}
          PROVE  /\ t = s /\ result[r] = None /\ completed[r] = None
                 /\ t \notin claims'[r]
      <4>1. t = s
        BY <3>1, <3>2
      <4>2. status[r] = "pending"
        BY <1>1, <3>2, <4>1 DEF Inv, SoleInv
      <4> QED BY <1>1, <1>2, <4>1, <4>2 DEF Inv, TimeInv
    <3>3. started'[r] # None
      BY <1>1, <1>2, <3>1
    <3>4. IsFiniteSet(tried'[q]) /\ tried'[q] # {}
      BY <1>1, <2>1, <3>1 DEF Inv, SoleInv
    <3> QED BY <1>1, <2>1, <3>1, <3>2, <3>3, <3>4 DEF Row
  <2>2. CASE q # r
    BY <1>1, <1>2, <2>2 DEF Inv, SoleInv, Row
  <2> QED BY <2>1, <2>2
<1> QED BY <1>8, <1>9, <1>10, <1>11, <1>12, <1>13, <1>14 DEF Inv

(* An owner settles its run, at the latest moment there is. *)
LEMMA CompleteRunStep ==
  ASSUME Inv, NEW r \in Runs, NEW s \in Sessions, CompleteRun(r, s)
  PROVE  Inv'
<1>1. PICK v \in Verdicts :
        /\ s \in owners[r] /\ reported[s] # Done
        /\ status' = [status EXCEPT ![r] = IF v = "pass" THEN "finished" ELSE "error"]
        /\ reported' = [reported EXCEPT ![s] = Done]
        /\ result' = [result EXCEPT ![r] = v]
        /\ completed' = [completed EXCEPT ![r] = clock]
        /\ UNCHANGED <<clock, claims, owners, started, host, token, hosts, metrics, artifacts,
                       conn, freq, hostId, now, tried>>
  <2>1. status \in [Runs -> Ledger!Statuses]
    BY DEF Inv, TypeOK, Ledger!TypeOK
  <2> QED BY <2>1 DEF CompleteRun, Settle, Ledger!Finish, sideVars
<1>2. /\ status \in [Runs -> Ledger!Statuses] /\ reported \in [Sessions -> 0..Done]
      /\ result \in [Runs -> Verdicts \cup {None}] /\ completed \in [Runs -> Times \cup {None}]
      /\ started \in [Runs -> Times \cup {None}] /\ Done \in Nat \ {0}
      /\ clock \in Times /\ clock \in Nat /\ clock # None
  BY Domains DEF Inv, TypeOK, Ledger!TypeOK
<1>3. s \in Holders(r) /\ s \notin claims[r] /\ s \in tried[r]
  BY <1>1 DEF Holders, Inv, SessInv
<1>4. TypeOK'
  <2>1. status' \in [Runs -> Ledger!Statuses] /\ reported' \in [Sessions -> 0..Done]
    BY <1>1, <1>2 DEF Ledger!Statuses
  <2>2. result' \in [Runs -> Verdicts \cup {None}] /\ completed' \in [Runs -> Times \cup {None}]
    BY <1>1, <1>2
  <2> QED BY <1>1, <2>1, <2>2 DEF Inv, TypeOK, Ledger!TypeOK
<1>5. SessInv'
  <2>1. \A q \in Runs, t \in Sessions : Built(q, t) <=> Built(q, t)'
    BY <1>1 DEF Built
  <2>2. \A t \in Sessions : reported'[t] # 0 => \E q \in Runs : Built(q, t)'
    <3>1. Built(r, s)
      BY <1>1 DEF Built
    <3> QED BY <1>1, <1>2, <2>1, <3>1 DEF Inv, SessInv
  <2> QED BY <1>1, <2>2 DEF Inv, SessInv, Holders, Built
<1>6. TimeInv'
  <2>1. \A q \in Runs : completed'[q] = IF q = r THEN clock ELSE completed[q]
    BY <1>1, <1>2
  <2>2. status'[r] \notin {"absent", "pending"}
        /\ \A q \in Runs : q # r => status'[q] = status[q] /\ result'[q] = result[q]
    BY <1>1, <1>2
  <2>3. started[r] \in Times /\ started[r] <= clock
    BY <1>1, <1>2 DEF Inv, TimeInv
  <2>4. \A q \in Runs : completed'[q] # None => completed'[q] <= clock'
    BY <1>1, <1>2, <2>1 DEF Inv, TimeInv
  <2>5. \A q \in Runs : status'[q] \in {"absent", "pending"} =>
          started'[q] = None /\ completed'[q] = None /\ result'[q] = None
    BY <1>1, <2>1, <2>2 DEF Inv, TimeInv
  <2>6. \A q \in Runs : status'[q] \in {"finished", "error"} =>
          started'[q] # None /\ completed'[q] # None /\ started'[q] <= completed'[q]
    BY <1>1, <1>2, <2>1, <2>2, <2>3, Domains DEF Inv, TimeInv
  <2> QED BY <1>1, <2>4, <2>5, <2>6 DEF Inv, TimeInv
<1>7. ArtifactInv' /\ HostInv'
  BY <1>1 DEF Inv, ArtifactInv, HostInv
<1>8. MetricInv'
  BY <1>1, <1>2 DEF Inv, MetricInv, MetricsKeepOrder
<1>9. SoleInv'
  <2> SUFFICES ASSUME NEW q \in Runs
               PROVE  /\ IsFiniteSet(tried'[q])
                      /\ tried'[q] = {} => status'[q] \in {"absent", "pending"}
                      /\ \A t \in Sessions : tried'[q] = {t} =>
                           /\ status'[q] # "absent"
                           /\ status'[q] = "started" => Row(q, None, TRUE, FALSE)'
                           /\ status'[q] = "finished" => Row(q, "pass", TRUE, TRUE)'
                           /\ status'[q] = "error" => Row(q, "fail", TRUE, TRUE)'
                           /\ status'[q] = "invalid" => Row(q, None, TRUE, FALSE)'
                           /\ t \in claims'[q] => status'[q] = "pending"
                           /\ t \in owners'[q] /\ reported'[t] # Done => status'[q] = "started"
    BY DEF SoleInv, Row
  <2>1. CASE q = r
    <3>1. ASSUME NEW t \in Sessions, tried[r] = {t} PROVE t = s /\ started[r] # None
      <4>1. t = s
        BY <1>3, <3>1
      <4>2. status[r] = "started"
        BY <1>1, <3>1, <4>1 DEF Inv, SoleInv
      <4> QED BY <3>1, <4>1, <4>2 DEF Inv, SoleInv, Row
    <3>2. IsFiniteSet(tried'[q]) /\ tried'[q] # {}
      BY <1>1, <1>3, <2>1 DEF Inv, SoleInv
    <3>3. /\ status'[r] = IF v = "pass" THEN "finished" ELSE "error"
          /\ result'[r] = v /\ completed'[r] # None /\ v \in {"pass", "fail"}
          /\ reported'[s] = Done
      BY <1>1, <1>2 DEF Verdicts
    <3> QED BY <1>1, <1>3, <2>1, <3>1, <3>2, <3>3 DEF Row
  <2>2. CASE q # r
    <3>1. status'[q] = status[q] /\ result'[q] = result[q] /\ completed'[q] = completed[q]
      BY <1>1, <1>2, <2>2
    <3>2. \A t \in Sessions : reported'[t] # Done => reported'[t] = reported[t]
      BY <1>1, <1>2
    <3> QED BY <1>1, <3>1, <3>2 DEF Inv, SoleInv, Row
  <2> QED BY <2>1, <2>2
<1> QED BY <1>4, <1>5, <1>6, <1>7, <1>8, <1>9 DEF Inv

(* Sessions end: one of them, or all of them with the driver. *)
LEMMA EndStep ==
  ASSUME Inv, NEW E \in SUBSET Sessions,
         claims' = [q \in Runs |-> claims[q] \ E],
         owners' = [q \in Runs |-> owners[q] \ E],
         conn' = [t \in Sessions |-> IF t \in E /\ conn[t] = "up" THEN "gone" ELSE conn[t]],
         UNCHANGED <<clock, status, started, completed, result, host, token, hosts, metrics,
                     artifacts, freq, hostId, now, reported, tried>>
  PROVE  Inv'
<1>1. /\ claims \in [Runs -> SUBSET Sessions] /\ owners \in [Runs -> SUBSET Sessions]
      /\ conn \in [Sessions -> {"new", "up", "refused", "gone"}]
      /\ tried \in [Runs -> SUBSET Sessions] /\ token \in [Runs -> Sessions \cup {None}]
      /\ \A a \in artifacts : a.run \in Runs /\ a.by \in Sessions
  BY DEF Inv, TypeOK, Ledger!TypeOK, Artifact
<1>2. \A q \in Runs, t \in Sessions :
        /\ t \in Holders(q)' <=> (t \in Holders(q) /\ t \notin E)
        /\ t \in owners'[q] <=> (t \in owners[q] /\ t \notin E)
        /\ t \in claims'[q] <=> (t \in claims[q] /\ t \notin E)
  BY <1>1 DEF Holders
<1>3. \A q \in Runs : Holders(q) \subseteq Sessions /\ Holders(q)' \subseteq Sessions
  BY <1>1 DEF Holders
<1>4. /\ \A t \in Sessions : t \notin E => conn'[t] = conn[t]
      /\ \A t \in Sessions : t \in E /\ conn[t] = "up" => conn'[t] = "gone"
      /\ \A t \in Sessions : conn[t] # "up" => conn'[t] = conn[t]
  OBVIOUS
<1>5. \A q \in Runs : \A t \in Holders(q) : t \notin E \/ conn'[t] = "gone"
  BY <1>3, <1>4 DEF Inv, SessInv
<1>6. \A q \in Runs, t \in Sessions : Built(q, t) => Built(q, t)'
  <2> SUFFICES ASSUME NEW q \in Runs, NEW t \in Sessions, Built(q, t)
               PROVE  t \in owners'[q] \/ conn'[t] = "gone"
    BY DEF Built
  <2>1. CASE conn[t] = "gone"
    BY <1>4, <2>1
  <2>2. CASE t \in owners[q]
    <3>1. t \in Holders(q)
      BY <2>2 DEF Holders
    <3>2. t \notin E \/ conn'[t] = "gone"
      BY <1>5, <3>1
    <3> QED BY <1>2, <2>2, <3>2
  <2> QED BY <2>1, <2>2 DEF Built
<1>7. TypeOK'
  <2>1. /\ claims' \in [Runs -> SUBSET Sessions] /\ owners' \in [Runs -> SUBSET Sessions]
        /\ conn' \in [Sessions -> {"new", "up", "refused", "gone"}]
    BY <1>1
  <2> QED BY <2>1 DEF Inv, TypeOK, Ledger!TypeOK
<1>8. SessInv'
  <2>1. \A q \in Runs : claims'[q] \cap owners'[q] = {} /\ Holders(q)' \subseteq tried'[q]
    <3>1. \A q \in Runs : claims[q] \cap owners[q] = {} /\ Holders(q) \subseteq tried[q]
      BY DEF Inv, SessInv
    <3>2. \A q \in Runs : claims'[q] \cap owners'[q] = {}
      BY <3>1
    <3> QED BY <1>2, <1>3, <3>1, <3>2
  <2>2. \A q \in Runs : \A t \in Holders(q)' :
          conn'[t] = "up" /\ \A p \in Runs : t \in Holders(p)' => p = q
    <3>1. \A q \in Runs : \A t \in Holders(q) :
            conn[t] = "up" /\ \A p \in Runs : t \in Holders(p) => p = q
      BY DEF Inv, SessInv
    <3> QED BY <1>2, <1>3, <1>4, <3>1
  <2>3. \A q \in Runs : \A t \in tried'[q] : t \in Holders(q)' \/ conn'[t] = "gone"
    <3>1. \A q \in Runs : \A t \in tried[q] : t \in Holders(q) \/ conn[t] = "gone"
      BY DEF Inv, SessInv
    <3> QED BY <1>1, <1>2, <1>4, <1>5, <3>1
  <2>4. \A q \in Runs : token'[q] # None => Built(q, token[q])'
    BY <1>1, <1>6 DEF Inv, SessInv, Built
  <2>5. \A a \in artifacts' : Built(a.run, a.by)'
    BY <1>1, <1>6 DEF Inv, SessInv
  <2>6. \A t \in Sessions : reported'[t] # 0 => \E q \in Runs : Built(q, t)'
    BY <1>6 DEF Inv, SessInv
  <2> QED BY <2>1, <2>2, <2>3, <2>4, <2>5, <2>6 DEF SessInv
<1>9. TimeInv'
  <2>1. \A q \in Runs : owners'[q] # {} => owners[q] # {}
    BY <1>1, <1>2
  <2> QED BY <2>1 DEF Inv, TimeInv
<1>10. ArtifactInv'
  BY DEF Inv, ArtifactInv
<1>11. HostInv'
  <2>1. \A t \in Sessions : conn'[t] \in LetIn <=> conn[t] \in LetIn
    BY <1>1 DEF LetIn
  <2> QED BY <1>1, <2>1 DEF Inv, HostInv
<1>12. MetricInv'
  BY <1>1 DEF Inv, MetricInv, MetricsKeepOrder
<1>13. SoleInv'
  BY <1>1, <1>2 DEF Inv, SoleInv, Row
<1> QED BY <1>7, <1>8, <1>9, <1>10, <1>11, <1>12, <1>13 DEF Inv

(* A session ends with its connection. *)
LEMMA LeaveStep == ASSUME Inv, NEW s \in Sessions, Leave(s) PROVE Inv'
<1>1. conn \in [Sessions -> {"new", "up", "refused", "gone"}]
  BY DEF Inv, TypeOK
<1>2. /\ claims' = [q \in Runs |-> claims[q] \ {s}] /\ owners' = [q \in Runs |-> owners[q] \ {s}]
      /\ UNCHANGED <<clock, status, started, completed, result, host, token, hosts, metrics,
                     artifacts, freq, hostId, now, reported, tried>>
  BY DEF Leave, Ledger!Leave, Ledger!Without, rowVars, sideVars
<1>3. conn' = [t \in Sessions |-> IF t \in {s} /\ conn[t] = "up" THEN "gone" ELSE conn[t]]
  BY <1>1 DEF Leave
<1> QED BY <1>2, <1>3, EndStep

(* Every session ends with the driver. *)
LEMMA RestartStep == ASSUME Inv, DriverRestart PROVE Inv'
<1>1. claims \in [Runs -> SUBSET Sessions] /\ owners \in [Runs -> SUBSET Sessions]
  BY DEF Inv, TypeOK, Ledger!TypeOK
<1>2. /\ claims' = [q \in Runs |-> claims[q] \ Sessions]
      /\ owners' = [q \in Runs |-> owners[q] \ Sessions]
  BY <1>1 DEF DriverRestart, Ledger!Crash
<1>3. conn' = [t \in Sessions |-> IF t \in Sessions /\ conn[t] = "up" THEN "gone" ELSE conn[t]]
  BY DEF DriverRestart
<1>4. UNCHANGED <<clock, status, started, completed, result, host, token, hosts, metrics,
                  artifacts, freq, hostId, now, reported, tried>>
  BY DEF DriverRestart, Ledger!Crash, rowVars, sideVars
<1> QED BY <1>2, <1>3, <1>4, EndStep

(* The rows of a run's metrics grow along the goodfile: a session reports a *)
(* metric that has a row, or the next one.                                  *)
LEMMA ReportMetricStep ==
  ASSUME Inv, NEW r \in Runs, NEW s \in Sessions, ReportMetric(r, s)
  PROVE  Inv'
<1> DEFINE k == reported[s] + 1
           n == Len(metrics[r])
           Names == {Metrics[i] : i \in DOMAIN Metrics}
<1>1. /\ s \in owners[r] /\ reported[s] < Len(Metrics)
      /\ reported' = [reported EXCEPT ![s] = k]
      /\ metrics' = [metrics EXCEPT ![r] = IF \E i \in DOMAIN @ : @[i] = Metrics[k]
                                           THEN @ ELSE Append(@, Metrics[k])]
      /\ UNCHANGED <<clock, status, claims, owners, started, completed, result, host, token,
                     hosts, artifacts, conn, freq, hostId, now, tried>>
  BY DEF ReportMetric, InsertMetric, ledgerVars, rowVars
<1>2. /\ reported \in [Sessions -> 0..Done] /\ metrics \in [Runs -> Seq(Names)]
      /\ Metrics \in Seq(Names) /\ Len(Metrics) \in Nat /\ Done = Len(Metrics) + 1
      /\ n \in Nat /\ n <= Len(Metrics)
  <2>1. Metrics \in Seq(Names) /\ Len(Metrics) \in Nat
    BY MetricsAssumption
  <2>2. /\ reported \in [Sessions -> 0..Done] /\ metrics \in [Runs -> Seq(Names)]
        /\ n <= Len(Metrics)
    BY DEF Inv, TypeOK
  <2>3. n \in Nat
    BY <2>2
  <2> QED BY <2>1, <2>2, <2>3 DEF Done
<1>3. /\ k \in 1..Len(Metrics) /\ k \in 0..Done /\ k # 0 /\ reported[s] # Done
      /\ Metrics[k] \in Names
  BY <1>1, <1>2
<1>4. k <= n + 1
  <2>1. reported[s] = Done \/ reported[s] <= n
    BY <1>1 DEF Inv, MetricInv
  <2>2. reported[s] \in 0..Done /\ Done \in Nat
    BY <1>2
  <2> QED BY <1>2, <1>3, <2>1, <2>2
<1>5. \A i \in 1..n : metrics[r][i] = Metrics[i]
  <2>1. metrics[r] = SubSeq(Metrics, 1, n)
    BY DEF Inv, MetricInv, MetricsKeepOrder
  <2> QED BY <1>2, <2>1
<1>6. metrics[r] \in Seq(Names) /\ DOMAIN metrics[r] = 1..n
  BY <1>2
<1>7. /\ metrics'[r] \in Seq(Names) /\ Len(metrics'[r]) <= Len(Metrics)
      /\ n <= Len(metrics'[r]) /\ k <= Len(metrics'[r])
      /\ metrics'[r] = SubSeq(Metrics, 1, Len(metrics'[r]))
  <2>1. CASE k <= n
    <3>1. \E i \in DOMAIN metrics[r] : metrics[r][i] = Metrics[k]
      BY <1>3, <1>5, <1>6, <2>1
    <3>2. metrics'[r] = metrics[r]
      BY <1>1, <1>2, <3>1
    <3> QED BY <1>2, <1>6, <2>1, <3>2 DEF Inv, MetricInv, MetricsKeepOrder
  <2>2. CASE k = n + 1
    <3>1. ~ \E i \in DOMAIN metrics[r] : metrics[r][i] = Metrics[k]
      <4>1. \A i \in 1..n : Metrics[i] # Metrics[k]
        BY <1>2, <1>3, <2>2, MetricsAssumption
      <4> QED BY <1>5, <1>6, <4>1
    <3>2. metrics'[r] = Append(metrics[r], Metrics[k])
      BY <1>1, <1>2, <3>1
    <3>3. Append(metrics[r], Metrics[k]) = SubSeq(Metrics, 1, n + 1)
      <4>1. metrics[r] = SubSeq(Metrics, 1, n)
        BY DEF Inv, MetricInv, MetricsKeepOrder
      <4>2. n + 1 <= Len(Metrics)
        BY <1>3, <2>2
      <4>3. /\ Append(metrics[r], Metrics[k]) \in Seq(Names)
            /\ Len(Append(metrics[r], Metrics[k])) = n + 1
        BY <1>3, <1>6
      <4>4. /\ SubSeq(Metrics, 1, n + 1) \in Seq(Names)
            /\ Len(SubSeq(Metrics, 1, n + 1)) = n + 1
        BY <1>2, <4>2
      <4>5. \A i \in 1..(n + 1) : Append(metrics[r], Metrics[k])[i] = SubSeq(Metrics, 1, n + 1)[i]
        BY <1>2, <1>3, <1>5, <1>6, <2>2, <4>2
      <4> QED BY <4>3, <4>4, <4>5, SeqEqual
    <3>4. Append(metrics[r], Metrics[k]) \in Seq(Names)
          /\ Len(Append(metrics[r], Metrics[k])) = n + 1
      BY <1>3, <1>6
    <3> QED BY <1>2, <1>3, <2>2, <3>2, <3>3, <3>4
  <2> QED BY <1>2, <1>3, <1>4, <2>1, <2>2
<1>8. \A q \in Runs : q # r => metrics'[q] = metrics[q]
  BY <1>1, <1>2
<1>9. TypeOK'
  <2>1. reported' \in [Sessions -> 0..Done]
    BY <1>1, <1>2, <1>3
  <2>2. metrics' \in [Runs -> Seq(Names)] /\ \A q \in Runs : Len(metrics'[q]) <= Len(Metrics)
    <3>1. metrics' = [metrics EXCEPT ![r] = metrics'[r]]
      BY <1>1, <1>2
    <3>2. metrics' \in [Runs -> Seq(Names)]
      BY <1>2, <1>7, <3>1
    <3>3. \A q \in Runs : Len(metrics[q]) <= Len(Metrics)
      BY DEF Inv, TypeOK
    <3> QED BY <1>7, <1>8, <3>2, <3>3
  <2> QED BY <1>1, <2>1, <2>2 DEF Inv, TypeOK, Ledger!TypeOK
<1>10. SessInv'
  <2>1. \A t \in Sessions : reported'[t] # 0 => \E q \in Runs : Built(q, t)'
    <3>1. Built(r, s)'
      BY <1>1 DEF Built
    <3>2. \A t \in Sessions : t # s => reported'[t] = reported[t]
      BY <1>1, <1>2
    <3> QED BY <1>1, <3>1, <3>2 DEF Inv, SessInv, Built
  <2> QED BY <1>1, <2>1 DEF Inv, SessInv, Holders, Built
<1>11. TimeInv' /\ ArtifactInv' /\ HostInv'
  BY <1>1 DEF Inv, TimeInv, ArtifactInv, HostInv
<1>12. MetricInv'
  <2>1. MetricsKeepOrder'
    <3>1. \A q \in Runs : metrics[q] = SubSeq(Metrics, 1, Len(metrics[q]))
      BY DEF Inv, MetricInv, MetricsKeepOrder
    <3> QED BY <1>7, <1>8, <3>1 DEF MetricsKeepOrder
  <2>2. ASSUME NEW q \in Runs, NEW t \in owners'[q]
        PROVE  reported'[t] = Done \/ reported'[t] <= Len(metrics'[q])
    <3>1. t \in owners[q] /\ t \in Sessions
      BY <1>1 DEF Inv, TypeOK, Ledger!TypeOK
    <3>2. CASE t = s
      <4>1. q = r
        BY <1>1, <3>1, <3>2 DEF Inv, SessInv, Holders
      <4> QED BY <1>1, <1>2, <1>7, <3>2, <4>1
    <3>3. CASE t # s
      <4>1. reported[t] = Done \/ reported[t] <= Len(metrics[q])
        BY <3>1 DEF Inv, MetricInv
      <4>2. reported'[t] = reported[t] /\ reported[t] \in Nat
        BY <1>1, <1>2, <3>1, <3>3
      <4>3. Len(metrics[q]) \in Nat /\ Len(metrics'[q]) \in Nat /\ Len(metrics[q]) <= Len(metrics'[q])
        <5>1. CASE q = r
          BY <1>2, <1>7, <5>1
        <5>2. CASE q # r
          <6>1. Len(metrics[q]) \in Nat
            BY <1>2
          <6> QED BY <1>8, <5>2, <6>1
        <5> QED BY <5>1, <5>2
      <4> QED BY <4>1, <4>2, <4>3
    <3> QED BY <3>2, <3>3
  <2> QED BY <2>1, <2>2 DEF MetricInv
<1>13. SoleInv'
  <2>1. \A t \in Sessions : reported'[t] # Done => reported[t] # Done
    BY <1>1, <1>2, <1>3
  <2> QED BY <1>1, <2>1 DEF Inv, SoleInv, Row
<1> QED BY <1>9, <1>10, <1>11, <1>12, <1>13 DEF Inv

(* An artifact is posted with a run's token, at or after the run's start. *)
LEMMA ReserveArtifactStep ==
  ASSUME Inv, NEW r \in Runs, NEW s \in Sessions, ReserveArtifact(r, s)
  PROVE  Inv'
<1> PICK k \in Kinds :
      artifacts' = artifacts \cup {[run |-> r, by |-> s, kind |-> k, at |-> clock]}
  BY DEF ReserveArtifact
<1> DEFINE a == [run |-> r, by |-> s, kind |-> k, at |-> clock]
<1>1. /\ token[r] = s /\ artifacts' = artifacts \cup {a}
      /\ UNCHANGED <<clock, status, claims, owners, started, completed, result, host, token,
                     hosts, metrics, conn, freq, hostId, now, reported, tried>>
  BY DEF ReserveArtifact, ledgerVars, rowVars, sessVars
<1>2. s # None /\ a \in Artifact
  BY NullAssumption DEF Inv, TypeOK, Artifact
<1>3. Built(r, s) /\ started[r] # None /\ started[r] <= clock
  BY <1>1, <1>2 DEF Inv, SessInv, ArtifactInv, TimeInv
<1>4. TypeOK'
  BY <1>1, <1>2 DEF Inv, TypeOK, Ledger!TypeOK
<1>5. SessInv'
  <2>1. \A b \in artifacts' : Built(b.run, b.by)'
    BY <1>1, <1>3 DEF Inv, SessInv, Built
  <2> QED BY <1>1, <2>1 DEF Inv, SessInv, Holders, Built
<1>6. TimeInv' /\ HostInv' /\ MetricInv' /\ SoleInv'
  BY <1>1 DEF Inv, TimeInv, HostInv, MetricInv, MetricsKeepOrder, SoleInv, Row
<1>7. ArtifactInv'
  BY <1>1, <1>3 DEF Inv, ArtifactInv
<1> QED BY <1>4, <1>5, <1>6, <1>7 DEF Inv

(* No step of the pages' rows leaves Inv. *)
LEMMA InvNext == Inv /\ [Next]_vars => Inv'
<1> SUFFICES ASSUME Inv, [Next]_vars PROVE Inv'
  OBVIOUS
<1>1. CASE Tick
  BY <1>1, TickStep
<1>2. CASE \E r \in Runs : NewRun(r) \/ ReapTask(r)
  BY <1>2, StatusStep
<1>3. ASSUME NEW s \in Sessions, Leave(s) PROVE Inv'
  BY <1>3, LeaveStep
<1>4. ASSUME NEW s \in Sessions, NEW f \in FreqsOf[s], Connect(s, f) PROVE Inv'
  BY <1>4, ConnectStep
<1>5. ASSUME NEW r \in Runs, NEW s \in Sessions, SessionStep(r, s) PROVE Inv'
  <2>1. CASE Offer(r, s) \/ OfferAlternate(r, s)
    BY <2>1, OfferStep
  <2>2. CASE Activate(r, s)
    BY <2>2, ActivateStep
  <2>6. CASE TakeTime(r, s)
    BY <2>6, TakeTimeStep
  <2>3. CASE CompleteRun(r, s)
    BY <2>3, CompleteRunStep
  <2>4. CASE ReportMetric(r, s)
    BY <2>4, ReportMetricStep
  <2>5. CASE ReserveArtifact(r, s)
    BY <2>5, ReserveArtifactStep
  <2> QED BY <1>5, <2>1, <2>2, <2>3, <2>4, <2>5, <2>6 DEF SessionStep
<1>6. CASE DriverRestart
  BY <1>6, RestartStep
<1>7. CASE UNCHANGED vars
  <2>1. UNCHANGED <<clock, status, claims, owners, started, completed, result, host, token,
                    hosts, metrics, artifacts, conn, freq, hostId, now, reported, tried>>
    BY <1>7 DEF vars, ledgerVars, rowVars, sideVars, sessVars
  <2>2. TypeOK' /\ SessInv'
    BY <2>1 DEF Inv, TypeOK, Ledger!TypeOK, SessInv, Holders, Built
  <2>3. TimeInv' /\ ArtifactInv' /\ HostInv' /\ MetricInv' /\ SoleInv'
    BY <2>1 DEF Inv, TimeInv, ArtifactInv, HostInv, MetricInv, MetricsKeepOrder, SoleInv, Row
  <2> QED BY <2>2, <2>3 DEF Inv
<1> QED BY <1>1, <1>2, <1>3, <1>4, <1>5, <1>6, <1>7 DEF Next

(* Inv holds of every state the rows are in. *)
THEOREM Invariance == Spec => []Inv
<1>1. Init => Inv
  BY InvInit
<1>2. Inv /\ [Next]_vars => Inv'
  BY InvNext
<1> QED BY <1>1, <1>2, PTL DEF Spec

------------------------------------------------------------------------------
(* What the pages make of it *)

(* Between two times of the clock the u64 subtraction is a difference. *)
LEMMA ElapsedIsDifference ==
  ASSUME NEW from \in Times, NEW to \in Times, from <= to, NEW end \in Times, to <= end
  PROVE  Elapsed(from, to) \in Nat /\ Elapsed(from, to) <= Moments[end]
<1>1. \A t \in Times : t \in Nat /\ Moments[t] \in Nat /\ Moments[t] < Wrap \div 2
  BY ClockAssumption DEF Times
<1>2. \A i, j \in Times : i <= j => Moments[i] <= Moments[j]
  <2> SUFFICES ASSUME NEW i \in Times, NEW j \in Times, i <= j PROVE Moments[i] <= Moments[j]
    OBVIOUS
  <2>1. i \in Nat /\ j \in Nat /\ Moments[i] \in Nat /\ Moments[j] \in Nat
    BY <1>1
  <2>2. i < j => Moments[i] < Moments[j]
    BY ClockAssumption
  <2> QED BY <2>1, <2>2
<1>3. Wrap \in Nat /\ Wrap \div 2 \in Nat /\ Wrap \div 2 <= Wrap
  BY ClockAssumption
<1> DEFINE diff == Moments[to] - Moments[from]
<1>4. /\ diff \in Nat /\ diff < Wrap /\ diff <= Moments[end]
  BY <1>1, <1>2, <1>3
<1>5. diff % Wrap = diff
  <2> HIDE DEF diff
  <2> QED BY <1>3, <1>4
<1> QED BY <1>4, <1>5 DEF Elapsed

(* The time column reads one of five ways. *)
LEMMA DisplayCases ==
  ASSUME Inv, NEW r \in Runs
  PROVE  LET d == DisplayRunTime(r) IN
         \/ started[r] = None /\ d.says = "not yet run" /\ d.ms = None
         \/ /\ started[r] # None /\ completed[r] # None /\ started[r] <= completed[r]
            /\ d.says = "took" /\ d.ms \in Nat /\ d.ms <= Moments[clock]
         \/ /\ started[r] # None /\ completed[r] # None /\ ~(started[r] <= completed[r])
            /\ status[r] # "started" /\ d.says = "invalid data" /\ d.ms = None
         \/ /\ started[r] # None /\ completed[r] = None /\ status[r] = "invalid"
            /\ d.says = "n/a" /\ d.ms = None
         \/ /\ started[r] # None
            /\ (completed[r] # None /\ status[r] = "started") \/ (completed[r] = None /\ status[r] # "invalid")
            /\ d.says = "ongoing" /\ d.ms \in Nat /\ d.ms <= Moments[clock]
<1> DEFINE d == DisplayRunTime(r)
<1>1. /\ started[r] \in Times \cup {None} /\ completed[r] \in Times \cup {None} /\ clock \in Times
      /\ \A t \in Times : t \in Nat
  BY Domains DEF Inv, TypeOK
<1>2. CASE started[r] = None
  <2>1. d = Says("not yet run")
    BY <1>2 DEF DisplayRunTime
  <2> HIDE DEF d
  <2>2. d.says = "not yet run" /\ d.ms = None
    BY <2>1 DEF Says
  <2> QED BY <1>2, <2>2 DEF d
<1>3. CASE started[r] # None /\ d = Took(r) /\ completed[r] # None /\ started[r] <= completed[r]
  <2>1. completed[r] <= clock
    BY <1>3 DEF Inv, TimeInv
  <2>2. /\ Elapsed(started[r], completed[r]) \in Nat
        /\ Elapsed(started[r], completed[r]) <= Moments[clock]
    BY <1>1, <1>3, <2>1, ElapsedIsDifference
  <2>3. d.says = "took" /\ d.ms = Elapsed(started[r], completed[r])
    BY <1>3 DEF Took
  <2> HIDE DEF d
  <2> QED BY <1>3, <2>2, <2>3 DEF d
<1>4. CASE started[r] # None /\ d = Ongoing(r)
           /\ ((completed[r] # None /\ status[r] = "started")
                \/ (completed[r] = None /\ status[r] # "invalid"))
  <2>1. started[r] <= clock
    BY <1>4 DEF Inv, TimeInv
  <2>2. Elapsed(started[r], clock) \in Nat /\ Elapsed(started[r], clock) <= Moments[clock]
    BY <1>1, <1>4, <2>1, ElapsedIsDifference
  <2>3. d.says = "ongoing" /\ d.ms = Elapsed(started[r], clock)
    BY <1>4 DEF Ongoing
  <2> HIDE DEF d
  <2> QED BY <1>4, <2>2, <2>3 DEF d
<1>5. CASE started[r] # None /\ d = Says("invalid data") /\ completed[r] # None
           /\ ~(started[r] <= completed[r]) /\ status[r] # "started"
  <2> HIDE DEF d
  <2>1. d.says = "invalid data" /\ d.ms = None
    BY <1>5 DEF Says
  <2> QED BY <1>5, <2>1 DEF d
<1>6. CASE started[r] # None /\ d = Says("n/a") /\ completed[r] = None /\ status[r] = "invalid"
  <2> HIDE DEF d
  <2>1. d.says = "n/a" /\ d.ms = None
    BY <1>6 DEF Says
  <2> QED BY <1>6, <2>1 DEF d
<1>7. ASSUME started[r] # None, completed[r] # None
      PROVE  d = IF started[r] <= completed[r] THEN Took(r)
                 ELSE IF status[r] = "started" THEN Ongoing(r) ELSE Says("invalid data")
  <2>1. (completed[r] >= started[r]) <=> (started[r] <= completed[r])
    BY <1>1, <1>7
  <2> QED BY <1>7, <2>1 DEF DisplayRunTime
<1>8. ASSUME started[r] # None, completed[r] = None
      PROVE  d = IF status[r] = "invalid" THEN Says("n/a") ELSE Ongoing(r)
  BY <1>8 DEF DisplayRunTime
<1>9. \/ started[r] = None
      \/ started[r] # None /\ d = Took(r) /\ completed[r] # None /\ started[r] <= completed[r]
      \/ /\ started[r] # None /\ d = Ongoing(r)
         /\ (completed[r] # None /\ status[r] = "started") \/ (completed[r] = None /\ status[r] # "invalid")
      \/ /\ started[r] # None /\ d = Says("invalid data") /\ completed[r] # None
         /\ ~(started[r] <= completed[r]) /\ status[r] # "started"
      \/ started[r] # None /\ d = Says("n/a") /\ completed[r] = None /\ status[r] = "invalid"
  <2> HIDE DEF d
  <2> QED BY <1>7, <1>8
<1> HIDE DEF d
<1> QED BY <1>2, <1>3, <1>4, <1>5, <1>6, <1>9 DEF d

(* Thousandths and sixtieths that a unit leaves over. *)
LEMMA Thousandths ==
  ASSUME NEW a \in Nat, NEW q, q = a \div 1000, NEW x, x = a % 1000
  PROVE  q \in Nat /\ x \in 0..999 /\ a = 1000 * q + x
<1>1. q \in Nat /\ x \in Nat /\ a = 1000 * q + x
  OBVIOUS
<1>2. x \in 0..999
  OBVIOUS
<1> QED BY <1>1, <1>2

(* The same of the units of an hour. *)
LEMMA Sixtieths ==
  ASSUME NEW a \in Nat, NEW q, q = a \div 60, NEW x, x = a % 60
  PROVE  q \in Nat /\ x \in 0..59 /\ a = 60 * q + x
<1>1. q \in Nat /\ x \in Nat /\ a = 60 * q + x
  OBVIOUS
<1>2. x \in 0..59
  OBVIOUS
<1> QED BY <1>1, <1>2

(* What duration_as_human_string prints stands for its argument but for the *)
(* units that it leaves out.                                                *)
LEMMA DurationKeepsUnits ==
  ASSUME NEW ms \in Nat
  PROVE  ms - ReadBack(DurationAsHumanString(ms)) \in 0..(LeftOut(ms) - 1)
<1> DEFINE sec == ms \div 1000   x == ms % 1000
           min == sec \div 60    y == sec % 60
           hours == min \div 60  z == min % 60
           p == DurationAsHumanString(ms)
<1>1. p = IF hours # 0 THEN [h |-> hours, m |-> z, s |-> 0, ms |-> 0]
          ELSE IF min # 0 THEN [h |-> 0, m |-> min, s |-> y, ms |-> 0]
          ELSE [h |-> 0, m |-> 0, s |-> sec, ms |-> x]
  BY DEF DurationAsHumanString
<1>2. LeftOut(ms) = IF ms >= 3600000 THEN 60000 ELSE IF ms >= 60000 THEN 1000 ELSE 1
  BY DEF LeftOut
<1>3. sec \in Nat /\ x \in 0..999 /\ ms = 1000 * sec + x
  BY Thousandths
<1> HIDE DEF sec, x
<1>4. min \in Nat /\ y \in 0..59 /\ sec = 60 * min + y
  BY <1>3, Sixtieths
<1> HIDE DEF min, y
<1>5. hours \in Nat /\ z \in 0..59 /\ min = 60 * hours + z
  BY <1>4, Sixtieths
<1> HIDE DEF hours, z, p
<1>6. CASE hours # 0
  <2>1. p.h = hours /\ p.m = z /\ p.s = 0 /\ p.ms = 0
    BY <1>1, <1>6
  <2>2. ReadBack(p) = ((hours * 60 + z) * 60 + 0) * 1000 + 0
    BY <2>1 DEF ReadBack
  <2>3. ReadBack(p) = 3600000 * hours + 60000 * z
    BY <1>5, <2>2
  <2>4. ms >= 3600000
    BY <1>3, <1>4, <1>5, <1>6
  <2> QED BY <1>2, <1>3, <1>4, <1>5, <2>3, <2>4 DEF p
<1>7. CASE hours = 0 /\ min # 0
  <2>1. p.h = 0 /\ p.m = min /\ p.s = y /\ p.ms = 0
    BY <1>1, <1>7
  <2>2. ReadBack(p) = ((0 * 60 + min) * 60 + y) * 1000 + 0
    BY <2>1 DEF ReadBack
  <2>3. ReadBack(p) = 60000 * min + 1000 * y
    BY <1>4, <2>2
  <2>4. ms >= 60000 /\ ~(ms >= 3600000)
    BY <1>3, <1>4, <1>5, <1>7
  <2> QED BY <1>2, <1>3, <1>4, <2>3, <2>4 DEF p
<1>8. CASE hours = 0 /\ min = 0
  <2>1. p.h = 0 /\ p.m = 0 /\ p.s = sec /\ p.ms = x
    BY <1>1, <1>8
  <2>2. ReadBack(p) = ((0 * 60 + 0) * 60 + sec) * 1000 + x
    BY <2>1 DEF ReadBack
  <2>3. ReadBack(p) = 1000 * sec + x
    BY <1>3, <2>2
  <2>4. ~(ms >= 60000)
    BY <1>3, <1>4, <1>8
  <2> QED BY <1>2, <1>3, <2>3, <2>4 DEF p
<1> QED BY <1>6, <1>7, <1>8

------------------------------------------------------------------------------

(* TypeOK: rows refer to rows there are, and no run has more metrics than   *)
(* its goodfile reports.                                                    *)
THEOREM RecordTypes == Spec => []TypeOK
<1>1. Inv => TypeOK
  BY DEF Inv
<1> QED BY <1>1, Invariance, PTL

(* ShownTimesAreReal: for any number of sessions that start and settle a    *)
(* run in any order, display_run_time shows what a settled run took, says   *)
(* "invalid data" only of a run that was given up after several sessions    *)
(* had it, and shows no more time than the clock has.                       *)
THEOREM TimesAreReal == Spec => []ShownTimesAreReal
<1>1. ASSUME Inv, NEW r \in Runs, status[r] \in {"finished", "error"}
      PROVE  DisplayRunTime(r).says = "took"
  <2>1. started[r] # None /\ completed[r] # None /\ started[r] <= completed[r]
    BY <1>1 DEF Inv, TimeInv
  <2> QED BY <1>1, <2>1, DisplayCases
<1>2. ASSUME Inv, NEW r \in Runs, DisplayRunTime(r).says = "invalid data"
      PROVE  status[r] = "invalid" /\ Cardinality(tried[r]) > 1
  <2>1. started[r] # None /\ completed[r] # None /\ ~(started[r] <= completed[r]) /\ status[r] # "started"
    BY <1>2, DisplayCases
  <2>2. status[r] = "invalid"
    <3>1. status[r] \in Ledger!Statuses
      BY <1>2 DEF Inv, TypeOK, Ledger!TypeOK
    <3> QED BY <1>2, <2>1, <3>1 DEF Inv, TimeInv, Ledger!Statuses
  <2>3. /\ IsFiniteSet(tried[r]) /\ tried[r] \subseteq Sessions /\ tried[r] # {}
        /\ \A s \in Sessions : tried[r] # {s}
    BY <1>2, <2>1, <2>2 DEF Inv, TypeOK, SoleInv, Row
  <2>4. Cardinality(tried[r]) \in Nat /\ Cardinality(tried[r]) # 0 /\ Cardinality(tried[r]) # 1
    <3>1. Cardinality(tried[r]) \in Nat
      BY <2>3, FS_CardinalityType
    <3>2. Cardinality(tried[r]) # 0
      BY <2>3, FS_EmptySet
    <3>3. Cardinality(tried[r]) # 1
      <4>1. Cardinality(tried[r]) = 1 => \E s : tried[r] = {s}
        BY <2>3, FS_Singleton
      <4> QED BY <2>3, <4>1
    <3> QED BY <3>1, <3>2, <3>3
  <2> QED BY <2>2, <2>4
<1>3. ASSUME Inv, NEW r \in Runs, DisplayRunTime(r).says \in {"took", "ongoing"}
      PROVE  DisplayRunTime(r).ms <= Moments[clock]
  BY <1>3, DisplayCases
<1>4. Inv => ShownTimesAreReal
  BY <1>1, <1>2, <1>3 DEF ShownTimesAreReal
<1> QED BY <1>4, Invariance, PTL

(* DurationsReadBack: duration_as_human_string keeps every duration but for *)
(* the units below the last it prints.                                      *)
THEOREM DurationsAreKept == Spec => []DurationsReadBack
<1>1. ASSUME Inv, NEW r \in Runs
      PROVE  DisplayRunTime(r).ms # None => DisplayRunTime(r).ms \in Nat
  BY <1>1, DisplayCases
<1>2. Inv => DurationsReadBack
  BY <1>1, DurationKeepsUnits DEF DurationsReadBack
<1> QED BY <1>2, Invariance, PTL

(* OwnArtifactsAreShown: of what the session that the run's token is from   *)
(* has uploaded, a commit's page lists the commands' logs, all of them, and *)
(* none of Build.artifact's, for any number of sessions.                    *)
THEOREM OwnArtifacts == Spec => []OwnArtifactsAreShown
<1>1. ASSUME Inv, NEW a \in artifacts, token[a.run] = a.by
      PROVE  (a \in ShownArtifacts(a.run)) <=> (a.kind = "log")
  <2>1. a.run \in Runs /\ a.by \in Sessions /\ a.by # None
    BY <1>1, NullAssumption DEF Inv, TypeOK, Artifact
  <2>2. started[a.run] # None /\ started[a.run] <= a.at
    BY <1>1, <2>1 DEF Inv, ArtifactInv
  <2>3. started[a.run] \in Nat /\ a.at \in Nat
    BY <1>1, <2>1, <2>2, Domains DEF Inv, TypeOK, Artifact
  <2>4. a.at >= ShownSince(a.run)
    BY <2>2, <2>3 DEF ShownSince
  <2> QED BY <2>4 DEF ShownArtifacts, ArtifactsForRun
<1>2. Inv => OwnArtifactsAreShown
  BY <1>1 DEF OwnArtifactsAreShown
<1> QED BY <1>2, Invariance, PTL

(* MetricsKeepOrder: insert_metric leaves a run's metrics in the order of   *)
(* its goodfile, for any number of sessions that report them at a time.     *)
THEOREM MetricOrder == Spec => []MetricsKeepOrder
<1>1. Inv => MetricsKeepOrder
  BY DEF Inv, MetricInv
<1> QED BY <1>1, Invariance, PTL

(* SoleRunsReadRight: the three pages agree on a run that only one session  *)
(* was ever offered.                                                        *)
THEOREM SoleRuns == Spec => []SoleRunsReadRight
<1>1. ASSUME Inv, NEW r \in Runs, Cardinality(tried[r]) = 1
      PROVE  /\ IndexResult(r) = "in progress" => CommitStatus(r) = "pending"
             /\ IndexResult(r) = "pass" => CommitStatus(r) = "pass"
             /\ IndexResult(r) = "fail" => CommitStatus(r) = "error"
             /\ (DisplayRunTime(r).says = "ongoing") <=> (status[r] = "started")
  <2>1. PICK s \in Sessions : tried[r] = {s}
    <3>1. IsFiniteSet(tried[r]) /\ tried[r] \subseteq Sessions
      BY <1>1 DEF Inv, SoleInv, TypeOK
    <3>2. \E s : tried[r] = {s}
      BY <1>1, <3>1, FS_Singleton
    <3> QED BY <3>1, <3>2
  <2>2. /\ status[r] \in {"pending", "started", "finished", "error", "invalid"}
        /\ status[r] = "pending" => started[r] = None /\ result[r] = None
        /\ status[r] = "started" => Row(r, None, TRUE, FALSE)
        /\ status[r] = "finished" => Row(r, "pass", TRUE, TRUE)
        /\ status[r] = "error" => Row(r, "fail", TRUE, TRUE)
        /\ status[r] = "invalid" => Row(r, None, TRUE, FALSE)
    <3>1. status[r] \in Ledger!Statuses
      BY <1>1 DEF Inv, TypeOK, Ledger!TypeOK
    <3> QED BY <1>1, <2>1, <3>1 DEF Inv, SoleInv, TimeInv, Ledger!Statuses
  <2>3. (DisplayRunTime(r).says = "ongoing") <=> (status[r] = "started")
    BY <1>1, <2>2, DisplayCases DEF Row
  <2>4. /\ IndexResult(r) = "in progress" => CommitStatus(r) = "pending"
        /\ IndexResult(r) = "pass" => CommitStatus(r) = "pass"
        /\ IndexResult(r) = "fail" => CommitStatus(r) = "error"
    BY <2>2, NullAssumption DEF IndexResult, CommitStatus, Row
  <2> QED BY <2>3, <2>4
<1>2. Inv => SoleRunsReadRight
  BY <1>1 DEF SoleRunsReadRight
<1> QED BY <1>2, Invariance, PTL

(* HostRowsHold: the row of `hosts` that a run refers to stays what its     *)
(* last session reported, for any machines, frequencies and orders in which *)
(* they connect.                                                            *)
THEOREM HostRows == Spec => []HostRowsHold
<1>1. Inv => HostRowsHold
  BY DEF Inv, HostInv, HostRowsHold, HostDesc
<1> QED BY <1>1, Invariance, PTL

==============================================================================
