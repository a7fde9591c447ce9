-------------------------- MODULE Artifacts_proofs ---------------------------
(****************************************************************************)
(* What is proved of Artifacts for any amount of output, any pipe, any      *)
(* viewers and any number of faults: type correctness, and what is in the   *)
(* file of a complete artifact.                                             *)
(****************************************************************************)
EXTENDS Artifacts, TLAPS

(* What the file was given, written or not. *)
Taken == file + (IF writing = "none" THEN 0 ELSE 1)

(* The driver has no more than was sent, and while the connection lives     *)
(* what it has not is still on the way.                                     *)
NothingIsLost == /\ Taken + wire <= sent
                 /\ body \in {"open", "ended"} => sent = Taken + wire
                 /\ row \notin {"open", "complete"} <=> body = "none"
                 /\ body = "none" => sent = 0

(* Before the end of the output only the runtime of a build command, or a   *)
(* file that cannot be read, ends the body.                                 *)
EndedIsSent == /\ body = "ended" /\ kind # "step" => sent = Chunks \/ forwarder = "failed"
               /\ forwarder \in {"done", "failed", "cancelled"} => body # "open"
               /\ forwarder = "failed" => kind = "file"
               /\ forwarder = "cancelled" => kind = "step"
               /\ forwarder # "none" => row \in {"open", "complete"}
               /\ row \in {"open", "complete"} => forwarder # "none"

(* The task that stores the body sees all of it before it moves on, and is  *)
(* the only one to mark the row.                                            *)
StoredBeforeComplete ==
  /\ task \in {"finalizing", "done"} => body = "ended"
  /\ body \in {"open", "ended"} /\ task # "storing" => body = "ended" /\ wire = 0
  /\ row = "complete" => task = "done"
  /\ row \in {"none", "refused"} => task = "none"
  /\ row \in {"open", "complete"} => task # "none"

TransferInv == NothingIsLost /\ EndedIsSent /\ StoredBeforeComplete

UploadInv == UploadTypeOK /\ SizesTypeOK /\ TransferInv

Inv == UploadInv /\ TailsTypeOK

------------------------------------------------------------------------------

(* At the start nothing was sent. *)
LEMMA InvInit == Init => Inv
BY ArtifactBounds DEF Init, Inv, UploadInv, UploadTypeOK, SizesTypeOK, TailsTypeOK, TransferInv,
       NothingIsLost, EndedIsSent, StoredBeforeComplete, Taken

(* The counts are of chunks of the output. *)
LEMMA Counts ==
  ASSUME SizesTypeOK
  PROVE  /\ out \in Nat /\ sent \in Nat /\ wire \in Nat /\ file \in Nat
         /\ file <= sent /\ sent <= out /\ out <= Chunks
<1>1. out \in Nat /\ out <= Chunks
  BY ArtifactBounds DEF SizesTypeOK
<1>2. sent \in Nat /\ sent <= out
  BY <1>1 DEF SizesTypeOK
<1>3. file \in Nat /\ file <= sent
  BY <1>2 DEF SizesTypeOK
<1> QED BY <1>1, <1>2, <1>3 DEF SizesTypeOK

(* Steps before the upload. *)
LEMMA RequestStep ==
  ASSUME UploadInv, RecordToken \/ ExpireToken \/ RefuseArtifact \/ ReserveRow \/ OpenArtifact
  PROVE  UploadInv' /\ UNCHANGED viewerVars
<1> USE DEF UploadInv, UploadTypeOK, SizesTypeOK, TransferInv, NothingIsLost,
            EndedIsSent, StoredBeforeComplete, Taken, runnerVars, viewerVars
<1>1. CASE RecordToken \/ ExpireToken
  BY <1>1 DEF RecordToken, ExpireToken
<1>2. CASE RefuseArtifact \/ ReserveRow
  BY <1>2 DEF RefuseArtifact, ReserveRow
<1>3. CASE OpenArtifact
  BY <1>3, ArtifactBounds DEF OpenArtifact
<1> QED BY <1>1, <1>2, <1>3

(* The runner sends in order, and ends the body after the last chunk. *)
LEMMA SendingStep ==
  ASSUME UploadInv, WriteOutput \/ Forward \/ ForwardEnd \/ ForwardFails
  PROVE  UploadInv' /\ UNCHANGED viewerVars
<1> USE DEF UploadInv, UploadTypeOK, SizesTypeOK, TransferInv, NothingIsLost,
            EndedIsSent, StoredBeforeComplete, Taken, driverVars, viewerVars
<1>1. CASE WriteOutput
  BY <1>1, ArtifactBounds DEF WriteOutput
<1>2. CASE Forward
  BY <1>2 DEF Forward
<1>3. CASE ForwardEnd \/ ForwardFails
  BY <1>3 DEF ForwardEnd, ForwardFails, EndBody
<1> QED BY <1>1, <1>2, <1>3

(* Less on the way is no more than what was sent. *)
LEMMA LessOnTheWay ==
  ASSUME NEW a \in Nat, NEW w \in Nat, NEW x \in Nat, NEW t \in Nat, a + w <= t, x <= w
  PROVE  a + x <= t
OBVIOUS

(* A body that is aborted may lose what was on the way. *)
LEMMA AbortStep ==
  ASSUME UploadInv, body # "none", body' = "aborted", wire' \in {0, wire},
         task \in {"storing", "panicked", "killed"},
         UNCHANGED <<kind, pooled, out, sent, token, row, task, writing, file>>,
         \/ UNCHANGED <<forwarder, runtime>>
         \/ /\ row \in {"open", "complete"} /\ kind # "clone" /\ runtime' = "dropped"
            /\ kind = "file" => forwarder # "forwarding"
            /\ forwarder' = IF forwarder = "forwarding" THEN "cancelled" ELSE forwarder,
         faults' \in 0..MaxFaults
  PROVE  UploadInv'
<1>1. UploadTypeOK'
  BY DEF UploadInv, UploadTypeOK
<1>2. SizesTypeOK'
  BY DEF UploadInv, SizesTypeOK
<1>3. wire \in Nat /\ wire' \in Nat /\ wire' <= wire /\ sent \in Nat /\ file \in Nat
  BY Counts DEF UploadInv
<1>4. Taken' = Taken /\ Taken \in Nat
  BY <1>3 DEF Taken
<1>5. Taken + wire <= sent /\ (row \notin {"open", "complete"} <=> body = "none")
  BY DEF UploadInv, TransferInv, NothingIsLost
<1>6. Taken' + wire' <= sent'
  <2>1. Taken + wire' <= sent
    BY <1>3, <1>4, <1>5, LessOnTheWay
  <2> QED BY <2>1, <1>4
<1>7. NothingIsLost'
  BY <1>5, <1>6 DEF NothingIsLost
<1>8. EndedIsSent' /\ StoredBeforeComplete'
  BY DEF UploadInv, UploadTypeOK, Kinds, TransferInv, EndedIsSent, StoredBeforeComplete
<1> QED BY <1>1, <1>2, <1>7, <1>8 DEF UploadInv, TransferInv

(* What cuts an upload off aborts its body, or ends that of a build command. *)
LEMMA CutStep ==
  ASSUME UploadInv, DropRuntime \/ ConnLost \/ DriverRestart
  PROVE  UploadInv' /\ UNCHANGED viewerVars
<1>1. CASE DropRuntime
  <2>1. kind # "clone" /\ (kind = "file" => forwarder \in {"done", "failed"})
    BY <1>1 DEF DropRuntime, CallOver, UploadInv, UploadTypeOK, Kinds
  <2>2. /\ forwarder' = (IF forwarder = "forwarding" THEN "cancelled" ELSE forwarder)
        /\ runtime' = "dropped" /\ row \in {"open", "complete"}
        /\ UNCHANGED <<kind, pooled, out, sent, driverVars, viewerVars, faults>>
    BY <1>1 DEF DropRuntime
  <2>3. body # "none"
    BY <2>2 DEF UploadInv, TransferInv, NothingIsLost
  <2>4. CASE body' = "aborted" /\ wire' \in {0, wire} /\ (body # "ended" \/ task = "storing")
    <3>1. task \in {"storing", "panicked", "killed"}
      BY <2>2, <2>4 DEF UploadInv, UploadTypeOK, TransferInv, NothingIsLost, StoredBeforeComplete
    <3>2. faults' \in 0..MaxFaults
      BY <2>2 DEF UploadInv, SizesTypeOK
    <3> QED BY <2>1, <2>2, <2>3, <2>4, <3>1, <3>2, AbortStep DEF driverVars, viewerVars
  <2>5. CASE body' = "ended" /\ body \in {"open", "ended"} /\ UNCHANGED wire
    BY <2>1, <2>2, <2>5 DEF driverVars, viewerVars, UploadInv, UploadTypeOK, SizesTypeOK, Kinds,
       TransferInv, NothingIsLost, EndedIsSent, StoredBeforeComplete, Taken
  <2>6. CASE body = "aborted" /\ UNCHANGED <<body, wire>>
    BY <2>1, <2>2, <2>6 DEF driverVars, viewerVars, UploadInv, UploadTypeOK, SizesTypeOK, Kinds,
       TransferInv, NothingIsLost, EndedIsSent, StoredBeforeComplete, Taken
  <2> QED BY <1>1, <2>3, <2>4, <2>5, <2>6 DEF DropRuntime, EndBody, UploadInv, UploadTypeOK
<1>2. CASE ConnLost
  <2>1. faults' \in 0..MaxFaults
    BY <1>2, ArtifactBounds DEF ConnLost, Fault, UploadInv, SizesTypeOK
  <2>2. /\ body # "none" /\ body' = "aborted" /\ wire' \in {0, wire} /\ task = "storing"
        /\ UNCHANGED <<runnerVars, driverVars, viewerVars>>
    BY <1>2 DEF ConnLost
  <2>3. UploadInv'
    BY <2>1, <2>2, AbortStep DEF runnerVars, driverVars
  <2> QED BY <2>2, <2>3
<1>3. CASE DriverRestart
  BY <1>3, ArtifactBounds DEF DriverRestart, Fault, runnerVars, viewerVars, UploadInv,
     UploadTypeOK, SizesTypeOK, TransferInv, NothingIsLost, EndedIsSent,
     StoredBeforeComplete, Taken
<1> QED BY <1>1, <1>2, <1>3

(* The driver stores in order, and completes the row after the end. *)
LEMMA StoringStep ==
  ASSUME UploadInv, \/ StoreChunk \/ WriteFile \/ WriteFails \/ StoreChunkFails
                    \/ StoreEnd \/ StoreFails \/ FinalizeArtifact
  PROVE  UploadInv' /\ UNCHANGED viewerVars
<1> USE DEF UploadInv, UploadTypeOK, SizesTypeOK, TransferInv, NothingIsLost,
            EndedIsSent, StoredBeforeComplete, Taken, runnerVars, viewerVars
<1>1. CASE StoreChunk
  BY <1>1 DEF StoreChunk
<1>2. CASE WriteFile
  BY <1>2 DEF WriteFile
<1>5. CASE WriteFails
  BY <1>5, ArtifactBounds DEF WriteFails, Fault
<1>6. CASE StoreChunkFails
  BY <1>6 DEF StoreChunkFails
<1>3. CASE StoreEnd \/ StoreFails
  BY <1>3 DEF StoreEnd, StoreFails
<1>4. CASE FinalizeArtifact
  BY <1>4 DEF FinalizeArtifact
<1> QED BY <1>1, <1>2, <1>3, <1>4, <1>5, <1>6

(* Viewers only read. *)
LEMMA ViewerStep ==
  ASSUME Inv, NEW v \in Viewers,
         GetArtifact(v) \/ TailStep(v) \/ ViewerStalls(v) \/ ViewerLeaves(v)
  PROVE  Inv'
<1>1. UNCHANGED <<runnerVars, body, wire, driverVars, faults>>
  BY DEF TailStep, GetArtifact, OpenTail, ReadTail, PollArtifact, ViewerStalls, ViewerLeaves
<1>2. UploadInv'
  BY <1>1 DEF runnerVars, driverVars, Inv, UploadInv, UploadTypeOK, SizesTypeOK,
     TransferInv, NothingIsLost, EndedIsSent, StoredBeforeComplete, Taken
<1>3. TailsTypeOK'
  <2>1. CASE GetArtifact(v)
    BY <2>1 DEF GetArtifact, GotoTail, Inv, TailsTypeOK, UploadInv, UploadTypeOK
  <2>2. CASE OpenTail(v)
    BY <2>2 DEF OpenTail, GotoTail, Inv, TailsTypeOK
  <2>3. CASE PollArtifact(v)
    BY <2>3 DEF PollArtifact, GotoTail, Inv, TailsTypeOK
  <2>4. CASE ReadTail(v)
    <3>0. UNCHANGED peer
      BY <2>4 DEF ReadTail
    <3>1. SizesTypeOK /\ Chunks \in Nat
      BY ArtifactBounds DEF Inv, UploadInv
    <3>2. file \in Nat /\ file <= Chunks
      BY <3>1, Counts
    <3>3. pos[v] \in 0..Chunks
      BY DEF Inv, TailsTypeOK
    <3>4. pos[v] < file => pos[v] + 1 \in 0..Chunks
      BY <3>1, <3>2, <3>3
    <3>5. CASE pos[v] < file /\ peer[v] # "stalled" /\ pos' = [pos EXCEPT ![v] = @ + 1] /\ UNCHANGED tail
      BY <3>0, <3>4, <3>5 DEF Inv, TailsTypeOK
    <3>6. CASE pos[v] = file /\ GotoTail(v, "waiting") /\ UNCHANGED pos
      BY <3>0, <3>6 DEF GotoTail, Inv, TailsTypeOK
    <3> QED BY <2>4, <3>5, <3>6 DEF ReadTail
  <2>5. CASE ViewerStalls(v) \/ ViewerLeaves(v)
    BY <2>5 DEF ViewerStalls, ViewerLeaves, Inv, TailsTypeOK
  <2> QED BY <2>1, <2>2, <2>3, <2>4, <2>5 DEF TailStep
<1> QED BY <1>2, <1>3 DEF Inv

(* Every step keeps the invariant. *)
LEMMA InvNext == Inv /\ [Next]_vars => Inv'
<1> SUFFICES ASSUME Inv, [Next]_vars PROVE Inv'
  OBVIOUS
<1>1. UNCHANGED viewerVars => TailsTypeOK'
  BY DEF viewerVars, Inv, TailsTypeOK
<1>2. CASE UNCHANGED vars
  BY <1>1, <1>2 DEF vars, runnerVars, driverVars, Inv, UploadInv, UploadTypeOK, SizesTypeOK,
     TransferInv, NothingIsLost, EndedIsSent, StoredBeforeComplete, Taken
<1>3. CASE \E v \in Viewers : \/ GetArtifact(v) \/ TailStep(v)
                              \/ ViewerStalls(v) \/ ViewerLeaves(v)
  BY <1>3, ViewerStep
<1>4. CASE RecordToken \/ ExpireToken \/ RefuseArtifact \/ ReserveRow \/ OpenArtifact
  BY <1>4, <1>1, RequestStep DEF Inv
<1>5. CASE WriteOutput \/ Forward \/ ForwardEnd \/ ForwardFails
  BY <1>5, <1>1, SendingStep DEF Inv
<1>6. CASE DropRuntime \/ ConnLost \/ DriverRestart
  BY <1>6, <1>1, CutStep DEF Inv
<1>7. CASE \/ StoreChunk \/ WriteFile \/ WriteFails \/ StoreChunkFails
           \/ StoreEnd \/ StoreFails \/ FinalizeArtifact
  BY <1>7, <1>1, StoringStep DEF Inv
<1> QED BY <1>2, <1>3, <1>4, <1>5, <1>6, <1>7 DEF Next, RunnerStep, DriverStep

(* Every state an upload can reach has the stated shape: no more is sent    *)
(* than was written, and no more is in the file than was sent.              *)
THEOREM ArtifactTypes == Spec => []TypeOK
<1>1. Inv => TypeOK
  BY DEF Inv, UploadInv, TypeOK
<1> QED BY <1>1, InvInit, InvNext, PTL DEF Spec

(* handle_artifact marks an artifact complete only with the whole body in   *)
(* its hands, wherever the connection or a process fails on the way; what   *)
(* the body lacks then its own runner did not send, and what the file lacks *)
(* is the chunk that tokio's File took last.                                *)
THEOREM CompleteArtifacts == Spec => []CompleteIsWhole
<1>1. ASSUME Inv, row = "complete" PROVE body = "ended" /\ wire = 0
  BY <1>1 DEF Inv, UploadInv, TransferInv, StoredBeforeComplete
<1>2. ASSUME Inv, row = "complete"
      PROVE  sent = Chunks \/ kind = "step" \/ (kind = "file" /\ forwarder = "failed")
  BY <1>1, <1>2 DEF Inv, UploadInv, TransferInv, EndedIsSent
<1>3. ASSUME Inv, row = "complete"
      PROVE  file = sent \/ (writing # "none" /\ file = sent - 1)
  <2>1. file \in Nat /\ sent \in Nat
    BY <1>3, Counts DEF Inv, UploadInv
  <2>2. sent = Taken + wire
    BY <1>1, <1>3 DEF Inv, UploadInv, TransferInv, NothingIsLost
  <2>3. sent = file + (IF writing = "none" THEN 0 ELSE 1)
    BY <2>1, <2>2, <1>1, <1>3 DEF Taken
  <2> QED BY <2>1, <2>3
<1>4. Inv => CompleteIsWhole
  BY <1>2, <1>3 DEF CompleteIsWhole
<1> QED BY <1>4, InvInit, InvNext, PTL DEF Spec
==============================================================================
