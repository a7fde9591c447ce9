------------------------------ MODULE Artifacts ------------------------------
(****************************************************************************)
(* One artifact of a run: the runner streams a command's output, or a file, *)
(* as the body of a POST; the driver stores the body in a file and then     *)
(* marks the row complete; the web server tails the file of an artifact     *)
(* that is not complete for whoever looks at it.                            *)
(*                                                                          *)
(*   output -> pipe -> forward_data -> body -> store_all -> file -> tail    *)
(*                                                                          *)
(* Data is counted in chunks: every stage keeps their order.  A build       *)
(* command of the goodfile, and the upload of a file, runs on a tokio       *)
(* runtime of its own that is dropped as soon as the call is over, with the *)
(* tasks still on it; git's output is forwarded on the runner's main one.   *)
(****************************************************************************)
EXTENDS Naturals

CONSTANTS Chunks,     \* how much output there is
          PipeCap,    \* how much of it the pipe holds
          Viewers,    \* requests for the artifact
          MaxFaults   \* bound on lost connections, failed writes and driver restarts

ASSUME ArtifactBounds == /\ Chunks \in Nat /\ PipeCap \in Nat \ {0}
                         /\ MaxFaults \in Nat

Kinds == {"clone",   \* git's output, forwarded on the main runtime
          "step",    \* output of a build command
          "file"}    \* a file named by the goodfile's `artifact`

VARIABLES
  kind,      \* what the artifact is
  pooled,    \* the POST runs on a pooled connection of the main runtime
  token,     \* the run's build_token, as the driver's database has it
  row,       \* the artifacts row, and whether its file exists
  out,       \* chunks the command has written
  sent,      \* chunks handed to the body
  forwarder, \* forward_data in the runner
  runtime,   \* the runtime that the call runs on
  body,      \* the request body, as the driver will see it end
  wire,      \* chunks sent and not yet read by the driver
  task,      \* the driver's task that stores the body
  writing,   \* the chunk that tokio's File has taken: to be written, or lost
  file,      \* chunks in the file
  tail,      \* where a viewer's request stands
  pos,       \* chunks of the file a viewer's tail has taken
  peer,      \* whether the viewer at the other end reads what it is sent
  faults

runnerVars == <<kind, pooled, out, sent, forwarder, runtime>>
driverVars == <<token, row, task, writing, file>>
viewerVars == <<tail, pos, peer>>
vars == <<runnerVars, body, wire, driverVars, viewerVars, faults>>

UploadTypeOK ==
  /\ kind \in Kinds /\ pooled \in BOOLEAN
  /\ token \in {"unset", "valid", "expired"}
  /\ row \in {"none", "reserved", "refused", "open", "complete"}
  /\ forwarder \in {"none", "forwarding", "done", "failed", "cancelled"}
  /\ body \in {"none", "open", "ended", "aborted"}
  /\ task \in {"none", "storing", "finalizing", "done", "panicked", "killed"}
  /\ writing \in {"none", "writing", "lost"}
  /\ runtime \in {"up", "dropped"}

SizesTypeOK ==
  /\ out \in 0..Chunks
  /\ sent \in 0..out
  /\ wire \in 0..1
  /\ file \in 0..sent
  /\ faults \in 0..MaxFaults

TailsTypeOK ==
  /\ tail \in [Viewers -> {"none", "opening", "reading", "waiting",
                           "finished", "all done", "not found", "panicked"}]
  /\ pos \in [Viewers -> 0..Chunks]
  /\ peer \in [Viewers -> {"reads", "stalled", "gone"}]

TypeOK == UploadTypeOK /\ SizesTypeOK /\ TailsTypeOK

Init ==
  /\ kind \in Kinds /\ pooled \in BOOLEAN
  /\ token = "unset" /\ row = "none"
  /\ out = 0 /\ sent = 0 /\ forwarder = "none" /\ runtime = "up"
  /\ body = "none" /\ wire = 0
  /\ task = "none" /\ writing = "none" /\ file = 0
  /\ tail = [v \in Viewers |-> "none"]
  /\ pos = [v \in Viewers |-> 0]
  /\ peer = [v \in Viewers |-> "reads"]
  /\ faults = 0

Fault == faults < MaxFaults /\ faults' = faults + 1

------------------------------------------------------------------------------
(* The request *)

(* activate_run's update, which the runner does not wait for. *)
RecordToken ==
  /\ token = "unset"
  /\ token' = "valid"
  /\ UNCHANGED <<runnerVars, body, wire, row, task, writing, file, viewerVars, faults>>

(* TOKEN_EXPIRY_MS after the run started. *)
ExpireToken ==
  /\ token = "valid"
  /\ token' = "expired"
  /\ UNCHANGED <<runnerVars, body, wire, row, task, writing, file, viewerVars, faults>>

(* create_artifact is answered 400, and the build with it panics. *)
RefuseArtifact ==
  /\ row = "none" /\ token # "valid"
  /\ row' = "refused"
  /\ UNCHANGED <<runnerVars, body, wire, token, task, writing, file, viewerVars, faults>>

(* reserve_artifact: the row first *)
ReserveRow ==
  /\ row = "none" /\ token = "valid"
  /\ row' = "reserved"
  /\ UNCHANGED <<runnerVars, body, wire, token, task, writing, file, viewerVars, faults>>

(* and then the file; the body is stored by a task of its own, the request  *)
(* is answered 200, and the runner starts the command.                      *)
OpenArtifact ==
  /\ row = "reserved" /\ task = "none"
  /\ row' = "open" /\ task' = "storing"
  /\ body' = "open" /\ forwarder' = "forwarding"
  /\ out' = IF kind = "file" THEN Chunks ELSE 0
  /\ UNCHANGED <<kind, pooled, sent, runtime, wire, token, writing, file, viewerVars, faults>>

------------------------------------------------------------------------------
(* The runner *)

(* The command writes, and blocks on a full pipe. *)
WriteOutput ==
  /\ row = "open" /\ kind # "file"
  /\ out < Chunks /\ out - sent < PipeCap
  /\ out' = out + 1
  /\ UNCHANGED <<kind, pooled, sent, forwarder, runtime, body, wire,
                 driverVars, viewerVars, faults>>

(* Faulty variant of poll_write: the body takes whatever it is given. *)
Forward_unbounded ==
  /\ forwarder = "forwarding" /\ body = "open"
  /\ sent < out
  /\ sent' = sent + 1 /\ wire' = wire + 1
  /\ UNCHANGED <<kind, pooled, out, forwarder, runtime, body, driverVars, viewerVars, faults>>

(* forward_data, through ArtifactStream: try_send_data fails when the body  *)
(* is full and when it is gone, and poll_write asks to be polled again.     *)
Forward ==
  /\ forwarder = "forwarding" /\ body = "open"
  /\ sent < out /\ wire = 0
  /\ sent' = sent + 1 /\ wire' = 1
  /\ UNCHANGED <<kind, pooled, out, forwarder, runtime, body, driverVars, viewerVars, faults>>

(* Faulty variant: the sender outlives forward_data. *)
ForwardEnd_keepsSender ==
  /\ forwarder = "forwarding"
  /\ out = Chunks /\ sent = out
  /\ forwarder' = "done"
  /\ UNCHANGED <<kind, pooled, out, sent, runtime, body, wire, driverVars, viewerVars, faults>>

(* The sender is dropped with forward_data, which ends the body: *)
EndBody == body' = IF body = "open" THEN "ended" ELSE body

(* at the end of the output, *)
ForwardEnd ==
  /\ forwarder = "forwarding"
  /\ out = Chunks /\ sent = out
  /\ forwarder' = "done" /\ EndBody
  /\ UNCHANGED <<kind, pooled, out, sent, runtime, wire, driverVars, viewerVars, faults>>

(* or where a file could not be opened or read any further (a directory     *)
(* opens and does not read): the call fails, and the driver is not told.    *)
ForwardFails ==
  /\ kind = "file" /\ forwarder = "forwarding"
  /\ forwarder' = "failed" /\ EndBody
  /\ UNCHANGED <<kind, pooled, out, sent, runtime, wire, driverVars, viewerVars, faults>>

(* The call that made the upload is over. *)
CallOver == CASE kind = "clone" -> FALSE
              [] kind = "step"  -> out = Chunks
              [] kind = "file"  -> forwarder \in {"done", "failed"}

(* Faulty variant: the runtime is dropped before the command has ended. *)
DropRuntime_early ==
  /\ kind = "step" /\ forwarder = "forwarding"
  /\ runtime' = "dropped" /\ forwarder' = "cancelled"
  /\ \/ pooled /\ EndBody /\ UNCHANGED wire
     \/ ~pooled /\ body' = "aborted" /\ wire' \in {0, wire}
  /\ UNCHANGED <<kind, pooled, out, sent, driverVars, viewerVars, faults>>

(* Its runtime is dropped, and a forwarder on it cancelled.  The sender is  *)
(* dropped with the forwarder, which ends the body; but a connection the    *)
(* call itself opened is driven by that runtime too, and dies with what it  *)
(* had not sent.                                                            *)
DropRuntime ==
  /\ row \in {"open", "complete"} /\ runtime = "up" /\ CallOver
  /\ runtime' = "dropped"
  /\ forwarder' = IF forwarder = "forwarding" THEN "cancelled" ELSE forwarder
  /\ \/ pooled /\ EndBody /\ UNCHANGED wire
     \/ /\ ~pooled
        /\ body # "ended" \/ task = "storing"
        /\ body' = "aborted" /\ wire' \in {0, wire}
     \/ /\ ~pooled /\ body = "ended"     \* all of it had been sent
        /\ UNCHANGED <<body, wire>>
  /\ UNCHANGED <<kind, pooled, out, sent, driverVars, viewerVars, faults>>

(* The connection is lost, with what was on it. *)
ConnLost ==
  /\ Fault
  /\ task = "storing" /\ body \in {"open", "ended"}
  /\ body' = "aborted" /\ wire' \in {0, wire}
  /\ UNCHANGED <<runnerVars, driverVars, viewerVars>>

------------------------------------------------------------------------------
(* The driver *)

(* store_all: a chunk is given to the file once the last one is written. *)
StoreChunk ==
  /\ task = "storing" /\ wire = 1 /\ writing = "none"
  /\ wire' = 0 /\ writing' = "writing"
  /\ UNCHANGED <<runnerVars, body, token, row, task, file, viewerVars, faults>>

(* tokio's File writes on a thread of its own. *)
WriteFile ==
  /\ writing = "writing"
  /\ writing' = "none" /\ file' = file + 1
  /\ UNCHANGED <<runnerVars, body, wire, token, row, task, viewerVars, faults>>

(* The write fails; the File says so at the next one. *)
WriteFails ==
  /\ Fault
  /\ writing = "writing" /\ writing' = "lost"
  /\ UNCHANGED <<runnerVars, body, wire, token, row, task, file, viewerVars>>

(* store_all ends with that error, and its caller panics: the rest of the   *)
(* body goes unread.                                                        *)
StoreChunkFails ==
  /\ task = "storing" /\ wire = 1 /\ writing = "lost"
  /\ task' = "panicked" /\ body' = "aborted" /\ wire' = 0
  /\ UNCHANGED <<runnerVars, token, row, writing, file, viewerVars, faults>>

(* The body has ended; nobody asks whether the last write went well. *)
StoreEnd ==
  /\ task = "storing" /\ wire = 0 /\ body = "ended"
  /\ task' = "finalizing"
  /\ UNCHANGED <<runnerVars, body, wire, token, row, writing, file, viewerVars, faults>>

(* Faulty variant: the error of store_all is ignored. *)
StoreFails_finalizes ==
  /\ task = "storing" /\ wire = 0 /\ body = "aborted"
  /\ task' = "finalizing"
  /\ UNCHANGED <<runnerVars, body, wire, token, row, writing, file, viewerVars, faults>>

(* Reading the body fails: `store_all(..).await.unwrap()`. *)
StoreFails ==
  /\ task = "storing" /\ wire = 0 /\ body = "aborted"
  /\ task' = "panicked"
  /\ UNCHANGED <<runnerVars, body, wire, token, row, writing, file, viewerVars, faults>>

(* finalize_artifact *)
FinalizeArtifact ==
  /\ task = "finalizing"
  /\ row' = "complete" /\ task' = "done"
  /\ UNCHANGED <<runnerVars, body, wire, token, writing, file, viewerVars, faults>>

(* The driver is killed and started again: its tasks are gone, and maybe    *)
(* what was not written; nothing looks at artifacts left open.              *)
DriverRestart ==
  /\ Fault
  /\ task' = IF task \in {"storing", "finalizing"} \/ row = "reserved"
              THEN "killed" ELSE task
  /\ body' = IF body \in {"open", "ended"} /\ task = "storing" THEN "aborted" ELSE body
  /\ wire' = 0
  /\ writing' \in {writing, IF writing = "none" THEN "none" ELSE "lost"}
  /\ UNCHANGED <<runnerVars, token, row, file, viewerVars>>

------------------------------------------------------------------------------
(* The web server *)

(* The task of a live artifact is under way. *)
Tailing == {"opening", "reading", "waiting"}

GotoTail(v, step) == tail' = [tail EXCEPT ![v] = step]

(* handle_get_artifact: a row that is not complete is tailed. *)
GetArtifact(v) ==
  /\ tail[v] = "none"
  /\ GotoTail(v, CASE row \in {"none", "refused"}  -> "not found"
                   [] row \in {"reserved", "open"} -> "opening"
                   [] row = "complete"             -> "all done")
  /\ UNCHANGED <<runnerVars, body, wire, driverVars, pos, peer, faults>>

(* The spawned task opens the file, which may not be there yet. *)
OpenTail(v) ==
  /\ tail[v] = "opening"
  /\ GotoTail(v, IF row = "reserved" THEN "panicked" ELSE "reading")
  /\ UNCHANGED <<runnerVars, body, wire, driverVars, pos, peer, faults>>

(* forward_data copies up to the present end of the file.  With the duplex  *)
(* stream full it waits for the viewer; once the viewer is gone the write   *)
(* fails, the chunk is spent, and the loop calls it again at once.          *)
ReadTail(v) ==
  /\ tail[v] = "reading"
  /\ \/ /\ pos[v] < file /\ peer[v] # "stalled"
        /\ pos' = [pos EXCEPT ![v] = @ + 1] /\ UNCHANGED tail
     \/ pos[v] = file /\ GotoTail(v, "waiting") /\ UNCHANGED pos
  /\ UNCHANGED <<runnerVars, body, wire, driverVars, peer, faults>>

(* Faulty variant: the row is not looked up again. *)
PollArtifact_staleRow(v) ==
  /\ tail[v] = "waiting"
  /\ GotoTail(v, "reading")
  /\ UNCHANGED <<runnerVars, body, wire, driverVars, pos, peer, faults>>

(* After 250 ms at the end the row is looked up again; once it is complete,  *)
(* "we've sent the whole thing".                                            *)
PollArtifact(v) ==
  /\ tail[v] = "waiting"
  /\ GotoTail(v, IF row = "complete" THEN "finished" ELSE "reading")
  /\ UNCHANGED <<runnerVars, body, wire, driverVars, pos, peer, faults>>

(* A viewer stops reading, or goes on, *)
ViewerStalls(v) ==
  /\ tail[v] \in Tailing /\ peer[v] # "gone"
  /\ peer' = [peer EXCEPT ![v] = IF @ = "reads" THEN "stalled" ELSE "reads"]
  /\ UNCHANGED <<runnerVars, body, wire, driverVars, tail, pos, faults>>

(* or goes away, which drops the receiving end; nobody tells the task. *)
ViewerLeaves(v) ==
  /\ tail[v] \in Tailing /\ peer[v] # "gone"
  /\ peer' = [peer EXCEPT ![v] = "gone"]
  /\ UNCHANGED <<runnerVars, body, wire, driverVars, tail, pos, faults>>

------------------------------------------------------------------------------

RunnerStep == WriteOutput \/ Forward \/ ForwardEnd \/ DropRuntime
DriverStep == OpenArtifact \/ StoreChunk \/ StoreChunkFails \/ WriteFile \/ StoreEnd
              \/ StoreFails \/ FinalizeArtifact
TailStep(v) == OpenTail(v) \/ ReadTail(v) \/ PollArtifact(v)

Next == \/ RecordToken \/ ExpireToken \/ RefuseArtifact \/ ReserveRow
        \/ RunnerStep \/ ForwardFails \/ DriverStep
        \/ ConnLost \/ WriteFails \/ DriverRestart
        \/ \E v \in Viewers : GetArtifact(v) \/ TailStep(v) \/ ViewerStalls(v) \/ ViewerLeaves(v)

Spec == Init /\ [][Next]_vars

(* The kernel, tokio and the file thread run what can run.  Nobody has to   *)
(* look at an artifact, and a token need not expire while a run is on.      *)
Fairness == /\ WF_vars(RunnerStep) /\ WF_vars(DriverStep)
            /\ \A v \in Viewers : WF_vars(TailStep(v))

FairSpec == Spec /\ Fairness

------------------------------------------------------------------------------
(* Properties *)

(* A complete artifact was sent whole, unless it is the output of a build   *)
(* command, cut where its runtime was dropped, or a file that could not be  *)
(* read; and the file has all that was sent but for the last chunk, which   *)
(* may still be on its way there, or lost to a restart or a failed write.   *)
CompleteIsWhole == row = "complete" =>
  /\ sent = Chunks \/ kind = "step" \/ (kind = "file" /\ forwarder = "failed")
  /\ file = sent \/ (writing # "none" /\ file = sent - 1)

(* An upload the driver accepted is finished by it, one way or the other.   *)
UploadsSettle == (task = "storing") ~> (task # "storing")

(* Without faults a command whose output is stored is never left blocked on *)
(* its pipe: it writes all of it.                                           *)
OutputDrains == (row = "open") ~> (out = Chunks \/ faults > 0)

(* A tail of an artifact that is complete ends, also that of a viewer who   *)
(* has gone away; only one who neither leaves nor reads can hold it up.     *)
TailsEnd == \A v \in Viewers :
  (tail[v] \in Tailing /\ row = "complete")
    ~> (tail[v] \in {"finished", "panicked"} \/ peer[v] = "stalled")

(* "artifact {} is done being written, and we've sent the whole thing": a   *)
(* tail that says so has sent all of the file.                              *)
LiveTailIsWhole == \A v \in Viewers :
  tail[v] = "finished" /\ peer[v] # "gone" => pos[v] = file
==============================================================================
