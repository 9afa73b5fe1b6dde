----------------------------- MODULE FaultProofs -----------------------------
(***************************************************************************)
(* Proofs about FeedRelay: what faults and restarts may cost, whether or   *)
(* not Apalis hands out again the job of a dead worker.  How many posts a  *)
(* tap can put into Buffer's queue, and which steps leave a run behind in  *)
(* flight.                                                                 *)
(***************************************************************************)
EXTENDS FeedRelayProofs

USE DatabaseAssumption, TriggerAssumption, FeedRelayAssumption
    DEF DatabaseAssumption, TriggerAssumption, FeedRelayAssumption

-----------------------------------------------------------------------------
(* The jobs of the runs that execute.                                      *)

\* The worker holds the jobs of the runs it executes, and only an accepted tap
\* has a job at all.
JobInv ==
  \A r \in RunIds : /\ pipe[r].pc # "idle" => jobs[r] = "locked"
                    /\ tap[r] # "accepted" => jobs[r] = "none"

\* The places of execute_run before it sends the createPost request.
BeforeSend == {"start", "dedup", "select", "caption", "media", "send"}

\* Every step of execute_run leaves the jobs alone, and sends at most one
\* request, when it leaves the places before.
LEMMA PipelineMoves ==
  ASSUME SafeInv, NEW r \in RunIds, PipelineStep(r)
  PROVE  /\ UNCHANGED <<jobs, handoffs>>
         /\ pipe[r].pc # "idle" /\ pipe'[r].pc # "idle"
         /\ OthersWait(r)
         /\ pipe'[r].pc \in BeforeSend => pipe[r].pc \in BeforeSend
         /\ \/ UNCHANGED wire
            \/ /\ pipe[r].pc = "send" /\ pipe'[r].pc = "awaiting"
               /\ wire' = wire \cup {CurrentRequest(r)}
<1>0. pipe \in [RunIds -> Locals]
  BY SafeTypes
<1>1. CASE ReadDedupSet(r) \/ SelectAsset(r)
  <2>1. UNCHANGED <<jobs, wire, handoffs>> /\ pipe[r].pc \in {"dedup", "select"}
    BY <1>1 DEF ReadDedupSet, SelectAsset, At, NoWrite, KeepRows
  <2>. QED
    BY <2>1, StepMoves DEF BeforeSend
<1>2. CASE SendToBuffer(r)
  BY <1>0, <1>2, GotoLocals DEF SendToBuffer, At, NoWrite, KeepRows, PipeStates, BeforeSend
<1>3. CASE \/ MarkRunning(r) \/ GetCaption(r) \/ SearchOrCaptionFails(r) \/ InsertMedia(r)
           \/ BufferReplies(r) \/ BufferFails(r) \/ BeginTx(r) \/ InsertPost(r)
           \/ MarkSucceeded(r) \/ CommitTx(r) \/ MarkFailed(r)
  <2>1. UNCHANGED <<jobs, wire, handoffs>>
    BY <1>3 DEF MarkRunning, GetCaption, SearchOrCaptionFails, InsertMedia, BufferReplies,
                BufferFails, BeginTx, InsertPost, MarkSucceeded, CommitTx, MarkFailed,
                DbStep, RemoteError, RunMarkRunning, RunMarkFailed, SetStatus,
                CommitSuccess, NoWrite, KeepRows
  <2>2. \E pc \in PipeStates \ {"idle"} :
          Goto(r, pc) /\ (pc \in BeforeSend => pipe[r].pc \in BeforeSend)
    BY <1>3 DEF MarkRunning, GetCaption, SearchOrCaptionFails, InsertMedia, BufferReplies,
                BufferFails, BeginTx, InsertPost, MarkSucceeded, CommitTx, MarkFailed,
                DbStep, RemoteError, At, PipeStates, BeforeSend
  <2>. QED
    BY <1>0, <2>1, <2>2, StepMoves, GotoLocals
<1>. QED
  BY <1>1, <1>2, <1>3 DEF PipelineStep

\* Buffer leaves the tables alone, and the pipelines where they stand.
LEMMA BufferMoves ==
  ASSUME SafeInv, BufferStep
  PROVE  /\ UNCHANGED <<status, jobs, writeLock, faults>>
         /\ \A r \in RunIds : pipe'[r].pc = pipe[r].pc
<1>1. PICK q \in wire : BufferAccepts(q) \/ BufferRefuses(q)
  BY DEF BufferStep
<1>2. \A r \in RunIds : pipe'[r].pc = pipe[r].pc
  BY <1>1, BufferStepPipe
<1>. QED
  BY <1>1, <1>2 DEF BufferAccepts, BufferRefuses, NoWrite, KeepRows, Ok

\* The handler of a tap pushes the job of its own run, and only as it answers.
LEMMA TapMoves ==
  ASSUME TypeOK, NEW r \in RunIds, Gate(r) \/ TapStep(r) \/ DropTap(r),
         \A q \in RunIds : tap[q] # "accepted" => jobs[q] = "none"
  PROVE  /\ \A q \in RunIds : tap'[q] # "accepted" => jobs'[q] = "none"
         /\ \/ UNCHANGED jobs
            \/ jobs[r] = "none" /\ jobs' = [jobs EXCEPT ![r] = "pending"]
<1>0. tap \in [RunIds -> TapStates] /\ jobs \in [RunIds -> JobStates]
  BY TypeParts DEF TriggerTypeOK, DatabaseTypeOK
<1>1. CASE Enqueue(r) /\ PushJob(r) /\ TapGoto(r, "accepted")
  BY <1>0, <1>1 DEF Enqueue, PushJob, SetJob, TapGoto
<1>2. CASE /\ UNCHANGED jobs /\ tap[r] # "accepted"
           /\ \E t \in TapStates : TapGoto(r, t)
  BY <1>0, <1>2 DEF TapGoto
<1>3. CASE UNCHANGED jobs
  <2>1. tap[r] # "accepted"
    BY DEF Gate, TapStep, InsertRun, Enqueue, GiveUp, DropTap, InHandler
  <2>2. \E t \in TapStates : TapGoto(r, t)
    BY DEF Gate, TapStep, InsertRun, Enqueue, GiveUp, DropTap, TapStates, InHandler, Answers
  <2>. QED
    BY <1>2, <1>3, <2>1, <2>2
<1>4. UNCHANGED jobs \/ (Enqueue(r) /\ PushJob(r) /\ TapGoto(r, "accepted"))
  BY DEF Gate, TapStep, InsertRun, Enqueue, GiveUp, DropTap, RunInsert, RunMarkFailed,
         SetStatus, NoWrite, KeepRows
<1>. QED
  BY <1>1, <1>3, <1>4

\* At the start the worker has nothing to do.
LEMMA JobInvInit == Init => JobInv
BY DEF Init, DatabaseInit, TriggerInit, PipelineInit, NoPipe, JobInv

\* JobInv is inductive: a job is pushed again only when no pipeline has its run.
LEMMA JobInvStep == SafeInv /\ JobInv /\ [Next]_vars => JobInv'
<1>. SUFFICES ASSUME SafeInv, JobInv, [Next]_vars PROVE JobInv'
  OBVIOUS
<1>0. /\ TypeOK /\ jobs \in [RunIds -> JobStates] /\ tap \in [RunIds -> TapStates]
      /\ \A r \in RunIds : tap[r] # "accepted" => jobs[r] = "none"
  BY SafeTypes DEF SafeInv, JobInv
<1>1. ASSUME NEW r \in RunIds, Arrive(r) \/ Handle(r) \/ Disconnect(r)
      PROVE  JobInv'
  <2>1. (Gate(r) \/ TapStep(r) \/ DropTap(r)) /\ UNCHANGED pipe
    BY <1>1 DEF Arrive, Handle, Disconnect, pipeVars
  <2>. QED
    BY <1>0, <2>1, TapMoves DEF JobInv
<1>2. ASSUME NEW r \in RunIds, PickUp(r)
      PROVE  JobInv'
  <2>1. /\ jobs[r] = "pending" /\ jobs' = [jobs EXCEPT ![r] = "locked"]
        /\ UNCHANGED tap /\ OthersWait(r)
    BY <1>2, WorkerMoves DEF PickUp, LockJob, SetJob
  <2>. QED
    BY <1>0, <2>1 DEF JobInv, OthersWait
<1>3. ASSUME NEW r \in RunIds, Redeliver(r)
      PROVE  JobInv'
  <2>1. /\ jobs[r] = "locked" /\ pipe[r].pc = "idle"
        /\ jobs' = [jobs EXCEPT ![r] = "pending"] /\ UNCHANGED <<tap, pipe>>
    BY <1>3 DEF Redeliver, At, PushJob, SetJob, pipeVars
  <2>. QED
    BY <1>0, <2>1 DEF JobInv
<1>4. ASSUME NEW r \in RunIds, Work(r)
      PROVE  JobInv'
  BY <1>4, PipelineMoves DEF Work, JobInv, OthersWait
<1>5. ASSUME NEW r \in RunIds, Ack(r)
      PROVE  JobInv'
  <2>1. /\ jobs[r] = "locked" /\ jobs' = [jobs EXCEPT ![r] = "done"]
        /\ UNCHANGED tap /\ pipe'[r] = NoPipe /\ OthersWait(r)
    BY <1>5, WorkerMoves DEF Ack, AckJob, SetJob, JobInv
  <2>2. NoPipe.pc = "idle"
    BY DEF NoPipe
  <2>. QED
    BY <1>0, <2>1, <2>2 DEF JobInv, OthersWait
<1>6. CASE WorkerExit \/ Stop
  <2>1. UNCHANGED jobs /\ \A r \in RunIds : pipe'[r].pc = "idle"
    BY <1>6 DEF WorkerExit, Stop, DropPipes, KeepRows, NoPipe
  <2>2. \A r \in RunIds : tap'[r] # "accepted" => tap[r] # "accepted"
    BY <1>0, <1>6 DEF WorkerExit, Stop, AbortTaps, InHandler
  <2>. QED
    BY <1>0, <2>1, <2>2 DEF JobInv
<1>7. CASE Buffer
  BY <1>7, BufferMoves DEF Buffer, JobInv
<1>8. CASE Restart \/ UNCHANGED vars
  BY <1>8 DEF Restart, vars, dbVars, pipeVars, JobInv
<1>. QED
  BY <1>1, <1>2, <1>3, <1>4, <1>5, <1>6, <1>7, <1>8 DEF Next, Quiet

-----------------------------------------------------------------------------
(* One hand-off per tap and process incarnation.                           *)

Requests(r) == {q \in wire : q.run = r}

\* What Buffer has taken for a run, and what it still may take.
Sent(r) == Len(handoffs[r]) + Cardinality(Requests(r))

\* The restarts for which a run may have sent a request before.
Spent == IF Redelivery THEN boots ELSE 0

\* The run may be executed from before step 13 in this incarnation: its job is
\* on its way to the worker, in it, or can be given back to the queue.
MaySend(r) ==
  \/ jobs[r] \in {"none", "pending"}
  \/ pipe[r].pc \in BeforeSend
  \/ /\ Redelivery
     /\ jobs[r] = "locked"
     /\ pipe[r].pc = "idle"
     /\ worker = "serving" \/ ~up

\* A run that may still send has not done so in this incarnation.
SendInv ==
  /\ IsFiniteSet(wire)
  /\ \A r \in RunIds : /\ Sent(r) <= 1 + Spent
                       /\ MaySend(r) => Sent(r) <= Spent

\* The counts are numbers.
LEMMA SentType ==
  ASSUME SafeInv, IsFiniteSet(wire), NEW r \in RunIds
  PROVE  /\ IsFiniteSet(Requests(r)) /\ Cardinality(Requests(r)) \in Nat
         /\ Len(handoffs[r]) \in Nat /\ Sent(r) \in Nat /\ Spent \in Nat
<1>1. IsFiniteSet(Requests(r)) /\ Cardinality(Requests(r)) \in Nat
  BY FS_Subset, FS_CardinalityType DEF Requests
<1>2. handoffs[r] \in Seq(Assets) /\ boots \in Nat
  BY SafeTypes DEF ProcTypeOK
<1>. QED
  BY <1>1, <1>2 DEF Sent, Spent

\* Sending a request counts one for its run and nothing for another.
LEMMA SentBySending ==
  ASSUME SafeInv, IsFiniteSet(wire), NEW q \in Request, NEW r \in RunIds,
         wire' = wire \cup {q}, UNCHANGED handoffs
  PROVE  /\ IsFiniteSet(wire')
         /\ Sent(r)' \in Nat
         /\ Sent(r)' <= Sent(r) + 1
         /\ q.run # r => Sent(r)' = Sent(r)
<1>1. IsFiniteSet(wire')
  BY FS_AddElement
<1>2. CASE q.run = r
  <2>1. Requests(r)' = Requests(r) \cup {q}
    BY <1>2 DEF Requests
  <2>2. \/ Cardinality(Requests(r)') = Cardinality(Requests(r)) + 1
        \/ Cardinality(Requests(r)') = Cardinality(Requests(r))
    BY <2>1, SentType, FS_AddElement
  <2>3. Sent(r)' \in {Sent(r), Sent(r) + 1}
    BY <2>2, SentType DEF Sent
  <2>. QED
    BY <1>1, <1>2, <2>3, SentType
<1>3. CASE q.run # r
  <2>1. Requests(r)' = Requests(r)
    BY <1>3 DEF Requests
  <2>2. Sent(r)' = Sent(r)
    BY <2>1 DEF Sent
  <2>. QED
    BY <1>1, <2>2, SentType
<1>. QED
  BY <1>2, <1>3

\* What Buffer takes it takes from the wire, so nothing is counted twice.
LEMMA SentByBuffer ==
  ASSUME SafeInv, IsFiniteSet(wire), BufferStep, NEW r \in RunIds
  PROVE  IsFiniteSet(wire') /\ Sent(r)' \in Nat /\ Sent(r)' <= Sent(r)
<1>1. PICK q \in wire : BufferAccepts(q) \/ BufferRefuses(q)
  BY DEF BufferStep
<1>2. /\ q.run \in RunIds /\ q.asset \in Assets
      /\ handoffs \in [RunIds -> Seq(Assets)]
  BY SafeTypes DEF Request
<1>3. wire' = wire \ {q} /\ IsFiniteSet(wire')
  BY <1>1, FS_RemoveElement DEF BufferAccepts, BufferRefuses
<1>4. CASE q.run = r
  <2>1. Requests(r)' = Requests(r) \ {q} /\ q \in Requests(r)
    BY <1>3, <1>4 DEF Requests
  <2>2. Cardinality(Requests(r)') = Cardinality(Requests(r)) - 1
    BY <2>1, SentType, FS_RemoveElement
  <2>3. Len(handoffs'[r]) = Len(handoffs[r]) \/ Len(handoffs'[r]) = Len(handoffs[r]) + 1
    BY <1>1, <1>2, <1>4 DEF BufferAccepts, BufferRefuses
  <2>4. Sent(r) # 0
    <3>1. Cardinality(Requests(r)) # 0
      BY <2>1, SentType, FS_EmptySet
    <3>. QED
      BY <3>1, SentType DEF Sent
  <2>5. Sent(r)' = Sent(r) - 1 \/ Sent(r)' = Sent(r)
    <3>1. Len(handoffs[r]) \in Nat /\ Cardinality(Requests(r)) \in Nat
      BY SentType
    <3>2. Sent(r) = Len(handoffs[r]) + Cardinality(Requests(r))
      BY DEF Sent
    <3>3. Sent(r)' = Len(handoffs'[r]) + Cardinality(Requests(r)')
      BY DEF Sent
    <3>. QED
      BY <2>2, <2>3, <3>1, <3>2, <3>3
  <2>. QED
    BY <1>3, <2>4, <2>5, SentType
<1>5. CASE q.run # r
  <2>1. Requests(r)' = Requests(r)
    BY <1>3, <1>5 DEF Requests
  <2>2. handoffs'[r] = handoffs[r]
    BY <1>1, <1>2, <1>5 DEF BufferAccepts, BufferRefuses
  <2>. QED
    BY <1>3, <2>1, <2>2, SentType DEF Sent
<1>. QED
  BY <1>4, <1>5

\* A step that sends nothing keeps SendInv if no run may send that could not.
LEMMA SendsNothing ==
  ASSUME SafeInv, SendInv, UNCHANGED <<wire, handoffs>>, UNCHANGED boots,
         \A r \in RunIds : MaySend(r)' => MaySend(r)
  PROVE  SendInv'
<1>1. \A r \in RunIds : Sent(r)' = Sent(r)
  BY DEF Sent, Requests
<1>2. Spent' = Spent
  BY DEF Spent
<1>. QED
  BY <1>1, <1>2 DEF SendInv

\* At the start nothing was sent.
LEMMA SendInvInit == Init => SendInv
<1>. SUFFICES ASSUME Init PROVE SendInv
  OBVIOUS
<1>1. wire = {} /\ IsFiniteSet(wire)
  BY FS_EmptySet DEF Init, PipelineInit
<1>2. ASSUME NEW r \in RunIds
      PROVE  Sent(r) = 0
  <2>1. Requests(r) = {} /\ handoffs[r] = <<>>
    BY <1>1 DEF Requests, Init, PipelineInit
  <2>. QED
    BY <2>1, FS_EmptySet DEF Sent
<1>3. Spent \in Nat
  BY DEF Init, Spent
<1>. QED
  BY <1>1, <1>2, <1>3 DEF SendInv

\* SendInv is inductive: a run gets back before step 13 only with a new boot.
LEMMA SendInvStep == SafeInv /\ JobInv /\ SendInv /\ [Next]_vars => SendInv'
<1>. SUFFICES ASSUME SafeInv, JobInv, SendInv, [Next]_vars PROVE SendInv'
  OBVIOUS
<1>0. /\ TypeOK /\ jobs \in [RunIds -> JobStates] /\ wire \subseteq Request
      /\ pipe \in [RunIds -> Locals] /\ boots \in Nat /\ IsFiniteSet(wire)
      /\ \A r \in RunIds : tap[r] # "accepted" => jobs[r] = "none"
  BY SafeTypes DEF SafeInv, JobInv, SendInv, ProcTypeOK
<1>1. ASSUME NEW r \in RunIds, Arrive(r) \/ Handle(r) \/ Disconnect(r)
      PROVE  SendInv'
  <2>1. /\ Gate(r) \/ TapStep(r) \/ DropTap(r)
        /\ UNCHANGED <<pipe, wire, handoffs, stage, worker, boots>>
    BY <1>1 DEF Arrive, Handle, Disconnect, pipeVars, procVars, bootVars
  <2>2. \/ UNCHANGED jobs
        \/ jobs[r] = "none" /\ jobs' = [jobs EXCEPT ![r] = "pending"]
    BY <1>0, <2>1, TapMoves
  <2>. QED
    BY <1>0, <2>1, <2>2, SendsNothing DEF MaySend, up
<1>2. ASSUME NEW r \in RunIds, PickUp(r)
      PROVE  SendInv'
  <2>1. /\ jobs[r] = "pending" /\ jobs' = [jobs EXCEPT ![r] = "locked"]
        /\ UNCHANGED <<wire, handoffs, stage, worker, boots>> /\ OthersWait(r)
    BY <1>2, WorkerMoves DEF PickUp, LockJob, SetJob, procVars, bootVars
  <2>. QED
    BY <1>0, <2>1, SendsNothing DEF MaySend, up, OthersWait
<1>3. ASSUME NEW r \in RunIds, Redeliver(r)
      PROVE  SendInv'
  <2>1. MaySend(r)
    BY <1>3 DEF Redeliver, MaySend, At
  <2>2. /\ jobs' = [jobs EXCEPT ![r] = "pending"]
        /\ UNCHANGED <<pipe, wire, handoffs, stage, worker, boots>>
    BY <1>3 DEF Redeliver, PushJob, SetJob, pipeVars, procVars, bootVars
  <2>. QED
    BY <1>0, <2>1, <2>2, SendsNothing DEF MaySend, up
<1>4. ASSUME NEW p \in RunIds, Work(p)
      PROVE  SendInv'
  <2>1. PipelineStep(p) /\ UNCHANGED <<stage, worker, boots>>
    BY <1>4 DEF Work, procVars, bootVars
  <2>2. \A r \in RunIds : MaySend(r)' => MaySend(r)
    BY <2>1, PipelineMoves DEF MaySend, up, OthersWait
  <2>3. CASE UNCHANGED wire
    BY <2>1, <2>2, <2>3, PipelineMoves, SendsNothing
  <2>4. CASE /\ pipe[p].pc = "send" /\ pipe'[p].pc = "awaiting"
             /\ wire' = wire \cup {CurrentRequest(p)}
    <3>1. CurrentRequest(p) \in Request /\ CurrentRequest(p).run = p
      BY <1>0, <2>4 DEF CurrentRequest, Request, Locals, SafeInv, LocalsOK, LocalsOf,
                        HasAsset, HasSnapshot
    <3>2. MaySend(p) /\ ~MaySend(p)'
      BY <2>1, <2>4, PipelineMoves DEF MaySend, JobInv, BeforeSend
    <3>3. Spent' = Spent
      BY <2>1 DEF Spent
    <3>4. ASSUME NEW r \in RunIds
          PROVE  /\ IsFiniteSet(wire') /\ Sent(r)' <= 1 + Spent'
                 /\ MaySend(r)' => Sent(r)' <= Spent'
      <4>1. /\ IsFiniteSet(wire') /\ Sent(r)' <= Sent(r) + 1
            /\ p # r => Sent(r)' = Sent(r)
        BY <1>0, <2>1, <2>4, <3>1, PipelineMoves, SentBySending
      <4>2. Sent(r) \in Nat /\ Spent \in Nat /\ Sent(r)' \in Nat
        BY <1>0, <2>1, <2>4, <3>1, PipelineMoves, SentBySending, SentType
      <4>3. CASE p = r
        BY <3>2, <3>3, <4>1, <4>2, <4>3 DEF SendInv
      <4>4. CASE p # r
        BY <2>2, <3>3, <4>1, <4>2, <4>4 DEF SendInv
      <4>. QED
        BY <4>1, <4>3, <4>4
    <3>5. IsFiniteSet(wire')
      BY <1>0, <2>4, FS_AddElement
    <3>. QED
      BY <3>4, <3>5 DEF SendInv
  <2>. QED
    BY <2>1, <2>3, <2>4, PipelineMoves
<1>5. ASSUME NEW r \in RunIds, Ack(r)
      PROVE  SendInv'
  <2>1. /\ jobs' = [jobs EXCEPT ![r] = "done"] /\ OthersWait(r)
        /\ pipe'[r] = NoPipe /\ UNCHANGED <<wire, handoffs, stage, worker, boots>>
    BY <1>5, WorkerMoves DEF Ack, AckJob, SetJob, procVars, bootVars
  <2>2. NoPipe.pc = "idle"
    BY DEF NoPipe
  <2>. QED
    BY <1>0, <2>1, <2>2, SendsNothing DEF MaySend, up, OthersWait, BeforeSend
<1>6. CASE WorkerExit
  <2>1. /\ UNCHANGED <<jobs, wire, handoffs, stage, boots>> /\ up
        /\ worker' = "exited" /\ \A r \in RunIds : pipe'[r].pc = "idle"
    BY <1>6 DEF WorkerExit, DropPipes, NoPipe, KeepRows, bootVars
  <2>. QED
    BY <1>0, <2>1, SendsNothing DEF MaySend, up, BeforeSend
<1>7. CASE Stop
  <2>1. /\ UNCHANGED <<jobs, wire, handoffs>> /\ boots' = boots + 1
        /\ \A r \in RunIds : pipe'[r].pc = "idle"
    BY <1>7 DEF Stop, DropPipes, NoPipe, KeepRows
  <2>2. \A r \in RunIds : Sent(r)' = Sent(r) /\ Sent(r) \in Nat
    BY <1>0, <2>1, SentType DEF Sent, Requests
  <2>3. CASE Redelivery
    <3>1. Spent' = Spent + 1 /\ Spent \in Nat
      BY <1>0, <2>1, <2>3 DEF Spent
    <3>. QED
      BY <1>0, <2>1, <2>2, <3>1 DEF SendInv
  <2>4. CASE ~Redelivery
    <3>1. Spent' = Spent
      BY <2>4 DEF Spent
    <3>2. \A r \in RunIds : MaySend(r)' => MaySend(r)
      BY <2>1, <2>4 DEF MaySend, BeforeSend
    <3>. QED
      BY <1>0, <2>1, <2>2, <3>1, <3>2 DEF SendInv
  <2>. QED
    BY <2>3, <2>4
<1>8. CASE Restart
  <2>1. UNCHANGED <<jobs, pipe, wire, handoffs, boots>> /\ ~up
    BY <1>8 DEF Restart, BootStep, OpenPool, SetupStorage, RunMigrations, up, dbVars, pipeVars
  <2>. QED
    BY <2>1, SendsNothing DEF MaySend
<1>9. CASE Buffer
  <2>1. BufferStep /\ UNCHANGED <<stage, worker, boots>>
    BY <1>9 DEF Buffer, procVars, bootVars
  <2>2. \A r \in RunIds : MaySend(r)' => MaySend(r)
    BY <2>1, BufferMoves DEF MaySend, up
  <2>3. ASSUME NEW r \in RunIds
        PROVE  /\ Sent(r)' <= 1 + Spent'
               /\ MaySend(r)' => Sent(r)' <= Spent'
    <3>1. Sent(r)' \in Nat /\ Sent(r)' <= Sent(r)
      BY <1>0, <2>1, SentByBuffer
    <3>2. Sent(r) \in Nat /\ Spent \in Nat
      BY <1>0, SentType
    <3>3. Spent' = Spent
      BY <2>1 DEF Spent
    <3>. QED
      BY <2>2, <3>1, <3>2, <3>3 DEF SendInv
  <2>4. IsFiniteSet(wire')
    BY <1>0, <2>1, FS_RemoveElement DEF BufferStep, BufferAccepts, BufferRefuses
  <2>. QED
    BY <2>3, <2>4 DEF SendInv
<1>10. CASE UNCHANGED vars
  BY <1>10, SendsNothing DEF vars, dbVars, pipeVars, procVars, bootVars, MaySend, up
<1>. QED
  BY <1>1, <1>2, <1>3, <1>4, <1>5, <1>6, <1>7, <1>8, <1>9, <1>10 DEF Next, Quiet

\* One tap puts at most one post into Buffer's queue, for any number of runs and
\* of jobs at once, lost replies and late requests included; a job that Apalis
\* hands out again may add one for every restart.
THEOREM OneHandOffPerRunHolds == Spec => []OneHandOffPerRun
<1>1. SendInv => OneHandOffPerRun
  <2>. SUFFICES ASSUME SendInv, NEW r \in RunIds
                PROVE  Len(handoffs[r]) + Cardinality({q \in wire : q.run = r})
                         <= 1 + (IF Redelivery THEN boots ELSE 0)
    BY DEF OneHandOffPerRun
  <2>1. Sent(r) <= 1 + Spent
    BY DEF SendInv
  <2>. QED
    BY <2>1 DEF Sent, Requests, Spent
<1>. QED
  BY <1>1, JobInvInit, JobInvStep, SendInvInit, SendInvStep, Safe, PTL DEF Spec

-----------------------------------------------------------------------------
(* What locks the gate for good.                                           *)

Fresh == Orphans' \ Orphans

\* What a run that a step leaves behind was before: it had its handler, a place
\* in the queue or a pipeline, or it was not in flight.
LEMMA FreshWas ==
  ASSUME NEW r \in Fresh
  PROVE  /\ r \in RunIds
         /\ status'[r] \in {"queued", "running"}
         /\ tap'[r] \notin {"inserted", "unqueued"}
         /\ ~Queued(r)' /\ ~InPipeline(r)'
         /\ \/ status[r] \notin {"queued", "running"}
            \/ tap[r] \in {"inserted", "unqueued"}
            \/ Queued(r)
            \/ InPipeline(r)
BY DEF Fresh, Orphans, InFlight

\* A run whose row, handler, job and pipeline stand still is not left behind.
LEMMA StillIsNotFresh ==
  ASSUME NEW r \in RunIds, status'[r] = status[r], tap'[r] = tap[r], jobs'[r] = jobs[r],
         pipe'[r].pc = pipe[r].pc, writeLock' = r => writeLock = r,
         WorkerWillCome => WorkerWillCome'
  PROVE  r \notin Fresh
<1>. SUFFICES ASSUME r \in Fresh PROVE FALSE
  OBVIOUS
<1>1. Queued(r) => Queued(r)'
  BY DEF Queued, At
<1>2. InPipeline(r) => InPipeline(r)'
  BY DEF InPipeline, At
<1>. QED
  BY <1>1, <1>2, FreshWas

\* A handler leaves its run behind when marking it failed fails, when it is
\* dropped, and when it pushes the job to a worker that is gone.
LEMMA TapLeaves ==
  ASSUME SafeInv, NEW r \in RunIds, Gate(r) \/ TapStep(r) \/ DropTap(r),
         UNCHANGED <<pipe, stage, worker>>
  PROVE  /\ Fresh \subseteq {r}
         /\ r \in Fresh => \/ DbFault
                           \/ DropTap(r) /\ r \in Active /\ tap'[r] = "aborted"
                           \/ worker = "exited" /\ r \in Active /\ tap'[r] = "accepted"
<1>0. /\ tap \in [RunIds -> TapStates] /\ jobs \in [RunIds -> JobStates]
      /\ status \in [RunIds -> Statuses] /\ worker \in {"serving", "exited"}
      /\ UNCHANGED writeLock /\ (WorkerWillCome' <=> WorkerWillCome)
  BY SafeTypes, TapStepType DEF SafeInv, ProcTypeOK, WorkerWillCome, up
<1>1. \A q \in RunIds \ {r} : status'[q] = status[q] /\ tap'[q] = tap[q] /\ jobs'[q] = jobs[q]
  BY <1>0 DEF Gate, TapStep, InsertRun, Enqueue, GiveUp, DropTap, RunInsert, RunMarkFailed,
              SetStatus, PushJob, SetJob, TapGoto, NoWrite, KeepRows
<1>2. Fresh \subseteq {r}
  BY <1>0, <1>1, StillIsNotFresh, FreshWas
<1>3. ASSUME r \in Fresh, ~DbFault, ~DropTap(r)
      PROVE  worker = "exited" /\ r \in Active /\ tap'[r] = "accepted"
  <2>1. CASE Gate(r) \/ InsertRun(r)
    <3>1. tap'[r] # "inserted" => UNCHANGED <<status, jobs>>
      BY <1>0, <2>1 DEF Gate, InsertRun, TapGoto, NoWrite, KeepRows, RunInsert, SetStatus
    <3>2. tap[r] \notin {"inserted", "unqueued"}
      BY <2>1 DEF Gate, InsertRun
    <3>3. Queued(r) => Queued(r)'
      BY <1>0, <1>3, <3>1, FreshWas DEF Queued, At
    <3>4. InPipeline(r) => InPipeline(r)'
      BY <1>0 DEF InPipeline, At
    <3>. QED
      BY <1>3, <3>1, <3>2, <3>3, <3>4, FreshWas
  <2>2. CASE Enqueue(r)
    <3>1. Ok /\ PushJob(r) /\ TapGoto(r, "accepted") /\ tap[r] = "inserted"
      BY <1>3, <2>2 DEF Enqueue
    <3>2. jobs'[r] = "pending" /\ tap'[r] = "accepted" /\ r \in Active
      BY <1>0, <3>1 DEF PushJob, SetJob, TapGoto, Active, InHandler
    <3>3. ~WorkerWillCome'
      BY <1>3, <3>2, FreshWas DEF Queued
    <3>. QED
      BY <1>0, <3>2, <3>3 DEF WorkerWillCome
  <2>3. CASE GiveUp(r)
    <3>1. Ok /\ RunMarkFailed(r)
      BY <1>3, <2>3 DEF GiveUp
    <3>2. status'[r] = "failed"
      BY <1>0, <3>1 DEF RunMarkFailed, SetStatus
    <3>. QED
      BY <1>3, <3>2, FreshWas
  <2>. QED
    BY <1>3, <2>1, <2>2, <2>3 DEF TapStep
<1>4. DropTap(r) => r \in Active /\ tap'[r] = "aborted"
  BY <1>0 DEF DropTap, TapGoto, Active
<1>. QED
  BY <1>2, <1>3, <1>4

\* execute_run leaves its run behind only after a database error: at the step
\* that meets it, or in fail! behind the write lock of its own transaction.
LEMMA PipelineLeaves ==
  ASSUME SafeInv, SerialInv, JobInv, NEW r \in RunIds, PipelineStep(r),
         UNCHANGED <<tap, stage, worker>>
  PROVE  Fresh \subseteq {r} /\ (r \in Fresh => DbFault)
<1>0. /\ pipe \in [RunIds -> Locals] /\ status \in [RunIds -> Statuses]
      /\ writeLock \in RunIds \cup {NoRun}
      /\ UNCHANGED jobs /\ OthersWait(r) /\ LocalsOf(r)
      /\ pipe[r].pc # "idle" /\ pipe'[r].pc # "idle" /\ jobs[r] = "locked"
  BY SafeTypes, PipelineMoves DEF SafeInv, LocalsOK, JobInv
<1>1. \A q \in RunIds \ {r} : status'[q] = status[q] /\ (writeLock' = q => writeLock = q)
  BY <1>0 DEF PipelineStep, MarkRunning, ReadDedupSet, SelectAsset, GetCaption,
              SearchOrCaptionFails, InsertMedia, SendToBuffer, BufferReplies, BufferFails,
              BeginTx, InsertPost, MarkSucceeded, CommitTx, MarkFailed, DbStep, RemoteError,
              RunMarkRunning, RunMarkFailed, SetStatus, CommitSuccess, NoWrite, KeepRows,
              LockAfterError, ReleaseLock, Unlocked
<1>2. Fresh \subseteq {r}
  BY <1>0, <1>1, StillIsNotFresh, FreshWas DEF OthersWait, WorkerWillCome, up
<1>3. ASSUME r \in Fresh, ~DbFault
      PROVE  FALSE
  <2>1. /\ pipe'[r].pc = "finished" \/ (pipe'[r].pc = "failing" /\ writeLock' = r)
        /\ status'[r] \in {"queued", "running"}
    BY <1>0, <1>3, FreshWas DEF InPipeline, At
  <2>2. CASE ReadDedupSet(r) \/ SelectAsset(r)
    <3>1. pipe'[r].pc \in {"select", "caption"}
      BY <1>0, <1>3, <2>2 DEF ReadDedupSet, SelectAsset, Locals
    <3>. QED
      BY <2>1, <3>1
  <2>3. CASE \/ MarkRunning(r) \/ GetCaption(r) \/ InsertMedia(r) \/ SendToBuffer(r)
             \/ BufferReplies(r) \/ BeginTx(r) \/ MarkSucceeded(r)
    <3>1. \E pc \in PipeStates \ {"failing", "finished"} : Goto(r, pc)
      BY <1>3, <2>3 DEF MarkRunning, GetCaption, InsertMedia, SendToBuffer, BufferReplies,
                        BeginTx, MarkSucceeded, DbStep, PipeStates
    <3>. QED
      BY <1>0, <2>1, <3>1, GotoLocals
  <2>4. CASE SearchOrCaptionFails(r) \/ BufferFails(r)
    <3>1. writeLock' # r /\ Goto(r, "failing")
      BY <1>0, <2>4 DEF SearchOrCaptionFails, BufferFails, RemoteError, At, NoWrite, LocalsOf
    <3>. QED
      BY <1>0, <2>1, <3>1, GotoLocals DEF PipeStates
  <2>5. CASE InsertPost(r)
    <3>1. pipe[r].asset \notin DedupSet
      BY <1>0, <2>5 DEF InsertPost, At, LocalsOf, SerialInv, HasAsset, HasSnapshot
    <3>2. Goto(r, "txRun")
      BY <1>3, <2>5, <3>1 DEF InsertPost
    <3>. QED
      BY <1>0, <2>1, <3>2, GotoLocals DEF PipeStates
  <2>6. CASE CommitTx(r)
    <3>1. CommitSuccess(r, pipe[r].asset)
      BY <1>3, <2>6 DEF CommitTx
    <3>. QED
      BY <1>0, <2>1, <3>1 DEF CommitSuccess
  <2>7. CASE MarkFailed(r)
    <3>1. ~RunMarkFailed(r)
      BY <1>0, <2>1 DEF RunMarkFailed, SetStatus
    <3>2. writeLock = r /\ KeepRows /\ pipe[r].pc = "failing"
      BY <1>3, <2>7, <3>1 DEF MarkFailed, At
    <3>3. ~Queued(r) /\ ~InPipeline(r) /\ UNCHANGED <<status, tap>>
      BY <1>0, <3>2 DEF Queued, InPipeline, At, KeepRows
    <3>. QED
      BY <1>3, <3>3, FreshWas
  <2>. QED
    BY <2>2, <2>3, <2>4, <2>5, <2>6, <2>7 DEF PipelineStep
<1>. QED
  BY <1>2, <1>3

\* Every step that leaves runs behind is one of those that LeakExplained names.
LEMMA LeakStep ==
  ASSUME SafeInv, SerialInv, JobInv, [Next]_vars
  PROVE  LeakExplained
<1>0. /\ jobs \in [RunIds -> JobStates] /\ tap \in [RunIds -> TapStates]
      /\ faults \in Nat /\ drops \in Nat /\ exits \in Nat /\ boots \in Nat
  BY SafeTypes DEF DatabaseTypeOK, ProcTypeOK
<1>1. CASE Fresh = {}
  BY <1>1 DEF Fresh, LeakExplained
<1>2. ASSUME NEW r, Fresh \subseteq {r}, r \in Fresh => DbFault
      PROVE  LeakExplained
  <2>1. CASE r \in Fresh
    <3>1. Fresh = {r}
      BY <1>2, <2>1
    <3>2. Cardinality({r}) = 1
      BY FS_Singleton
    <3>3. faults' > faults
      BY <1>0, <1>2, <2>1 DEF DbFault
    <3>. QED
      BY <3>1, <3>2, <3>3 DEF Fresh, LeakExplained
  <2>. QED
    BY <1>1, <1>2, <2>1
<1>3. ASSUME NEW r \in RunIds, Arrive(r) \/ Handle(r) \/ Disconnect(r)
      PROVE  LeakExplained
  <2>1. /\ Gate(r) \/ TapStep(r) \/ DropTap(r)
        /\ UNCHANGED <<pipe, stage, worker>>
    BY <1>3 DEF Arrive, Handle, Disconnect, pipeVars, procVars, bootVars
  <2>2. CASE r \in Fresh /\ DropTap(r) /\ r \in Active /\ tap'[r] = "aborted"
    <3>1. Fresh = {r}
      BY <2>1, <2>2, TapLeaves
    <3>2. drops' > drops
      <4>1. ~Gate(r) /\ ~TapStep(r)
        BY <1>0, <2>2 DEF DropTap, TapGoto, Gate, TapStep, InsertRun, Enqueue, GiveUp, InHandler
      <4>. QED
        BY <1>0, <1>3, <4>1 DEF Arrive, Handle, Disconnect
    <3>. QED
      BY <2>2, <3>1, <3>2 DEF Fresh, LeakExplained
  <2>3. CASE r \in Fresh /\ worker = "exited" /\ r \in Active /\ tap'[r] = "accepted"
    <3>1. Fresh = {r}
      BY <2>1, <2>3, TapLeaves
    <3>. QED
      BY <2>3, <3>1 DEF Fresh, LeakExplained
  <2>. QED
    BY <1>2, <2>1, <2>2, <2>3, TapLeaves
<1>4. ASSUME NEW r \in RunIds, PickUp(r)
      PROVE  Fresh = {}
  <2>1. /\ jobs' = [jobs EXCEPT ![r] = "locked"] /\ pipe'[r].pc = "start" /\ OthersWait(r)
        /\ UNCHANGED <<status, writeLock, tap, stage, worker>>
    BY <1>4, WorkerMoves DEF PickUp, LockJob, SetJob, procVars, bootVars
  <2>2. r \notin Fresh
    BY <2>1, FreshWas DEF InPipeline, At
  <2>3. \A q \in RunIds \ {r} : q \notin Fresh
    BY <1>0, <2>1, StillIsNotFresh DEF OthersWait, WorkerWillCome, up
  <2>. QED
    BY <2>2, <2>3, FreshWas
<1>5. ASSUME NEW r \in RunIds, Redeliver(r)
      PROVE  Fresh = {}
  <2>1. /\ jobs' = [jobs EXCEPT ![r] = "pending"] /\ worker = "serving"
        /\ UNCHANGED <<status, writeLock, tap, pipe, stage, worker>>
    BY <1>5 DEF Redeliver, PushJob, SetJob, pipeVars, procVars, bootVars
  <2>2. r \notin Fresh
    BY <1>0, <2>1, FreshWas DEF Queued, WorkerWillCome
  <2>3. \A q \in RunIds \ {r} : q \notin Fresh
    BY <1>0, <2>1, StillIsNotFresh DEF WorkerWillCome, up
  <2>. QED
    BY <2>2, <2>3, FreshWas
<1>6. ASSUME NEW r \in RunIds, Work(r)
      PROVE  LeakExplained
  <2>1. PipelineStep(r) /\ UNCHANGED <<tap, stage, worker>>
    BY <1>6 DEF Work, procVars, bootVars
  <2>. QED
    BY <1>2, <2>1, PipelineLeaves
<1>7. ASSUME NEW r \in RunIds, Ack(r)
      PROVE  Fresh = {}
  <2>1. /\ jobs[r] = "locked" /\ jobs' = [jobs EXCEPT ![r] = "done"]
        /\ pipe[r].pc = "finished" /\ OthersWait(r)
        /\ UNCHANGED <<status, writeLock, tap, stage, worker>>
    BY <1>7, WorkerMoves DEF Ack, AckJob, SetJob, procVars, bootVars, JobInv
  <2>2. r \notin Fresh
    BY <2>1, FreshWas DEF Queued, InPipeline, At
  <2>3. \A q \in RunIds \ {r} : q \notin Fresh
    BY <1>0, <2>1, StillIsNotFresh DEF OthersWait, WorkerWillCome, up
  <2>. QED
    BY <2>2, <2>3, FreshWas
<1>8. CASE WorkerExit
  <2>1. UNCHANGED <<status, tap>> /\ exits' > exits
    BY <1>0, <1>8 DEF WorkerExit, DropPipes, KeepRows
  <2>2. \A r \in Fresh : Queued(r) \/ InPipeline(r)
    BY <2>1, FreshWas
  <2>3. \A r \in Fresh : jobs[r] \in {"pending", "locked"}
    BY <2>2, FreshWas DEF Queued, InPipeline, JobInv
  <2>. QED
    BY <2>1, <2>3, FreshWas DEF Fresh, LeakExplained
<1>9. CASE Stop
  <2>1. /\ UNCHANGED <<status, jobs>> /\ boots' > boots /\ WorkerWillCome'
        /\ \A r \in RunIds : pipe'[r].pc = "idle"
        /\ \A r \in RunIds : tap'[r] = tap[r] \/ r \in Active
    BY <1>0, <1>9
       DEF Stop, DropPipes, KeepRows, NoPipe, AbortTaps, Active, WorkerWillCome, up
  <2>2. ASSUME NEW r \in Fresh, r \notin Active
        PROVE  ~Redelivery /\ r \in Executing
    <3>1. r \in RunIds /\ jobs[r] # "pending" /\ ~(Redelivery /\ jobs[r] = "locked")
      BY <2>1, <2>2, FreshWas DEF Queued, At
    <3>2. InPipeline(r)
      BY <2>1, <2>2, <3>1, FreshWas DEF Queued
    <3>. QED
      BY <3>1, <3>2 DEF InPipeline, JobInv, Executing, At
  <2>3. Fresh \subseteq Active \cup (IF Redelivery THEN {} ELSE Executing)
    BY <2>2
  <2>. QED
    BY <2>1, <2>3 DEF Fresh, LeakExplained
<1>10. CASE Restart
  <2>1. UNCHANGED <<status, jobs, writeLock, tap, pipe>> /\ WorkerWillCome'
    BY <1>10 DEF Restart, dbVars, pipeVars, WorkerWillCome
  <2>2. \A q \in RunIds : q \notin Fresh
    BY <2>1, StillIsNotFresh
  <2>. QED
    BY <1>1, <2>2, FreshWas
<1>11. CASE Buffer
  <2>1. /\ UNCHANGED <<status, jobs, writeLock, tap, stage, worker>>
        /\ \A r \in RunIds : pipe'[r].pc = pipe[r].pc
    BY <1>11, BufferMoves DEF Buffer, procVars, bootVars
  <2>2. \A q \in RunIds : q \notin Fresh
    BY <2>1, StillIsNotFresh DEF WorkerWillCome, up
  <2>. QED
    BY <1>1, <2>2, FreshWas
<1>12. CASE UNCHANGED vars
  <2>1. UNCHANGED <<status, jobs, writeLock, tap, pipe, stage, worker>>
    BY <1>12 DEF vars, dbVars, pipeVars, procVars, bootVars
  <2>2. \A q \in RunIds : q \notin Fresh
    BY <2>1, StillIsNotFresh DEF WorkerWillCome, up
  <2>. QED
    BY <1>1, <2>2, FreshWas
<1>. QED
  BY <1>1, <1>3, <1>4, <1>5, <1>6, <1>7, <1>8, <1>9, <1>10, <1>11, <1>12 DEF Next, Quiet

\* What locks the gate for good, for any number of runs, handlers, faults, exits
\* and stops, and whatever Apalis does with locked jobs: a run is left behind by
\* a database error, a dropped handler, the exit of the worker and what is pushed
\* after it, or a stop, and each leaves no more runs than it says.
THEOREM LeaksAreExplainedHolds ==
  ASSUME JobSlots = 1
  PROVE  Spec => LeaksAreExplained
<1>1. SafeInv /\ SerialInv /\ JobInv /\ [Next]_vars => [LeakExplained]_vars
  BY LeakStep
<1>. QED
  BY <1>1, JobInvInit, JobInvStep, Safe, Serial, PTL DEF Spec, LeaksAreExplained
=============================================================================
