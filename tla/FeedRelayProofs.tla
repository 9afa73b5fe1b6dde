-------------------------- MODULE FeedRelayProofs --------------------------
(***************************************************************************)
(* Proofs about FeedRelay, for any number of runs and assets, of handlers  *)
(* and jobs at once, and of database errors, worker exits and restarts.    *)
(***************************************************************************)
EXTENDS FeedRelay, TLAPS, FiniteSetTheorems

USE DatabaseAssumption, TriggerAssumption, FeedRelayAssumption
    DEF DatabaseAssumption, TriggerAssumption, FeedRelayAssumption

-----------------------------------------------------------------------------
(* Type correctness *)

ProcTypeOK ==
  /\ BootTypeOK
  /\ worker \in {"serving", "exited"}
  /\ boots \in 0..MaxBoots
  /\ exits \in 0..MaxExits
  /\ drops \in 0..MaxDrops

\* The type invariant, by component: each step disturbs one or two of them.
LEMMA TypeParts ==
  TypeOK <=> DatabaseTypeOK /\ TriggerTypeOK /\ PipelineTypeOK /\ ProcTypeOK
BY DEF TypeOK, ProcTypeOK

\* Most steps leave the process as it is.
LEMMA SameProc ==
  ASSUME ProcTypeOK, UNCHANGED procVars
  PROVE  ProcTypeOK'
BY DEF ProcTypeOK, procVars, bootVars, BootTypeOK

\* A stage of the boot records versions of the two sets and nothing else.
LEMMA BootStepType ==
  ASSUME BootTypeOK, BootStep
  PROVE  BootTypeOK'
BY DEF BootTypeOK, BootStep, OpenPool, SetupStorage, RunMigrations, RunMigrator, Stages

\* What a statement may do to the database keeps the tables well typed.
LEMMA StatementType ==
  ASSUME DatabaseTypeOK,
         Ok \/ DbFault,
         \/ NoWrite
         \/ KeepRows /\ writeLock' \in RunIds \cup {NoRun}
         \/ \E r : RunInsert(r) \/ RunMarkRunning(r) \/ RunMarkFailed(r)
         \/ \E r : PushJob(r) \/ LockJob(r) \/ AckJob(r)
         \/ \E r \in RunIds, a \in Assets : CommitSuccess(r, a)
  PROVE  DatabaseTypeOK'
<1>1. faults' \in 0..MaxDbFaults
  BY DEF DatabaseTypeOK, Ok, DbFault
<1>2. CASE NoWrite \/ (KeepRows /\ writeLock' \in RunIds \cup {NoRun})
  BY <1>1, <1>2 DEF NoWrite, KeepRows, DatabaseTypeOK
<1>3. CASE \E r : RunInsert(r) \/ RunMarkRunning(r) \/ RunMarkFailed(r)
  BY <1>1, <1>3 DEF RunInsert, RunMarkRunning, RunMarkFailed, SetStatus, Statuses,
                    DatabaseTypeOK
<1>4. CASE \E r : PushJob(r) \/ LockJob(r) \/ AckJob(r)
  BY <1>1, <1>4 DEF PushJob, LockJob, AckJob, SetJob, JobStates, DatabaseTypeOK
<1>5. CASE \E r \in RunIds, a \in Assets : CommitSuccess(r, a)
  <2>. PICK r \in RunIds, a \in Assets : CommitSuccess(r, a)
    BY <1>5
  <2>1. posts' \in [Assets -> RunIds \cup {NoRun}]
    BY DEF CommitSuccess, DatabaseTypeOK
  <2>2. selected' \in [RunIds -> Assets \cup {NoAsset}]
    BY DEF CommitSuccess, DatabaseTypeOK
  <2>3. status' \in [RunIds -> Statuses]
    BY DEF CommitSuccess, DatabaseTypeOK, Statuses
  <2>. QED
    BY <1>1, <2>1, <2>2, <2>3 DEF CommitSuccess, DatabaseTypeOK
<1>. QED
  BY <1>2, <1>3, <1>4, <1>5

-----------------------------------------------------------------------------
(* The pipelines' locals, and the transaction that one of them may hold.   *)

HasSnapshot == {"select", "caption", "media", "send", "awaiting", "begin", "txPost",
                "txRun", "commit"}
HasAsset == HasSnapshot \ {"select"}

\* A run that has picked an asset picked one outside its snapshot; a run that
\* inserted its post holds the write lock and is the first with its asset.
LocalsOf(r) ==
  /\ pipe[r].pc \in HasAsset => pipe[r].asset \in Assets \ pipe[r].posted
  /\ pipe[r].pc \in {"txRun", "commit"} => writeLock = r /\ pipe[r].asset \notin DedupSet
  /\ writeLock = r => pipe[r].pc \in {"txRun", "commit", "failing"}

LocalsOK == \A r \in RunIds : LocalsOf(r)

SafeInv == TypeOK /\ LocalsOK

\* The types, as facts about each variable.
LEMMA SafeTypes ==
  ASSUME SafeInv
  PROVE  /\ status \in [RunIds -> Statuses]
         /\ selected \in [RunIds -> Assets \cup {NoAsset}]
         /\ posts \in [Assets -> RunIds \cup {NoRun}]
         /\ jobs \in [RunIds -> JobStates]
         /\ writeLock \in RunIds \cup {NoRun}
         /\ tap \in [RunIds -> TapStates]
         /\ pipe \in [RunIds -> Locals]
         /\ wire \subseteq Request
         /\ handoffs \in [RunIds -> Seq(Assets)]
         /\ DatabaseTypeOK /\ TriggerTypeOK /\ PipelineTypeOK /\ ProcTypeOK
BY TypeParts DEF SafeInv, DatabaseTypeOK, TriggerTypeOK, PipelineTypeOK

\* The pipelines of the other runs stand still.
OthersWait(r) == \A q \in RunIds \ {r} : pipe'[q] = pipe[q]

\* Goto changes the program counter of one run and nothing else.
LEMMA GotoLocals ==
  ASSUME pipe \in [RunIds -> Locals], NEW r \in RunIds, NEW pc \in PipeStates, Goto(r, pc)
  PROVE  /\ pipe' \in [RunIds -> Locals]
         /\ pipe'[r].pc = pc
         /\ pipe'[r].boot = pipe[r].boot
         /\ pipe'[r].posted = pipe[r].posted
         /\ pipe'[r].asset = pipe[r].asset
         /\ pipe'[r].accepted = pipe[r].accepted
         /\ OthersWait(r)
BY DEF Locals, Goto, OthersWait

\* The write lock stays where it is, or goes to or from run r.
LockMoves(r) ==
  UNCHANGED writeLock \/ (writeLock \in {NoRun, r} /\ writeLock' \in {NoRun, r})

\* What the pipeline of one run does leaves the others' locals right.
LEMMA OthersLocals ==
  ASSUME LocalsOK, NEW r \in RunIds, OthersWait(r), LockMoves(r),
         UNCHANGED posts \/ writeLock = r
  PROVE  \A q \in RunIds \ {r} : LocalsOf(q)'
<1>. SUFFICES ASSUME NEW q \in RunIds \ {r} PROVE LocalsOf(q)'
  OBVIOUS
<1>1. pipe'[q] = pipe[q] /\ LocalsOf(q)
  BY DEF OthersWait, LocalsOK
<1>2. writeLock' = q <=> writeLock = q
  BY DEF LockMoves
<1>3. UNCHANGED posts \/ pipe[q].pc \notin {"txRun", "commit"}
  BY <1>1 DEF LocalsOf
<1>. QED
  BY <1>1, <1>2, <1>3 DEF LocalsOf, DedupSet

\* A step on the way to the transaction, or out of it.
LEMMA KeepsLocals ==
  ASSUME SafeInv, NEW r \in RunIds, NEW pc \in PipeStates, Goto(r, pc),
         UNCHANGED <<posts, writeLock>>,
         pc \notin {"txRun", "commit"}, pc \in HasAsset => pipe[r].pc \in HasAsset,
         writeLock = r => pc = "failing"
  PROVE  LocalsOK' /\ pipe' \in [RunIds -> Locals]
<1>0. pipe \in [RunIds -> Locals] /\ LocalsOK /\ LocalsOf(r)
  BY SafeTypes DEF SafeInv, LocalsOK
<1>1. \A q \in RunIds \ {r} : LocalsOf(q)'
  BY <1>0, GotoLocals, OthersLocals DEF LockMoves
<1>2. LocalsOf(r)'
  BY <1>0, GotoLocals DEF LocalsOf
<1>. QED
  BY <1>0, <1>1, <1>2, GotoLocals DEF LocalsOK

\* Each step of execute_run keeps its locals and the tables well typed.
LEMMA PipelineStepSafe ==
  ASSUME SafeInv, NEW r \in RunIds, PipelineStep(r)
  PROVE  DatabaseTypeOK' /\ PipelineTypeOK' /\ LocalsOK'
<1>0. /\ DatabaseTypeOK /\ PipelineTypeOK /\ LocalsOK /\ LocalsOf(r)
      /\ pipe \in [RunIds -> Locals] /\ wire \subseteq Request
      /\ writeLock \in RunIds \cup {NoRun}
  BY SafeTypes DEF SafeInv, LocalsOK
<1>1. CASE MarkRunning(r)
  <2>1. DatabaseTypeOK'
    BY <1>0, <1>1, StatementType DEF MarkRunning
  <2>2. \E pc \in {"dedup", "failing"} : Goto(r, pc)
    BY <1>1 DEF MarkRunning
  <2>3. pipe[r].pc = "start" /\ UNCHANGED <<posts, writeLock, wire, handoffs>>
    BY <1>1 DEF MarkRunning, At, RunMarkRunning, SetStatus, NoWrite, KeepRows
  <2>. QED
    BY <1>0, <2>1, <2>2, <2>3, KeepsLocals
       DEF PipeStates, PipelineTypeOK, HasSnapshot, HasAsset, LocalsOf
<1>2. CASE ReadDedupSet(r)
  <2>1. DatabaseTypeOK'
    BY <1>0, <1>2, StatementType DEF ReadDedupSet
  <2>2. CASE pipe' = [pipe EXCEPT ![r].pc = "select", ![r].posted = DedupSet]
    <3>1. pipe' \in [RunIds -> Locals] /\ OthersWait(r) /\ pipe'[r].pc = "select"
      BY <1>0, <2>2 DEF Locals, PipeStates, DedupSet, OthersWait
    <3>2. UNCHANGED <<posts, writeLock, wire, handoffs>> /\ writeLock # r
      BY <1>0, <1>2 DEF ReadDedupSet, At, NoWrite, KeepRows, LocalsOf
    <3>3. LocalsOf(r)'
      BY <3>1, <3>2 DEF LocalsOf, HasAsset, HasSnapshot
    <3>. QED
      BY <1>0, <2>1, <3>1, <3>2, <3>3, OthersLocals DEF PipelineTypeOK, LocalsOK, LockMoves
  <2>3. CASE Goto(r, "failing")
    BY <1>0, <1>2, <2>1, <2>3, KeepsLocals
       DEF ReadDedupSet, At, NoWrite, KeepRows, PipeStates, PipelineTypeOK,
           HasSnapshot, HasAsset
  <2>. QED
    BY <1>2, <2>2, <2>3 DEF ReadDedupSet
<1>3. CASE SelectAsset(r)
  <2>1. DatabaseTypeOK'
    BY <1>0, <1>3, StatementType DEF SelectAsset
  <2>2. PICK a \in Assets \ pipe[r].posted :
          pipe' = [pipe EXCEPT ![r].pc = "caption", ![r].asset = a]
    BY <1>3 DEF SelectAsset
  <2>3. /\ pipe' \in [RunIds -> Locals] /\ OthersWait(r)
        /\ pipe'[r].pc = "caption" /\ pipe'[r].asset = a
        /\ pipe'[r].posted = pipe[r].posted
    BY <1>0, <2>2 DEF Locals, PipeStates, OthersWait
  <2>4. UNCHANGED <<posts, writeLock, wire, handoffs>> /\ writeLock # r
    BY <1>0, <1>3 DEF SelectAsset, At, NoWrite, KeepRows, LocalsOf
  <2>5. LocalsOf(r)'
    BY <2>3, <2>4 DEF LocalsOf
  <2>. QED
    BY <1>0, <2>1, <2>3, <2>4, <2>5, OthersLocals DEF PipelineTypeOK, LocalsOK, LockMoves
<1>4. CASE GetCaption(r) \/ SearchOrCaptionFails(r) \/ InsertMedia(r)
             \/ BufferReplies(r) \/ BufferFails(r) \/ BeginTx(r)
  <2>1. DatabaseTypeOK' /\ UNCHANGED <<posts, writeLock, wire, handoffs>>
    BY <1>0, <1>4, StatementType
       DEF GetCaption, SearchOrCaptionFails, InsertMedia, BufferReplies, BufferFails,
           BeginTx, DbStep, RemoteError, NoWrite, KeepRows
  <2>2. \E pc \in {"media", "send", "begin", "txPost", "failing"} :
          /\ Goto(r, pc)
          /\ pc # "failing" => pipe[r].pc \in HasAsset
    BY <1>4 DEF GetCaption, SearchOrCaptionFails, InsertMedia, BufferReplies,
                BufferFails, BeginTx, DbStep, RemoteError, At, HasSnapshot, HasAsset
  <2>3. pipe[r].pc \notin {"txRun", "commit", "failing"}
    BY <1>4 DEF GetCaption, SearchOrCaptionFails, InsertMedia, BufferReplies,
                BufferFails, BeginTx, DbStep, RemoteError, At
  <2>4. LocalsOK' /\ pipe' \in [RunIds -> Locals]
    BY <1>0, <2>1, <2>2, <2>3, KeepsLocals DEF PipeStates, LocalsOf, HasAsset, HasSnapshot
  <2>. QED
    BY <1>0, <2>1, <2>4 DEF PipelineTypeOK
<1>5. CASE SendToBuffer(r)
  <2>1. DatabaseTypeOK' /\ UNCHANGED <<posts, writeLock, handoffs>>
    BY <1>0, <1>5, StatementType DEF SendToBuffer, NoWrite, KeepRows
  <2>2. CurrentRequest(r) \in Request
    BY <1>0, <1>5 DEF SendToBuffer, CurrentRequest, Request, Locals, LocalsOf, At,
                      HasAsset, HasSnapshot
  <2>3. wire' \subseteq Request
    BY <1>0, <1>5, <2>2 DEF SendToBuffer
  <2>4. LocalsOK' /\ pipe' \in [RunIds -> Locals]
    BY <1>0, <1>5, <2>1, KeepsLocals
       DEF SendToBuffer, At, PipeStates, LocalsOf, HasSnapshot, HasAsset
  <2>. QED
    BY <1>0, <2>1, <2>3, <2>4 DEF PipelineTypeOK
<1>6. CASE InsertPost(r) \/ MarkSucceeded(r)
  <2>1. Ok \/ DbFault
    BY <1>6 DEF InsertPost, MarkSucceeded
  <2>2. KeepRows /\ writeLock' \in RunIds \cup {NoRun} /\ LockMoves(r)
    BY <1>0, <1>6
       DEF InsertPost, MarkSucceeded, At, LocalsOf, LockMoves, LockAfterError, Unlocked
  <2>3. DatabaseTypeOK' /\ UNCHANGED posts
    BY <1>0, <2>1, <2>2, StatementType DEF KeepRows
  <2>4. \E pc \in {"txRun", "commit", "failing"} :
          /\ Goto(r, pc)
          /\ pipe[r].pc \in HasAsset
          /\ pc # "failing" => writeLock' = r /\ pipe[r].asset \notin DedupSet
    BY <1>0, <1>6 DEF InsertPost, MarkSucceeded, At, LocalsOf, HasSnapshot, HasAsset
  <2>5. UNCHANGED <<wire, handoffs>>
    BY <1>6 DEF InsertPost, MarkSucceeded
  <2>6. pipe' \in [RunIds -> Locals] /\ OthersWait(r) /\ LocalsOf(r)'
    BY <1>0, <2>3, <2>4, GotoLocals DEF PipeStates, LocalsOf, DedupSet, HasAsset, HasSnapshot
  <2>. QED
    BY <1>0, <2>2, <2>3, <2>5, <2>6, OthersLocals DEF PipelineTypeOK, LocalsOK
<1>7. CASE CommitTx(r)
  <2>1. pipe[r].asset \in Assets /\ pipe[r].pc = "commit" /\ writeLock = r
    BY <1>0, <1>7 DEF CommitTx, At, LocalsOf, HasAsset, HasSnapshot
  <2>2. DatabaseTypeOK' /\ writeLock' = NoRun
    <3>1. CASE Ok /\ CommitSuccess(r, pipe[r].asset)
      BY <1>0, <2>1, <3>1, StatementType DEF CommitSuccess
    <3>2. CASE DbFault /\ KeepRows /\ writeLock' = NoRun
      BY <1>0, <3>2, StatementType
    <3>. QED
      BY <1>7, <3>1, <3>2 DEF CommitTx
  <2>3. \E pc \in {"finished", "failing"} : Goto(r, pc)
    BY <1>7 DEF CommitTx
  <2>4. pipe' \in [RunIds -> Locals] /\ OthersWait(r) /\ LocalsOf(r)'
    BY <1>0, <2>2, <2>3, GotoLocals DEF PipeStates, LocalsOf, HasSnapshot, HasAsset
  <2>. QED
    BY <1>0, <1>7, <2>1, <2>2, <2>4, OthersLocals
       DEF CommitTx, PipelineTypeOK, LocalsOK, LockMoves
<1>8. CASE MarkFailed(r)
  <2>1. DatabaseTypeOK'
    BY <1>0, <1>8, StatementType DEF MarkFailed, ReleaseLock
  <2>2. /\ UNCHANGED <<posts, wire, handoffs>> /\ Goto(r, "finished")
        /\ LockMoves(r) /\ writeLock' # r
    BY <1>0, <1>8
       DEF MarkFailed, RunMarkFailed, SetStatus, KeepRows, ReleaseLock, LockMoves, Unlocked
  <2>3. pipe' \in [RunIds -> Locals] /\ OthersWait(r) /\ LocalsOf(r)'
    BY <1>0, <2>2, GotoLocals DEF PipeStates, LocalsOf, HasSnapshot, HasAsset
  <2>. QED
    BY <1>0, <2>1, <2>2, <2>3, OthersLocals DEF PipelineTypeOK, LocalsOK
<1>. QED
  BY <1>1, <1>2, <1>3, <1>4, <1>5, <1>6, <1>7, <1>8 DEF PipelineStep

\* The statements of a tap, a job or a Buffer call leave the locals right.
LEMMA SameLocals ==
  ASSUME LocalsOK, UNCHANGED <<posts, writeLock, pipe>>
  PROVE  LocalsOK'
BY DEF LocalsOK, LocalsOf, DedupSet

\* A pipeline that is idle, or has just begun, has locals that are trivially
\* right as long as it holds no lock.
LEMMA FreshLocals ==
  ASSUME LocalsOK, NEW r \in RunIds, OthersWait(r), UNCHANGED <<posts, writeLock>>,
         writeLock # r, pipe'[r].pc \in {"idle", "start"}
  PROVE  LocalsOK'
<1>1. LocalsOf(r)'
  BY DEF LocalsOf, HasAsset, HasSnapshot
<1>2. \A q \in RunIds \ {r} : LocalsOf(q)'
  BY OthersLocals DEF LockMoves
<1>. QED
  BY <1>1, <1>2 DEF LocalsOK

\* An idle pipeline is well typed.
LEMMA NoPipeType == NoPipe \in Locals
BY DEF NoPipe, Locals, PipeStates

\* Each step of a /trigger/post handler keeps the tables and the taps well typed.
LEMMA TapStepType ==
  ASSUME TypeOK, NEW r \in RunIds, Gate(r) \/ TapStep(r) \/ DropTap(r)
  PROVE  DatabaseTypeOK' /\ TriggerTypeOK' /\ UNCHANGED <<posts, writeLock>>
<1>. DatabaseTypeOK /\ TriggerTypeOK
  BY TypeParts
<1>1. CASE Gate(r)
  BY <1>1, StatementType
     DEF Gate, TriggerTypeOK, TapGoto, TapStates, Answers, InHandler, NoWrite, KeepRows
<1>2. CASE InsertRun(r)
  BY <1>2, StatementType
     DEF InsertRun, TriggerTypeOK, TapGoto, TapStates, Answers, InHandler,
         RunInsert, SetStatus, NoWrite, KeepRows
<1>3. CASE Enqueue(r)
  BY <1>3, StatementType
     DEF Enqueue, TriggerTypeOK, TapGoto, TapStates, Answers, InHandler,
         PushJob, SetJob, NoWrite, KeepRows
<1>4. CASE GiveUp(r)
  BY <1>4, StatementType
     DEF GiveUp, TriggerTypeOK, TapGoto, TapStates, Answers, InHandler,
         RunMarkFailed, SetStatus, NoWrite, KeepRows
<1>5. CASE DropTap(r)
  BY <1>5, StatementType
     DEF DropTap, TriggerTypeOK, TapGoto, TapStates, NoWrite, KeepRows
<1>. QED
  BY <1>1, <1>2, <1>3, <1>4, <1>5 DEF TapStep

\* What Buffer does to the pipelines: at most, the run that awaits the answer
\* learns of it.
LEMMA BufferStepPipe ==
  ASSUME SafeInv, NEW q \in wire, BufferAccepts(q) \/ BufferRefuses(q)
  PROVE  /\ q.run \in RunIds /\ q.asset \in Assets
         /\ pipe' \in [RunIds -> Locals]
         /\ \A r \in RunIds : /\ pipe'[r].pc = pipe[r].pc
                              /\ pipe'[r].boot = pipe[r].boot
                              /\ pipe'[r].posted = pipe[r].posted
                              /\ pipe'[r].asset = pipe[r].asset
<1>0. pipe \in [RunIds -> Locals] /\ q.run \in RunIds /\ q.asset \in Assets
  BY SafeTypes DEF Request
<1>1. CASE pipe' = pipe
  BY <1>0, <1>1
<1>2. CASE \E ok \in BOOLEAN : pipe' = [pipe EXCEPT ![q.run].accepted = ok]
  BY <1>0, <1>2 DEF Locals
<1>. QED
  BY <1>0, <1>1, <1>2 DEF BufferAccepts, BufferRefuses, Answer

\* Buffer taking or refusing a request keeps everything well typed.
LEMMA BufferStepType ==
  ASSUME SafeInv, BufferStep
  PROVE  DatabaseTypeOK' /\ PipelineTypeOK' /\ LocalsOK'
<1>0. DatabaseTypeOK /\ PipelineTypeOK /\ LocalsOK
  BY SafeTypes DEF SafeInv
<1>1. PICK q \in wire : BufferAccepts(q) \/ BufferRefuses(q)
  BY DEF BufferStep
<1>2. DatabaseTypeOK' /\ UNCHANGED <<posts, writeLock>> /\ wire' \subseteq wire
  BY <1>0, <1>1, StatementType DEF BufferAccepts, BufferRefuses, NoWrite, KeepRows
<1>3. pipe' \in [RunIds -> Locals] /\ LocalsOK'
  BY <1>0, <1>1, <1>2, BufferStepPipe DEF LocalsOK, LocalsOf, DedupSet
<1>4. handoffs' \in [RunIds -> Seq(Assets)]
  <2>1. q.run \in RunIds /\ q.asset \in Assets /\ handoffs \in [RunIds -> Seq(Assets)]
    BY <1>0 DEF PipelineTypeOK, Request
  <2>2. Append(handoffs[q.run], q.asset) \in Seq(Assets)
    BY <2>1
  <2>. QED
    BY <1>1, <2>1, <2>2 DEF BufferAccepts, BufferRefuses
<1>. QED
  BY <1>0, <1>2, <1>3, <1>4 DEF PipelineTypeOK

\* The service starts in a safe state.
THEOREM SafeInvInit == Init => SafeInv
<1>. SUFFICES ASSUME Init PROVE SafeInv
  OBVIOUS
<1>1. DatabaseTypeOK
  <2>1. faults \in 0..MaxDbFaults
    BY DEF Init, DatabaseInit
  <2>2. status \in [RunIds -> Statuses] /\ jobs \in [RunIds -> JobStates]
    BY DEF Init, DatabaseInit, Statuses, JobStates
  <2>3. /\ selected \in [RunIds -> Assets \cup {NoAsset}]
        /\ posts \in [Assets -> RunIds \cup {NoRun}]
    BY DEF Init, DatabaseInit
  <2>4. writeLock \in RunIds \cup {NoRun}
    BY DEF Init, DatabaseInit
  <2>. QED
    BY <2>1, <2>2, <2>3, <2>4 DEF DatabaseTypeOK
<1>2. TriggerTypeOK
  BY DEF Init, TriggerInit, TriggerTypeOK, TapStates
<1>3. PipelineTypeOK
  BY DEF Init, PipelineInit, PipelineTypeOK, NoPipe, Locals, PipeStates
<1>4. ProcTypeOK
  BY DEF Init, ProcTypeOK, BootInit, BootTypeOK, Stages
<1>5. LocalsOK
  BY DEF Init, PipelineInit, DatabaseInit, LocalsOK, LocalsOf, NoPipe, HasSnapshot, HasAsset
<1>. QED
  BY <1>1, <1>2, <1>3, <1>4, <1>5, TypeParts DEF SafeInv

\* SafeInv is inductive: no step of server, worker, process or Buffer breaks it.
THEOREM SafeInvStep == SafeInv /\ [Next]_vars => SafeInv'
<1>. SUFFICES ASSUME SafeInv, [Next]_vars PROVE SafeInv'
  OBVIOUS
<1>0. /\ TypeOK /\ DatabaseTypeOK /\ TriggerTypeOK /\ PipelineTypeOK /\ ProcTypeOK
      /\ LocalsOK /\ pipe \in [RunIds -> Locals]
  BY SafeTypes DEF SafeInv
<1>. SUFFICES DatabaseTypeOK' /\ TriggerTypeOK' /\ PipelineTypeOK' /\ ProcTypeOK'
              /\ LocalsOK'
  BY TypeParts DEF SafeInv, TypeOK, ProcTypeOK, BootTypeOK
<1>1. ASSUME NEW r \in RunIds, Arrive(r) \/ Handle(r)
      PROVE  DatabaseTypeOK' /\ TriggerTypeOK' /\ PipelineTypeOK' /\ ProcTypeOK' /\ LocalsOK'
  <2>1. (Gate(r) \/ TapStep(r)) /\ UNCHANGED <<pipe, wire, handoffs, procVars>>
    BY <1>1 DEF Arrive, Handle, pipeVars
  <2>2. DatabaseTypeOK' /\ TriggerTypeOK' /\ UNCHANGED <<posts, writeLock>>
    BY <1>0, <2>1, TapStepType
  <2>. QED
    BY <1>0, <2>1, <2>2, SameLocals, SameProc DEF PipelineTypeOK
<1>2. ASSUME NEW r \in RunIds, PickUp(r)
      PROVE  DatabaseTypeOK' /\ TriggerTypeOK' /\ PipelineTypeOK' /\ ProcTypeOK' /\ LocalsOK'
  <2>1. DatabaseTypeOK' /\ TriggerTypeOK' /\ ProcTypeOK'
    BY <1>0, <1>2, StatementType, SameProc DEF PickUp, TriggerTypeOK
  <2>2. /\ pipe' \in [RunIds -> Locals] /\ OthersWait(r) /\ pipe'[r].pc = "start"
        /\ UNCHANGED <<wire, handoffs>>
    <3>1. boots \in Nat
      BY <1>0 DEF ProcTypeOK
    <3>2. [NoPipe EXCEPT !.pc = "start", !.boot = boots] \in Locals
      BY <3>1 DEF NoPipe, Locals, PipeStates
    <3>3. [NoPipe EXCEPT !.pc = "start", !.boot = boots].pc = "start"
      BY DEF NoPipe
    <3>. QED
      BY <1>0, <1>2, <3>2, <3>3 DEF PickUp, StartPipe, OthersWait
  <2>3. UNCHANGED <<posts, writeLock>> /\ writeLock # r
    BY <1>2 DEF PickUp, LockJob, SetJob, Unlocked
  <2>. QED
    BY <1>0, <2>1, <2>2, <2>3, FreshLocals DEF PipelineTypeOK
<1>3. ASSUME NEW r \in RunIds, Redeliver(r)
      PROVE  DatabaseTypeOK' /\ TriggerTypeOK' /\ PipelineTypeOK' /\ ProcTypeOK' /\ LocalsOK'
  BY <1>0, <1>3, StatementType, SameLocals, SameProc
     DEF Redeliver, pipeVars, PushJob, SetJob, TriggerTypeOK, PipelineTypeOK
<1>4. ASSUME NEW r \in RunIds, Work(r)
      PROVE  DatabaseTypeOK' /\ TriggerTypeOK' /\ PipelineTypeOK' /\ ProcTypeOK' /\ LocalsOK'
  BY <1>0, <1>4, PipelineStepSafe, SameProc DEF Work, TriggerTypeOK
<1>5. ASSUME NEW r \in RunIds, Ack(r)
      PROVE  DatabaseTypeOK' /\ TriggerTypeOK' /\ PipelineTypeOK' /\ ProcTypeOK' /\ LocalsOK'
  <2>1. DatabaseTypeOK' /\ TriggerTypeOK' /\ ProcTypeOK'
    BY <1>0, <1>5, StatementType, SameProc DEF Ack, TriggerTypeOK
  <2>2. /\ pipe' \in [RunIds -> Locals] /\ OthersWait(r) /\ pipe'[r].pc = "idle"
        /\ UNCHANGED <<wire, handoffs>>
    <3>1. pipe' = [pipe EXCEPT ![r] = NoPipe] /\ NoPipe.pc = "idle"
      BY <1>5 DEF Ack, NoPipe
    <3>. QED
      BY <1>0, <1>5, <3>1, NoPipeType DEF Ack, OthersWait
  <2>3. UNCHANGED <<posts, writeLock>> /\ writeLock # r
    BY <1>5 DEF Ack, AckJob, SetJob, Unlocked
  <2>. QED
    BY <1>0, <2>1, <2>2, <2>3, FreshLocals DEF PipelineTypeOK
<1>6. CASE WorkerExit \/ Stop
  <2>1. DropPipes
    BY <1>6 DEF WorkerExit, Stop
  <2>2. DatabaseTypeOK' /\ PipelineTypeOK' /\ LocalsOK'
    <3>1. pipe' = [r \in RunIds |-> NoPipe] /\ writeLock' = NoRun /\ NoPipe.pc = "idle"
      BY <2>1 DEF DropPipes, NoPipe
    <3>2. LocalsOK'
      BY <3>1 DEF LocalsOK, LocalsOf, HasAsset, HasSnapshot
    <3>. QED
      BY <1>0, <2>1, <3>1, <3>2, StatementType, NoPipeType DEF DropPipes, PipelineTypeOK
  <2>3. ProcTypeOK'
    <3>1. CASE WorkerExit
      BY <1>0, <3>1 DEF WorkerExit, ProcTypeOK, bootVars, BootTypeOK
    <3>2. CASE Stop
      <4>1. boots' = boots + 1 /\ boots < MaxBoots /\ stage' = "down"
            /\ UNCHANGED <<applied, worker, exits, drops>>
        BY <3>2 DEF Stop
      <4>2. MaxBoots \in Nat /\ boots \in 0..MaxBoots
        BY <1>0 DEF ProcTypeOK
      <4>3. boots' \in 0..MaxBoots
        BY <4>1, <4>2
      <4>. QED
        BY <1>0, <4>1, <4>3 DEF ProcTypeOK, BootTypeOK, Stages
    <3>. QED
      BY <1>6, <3>1, <3>2
  <2>4. TriggerTypeOK'
    BY <1>0, <1>6 DEF WorkerExit, Stop, AbortTaps, TriggerTypeOK, TapStates
  <2>. QED
    BY <2>2, <2>3, <2>4
<1>7. CASE Restart
  <2>1. DatabaseTypeOK' /\ TriggerTypeOK' /\ PipelineTypeOK' /\ LocalsOK'
    BY <1>0, <1>7, SameLocals
       DEF Restart, dbVars, pipeVars, DatabaseTypeOK, TriggerTypeOK, PipelineTypeOK
  <2>2. BootTypeOK'
    BY <1>0, <1>7, BootStepType DEF Restart, ProcTypeOK
  <2>3. ProcTypeOK'
    BY <1>0, <1>7, <2>2 DEF Restart, ProcTypeOK
  <2>. QED
    BY <2>1, <2>3
<1>8. CASE Buffer
  BY <1>0, <1>8, BufferStepType, SameProc DEF Buffer, TriggerTypeOK
<1>9. CASE UNCHANGED vars
  BY <1>0, <1>9, SameLocals, SameProc
     DEF vars, dbVars, pipeVars, DatabaseTypeOK, TriggerTypeOK, PipelineTypeOK
<1>10. ASSUME NEW r \in RunIds, Disconnect(r)
       PROVE  DatabaseTypeOK' /\ TriggerTypeOK' /\ PipelineTypeOK' /\ ProcTypeOK' /\ LocalsOK'
  <2>1. DatabaseTypeOK' /\ TriggerTypeOK' /\ UNCHANGED <<posts, writeLock>>
    BY <1>0, <1>10, TapStepType DEF Disconnect
  <2>2. PipelineTypeOK' /\ LocalsOK'
    BY <1>0, <1>10, <2>1, SameLocals DEF Disconnect, pipeVars, PipelineTypeOK
  <2>3. BootTypeOK' /\ UNCHANGED <<worker, boots, exits>>
    BY <1>0, <1>10 DEF Disconnect, bootVars, BootTypeOK, ProcTypeOK
  <2>4. drops' \in 0..MaxDrops
    BY <1>0, <1>10 DEF Disconnect, ProcTypeOK
  <2>. QED
    BY <1>0, <2>1, <2>2, <2>3, <2>4 DEF ProcTypeOK
<1>. QED
  BY <1>1, <1>2, <1>3, <1>4, <1>5, <1>6, <1>7, <1>8, <1>9, <1>10 DEF Next, Quiet

\* In every reachable state the tables are well typed, and a run that has inserted
\* its post is alone in the write lock and first with its asset.
THEOREM Safe == Spec => []SafeInv
BY SafeInvInit, SafeInvStep, PTL DEF Spec

\* Every reachable state is well typed.
THEOREM TypeCorrect == Spec => []TypeOK
<1>1. SafeInv => TypeOK
  BY DEF SafeInv
<1>. QED
  BY <1>1, Safe, PTL

-----------------------------------------------------------------------------
(* Who moves the pipelines and who writes the tables, one step at a time.  *)

\* Steps that move a pipeline: its own, the worker's, Buffer's answer, or the
\* end of them all.
LEMMA PipeMoves ==
  ASSUME [Next]_vars
  PROVE  \/ UNCHANGED pipe
         \/ pipe' = [r \in RunIds |-> NoPipe]
         \/ \E r \in RunIds : PickUp(r) \/ Ack(r) \/ PipelineStep(r)
         \/ BufferStep
BY DEF Next, Arrive, Handle, Disconnect, Redeliver, Work, WorkerExit, Stop, Restart,
       DropPipes, Buffer, Quiet, vars, pipeVars

\* What the worker does to the pipelines.
LEMMA WorkerMoves ==
  ASSUME SafeInv, NEW r \in RunIds
  PROVE  /\ PickUp(r) => /\ pipe[r].pc = "idle" /\ pipe'[r].pc = "start"
                         /\ ~pipe'[r].accepted /\ pipe'[r].boot = boots
                         /\ OthersWait(r)
         /\ Ack(r) => /\ pipe[r].pc = "finished" /\ pipe'[r] = NoPipe
                      /\ OthersWait(r)
<1>1. pipe \in [RunIds -> Locals]
  BY SafeTypes
<1>2. /\ [NoPipe EXCEPT !.pc = "start", !.boot = boots].pc = "start"
      /\ [NoPipe EXCEPT !.pc = "start", !.boot = boots].boot = boots
      /\ ~[NoPipe EXCEPT !.pc = "start", !.boot = boots].accepted
  BY DEF NoPipe
<1>3. ASSUME PickUp(r)
      PROVE  /\ pipe[r].pc = "idle" /\ pipe'[r].pc = "start"
             /\ ~pipe'[r].accepted /\ pipe'[r].boot = boots
             /\ OthersWait(r)
  BY <1>1, <1>2, <1>3 DEF PickUp, StartPipe, At, OthersWait
<1>4. ASSUME Ack(r)
      PROVE  pipe[r].pc = "finished" /\ pipe'[r] = NoPipe /\ OthersWait(r)
  BY <1>1, <1>4 DEF Ack, At, OthersWait
<1>. QED
  BY <1>3, <1>4

\* A step of execute_run moves its own program counter; only two steps set
\* another local as well.
LEMMA StepMoves ==
  ASSUME SafeInv, NEW r \in RunIds, PipelineStep(r)
  PROVE  /\ pipe[r].pc # "idle" /\ pipe'[r].pc # "idle"
         /\ OthersWait(r)
         /\ pipe'[r].boot = pipe[r].boot /\ pipe'[r].accepted = pipe[r].accepted
         /\ ReadDedupSet(r) \/ SelectAsset(r) \/ \E pc \in PipeStates \ {"idle"} : Goto(r, pc)
<1>0. pipe \in [RunIds -> Locals]
  BY SafeTypes
<1>1. pipe[r].pc # "idle"
  BY DEF PipelineStep, MarkRunning, ReadDedupSet, SelectAsset, GetCaption,
         SearchOrCaptionFails, InsertMedia, SendToBuffer, BufferReplies, BufferFails,
         BeginTx, InsertPost, MarkSucceeded, CommitTx, MarkFailed, DbStep, RemoteError, At
<1>2. CASE \E pc \in PipeStates \ {"idle"} : Goto(r, pc)
  BY <1>0, <1>1, <1>2, GotoLocals
<1>3. CASE ReadDedupSet(r) \/ SelectAsset(r)
  <2>1. CASE Goto(r, "failing")
    BY <1>2, <2>1 DEF PipeStates
  <2>2. CASE pipe' = [pipe EXCEPT ![r].pc = "select", ![r].posted = DedupSet]
    BY <1>0, <1>1, <1>3, <2>2 DEF Locals, OthersWait
  <2>3. CASE \E a \in Assets : pipe' = [pipe EXCEPT ![r].pc = "caption", ![r].asset = a]
    BY <1>0, <1>1, <1>3, <2>3 DEF Locals, OthersWait
  <2>. QED
    BY <1>3, <2>1, <2>2, <2>3 DEF ReadDedupSet, SelectAsset
<1>4. \/ ReadDedupSet(r) \/ SelectAsset(r)
      \/ \E pc \in PipeStates \ {"idle"} : Goto(r, pc)
  BY DEF PipelineStep, MarkRunning, GetCaption, SearchOrCaptionFails, InsertMedia,
         SendToBuffer, BufferReplies, BufferFails, BeginTx, InsertPost, MarkSucceeded,
         CommitTx, MarkFailed, DbStep, RemoteError, PipeStates
<1>. QED
  BY <1>2, <1>3, <1>4

\* Steps that write runs or posts: one status other than success, or a success
\* together with its post.
LEMMA TableMoves ==
  ASSUME [Next]_vars
  PROVE  \/ UNCHANGED <<status, selected, posts>>
         \/ \E r \in RunIds, st \in {"queued", "running", "failed"} : SetStatus(r, st)
         \/ \E r \in RunIds : CommitTx(r) /\ CommitSuccess(r, pipe[r].asset)
<1>1. ASSUME NEW r \in RunIds, PipelineStep(r)
      PROVE  \/ UNCHANGED <<status, selected, posts>>
             \/ \E st \in {"queued", "running", "failed"} : SetStatus(r, st)
             \/ CommitTx(r) /\ CommitSuccess(r, pipe[r].asset)
  <2>1. CASE MarkRunning(r)
    BY <2>1 DEF MarkRunning, RunMarkRunning, NoWrite, KeepRows
  <2>2. CASE MarkFailed(r)
    BY <2>2 DEF MarkFailed, RunMarkFailed, KeepRows
  <2>3. CASE CommitTx(r)
    BY <2>3 DEF CommitTx, KeepRows
  <2>. QED
    BY <1>1, <2>1, <2>2, <2>3
       DEF PipelineStep, ReadDedupSet, SelectAsset, GetCaption, SearchOrCaptionFails,
           InsertMedia, SendToBuffer, BufferReplies, BufferFails, BeginTx, InsertPost,
           MarkSucceeded, DbStep, RemoteError, NoWrite, KeepRows
<1>2. ASSUME NEW r \in RunIds, Gate(r) \/ TapStep(r) \/ DropTap(r)
      PROVE  \/ UNCHANGED <<status, selected, posts>>
             \/ \E st \in {"queued", "running", "failed"} : SetStatus(r, st)
  BY <1>2 DEF Gate, TapStep, InsertRun, Enqueue, GiveUp, DropTap, RunInsert, PushJob,
              SetJob, RunMarkFailed, NoWrite, KeepRows
<1>3. \/ UNCHANGED <<status, selected, posts>>
      \/ \E r \in RunIds : PipelineStep(r) \/ Gate(r) \/ TapStep(r) \/ DropTap(r)
  BY DEF Next, Arrive, Handle, Disconnect, PickUp, LockJob, PushJob, SetJob, Redeliver,
         Work, Ack, AckJob, WorkerExit, Stop, Restart, Buffer, BufferStep,
         BufferAccepts, BufferRefuses, DropPipes, NoWrite, KeepRows, Quiet, vars, dbVars
<1>. QED
  BY <1>1, <1>2, <1>3

-----------------------------------------------------------------------------
(* Dedup, when the worker handles one job at a time: its snapshot of posts *)
(* stays true because the only run that writes posts is the one that holds *)
(* it.  Whatever Apalis does with locked jobs.                             *)

SerialInv ==
  /\ \A r, q \in RunIds : pipe[r].pc # "idle" /\ pipe[q].pc # "idle" => r = q
  /\ \A r \in RunIds : pipe[r].pc \in HasSnapshot => pipe[r].posted = DedupSet

\* A worker with one slot takes a job only when no run executes.
LEMMA OneSlot ==
  ASSUME JobSlots = 1, Cardinality(Executing) < JobSlots
  PROVE  Executing = {}
<1>1. IsFiniteSet(Executing)
  BY FS_Subset DEF Executing
<1>2. Cardinality(Executing) = 0
  BY <1>1, FS_CardinalityType
<1>. QED
  BY <1>1, <1>2, FS_EmptySet

\* A step that fetches no snapshot leaves posts alone or ends the run.
LEMMA SnapshotStep ==
  ASSUME SafeInv, SerialInv, NEW r \in RunIds, PipelineStep(r), [Next]_vars,
         pipe'[r].pc \in HasSnapshot
  PROVE  pipe'[r].posted = DedupSet'
<1>0. pipe \in [RunIds -> Locals]
  BY SafeTypes
<1>1. CASE ReadDedupSet(r)
  BY <1>0, <1>1 DEF ReadDedupSet, Goto, NoWrite, KeepRows, DedupSet, HasSnapshot, Locals
<1>2. CASE SelectAsset(r)
  BY <1>0, <1>2 DEF SelectAsset, At, NoWrite, KeepRows, DedupSet, HasSnapshot, Locals, SerialInv
<1>3. CASE ~ReadDedupSet(r) /\ ~SelectAsset(r)
  <2>1. PICK pc \in PipeStates :
          /\ Goto(r, pc)
          /\ pc \in HasSnapshot => pipe[r].pc \in HasSnapshot /\ UNCHANGED posts
    BY <1>3
       DEF PipelineStep, MarkRunning, GetCaption, SearchOrCaptionFails, InsertMedia,
           SendToBuffer, BufferReplies, BufferFails, BeginTx, InsertPost, MarkSucceeded,
           CommitTx, MarkFailed, DbStep, RemoteError, At, NoWrite, KeepRows, HasSnapshot,
           PipeStates
  <2>2. pipe'[r].pc = pc /\ pipe'[r].posted = pipe[r].posted
    BY <1>0, <2>1, GotoLocals
  <2>. QED
    BY <2>1, <2>2 DEF SerialInv, DedupSet
<1>. QED
  BY <1>1, <1>2, <1>3

\* With one slot there is one pipeline, and its snapshot is true.
LEMMA SerialInvStep ==
  ASSUME JobSlots = 1, SafeInv, SerialInv, [Next]_vars
  PROVE  SerialInv'
<1>0. pipe \in [RunIds -> Locals] /\ posts \in [Assets -> RunIds \cup {NoRun}]
  BY SafeTypes
<1>1. ASSUME NEW r \in RunIds, PipelineStep(r)
      PROVE  SerialInv'
  <2>1. OthersWait(r) /\ pipe[r].pc # "idle"
    BY <1>1, StepMoves
  <2>2. \A q \in RunIds \ {r} : pipe'[q].pc = "idle"
    BY <2>1 DEF OthersWait, SerialInv
  <2>3. pipe'[r].pc \in HasSnapshot => pipe'[r].posted = DedupSet'
    BY <1>1, SnapshotStep
  <2>. QED
    BY <2>2, <2>3 DEF SerialInv, HasSnapshot
<1>2. CASE \A r \in RunIds : pipe'[r].pc = "idle"
  BY <1>2 DEF SerialInv, HasSnapshot
<1>3. CASE pipe' = [r \in RunIds |-> NoPipe]
  BY <1>2, <1>3 DEF NoPipe
<1>4. ASSUME NEW r \in RunIds, PickUp(r)
      PROVE  SerialInv'
  <2>1. \A q \in RunIds : pipe[q].pc = "idle"
    BY <1>4, OneSlot DEF PickUp, Executing, At
  <2>2. pipe'[r].pc = "start" /\ \A q \in RunIds \ {r} : pipe'[q].pc = "idle"
    BY <1>4, <2>1, WorkerMoves DEF OthersWait
  <2>. QED
    BY <2>2 DEF SerialInv, HasSnapshot
<1>5. ASSUME NEW r \in RunIds, Ack(r)
      PROVE  SerialInv'
  <2>1. NoPipe.pc = "idle"
    BY DEF NoPipe
  <2>. QED
    BY <1>2, <1>5, <2>1, WorkerMoves DEF OthersWait, SerialInv
<1>6. CASE UNCHANGED <<pipe, posts>>
  BY <1>6 DEF SerialInv, DedupSet
<1>7. CASE BufferStep
  <2>1. PICK q \in wire : BufferAccepts(q) \/ BufferRefuses(q)
    BY <1>7 DEF BufferStep
  <2>2. UNCHANGED posts
    BY <2>1 DEF BufferAccepts, BufferRefuses, NoWrite, KeepRows
  <2>. QED
    BY <2>1, <2>2, BufferStepPipe DEF SerialInv, DedupSet
<1>8. UNCHANGED posts \/ \E r \in RunIds : PipelineStep(r)
  BY TableMoves DEF SetStatus, PipelineStep
<1>. QED
  BY <1>1, <1>3, <1>4, <1>5, <1>6, <1>7, <1>8, PipeMoves

\* With one slot the dedup snapshot of the run that executes is always true.
THEOREM Serial ==
  ASSUME JobSlots = 1
  PROVE  Spec => []SerialInv
<1>1. Init => SerialInv
  BY DEF Init, PipelineInit, NoPipe, SerialInv, HasSnapshot
<1>2. SafeInv /\ SerialInv /\ [Next]_vars => SerialInv'
  BY SerialInvStep
<1>. QED
  BY <1>1, <1>2, Safe, PTL DEF Spec

\* A request is sent by SendToBuffer, with the run's own asset.
LEMMA SendStep ==
  ASSUME [Next]_vars, NEW q \in wire' \ wire
  PROVE  \E r \in RunIds : SendToBuffer(r) /\ q = CurrentRequest(r)
<1>1. PICK r \in RunIds : PipelineStep(r)
  BY DEF Next, Arrive, Handle, Disconnect, PickUp, Redeliver, Ack, WorkerExit, Stop, Restart, Buffer,
         BufferStep, BufferAccepts, BufferRefuses, Quiet, DropPipes, Work, vars, pipeVars
<1>2. SendToBuffer(r)
  BY <1>1 DEF PipelineStep, MarkRunning, ReadDedupSet, SelectAsset, GetCaption,
              SearchOrCaptionFails, InsertMedia, BufferReplies, BufferFails, BeginTx,
              InsertPost, MarkSucceeded, CommitTx, MarkFailed, DbStep, RemoteError
<1>. QED
  BY <1>2 DEF SendToBuffer

\* No step of the system sends a request for an asset that is already a Post.
THEOREM NeverSentStep ==
  SafeInv /\ SerialInv /\ [Next]_vars => \A q \in wire' \ wire : posts[q.asset] = NoRun
<1>. SUFFICES ASSUME SafeInv, SerialInv, [Next]_vars, NEW q \in wire' \ wire
              PROVE  posts[q.asset] = NoRun
  OBVIOUS
<1>1. PICK r \in RunIds : SendToBuffer(r) /\ q = CurrentRequest(r)
  BY SendStep
<1>2. pipe[r].asset \in Assets \ DedupSet
  BY <1>1 DEF SendToBuffer, At, SafeInv, LocalsOK, LocalsOf, SerialInv, HasAsset, HasSnapshot
<1>. QED
  BY <1>1, <1>2 DEF CurrentRequest, DedupSet

\* A worker that handles one job at a time never sends a createPost request for
\* an asset that posts already has, with or without redelivery of jobs.
THEOREM RecordedAssetNeverSentHolds ==
  ASSUME JobSlots = 1
  PROVE  Spec => RecordedAssetNeverSent
<1>1. SafeInv /\ SerialInv /\ [Next]_vars
        => [\A q \in wire' \ wire : posts[q.asset] = NoRun]_vars
  BY NeverSentStep
<1>. QED
  BY <1>1, Safe, Serial, PTL DEF Spec, RecordedAssetNeverSent

-----------------------------------------------------------------------------
(* The hand-off: a run that succeeded did hand its asset to Buffer.        *)

Recording == {"begin", "txPost", "txRun", "commit"}
PastSend == Recording \cup {"awaiting", "failing", "finished"}

\* Buffer has taken asset a for run r.
Handed(r, a) == \E i \in DOMAIN handoffs[r] : handoffs[r][i] = a

\* accepted is never a false alarm, and nothing is recorded without it.
HandOffOf(r) ==
  /\ pipe[r].accepted => pipe[r].pc \in PastSend /\ Handed(r, pipe[r].asset)
  /\ pipe[r].pc \in Recording => pipe[r].accepted

HandOffOK == \A r \in RunIds : HandOffOf(r)

\* schedule_post takes no reply for a post that Buffer may give without one.
LEMMA RefusalIsNoPost ==
  ASSUME NEW reply \in ReplyWhenRefused
  PROVE  SchedulePost(reply) # "Scheduled"
<1>1. reply \in Reply /\ ~ClaimsPost(reply)
  BY DEF ReplyWhenRefused
<1>. QED
  BY <1>1 DEF Reply, ClaimsPost, SchedulePost, ReadResult, CreatePostResult

\* What Buffer has taken it keeps.
LEMMA HandedStays ==
  ASSUME SafeInv, [Next]_vars, NEW r \in RunIds, NEW a \in Assets, Handed(r, a)
  PROVE  Handed(r, a)'
<1>0. handoffs \in [RunIds -> Seq(Assets)] /\ wire \subseteq Request
  BY SafeTypes
<1>1. CASE UNCHANGED handoffs
  BY <1>1 DEF Handed
<1>2. ASSUME NEW q \in wire, BufferAccepts(q)
      PROVE  Handed(r, a)'
  <2>1. /\ q.run \in RunIds /\ q.asset \in Assets
        /\ handoffs' = [handoffs EXCEPT ![q.run] = Append(@, q.asset)]
    BY <1>0, <1>2 DEF BufferAccepts, Request
  <2>2. PICK i \in DOMAIN handoffs[r] : handoffs[r][i] = a
    BY DEF Handed
  <2>3. i \in DOMAIN handoffs'[r] /\ handoffs'[r][i] = a
    BY <1>0, <2>1, <2>2
  <2>. QED
    BY <2>3 DEF Handed
<1>3. UNCHANGED handoffs \/ \E q \in wire : BufferAccepts(q)
  BY DEF Next, Arrive, Handle, Disconnect, PickUp, Redeliver, Work, PipelineStep,
         MarkRunning, ReadDedupSet, SelectAsset, GetCaption, SearchOrCaptionFails,
         InsertMedia, SendToBuffer, BufferReplies, BufferFails, BeginTx, InsertPost,
         MarkSucceeded, CommitTx, MarkFailed, DbStep, RemoteError, Ack, WorkerExit, Stop,
         Restart, DropPipes, Buffer, BufferStep, BufferRefuses, Quiet, vars, pipeVars
<1>. QED
  BY <1>1, <1>2, <1>3

\* A step records a success, or leaves those there are alone.
LEMMA SuccessRows ==
  ASSUME SafeInv, [Next]_vars, NEW r \in RunIds, status'[r] = "succeeded"
  PROVE  \/ status[r] = "succeeded" /\ selected'[r] = selected[r]
         \/ CommitTx(r) /\ selected'[r] = pipe[r].asset
<1>0. status \in [RunIds -> Statuses] /\ selected \in [RunIds -> Assets \cup {NoAsset}]
  BY SafeTypes
<1>1. CASE UNCHANGED <<status, selected>>
  BY <1>1
<1>2. ASSUME NEW q \in RunIds, NEW st \in {"queued", "running", "failed"}, SetStatus(q, st)
      PROVE  status[r] = "succeeded" /\ selected'[r] = selected[r]
  BY <1>0, <1>2 DEF SetStatus
<1>3. ASSUME NEW q \in RunIds, CommitTx(q) /\ CommitSuccess(q, pipe[q].asset)
      PROVE  \/ status[r] = "succeeded" /\ selected'[r] = selected[r]
             \/ CommitTx(r) /\ selected'[r] = pipe[r].asset
  <2>1. CASE q = r
    BY <1>0, <1>3, <2>1 DEF CommitSuccess
  <2>2. CASE q # r
    BY <1>0, <1>3, <2>2 DEF CommitSuccess
  <2>. QED
    BY <2>1, <2>2
<1>. QED
  BY <1>1, <1>2, <1>3, TableMoves

\* An accepted pipeline has an asset, and Buffer has it too.
LEMMA AcceptedHasAsset ==
  ASSUME SafeInv, HandOffOK, NEW r \in RunIds, pipe[r].accepted
  PROVE  pipe[r].asset \in Assets
<1>1. Handed(r, pipe[r].asset) /\ handoffs[r] \in Seq(Assets)
  BY SafeTypes DEF HandOffOK, HandOffOf
<1>2. PICK i \in DOMAIN handoffs[r] : handoffs[r][i] = pipe[r].asset
  BY <1>1 DEF Handed
<1>3. handoffs[r][i] \in Assets
  BY <1>1, <1>2
<1>. QED
  BY <1>2, <1>3

\* A run whose asset and acceptance stand only has to be in a place where they
\* are right.
LEMMA KeepsHandOff ==
  ASSUME SafeInv, HandOffOK, [Next]_vars, NEW r \in RunIds,
         pipe'[r].asset = pipe[r].asset, pipe'[r].accepted = pipe[r].accepted,
         pipe[r].accepted => pipe'[r].pc \in PastSend,
         pipe'[r].pc \in Recording => pipe[r].accepted
  PROVE  HandOffOf(r)'
<1>1. CASE pipe[r].accepted
  <2>1. Handed(r, pipe[r].asset) /\ pipe[r].asset \in Assets
    BY <1>1, AcceptedHasAsset DEF HandOffOK, HandOffOf
  <2>2. ASSUME NEW a \in Assets, Handed(r, a)
        PROVE  \E i \in DOMAIN handoffs'[r] : handoffs'[r][i] = a
    BY <2>2, HandedStays DEF Handed
  <2>. QED
    BY <1>1, <2>1, <2>2 DEF HandOffOf, Handed
<1>2. CASE ~pipe[r].accepted
  BY <1>2 DEF HandOffOf
<1>. QED
  BY <1>1, <1>2

\* The same for all the runs whose pipelines do not move.
LEMMA OthersHandOff ==
  ASSUME SafeInv, HandOffOK, [Next]_vars, NEW r \in RunIds, pipe'[r] = pipe[r]
  PROVE  HandOffOf(r)'
BY KeepsHandOff DEF HandOffOK, HandOffOf

\* Each step of execute_run keeps HandOffOK: it gets to the transaction only
\* with a reply that says the post was made.
LEMMA PipelineStepHandOff ==
  ASSUME SafeInv, HandOffOK, [Next]_vars, NEW r \in RunIds, PipelineStep(r)
  PROVE  HandOffOK'
<1>0. pipe \in [RunIds -> Locals] /\ HandOffOf(r) /\ OthersWait(r)
  BY SafeTypes, StepMoves DEF HandOffOK
<1>. SUFFICES HandOffOf(r)'
  BY <1>0, OthersHandOff DEF HandOffOK, OthersWait
<1>1. CASE MarkRunning(r) \/ GetCaption(r) \/ SearchOrCaptionFails(r) \/ InsertMedia(r)
             \/ SendToBuffer(r)
  <2>1. PICK pc \in {"dedup", "media", "send", "awaiting", "failing"} :
          Goto(r, pc) /\ pipe[r].pc \notin PastSend
    BY <1>1 DEF MarkRunning, GetCaption, SearchOrCaptionFails, InsertMedia, SendToBuffer,
                DbStep, RemoteError, At, PastSend, Recording
  <2>. QED
    BY <1>0, <2>1, GotoLocals, KeepsHandOff DEF PipeStates, HandOffOf, Recording
<1>2. CASE ReadDedupSet(r) \/ SelectAsset(r)
  <2>1. ~pipe[r].accepted
    BY <1>0, <1>2 DEF ReadDedupSet, SelectAsset, At, HandOffOf, PastSend, Recording
  <2>2. /\ pipe'[r].accepted = pipe[r].accepted
        /\ pipe'[r].pc \in {"select", "caption", "failing"}
    BY <1>0, <1>2 DEF ReadDedupSet, SelectAsset, Goto, Locals
  <2>. QED
    BY <2>1, <2>2 DEF HandOffOf, Recording
<1>3. CASE BufferReplies(r) \/ BufferFails(r)
  <2>1. PICK pc \in {"begin", "failing"} : Goto(r, pc) /\ (pc = "begin" => pipe[r].accepted)
    BY <1>3 DEF BufferReplies, BufferFails, RemoteError
  <2>. QED
    BY <1>0, <2>1, GotoLocals, KeepsHandOff DEF PipeStates, PastSend, Recording
<1>4. CASE BeginTx(r) \/ InsertPost(r) \/ MarkSucceeded(r) \/ CommitTx(r) \/ MarkFailed(r)
  <2>1. PICK pc \in {"txPost", "txRun", "commit", "failing", "finished"} :
          Goto(r, pc) /\ (pc \in Recording => pipe[r].pc \in Recording)
    BY <1>4 DEF BeginTx, InsertPost, MarkSucceeded, CommitTx, MarkFailed, DbStep, At,
                Recording
  <2>. QED
    BY <1>0, <2>1, GotoLocals, KeepsHandOff DEF PipeStates, PastSend, Recording, HandOffOf
<1>. QED
  BY <1>1, <1>2, <1>3, <1>4 DEF PipelineStep

\* Buffer's reply sets accepted only for a post that it has just taken.
LEMMA BufferStepHandOff ==
  ASSUME SafeInv, HandOffOK, [Next]_vars, BufferStep
  PROVE  HandOffOK'
<1>1. PICK q \in wire : BufferAccepts(q) \/ BufferRefuses(q)
  BY DEF BufferStep
<1>0. /\ pipe \in [RunIds -> Locals] /\ handoffs \in [RunIds -> Seq(Assets)]
      /\ q.run \in RunIds /\ q.asset \in Assets
  BY <1>1, SafeTypes, BufferStepPipe
<1>2. \A r \in RunIds : pipe'[r] = pipe[r] => HandOffOf(r)'
  BY OthersHandOff
<1>3. CASE pipe' = pipe
  BY <1>2, <1>3 DEF HandOffOK
<1>4. ASSUME NEW ok \in BOOLEAN, pipe' = [pipe EXCEPT ![q.run].accepted = ok],
             IsAwaited(q), ok => BufferAccepts(q)
      PROVE  HandOffOK'
  <2>1. /\ \A r \in RunIds \ {q.run} : pipe'[r] = pipe[r]
        /\ pipe'[q.run].pc = "awaiting" /\ pipe'[q.run].asset = q.asset
        /\ pipe'[q.run].accepted = ok
    BY <1>0, <1>4 DEF IsAwaited, At, Locals, CurrentRequest
  <2>2. CASE ok
    <3>1. handoffs' = [handoffs EXCEPT ![q.run] = Append(@, q.asset)]
      BY <1>4, <2>2 DEF BufferAccepts
    <3>2. handoffs'[q.run] = Append(handoffs[q.run], q.asset) /\ handoffs[q.run] \in Seq(Assets)
      BY <1>0, <3>1
    <3>3. /\ Len(handoffs[q.run]) + 1 \in DOMAIN handoffs'[q.run]
          /\ handoffs'[q.run][Len(handoffs[q.run]) + 1] = q.asset
      BY <1>0, <3>2
    <3>4. HandOffOf(q.run)'
      BY <2>1, <2>2, <3>3 DEF HandOffOf, Handed, PastSend, Recording
    <3>. QED
      BY <1>2, <2>1, <3>4 DEF HandOffOK
  <2>3. CASE ~ok
    <3>1. HandOffOf(q.run)'
      BY <2>1, <2>3 DEF HandOffOf, Recording
    <3>. QED
      BY <1>2, <2>1, <3>1 DEF HandOffOK
  <2>. QED
    BY <2>2, <2>3
<1>5. CASE BufferAccepts(q)
  <2>1. \/ pipe' = pipe
        \/ IsAwaited(q) /\ \E ok \in BOOLEAN : pipe' = [pipe EXCEPT ![q.run].accepted = ok]
    BY <1>5 DEF BufferAccepts, Answer
  <2>. QED
    BY <1>3, <1>4, <1>5, <2>1
<1>6. CASE BufferRefuses(q)
  <2>1. \A ok \in {SchedulePost(reply) = "Scheduled" : reply \in ReplyWhenRefused} :
          ok = FALSE
    BY RefusalIsNoPost
  <2>2. \/ pipe' = pipe
        \/ /\ IsAwaited(q)
           /\ \E ok \in {SchedulePost(reply) = "Scheduled" : reply \in ReplyWhenRefused} :
                pipe' = [pipe EXCEPT ![q.run].accepted = ok]
    BY <1>6, Zenon DEF BufferRefuses, Answer
  <2>3. pipe' = pipe \/ (IsAwaited(q) /\ pipe' = [pipe EXCEPT ![q.run].accepted = FALSE])
    BY <2>1, <2>2, Zenon
  <2>. QED
    BY <1>3, <1>4, <2>3
<1>. QED
  BY <1>1, <1>5, <1>6

\* HandOffOK and SuccessWasHandedOff are inductive, whatever Apalis does with
\* the jobs of a dead worker and however many it hands out at once.
THEOREM HandOffStep ==
  SafeInv /\ HandOffOK /\ SuccessWasHandedOff /\ [Next]_vars
    => HandOffOK' /\ SuccessWasHandedOff'
<1>. SUFFICES ASSUME SafeInv, HandOffOK, SuccessWasHandedOff, [Next]_vars
              PROVE  HandOffOK' /\ SuccessWasHandedOff'
  OBVIOUS
<1>1. HandOffOK'
  <2>0. NoPipe.pc = "idle" /\ ~NoPipe.accepted
    BY DEF NoPipe
  <2>1. CASE UNCHANGED pipe
    BY <2>1, OthersHandOff DEF HandOffOK
  <2>2. ASSUME NEW r \in RunIds, ~pipe'[r].accepted, pipe'[r].pc \notin Recording
        PROVE  HandOffOf(r)'
    BY <2>2 DEF HandOffOf
  <2>3. CASE pipe' = [r \in RunIds |-> NoPipe]
    BY <2>0, <2>2, <2>3 DEF HandOffOK, Recording
  <2>4. ASSUME NEW r \in RunIds, PickUp(r) \/ Ack(r)
        PROVE  HandOffOK'
    <3>1. /\ OthersWait(r) /\ ~pipe'[r].accepted /\ pipe'[r].pc \in {"idle", "start"}
      BY <2>0, <2>4, WorkerMoves
    <3>. QED
      BY <2>2, <3>1, OthersHandOff DEF HandOffOK, OthersWait, Recording
  <2>. QED
    BY <2>1, <2>3, <2>4, PipeMoves, PipelineStepHandOff, BufferStepHandOff
<1>2. ASSUME NEW r \in RunIds, status'[r] = "succeeded"
      PROVE  \E i \in DOMAIN handoffs'[r] : handoffs'[r][i] = selected'[r]
  <2>0. ASSUME NEW a \in Assets, Handed(r, a)
        PROVE  \E i \in DOMAIN handoffs'[r] : handoffs'[r][i] = a
    BY <2>0, HandedStays DEF Handed
  <2>1. CASE status[r] = "succeeded" /\ selected'[r] = selected[r]
    <3>1. PICK i \in DOMAIN handoffs[r] : handoffs[r][i] = selected[r]
      BY <2>1 DEF SuccessWasHandedOff
    <3>2. handoffs[r] \in Seq(Assets)
      BY SafeTypes
    <3>3. selected[r] \in Assets
      BY <3>1, <3>2
    <3>. QED
      BY <2>0, <2>1, <3>1, <3>3 DEF Handed
  <2>2. CASE CommitTx(r) /\ selected'[r] = pipe[r].asset
    <3>1. pipe[r].accepted /\ Handed(r, pipe[r].asset)
      BY <2>2 DEF CommitTx, At, HandOffOK, HandOffOf, Recording
    <3>. QED
      BY <2>0, <2>2, <3>1, AcceptedHasAsset
  <2>. QED
    BY <1>2, <2>1, <2>2, SuccessRows
<1>. QED
  BY <1>1, <1>2 DEF SuccessWasHandedOff

\* A run that is recorded as succeeded did hand its selected asset to Buffer:
\* schedule_post returns Ok only for a reply Buffer gives to a post it made.
THEOREM SuccessWasHandedOffHolds == Spec => []SuccessWasHandedOff
<1>1. Init => HandOffOK /\ SuccessWasHandedOff
  BY DEF Init, DatabaseInit, PipelineInit, NoPipe, HandOffOK, HandOffOf, Recording,
         SuccessWasHandedOff
<1>. QED
  BY <1>1, HandOffStep, Safe, PTL DEF Spec

-----------------------------------------------------------------------------
(* The life of a run when no job is handed out twice.                      *)

\* Until its handler has inserted the row and pushed the job, a run belongs
\* to the handler alone.
HandlerOwns(r) ==
  /\ tap[r] \in {"idle", "passed", "conflict"} => status[r] = "none"
  /\ tap[r] \in {"inserted", "unqueued"} => status[r] = "queued"
  /\ tap[r] # "accepted" => jobs[r] = "none"

\* From then on it waits in the queue, untouched.
QueueOwns(r) == jobs[r] = "pending" => status[r] = "queued"

\* And then it is the pipeline's, which knows the status its row has.
PipelineOwns(r) ==
  /\ pipe[r].pc # "idle" => jobs[r] = "locked"
  /\ pipe[r].pc = "start" => status[r] = "queued"
  /\ pipe[r].pc \in HasSnapshot \cup {"dedup"} => status[r] = "running"
  /\ pipe[r].pc = "failing" => status[r] \in {"queued", "running"}

OwnersOf(r) == HandlerOwns(r) /\ QueueOwns(r) /\ PipelineOwns(r)
OwnersOK == \A r \in RunIds : OwnersOf(r)

LifeInv == SafeInv /\ OwnersOK /\ PostIffSucceeded

\* At the start nobody owns a run.
LEMMA LifeInvInit == Init => LifeInv
<1>. SUFFICES ASSUME Init PROVE LifeInv
  OBVIOUS
<1>1. SafeInv
  BY SafeInvInit
<1>2. PostIffSucceeded
  BY DEF Init, DatabaseInit, PostIffSucceeded
<1>3. OwnersOK
  BY DEF Init, DatabaseInit, TriggerInit, PipelineInit, NoPipe, OwnersOK, OwnersOf,
         HandlerOwns, QueueOwns, PipelineOwns, HasSnapshot
<1>. QED
  BY <1>1, <1>2, <1>3 DEF LifeInv

\* A step concerns one run at most: the others keep their row, job, handler and
\* pipeline.
OnlyOf(r) ==
  \A q \in RunIds \ {r} : /\ tap'[q] = tap[q] /\ status'[q] = status[q]
                          /\ jobs'[q] = jobs[q] /\ pipe'[q].pc = pipe[q].pc

\* A step of one run leaves the others where they belong.
LEMMA OthersOwners ==
  ASSUME OwnersOK, NEW r \in RunIds, OnlyOf(r), OwnersOf(r)'
  PROVE  OwnersOK'
<1>1. ASSUME NEW q \in RunIds \ {r}
      PROVE  OwnersOf(q)'
  BY DEF OwnersOK, OnlyOf, OwnersOf, HandlerOwns, QueueOwns, PipelineOwns
<1>. QED
  BY <1>1 DEF OwnersOK

\* A row that is not the Post's may go to any status but success.
LEMMA PostIffStays ==
  ASSUME PostIffSucceeded, UNCHANGED <<selected, posts>>,
         status \in [RunIds -> Statuses], posts \in [Assets -> RunIds \cup {NoRun}],
         NEW r \in RunIds, NEW s \in Statuses \ {"succeeded"}, status[r] # "succeeded",
         status' = [status EXCEPT ![r] = s]
  PROVE  PostIffSucceeded'
BY DEF PostIffSucceeded

\* The handler of a tap works on a row nobody else has seen.
LEMMA TapStepOwners ==
  ASSUME LifeInv, NEW r \in RunIds, Gate(r) \/ TapStep(r) \/ DropTap(r), pipe' = pipe
  PROVE  OwnersOK' /\ PostIffSucceeded'
<1>0. /\ tap \in [RunIds -> TapStates] /\ status \in [RunIds -> Statuses]
      /\ jobs \in [RunIds -> JobStates] /\ posts \in [Assets -> RunIds \cup {NoRun}]
      /\ OwnersOK /\ OwnersOf(r) /\ PostIffSucceeded
  BY SafeTypes DEF LifeInv, OwnersOK
<1>1. tap[r] # "accepted"
  BY DEF Gate, TapStep, InsertRun, Enqueue, GiveUp, DropTap, InHandler
<1>2. jobs[r] = "none" /\ pipe[r].pc = "idle"
  BY <1>0, <1>1 DEF OwnersOf, HandlerOwns, PipelineOwns
\* The tables stand still, or the row of r moves to status s, or its job is pushed.
<1>3. ASSUME NEW t \in TapStates, tap' = [tap EXCEPT ![r] = t], NoWrite,
             t \in {"passed", "conflict"} => status[r] = "none",
             t \in {"inserted", "unqueued"} => status[r] = "queued",
             t # "idle"
      PROVE  OwnersOK' /\ PostIffSucceeded'
  <2>1. OwnersOf(r)' /\ OnlyOf(r)
    BY <1>0, <1>2, <1>3
       DEF NoWrite, KeepRows, OwnersOf, HandlerOwns, QueueOwns, PipelineOwns, OnlyOf,
           HasSnapshot
  <2>. QED
    BY <1>0, <1>3, <2>1, OthersOwners DEF NoWrite, KeepRows, PostIffSucceeded
<1>4. ASSUME NEW t \in TapStates, tap' = [tap EXCEPT ![r] = t],
             NEW s \in {"queued", "failed"}, SetStatus(r, s), UNCHANGED jobs,
             status[r] # "succeeded",
             (t = "inserted" /\ s = "queued") \/ (t = "enqueue_failed" /\ s = "failed")
      PROVE  OwnersOK' /\ PostIffSucceeded'
  <2>1. OwnersOf(r)' /\ OnlyOf(r)
    BY <1>0, <1>2, <1>4
       DEF SetStatus, OwnersOf, HandlerOwns, QueueOwns, PipelineOwns, OnlyOf, HasSnapshot
  <2>2. PostIffSucceeded'
    BY <1>0, <1>4, PostIffStays DEF SetStatus, Statuses
  <2>. QED
    BY <1>0, <2>1, <2>2, OthersOwners
<1>5. CASE Gate(r)
  BY <1>0, <1>3, <1>5
     DEF Gate, TapGoto, TapStates, Answers, InHandler, OwnersOf, HandlerOwns
<1>6. CASE InsertRun(r)
  <2>1. status[r] = "none"
    BY <1>0, <1>6 DEF InsertRun, OwnersOf, HandlerOwns
  <2>. QED
    BY <1>3, <1>4, <1>6, <2>1
       DEF InsertRun, RunInsert, TapGoto, TapStates, Answers, InHandler
<1>7. CASE Enqueue(r)
  <2>1. status[r] = "queued"
    BY <1>0, <1>7 DEF Enqueue, OwnersOf, HandlerOwns
  <2>2. CASE tap' = [tap EXCEPT ![r] = "unqueued"] /\ NoWrite
    BY <1>3, <2>1, <2>2 DEF TapStates, InHandler
  <2>3. CASE tap' = [tap EXCEPT ![r] = "accepted"] /\ PushJob(r)
    <3>1. OwnersOf(r)' /\ OnlyOf(r)
      BY <1>0, <1>2, <2>1, <2>3
         DEF PushJob, SetJob, OwnersOf, HandlerOwns, QueueOwns, PipelineOwns, OnlyOf,
             HasSnapshot
    <3>. QED
      BY <1>0, <2>3, <3>1, OthersOwners DEF PushJob, SetJob, PostIffSucceeded
  <2>. QED
    BY <1>7, <2>2, <2>3 DEF Enqueue, TapGoto
<1>8. CASE GiveUp(r)
  <2>1. status[r] = "queued"
    BY <1>0, <1>8 DEF GiveUp, OwnersOf, HandlerOwns
  <2>. QED
    BY <1>3, <1>4, <1>8, <2>1 DEF GiveUp, RunMarkFailed, TapGoto, TapStates, Answers
<1>9. CASE DropTap(r)
  BY <1>3, <1>9 DEF DropTap, TapGoto, TapStates
<1>. QED
  BY <1>5, <1>6, <1>7, <1>8, <1>9 DEF TapStep

\* A pipeline rewrites one row, its own, and only until it has finished.
LEMMA PipelineStepOwners ==
  ASSUME LifeInv, NEW r \in RunIds, PipelineStep(r), UNCHANGED tap
  PROVE  OwnersOK' /\ PostIffSucceeded'
<1>0. /\ tap \in [RunIds -> TapStates] /\ status \in [RunIds -> Statuses]
      /\ selected \in [RunIds -> Assets \cup {NoAsset}]
      /\ posts \in [Assets -> RunIds \cup {NoRun}]
      /\ jobs \in [RunIds -> JobStates] /\ pipe \in [RunIds -> Locals]
      /\ SafeInv /\ LocalsOf(r) /\ OwnersOK /\ OwnersOf(r) /\ PostIffSucceeded
  BY SafeTypes DEF LifeInv, SafeInv, LocalsOK, OwnersOK
<1>1. pipe[r].pc # "idle" /\ OthersWait(r)
  BY <1>0, StepMoves
<1>2. jobs[r] = "locked" /\ tap[r] = "accepted"
  BY <1>0, <1>1 DEF OwnersOf, HandlerOwns, PipelineOwns
\* Steps that leave the tables alone: the status the pc stands for is kept.
<1>3. ASSUME KeepRows,
             \/ pipe'[r].pc = "finished"
             \/ /\ pipe'[r].pc \in HasSnapshot \cup {"failing"}
                /\ pipe[r].pc \in HasSnapshot \cup {"dedup"}
             \/ pipe'[r].pc = "failing" /\ pipe[r].pc = "start"
      PROVE  OwnersOK' /\ PostIffSucceeded'
  <2>1. OwnersOf(r)' /\ OnlyOf(r)
    BY <1>0, <1>1, <1>2, <1>3
       DEF KeepRows, OwnersOf, HandlerOwns, QueueOwns, PipelineOwns, OnlyOf, OthersWait,
           HasSnapshot
  <2>. QED
    BY <1>0, <1>3, <2>1, OthersOwners DEF KeepRows, PostIffSucceeded
\* A step that moves the run's row from one status to another.
<1>4. ASSUME NEW s \in {"running", "failed"}, status[r] # "succeeded", SetStatus(r, s),
             UNCHANGED jobs,
             \/ s = "running" /\ pipe'[r].pc = "dedup"
             \/ s = "failed" /\ pipe'[r].pc = "finished"
      PROVE  OwnersOK' /\ PostIffSucceeded'
  <2>1. OwnersOf(r)' /\ OnlyOf(r)
    BY <1>0, <1>1, <1>2, <1>4
       DEF SetStatus, OwnersOf, HandlerOwns, QueueOwns, PipelineOwns, OnlyOf, OthersWait,
           HasSnapshot
  <2>2. PostIffSucceeded'
    BY <1>0, <1>4, PostIffStays DEF SetStatus, Statuses
  <2>. QED
    BY <1>0, <2>1, <2>2, OthersOwners
<1>5. CASE MarkRunning(r)
  <2>1. CASE RunMarkRunning(r) /\ Goto(r, "dedup")
    <3>1. status[r] = "queued" /\ pipe'[r].pc = "dedup"
      BY <1>0, <1>5, <2>1, GotoLocals DEF MarkRunning, At, OwnersOf, PipelineOwns, PipeStates
    <3>. QED
      BY <1>4, <2>1, <3>1 DEF RunMarkRunning
  <2>2. CASE NoWrite /\ Goto(r, "failing")
    BY <1>0, <1>3, <1>5, <2>2, GotoLocals DEF MarkRunning, At, NoWrite, PipeStates
  <2>. QED
    BY <1>5, <2>1, <2>2 DEF MarkRunning
<1>6. CASE ReadDedupSet(r)
  <2>1. KeepRows /\ pipe[r].pc = "dedup"
    BY <1>6 DEF ReadDedupSet, At, NoWrite
  <2>2. pipe'[r].pc \in {"select", "failing"}
    BY <1>0, <1>6 DEF ReadDedupSet, Goto, Locals
  <2>. QED
    BY <1>3, <2>1, <2>2 DEF HasSnapshot
<1>7. CASE SelectAsset(r)
  <2>1. KeepRows /\ pipe[r].pc = "select"
    BY <1>7 DEF SelectAsset, At, NoWrite
  <2>2. pipe'[r].pc = "caption"
    BY <1>0, <1>7 DEF SelectAsset, Locals
  <2>. QED
    BY <1>3, <2>1, <2>2 DEF HasSnapshot
<1>8. CASE \/ GetCaption(r) \/ SearchOrCaptionFails(r) \/ InsertMedia(r) \/ SendToBuffer(r)
           \/ BufferReplies(r) \/ BufferFails(r) \/ BeginTx(r) \/ InsertPost(r)
           \/ MarkSucceeded(r)
  <2>1. KeepRows /\ pipe[r].pc \in HasSnapshot
    BY <1>8 DEF GetCaption, SearchOrCaptionFails, InsertMedia, SendToBuffer, BufferReplies,
                BufferFails, BeginTx, InsertPost, MarkSucceeded, DbStep, RemoteError,
                NoWrite, At, HasSnapshot
  <2>2. \E pc \in {"media", "send", "awaiting", "begin", "txPost", "txRun", "commit",
                   "failing"} : Goto(r, pc)
    BY <1>8 DEF GetCaption, SearchOrCaptionFails, InsertMedia, SendToBuffer, BufferReplies,
                BufferFails, BeginTx, InsertPost, MarkSucceeded, DbStep, RemoteError
  <2>. QED
    BY <1>0, <1>3, <2>1, <2>2, GotoLocals DEF PipeStates, HasSnapshot
<1>9. CASE CommitTx(r)
  <2>1. CASE CommitSuccess(r, pipe[r].asset) /\ Goto(r, "finished")
    <3>1. /\ pipe[r].asset \in Assets /\ posts[pipe[r].asset] = NoRun
          /\ status[r] = "running"
      BY <1>0, <1>9
         DEF CommitTx, At, LocalsOf, DedupSet, HasAsset, HasSnapshot, OwnersOf, PipelineOwns
    <3>2. /\ posts' = [posts EXCEPT ![pipe[r].asset] = r]
          /\ status' = [status EXCEPT ![r] = "succeeded"]
          /\ selected' = [selected EXCEPT ![r] = pipe[r].asset]
          /\ UNCHANGED jobs
      BY <2>1 DEF CommitSuccess
    <3>3. PostIffSucceeded'
      BY <1>0, <3>1, <3>2 DEF PostIffSucceeded
    <3>4. OwnersOf(r)' /\ OnlyOf(r)
      BY <1>0, <1>1, <1>2, <2>1, <3>2, GotoLocals
         DEF OwnersOf, HandlerOwns, QueueOwns, PipelineOwns, OnlyOf, OthersWait, PipeStates,
             HasSnapshot
    <3>. QED
      BY <1>0, <3>3, <3>4, OthersOwners
  <2>2. CASE KeepRows /\ Goto(r, "failing")
    BY <1>0, <1>3, <1>9, <2>2, GotoLocals DEF CommitTx, At, PipeStates, HasSnapshot
  <2>. QED
    BY <1>9, <2>1, <2>2 DEF CommitTx
<1>10. CASE MarkFailed(r)
  <2>1. status[r] \in {"queued", "running"} /\ pipe'[r].pc = "finished"
    BY <1>0, <1>10, GotoLocals DEF MarkFailed, At, OwnersOf, PipelineOwns, PipeStates
  <2>. QED
    BY <1>3, <1>4, <1>10, <2>1 DEF MarkFailed, RunMarkFailed
<1>. QED
  BY <1>5, <1>6, <1>7, <1>8, <1>9, <1>10 DEF PipelineStep

\* LifeInv is inductive when Apalis hands out no job twice.
THEOREM LifeInvStep == ~Redelivery /\ LifeInv /\ [Next]_vars => LifeInv'
<1>. SUFFICES ASSUME ~Redelivery, LifeInv, [Next]_vars PROVE LifeInv'
  OBVIOUS
<1>0. /\ SafeInv /\ tap \in [RunIds -> TapStates] /\ jobs \in [RunIds -> JobStates]
      /\ OwnersOK /\ PostIffSucceeded
  BY SafeTypes DEF LifeInv
<1>. SUFFICES OwnersOK' /\ PostIffSucceeded'
  BY <1>0, SafeInvStep DEF LifeInv
<1>1. ASSUME NEW r \in RunIds, Arrive(r) \/ Handle(r) \/ Disconnect(r)
      PROVE  OwnersOK' /\ PostIffSucceeded'
  BY <1>1, TapStepOwners DEF Arrive, Handle, Disconnect, pipeVars
<1>2. ASSUME NEW r \in RunIds, PickUp(r) \/ Ack(r)
      PROVE  OwnersOK' /\ PostIffSucceeded'
  <2>0. NoPipe.pc = "idle"
    BY DEF NoPipe
  <2>1. UNCHANGED <<status, selected, posts, tap>> /\ OthersWait(r)
    BY <1>0, <1>2, WorkerMoves DEF PickUp, LockJob, Ack, AckJob, SetJob
  <2>2. /\ jobs[r] \in {"pending", "locked"}
        /\ \/ jobs' = [jobs EXCEPT ![r] = "locked"] /\ pipe'[r].pc = "start" /\ jobs[r] = "pending"
           \/ jobs' = [jobs EXCEPT ![r] = "done"] /\ pipe'[r].pc = "idle"
    BY <1>0, <1>2, <2>0, WorkerMoves
       DEF PickUp, LockJob, Ack, AckJob, SetJob, At, OwnersOK, OwnersOf, PipelineOwns
  <2>3. OwnersOf(r)' /\ OnlyOf(r)
    BY <1>0, <2>1, <2>2
       DEF OwnersOK, OwnersOf, HandlerOwns, QueueOwns, PipelineOwns, OnlyOf, OthersWait,
           HasSnapshot
  <2>. QED
    BY <1>0, <2>1, <2>3, OthersOwners DEF PostIffSucceeded
<1>3. ASSUME NEW r \in RunIds, Work(r)
      PROVE  OwnersOK' /\ PostIffSucceeded'
  BY <1>3, PipelineStepOwners DEF Work
<1>4. CASE WorkerExit \/ Stop
  <2>1. UNCHANGED <<status, selected, posts, jobs>> /\ \A r \in RunIds : pipe'[r].pc = "idle"
    BY <1>4 DEF WorkerExit, Stop, DropPipes, KeepRows, NoPipe
  <2>2. \A r \in RunIds : tap'[r] = tap[r] \/ (tap[r] \in InHandler /\ tap'[r] = "aborted")
    BY <1>0, <1>4 DEF WorkerExit, Stop, AbortTaps
  <2>. QED
    BY <1>0, <2>1, <2>2
       DEF OwnersOK, OwnersOf, HandlerOwns, QueueOwns, PipelineOwns, PostIffSucceeded,
           HasSnapshot, InHandler
<1>5. CASE Buffer
  <2>1. PICK q \in wire : BufferAccepts(q) \/ BufferRefuses(q)
    BY <1>5 DEF Buffer, BufferStep
  <2>2. UNCHANGED <<status, selected, posts, jobs, tap>>
    BY <1>5, <2>1 DEF Buffer, BufferAccepts, BufferRefuses, NoWrite, KeepRows
  <2>3. \A r \in RunIds : pipe'[r].pc = pipe[r].pc
    BY <1>0, <2>1, BufferStepPipe
  <2>. QED
    BY <1>0, <2>2, <2>3
       DEF OwnersOK, OwnersOf, HandlerOwns, QueueOwns, PipelineOwns, PostIffSucceeded
<1>6. CASE Restart \/ UNCHANGED vars
  BY <1>0, <1>6
     DEF Restart, vars, dbVars, pipeVars, OwnersOK, OwnersOf, HandlerOwns, QueueOwns,
         PipelineOwns, PostIffSucceeded
<1>. QED
  BY <1>1, <1>2, <1>3, <1>4, <1>5, <1>6 DEF Next, Quiet, Redeliver

\* Each run is owned by one of its handler, the queue and the pipeline, in turn.
THEOREM Life ==
  ASSUME ~Redelivery
  PROVE  Spec => []LifeInv
<1>1. LifeInv /\ [Next]_vars => LifeInv'
  BY LifeInvStep
<1>. QED
  BY <1>1, LifeInvInit, PTL DEF Spec

\* An asset is the Post of a run exactly when that run succeeded with it.
THEOREM PostIffSucceededHolds ==
  ASSUME ~Redelivery
  PROVE  Spec => []PostIffSucceeded
<1>1. LifeInv => PostIffSucceeded
  BY DEF LifeInv
<1>. QED
  BY <1>1, Life, PTL

-----------------------------------------------------------------------------
(* The ledger: what one step of the system does to runs and posts.         *)

\* What one step does to runs and posts: nothing, or one move of one run.
LEMMA Effect ==
  ASSUME ~Redelivery, LifeInv, [Next]_vars
  PROVE  \/ UNCHANGED <<status, posts>>
         \/ \E r \in RunIds :
              /\ tap[r] = "passed" /\ status[r] = "none"
              /\ status' = [status EXCEPT ![r] = "queued"]
              /\ UNCHANGED posts /\ tap'[r] = "inserted"
         \/ \E r \in RunIds, s \in {"running", "failed"} :
              /\ status[r] = "queued" \/ (status[r] = "running" /\ s = "failed")
              /\ status' = [status EXCEPT ![r] = s]
              /\ UNCHANGED posts
         \/ \E r \in RunIds, a \in Assets :
              /\ status[r] = "running" /\ posts[a] = NoRun
              /\ status' = [status EXCEPT ![r] = "succeeded"]
              /\ posts' = [posts EXCEPT ![a] = r]
<1>0. /\ SafeInv /\ LocalsOK /\ OwnersOK /\ tap \in [RunIds -> TapStates]
  BY SafeTypes DEF LifeInv, SafeInv
<1>1. ASSUME NEW r \in RunIds, TapStep(r), ~UNCHANGED <<status, posts>>
      PROVE  \/ /\ tap[r] = "passed" /\ status[r] = "none"
                /\ status' = [status EXCEPT ![r] = "queued"]
                /\ UNCHANGED posts /\ tap'[r] = "inserted"
             \/ /\ status[r] = "queued"
                /\ status' = [status EXCEPT ![r] = "failed"]
                /\ UNCHANGED posts
  BY <1>0, <1>1
     DEF TapStep, InsertRun, Enqueue, GiveUp, RunInsert, PushJob, SetJob, RunMarkFailed,
         SetStatus, TapGoto, NoWrite, KeepRows, OwnersOK, OwnersOf, HandlerOwns
<1>2. ASSUME NEW r \in RunIds, PipelineStep(r), ~UNCHANGED <<status, posts>>
      PROVE  \/ MarkRunning(r) /\ RunMarkRunning(r)
             \/ CommitTx(r) /\ CommitSuccess(r, pipe[r].asset)
             \/ MarkFailed(r) /\ RunMarkFailed(r)
  BY <1>2 DEF PipelineStep, MarkRunning, ReadDedupSet, SelectAsset, GetCaption,
              SearchOrCaptionFails, InsertMedia, SendToBuffer, BufferReplies, BufferFails,
              BeginTx, InsertPost, MarkSucceeded, CommitTx, MarkFailed, DbStep,
              RemoteError, NoWrite, KeepRows
<1>3. ASSUME NEW r \in RunIds, MarkRunning(r) /\ RunMarkRunning(r)
      PROVE  status[r] = "queued" /\ SetStatus(r, "running")
  BY <1>0, <1>3 DEF MarkRunning, At, OwnersOK, OwnersOf, PipelineOwns, RunMarkRunning
<1>4. ASSUME NEW r \in RunIds, CommitTx(r) /\ CommitSuccess(r, pipe[r].asset)
      PROVE  /\ status[r] = "running" /\ pipe[r].asset \in Assets
             /\ posts[pipe[r].asset] = NoRun
  BY <1>0, <1>4
     DEF CommitTx, At, LocalsOK, LocalsOf, OwnersOK, OwnersOf, PipelineOwns, DedupSet,
         HasAsset, HasSnapshot
<1>5. ASSUME NEW r \in RunIds, MarkFailed(r) /\ RunMarkFailed(r)
      PROVE  status[r] \in {"queued", "running"} /\ SetStatus(r, "failed")
  BY <1>0, <1>5 DEF MarkFailed, At, OwnersOK, OwnersOf, PipelineOwns, RunMarkFailed
<1>6. ASSUME ~UNCHANGED <<status, posts>>
      PROVE  \E r \in RunIds : PipelineStep(r) \/ TapStep(r)
  BY <1>6 DEF Next, Arrive, Gate, Handle, Disconnect, DropTap, PickUp, LockJob, PushJob, SetJob,
              Redeliver, Work, Ack, AckJob, WorkerExit, Stop, Restart, Buffer, BufferStep,
              BufferAccepts, BufferRefuses, DropPipes, NoWrite, KeepRows, Quiet, vars, dbVars
<1>. QED
  BY <1>1, <1>2, <1>3, <1>4, <1>5, <1>6 DEF SetStatus, CommitSuccess

-----------------------------------------------------------------------------
(* The polled answer: how a run ended is not taken back.                   *)

\* The asset of a run is written once, while the run is running.
LEMMA SelectedOnce ==
  ASSUME LifeInv, [Next]_vars, NEW r \in RunIds,
         status[r] \in {"succeeded", "failed"}
  PROVE  selected'[r] = selected[r]
<1>0. SafeInv /\ OwnersOK
  BY DEF LifeInv
<1>1. ASSUME NEW q \in RunIds, CommitTx(q) /\ CommitSuccess(q, pipe[q].asset)
      PROVE  selected'[r] = selected[r]
  <2>1. status[q] = "running"
    BY <1>0, <1>1 DEF CommitTx, At, OwnersOK, OwnersOf, PipelineOwns, HasSnapshot
  <2>2. selected \in [RunIds -> Assets \cup {NoAsset}] /\ r # q
    BY <1>0, <2>1, SafeTypes
  <2>. QED
    BY <1>1, <2>2 DEF CommitSuccess
<1>. QED
  BY <1>1, TableMoves DEF SetStatus

\* A step leaves the answer for a run that has ended as it is.
LEMMA TerminalStep ==
  ASSUME ~Redelivery, LifeInv, [Next]_vars, NEW r \in RunIds,
         StatusAnswer(r).status \in {"succeeded", "failed"}
  PROVE  StatusAnswer(r)' = StatusAnswer(r)
<1>1. status[r] \in {"succeeded", "failed"}
  BY DEF StatusAnswer, RunGetStatus
<1>2. status \in [RunIds -> Statuses]
  BY SafeTypes DEF LifeInv
<1>3. status'[r] = status[r]
  BY <1>1, <1>2, Effect
<1>4. selected'[r] = selected[r]
  BY <1>1, SelectedOnce
<1>. QED
  BY <1>3, <1>4 DEF StatusAnswer, RunGetStatus

\* Once GET /trigger/status has said that a run succeeded, with its asset, or
\* failed, every later answer says the same.
THEOREM TerminalAnswerStandsHolds ==
  ASSUME ~Redelivery
  PROVE  Spec => TerminalAnswerStands
<1>1. LifeInv /\ [Next]_vars =>
        [\A r \in RunIds : StatusAnswer(r).status \in {"succeeded", "failed"}
                             => StatusAnswer(r)' = StatusAnswer(r)]_vars
  BY TerminalStep
<1>. QED
  BY <1>1, Life, PTL DEF Spec, TerminalAnswerStands

-----------------------------------------------------------------------------
(* The gate: how many runs can be in flight.                               *)

\* The runs that hold the gate or have passed it.
Claimed == {r \in RunIds : tap[r] = "passed"} \cup InFlight

GateInv == Cardinality(Claimed) <= ConcurrentTaps

\* The runs that claim the gate are finitely many.
LEMMA ClaimedFinite ==
  /\ IsFiniteSet(Claimed) /\ Cardinality(Claimed) \in Nat
  /\ IsFiniteSet(Active) /\ Cardinality(Active) \in Nat
<1>1. Claimed \subseteq RunIds /\ Active \subseteq RunIds
  BY DEF Claimed, InFlight, Active
<1>. QED
  BY <1>1, FS_Subset, FS_CardinalityType

\* At the start no run claims the gate.
LEMMA GateInvInit == Init => GateInv
<1>. SUFFICES ASSUME Init PROVE GateInv
  OBVIOUS
<1>1. Claimed = {}
  BY DEF Init, DatabaseInit, TriggerInit, Claimed, InFlight
<1>. QED
  BY <1>1, FS_EmptySet DEF GateInv

\* Only the gate lets a run in, and it does so when none is in flight.
LEMMA ClaimedGrows ==
  ASSUME ~Redelivery, LifeInv, [Next]_vars
  PROVE  \/ Claimed' \subseteq Claimed
         \/ \E r \in RunIds :
              /\ Cardinality(Active) < ConcurrentTaps
              /\ Claimed' \subseteq Active \cup {r}
<1>0. tap \in [RunIds -> TapStates] /\ status \in [RunIds -> Statuses]
  BY SafeTypes DEF LifeInv
<1>1. CASE \E r \in RunIds : Gate(r) /\ tap' = [tap EXCEPT ![r] = "passed"]
  <2>. PICK r \in RunIds : Gate(r) /\ tap' = [tap EXCEPT ![r] = "passed"]
    BY <1>1
  <2>1. InFlight = {} /\ UNCHANGED status /\ Cardinality(Active) < ConcurrentTaps
    BY <1>0 DEF Gate, TapGoto, NoWrite, KeepRows
  <2>2. Claimed' \subseteq Active \cup {r}
    BY <1>0, <2>1 DEF Claimed, InFlight, Active, InHandler
  <2>. QED
    BY <2>1, <2>2
<1>2. CASE ~\E r \in RunIds : Gate(r) /\ tap' = [tap EXCEPT ![r] = "passed"]
  <2>1. \A r \in RunIds : tap'[r] = "passed" => tap[r] = "passed"
    <3>1. ASSUME NEW r \in RunIds, Gate(r) \/ TapStep(r)
          PROVE  \E t \in TapStates \ {"passed"} : tap' = [tap EXCEPT ![r] = t]
      BY <1>2, <3>1 DEF Gate, TapStep, InsertRun, Enqueue, GiveUp, TapGoto, TapStates,
                        InHandler, Answers
    <3>2. CASE \E r \in RunIds : Gate(r) \/ TapStep(r)
      BY <1>0, <3>1, <3>2
    <3>3. CASE tap' = tap
      BY <3>3
    <3>4. CASE AbortTaps \/ \E r \in RunIds : DropTap(r)
      BY <1>0, <3>4 DEF AbortTaps, DropTap, TapGoto, InHandler
    <3>. QED
      BY <3>2, <3>3, <3>4
         DEF Next, Arrive, Handle, Disconnect, PickUp, Redeliver, Work, Ack, WorkerExit, Stop, Restart,
             Buffer, Quiet, vars
  <2>2. \A r \in RunIds : r \in InFlight' => r \in Claimed
    BY <1>0, Effect DEF Claimed, InFlight
  <2>. QED
    BY <2>1, <2>2 DEF Claimed, InFlight
<1>. QED
  BY <1>1, <1>2

\* The number of runs that claim the gate never exceeds the handlers at once.
THEOREM GateInvStep == ~Redelivery /\ LifeInv /\ GateInv /\ [Next]_vars => GateInv'
<1>. SUFFICES ASSUME ~Redelivery, LifeInv, GateInv, [Next]_vars PROVE GateInv'
  OBVIOUS
<1>1. CASE Claimed' \subseteq Claimed
  <2>1. Cardinality(Claimed') <= Cardinality(Claimed) /\ Cardinality(Claimed') \in Nat
    BY <1>1, ClaimedFinite, FS_Subset, FS_CardinalityType
  <2>. QED
    BY <2>1, ClaimedFinite DEF GateInv
<1>2. ASSUME NEW r \in RunIds, Cardinality(Active) < ConcurrentTaps,
             Claimed' \subseteq Active \cup {r}
      PROVE  GateInv'
  <2>1. /\ IsFiniteSet(Active \cup {r}) /\ Cardinality(Active \cup {r}) \in Nat
        /\ Cardinality(Active \cup {r}) <= Cardinality(Active) + 1
    <3>1. /\ IsFiniteSet(Active \cup {r})
          /\ Cardinality(Active \cup {r})
               = IF r \in Active THEN Cardinality(Active) ELSE Cardinality(Active) + 1
      BY ClaimedFinite, FS_AddElement
    <3>. QED
      BY <3>1, ClaimedFinite
  <2>2. /\ Cardinality(Claimed') <= Cardinality(Active \cup {r})
        /\ Cardinality(Claimed') \in Nat
    BY <1>2, <2>1, FS_Subset, FS_CardinalityType
  <2>. QED
    BY <1>2, <2>1, <2>2, ClaimedFinite DEF GateInv
<1>. QED
  BY <1>1, <1>2, ClaimedGrows

\* No more runs are in flight than handlers can be in progress at once.
THEOREM InFlightBoundedHolds ==
  ASSUME ~Redelivery
  PROVE  Spec => []InFlightBounded
<1>1. LifeInv /\ GateInv /\ [Next]_vars => GateInv'
  BY GateInvStep
<1>2. GateInv => InFlightBounded
  <2>1. InFlight \subseteq Claimed
    BY DEF Claimed
  <2>2. /\ Cardinality(InFlight) <= Cardinality(Claimed)
        /\ Cardinality(InFlight) \in Nat
    BY <2>1, ClaimedFinite, FS_Subset, FS_CardinalityType
  <2>. QED
    BY <2>2, ClaimedFinite DEF GateInv, InFlightBounded
<1>. QED
  BY <1>1, <1>2, GateInvInit, Life, PTL DEF Spec

-----------------------------------------------------------------------------
(* Refinement: runs and posts behave as the ledger promises.               *)

\* The tables start as the ledger does.
LEMMA LedgerInit == Init => Ledger!Init
BY DEF Init, DatabaseInit, Ledger!Init

\* A run about to be inserted claims the gate and is not in flight yet.
LEMMA GateHasRoom ==
  ASSUME GateInv, NEW r \in RunIds, tap[r] = "passed", status[r] = "none"
  PROVE  Cardinality(InFlight) < ConcurrentTaps
<1>1. r \notin InFlight /\ InFlight \subseteq Claimed /\ InFlight \cup {r} \subseteq Claimed
  BY DEF InFlight, Claimed
<1>2. IsFiniteSet(InFlight) /\ Cardinality(InFlight) \in Nat
  BY <1>1, ClaimedFinite, FS_Subset, FS_CardinalityType
<1>3. Cardinality(InFlight \cup {r}) = Cardinality(InFlight) + 1
  BY <1>1, <1>2, FS_AddElement
<1>4. Cardinality(InFlight \cup {r}) <= Cardinality(Claimed)
  BY <1>1, ClaimedFinite, FS_Subset
<1>. QED
  BY <1>2, <1>3, <1>4, ClaimedFinite DEF GateInv

\* Every step is a step of the ledger, or leaves runs and posts alone.
LEMMA LedgerStep ==
  ASSUME ~Redelivery, LifeInv, GateInv, [Next]_vars
  PROVE  [Ledger!Next]_(Ledger!ledgerVars)
<1>0. status \in [RunIds -> Statuses]
  BY SafeTypes DEF LifeInv
<1>1. CASE UNCHANGED <<status, posts>>
  BY <1>1 DEF Ledger!ledgerVars
<1>2. ASSUME NEW r \in RunIds, tap[r] = "passed", status[r] = "none",
             status' = [status EXCEPT ![r] = "queued"], UNCHANGED posts
      PROVE  Ledger!Next
  <2>1. Cardinality(InFlight) < ConcurrentTaps
    BY <1>2, GateHasRoom
  <2>2. Ledger!Move(r, {"none"}, "queued")
    BY <1>2 DEF Ledger!Move
  <2>3. Ledger!Cardinality(Ledger!InFlight) < ConcurrentTaps
    <3>1. Ledger!InFlight = InFlight
      BY DEF Ledger!InFlight, InFlight
    <3>2. \A S : Ledger!Cardinality(S) = Cardinality(S)
      BY DEF Ledger!Cardinality, Cardinality
    <3>. QED
      BY <2>1, <3>1, <3>2
  <2>4. UNCHANGED posts
    BY <1>2
  <2>5. Ledger!Queue(r)
    BY <2>2, <2>3, <2>4 DEF Ledger!Queue
  <2>. QED
    BY <2>5 DEF Ledger!Next
<1>3. ASSUME NEW r \in RunIds, NEW s \in {"running", "failed"},
             status[r] = "queued" \/ (status[r] = "running" /\ s = "failed"),
             status' = [status EXCEPT ![r] = s], UNCHANGED posts
      PROVE  Ledger!Next
  <2>1. Ledger!Start(r) \/ Ledger!Fail(r)
    BY <1>3 DEF Ledger!Start, Ledger!Fail, Ledger!Move
  <2>. QED
    BY <2>1 DEF Ledger!Next
<1>4. ASSUME NEW r \in RunIds, NEW a \in Assets,
             status[r] = "running", posts[a] = NoRun,
             status' = [status EXCEPT ![r] = "succeeded"],
             posts' = [posts EXCEPT ![a] = r]
      PROVE  Ledger!Next
  <2>1. Ledger!Succeed(r, a)
    BY <1>4 DEF Ledger!Succeed, Ledger!Move
  <2>. QED
    BY <2>1 DEF Ledger!Next
<1>. QED
  BY <1>1, <1>2, <1>3, <1>4, Effect

\* The system implements the ledger: one life for each run, success together
\* with its Post, an asset posted once, and as many runs in flight as handlers
\* at once: a single one when taps do not overlap.
THEOREM ImplementsLedger ==
  ASSUME ~Redelivery
  PROVE  Spec => LedgerSpec
<1>1. LifeInv /\ GateInv /\ [Next]_vars => [Ledger!Next]_(Ledger!ledgerVars)
  BY LedgerStep
<1>2. LifeInv /\ GateInv /\ [Next]_vars => GateInv'
  BY GateInvStep
<1>. QED
  BY <1>1, <1>2, LedgerInit, GateInvInit, Life, PTL DEF Spec, LedgerSpec, Ledger!Spec
=============================================================================
