----------------------------- MODULE FeedRelay -----------------------------
(***************************************************************************)
(* The process: the actix handlers of module Trigger and the single Apalis *)
(* worker running module Pipeline, sharing the database and one fate       *)
(* (main.rs, jobs/mod.rs, jobs/run.rs).  The worker never retries a job;   *)
(* when it exits the server keeps serving; when the process stops, killed  *)
(* or shut down, handlers and pipelines are dropped at whatever await they *)
(* had reached.  A boot finds the database as the last one left it (Boot). *)
(*                                                                         *)
(* Two things about Apalis are not visible in this repository and are      *)
(* parameters: whether it hands out again a job that a dead worker had     *)
(* locked (Redelivery), and how many jobs the worker handles at a time     *)
(* (JobSlots: one, says the comment at jobs/mod.rs:79-80, while run_worker *)
(* itself sets no limit).                                                  *)
(***************************************************************************)
EXTENDS Trigger, Pipeline, Boot

CONSTANTS
  Redelivery,    \* Apalis re-enqueues the locked job of a dead worker
  JobSlots,      \* jobs the worker handles at the same time
  MaxBoots,      \* bound: times the process stops and is started again
  MaxExits,      \* bound: times the worker exits under a living server
  MaxDrops       \* bound: handlers dropped because their client went away

ASSUME FeedRelayAssumption ==
  /\ Redelivery \in BOOLEAN
  /\ JobSlots \in Nat \ {0}
  /\ MaxBoots \in Nat
  /\ MaxExits \in Nat
  /\ MaxDrops \in Nat

VARIABLES
  worker,    \* "serving" or "exited"
  boots,     \* times the process stopped
  exits,     \* times the worker exited
  drops      \* handlers dropped under a living server

procVars == <<bootVars, worker, boots, exits, drops>>
vars == <<dbVars, tap, pipeVars, procVars>>

\* The server listens and the worker was spawned.
up == stage = "serving"

TypeOK ==
  /\ DatabaseTypeOK
  /\ TriggerTypeOK
  /\ PipelineTypeOK
  /\ BootTypeOK
  /\ worker \in {"serving", "exited"}
  /\ boots \in 0..MaxBoots
  /\ exits \in 0..MaxExits
  /\ drops \in 0..MaxDrops

Init ==
  /\ DatabaseInit
  /\ TriggerInit
  /\ PipelineInit
  /\ BootInit
  /\ worker = "serving"
  /\ boots = 0
  /\ exits = 0
  /\ drops = 0

-----------------------------------------------------------------------------
(* The server and the worker, while the process is up. *)

Arrive(r) == up /\ Gate(r) /\ UNCHANGED <<pipeVars, procVars>>

Handle(r) == up /\ TapStep(r) /\ UNCHANGED <<pipeVars, procVars>>

\* Whether a handler survives its client is up to actix: MaxDrops = 0 if so.
Disconnect(r) ==
  /\ up
  /\ drops < MaxDrops
  /\ drops' = drops + 1
  /\ DropTap(r)
  /\ UNCHANGED <<pipeVars, bootVars, worker, boots, exits>>

\* The runs whose handler has begun and whose job is not acknowledged.
Executing == {r \in RunIds : ~At(r, "idle")}

\* Mutant: the worker takes every job there is.
PickUpUnlimited(r) ==
  /\ up
  /\ worker = "serving"
  /\ At(r, "idle")
  /\ jobs[r] = "pending"
  /\ LockJob(r)
  /\ StartPipe(r, boots)
  /\ Ok
  /\ UNCHANGED <<wire, handoffs, tap, procVars>>

\* Mutant: a job is acknowledged when it is received.
PickUpAcked(r) ==
  /\ up
  /\ worker = "serving"
  /\ At(r, "idle")
  /\ Cardinality(Executing) < JobSlots
  /\ jobs[r] = "pending"
  /\ AckJob(r)
  /\ StartPipe(r, boots)
  /\ Ok
  /\ UNCHANGED <<wire, handoffs, tap, procVars>>

\* The worker has a free slot and takes a job.
PickUp(r) ==
  /\ up
  /\ worker = "serving"
  /\ At(r, "idle")
  /\ Cardinality(Executing) < JobSlots
  /\ jobs[r] = "pending"
  /\ LockJob(r)
  /\ StartPipe(r, boots)
  /\ Ok
  /\ UNCHANGED <<wire, handoffs, tap, procVars>>

Work(r) == up /\ PipelineStep(r) /\ UNCHANGED <<tap, procVars>>

\* Mutant: a handler that has returned keeps its slot.
AckKeepingSlot(r) ==
  /\ up
  /\ At(r, "finished")
  /\ AckJob(r)
  /\ Ok
  /\ UNCHANGED <<pipeVars, tap, procVars>>

\* The handler returned; retries are 0, so Ok or Err the job is over.
Ack(r) ==
  /\ up
  /\ At(r, "finished")
  /\ AckJob(r)
  /\ pipe' = [pipe EXCEPT ![r] = NoPipe]
  /\ Ok
  /\ UNCHANGED <<wire, handoffs, tap, procVars>>

\* The job of a worker that died is given back to the queue.
Redeliver(r) ==
  /\ Redelivery
  /\ up
  /\ worker = "serving"
  /\ jobs[r] = "locked"
  /\ At(r, "idle")
  /\ PushJob(r)
  /\ Ok
  /\ UNCHANGED <<pipeVars, tap, procVars>>

-----------------------------------------------------------------------------
(* What ends the worker, or the process. *)

\* The pipelines' futures are dropped; an open transaction is rolled back.
DropPipes ==
  /\ pipe' = [r \in RunIds |-> NoPipe]
  /\ writeLock' = NoRun
  /\ KeepRows
  /\ Ok
  /\ UNCHANGED <<wire, handoffs>>

WorkerExit ==
  /\ up
  /\ worker = "serving"
  /\ exits < MaxExits
  /\ worker' = "exited"
  /\ exits' = exits + 1
  /\ DropPipes
  /\ UNCHANGED <<tap, bootVars, boots, drops>>

\* Killed, shut down, or failed on its way up.
Stop ==
  /\ stage # "down"
  /\ boots < MaxBoots
  /\ stage' = "down"
  /\ boots' = boots + 1
  /\ DropPipes
  /\ AbortTaps
  /\ UNCHANGED <<applied, worker, exits, drops>>

\* main, one stage of the boot at a time.
Restart ==
  /\ BootStep
  /\ worker' = "serving"
  /\ UNCHANGED <<dbVars, tap, pipeVars, boots, exits, drops>>

Buffer == BufferStep /\ UNCHANGED <<tap, procVars>>

\* Every tap was answered and nobody has anything left to do.
Quiet ==
  /\ up
  /\ \A r \in RunIds : tap[r] \in Answers \cup {"aborted"}
  /\ wire = {}
  /\ Executing = {}
  /\ worker = "serving" => \A r \in RunIds : jobs[r] # "pending"
  /\ UNCHANGED vars

Next ==
  \/ \E r \in RunIds :
       \/ Arrive(r) \/ Handle(r) \/ Disconnect(r)
       \/ PickUp(r) \/ Work(r) \/ Ack(r) \/ Redeliver(r)
  \/ WorkerExit \/ Stop \/ Restart
  \/ Buffer
  \/ Quiet

Spec == Init /\ [][Next]_vars

\* The run waits for Immich, OpenAI or Buffer, whose clients have no timeout
\* (immich/client.rs:28 and the like): it may wait for ever.
AwaitingPeer(r) ==
  \/ At(r, "select") \/ At(r, "caption")
  \/ At(r, "awaiting") /\ ~pipe[r].accepted

LocalWork(r) == ~AwaitingPeer(r) /\ Work(r)

(***************************************************************************)
(* The runtime polls every future that is ready, the supervisor restarts   *)
(* the process, and Apalis polls its table.  Nothing is assumed of the     *)
(* peers: a call to one of them may never be answered.                     *)
(***************************************************************************)
Fairness ==
  /\ \A r \in RunIds : /\ WF_vars(Handle(r))
                       /\ WF_vars(Arrive(r))
                       /\ WF_vars(PickUp(r))
                       /\ WF_vars(Redeliver(r))
                       /\ WF_vars(LocalWork(r))
                       /\ WF_vars(Ack(r))
  /\ WF_vars(Restart)

FairSpec == Spec /\ Fairness

-----------------------------------------------------------------------------
(* Properties *)

\* posts and runs agree: an asset is recorded as the Post of a run exactly
\* when that run succeeded with that asset (the transaction of step 14).
\* Holds when no job is delivered twice.
PostIffSucceeded ==
  \A r \in RunIds, a \in Assets :
    posts[a] = r <=> status[r] = "succeeded" /\ selected[r] = a

\* No createPost request is sent for an asset that is already a Post, although
\* the dedup set was read many awaits earlier (pipeline.rs, step 4).  Holds
\* when the worker handles one job at a time.
RecordedAssetNeverSent ==
  [][\A q \in wire' \ wire : posts[q.asset] = NoRun]_vars

\* One tap puts at most one post into Buffer's queue, lost replies and late
\* requests included; a redelivered job may add one for every restart.
OneHandOffPerRun ==
  \A r \in RunIds :
    Len(handoffs[r]) + Cardinality({q \in wire : q.run = r})
      <= 1 + (IF Redelivery THEN boots ELSE 0)

\* A run that is recorded as succeeded did hand its asset to Buffer.
SuccessWasHandedOff ==
  \A r \in RunIds :
    status[r] = "succeeded" =>
      \E i \in DOMAIN handoffs[r] : handoffs[r][i] = selected[r]

\* A worker that exited under a living server never comes back; after a stop
\* of the process the next boot brings one.
WorkerWillCome == up => worker = "serving"

\* A worker will take the run's job.
Queued(r) ==
  /\ WorkerWillCome
  /\ \/ jobs[r] = "pending"
     \/ Redelivery /\ jobs[r] = "locked" /\ At(r, "idle")

\* The run's pipeline can still write how it ended: it has not returned, and
\* it is not in fail! behind the write lock of its own transaction.
InPipeline(r) ==
  /\ pipe[r].pc \notin {"idle", "finished"}
  /\ ~(At(r, "failing") /\ writeLock = r)

\* Rows that hold the one-in-flight gate with nobody left to finish them.
Orphans ==
  {r \in InFlight : /\ tap[r] \notin {"inserted", "unqueued"}
                    /\ ~Queued(r)
                    /\ ~InPipeline(r)}

\* What a step that leaves a run behind may be.
LeakExplained ==
  LET new == Orphans' \ Orphans IN
  \/ new = {}
  \/ faults' > faults /\ Cardinality(new) = 1
  \/ drops' > drops /\ \E r \in Active : new = {r} /\ tap'[r] = "aborted"
  \/ exits' > exits /\ new \subseteq {r \in RunIds : jobs[r] \in {"pending", "locked"}}
  \/ boots' > boots /\ new \subseteq Active \cup (IF Redelivery THEN {} ELSE Executing)
  \/ worker = "exited" /\ \E r \in Active : new = {r} /\ tap'[r] = "accepted"

\* What locks the gate for good, step by step: a database error or a dropped
\* handler, one run each; the exit of the worker, the runs it executed and
\* those in its queue; a stop of the process, the runs whose handlers were in
\* progress and, unless their jobs are delivered again, those in the pipeline;
\* and every tap accepted after the worker's exit (main.rs keeps serving).
\* Nothing else does.  Holds when the worker handles one job at a time.
LeaksAreExplained == [][LeakExplained]_vars

\* The gate is read and taken in two statements, so as many runs can be in
\* flight as there are handlers at once, and never more.
InFlightBounded == Cardinality(InFlight) <= ConcurrentTaps

\* runs and posts behave as the ledger promises, for as many runs in flight
\* as there are handlers at once: one, when taps do not overlap.
Ledger == INSTANCE RunLedger WITH Capacity <- ConcurrentTaps
LedgerSpec == Ledger!Spec

\* A Shortcut that polls a run and is told how it ended, and with which asset,
\* is never told otherwise, whatever fails afterwards.  Holds when no job is
\* delivered twice.
TerminalAnswerStands ==
  [][\A r \in RunIds :
       StatusAnswer(r).status \in {"succeeded", "failed"}
         => StatusAnswer(r)' = StatusAnswer(r)]_vars

\* A boot that was cut short anywhere, between the two sets of migrations or
\* inside one, leaves a database that later boots get through with.
ServesAgain == []<>up

\* POST /trigger/post is not answered 409 for good, unless a run was orphaned
\* and stays so, or a peer never answers the run that waits for it.
GateReopens ==
  \/ <>[](Orphans # {})
  \/ \E r \in RunIds : <>[]AwaitingPeer(r)
  \/ []<>(InFlight = {})

\* A job that was pushed is handled to its end, through stops and database
\* errors, when Apalis hands out again what a dead worker had locked; unless
\* the worker exited under a living server, or a peer never answers.
EveryJobIsAcked ==
  \/ <>[](up /\ worker = "exited")
  \/ \E r \in RunIds : <>[]AwaitingPeer(r)
  \/ \A r \in RunIds : jobs[r] = "pending" ~> jobs[r] = "done"

-----------------------------------------------------------------------------
(* What the repository's own text says and the code does not do. *)

\* CONTEXT.md: only one Run is ever in flight at a time.
OneRunInFlight == Cardinality(InFlight) <= 1

\* pipeline.rs: in either terminal state the runs row is updated; a failing
\* write of step 14 leaves no "posted but run still running".  Stated for a
\* run_mark_failed that meets no database error of its own.
FailureIsRecorded ==
  [][\A r \in RunIds :
       At(r, "failing") /\ At(r, "finished")' /\ UNCHANGED faults
         => status'[r] = "failed"]_vars
=============================================================================
