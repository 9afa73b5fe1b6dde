------------------------------ MODULE Trigger ------------------------------
(***************************************************************************)
(* POST /trigger/post (routes/trigger.rs): one handler per Shortcut tap,   *)
(* any number of them interleaved by actix.  Between two awaits nothing    *)
(* of the handler is atomic: the gate is read in one statement, the runs   *)
(* row written in another and the job pushed in a third.                   *)
(*                                                                         *)
(* A tap is named by the ULID it would be given.  Authentication and the   *)
(* JSON bodies are left out: a request that reaches the handler is a tap.  *)
(***************************************************************************)
EXTENDS Database

CONSTANT ConcurrentTaps   \* bound: handlers in progress at the same time

ASSUME TriggerAssumption == ConcurrentTaps \in Nat \ {0}

VARIABLE tap   \* where the handler of a tap stands, or the answer it gave

InHandler == {"passed", "inserted", "unqueued"}
Answers == {"accepted", "conflict", "enqueue_failed", "error"}
TapStates == {"idle", "aborted"} \cup InHandler \cup Answers

TriggerTypeOK == tap \in [RunIds -> TapStates]

TriggerInit == tap = [r \in RunIds |-> "idle"]

Active == {r \in RunIds : tap[r] \in InHandler}

TapGoto(r, s) == tap' = [tap EXCEPT ![r] = s]

-----------------------------------------------------------------------------

\* Mutant: the gate looks for running rows only.
GateRunningOnly(r) ==
  /\ tap[r] = "idle"
  /\ Cardinality(Active) < ConcurrentTaps
  /\ \/ Ok /\ (\E q \in RunIds : status[q] = "running") /\ TapGoto(r, "conflict")
     \/ Ok /\ (\A q \in RunIds : status[q] # "running") /\ TapGoto(r, "passed")
     \/ DbFault /\ TapGoto(r, "error")
  /\ NoWrite

\* Step 1, the one-in-flight gate; a failing query is answered with 500.
Gate(r) ==
  /\ tap[r] = "idle"
  /\ Cardinality(Active) < ConcurrentTaps
  /\ \/ Ok /\ InFlight # {} /\ TapGoto(r, "conflict")
     \/ Ok /\ InFlight = {} /\ TapGoto(r, "passed")
     \/ DbFault /\ TapGoto(r, "error")
  /\ NoWrite

\* Steps 2 and 3: a fresh ULID and its row, at status queued.
InsertRun(r) ==
  /\ tap[r] = "passed"
  /\ \/ Ok /\ RunInsert(r) /\ TapGoto(r, "inserted")
     \/ DbFault /\ NoWrite /\ TapGoto(r, "error")

\* Steps 4 and 5: push the job, answer 202.
Enqueue(r) ==
  /\ tap[r] = "inserted"
  /\ \/ Ok /\ PushJob(r) /\ TapGoto(r, "accepted")
     \/ DbFault /\ NoWrite /\ TapGoto(r, "unqueued")

\* The push failed: mark the row failed, best effort, and answer 500.
GiveUp(r) ==
  /\ tap[r] = "unqueued"
  /\ \/ Ok /\ RunMarkFailed(r)
     \/ DbFault /\ NoWrite
  /\ TapGoto(r, "enqueue_failed")

TapStep(r) == InsertRun(r) \/ Enqueue(r) \/ GiveUp(r)

\* The client of a tap goes away and actix drops its handler at an await.
DropTap(r) ==
  /\ tap[r] \in InHandler
  /\ TapGoto(r, "aborted")
  /\ Ok /\ NoWrite

\* The process stops: handlers in progress never answer.
AbortTaps == tap' = [r \in RunIds |-> IF tap[r] \in InHandler THEN "aborted" ELSE tap[r]]

-----------------------------------------------------------------------------

\* GET /trigger/status/{run_id}: the run's status ("none" is a 404), and the
\* asset it published once it has succeeded.
StatusAnswer(r) ==
  LET row == RunGetStatus(r) IN
  [status |-> row.status,
   immich_asset_id |->
     IF row.status = "succeeded" THEN row.selected_asset_id ELSE NoAsset]
=============================================================================
