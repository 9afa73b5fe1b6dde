------------------------------ MODULE Database ------------------------------
(***************************************************************************)
(* The SQLite file that holds everything which survives a restart: the     *)
(* runs and posts tables (storage/repo.rs, migrations/001_init.sql) and    *)
(* the Apalis job queue (external; modelled from how jobs/mod.rs uses it). *)
(*                                                                         *)
(* A run is named by its ULID.  The audit columns nobody reads back        *)
(* (timings, counts, error text) are left out; what the properties relate  *)
(* is kept: a run's status and selected asset, and the run each post       *)
(* belongs to.  pending_media and captions have modules of their own.      *)
(*                                                                         *)
(* Every statement may fail: each operation of the modules that extend     *)
(* this one has a disjunct for the answer Ok and one for DbFault, and      *)
(* MaxDbFaults bounds how many statements fail in a behaviour.             *)
(***************************************************************************)
EXTENDS Integers, FiniteSets

CONSTANTS
  RunIds,        \* the ULIDs trigger.rs may hand out, one per tap
  Assets,        \* Immich asset ids
  NoRun,         \* posts has no row for the asset; no run holds the write lock
  NoAsset,       \* runs.selected_asset_id IS NULL
  MaxDbFaults    \* bound: database statements that fail in a behaviour

ASSUME DatabaseAssumption ==
  /\ NoRun \notin RunIds
  /\ NoAsset \notin Assets
  /\ MaxDbFaults \in Nat
  /\ IsFiniteSet(RunIds)

VARIABLES
  status,      \* runs.status; "none" when the run has no row
  selected,    \* runs.selected_asset_id
  posts,       \* posts: the run_id stored for an asset, or NoRun
  jobs,        \* Apalis: the state of the job that carries the run's id
  writeLock,   \* the run whose open transaction holds SQLite's write lock, or NoRun
  faults       \* statements that failed so far

dbVars == <<status, selected, posts, jobs, writeLock, faults>>

Statuses == {"none", "queued", "running", "succeeded", "failed"}
JobStates == {"none", "pending", "locked", "done"}

DatabaseTypeOK ==
  /\ status \in [RunIds -> Statuses]
  /\ selected \in [RunIds -> Assets \cup {NoAsset}]
  /\ posts \in [Assets -> RunIds \cup {NoRun}]
  /\ jobs \in [RunIds -> JobStates]
  /\ writeLock \in RunIds \cup {NoRun}
  /\ faults \in 0..MaxDbFaults

DatabaseInit ==
  /\ status = [r \in RunIds |-> "none"]
  /\ selected = [r \in RunIds |-> NoAsset]
  /\ posts = [a \in Assets |-> NoRun]
  /\ jobs = [r \in RunIds |-> "none"]
  /\ writeLock = NoRun
  /\ faults = 0

-----------------------------------------------------------------------------
(* How a statement ends. *)

Ok == UNCHANGED faults

DbFault ==
  /\ faults < MaxDbFaults
  /\ faults' = faults + 1

-----------------------------------------------------------------------------
(* Queries. *)

\* run_in_flight: the rows the one-in-flight gate looks for.
InFlight == {r \in RunIds : status[r] \in {"queued", "running"}}

\* run_get_status: the row of a run, "none" when there is no such row.
RunGetStatus(r) == [status |-> status[r], selected_asset_id |-> selected[r]]

\* posts_dedup_set.
DedupSet == {a \in Assets : posts[a] # NoRun}

-----------------------------------------------------------------------------
(* Statements that write.  A connection that does not hold the write lock  *)
(* waits while another one does, and gives up with a DbFault when it has   *)
(* waited too long.  None of the UPDATEs looks at the row's present status. *)

Unlocked == writeLock = NoRun

SetStatus(r, s) ==
  /\ status' = [status EXCEPT ![r] = s]
  /\ UNCHANGED <<selected, posts>>

RunInsert(r) ==
  /\ Unlocked
  /\ SetStatus(r, "queued")
  /\ UNCHANGED <<jobs, writeLock>>

RunMarkRunning(r) ==
  /\ Unlocked
  /\ SetStatus(r, "running")
  /\ UNCHANGED <<jobs, writeLock>>

RunMarkFailed(r) ==
  /\ Unlocked
  /\ SetStatus(r, "failed")
  /\ UNCHANGED <<jobs, writeLock>>

\* Mutant: the success transaction forgets the posts row.
CommitWithoutPost(r, a) ==
  /\ status' = [status EXCEPT ![r] = "succeeded"]
  /\ selected' = [selected EXCEPT ![r] = a]
  /\ writeLock' = NoRun
  /\ UNCHANGED <<posts, jobs>>

\* The two statements of the success transaction, visible once committed.
CommitSuccess(r, a) ==
  /\ posts' = [posts EXCEPT ![a] = r]
  /\ status' = [status EXCEPT ![r] = "succeeded"]
  /\ selected' = [selected EXCEPT ![r] = a]
  /\ writeLock' = NoRun
  /\ UNCHANGED jobs

\* No row changes: the statement failed, or only read.
KeepRows == UNCHANGED <<status, selected, posts, jobs>>
NoWrite == KeepRows /\ UNCHANGED writeLock

-----------------------------------------------------------------------------
(* The job queue. *)

SetJob(r, s) ==
  /\ Unlocked
  /\ jobs' = [jobs EXCEPT ![r] = s]
  /\ UNCHANGED <<status, selected, posts, writeLock>>

PushJob(r) == SetJob(r, "pending")
LockJob(r) == SetJob(r, "locked")
AckJob(r)  == SetJob(r, "done")
=============================================================================
