----------------------------- MODULE RunLedger -----------------------------
(***************************************************************************)
(* What the two audit tables promise their reader, with no handler, worker *)
(* or transaction in sight: a Run has one life, queued, running, then      *)
(* succeeded or failed for good; it succeeds together with the one Post it *)
(* produced; and an asset that became a Post is never reused (the language *)
(* of CONTEXT.md, the statuses of migrations/001_init.sql).                *)
(***************************************************************************)
EXTENDS Integers, FiniteSets

CONSTANTS
  RunIds, Assets, NoRun,
  Capacity      \* runs in flight at a time; CONTEXT.md says one

VARIABLES status, posts

ledgerVars == <<status, posts>>

Init ==
  /\ status = [r \in RunIds |-> "none"]
  /\ posts = [a \in Assets |-> NoRun]

InFlight == {r \in RunIds : status[r] \in {"queued", "running"}}

Move(r, from, to) ==
  /\ status[r] \in from
  /\ status' = [status EXCEPT ![r] = to]

Queue(r) ==
  /\ Cardinality(InFlight) < Capacity
  /\ Move(r, {"none"}, "queued")
  /\ UNCHANGED posts

Start(r) == Move(r, {"queued"}, "running") /\ UNCHANGED posts

Fail(r) == Move(r, {"queued", "running"}, "failed") /\ UNCHANGED posts

Succeed(r, a) ==
  /\ Move(r, {"running"}, "succeeded")
  /\ posts[a] = NoRun
  /\ posts' = [posts EXCEPT ![a] = r]

Next ==
  \E r \in RunIds :
    \/ Queue(r) \/ Start(r) \/ Fail(r)
    \/ \E a \in Assets : Succeed(r, a)

Spec == Init /\ [][Next]_ledgerVars
=============================================================================
