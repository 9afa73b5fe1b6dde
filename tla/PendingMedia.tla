---------------------------- MODULE PendingMedia ----------------------------
(***************************************************************************)
(* The life of a /pic/<uuid>.jpg URL: the worker sweeps expired rows of    *)
(* pending_media at the start of a run, inserts one for the asset it       *)
(* picked and gives the URL to Buffer, which fetches it when it likes, any *)
(* number of times and at once with anything else (pipeline.rs, repo.rs,   *)
(* routes/pic.rs).                                                         *)
(*                                                                         *)
(* Time passes between any two steps.  The worker dates its rows by the    *)
(* moment its run started, a fetch by the moment it checks the row.  The   *)
(* clock is Utc::now in whole seconds and is taken never to run backwards. *)
(* A process that stops is a run that is abandoned and fetches that end    *)
(* with no answer, so it needs no action of its own.                       *)
(***************************************************************************)
EXTENDS Integers, FiniteSets

CONSTANTS
  Uuids,       \* one for each run that gets as far as step 11
  NoUuid,
  Fetches,     \* bound: requests of Buffer in progress at the same time
  Ttl,         \* pending_media_ttl_minutes
  Horizon      \* bound: how far the clock goes

ASSUME MediaAssumption == NoUuid \notin Uuids /\ Ttl \in Nat /\ Horizon \in Nat

VARIABLES
  now,
  run,       \* the run in the worker: pc, when it started, its uuid
  rows,      \* pending_media: expires_at for each uuid, or NoRow
  handed,    \* what Buffer was given: expires_at for each uuid, or NoRow
  fetch      \* each request: pc or answer, uuid, row found, when it began

vars == <<now, run, rows, handed, fetch>>

NoRow == -1

Expiry == 0..(Horizon + Ttl)
InProgress == {"check", "thumbnail"}
Answers == {"ok", "notFound", "badGateway", "serverError"}

TypeOK ==
  /\ now \in 0..Horizon
  /\ run \in [pc : {"idle", "sweep", "insert", "send"}, started : 0..Horizon,
              uuid : Uuids \cup {NoUuid}]
  /\ rows \in [Uuids -> Expiry \cup {NoRow}]
  /\ handed \in [Uuids -> Expiry \cup {NoRow}]
  /\ fetch \in [Fetches -> [pc : {"idle"} \cup InProgress \cup Answers,
                            uuid : Uuids \cup {NoUuid},
                            row : Expiry \cup {NoRow}, began : 0..Horizon]]

IdleRun == [pc |-> "idle", started |-> 0, uuid |-> NoUuid]
NoFetch == [pc |-> "idle", uuid |-> NoUuid, row |-> NoRow, began |-> 0]

Init ==
  /\ now = 0
  /\ run = IdleRun
  /\ rows = [u \in Uuids |-> NoRow]
  /\ handed = [u \in Uuids |-> NoRow]
  /\ fetch = [f \in Fetches |-> NoFetch]

Tick ==
  /\ now < Horizon
  /\ now' = now + 1
  /\ UNCHANGED <<run, rows, handed, fetch>>

-----------------------------------------------------------------------------
(* The worker. *)

\* execute_run takes its now_epoch.
StartRun ==
  /\ run.pc = "idle"
  /\ run' = [pc |-> "sweep", started |-> now, uuid |-> NoUuid]
  /\ UNCHANGED <<now, rows, handed, fetch>>

\* Mutant: a row is swept in the second in which it expires.
SweepEarly ==
  /\ run.pc = "sweep"
  /\ run' = [run EXCEPT !.pc = "insert"]
  /\ rows' = [u \in Uuids |-> IF rows[u] <= run.started THEN NoRow ELSE rows[u]]
  /\ UNCHANGED <<now, handed, fetch>>

\* Mutant: the sweep is given the expiry of the run's own row, not its start.
SweepToOwnExpiry ==
  /\ run.pc = "sweep"
  /\ run' = [run EXCEPT !.pc = "insert"]
  /\ rows' = [u \in Uuids |-> IF rows[u] < run.started + Ttl THEN NoRow ELSE rows[u]]
  /\ UNCHANGED <<now, handed, fetch>>

\* Step 2, pending_media_cleanup; a sweep that fails is only logged.
Sweep ==
  /\ run.pc = "sweep"
  /\ run' = [run EXCEPT !.pc = "insert"]
  /\ \/ rows' = [u \in Uuids |-> IF rows[u] < run.started THEN NoRow ELSE rows[u]]
     \/ UNCHANGED rows
  /\ UNCHANGED <<now, handed, fetch>>

Fresh == {u \in Uuids : rows[u] = NoRow /\ handed[u] = NoRow}

\* Mutant: the minutes are not brought to the unit of the clock.
InsertMediaInMinutes ==
  /\ run.pc = "insert"
  /\ \E u \in Fresh :
       /\ rows' = [rows EXCEPT ![u] = run.started + Ttl * 60]
       /\ run' = [run EXCEPT !.pc = "send", !.uuid = u]
  /\ UNCHANGED <<now, handed, fetch>>

\* Step 11, pending_media_insert under a fresh UUID v4.
InsertMedia ==
  /\ run.pc = "insert"
  /\ \E u \in Fresh :
       /\ rows' = [rows EXCEPT ![u] = run.started + Ttl]
       /\ run' = [run EXCEPT !.pc = "send", !.uuid = u]
  /\ UNCHANGED <<now, handed, fetch>>

\* Step 13: Buffer has the URL, whatever it answers.
HandOff ==
  /\ run.pc = "send"
  /\ handed' = [handed EXCEPT ![run.uuid] = rows[run.uuid]]
  /\ run' = IdleRun
  /\ UNCHANGED <<now, rows, fetch>>

\* The run fails, or the process stops, before Buffer has the URL.
AbandonRun ==
  /\ run.pc \in {"sweep", "insert", "send"}
  /\ run' = IdleRun
  /\ UNCHANGED <<now, rows, handed, fetch>>

-----------------------------------------------------------------------------
(* serve_pic, for a URL that Buffer was given. *)

Handed == {u \in Uuids : handed[u] # NoRow}

\* Step 2 of the handler: pending_media_lookup.
Lookup(f, u) ==
  /\ fetch[f].pc \notin InProgress
  /\ \E pc \in {IF rows[u] = NoRow THEN "notFound" ELSE "check", "serverError"} :
       fetch' = [fetch EXCEPT ![f] =
                   [pc |-> pc, uuid |-> u, row |-> rows[u], began |-> now]]
  /\ UNCHANGED <<now, run, rows, handed>>

\* Mutant: a row that was found is good.
CheckNothing(f) ==
  /\ fetch[f].pc = "check"
  /\ fetch' = [fetch EXCEPT ![f].pc = "thumbnail"]
  /\ UNCHANGED <<now, run, rows, handed>>

\* Step 3: expires_at must not be in the past.
CheckExpiry(f) ==
  /\ fetch[f].pc = "check"
  /\ fetch' = [fetch EXCEPT ![f].pc =
                 IF fetch[f].row < now THEN "notFound" ELSE "thumbnail"]
  /\ UNCHANGED <<now, run, rows, handed>>

\* Steps 4 and 5: the bytes come from Immich, or do not.
Thumbnail(f) ==
  /\ fetch[f].pc = "thumbnail"
  /\ \E pc \in {"ok", "badGateway"} : fetch' = [fetch EXCEPT ![f].pc = pc]
  /\ UNCHANGED <<now, run, rows, handed>>

Serve(f) ==
  \/ \E u \in Handed : Lookup(f, u)
  \/ CheckExpiry(f)
  \/ Thumbnail(f)

Next ==
  \/ Tick
  \/ StartRun \/ Sweep \/ InsertMedia \/ HandOff \/ AbandonRun
  \/ \E f \in Fetches : Serve(f)

Spec == Init /\ [][Next]_vars

-----------------------------------------------------------------------------
(* Properties *)

\* No sweep takes a row that a fetch would still be served from, although it
\* compares with the start of its own run and the fetch with the present.
LiveRowsSurvive == \A u \in Handed : now <= handed[u] => rows[u] = handed[u]

\* A URL that Buffer was given is answered 404 only when its expiry is no
\* longer in the future, with the sweep of a later run between lookup and
\* check, or the other way round.  It leaves the second of expiry open, about
\* which serve_pic and its own documentation differ: see ServedOnlyBeforeExpiry.
NotFoundOnlyWhenExpired ==
  \A f \in Fetches : fetch[f].pc = "notFound" => handed[fetch[f].uuid] <= now

\* An expired URL is dead for good, swept or not: no request that begins
\* after the expiry gets the image.
ExpiredIsNeverServed ==
  \A f \in Fetches : fetch[f].pc = "ok" => fetch[f].began <= handed[fetch[f].uuid]

-----------------------------------------------------------------------------

\* README.md: the pending_media row is there until Buffer fetches the URL,
\* when the queue slot of the post fires.
HeldUntilFetched ==
  \A f \in Fetches : fetch[f].pc # "notFound"

\* routes/pic.rs, on the check of step 2: expires_at must be in the future for
\* the image to be fetched and served.
ServedOnlyBeforeExpiry ==
  [][\A f \in Fetches : fetch[f].pc = "check" /\ fetch'[f].pc = "thumbnail"
       => fetch[f].row > now]_vars
=============================================================================
