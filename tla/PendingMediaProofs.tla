------------------------- MODULE PendingMediaProofs -------------------------
(***************************************************************************)
(* Proofs about PendingMedia: which answers Buffer gets for a /pic URL,    *)
(* for any number of runs, URLs and concurrent fetches, any TTL and        *)
(* whenever the sweeps and the checks happen.                              *)
(***************************************************************************)
EXTENDS PendingMedia, TLAPS

USE MediaAssumption DEF MediaAssumption

-----------------------------------------------------------------------------
(* The inductive invariant. *)

\* A run started in the past, and between steps 11 and 13 its row is there and
\* its URL not yet given away.
RunInv ==
  /\ run.started <= now
  /\ run.pc = "send" => /\ run.uuid \in Uuids
                        /\ rows[run.uuid] = run.started + Ttl
                        /\ handed[run.uuid] = NoRow

\* A row whose URL was given away is there, or was swept after its expiry.
RowsInv ==
  \A u \in Handed : rows[u] = handed[u] \/ (rows[u] = NoRow /\ handed[u] < now)

\* What a fetch for a URL carries along, and what its answer says.
FetchOK(f) ==
  /\ f.uuid \in Handed
  /\ f.began <= now
  /\ f.pc \in {"check", "thumbnail", "ok"} => f.row = handed[f.uuid]
  /\ f.pc \in {"thumbnail", "ok"} => f.began <= f.row
  /\ f.pc = "notFound" => handed[f.uuid] < now

FetchInv == \A f \in Fetches : fetch[f].pc # "idle" => FetchOK(fetch[f])

MediaInv == TypeOK /\ RunInv /\ RowsInv /\ FetchInv

\* At the start there is no row and no fetch.
LEMMA MediaInvInit == Init => MediaInv
<1>. SUFFICES ASSUME Init PROVE MediaInv
  OBVIOUS
<1>1. TypeOK
  <2>1. 0 \in 0..Horizon /\ NoRow \in Expiry \cup {NoRow}
    OBVIOUS
  <2>. QED
    BY <2>1 DEF Init, TypeOK, IdleRun, NoFetch
<1>2. RunInv /\ RowsInv /\ FetchInv
  BY DEF Init, IdleRun, NoFetch, RunInv, RowsInv, FetchInv, Handed
<1>. QED
  BY <1>1, <1>2 DEF MediaInv

\* The clock goes on: what has expired stays expired.
LEMMA TickStep ==
  ASSUME MediaInv, Tick
  PROVE  MediaInv'
<1>1. now \in 0..Horizon /\ now' \in 0..Horizon /\ now' = now + 1
  BY DEF MediaInv, TypeOK, Tick
<1>2. TypeOK'
  BY <1>1 DEF MediaInv, TypeOK, Tick
<1>3. RunInv' /\ RowsInv'
  <2>1. handed \in [Uuids -> Expiry \cup {NoRow}] /\ run.started \in 0..Horizon
    BY DEF MediaInv, TypeOK
  <2>. QED
    BY <1>1, <2>1 DEF MediaInv, Tick, RunInv, RowsInv, Handed, Expiry, NoRow
<1>4. ASSUME NEW f \in Fetches, fetch[f].pc # "idle"
      PROVE  FetchOK(fetch[f])'
  <2>1. /\ FetchOK(fetch[f]) /\ UNCHANGED <<handed, fetch>>
        /\ fetch[f].began \in 0..Horizon
        /\ \A u \in Uuids : handed[u] \in Expiry \cup {NoRow}
    BY <1>4 DEF MediaInv, FetchInv, TypeOK, Tick
  <2>. QED
    BY <1>1, <2>1 DEF FetchOK, Handed, Expiry, NoRow
<1>5. FetchInv'
  BY <1>4 DEF FetchInv, Tick
<1>. QED
  BY <1>2, <1>3, <1>5 DEF MediaInv

\* A step that leaves clock, URLs given away and fetches alone keeps what is
\* known of the fetches.
LEMMA SameFetches ==
  ASSUME FetchInv, UNCHANGED <<now, handed, fetch>>
  PROVE  FetchInv'
BY DEF FetchInv, FetchOK, Handed

\* The sweep compares with the start of its own run, which is not later than
\* now: it takes only rows that have expired.
LEMMA SweepStep ==
  ASSUME MediaInv, Sweep
  PROVE  MediaInv'
<1>0. /\ run.started \in 0..Horizon /\ now \in 0..Horizon /\ run.started <= now
      /\ rows \in [Uuids -> Expiry \cup {NoRow}]
      /\ handed \in [Uuids -> Expiry \cup {NoRow}]
  BY DEF MediaInv, TypeOK, RunInv
<1>1. /\ rows' \in [Uuids -> Expiry \cup {NoRow}]
      /\ \A u \in Uuids : rows'[u] = rows[u] \/ (rows'[u] = NoRow /\ rows[u] < run.started)
  BY <1>0 DEF Sweep
<1>2. /\ run' = [run EXCEPT !.pc = "insert"] /\ UNCHANGED <<now, handed, fetch>>
  BY DEF Sweep
<1>3. TypeOK'
  BY <1>1, <1>2 DEF MediaInv, TypeOK
<1>4. RunInv'
  BY <1>0, <1>2 DEF MediaInv, TypeOK, RunInv
<1>5. RowsInv'
  BY <1>0, <1>1, <1>2 DEF MediaInv, RowsInv, Handed, Expiry, NoRow
<1>. QED
  BY <1>2, <1>3, <1>4, <1>5, SameFetches DEF MediaInv

\* A fresh uuid has no row and was never given away.
LEMMA InsertMediaStep ==
  ASSUME MediaInv, InsertMedia
  PROVE  MediaInv'
<1>0. /\ run.started \in 0..Horizon /\ now \in 0..Horizon /\ run.started <= now
      /\ rows \in [Uuids -> Expiry \cup {NoRow}]
  BY DEF MediaInv, TypeOK, RunInv
<1>1. PICK u \in Fresh : /\ rows' = [rows EXCEPT ![u] = run.started + Ttl]
                         /\ run' = [run EXCEPT !.pc = "send", !.uuid = u]
  BY DEF InsertMedia
<1>2. UNCHANGED <<now, handed, fetch>> /\ u \in Uuids /\ handed[u] = NoRow
  BY DEF InsertMedia, Fresh
<1>3. rows' \in [Uuids -> Expiry \cup {NoRow}]
  <2>1. run.started + Ttl \in Expiry
    BY <1>0 DEF Expiry
  <2>. QED
    BY <1>0, <1>1, <2>1
<1>4. TypeOK'
  BY <1>1, <1>2, <1>3 DEF MediaInv, TypeOK
<1>5. RunInv'
  BY <1>0, <1>1, <1>2 DEF MediaInv, TypeOK, RunInv
<1>6. RowsInv'
  BY <1>0, <1>1, <1>2 DEF MediaInv, RowsInv, Handed
<1>. QED
  BY <1>2, <1>4, <1>5, <1>6, SameFetches DEF MediaInv

\* A URL is given away once, with the row it was inserted with.
LEMMA HandOffStep ==
  ASSUME MediaInv, HandOff
  PROVE  MediaInv'
<1>0. /\ run.started \in 0..Horizon /\ now \in 0..Horizon
      /\ run.uuid \in Uuids /\ handed[run.uuid] = NoRow
      /\ rows[run.uuid] = run.started + Ttl
      /\ rows \in [Uuids -> Expiry \cup {NoRow}]
      /\ handed \in [Uuids -> Expiry \cup {NoRow}]
  BY DEF MediaInv, TypeOK, RunInv, HandOff
<1>1. /\ handed' = [handed EXCEPT ![run.uuid] = rows[run.uuid]]
      /\ run' = IdleRun /\ UNCHANGED <<now, rows, fetch>>
  BY DEF HandOff
<1>2. TypeOK'
  BY <1>0, <1>1 DEF MediaInv, TypeOK, IdleRun
<1>3. RunInv'
  BY <1>0, <1>1 DEF RunInv, IdleRun
<1>4. RowsInv'
  BY <1>0, <1>1 DEF MediaInv, RowsInv, Handed
<1>5. ASSUME NEW f \in Fetches, fetch[f].pc # "idle"
      PROVE  FetchOK(fetch[f])'
  <2>1. FetchOK(fetch[f]) /\ fetch[f].uuid \in Uuids /\ fetch[f].uuid # run.uuid
    BY <1>0, <1>5 DEF MediaInv, FetchInv, FetchOK, Handed
  <2>2. handed'[fetch[f].uuid] = handed[fetch[f].uuid]
    BY <1>0, <1>1, <2>1
  <2>. QED
    BY <1>1, <2>1, <2>2 DEF FetchOK, Handed
<1>6. FetchInv'
  BY <1>1, <1>5 DEF FetchInv
<1>. QED
  BY <1>2, <1>3, <1>4, <1>6 DEF MediaInv

\* A run begins, or ends before its URL was given away.
LEMMA RunStep ==
  ASSUME MediaInv, StartRun \/ AbandonRun
  PROVE  MediaInv'
<1>0. now \in 0..Horizon
  BY DEF MediaInv, TypeOK
<1>1. /\ UNCHANGED <<now, rows, handed, fetch>>
      /\ run' = [pc |-> "sweep", started |-> now, uuid |-> NoUuid] \/ run' = IdleRun
  BY DEF StartRun, AbandonRun
<1>2. TypeOK'
  BY <1>0, <1>1 DEF MediaInv, TypeOK, IdleRun
<1>3. RunInv' /\ RowsInv'
  BY <1>0, <1>1 DEF MediaInv, RunInv, RowsInv, Handed, IdleRun
<1>. QED
  BY <1>1, <1>2, <1>3, SameFetches DEF MediaInv

\* One fetch moves on with what it carries in order.
LEMMA FetchMoves ==
  ASSUME MediaInv, NEW f \in Fetches, NEW new,
         fetch' = [fetch EXCEPT ![f] = new], UNCHANGED <<now, run, rows, handed>>,
         new \in [pc : {"idle"} \cup InProgress \cup Answers, uuid : Uuids \cup {NoUuid},
                 row : Expiry \cup {NoRow}, began : 0..Horizon],
         FetchOK(new)
  PROVE  MediaInv'
<1>1. TypeOK'
  BY DEF MediaInv, TypeOK
<1>2. RunInv' /\ RowsInv'
  BY DEF MediaInv, RunInv, RowsInv, Handed
<1>3. ASSUME NEW g \in Fetches, fetch'[g].pc # "idle"
      PROVE  FetchOK(fetch[g])'
  <2>1. fetch'[g] = new \/ fetch'[g] = fetch[g]
    BY DEF MediaInv, TypeOK
  <2>. QED
    BY <1>3, <2>1 DEF MediaInv, FetchInv, FetchOK, Handed
<1>4. FetchInv'
  BY <1>3 DEF FetchInv
<1>. QED
  BY <1>1, <1>2, <1>4 DEF MediaInv

\* A lookup finds the row the URL was given away with, or its expiry is past.
LEMMA LookupStep ==
  ASSUME MediaInv, NEW f \in Fetches, NEW u \in Handed, Lookup(f, u)
  PROVE  MediaInv'
<1>0. /\ u \in Uuids /\ now \in 0..Horizon
      /\ rows \in [Uuids -> Expiry \cup {NoRow}]
      /\ handed \in [Uuids -> Expiry \cup {NoRow}] /\ handed[u] # NoRow
      /\ rows[u] = handed[u] \/ (rows[u] = NoRow /\ handed[u] < now)
  BY DEF MediaInv, TypeOK, RowsInv, Handed
<1>1. PICK pc \in {IF rows[u] = NoRow THEN "notFound" ELSE "check", "serverError"} :
        fetch' = [fetch EXCEPT ![f] =
                    [pc |-> pc, uuid |-> u, row |-> rows[u], began |-> now]]
  BY DEF Lookup
<1>2. FetchOK([pc |-> pc, uuid |-> u, row |-> rows[u], began |-> now])
  BY <1>0 DEF FetchOK
<1>3. [pc |-> pc, uuid |-> u, row |-> rows[u], began |-> now]
        \in [pc : {"idle"} \cup InProgress \cup Answers, uuid : Uuids \cup {NoUuid},
            row : Expiry \cup {NoRow}, began : 0..Horizon]
  BY <1>0 DEF InProgress, Answers
<1>. QED
  BY <1>1, <1>2, <1>3, FetchMoves DEF Lookup

\* The check and the proxied bytes: a row that passes has not expired when the
\* request began.
LEMMA AnswerStep ==
  ASSUME MediaInv, NEW f \in Fetches, CheckExpiry(f) \/ Thumbnail(f)
  PROVE  MediaInv'
<1>0. /\ fetch[f].pc \in {"check", "thumbnail"} /\ FetchOK(fetch[f])
      /\ fetch[f] \in [pc : {"idle"} \cup InProgress \cup Answers,
                       uuid : Uuids \cup {NoUuid},
                       row : Expiry \cup {NoRow}, began : 0..Horizon]
      /\ now \in 0..Horizon /\ UNCHANGED <<now, run, rows, handed>>
  BY DEF MediaInv, TypeOK, FetchInv, CheckExpiry, Thumbnail
<1>1. PICK pc \in InProgress \cup Answers :
        /\ fetch' = [fetch EXCEPT ![f] = [fetch[f] EXCEPT !.pc = pc]]
        /\ \/ fetch[f].pc = "check" /\ pc = "notFound" /\ fetch[f].row < now
           \/ fetch[f].pc = "check" /\ pc = "thumbnail" /\ ~(fetch[f].row < now)
           \/ fetch[f].pc = "thumbnail" /\ pc \in {"ok", "badGateway"}
  <2>1. CASE CheckExpiry(f)
    BY <2>1 DEF CheckExpiry, InProgress, Answers
  <2>2. CASE Thumbnail(f)
    BY <2>2 DEF Thumbnail, InProgress, Answers
  <2>. QED
    BY <2>1, <2>2
<1>2. FetchOK([fetch[f] EXCEPT !.pc = pc])
  BY <1>0, <1>1 DEF FetchOK, Expiry, NoRow
<1>3. [fetch[f] EXCEPT !.pc = pc]
        \in [pc : {"idle"} \cup InProgress \cup Answers, uuid : Uuids \cup {NoUuid},
            row : Expiry \cup {NoRow}, began : 0..Horizon]
  BY <1>0, <1>1
<1>. QED
  BY <1>0, <1>1, <1>2, <1>3, FetchMoves

\* MediaInv is inductive.
THEOREM MediaInvStep == MediaInv /\ [Next]_vars => MediaInv'
<1>. SUFFICES ASSUME MediaInv, [Next]_vars PROVE MediaInv'
  OBVIOUS
<1>1. CASE UNCHANGED vars
  BY <1>1 DEF vars, MediaInv, TypeOK, RunInv, RowsInv, FetchInv, FetchOK, Handed
<1>2. CASE Next
  BY <1>2, TickStep, SweepStep, InsertMediaStep, HandOffStep, RunStep, LookupStep, AnswerStep
     DEF Next, Serve
<1>. QED
  BY <1>1, <1>2

\* In every reachable state each row, URL and fetch is as MediaInv says.
THEOREM Media == Spec => []MediaInv
BY MediaInvInit, MediaInvStep, PTL DEF Spec

-----------------------------------------------------------------------------
(* What Buffer can count on. *)

\* Every reachable state is well typed.
THEOREM TypeCorrect == Spec => []TypeOK
<1>1. MediaInv => TypeOK
  BY DEF MediaInv
<1>. QED
  BY <1>1, Media, PTL

\* No sweep takes a row whose URL was given away before its expiry, however
\* long ago the run that sweeps has started.
THEOREM LiveRowsSurviveHolds == Spec => []LiveRowsSurvive
<1>1. MediaInv => LiveRowsSurvive
  <2>. SUFFICES ASSUME MediaInv, NEW u \in Handed, now <= handed[u]
                PROVE  rows[u] = handed[u]
    BY DEF LiveRowsSurvive
  <2>1. now \in 0..Horizon /\ handed[u] \in Expiry
    BY DEF MediaInv, TypeOK, Handed
  <2>. QED
    BY <2>1 DEF MediaInv, RowsInv, Expiry
<1>. QED
  BY <1>1, Media, PTL

\* A URL that was given away is answered 404 only when its expiry is no longer
\* in the future.
THEOREM NotFoundOnlyWhenExpiredHolds == Spec => []NotFoundOnlyWhenExpired
<1>1. MediaInv => NotFoundOnlyWhenExpired
  <2>. SUFFICES ASSUME MediaInv, NEW f \in Fetches, fetch[f].pc = "notFound"
                PROVE  handed[fetch[f].uuid] <= now
    BY DEF NotFoundOnlyWhenExpired
  <2>1. FetchOK(fetch[f]) /\ now \in 0..Horizon
    BY DEF MediaInv, FetchInv, TypeOK
  <2>2. handed[fetch[f].uuid] \in Expiry
    BY <2>1 DEF MediaInv, TypeOK, FetchOK, Handed
  <2>. QED
    BY <2>1, <2>2 DEF FetchOK, Expiry
<1>. QED
  BY <1>1, Media, PTL

\* No request that begins after the expiry of its URL gets the image.
THEOREM ExpiredIsNeverServedHolds == Spec => []ExpiredIsNeverServed
<1>1. MediaInv => ExpiredIsNeverServed
  <2>. SUFFICES ASSUME MediaInv, NEW f \in Fetches, fetch[f].pc = "ok"
                PROVE  fetch[f].began <= handed[fetch[f].uuid]
    BY DEF ExpiredIsNeverServed
  <2>1. FetchOK(fetch[f])
    BY DEF MediaInv, FetchInv
  <2>. QED
    BY <2>1 DEF FetchOK
<1>. QED
  BY <1>1, Media, PTL
=============================================================================
