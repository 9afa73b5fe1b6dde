# feedrelay in TLA+

FeedRelay turns a tap on an iPhone Shortcut into an Instagram post scheduled with Buffer: it
searches a personal Immich library, filters out what should not be published, has OpenAI
write a caption and hands the image to Buffer as a short-lived URL. It is one process (actix
server, one Apalis worker, one SQLite file) between four parties that may fail in their own
ways. These modules model what the process keeps, what it does between two awaits, and what
can go wrong there. Paths below are relative to `src/src/`.

## Inventory

| Component | State | Operations | What is hard about it |
|---|---|---|---|
| Tables `runs`, `posts` (`storage/repo.rs`, `storage/db.rs`, `migrations/001_init.sql`) | status and audit fields of each run; the asset of each post | insert, mark running, mark failed, the success transaction, the gate query, the dedup set | a statement may fail; one writer at a time; no UPDATE looks at the present status |
| Trigger endpoint (`routes/trigger.rs`) | none of its own | gate, insert, enqueue, give up; read a status | overlapping taps; a stop, or a client gone, between the row and its job; a polled answer that must stand |
| Job queue and worker (`jobs/mod.rs`, `jobs/run.rs`, Apalis) | one job per run | push, take, acknowledge; perhaps redeliver | no retries, a worker that ends under a living server, and what Apalis does that this code relies on |
| Pipeline (`pipeline.rs`) | locals of `execute_run` | 14 steps and `fail!` | a dedup set read early and relied on late; a post made and not recorded; `fail!` inside its own transaction |
| Process (`main.rs`, `storage/db.rs`) | server task, worker task, `_sqlx_migrations` | boot in stages, stop at any await, worker exit | what is left behind; two sets of migrations in one table |
| Candidate filter (`filter.rs`, `immich/types.rs`) | none | classify one asset | order of checks, inclusive thresholds, degenerate boxes, pixels of two images |
| Candidate search (`pipeline.rs`, steps 5 to 8; `immich/search.rs`) | candidates, seen ids, counts by reason | two passes, pick | repeats, failing face lookups |
| Media proxy (`routes/pic.rs`, `pending_media`) | one row per URL | insert, sweep, serve | two clock readings, sweeps against fetches |
| Caption cache (`caption/`, `captions`) | one row per asset and prompt | render, look up, generate, store, assemble the text | answers paid for and lost; metadata edited meanwhile |
| Buffer client (`buffer/`) | none | createPost | lost replies, requests that arrive late, replies that say two things |
| Health (`routes/health.rs`) | none | report | says nothing of the worker |
| Bearer authentication, configuration, errors, telemetry | none, or constant after start | | stateless |

How they interact: handlers, worker and media proxy share the database and nothing else. A
tap writes a `runs` row and pushes a job; the worker takes the job and runs the pipeline,
which moves the row to `running`, reads `posts`, calls Immich and OpenAI, inserts a
`pending_media` row, calls Buffer, and writes `posts` and `runs` in one transaction. Buffer
calls back for the image whenever it likes. The hazards are listed in `PROJECT.json`, each
at its line and with the properties that would catch it.

## Modules

| Module | Models | Extends / used by |
|---|---|---|
| `Database` | `runs`, `posts`, the job queue, SQLite's write lock, statements that fail | extended by the next two |
| `Trigger` | the handlers of `POST /trigger/post`, the answer of `GET /trigger/status` | `Database` |
| `BufferReply` | what `schedule_post` makes of each shape of reply | extended by `Pipeline` |
| `Pipeline` | `execute_run` and the createPost requests on the wire | `Database`, `BufferReply` |
| `Boot` | the way from a process to a server that serves | |
| `FeedRelay` | the process: all of the above, the worker, stops, restarts | `Trigger`, `Pipeline`, `Boot` |
| `RunLedger` | abstract: the life of a run, and its post | implemented by `FeedRelay` |
| `CandidateFilter` | `classify_candidate`, and a reference definition of a Candidate | extended by the next two |
| `AssetFacts` | one asset as more becomes known of it | `CandidateFilter` |
| `CandidateSearch` | steps 5 to 8 of `execute_run` item by item | `CandidateFilter` |
| `AssetSelection` | abstract: one choice among eligible assets, or none | implemented by `CandidateSearch` |
| `PendingMedia` | a `/pic/<uuid>.jpg` URL from insert to last fetch | |
| `CaptionCache` | `get_or_generate_caption` and `assemble_buffer_text` | |
| `MC*` | instances for TLC: symmetry, kinds of asset, sizes | |
| `FeedRelayProofs`, `FaultProofs` | theorems about `FeedRelay`; the second about what faults cost | `FeedRelay` |
| `FoldTheorems` | lemmas about sums and other folds over finite sets | |
| `FilterProofs` | theorem about `CandidateFilter` | `FoldTheorems` |
| `AssetFactsProofs`, `CandidateSearchProofs` | theorems about the modules they name | `FilterProofs` |
| `PendingMediaProofs` | theorems about `PendingMedia` | |
| `CaptionCacheProofs` | theorems about `CaptionCache` | `FoldTheorems` |

**Database.** `status` and `selected` are columns of `runs`, `posts` maps an asset to the run
stored with it, `jobs` is the Apalis table. `RunInsert`, `RunMarkRunning`, `RunMarkFailed`
and `CommitSuccess` are the functions of `repo.rs` with the same names; none has a guard on
the present status because the SQL has none. `writeLock` is the run whose transaction has
written and is still open; every other write needs it to be nobody's (`Unlocked`). A step that
executes a statement has a disjunct `Ok` and a disjunct `DbFault`.

**Trigger.** A tap is named by the ULID it would be given. `Gate`, `InsertRun`, `Enqueue` and
`GiveUp` end at the awaits of `post`, so taps, worker and restarts interleave between them.
`DropTap` is actix dropping a handler whose client has gone away. `StatusAnswer` is what a
Shortcut that polls a run is told, a function of the run's row.

**Pipeline.** `pipe` holds, for each run that executes, the locals of `execute_run` that
matter: the snapshot `posted`, the asset, whether Buffer's answer is on its way. One action per
await that others can see or that can fail on its own.
`wire` holds requests sent to Buffer; Buffer may take one after the pipeline has given up on
it and even after the process has died, which is why a request carries the incarnation that
sent it. `Answer` has Buffer reply with any reply it may give for a post that it made or did
not make, and keeps what `SchedulePost` makes of it. A statement of step 14 that fails may leave
the transaction open or may have made SQLite roll it back (`LockAfterError`); a commit consumes
it either way. `MarkFailed` is `fail!`: the UPDATE goes through another connection while the
transaction, if any, is still open, and its result is ignored; its return drops the transaction.

**BufferReply.** A reply is the status, the envelope, the errors and `createPost`, and
`SchedulePost` decides over them in the code's order. Buffer is trusted in one thing: it calls
a post made, without any sign of an error, only when it made it. Of a post that it made it may
say anything.

**Boot.** `OpenPool`, `SetupStorage` and `RunMigrations` are the calls of `main`, and
`RunMigrator` is sqlx's, one migration at a time. `applied` is the table both sets share. The
process may stop between any two migrations and starts again with what is there.

**FeedRelay.** `PickUp` and `Ack` are the worker with `retries(0)`.
`WorkerExit` is the spawned task ending under a living server, which goes on taking taps nobody
will execute; `Stop` drops handlers and pipelines at whatever await they have reached and rolls
an open transaction back. Apalis is not in the repository, and two things about it are
constants. Whether it gives a dead worker's locked job out again is `Redelivery`; both answers
are checked. How many jobs it has in hand at once is `JobSlots`: `run_worker` sets no limit, its
comment (`jobs/mod.rs:79-80`) says that one is what Apalis does without a `parallelize` layer.
The runs take the comment's word, and the theorems say which results need it. With two slots two
runs can pick the same asset before either has recorded it: then an asset that is a Post is sent
again, and the second run fails on the primary key of `posts` inside its own transaction, so that
`fail!` times out and the run is left behind without any database error.

`Orphans` are the runs that hold the gate and have nobody to finish them: no handler, no job that
a worker will take (a pending job counts only while there is a worker, or will be one after the
next boot), no pipeline that can still record its end. `LeaksAreExplained` speaks of every step
that makes one.

**CandidateSearch.** Refines what `Pipeline` has as the single action `SelectAsset`. A page
is revealed item by item, any asset any number of times. `rejected` is `reject_counts`, a
number for each reason, and `total` is `total_returned`, which counts the items of both pages with
their repeats. `FetchFaces` may fail, and then the asset counts as one without faces; `unread`
keeps which assets that happened to, of which the code has only a warning in its log. An asset
with faces that were not read is therefore labelled preferred and drawn beside those that have
none: `FacesOnlyAsFallback` says so, and what is left of the preference. `SelectionSpec` says that
all of it implements `AssetSelection`, which is `SelectAsset` with the whole of eligibility in place
of the dedup set. The facts of an asset are those of the search answer: if Immich leaves the people
out of it, nobody in it is named.

**CandidateFilter.** Boxes are their four coordinates, of `IntBits` bits with wrapping
differences, and `Pixels` is the area the definition means. A `BoundingBox` keeps its coordinates
within half of the range, where no difference wraps: pixel positions are far from 2^30. Sizes
are natural numbers (`u32` in the code); products of them are exact, as they are in `u64`.

**PendingMedia.** The worker dates its sweep and its row by the start of the run (`now_epoch`),
a fetch reads the clock when it checks the row. `handed` records the expiry of each URL Buffer
was given; it is not in the code and exists for the properties.

**CaptionCache.** `metadata` is what Immich knows of each asset now; a run works with the
snapshot the search gave it. `RenderPrompts` keeps the location and the date the prompt names,
so that different metadata may render to one prompt. `AssembleBufferText` appends the location
the prompt has promised. `paid` and `lost` count OpenAI's answers; they are not in the code.
`PendingMedia` and `CaptionCache` have one run at a time, that is one job slot: with more, two runs
could miss the same key and both pay for it.

## What TLC checks

Each run finishes within about two minutes with two workers.

| Run | Instance | Shows |
|---|---|---|
| `relay_faults` | 3 taps, 2 at once, 2 database errors, 1 worker exit, 2 stops, 1 dropped handler, 3 migrations, 4 assets, no redelivery | `PostIffSucceeded`, `OneHandOffPerRun`, `SuccessWasHandedOff`, `LeaksAreExplained`, `InFlightBounded`, `RecordedAssetNeverSent`, `TerminalAnswerStands`, and `LedgerSpec`: the system implements `RunLedger` |
| `relay_redelivery` | 2 taps at once, 1 database error, 1 worker exit, 1 stop, 3 assets, redelivery, fairness | which of these survive a job that is delivered twice; `GateReopens` and `EveryJobIsAcked`: only an orphan, or a peer that never answers, locks the gate, and only an exited worker or such a peer keeps a job from its end; `ServesAgain`: later boots get over one that was cut short |
| `asset_facts` | assets of 10 x 10 pixels or without dimensions, up to 3 boxes around the thresholds, past the edge or degenerate, coordinates of 6 bits | the code's checks in their order give each asset the tier the definition of a Candidate gives it; the order of the faces does not matter; more knowledge never helps an asset |
| `search` | 3 assets of 7 kinds, pages of up to 4 items | what is picked and what failed face lookups have to do with it, when a run gives up, that the counts are right reason by reason and the total is of items, that the search implements `AssetSelection`, that it ends |
| `media` | 2 URLs, 2 fetches at once, TTL 2, 5 moments | no sweep takes a live row; 404 only when the expiry is no longer in the future; nothing after expiry |
| `captions` | 2 assets, 4 states of metadata that render to 3 prompts, 2 wordings, 3 paid answers | paid once per key and lost answer; a re-pick is free; caption, promised and appended location belong together |

Six runs show the code doing what the repository's text says it does not:

| Run | Text | What happens |
|---|---|---|
| `gate_race` | `CONTEXT.md:8`, one Run in flight | two overlapping taps both pass the gate |
| `tx_lock` | `pipeline.rs:231-233` and `448-450` | a failing write of step 14 leaves the transaction open, `run_mark_failed` waits for its lock, times out, is ignored; the run stays `running` |
| `faces_unknown` | `CONTEXT.md:20` (b) | `fetch_faces` fails and an asset with a large face is picked, as preferred |
| `face_scale` | `filter.rs:90-91`, `immich/types.rs:117` | a box measured on a smaller image is divided by the area of the full one, and a face over the threshold is accepted |
| `media_slot` | `README.md:44` | the TTL passes before the slot fires and Buffer gets 404 |
| `pic_expiry` | `routes/pic.rs:5`, expiry in the future | in the second of expiry the image is still served; `NotFoundOnlyWhenExpired` and `ExpiredIsNeverServed` hold under either reading |

Two more disagreements with the repository's text, without a run of their own, since nothing
happens in them that takes several steps:

- `routes/health.rs:13-15` says that a crash of the worker ends the process, so that
  `"worker": "ok"` is always right. The answer is a constant, and `main.rs:137-146` keeps the server
  running when `run_worker` returns (`WorkerExit`).
- A comment in a test (`pipeline.rs:1227-1229`) says that of two passes with the same three items
  "only pass 1's 3 count in the total". `pipeline.rs:339` adds up both, which is 6; the test accepts
  either. The number is also `runs.candidates_returned`. `EndOfPass` has it as the code has it.

**Bounds, and why they are enough.** Three taps are the fewest with one in flight, one at the
gate and one before it; two at once already race. Four assets are the fewest with which a
second run can find three candidates besides the first run's post. Two database errors reach
"a step fails and so does recording it"; one stop and one exit reach every await, together with
errors before and after; the second stop may cut short the boot that follows the first. Two and
one migrations give a boot that stops inside a set and one that stops between the sets. The three
assets of `relay_redelivery` let one run be delivered again before its post is recorded, and be
handed off twice, or afterwards, when it finds too few candidates and overwrites its success with a
failure; that it may also succeed a second time with another asset takes a fourth, which is left to
the theorems (`SuccessWasHandedOffHolds`, `OneHandOffPerRunHolds`). Two fetches and two URLs reach a sweep by a later run between another
fetch's lookup and check. Three assets are the minimum the pick demands; pages of four contain
repeats. Three paid answers reach a lost answer, its replacement, and another key. Every bound is a constant named in its module (`ConcurrentTaps`, `JobSlots`, `MaxDbFaults`,
`MaxBoots`, `MaxExits`, `MaxDrops`, `MaxFaces`, `IntBits`, `Horizon`, `Fetches`, `MaxPaid`); `PoolSize` is
the code's `candidate_pool_size`. Symmetry is used only in runs that check safety.

**Fairness.** `FairSpec` of `FeedRelay` has weak fairness on each handler, on the worker's
taking a job, on the pipeline's own steps (`LocalWork`), the acknowledgement, redelivery and each
stage of the boot: the runtime polls futures that are ready, Apalis polls its table, and a
supervisor restarts the process, as `routes/health.rs` advises. Nothing is assumed of Immich,
OpenAI and Buffer: the code sets no timeout on its HTTP clients, so a run that waits for one of
them (`AwaitingPeer`) may wait for ever. Nor is anything assumed about errors, exits or stops. The
liveness properties name what may be in the way instead. `GateReopens`: the gate reopens again and
again, unless from some time on there are orphans, or one run waits for its peer for ever.
`EveryJobIsAcked`: a pushed job comes to its end, unless the worker exited under a server that goes
on, or a run waits for its peer for ever. `LeaksAreExplained` says what makes orphans:
database errors, dropped handlers, worker exits and stops, and taps accepted after an exit; without
any of these there are none. `FairSpec` of `CandidateSearch` does assume that Immich answers.

Deadlock is checked except in the two runs of `AssetFacts`, where an asset may have nothing left
to learn. `Quiet` and `Done` are the states where the system has nothing to do.

## What is proved

Every invariant and action property of the passing runs, and both refinements, are theorems for
every value of the constants. What the theorems assume are the named assumptions of the modules:

| Module | Assumed |
|---|---|
| `Database`, `Trigger`, `Boot`, `FeedRelay` | identifiers differ from the null values, bounds are numbers, the taps are finitely many, the two sets of migrations are disjoint |
| `CandidateFilter` | thresholds are natural numbers, integers have at least two bits |
| `AssetFacts`, `CandidateSearch` | sizes are natural numbers, boxes are `BoundingBox`es, the library is finite |
| `PendingMedia` | the null uuid is no uuid, TTL and horizon are numbers |
| `CaptionCache` | library and metadata are finite, what stands for an absent caption is none, an asset that got this far has a city or a country (the filter's check) |

Thresholds are `f64` in the code; the theorems are about whole percentages.

### The process: `FeedRelayProofs`, `FaultProofs`

| Theorem | Says | Redelivery | Job slots |
|---|---|---|---|
| `TypeCorrect` | `Spec => []TypeOK` | any | any |
| `SuccessWasHandedOffHolds` | a run that succeeded did hand its asset to Buffer | any | any |
| `OneHandOffPerRunHolds` | one post per run, and one more per restart under redelivery | any | any |
| `RecordedAssetNeverSentHolds` | no request for an asset that is already a Post | any | one |
| `LeaksAreExplainedHolds` | each step that leaves runs behind is a fault, and leaves no more than it may | any | one |
| `PostIffSucceededHolds` | `posts` and `runs` agree | none | any |
| `TerminalAnswerStandsHolds` | the polled answer for a run that has ended stands | none | any |
| `InFlightBoundedHolds` | no more runs in flight than handlers at once | none | any |
| `ImplementsLedger` | `Spec => LedgerSpec` | none | any |

The argument of `FeedRelayProofs` has four layers.

1. `SafeInv` is `TypeOK` and `LocalsOK`. The type invariant alone is not inductive: that the
   committed asset is an asset needs that a pipeline past its selection has one. `LocalsOK`
   also says when a run holds the write lock, and that its post is then new. With one job slot, `SerialInv` adds that only one run
   executes, so that the snapshot `posted` taken in step 4 still equals the posts there are as long
   as the pipeline lives: the only writer of `posts` is that pipeline. From it follows
   `RecordedAssetNeverSent`.
2. `LifeInv` adds ownership: a run belongs to its handler until it is enqueued, then to the
   queue, then to the pipeline, and each owner allows only certain statuses
   (`HandlerOwns`, `QueueOwns`, `PipelineOwns`). This replaces the guards that the
   UPDATEs do not have. `PostIffSucceeded` is not inductive without it, since marking a run
   failed would break it for a run that has succeeded. A job delivered twice breaks
   ownership, hence the hypothesis `~Redelivery`; TLC finds the counterexample otherwise.
3. `HandOffOK`, on top of `SafeInv`: the pipeline counts as accepted only when Buffer has its
   asset, and is in step 14 only when accepted. Without it nothing ties the row that step 14
   writes to Buffer's queue. It rests on `RefusalIsNoPost`: no reply that Buffer may give
   without a post makes `schedule_post` return Ok.
4. `GateInv` counts the runs in flight together with those that have passed the gate and not
   yet written their row: at most `ConcurrentTaps`. The gate lets a run in only when none is in
   flight, so what is claimed then lies within the handlers in progress.

`Effect` sums up what one step does to `runs` and `posts`, and `LedgerStep` maps each case to
one action of the ledger. With `SelectedOnce`, that a run's asset is written once, it also gives
`TerminalAnswerStands`. With `ConcurrentTaps = 1` the ledger's capacity is one: taps that do
not overlap do get the single run in flight that `CONTEXT.md` promises.

`FaultProofs` adds two arguments, which hold whether or not jobs are redelivered.

- `SendInv`: what a run has sent (Buffer's queue and the wire together) is at most one more than
  the restarts it may have used, and a run that may still send has sent one less. The bound
  alone is not inductive, since nothing in it says that the run in step 13 has not sent before.
  `MaySend` names the owners from which step 13 can still be reached: the queue, the pipeline
  before step 13, a locked job that will be given back. `JobInv` ties them to the jobs table.
- `LeakStep`, case by case over the actions: a run newly left behind (`Fresh`) was in flight with an
  owner before the step, or came in flight by it (`FreshWas`), and a run whose handler, job and
  pipeline the step does not touch keeps its owner (`StillIsNotFresh`). `TapLeaves` and
  `PipelineLeaves` are the handlers' and the pipeline's steps. The subtle one is a pipeline that
  enters `fail!` while its own transaction holds the write lock, when it can no longer record its
  end: that a statement of step 14 gets there without a database error needs an asset that is a
  Post already, which one job slot rules out (`SerialInv`).

### Filter and search: `FilterProofs`, `AssetFactsProofs`, `CandidateSearchProofs`

| Theorem | Says |
|---|---|
| `TierOfEveryAsset` | for every asset and every list of faces, the checks in their order with their early exit give the tier the definition of a Candidate gives |
| `TierIsDeservedHolds`, `FaceOrderIrrelevantHolds`, `NeverMoreLenientHolds` | the three properties of `asset_facts`, without its bounds on sizes and faces |
| `TypeCorrect`, `PickedIsEligibleHolds`, `ThreeDistinctHolds`, `NoneOverlookedHolds`, `FacesOnlyAsFallbackHolds`, `EachCountedOnceHolds` | the invariants of `search`, for any library and page size |
| `ImplementsSelection` | `Spec => SelectionSpec` |

`Classify` folds over the faces and `Pixels` are summed over them, so `TierOfEveryAsset` needs
induction over lists. The library's induction theorems take the formula as an operator, which the
provers cannot instantiate. `FoldTheorems` therefore proves induction over the subsets of a finite
set with the formula as the *set* of the subsets for which it holds (from the existence of
minimal elements of a well-founded relation), then that the recursive function inside a fold
exists (`FoldExists`), and from it the laws of sums: `SumRemove`, `SumChange`, `SumBounds`,
`SumImage`. On these rest `ScanSums`, what the loop has added up when it has seen n faces, and
`CombinedAreaIsSum`. `MinusIsExact` shows that a difference of two `BoundingBox` coordinates does
not wrap, whatever `IntBits`. `NeverMoreLenient` is about a face inserted anywhere in the list:
`InsertedAreas` shows that the sum grows by its area.

`SearchInv` is `TypeOK` and seven parts. `CandidatesInv`: each candidate is in the list once, was
seen, and is eligible. `SeenInv`: each true candidate that was seen is in the list, and an
eligible one that has no faces, or whose faces were not read, is there as preferred, for a failed
face lookup never makes an asset worse; `FacesInv`: nothing else is. `CountInv` counts
list and rejections against `seen`; it bounds each reason by the size of the library, without which
`TypeOK` is not inductive. `TotalInv` bounds the assets seen by the items of the pages so far.
`ProgressInv` and `PickedInv` say what the place in the code has decided. `ThreeDistinct` follows, as a list without repeats has as many assets as items, and so does
`ImplementsSelection`: the pick is a choice among at least three eligible assets, every other step
a failure or invisible.

### Media and captions: `PendingMediaProofs`, `CaptionCacheProofs`

| Theorem | Says |
|---|---|
| `TypeCorrect`, `LiveRowsSurviveHolds`, `NotFoundOnlyWhenExpiredHolds`, `ExpiredIsNeverServedHolds` | the properties of `media`, for any runs, URLs, concurrent fetches and TTL |
| `TypeCorrect`, `PaidOnceHolds`, `CaptionIsForItsKeyHolds`, `RepickIsFreeHolds`, `StoredCaptionStandsHolds` | the properties of `captions`, for any library, metadata and wordings |

`MediaInv` is `TypeOK`, `RunInv`, `RowsInv` and `FetchInv`. A run dates its sweep by its start, which
lies in the past, so a sweep never reaches a row that is live now (`RunInv`, `RowsInv`). A fetch
carries the expiry it has read over to later moments; `FetchInv` says that what it carries is still
the expiry of its URL, and that past the check it began in time.

`CaptionInv` is `TypeOK`, `CallInv`, `PaidInv` and `CaptionedInv`. `PaidOnce` is not inductive:
`paid` may only grow while no answer is stored or in hand, so `PaidInv` has the exact balance of
each key (`Gained`). `CallInv` says that a call past its lookup miss still finds nothing stored, as
there is one worker; that is why the INSERT OR REPLACE never replaces. That the bill stays within
`MaxPaid` is about the sum over all keys, and uses `FoldTheorems`.

### Only model-checked

Liveness, which is beyond the prover: `GateReopens`, `EveryJobIsAcked`, `ServesAgain`, `Settles`. The
six runs that show a violation need no proof.

## What is not modelled

- Bearer authentication: one header compared with one token, no state.
- Configuration, errors, telemetry: read once at start, or only wording; the values that matter
  are constants of the modules.
- Building and decoding of requests to Immich and OpenAI, which item of OpenAI's output holds
  the caption, hashtags and their cleaning, the wording of prompts and errors.
- Audit columns nobody reads back.
- A clock that runs backwards, `f64` rounding at a threshold.
- `/pic` for malformed or unknown uuids: both are 404 at once.

## Plan

Done, in this order: the core (`Database`, `Trigger`, `Pipeline`, `FeedRelay`) with its
invariants; the ledger and the refinement; the proofs of the core; filter and search; media;
captions.

Then: replies of Buffer as the fields that decide; handlers dropped one at a time; the boot
and its two sets of migrations; the polled status; boxes with coordinates; counts by reason;
the prompt, the cache and the appended location together.

Then: proofs of what faults may cost; the lemmas about folds and, from them, filter and search for
every library; media and captions; the search as an implementation of `AssetSelection`.

Next: abstract specifications of the media proxy (a URL that is live, then dead) and of the caption
cache (a function written once per key), and that the detailed modules implement them.
