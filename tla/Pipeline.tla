------------------------------ MODULE Pipeline ------------------------------
(***************************************************************************)
(* execute_run (pipeline.rs): a Run from its job to its terminal status,   *)
(* one action per await that others can see or that can fail on its own.   *)
(* Any number of runs may execute at once: how many the worker takes on is *)
(* the business of module FeedRelay.                                       *)
(* Buffer is the environment: a createPost request is on the wire from the *)
(* moment it is sent until Buffer takes it or it is lost, which may be     *)
(* after the pipeline has given up on it or the process has died.          *)
(*                                                                         *)
(* Immich and OpenAI are abstracted to their outcome: the assets a search  *)
(* leaves as candidates, an error, a caption.  Step 2, the sweep of        *)
(* pending_media, changes nothing modelled here and its failure is         *)
(* ignored by the code, so it is part of MarkRunning.                      *)
(***************************************************************************)
EXTENDS Database, Sequences, BufferReply

VARIABLES
  pipe,       \* for each run, where its execution stands and the locals it carries
  wire,       \* createPost requests sent and neither taken nor lost
  handoffs    \* Buffer's queue: the assets it took for each run, in order

pipeVars == <<pipe, wire, handoffs>>

\* Steps 6 and 7: fewer candidates than this is NoCandidates.
MinCandidates == 3

PipeStates ==
  {"idle", "start", "dedup", "select", "caption", "media", "send", "awaiting",
   "begin", "txPost", "txRun", "commit", "failing", "finished"}

Request == [run : RunIds, asset : Assets, boot : Nat]

\* The locals of execute_run: boot is the process incarnation it runs in,
\* accepted says that a reply on the way makes schedule_post return Ok.
Locals == [pc : PipeStates, boot : Nat,
           posted : SUBSET Assets, asset : Assets \cup {NoAsset},
           accepted : BOOLEAN]

PipelineTypeOK ==
  /\ pipe \in [RunIds -> Locals]
  /\ wire \subseteq Request
  /\ handoffs \in [RunIds -> Seq(Assets)]

NoPipe == [pc |-> "idle", boot |-> 0, posted |-> {},
           asset |-> NoAsset, accepted |-> FALSE]

PipelineInit ==
  /\ pipe = [r \in RunIds |-> NoPipe]
  /\ wire = {}
  /\ handoffs = [r \in RunIds |-> <<>>]

Goto(r, pc) == pipe' = [pipe EXCEPT ![r].pc = pc]

At(r, pc) == pipe[r].pc = pc

\* A database step: on to the next pc, or fail! with the error.
DbStep(r, here, next) ==
  /\ At(r, here)
  /\ \/ Ok /\ Goto(r, next)
     \/ DbFault /\ Goto(r, "failing")
  /\ NoWrite
  /\ UNCHANGED <<wire, handoffs>>

\* A call to Immich, OpenAI or Buffer that fails.
RemoteError(r, here) ==
  /\ At(r, here)
  /\ Goto(r, "failing")
  /\ Ok /\ NoWrite
  /\ UNCHANGED <<wire, handoffs>>

-----------------------------------------------------------------------------

\* The handler of a job begins in the process incarnation boot.
StartPipe(r, boot) == pipe' = [pipe EXCEPT ![r] = [NoPipe EXCEPT !.pc = "start", !.boot = boot]]

\* Steps 1 and 2.
MarkRunning(r) ==
  /\ At(r, "start")
  /\ \/ Ok /\ RunMarkRunning(r) /\ Goto(r, "dedup")
     \/ DbFault /\ NoWrite /\ Goto(r, "failing")
  /\ UNCHANGED <<wire, handoffs>>

\* Step 4: the snapshot every later step of this run filters by.
ReadDedupSet(r) ==
  /\ At(r, "dedup")
  /\ \/ Ok /\ pipe' = [pipe EXCEPT ![r].pc = "select", ![r].posted = DedupSet]
     \/ DbFault /\ Goto(r, "failing")
  /\ NoWrite
  /\ UNCHANGED <<wire, handoffs>>

\* Mutant: candidates are not checked against the posts.
SelectUnfiltered(r) ==
  /\ At(r, "select")
  /\ \E a \in Assets : pipe' = [pipe EXCEPT ![r].pc = "caption", ![r].asset = a]
  /\ Ok /\ NoWrite
  /\ UNCHANGED <<wire, handoffs>>

\* Mutant: with too few candidates the run goes on without an asset.
SelectWithoutBail(r) ==
  /\ At(r, "select")
  /\ Goto(r, "caption")
  /\ Ok /\ NoWrite
  /\ UNCHANGED <<wire, handoffs>>

\* Steps 5 to 8: the two search passes, the minimum and the random pick.
SelectAsset(r) ==
  /\ At(r, "select")
  /\ \E candidates \in SUBSET (Assets \ pipe[r].posted) :
       /\ Cardinality(candidates) >= MinCandidates
       /\ \E a \in candidates :
            pipe' = [pipe EXCEPT ![r].pc = "caption", ![r].asset = a]
  /\ Ok /\ NoWrite
  /\ UNCHANGED <<wire, handoffs>>

\* Steps 9 and 10: thumbnail and caption.
GetCaption(r) ==
  /\ At(r, "caption")
  /\ Goto(r, "media")
  /\ Ok /\ NoWrite
  /\ UNCHANGED <<wire, handoffs>>

\* Steps 5 to 10 may end in an Immich, OpenAI or NoCandidates error.
SearchOrCaptionFails(r) == RemoteError(r, "select") \/ RemoteError(r, "caption")

\* Step 11: the row behind the URL given to Buffer.
InsertMedia(r) ==
  /\ At(r, "media")
  /\ \/ Ok /\ Unlocked /\ Goto(r, "send")
     \/ DbFault /\ Goto(r, "failing")
  /\ NoWrite
  /\ UNCHANGED <<wire, handoffs>>

-----------------------------------------------------------------------------
(* Step 13: the hand-off to Buffer. *)

CurrentRequest(r) == [run |-> r, asset |-> pipe[r].asset, boot |-> pipe[r].boot]

SendToBuffer(r) ==
  /\ At(r, "send")
  /\ wire' = wire \cup {CurrentRequest(r)}
  /\ Goto(r, "awaiting")
  /\ Ok /\ NoWrite
  /\ UNCHANGED handoffs

\* Whoever sent a request is still there to read the answer.
IsAwaited(q) == At(q.run, "awaiting") /\ q = CurrentRequest(q.run)

\* Buffer answers a request with one of these replies.
Answer(q, replies) ==
  \/ /\ IsAwaited(q)
     /\ \E ok \in {SchedulePost(reply) = "Scheduled" : reply \in replies} :
          pipe' = [pipe EXCEPT ![q.run].accepted = ok]
  \/ ~IsAwaited(q) /\ UNCHANGED pipe

\* Buffer takes a request, whether or not somebody still waits for it.
BufferAccepts(q) ==
  /\ q \in wire
  /\ wire' = wire \ {q}
  /\ handoffs' = [handoffs EXCEPT ![q.run] = Append(@, q.asset)]
  /\ Answer(q, ReplyWhenTaken)
  /\ Ok /\ NoWrite

\* Buffer refuses a request, or it never gets there.
BufferRefuses(q) ==
  /\ q \in wire
  /\ wire' = wire \ {q}
  /\ Answer(q, ReplyWhenRefused)
  /\ Ok /\ NoWrite
  /\ UNCHANGED handoffs

\* schedule_post returns the id of a post.
BufferReplies(r) ==
  /\ At(r, "awaiting")
  /\ pipe[r].accepted
  /\ Goto(r, "begin")
  /\ Ok /\ NoWrite
  /\ UNCHANGED <<wire, handoffs>>

\* Mutant: a failed hand-off is tried again.
BufferRetries(r) ==
  /\ At(r, "awaiting")
  /\ Goto(r, "send")
  /\ Ok /\ NoWrite
  /\ UNCHANGED <<wire, handoffs>>

\* A typed error, a connection error or an unreadable reply: the post may
\* have been scheduled all the same, or be scheduled later.
BufferFails(r) == RemoteError(r, "awaiting")

-----------------------------------------------------------------------------
(* Step 14: posts and runs in one transaction.                             *)
(* A statement that fails may leave the transaction open, and with it the  *)
(* write lock held, or SQLite has rolled it back; a commit that fails      *)
(* consumes it.                                                            *)

BeginTx(r) == DbStep(r, "begin", "txPost")

LockAfterError(r) ==
  IF writeLock \in {NoRun, r} THEN {NoRun, r} ELSE {writeLock}

\* Mutant: the posts row is inserted outside the transaction.
InsertPostAutocommit(r) ==
  /\ At(r, "txPost")
  /\ Ok /\ Goto(r, "txRun")
  /\ posts' = [posts EXCEPT ![pipe[r].asset] = r]
  /\ UNCHANGED <<status, selected, jobs, writeLock, wire, handoffs>>

\* posts has immich_asset_id for its primary key.
InsertPost(r) ==
  /\ At(r, "txPost")
  /\ \/ Ok /\ Unlocked /\ pipe[r].asset \notin DedupSet /\ writeLock' = r /\ Goto(r, "txRun")
     \/ Ok /\ Unlocked /\ pipe[r].asset \in DedupSet /\ writeLock' = r /\ Goto(r, "failing")
     \/ DbFault /\ writeLock' \in LockAfterError(r) /\ Goto(r, "failing")
  /\ KeepRows
  /\ UNCHANGED <<wire, handoffs>>

\* Mutant: the runs row is updated outside the transaction.
MarkSucceededAutocommit(r) ==
  /\ At(r, "txRun")
  /\ Ok /\ Goto(r, "commit")
  /\ status' = [status EXCEPT ![r] = "succeeded"]
  /\ selected' = [selected EXCEPT ![r] = pipe[r].asset]
  /\ UNCHANGED <<posts, jobs, writeLock, wire, handoffs>>

MarkSucceeded(r) ==
  /\ At(r, "txRun")
  /\ \/ Ok /\ UNCHANGED writeLock /\ Goto(r, "commit")
     \/ DbFault /\ writeLock' \in LockAfterError(r) /\ Goto(r, "failing")
  /\ KeepRows
  /\ UNCHANGED <<wire, handoffs>>

CommitTx(r) ==
  /\ At(r, "commit")
  /\ \/ Ok /\ CommitSuccess(r, pipe[r].asset) /\ Goto(r, "finished")
     \/ DbFault /\ KeepRows /\ writeLock' = NoRun /\ Goto(r, "failing")
  /\ UNCHANGED <<wire, handoffs>>

-----------------------------------------------------------------------------

\* The end of execute_run drops the transaction it may still hold.
ReleaseLock(r) == writeLock' = IF writeLock = r THEN NoRun ELSE writeLock

\* Mutant: the pipeline returns its error without recording it.
ReturnUnrecorded(r) ==
  /\ At(r, "failing")
  /\ Goto(r, "finished")
  /\ Ok /\ KeepRows /\ ReleaseLock(r)
  /\ UNCHANGED <<wire, handoffs>>

\* Mutant: the UPDATE is tried again for as long as the lock is held.
MarkFailedAtLast(r) ==
  /\ At(r, "failing")
  /\ \/ Ok /\ RunMarkFailed(r) /\ Goto(r, "finished")
     \/ Ok /\ ~Unlocked /\ KeepRows /\ UNCHANGED <<writeLock, pipe>>
     \/ DbFault /\ KeepRows /\ ReleaseLock(r) /\ Goto(r, "finished")
  /\ UNCHANGED <<wire, handoffs>>

\* fail!: mark the run failed on another connection of the pool, ignoring the
\* result, and only then return, which drops the transaction.  While that
\* transaction holds the write lock the UPDATE times out.
MarkFailed(r) ==
  /\ At(r, "failing")
  /\ \/ Ok /\ RunMarkFailed(r)
     \/ Ok /\ writeLock = r /\ KeepRows /\ ReleaseLock(r)
     \/ DbFault /\ KeepRows /\ ReleaseLock(r)
  /\ Goto(r, "finished")
  /\ UNCHANGED <<wire, handoffs>>

PipelineStep(r) ==
  \/ MarkRunning(r) \/ ReadDedupSet(r) \/ SelectAsset(r) \/ GetCaption(r)
  \/ SearchOrCaptionFails(r) \/ InsertMedia(r)
  \/ SendToBuffer(r) \/ BufferReplies(r) \/ BufferFails(r)
  \/ BeginTx(r) \/ InsertPost(r) \/ MarkSucceeded(r) \/ CommitTx(r) \/ MarkFailed(r)

BufferStep == \E q \in wire : BufferAccepts(q) \/ BufferRefuses(q)
=============================================================================
