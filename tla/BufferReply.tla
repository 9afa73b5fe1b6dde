----------------------------- MODULE BufferReply -----------------------------
(***************************************************************************)
(* What schedule_post (buffer/mutations.rs) makes of Buffer's reply to a   *)
(* createPost request, and what a reply may look like.                     *)
(*                                                                         *)
(* A reply is the few facts the code looks at: a 2xx status, a body that   *)
(* is a GraphQL envelope, a non-empty list of errors, and what data holds  *)
(* under createPost: nothing at all ("noData"), no such field ("absent"),  *)
(* a member of the union, or something else ("unknown": null, another      *)
(* __typename, a member without its fields).                               *)
(***************************************************************************)

CreatePostResult == {"PostActionSuccess", "MutationError", "UnexpectedError"}

Reply == [success : BOOLEAN, envelope : BOOLEAN, errors : BOOLEAN,
          createPost : CreatePostResult \cup {"noData", "absent", "unknown"}]

\* The union: one member is a post, two are refusals.
ReadResult(result) ==
  CASE result = "PostActionSuccess" -> "Scheduled"
    [] result \in {"MutationError", "UnexpectedError"} -> "Mutation"
    [] OTHER -> "Parse"

\* Mutant: the list of errors is not looked at when there is data.
ScheduleIgnoringErrors(reply) ==
  IF ~reply.success THEN "Status"
  ELSE IF ~reply.envelope THEN "Parse"
  ELSE ReadResult(reply.createPost)

\* Mutant: any createPost in the data is taken for a post.
ScheduleByPresence(reply) ==
  IF ~reply.success THEN "Status"
  ELSE IF ~reply.envelope THEN "Parse"
  ELSE IF reply.errors THEN "Mutation"
  ELSE IF reply.createPost \in {"noData", "absent"} THEN "Parse"
  ELSE "Scheduled"

\* Ok(ScheduledPost), or the variant of BufferError: the status comes first,
\* then the envelope, and errors win over data.
SchedulePost(reply) ==
  IF ~reply.success THEN "Status"
  ELSE IF ~reply.envelope THEN "Parse"
  ELSE IF reply.errors THEN "Mutation"
  ELSE ReadResult(reply.createPost)

-----------------------------------------------------------------------------
(* What Buffer is trusted to do: it calls a post made, without any sign of *)
(* an error, only when it made it.  Of a post it did make it may say       *)
(* anything: a gateway fails, or errors come along with the data.          *)

ClaimsPost(reply) ==
  /\ reply.success
  /\ reply.envelope
  /\ ~reply.errors
  /\ reply.createPost = "PostActionSuccess"

ReplyWhenTaken == Reply
ReplyWhenRefused == {reply \in Reply : ~ClaimsPost(reply)}
=============================================================================
