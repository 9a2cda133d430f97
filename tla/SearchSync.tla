----------------------------- MODULE SearchSync ------------------------------
(***************************************************************************)
(* How one post reaches the search index and comes back from it: the calls  *)
(* that change the post's row and commit a search_post_update job with it   *)
(* (PostService and CommentService), UpdatePostSearchWorker, the task queue *)
(* of Meilisearch, and PostService.SearchPosts.                             *)
(*                                                                         *)
(* Rows, jobs and documents of different posts never meet, so one post is   *)
(* enough.  Its row is abstracted to the number of its last committed       *)
(* version; a document is the version it was made from, as the worker reads *)
(* the whole row in one statement.                                          *)
(***************************************************************************)
EXTENDS Integers, Sequences, FiniteSets

CONSTANTS
  Writes,       \* calls that change the post; each names the job it enqueues
  Searches,     \* SearchPosts calls, answered one after the other
  Viewers,      \* who searches: the author, or others
  Author,
  Hidings,      \* what clients ask of the visibility: TRUE for PRIVATE
  MaxAttempts   \* River's attempts before a job is discarded (25)

NoDoc == 0

ASSUME AuthorIsViewer == Author \in Viewers
ASSUME HidingsTyped == Hidings \subseteq BOOLEAN
ASSUME MaxAttemptsPositive == MaxAttempts \in Nat \ {0}
ASSUME WritesFinite == IsFiniteSet(Writes)

VARIABLES
  version,   \* last committed version of the row, 0 before CreatePost
  live,      \* posts.status = NORMAL
  private,   \* posts.visibility = PRIVATE
  public,    \* history: the versions whose visibility was PUBLIC
  action,    \* action[w]: "upsert" or "delete" of the job of w
  job,       \* job[w]: where the job of w is
  attempts,  \* how often it has been fetched
  doc,       \* doc[w]: the document the running attempt is going to send
  passed,    \* history: running attempts overtaken between reading and sending
  raced,     \* history: an overtaken attempt has sent its document
  tasks,     \* Meilisearch's queue: who sent which document in which attempt
  index,     \* the version the index holds, NoDoc if none
  hit,       \* hit[s]: the document search s has from the index
  viewer,    \* viewer[s]: who searches
  shown      \* shown[s]: the document the last answer of s contained

row    == <<version, live, private, public>>
river  == <<action, job, attempts, doc, passed, raced>>
search == <<hit, viewer, shown>>
vars   == <<row, river, tasks, index, search>>

Init ==
  /\ version = 0 /\ live = FALSE /\ private = FALSE /\ public = {}
  /\ action = [w \in Writes |-> "upsert"]
  /\ job = [w \in Writes |-> "absent"]
  /\ attempts = [w \in Writes |-> 0]
  /\ doc = [w \in Writes |-> NoDoc]
  /\ passed = {} /\ raced = FALSE
  /\ tasks = <<>> /\ index = NoDoc
  /\ hit = [s \in Searches |-> NoDoc]
  /\ viewer \in [Searches -> Viewers]
  /\ shown = [s \in Searches |-> NoDoc]

-----------------------------------------------------------------------------
\* The transaction of w commits: a new version of the row and a job for it.
WriteRow(w, hidden, act) ==
  /\ job[w] = "absent"
  /\ version' = version + 1
  /\ private' = hidden
  /\ public' = IF hidden THEN public ELSE public \union {version + 1}
  /\ action' = [action EXCEPT ![w] = act]
  /\ job' = [job EXCEPT ![w] = "available"]
  /\ UNCHANGED <<attempts, doc, passed, raced, tasks, index, search>>

CreatePost(w) ==
  /\ version = 0
  /\ live' = TRUE
  /\ \E hidden \in Hidings : WriteRow(w, hidden, "upsert")

\* UpdatePost of a NORMAL post: any change, of its visibility too.
UpdatePost(w) ==
  /\ live
  /\ UNCHANGED live
  /\ \E hidden \in Hidings : WriteRow(w, hidden, "upsert")

\* LikePost and CollectPost change counters of the row, archived or not; so
\* do comments on a NORMAL post.
CountOnPost(w) ==
  /\ version > 0
  /\ UNCHANGED live
  /\ WriteRow(w, private, "upsert")

DeletePost(w) ==
  /\ live
  /\ live' = FALSE
  /\ WriteRow(w, private, "delete")

-----------------------------------------------------------------------------
\* Plausible bug: archived posts are indexed.
ReadAnyStatus(w) ==
  /\ job[w] = "available"
  /\ attempts' = [attempts EXCEPT ![w] = @ + 1]
  /\ doc' = [doc EXCEPT ![w] = IF action[w] = "upsert" THEN version ELSE NoDoc]
  /\ passed' = passed \ {w}
  /\ job' = [job EXCEPT ![w] = "read"]
  /\ UNCHANGED <<row, action, raced, tasks, index, search>>

\* An attempt starts: an upsert reads the row with GetPostByUid, which finds
\* NORMAL posts only; a missing post and a delete remove the document.
ReadRow(w) ==
  /\ job[w] = "available"
  /\ attempts' = [attempts EXCEPT ![w] = @ + 1]
  /\ doc' = [doc EXCEPT ![w] = IF action[w] = "upsert" /\ live THEN version ELSE NoDoc]
  /\ passed' = passed \ {w}
  /\ job' = [job EXCEPT ![w] = "read"]
  /\ UNCHANGED <<row, action, raced, tasks, index, search>>

\* AddDocuments or DeleteDocuments: Meilisearch queues a task.
SendTask(w) ==
  /\ job[w] = "read"
  /\ tasks' = Append(tasks, [from |-> w, attempt |-> attempts[w], doc |-> doc[w]])
  /\ passed' = passed \union {k \in Writes \ {w} : job[k] = "read"}
  /\ raced' = (raced \/ w \in passed)
  /\ job' = [job EXCEPT ![w] = "wait"]
  /\ UNCHANGED <<row, action, attempts, doc, index, search>>

\* The worker waiting for the first task, if it still does.
Awaited(w) == job[w] = "wait" /\ Head(tasks).from = w /\ Head(tasks).attempt = attempts[w]

\* Plausible bug: attempts are not counted.
RetryForever(w) == "available"

Retry(w) == IF attempts[w] < MaxAttempts THEN "available" ELSE "discarded"

\* Plausible bug: the worker waits for success only.
FailedTaskUntold ==
  /\ tasks # <<>>
  /\ tasks' = Tail(tasks)
  /\ \/ /\ index' = Head(tasks).doc
        /\ job' = [w \in Writes |-> IF Awaited(w) THEN "finish" ELSE job[w]]
     \/ UNCHANGED <<index, job>>
  /\ UNCHANGED <<row, action, attempts, doc, passed, raced, search>>

\* Meilisearch works off its tasks in order; a task succeeds, or fails and
\* leaves the index alone.  waitTaskSucceeded tells the worker.
ApplyTask ==
  /\ tasks # <<>>
  /\ tasks' = Tail(tasks)
  /\ \/ /\ index' = Head(tasks).doc
        /\ job' = [w \in Writes |-> IF Awaited(w) THEN "finish" ELSE job[w]]
     \/ /\ UNCHANGED index
        /\ job' = [w \in Writes |-> IF Awaited(w) THEN Retry(w) ELSE job[w]]
  /\ UNCHANGED <<row, action, attempts, doc, passed, raced, search>>

Complete(w) ==
  /\ job[w] = "finish"
  /\ job' = [job EXCEPT ![w] = "completed"]
  /\ UNCHANGED <<row, action, attempts, doc, passed, raced, tasks, index, search>>

\* The attempt ends in an error, or its process dies; a task already sent
\* stays in Meilisearch's queue.
Fail(w) ==
  /\ job[w] \in {"read", "wait", "finish"}
  /\ job' = [job EXCEPT ![w] = Retry(w)]
  /\ UNCHANGED <<row, action, attempts, doc, passed, raced, tasks, index, search>>

-----------------------------------------------------------------------------
\* Plausible bug: the visibility is not in the filter.
QueryUnfiltered(s) ==
  /\ hit[s] = NoDoc
  /\ index # NoDoc
  /\ hit' = [hit EXCEPT ![s] = index]
  /\ UNCHANGED <<row, river, tasks, index, viewer, shown>>

\* SearchPosts asks the index for documents that are NORMAL (all are: the
\* worker never sends another) and PUBLIC or the viewer's own ...
QueryIndex(s) ==
  /\ hit[s] = NoDoc
  /\ index # NoDoc
  /\ index \in public \/ viewer[s] = Author
  /\ hit' = [hit EXCEPT ![s] = index]
  /\ UNCHANGED <<row, river, tasks, index, viewer, shown>>

\* Plausible bug: the database is not asked again.
TrustIndex(s) ==
  /\ hit[s] # NoDoc
  /\ shown' = [shown EXCEPT ![s] = hit[s]]
  /\ hit' = [hit EXCEPT ![s] = NoDoc]
  /\ UNCHANGED <<row, river, tasks, index, viewer>>

\* ... and then the database, by GetPostSearchExtrasByUids, which of the hits
\* are NORMAL and PUBLIC or the viewer's own now; the others are dropped.
QueryExtras(s) ==
  /\ hit[s] # NoDoc
  /\ shown' = [shown EXCEPT ![s] =
       IF live /\ (~private \/ viewer[s] = Author) THEN hit[s] ELSE NoDoc]
  /\ hit' = [hit EXCEPT ![s] = NoDoc]
  /\ UNCHANGED <<row, river, tasks, index, viewer>>

Worker(w) == ReadRow(w) \/ SendTask(w) \/ Complete(w)

Next ==
  \/ \E w \in Writes :
       \/ CreatePost(w) \/ UpdatePost(w) \/ CountOnPost(w) \/ DeletePost(w)
       \/ Worker(w) \/ Fail(w)
  \/ ApplyTask
  \/ \E s \in Searches : QueryIndex(s) \/ QueryExtras(s)

\* River's workers and Meilisearch keep working; failures are bounded by
\* MaxAttempts.
Fairness == WF_vars(ApplyTask) /\ \A w \in Writes : WF_vars(Worker(w))

Spec     == Init /\ [][Next]_vars
FairSpec == Spec /\ Fairness
-----------------------------------------------------------------------------
TypeOK ==
  /\ version \in 0..Cardinality(Writes)
  /\ live \in BOOLEAN /\ private \in BOOLEAN
  /\ public \subseteq 1..version
  /\ action \in [Writes -> {"upsert", "delete"}]
  /\ job \in [Writes -> {"absent", "available", "read", "wait", "finish",
                         "completed", "discarded"}]
  /\ attempts \in [Writes -> 0..MaxAttempts]
  /\ doc \in [Writes -> 0..version]
  /\ passed \subseteq Writes /\ raced \in BOOLEAN
  /\ tasks \in Seq([from : Writes, attempt : 1..MaxAttempts, doc : 0..version])
  /\ index \in 0..version
  /\ hit \in [Searches -> 0..version] /\ shown \in [Searches -> 0..version]
  /\ viewer \in [Searches -> Viewers]

\* Every job enqueued so far is completed and no task is left.
Quiet == tasks = <<>> /\ \A w \in Writes : job[w] \in {"absent", "completed"}

\* When all is quiet the index holds the last committed version, or nothing
\* of a deleted post, unless one attempt has sent a document it had read
\* before another attempt sent its own: only that reordering leaves the index
\* stale, no retry, crash, failed task or order of the jobs does.
StaleOnlyIfOvertaken ==
  Quiet /\ ~raced => index = IF live THEN version ELSE NoDoc

\* However stale the index is, somebody else than the author is only ever
\* shown a document whose version was PUBLIC when it was committed.
OthersSeePublicVersions ==
  \A s \in Searches : viewer[s] # Author => shown[s] \in public \union {NoDoc}

\* After a deletion, or while a post is PRIVATE, no search answered by others
\* contains it, though the index may still hold it.
StaleHitsAreDropped ==
  \A s \in Searches :
    ~live \/ (private /\ viewer[s] # Author) => shown'[s] \in {shown[s], NoDoc}

\* What a search answers fits its viewer: others get no version that was
\* private, and nothing that is deleted or private by then.
AnswersFitTheViewer == [][OthersSeePublicVersions' /\ StaleHitsAreDropped]_vars

\* The job of every committed change is worked off, or uses up its attempts:
\* no failed task, lost wait or crash leaves it hanging.
JobsSettle ==
  \A w \in Writes : job[w] = "available" ~> job[w] \in {"completed", "discarded"}

\* Well-typed, and the index is up to date when all is quiet, but for workers
\* that have overtaken each other.
IndexInv == TypeOK /\ StaleOnlyIfOvertaken
=============================================================================
