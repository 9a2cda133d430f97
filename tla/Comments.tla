------------------------------ MODULE Comments -------------------------------
(***************************************************************************)
(* Comment threads: CommentService.CreateTopComment, CreateReply and        *)
(* DeleteComment (internal/service/comment_service.go), with the two calls  *)
(* of PostService that pull the post from under them, DeletePost and        *)
(* UpdatePost of the visibility.  One PostgreSQL transaction per call, READ *)
(* COMMITTED, one action per statement.                                     *)
(*                                                                         *)
(* A comment gets a fresh uid from its call, so it is named by its request. *)
(* Posts and comments both are rows with a status and a cached counter:     *)
(* posts.comment_count counts live top comments, post_comments.reply_count  *)
(* of a top comment its live replies.                                       *)
(***************************************************************************)
EXTENDS Integers, FiniteSets

CONSTANTS
  Users,
  Posts,
  PostAuthor,  \* PostAuthor[p]: posts.author
  Requests,    \* the calls of a behaviour; also the comments they create
  CallSpace,   \* the calls a client may make
  None         \* the holder of a free lock, the post of no comment

Rows  == Posts \union Requests
Kinds == {"top", "reply", "delete", "archivePost", "setPrivate", "setPublic"}
PostKinds == {"top", "archivePost", "setPrivate", "setPublic"}

ASSUME RowsFinite == IsFiniteSet(Rows) /\ Posts \intersect Requests = {}
ASSUME AuthorsTyped == PostAuthor \in [Posts -> Users]
ASSUME CallsTyped ==
  /\ CallSpace \subseteq [kind : Kinds, user : Users, target : Rows]
  /\ \A c \in CallSpace : c.target \in Posts <=> c.kind \in PostKinds
ASSUME NoneIsNew == None \notin Rows

VARIABLES
  call,     \* call[r]: who asks for what, on which post or comment
  pc,       \* the statement r runs next
  got,      \* the counter value r has written and not committed
  staged,   \* requests with uncommitted rows in river_job
  post,     \* post[c]: post_uid of comment c, from its insert on
  root,     \* root[c]: root_uid of comment c, from its insert on
  status,   \* committed status of a row, "absent" before its commit
  private,  \* the posts whose committed visibility is PRIVATE
  count,    \* committed comment_count or reply_count of a row
  inbox,    \* requests with a committed inbox_comment job
  search,   \* requests with a committed search_post_update job
  lock      \* who has an uncommitted update of a row

local  == <<pc, got, staged>>
tables == <<post, root, status, private, count, inbox, search>>
vars   == <<call, local, tables, lock>>

Live(x)     == status[x] = "NORMAL"
Creates(r)  == call[r].kind \in {"top", "reply"}
Target(r)   == call[r].target
Author(c)   == call[c].user
IsRoot(c)   == root[c] = c
Free(x)     == lock[x] = None
Ended(r)    == pc[r] \in {"done", "failed"}
InProgress(r) == pc[r] \notin {"idle", "done", "failed"}

Decremented(n) == IF n > 0 THEN n - 1 ELSE 0

\* The row whose counter counts comment c: its post's, or its root's.
CounterOf(c) == IF root[c] = c THEN post[c] ELSE root[c]

\* The comment a call creates or deletes.
Subject(r) == IF Creates(r) THEN r ELSE Target(r)

\* The WHERE clause of the three statements on the call's own target.
Writable(r) ==
  /\ Live(Target(r))
  /\ call[r].user = IF Target(r) \in Posts THEN PostAuthor[Target(r)]
                                           ELSE Author(Target(r))

\* Who is told of a new comment: the author of what it answers.
Receiver(c) == IF call[c].kind = "top" THEN PostAuthor[Target(c)] ELSE Author(Target(c))

Goto(r, stage) == pc' = [pc EXCEPT ![r] = stage]

Init ==
  /\ call \in [Requests -> CallSpace]
  /\ pc = [r \in Requests |-> "idle"]
  /\ got = [r \in Requests |-> 0]
  /\ staged = {}
  /\ post = [c \in Requests |-> None]
  /\ root = [c \in Requests |-> c]
  /\ status = [x \in Rows |-> IF x \in Posts THEN "NORMAL" ELSE "absent"]
  /\ private = {}
  /\ count = [x \in Rows |-> 0]
  /\ inbox = {}
  /\ search = {}
  /\ lock = [x \in Rows |-> None]

-----------------------------------------------------------------------------
\* A reply or a deletion first reads the comment's row outside the
\* transaction; the other calls begin their transaction at once.
Receive(r) ==
  /\ pc[r] = "idle"
  /\ Goto(r, CASE call[r].kind \in {"reply", "delete"} -> "meta"
               [] call[r].kind = "top" -> "read"
               [] OTHER -> "write")
  /\ UNCHANGED <<call, got, staged, tables, lock>>

\* GetCommentMetaByUid: only a NORMAL comment is found.
GetCommentMeta(r) ==
  /\ pc[r] = "meta"
  /\ Goto(r, IF ~Live(Target(r)) THEN "failed"
             ELSE IF call[r].kind = "reply" THEN "insert" ELSE "write")
  /\ UNCHANGED <<call, got, staged, tables, lock>>

\* Plausible bug: a post that is found is commented on, whoever may see it.
GetPostUnseen(r) ==
  /\ pc[r] = "read"
  /\ Goto(r, IF Live(Target(r)) THEN "insert" ELSE "failed")
  /\ UNCHANGED <<call, got, staged, tables, lock>>

\* GetPostByUid and the visibility check of CreateTopComment; no lock is
\* taken, so both may be untrue when the comment commits.
GetPost(r) ==
  /\ pc[r] = "read"
  /\ Goto(r, IF /\ Live(Target(r))
                /\ Target(r) \in private => PostAuthor[Target(r)] = call[r].user
               THEN "insert" ELSE "failed")
  /\ UNCHANGED <<call, got, staged, tables, lock>>

\* Plausible bug: a reply is rooted at the comment it answers.
RootIsParent(r) ==
  /\ pc[r] = "insert"
  /\ post' = [post EXCEPT ![r] = IF call[r].kind = "top" THEN Target(r) ELSE post[Target(r)]]
  /\ root' = [root EXCEPT ![r] = IF call[r].kind = "top" THEN r ELSE Target(r)]
  /\ Goto(r, "count")
  /\ UNCHANGED <<call, got, staged, status, private, count, inbox, search, lock>>

\* Plausible bug: a reply locks its post before its root comment.
ReplyLocksPost(r) ==
  /\ pc[r] = "insert"
  /\ IF call[r].kind = "top"
       THEN /\ post' = [post EXCEPT ![r] = Target(r)]
            /\ UNCHANGED <<root, lock>>
       ELSE /\ Free(post[Target(r)])
            /\ lock' = [lock EXCEPT ![post[Target(r)]] = r]
            /\ post' = [post EXCEPT ![r] = post[Target(r)]]
            /\ root' = [root EXCEPT ![r] = root[Target(r)]]
  /\ Goto(r, "count")
  /\ UNCHANGED <<call, got, staged, status, private, count, inbox, search>>

\* The new row is nobody else's to see before the commit.
CreateComment(r) ==
  /\ pc[r] = "insert"
  /\ IF call[r].kind = "top"
       THEN /\ post' = [post EXCEPT ![r] = Target(r)]
            /\ root' = [root EXCEPT ![r] = r]
       ELSE /\ post' = [post EXCEPT ![r] = post[Target(r)]]
            /\ root' = [root EXCEPT ![r] = root[Target(r)]]
  /\ Goto(r, "count")
  /\ UNCHANGED <<call, got, staged, status, private, count, inbox, search, lock>>

\* ArchiveCommentByUidAndAuthor, ArchivePostByUidAndAuthor and
\* UpdatePostByUidAndAuthor wait for the lock of a row that satisfies the
\* WHERE clause, and judge the newest committed row; no row is an error.
WriteRow(r) ==
  /\ pc[r] = "write"
  /\ IF Writable(r)
       THEN /\ Free(Target(r))
            /\ lock' = [lock EXCEPT ![Target(r)] = r]
            /\ Goto(r, IF Target(r) \in Posts THEN "enqueue" ELSE "count")
       ELSE /\ Goto(r, "failed")
            /\ UNCHANGED lock
  /\ UNCHANGED <<call, got, staged, tables>>

\* Plausible bugs: the status is not in the WHERE clause of the counter;
\* increment and decrement are exchanged; the counter is read without the
\* row's lock and written back.
CountAnyStatus(r) ==
  LET x == CounterOf(Subject(r)) IN
  /\ pc[r] = "count"
  /\ Free(x)
  /\ lock' = [lock EXCEPT ![x] = r]
  /\ got' = [got EXCEPT ![r] = IF Creates(r) THEN count[x] + 1 ELSE Decremented(count[x])]
  /\ Goto(r, "enqueue")
  /\ UNCHANGED <<call, staged, tables>>

CountExchanged(r) ==
  LET x == CounterOf(Subject(r)) IN
  /\ pc[r] = "count"
  /\ Free(x) /\ Live(x)
  /\ lock' = [lock EXCEPT ![x] = r]
  /\ got' = [got EXCEPT ![r] = IF Creates(r) THEN count[x] - 1 ELSE count[x] + 1]
  /\ Goto(r, "enqueue")
  /\ UNCHANGED <<call, staged, tables>>

CountUnlocked(r) ==
  LET x == CounterOf(Subject(r)) IN
  /\ pc[r] = "count"
  /\ Live(x)
  /\ got' = [got EXCEPT ![r] = IF Creates(r) THEN count[x] + 1 ELSE Decremented(count[x])]
  /\ Goto(r, "enqueue")
  /\ UNCHANGED <<call, staged, tables, lock>>

\* Increment/Decrement PostCommentCount or CommentReplyCount ... RETURNING,
\* while the post, or the root comment, is NORMAL.
UpdateCount(r) ==
  LET x == CounterOf(Subject(r)) IN
  /\ pc[r] = "count"
  /\ Free(x) /\ Live(x)
  /\ lock' = [lock EXCEPT ![x] = r]
  /\ got' = [got EXCEPT ![r] = IF Creates(r) THEN count[x] + 1 ELSE Decremented(count[x])]
  /\ Goto(r, "enqueue")
  /\ UNCHANGED <<call, staged, tables>>

\* The producer's InsertTx calls, in the transaction: an inbox job for a new
\* comment of somebody else, a search job when the post's row has changed.
EnqueueTx(r) ==
  /\ pc[r] = "enqueue"
  /\ staged' = staged \union {r}
  /\ Goto(r, "commit")
  /\ UNCHANGED <<call, got, tables, lock>>

\* Plausible bugs: one is told of one's own comment; only creations reindex.
NotifiesSelf(r) == Creates(r)
ReindexesOnCreate(r) == Creates(r) /\ IsRoot(r)

Notifies(r) == Creates(r) /\ Receiver(r) # Author(r)
Reindexes(r) == Subject(r) \in Posts \/ IsRoot(Subject(r))

Release(r) == lock' = [x \in Rows |-> IF lock[x] = r THEN None ELSE lock[x]]

Commit(r) ==
  /\ pc[r] = "commit"
  /\ status' =
       [status EXCEPT ![Subject(r)] =
          CASE Creates(r) -> "NORMAL"
            [] call[r].kind \in {"delete", "archivePost"} -> "ARCHIVED"
            [] OTHER -> status[Target(r)]]
  /\ count' = IF Creates(r) \/ call[r].kind = "delete"
                THEN [count EXCEPT ![CounterOf(Subject(r))] = got[r]]
                ELSE count
  /\ private' = CASE call[r].kind = "setPrivate" -> private \union {Target(r)}
                  [] call[r].kind = "setPublic"  -> private \ {Target(r)}
                  [] OTHER -> private
  /\ inbox' = IF r \in staged /\ Notifies(r) THEN inbox \union {r} ELSE inbox
  /\ search' = IF r \in staged /\ Reindexes(r) THEN search \union {r} ELSE search
  /\ staged' = staged \ {r}
  /\ Release(r)
  /\ Goto(r, "done") \/ Goto(r, "failed")
  /\ UNCHANGED <<call, got, post, root>>

\* Plausible bug: an error path that forgets the transaction.
RollbackForgotten(r) ==
  /\ InProgress(r)
  /\ Goto(r, "failed")
  /\ UNCHANGED <<call, got, staged, tables, lock>>

\* The call fails: an error, a cancelled request, a lost connection or a
\* crash.  BeginFunc, or the end of the connection, rolls back.
Rollback(r) ==
  /\ InProgress(r)
  /\ Goto(r, "failed")
  /\ staged' = staged \ {r}
  /\ Release(r)
  /\ UNCHANGED <<call, got, tables>>

\* The counter update finds no NORMAL row: ErrNoRows, and all is undone.
NoCounterRow(r) ==
  /\ pc[r] = "count"
  /\ Free(CounterOf(Subject(r)))
  /\ ~Live(CounterOf(Subject(r)))
  /\ Rollback(r)

Statement(r) ==
  \/ GetCommentMeta(r) \/ GetPost(r)
  \/ CreateComment(r) \/ WriteRow(r) \/ UpdateCount(r) \/ NoCounterRow(r)
  \/ EnqueueTx(r) \/ Commit(r)

Next == \E r \in Requests : Receive(r) \/ Statement(r) \/ Rollback(r)

\* Statements that can run do run; clients need not call.
Fairness == \A r \in Requests : WF_vars(Statement(r))

Spec     == Init /\ [][Next]_vars
FairSpec == Spec /\ Fairness
-----------------------------------------------------------------------------
TypeOK ==
  /\ call \in [Requests -> CallSpace]
  /\ pc \in [Requests -> {"idle", "meta", "read", "insert", "write", "count",
                         "enqueue", "commit", "done", "failed"}]
  /\ got \in [Requests -> Nat]
  /\ staged \in SUBSET Requests
  /\ post \in [Requests -> Posts \union {None}]
  /\ root \in [Requests -> Requests]
  /\ status \in [Rows -> {"absent", "NORMAL", "ARCHIVED"}]
  /\ private \in SUBSET Posts
  /\ count \in [Rows -> Nat]
  /\ inbox \in SUBSET Requests
  /\ search \in SUBSET Requests
  /\ lock \in [Rows -> Requests \union {None}]

\* The comments row x counts: live top comments of a post, live replies of a
\* top comment.
Counted(x) == {c \in Requests : Live(c) /\ CounterOf(c) = x}

\* comment_count and reply_count are exact, on archived posts and comments
\* too, whatever creations, deletions and rollbacks interleave.
CountsMatchLive == \A x \in Rows : count[x] = Cardinality(Counted(x))

\* A creation of a top comment that has not read its post yet, and its post
\* being kept from its author: archived, or somebody else's and private.
ToRead(r) == call[r].kind = "top" /\ pc[r] \in {"idle", "read"}
Hidden(r) == \/ ~Live(Target(r))
             \/ Target(r) \in private /\ PostAuthor[Target(r)] # call[r].user

\* A comment appears, or disappears, only while the row that counts it is
\* NORMAL, at the very step of its commit: the post of a top comment, the root
\* of a reply.  A deletion of that row that raced with the call is noticed by
\* the counter update, not by the unlocked reads before.  (CreateReply never
\* looks at the post: replies come and go under an archived post.)  And the
\* unlocked read of the post is not in vain: under a post that stays hidden
\* from the caller from before the read on, no top comment appears.
ThreadsStayLive ==
  /\ [][\A c \in Requests : Live(c) # Live(c)' =>
          Live(CounterOf(c)) /\ Live(CounterOf(c))']_vars
  /\ \A r \in Requests : [](ToRead(r) /\ []Hidden(r) => []~Live(r))

\* Threads are two levels deep and stay on one post: the root of a committed
\* comment is a committed top comment of the same post, and a reply's parent
\* is in the same thread.
ThreadsAreFlat ==
  \A c \in Requests : status[c] # "absent" =>
    /\ status[root[c]] # "absent" /\ IsRoot(root[c])
    /\ post[root[c]] = post[c] /\ post[c] \in Posts
    /\ call[c].kind = "reply" => root[Target(c)] = root[c]

\* Exactly the committed comments that answer somebody else have an inbox
\* job: none is lost in a rollback, none announced without its comment.
InboxMatchesComments ==
  inbox = {c \in Requests : status[c] # "absent" /\ Receiver(c) # Author(c)}

\* The post a search job is about.
PostOf(r) == IF Subject(r) \in Posts THEN Subject(r) ELSE post[Subject(r)]

\* Every committed change of what the search index holds of a post commits a
\* search job for that post with it.
IndexIsTold ==
  [][\A p \in Posts :
       \/ count'[p] # count[p] \/ status'[p] # status[p]
       \/ (p \in private) # (p \in private')
       => \E r \in search' \ search : PostOf(r) = p]_vars

\* The transaction r waits for, if any.
WaitsFor(r, q) ==
  /\ q \in Requests
  /\ \/ pc[r] = "write" /\ Writable(r) /\ lock[Target(r)] = q
     \/ pc[r] = "count" /\ lock[CounterOf(Subject(r))] = q

\* Transactions never wait for each other in a circle: rows are locked in the
\* order reply, root comment, post.  (The code relies on it: nothing retries
\* the victim of a deadlock.)
NoDeadlock ==
  \A S \in (SUBSET Requests) \ {{}} : \E r \in S : \A q \in S : ~WaitsFor(r, q)

\* Every call that begins is answered, or ends in an error.
EveryCallEnds == \A r \in Requests : InProgress(r) ~> Ended(r)

\* proto/comment.proto: DELETE /api/v1/comments/{uid} soft-deletes a comment.
\* So the author's deletion of a NORMAL comment, its row archived, is not
\* turned down by the state of the post or of the root comment.
DeletionIsNotRefused ==
  \A r \in Requests :
    call[r].kind = "delete" /\ pc[r] = "count" => Live(CounterOf(Target(r)))

\* Well-typed, and every committed comment has announced itself to the right
\* inbox and to no other.
CommentsInv == TypeOK /\ InboxMatchesComments
=============================================================================
