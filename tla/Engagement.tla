----------------------------- MODULE Engagement ------------------------------
(***************************************************************************)
(* Likes and collections: PostService.LikePost, PostService.CollectPost and *)
(* CommentService.LikeComment.  The three toggle an edge in a table of      *)
(* their own and count it in a column of the post's or comment's row; likes *)
(* and collections of a post share that row, and its lock.  One transaction *)
(* per call, READ COMMITTED, one action per statement, as in Follow.        *)
(***************************************************************************)
EXTENDS Integers, FiniteSets

CONSTANTS
  Users,
  Posts,      \* uids that have a row in posts
  Comments,   \* uids that have a row in post_comments
  Requests,   \* the calls of a behaviour, one transaction each
  CallSpace,  \* the calls a client may make
  NoReq       \* the holder of a free lock, the inserter of an absent edge

Tables  == {"post_likes", "post_collections", "comment_likes"}
Actions == {"ADD", "REMOVE", "OTHER"}

\* The rows an edge may refer to: the tables have foreign keys.  (Their check
\* locks the row FOR KEY SHARE, which updates of a counter do not conflict with.)
Referred(t) == IF t = "comment_likes" THEN Comments ELSE Posts

Rows == Posts \union Comments

ASSUME RowsAreApart == Posts \intersect Comments = {}
ASSUME UsersFinite == IsFiniteSet(Users)
ASSUME CallsTyped ==
  \A c \in CallSpace : c.table \in Tables /\ c.user \in Users /\ c.action \in Actions
ASSUME NoReqIsNone == NoReq \notin Requests

VARIABLES
  call,      \* call[r]: which table, who, the uid and req.Action
  pc,        \* the statement r runs next
  seen,      \* the edge the snapshot of r's DELETE shows
  got,       \* the local variable count
  staged,    \* requests with an uncommitted row in river_job
  edge,      \* edge[t, u, x]: who inserted the committed edge, or NoReq
  count,     \* count[t, x]: like_count or collection_count, committed
  jobs,      \* requests with a committed search_post_update job
  edgeLock,  \* who has an uncommitted insert or delete of an edge
  rowLock    \* who has an uncommitted update of a post or comment

local == <<pc, seen, got, staged>>
store == <<edge, count, jobs>>
locks == <<edgeLock, rowLock>>
vars  == <<call, local, store, locks>>

Counters == {c \in Tables \X Rows : c[2] \in Referred(c[1])}
Edges    == {e \in Tables \X Users \X Rows : e[3] \in Referred(e[1])}
Holders  == Requests \union {NoReq}
Stages   == {"idle", "edge", "lock", "count", "enqueue", "read", "commit", "done", "failed"}

Target(r)  == call[r].target
Counter(r) == <<call[r].table, Target(r)>>
Edge(r)    == <<call[r].table, call[r].user, Target(r)>>
Exists(r)  == Target(r) \in Referred(call[r].table)
OnPost(r)  == call[r].table # "comment_likes"
Adds(r)    == call[r].action = "ADD"
Removes(r) == call[r].action = "REMOVE"
Free(l)    == l = NoReq
Ended(r)   == pc[r] \in {"done", "failed"}
InTransaction(r) == pc[r] \notin {"idle", "done", "failed"}

Decremented(n) == IF n > 0 THEN n - 1 ELSE 0
\* Plausible bug: increment and decrement exchanged.
CountedSwapped(r, n) == IF Adds(r) THEN n - 1 ELSE n + 1
Counted(r, n)  == IF Adds(r) THEN n + 1 ELSE Decremented(n)

Goto(r, stage) == pc' = [pc EXCEPT ![r] = stage]

Init ==
  /\ call \in [Requests -> CallSpace]
  /\ pc = [r \in Requests |-> "idle"]
  /\ seen = [r \in Requests |-> NoReq]
  /\ got = [r \in Requests |-> 0]
  /\ staged = {}
  /\ edge = [e \in Edges |-> NoReq]
  /\ count = [c \in Counters |-> 0]
  /\ jobs = {}
  /\ edgeLock = [e \in Edges |-> NoReq]
  /\ rowLock = [x \in Rows |-> NoReq]

-----------------------------------------------------------------------------
\* An action that is neither ADD nor REMOVE is refused by the default branch.
Receive(r) ==
  /\ pc[r] = "idle"
  /\ Goto(r, IF Adds(r) \/ Removes(r) THEN "edge" ELSE "failed")
  /\ UNCHANGED <<call, seen, got, staged, store, locks>>

\* Plausible bug: the row is locked before the edge.
InsertRowFirst(r) ==
  /\ pc[r] = "edge" /\ Adds(r) /\ Exists(r)
  /\ \/ /\ Free(rowLock[Target(r)])
        /\ rowLock' = [rowLock EXCEPT ![Target(r)] = r]
        /\ UNCHANGED <<pc, edgeLock>>
     \/ /\ rowLock[Target(r)] = r
        /\ Free(edgeLock[Edge(r)])
        /\ edgeLock' = [edgeLock EXCEPT ![Edge(r)] = r]
        /\ Goto(r, IF edge[Edge(r)] = NoReq THEN "count" ELSE "read")
        /\ UNCHANGED rowLock
  /\ UNCHANGED <<call, seen, got, staged, store>>

\* INSERT ... ON CONFLICT DO NOTHING of an edge to an existing row.
InsertEdge(r) ==
  /\ pc[r] = "edge" /\ Adds(r) /\ Exists(r)
  /\ Free(edgeLock[Edge(r)])
  /\ IF edge[Edge(r)] = NoReq
       THEN edgeLock' = [edgeLock EXCEPT ![Edge(r)] = r] /\ Goto(r, "count")
       ELSE UNCHANGED edgeLock /\ Goto(r, "read")
  /\ UNCHANGED <<call, seen, got, staged, store, rowLock>>

\* DELETE works on the edge its snapshot shows; none refers to a missing row.
DeleteEdge(r) ==
  /\ pc[r] = "edge" /\ Removes(r)
  /\ IF Exists(r) /\ edge[Edge(r)] # NoReq
       THEN seen' = [seen EXCEPT ![r] = edge[Edge(r)]] /\ Goto(r, "lock")
       ELSE UNCHANGED seen /\ Goto(r, "read")
  /\ UNCHANGED <<call, got, staged, store, locks>>

\* The edge was deleted, and perhaps inserted anew, while the DELETE waited.
DeleteFindsEdgeGone(r) ==
  /\ pc[r] = "lock"
  /\ edge[Edge(r)] # seen[r]
  /\ Goto(r, "read")
  /\ UNCHANGED <<call, seen, got, staged, store, locks>>

DeleteLocksEdge(r) ==
  /\ pc[r] = "lock"
  /\ edge[Edge(r)] = seen[r]
  /\ Free(edgeLock[Edge(r)])
  /\ edgeLock' = [edgeLock EXCEPT ![Edge(r)] = r]
  /\ Goto(r, "count")
  /\ UNCHANGED <<call, seen, got, staged, store, rowLock>>

\* Plausible bug: the count is read without the row's lock and written back.
CountUnlocked(r) ==
  /\ pc[r] = "count"
  /\ got' = [got EXCEPT ![r] = Counted(r, count[Counter(r)])]
  /\ Goto(r, IF OnPost(r) THEN "enqueue" ELSE "commit")
  /\ UNCHANGED <<call, seen, staged, store, locks>>

\* Increment/Decrement ...Count: UPDATE ... RETURNING, whatever the status of
\* the post or comment.
UpdateCount(r) ==
  /\ pc[r] = "count"
  /\ rowLock[Target(r)] \in {NoReq, r}
  /\ rowLock' = [rowLock EXCEPT ![Target(r)] = r]
  /\ got' = [got EXCEPT ![r] = Counted(r, count[Counter(r)])]
  /\ Goto(r, IF OnPost(r) THEN "enqueue" ELSE "commit")
  /\ UNCHANGED <<call, seen, staged, store, edgeLock>>

\* Plausible bug: shouldEnqueue is set for additions only.
EnqueueAdditions(r) ==
  /\ pc[r] = "enqueue"
  /\ staged' = IF Adds(r) THEN staged \union {r} ELSE staged
  /\ Goto(r, "commit")
  /\ UNCHANGED <<call, seen, got, store, locks>>

\* shouldEnqueue: the post's document has changed.
EnqueueUpdatePostSearchTx(r) ==
  /\ pc[r] = "enqueue"
  /\ staged' = staged \union {r}
  /\ Goto(r, "commit")
  /\ UNCHANGED <<call, seen, got, store, locks>>

\* Plausible bug: the count of the call's start is returned, not a fresh one.
GetNoCount(r) ==
  /\ pc[r] = "read"
  /\ Exists(r)
  /\ Goto(r, "done")
  /\ UNCHANGED <<call, seen, got, staged, store, locks>>

\* Get...Count, when no edge was affected; committing changes nothing then.
GetCount(r) ==
  /\ pc[r] = "read"
  /\ Exists(r)
  /\ got' = [got EXCEPT ![r] = count[Counter(r)]]
  /\ Goto(r, "done")
  /\ UNCHANGED <<call, seen, staged, store, locks>>

Release(r) ==
  /\ edgeLock' = [e \in Edges |-> IF edgeLock[e] = r THEN NoReq ELSE edgeLock[e]]
  /\ rowLock' = [x \in Rows |-> IF rowLock[x] = r THEN NoReq ELSE rowLock[x]]

\* The answer may still get lost.
Commit(r) ==
  /\ pc[r] = "commit"
  /\ edge' = [edge EXCEPT ![Edge(r)] = IF Adds(r) THEN r ELSE NoReq]
  /\ count' = [count EXCEPT ![Counter(r)] = got[r]]
  /\ jobs' = jobs \union (staged \intersect {r})
  /\ staged' = staged \ {r}
  /\ Release(r)
  /\ Goto(r, "done") \/ Goto(r, "failed")
  /\ UNCHANGED <<call, seen, got>>

\* An error of the database, a cancelled request or a crash.
Rollback(r) ==
  /\ InTransaction(r)
  /\ Goto(r, "failed")
  /\ staged' = staged \ {r}
  /\ Release(r)
  /\ UNCHANGED <<call, seen, got, store>>

\* The foreign key refuses the edge, or the count has no row: ErrNoRows.
NoSuchRow(r) ==
  /\ ~Exists(r)
  /\ \/ pc[r] = "edge" /\ Adds(r)
     \/ pc[r] = "read"
  /\ Rollback(r)

Statement(r) ==
  \/ InsertEdge(r) \/ DeleteEdge(r) \/ DeleteFindsEdgeGone(r) \/ DeleteLocksEdge(r)
  \/ UpdateCount(r) \/ EnqueueUpdatePostSearchTx(r) \/ GetCount(r)
  \/ Commit(r) \/ NoSuchRow(r)

Next == \E r \in Requests : Receive(r) \/ Statement(r) \/ Rollback(r)

Spec == Init /\ [][Next]_vars
-----------------------------------------------------------------------------
\* The edges a counter counts.
Counts(c) == {e \in Edges : e[1] = c[1] /\ e[3] = c[2] /\ edge[e] # NoReq}

TypeOK ==
  /\ call \in [Requests -> CallSpace]
  /\ pc \in [Requests -> Stages]
  /\ seen \in [Requests -> Holders]
  /\ got \in [Requests -> Nat]
  /\ staged \in SUBSET Requests
  /\ edge \in [Edges -> Holders]
  /\ count \in [Counters -> Nat]
  /\ jobs \in SUBSET Requests
  /\ edgeLock \in [Edges -> Holders]
  /\ rowLock \in [Rows -> Holders]

\* like_count and collection_count are the numbers of committed edges, whatever
\* calls of the same or of different users interleave, repeat or fail.
CountsMatchEdges == \A c \in Counters : count[c] = Cardinality(Counts(c))

\* A call is answered with the number of edges at its last step, be it the
\* commit of its own edge or, when nothing was to do, the read of the count:
\* no other call's edge is missing from it or counted before it is committed.
AnswersAreExact ==
  [][\A r \in Requests : pc[r] # "done" /\ pc'[r] = "done" =>
       got'[r] = Cardinality(Counts(Counter(r)))']_vars

\* The search index is told of every committed change of a post's counters,
\* and of no call that changed nothing: a step commits the job of r exactly
\* when it commits a change of r's edge on a post.
JobsFollowCounts ==
  [][\A r \in Requests :
       r \in jobs' \ jobs <=>
         /\ OnPost(r) /\ pc[r] = "commit" /\ pc'[r] \in {"done", "failed"}
         /\ count'[Counter(r)] # count[Counter(r)]]_vars

\* The transaction r waits for, if any.
WaitsFor(r, q) ==
  /\ q \notin {NoReq, r}
  /\ \/ pc[r] = "edge" /\ Adds(r) /\ Exists(r) /\ edgeLock[Edge(r)] = q
     \/ pc[r] = "lock" /\ edge[Edge(r)] = seen[r] /\ edgeLock[Edge(r)] = q
     \/ pc[r] = "count" /\ rowLock[Target(r)] = q

\* Unlike follows, likes and collections never deadlock, though they share a
\* post's row: the row is the last thing a transaction locks.
NoDeadlock ==
  \A S \in (SUBSET Requests) \ {{}} : \E r \in S : \A q \in S : ~WaitsFor(r, q)
=============================================================================
