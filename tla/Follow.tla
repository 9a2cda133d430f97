------------------------------- MODULE Follow --------------------------------
(***************************************************************************)
(* FollowService.Follow (internal/service/follow_service.go) over the      *)
(* tables users and user_follows.  Each call runs one PostgreSQL            *)
(* transaction at READ COMMITTED; an action of this module is one           *)
(* statement of that transaction.  Written rows stay locked until the       *)
(* transaction ends; a statement that meets a locked row waits, and then    *)
(* works on the newest committed version of it.                             *)
(***************************************************************************)
EXTENDS Integers, FiniteSets

CONSTANTS
  Users,      \* uids that have a row in users (rows are never deleted)
  Uids,       \* uids a request may name, Users among them
  Requests,   \* the Follow calls of a behaviour, one transaction each
  CallSpace,  \* the calls a client may make
  NoReq       \* the holder of a free lock, the inserter of an absent row

Actions == {"ADD", "REMOVE", "OTHER"}

ASSUME UsersAreUids == Users \subseteq Uids /\ IsFiniteSet(Uids)
ASSUME CallsTyped ==
  CallSpace \subseteq [follower : Users, followee : Uids, action : Actions]
ASSUME NoReqIsNone == NoReq \notin Requests

VARIABLES
  call,            \* call[r]: the authenticated caller, req.Uid and req.Action
  pc,              \* the statement r runs next
  seen,            \* the row version the snapshot of r's DELETE shows
  gotFollowing,    \* Follow's local followingCount (RETURNING or SELECT)
  gotFollowers,    \* Follow's local followersCount
  staged,          \* requests with an uncommitted row in river_job
  row,             \* row[p]: who inserted the committed edge p, or NoReq
  followingCount,  \* users.following_count, committed
  followersCount,  \* users.followers_count, committed
  jobs,            \* committed inbox_follow jobs, named by their request
  edgeLock,        \* who has an uncommitted insert or delete of an edge
  userLock         \* who has an uncommitted update of a users row

tx     == <<pc, seen, gotFollowing, gotFollowers, staged>>
tables == <<row, followingCount, followersCount, jobs>>
locks  == <<edgeLock, userLock>>
vars   == <<call, tx, tables, locks>>

Pairs   == Uids \X Uids
Holders == Requests \union {NoReq}
Stages  == {"idle", "edge", "lock", "following", "followers",
            "enqueue", "commit", "read", "done", "failed"}

Pair(r)    == <<call[r].follower, call[r].followee>>
Adds(r)    == call[r].action = "ADD"
Removes(r) == call[r].action = "REMOVE"
Ended(r)   == pc[r] \in {"done", "failed"}
Free(l)    == l = NoReq

\* GREATEST(n - 1, 0)
Decremented(n) == IF n > 0 THEN n - 1 ELSE 0
\* Plausible bug: increment and decrement exchanged.
CountedSwapped(r, n) == IF Adds(r) THEN n - 1 ELSE n + 1
Counted(r, n)  == IF Adds(r) THEN n + 1 ELSE Decremented(n)

Goto(r, stage) == pc' = [pc EXCEPT ![r] = stage]

Init ==
  /\ call \in [Requests -> CallSpace]
  /\ pc = [r \in Requests |-> "idle"]
  /\ seen = [r \in Requests |-> NoReq]
  /\ gotFollowing = [r \in Requests |-> 0]
  /\ gotFollowers = [r \in Requests |-> 0]
  /\ staged = {}
  /\ row = [p \in Pairs |-> NoReq]
  /\ followingCount = [u \in Users |-> 0]
  /\ followersCount = [u \in Users |-> 0]
  /\ jobs = {}
  /\ edgeLock = [p \in Pairs |-> NoReq]
  /\ userLock = [u \in Users |-> NoReq]

-----------------------------------------------------------------------------
\* The call arrives: following oneself is refused before the transaction, an
\* action that is neither ADD nor REMOVE by the default branch inside it.
Receive(r) ==
  /\ pc[r] = "idle"
  /\ IF call[r].follower = call[r].followee \/ ~(Adds(r) \/ Removes(r))
       THEN Goto(r, "failed")
       ELSE Goto(r, "edge")
  /\ UNCHANGED <<call, seen, gotFollowing, gotFollowers, staged, tables, locks>>

\* INSERT ... ON CONFLICT DO NOTHING waits for an uncommitted insert or delete
\* of the same key; then it inserts, or affects no row.
InsertFollowEdge(r) ==
  /\ pc[r] = "edge" /\ Adds(r)
  /\ Free(edgeLock[Pair(r)])
  /\ IF row[Pair(r)] = NoReq
       THEN edgeLock' = [edgeLock EXCEPT ![Pair(r)] = r] /\ Goto(r, "following")
       ELSE UNCHANGED edgeLock /\ Goto(r, "read")
  /\ UNCHANGED <<call, seen, gotFollowing, gotFollowers, staged, tables, userLock>>

\* Plausible bug: affected is not looked at.
DeleteAlwaysAffects(r) ==
  /\ pc[r] = "edge" /\ Removes(r)
  /\ seen' = [seen EXCEPT ![r] = row[Pair(r)]]
  /\ Goto(r, "lock")
  /\ UNCHANGED <<call, gotFollowing, gotFollowers, staged, tables, locks>>

\* DELETE sees the committed row of its snapshot, or none: an insert still
\* uncommitted is invisible and is not waited for.
DeleteFollowEdge(r) ==
  /\ pc[r] = "edge" /\ Removes(r)
  /\ seen' = [seen EXCEPT ![r] = row[Pair(r)]]
  /\ IF row[Pair(r)] = NoReq THEN Goto(r, "read") ELSE Goto(r, "lock")
  /\ UNCHANGED <<call, gotFollowing, gotFollowers, staged, tables, locks>>

\* The row of the snapshot is gone: the DELETE affects no row, even when
\* another row with the same key has been committed since.
DeleteFindsRowGone(r) ==
  /\ pc[r] = "lock"
  /\ row[Pair(r)] # seen[r]
  /\ Goto(r, "read")
  /\ UNCHANGED <<call, seen, gotFollowing, gotFollowers, staged, tables, locks>>

DeleteLocksRow(r) ==
  /\ pc[r] = "lock"
  /\ row[Pair(r)] = seen[r]
  /\ Free(edgeLock[Pair(r)])
  /\ edgeLock' = [edgeLock EXCEPT ![Pair(r)] = r]
  /\ Goto(r, "following")
  /\ UNCHANGED <<call, seen, gotFollowing, gotFollowers, staged, tables, userLock>>

\* Plausible bug: the count is read without the row's lock and written back.
ReadModifyWrite(r) ==
  /\ pc[r] = "following"
  /\ gotFollowing' =
       [gotFollowing EXCEPT ![r] = Counted(r, followingCount[call[r].follower])]
  /\ Goto(r, "followers")
  /\ UNCHANGED <<call, seen, gotFollowers, staged, tables, locks>>

\* Plausible bug: the followee's row is taken first.
FolloweeRowFirst(r) ==
  /\ pc[r] = "following"
  /\ call[r].followee \in Users /\ Free(userLock[call[r].followee])
  /\ userLock' = [userLock EXCEPT ![call[r].followee] = r]
  /\ Goto(r, "followers")
  /\ UNCHANGED <<call, seen, gotFollowing, gotFollowers, staged, tables, edgeLock>>

\* Increment/DecrementFollowingCount: UPDATE users ... RETURNING.
UpdateFollowingCount(r) ==
  /\ pc[r] = "following"
  /\ Free(userLock[call[r].follower])
  /\ userLock' = [userLock EXCEPT ![call[r].follower] = r]
  /\ gotFollowing' =
       [gotFollowing EXCEPT ![r] = Counted(r, followingCount[call[r].follower])]
  /\ Goto(r, "followers")
  /\ UNCHANGED <<call, seen, gotFollowers, staged, tables, edgeLock>>

\* Plausible bug: :exec for :one, an UPDATE of no row is no error.
UpdateOfNoRowPasses(r) ==
  /\ pc[r] = "followers"
  /\ call[r].followee \in Users => Free(userLock[call[r].followee])
  /\ userLock' = [u \in Users |-> IF u = call[r].followee THEN r ELSE userLock[u]]
  /\ gotFollowers' = [gotFollowers EXCEPT ![r] =
       IF call[r].followee \in Users
         THEN Counted(r, followersCount[call[r].followee]) ELSE 0]
  /\ Goto(r, IF Adds(r) THEN "enqueue" ELSE "commit")
  /\ UNCHANGED <<call, seen, gotFollowing, staged, tables, edgeLock>>

\* Increment/DecrementFollowersCount, when the followee has a row.
UpdateFollowersCount(r) ==
  /\ pc[r] = "followers"
  /\ call[r].followee \in Users
  /\ Free(userLock[call[r].followee])
  /\ userLock' = [userLock EXCEPT ![call[r].followee] = r]
  /\ gotFollowers' =
       [gotFollowers EXCEPT ![r] = Counted(r, followersCount[call[r].followee])]
  /\ Goto(r, IF Adds(r) THEN "enqueue" ELSE "commit")
  /\ UNCHANGED <<call, seen, gotFollowing, staged, tables, edgeLock>>

\* Plausible bug: the job is inserted outside the transaction.
EnqueueOutsideTx(r) ==
  /\ pc[r] = "enqueue"
  /\ jobs' = jobs \union {r}
  /\ Goto(r, "commit")
  /\ UNCHANGED <<call, seen, gotFollowing, gotFollowers, staged, row,
                 followingCount, followersCount, locks>>

\* EnqueueFollowInboxTx inserts the job in the same transaction.
EnqueueFollowInboxTx(r) ==
  /\ pc[r] = "enqueue"
  /\ staged' = staged \union {r}
  /\ Goto(r, "commit")
  /\ UNCHANGED <<call, seen, gotFollowing, gotFollowers, tables, locks>>

\* Plausible bug: the two uids of the query exchanged.
CountsExchanged(r) ==
  /\ pc[r] = "read"
  /\ call[r].followee \in Users
  /\ gotFollowing' = [gotFollowing EXCEPT ![r] = followingCount[call[r].followee]]
  /\ gotFollowers' = [gotFollowers EXCEPT ![r] = followersCount[call[r].follower]]
  /\ Goto(r, "done")
  /\ UNCHANGED <<call, seen, staged, tables, locks>>

\* GetFollowCounts, the affected = 0 path; both counts come from one snapshot.
\* Committing a transaction that wrote nothing changes nothing.
GetFollowCounts(r) ==
  /\ pc[r] = "read"
  /\ call[r].followee \in Users
  /\ gotFollowing' = [gotFollowing EXCEPT ![r] = followingCount[call[r].follower]]
  /\ gotFollowers' = [gotFollowers EXCEPT ![r] = followersCount[call[r].followee]]
  /\ Goto(r, "done")
  /\ UNCHANGED <<call, seen, staged, tables, locks>>

Release(r) ==
  /\ edgeLock' = [p \in Pairs |-> IF edgeLock[p] = r THEN NoReq ELSE edgeLock[p]]
  /\ userLock' = [u \in Users |-> IF userLock[u] = r THEN NoReq ELSE userLock[u]]

\* The writes of r become visible and its locks are freed; the answer reaches
\* the client, or the connection breaks and the call ends in an error.
Commit(r) ==
  /\ pc[r] = "commit"
  /\ row' = [row EXCEPT ![Pair(r)] = IF Adds(r) THEN r ELSE NoReq]
  /\ followingCount' = [followingCount EXCEPT ![call[r].follower] = gotFollowing[r]]
  /\ followersCount' = [followersCount EXCEPT ![call[r].followee] = gotFollowers[r]]
  /\ jobs' = jobs \union (staged \intersect {r})
  /\ staged' = staged \ {r}
  /\ Release(r)
  /\ Goto(r, "done") \/ Goto(r, "failed")
  /\ UNCHANGED <<call, seen, gotFollowing, gotFollowers>>

InTransaction(r) == pc[r] \notin {"idle", "done", "failed"}

\* Plausible bug: an error path that forgets the transaction.
RollbackForgotten(r) ==
  /\ InTransaction(r)
  /\ Goto(r, "failed")
  /\ UNCHANGED <<call, seen, gotFollowing, gotFollowers, staged, tables, locks>>

\* BeginFunc rolls back when the closure returns an error.
Rollback(r) ==
  /\ InTransaction(r)
  /\ Goto(r, "failed")
  /\ staged' = staged \ {r}
  /\ Release(r)
  /\ UNCHANGED <<call, seen, gotFollowing, gotFollowers, tables>>

\* No users row for the followee: UPDATE ... RETURNING yields ErrNoRows, and
\* GetFollowCounts a NULL that does not scan into an int32.
NoSuchFollowee(r) ==
  /\ pc[r] \in {"followers", "read"}
  /\ call[r].followee \notin Users
  /\ Rollback(r)

\* The transaction r is waiting for, if any.
WaitsFor(r, q) ==
  /\ q # NoReq
  /\ \/ pc[r] = "edge" /\ Adds(r) /\ edgeLock[Pair(r)] = q
     \/ pc[r] = "lock" /\ row[Pair(r)] = seen[r] /\ edgeLock[Pair(r)] = q
     \/ pc[r] = "following" /\ userLock[call[r].follower] = q
     \/ pc[r] = "followers" /\ call[r].followee \in Users
                            /\ userLock[call[r].followee] = q

\* Everyone in S waits for someone in S.
Deadlocked(S) == S # {} /\ \A r \in S : \E q \in S : WaitsFor(r, q)

\* A deadlock with no smaller deadlock in it: one cycle of waits.
WaitCycle(S) ==
  Deadlocked(S) /\ \A T \in SUBSET S : Deadlocked(T) => T = S

\* PostgreSQL's deadlock detector cancels one transaction of a cycle.
DeadlockVictim(r) ==
  /\ \E S \in SUBSET Requests : r \in S /\ WaitCycle(S)
  /\ Rollback(r)

\* What the server and the database do for r on their own.
Statement(r) ==
  \/ InsertFollowEdge(r)
  \/ DeleteFollowEdge(r) \/ DeleteFindsRowGone(r) \/ DeleteLocksRow(r)
  \/ UpdateFollowingCount(r) \/ UpdateFollowersCount(r)
  \/ EnqueueFollowInboxTx(r) \/ GetFollowCounts(r)
  \/ Commit(r) \/ NoSuchFollowee(r) \/ DeadlockVictim(r)

\* Rollback(r) on its own: a cancelled request, a broken connection, a crash.
Next == \E r \in Requests : Receive(r) \/ Statement(r) \/ Rollback(r)

\* Every statement that can run eventually runs, and a deadlock is detected;
\* no client is obliged to call, nor any connection to break.
Fairness == \A r \in Requests : WF_vars(Statement(r))

Spec     == Init /\ [][Next]_vars
FairSpec == Spec /\ Fairness
-----------------------------------------------------------------------------
Edges        == {p \in Pairs : row[p] # NoReq}
Following(u) == {p \in Edges : p[1] = u}
Followers(u) == {p \in Edges : p[2] = u}

TypeOK ==
  /\ call \in [Requests -> CallSpace]
  /\ pc \in [Requests -> Stages]
  /\ seen \in [Requests -> Holders]
  /\ gotFollowing \in [Requests -> Nat]
  /\ gotFollowers \in [Requests -> Nat]
  /\ staged \in SUBSET Requests
  /\ row \in [Pairs -> Holders]
  /\ followingCount \in [Users -> Nat]
  /\ followersCount \in [Users -> Nat]
  /\ jobs \in SUBSET Requests
  /\ edgeLock \in [Pairs -> Holders]
  /\ userLock \in [Users -> Holders]

\* The cached counters of every users row are the sizes of the two sides of
\* the committed relation, whatever calls interleave, fail or roll back: the
\* increments and decrements are relative to the newest committed row.
CountsMatchEdges ==
  \A u \in Users :
    /\ followingCount[u] = Cardinality(Following(u))
    /\ followersCount[u] = Cardinality(Followers(u))

\* An edge to a uid that has no users row is never committed, although
\* user_follows has no foreign key: the second counter update rejects it.
EdgesJoinUsers == \A p \in Edges : p[1] \in Users /\ p[2] \in Users /\ p[1] # p[2]

\* GREATEST(n - 1, 0) never hides a wrong counter: a transaction about to
\* decrement a counter has the row of its edge, so the counter is positive.
ClampNeverBites ==
  \A r \in Requests : Removes(r) =>
    /\ pc[r] = "following" => followingCount[call[r].follower] > 0
    /\ pc[r] = "followers" /\ call[r].followee \in Users
         => followersCount[call[r].followee] > 0

\* The transactional outbox: a step commits a new edge exactly when it commits
\* the inbox job of the request that inserted it, and jobs are never withdrawn.
OutboxFollowsEdges ==
  [][ /\ jobs \subseteq jobs'
      /\ jobs' \ jobs =
           {r \in Requests : row'[Pair(r)] = r /\ row[Pair(r)] # r} ]_vars

\* Waiting calls deadlock only when their follows form a cycle (A follows B
\* while B follows A, or longer): each holds its follower's row and waits for
\* its followee's, which is the next one's follower.  The edge keys never
\* take part.
DeadlockIsFollowCycle ==
  \A S \in SUBSET Requests : WaitCycle(S) =>
    \A r \in S :
      /\ pc[r] = "followers"
      /\ userLock[call[r].follower] = r
      /\ \E q \in S \ {r} : call[q].follower = call[r].followee

\* Every call that begins is answered, or ends in an error.
EveryCallEnds == \A r \in Requests : pc[r] = "edge" ~> Ended(r)

\* What a call looks like without transactions: it takes effect at its commit;
\* a DELETE whose row was deleted behind its back is settled by the commit that
\* deleted it.
Status == [r \in Requests |->
  CASE pc[r] \in {"idle", "done", "failed"} -> pc[r]
    [] pc[r] = "read" \/ (pc[r] = "lock" /\ row[Pair(r)] # seen[r]) -> "settled"
    [] OTHER -> "open"]

NoAnswer == <<>>
Answer == [r \in Requests |->
  IF pc[r] = "done" THEN <<gotFollowing[r], gotFollowers[r]>> ELSE NoAnswer]

\* Follow keeps the promise of FollowAbs: a call that writes takes effect, with
\* its job and its answer, in one step.
Promise == INSTANCE FollowAbs WITH
  edges <- Edges, announced <- jobs, status <- Status, answer <- Answer

ImplementsPromise == Promise!Spec
=============================================================================
