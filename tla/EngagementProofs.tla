-------------------------- MODULE EngagementProofs ---------------------------
(***************************************************************************)
(* Likes and collections for every set of users, posts, comments and calls. *)
(*                                                                         *)
(* As in FollowProofs, a transaction commits a number it computed earlier;  *)
(* IInv says that it is still right, for the row it was computed from has   *)
(* been locked ever since.  It also says which transactions hold which      *)
(* locks: an edge is locked before the row, and nothing after the row.      *)
(***************************************************************************)
EXTENDS Engagement, FiniteSetTheorems, TLAPS

\* The statements after the write of the edge, and after that of the row.
WroteEdge == {"count", "enqueue", "commit"}
WroteRow  == {"enqueue", "commit"}

\* Whoever holds a lock is a transaction that has written what it locks.
LocksAreHeld ==
  /\ \A e \in Edges : edgeLock[e] # NoReq =>
       pc[edgeLock[e]] \in WroteEdge /\ Edge(edgeLock[e]) = e
  /\ \A x \in Rows : rowLock[x] # NoReq =>
       pc[rowLock[x]] \in WroteRow /\ Target(rowLock[x]) = x

HoldsEdge(r) ==
  pc[r] \in WroteEdge =>
    edgeLock[Edge(r)] = r /\ (edge[Edge(r)] = NoReq <=> Adds(r))

HoldsRow(r) ==
  pc[r] \in WroteRow =>
    rowLock[Target(r)] = r /\ got[r] = Counted(r, count[Counter(r)])

\* What the statements so far have established of the call.
Sound(r) ==
  /\ pc[r] = "edge" => Adds(r) \/ Removes(r)
  /\ pc[r] = "lock" => Removes(r) /\ seen[r] # NoReq
  /\ pc[r] \in WroteEdge \union {"lock"} => Exists(r)
  /\ pc[r] = "enqueue" => OnPost(r)

\* A job is staged by the last statement before the commit, and kept by it.
Outbox(r) ==
  /\ r \in staged <=> pc[r] = "commit" /\ OnPost(r)
  /\ r \in jobs => Ended(r)

Good(r) == HoldsEdge(r) /\ HoldsRow(r) /\ Sound(r) /\ Outbox(r)

IInv == TypeOK /\ LocksAreHeld /\ (\A r \in Requests : Good(r)) /\ CountsMatchEdges
-----------------------------------------------------------------------------
\* The edges of one counter are finitely many, for the users are.
LEMMA CountsFinite ==
  ASSUME NEW c \in Counters PROVE IsFiniteSet(Counts(c)) /\ Counts(c) \subseteq Edges
<1> DEFINE f == [u \in Users |-> <<c[1], u, c[2]>>]
<1>1. Counts(c) \subseteq {f[u] : u \in Users}
  BY DEF Counts, Edges, Counters
<1>2. f \in Surjection(Users, {f[u] : u \in Users})
  BY DEF Surjection
<1>3. IsFiniteSet({f[u] : u \in Users})
  BY <1>2, UsersFinite, FS_Surjection
<1> QED BY <1>1, <1>3, FS_Subset DEF Counts

\* What the constants say of a call.
LEMMA CallType ==
  ASSUME TypeOK, NEW r \in Requests
  PROVE  /\ r # NoReq
         /\ Exists(r) => Edge(r) \in Edges /\ Counter(r) \in Counters /\ Target(r) \in Rows
BY CallsTyped, NoReqIsNone
DEF TypeOK, Exists, Edge, Counter, Target, Edges, Counters, Rows, Referred

LEMMA InitIInv == Init => IInv
<1> SUFFICES ASSUME Init PROVE IInv
  OBVIOUS
<1>1. TypeOK
  BY DEF Init, TypeOK, Holders, Stages
<1>2. LocksAreHeld
  BY DEF Init, LocksAreHeld
<1>3. \A r \in Requests : Good(r)
  BY DEF Init, Good, HoldsEdge, HoldsRow, Sound, Outbox, WroteEdge, WroteRow
<1>4. \A c \in Counters : Counts(c) = {}
  BY DEF Init, Counts
<1> QED BY <1>1, <1>2, <1>3, <1>4, FS_EmptySet DEF IInv, CountsMatchEdges, Init

-----------------------------------------------------------------------------
(***************************************************************************)
(* What a step of r leaves to the transaction of another call q.            *)
(***************************************************************************)

LEMMA OthersStayGood ==
  ASSUME NEW q \in Requests, Good(q), call' = call,
         pc'[q] = pc[q], seen'[q] = seen[q], got'[q] = got[q],
         q \in staged' <=> q \in staged, q \in jobs' <=> q \in jobs,
         pc[q] \in WroteEdge => edgeLock'[Edge(q)] = q /\ edge'[Edge(q)] = edge[Edge(q)],
         pc[q] \in WroteRow  => rowLock'[Target(q)] = q /\ count'[Counter(q)] = count[Counter(q)]
  PROVE  Good(q)'
<1>1. /\ Edge(q)' = Edge(q) /\ Target(q)' = Target(q) /\ Counter(q)' = Counter(q)
      /\ (Exists(q)' <=> Exists(q)) /\ (OnPost(q)' <=> OnPost(q))
      /\ (Adds(q)' <=> Adds(q)) /\ (Removes(q)' <=> Removes(q)) /\ (Ended(q)' <=> Ended(q))
  BY DEF Edge, Target, Counter, Exists, OnPost, Adds, Removes, Ended
<1>2. HoldsEdge(q)'
  BY <1>1 DEF Good, HoldsEdge
<1>3. HoldsRow(q)'
  BY <1>1 DEF Good, HoldsRow, Counted
<1>4. Sound(q)' /\ Outbox(q)'
  BY <1>1 DEF Good, Sound, Outbox
<1> QED BY <1>2, <1>3, <1>4 DEF Good

\* A step of r that touches no edge, no count and no lock.
LEMMA LocalStep ==
  ASSUME IInv, TypeOK', NEW r \in Requests, NEW to \in Stages,
         Goto(r, to), UNCHANGED <<call, edge, count, jobs, locks>>,
         \A q \in Requests \ {r} :
           got'[q] = got[q] /\ seen'[q] = seen[q] /\ (q \in staged' <=> q \in staged),
         \/ pc[r] \notin WroteEdge /\ to \notin WroteEdge
         \/ pc[r] = "enqueue" /\ to = "commit" /\ got'[r] = got[r],
         Sound(r)', Outbox(r)'
  PROVE  IInv'
<1>1. \A q \in Requests : pc'[q] = IF q = r THEN to ELSE pc[q]
  BY DEF Goto, IInv, TypeOK
<1>2. LocksAreHeld'
  <2>1. \A q \in Requests : Edge(q)' = Edge(q) /\ Target(q)' = Target(q)
    BY DEF Edge, Target
  <2>2. \A q \in Requests : /\ pc[q] \in WroteEdge => pc'[q] \in WroteEdge
                            /\ pc[q] \in WroteRow => pc'[q] \in WroteRow
    BY <1>1 DEF WroteEdge, WroteRow
  <2> QED BY <2>1, <2>2 DEF IInv, TypeOK, LocksAreHeld, Holders, locks
<1>3. ASSUME NEW q \in Requests PROVE Good(q)'
  <2>1. Good(q)
    BY DEF IInv
  <2>2. CASE q # r
    BY <2>1, <2>2, <1>1, OthersStayGood DEF locks, Good, HoldsEdge, HoldsRow
  <2>3. CASE q = r
    BY <2>1, <2>3, <1>1 DEF Good, HoldsEdge, HoldsRow, locks, Edge, Target, Counter, Adds,
       Counted, WroteEdge, WroteRow
  <2> QED BY <2>2, <2>3
<1>4. CountsMatchEdges'
  BY DEF IInv, CountsMatchEdges, Counts
<1> QED BY <1>2, <1>3, <1>4 DEF IInv

\* The write of the edge takes its lock.
LEMMA EdgeStep ==
  ASSUME IInv, TypeOK', NEW r \in Requests, Exists(r),
         pc[r] \in {"edge", "lock"}, Goto(r, "count"),
         Free(edgeLock[Edge(r)]), edgeLock' = [edgeLock EXCEPT ![Edge(r)] = r],
         edge[Edge(r)] = NoReq <=> Adds(r),
         UNCHANGED <<call, seen, got, staged, store, rowLock>>
  PROVE  IInv'
<1>0. Edge(r) \in Edges /\ r # NoReq
  BY CallType DEF IInv
<1>1. \A q \in Requests : pc'[q] = IF q = r THEN "count" ELSE pc[q]
  BY DEF Goto, IInv, TypeOK
<1>2. \A e \in Edges : edgeLock'[e] = IF e = Edge(r) THEN r ELSE edgeLock[e]
  BY DEF IInv, TypeOK
<1>3. \A q \in Requests : Edge(q)' = Edge(q) /\ Target(q)' = Target(q)
  BY DEF Edge, Target
<1>4. LocksAreHeld'
  <2>1. ASSUME NEW e \in Edges, edgeLock'[e] # NoReq
        PROVE  pc'[edgeLock'[e]] \in WroteEdge /\ Edge(edgeLock[e])' = e
    <3>1. CASE e = Edge(r)
      BY <3>1, <1>0, <1>1, <1>2, <1>3 DEF WroteEdge
    <3>2. CASE e # Edge(r)
      <4>1. edgeLock'[e] = edgeLock[e] /\ edgeLock[e] \in Requests
        BY <2>1, <3>2, <1>2 DEF IInv, TypeOK, Holders
      <4> QED BY <4>1, <1>1, <1>3, NoReqIsNone DEF IInv, LocksAreHeld, WroteEdge
    <3> QED BY <3>1, <3>2
  <2>2. ASSUME NEW x \in Rows, rowLock'[x] # NoReq
        PROVE  pc'[rowLock'[x]] \in WroteRow /\ Target(rowLock[x])' = x
    <3>1. rowLock'[x] = rowLock[x] /\ rowLock[x] \in Requests
      BY <2>2 DEF IInv, TypeOK, Holders
    <3>2. pc[rowLock[x]] \in WroteRow /\ Target(rowLock[x]) = x
      BY <3>1, NoReqIsNone DEF IInv, LocksAreHeld
    <3>3. rowLock[x] # r
      BY <3>2 DEF WroteRow
    <3> QED BY <3>1, <3>2, <3>3, <1>1, <1>3
  <2> QED BY <2>1, <2>2 DEF LocksAreHeld
<1>5. ASSUME NEW q \in Requests PROVE Good(q)'
  <2>1. Good(q)
    BY DEF IInv
  <2>2. CASE q # r
    <3>1. pc[q] \in WroteEdge => Edge(q) \in Edges /\ Edge(q) # Edge(r)
      BY <2>1, <2>2, CallType, NoReqIsNone DEF IInv, Good, HoldsEdge, Sound, Free
    <3> QED BY <2>1, <2>2, <3>1, <1>1, <1>2, OthersStayGood
         DEF store, Good, HoldsEdge, HoldsRow
  <2>3. CASE q = r
    <3>1. pc'[r] = "count" /\ edgeLock'[Edge(r)] = r
      BY <1>0, <1>1, <1>2
    <3>2. /\ (r \in staged <=> pc[r] = "commit" /\ OnPost(r))
          /\ r \in jobs => Ended(r)
      BY <2>1, <2>3 DEF Good, Outbox
    <3>3. HoldsEdge(r)' /\ HoldsRow(r)'
      BY <3>1 DEF HoldsEdge, HoldsRow, WroteRow, Edge, Target, Adds, store
    <3>4. Sound(r)' /\ Outbox(r)'
      BY <3>1, <3>2 DEF Sound, Outbox, Exists, Target, Ended, store
    <3> QED BY <2>3, <3>3, <3>4 DEF Good
  <2> QED BY <2>2, <2>3
<1>6. CountsMatchEdges'
  BY DEF IInv, CountsMatchEdges, Counts, store
<1> QED BY <1>4, <1>5, <1>6 DEF IInv

\* The write of the row takes its lock, and computes a value from it.
LEMMA RowStep ==
  ASSUME IInv, TypeOK', NEW r \in Requests, UpdateCount(r)
  PROVE  IInv'
<1>0. Good(r) /\ Target(r) \in Rows /\ Counter(r) \in Counters /\ r # NoReq
  BY CallType DEF IInv, UpdateCount, Good, Sound, WroteEdge
<1>1. /\ \A q \in Requests :
           pc'[q] = IF q = r THEN (IF OnPost(r) THEN "enqueue" ELSE "commit") ELSE pc[q]
      /\ \A q \in Requests : got'[q] = IF q = r THEN Counted(r, count[Counter(r)]) ELSE got[q]
      /\ \A x \in Rows : rowLock'[x] = IF x = Target(r) THEN r ELSE rowLock[x]
  BY DEF UpdateCount, Goto, IInv, TypeOK
<1>2. \A q \in Requests : Edge(q)' = Edge(q) /\ Target(q)' = Target(q)
  BY DEF UpdateCount, Edge, Target
\* r has no lock of the row yet, so nobody has.
<1>3. rowLock[Target(r)] = NoReq
  BY <1>0 DEF UpdateCount, IInv, LocksAreHeld, WroteRow
<1>4. LocksAreHeld'
  <2>1. ASSUME NEW e \in Edges, edgeLock'[e] # NoReq
        PROVE  pc'[edgeLock'[e]] \in WroteEdge /\ Edge(edgeLock[e])' = e
    <3>1. edgeLock'[e] = edgeLock[e] /\ edgeLock[e] \in Requests
      BY <2>1 DEF UpdateCount, IInv, TypeOK, Holders
    <3> QED BY <3>1, <1>1, <1>2, NoReqIsNone DEF IInv, LocksAreHeld, WroteEdge
  <2>2. ASSUME NEW x \in Rows, rowLock'[x] # NoReq
        PROVE  pc'[rowLock'[x]] \in WroteRow /\ Target(rowLock[x])' = x
    <3>1. CASE x = Target(r)
      BY <3>1, <1>0, <1>1, <1>2 DEF WroteRow
    <3>2. CASE x # Target(r)
      <4>1. rowLock'[x] = rowLock[x] /\ rowLock[x] \in Requests
        BY <2>2, <3>2, <1>1 DEF IInv, TypeOK, Holders
      <4> QED BY <4>1, <1>1, <1>2, NoReqIsNone DEF IInv, LocksAreHeld, WroteRow
    <3> QED BY <3>1, <3>2
  <2> QED BY <2>1, <2>2 DEF LocksAreHeld
<1>5. ASSUME NEW q \in Requests PROVE Good(q)'
  <2>1. Good(q)
    BY DEF IInv
  <2>2. CASE q # r
    <3>1. pc[q] \in WroteRow => Target(q) \in Rows /\ Target(q) # Target(r)
      BY <2>1, <1>3, CallType, NoReqIsNone DEF IInv, Good, HoldsRow, Sound, WroteEdge, WroteRow
    <3> QED BY <2>1, <2>2, <3>1, <1>1, OthersStayGood
         DEF UpdateCount, store, Good, HoldsEdge, HoldsRow
  <2>3. CASE q = r
    <3>1. pc[r] = "count" /\ pc'[r] = (IF OnPost(r) THEN "enqueue" ELSE "commit")
          /\ pc'[r] \in WroteRow /\ rowLock'[Target(r)] = r
      BY <1>0, <1>1 DEF UpdateCount, WroteRow
    <3>2. HoldsEdge(r)'
      BY <1>0, <1>2, <3>1 DEF Good, HoldsEdge, UpdateCount, store, WroteEdge, Adds
    <3>3. HoldsRow(r)'
      BY <1>1, <3>1 DEF HoldsRow, UpdateCount, store, Target, Counter, Counted, Adds
    <3>4. Sound(r)'
      BY <1>0, <3>1 DEF Good, Sound, UpdateCount, WroteEdge, Exists, Target, OnPost
    <3>5. r \notin staged /\ r \notin jobs /\ UNCHANGED <<staged, jobs>>
      BY <1>0, <3>1 DEF Good, Outbox, Ended, UpdateCount, store
    <3>6. Outbox(r)'
      BY <3>1, <3>5 DEF Outbox, OnPost, UpdateCount
    <3> QED BY <2>3, <3>2, <3>3, <3>4, <3>6 DEF Good
  <2> QED BY <2>2, <2>3
<1>6. CountsMatchEdges'
  BY DEF IInv, CountsMatchEdges, Counts, UpdateCount, store
<1> QED BY <1>4, <1>5, <1>6 DEF IInv

\* When r ends, its locks are freed and the others keep theirs.
LEMMA ReleaseStep ==
  ASSUME IInv, TypeOK', NEW r \in Requests, NEW end \in {"done", "failed"},
         Goto(r, end), Release(r), UNCHANGED call
  PROVE  LocksAreHeld'
<1>1. \A q \in Requests : pc'[q] = IF q = r THEN end ELSE pc[q]
  BY DEF Goto, IInv, TypeOK
<1>2. \A q \in Requests : Edge(q)' = Edge(q) /\ Target(q)' = Target(q)
  BY DEF Edge, Target
<1>3. ASSUME NEW e \in Edges, edgeLock'[e] # NoReq
      PROVE  pc'[edgeLock'[e]] \in WroteEdge /\ Edge(edgeLock[e])' = e /\ edgeLock'[e] = edgeLock[e]
  <2>1. edgeLock'[e] = edgeLock[e] /\ edgeLock[e] \in Requests /\ edgeLock[e] # r
    BY <1>3 DEF Release, IInv, TypeOK, Holders
  <2> QED BY <2>1, <1>1, <1>2, NoReqIsNone DEF IInv, LocksAreHeld
<1>4. ASSUME NEW x \in Rows, rowLock'[x] # NoReq
      PROVE  pc'[rowLock'[x]] \in WroteRow /\ Target(rowLock[x])' = x /\ rowLock'[x] = rowLock[x]
  <2>1. rowLock'[x] = rowLock[x] /\ rowLock[x] \in Requests /\ rowLock[x] # r
    BY <1>4 DEF Release, IInv, TypeOK, Holders
  <2> QED BY <2>1, <1>1, <1>2, NoReqIsNone DEF IInv, LocksAreHeld
<1> QED BY <1>3, <1>4 DEF LocksAreHeld

\* The locks of the others when r releases its own.
LEMMA OthersKeepLocks ==
  ASSUME IInv, NEW r \in Requests, Release(r), NEW q \in Requests, q # r
  PROVE  /\ pc[q] \in WroteEdge => edgeLock'[Edge(q)] = q
         /\ pc[q] \in WroteRow  => rowLock'[Target(q)] = q
BY CallType DEF IInv, Good, HoldsEdge, HoldsRow, Sound, Release, WroteEdge, WroteRow

LEMMA RollbackStep ==
  ASSUME IInv, TypeOK', NEW r \in Requests, Rollback(r)
  PROVE  IInv'
<1>1. LocksAreHeld'
  BY ReleaseStep DEF Rollback
<1>2. \A q \in Requests : pc'[q] = IF q = r THEN "failed" ELSE pc[q]
  BY DEF Rollback, Goto, IInv, TypeOK
<1>3. ASSUME NEW q \in Requests PROVE Good(q)'
  <2>1. CASE q # r
    <3>1. Good(q)
      BY DEF IInv
    <3>2. /\ pc[q] \in WroteEdge => edgeLock'[Edge(q)] = q
          /\ pc[q] \in WroteRow  => rowLock'[Target(q)] = q
      BY <2>1, OthersKeepLocks DEF Rollback
    <3> QED BY <2>1, <3>1, <3>2, <1>2, OthersStayGood DEF Rollback, store
  <2>2. CASE q = r
    BY <2>2, <1>2 DEF Rollback, Good, HoldsEdge, HoldsRow, Sound, Outbox, Ended,
       WroteEdge, WroteRow
  <2> QED BY <2>1, <2>2
<1>4. CountsMatchEdges'
  BY DEF IInv, CountsMatchEdges, Counts, Rollback, store
<1> QED BY <1>1, <1>3, <1>4 DEF IInv

-----------------------------------------------------------------------------
\* What a commit publishes.
LEMMA CommitWrites ==
  ASSUME IInv, NEW r \in Requests, Commit(r)
  PROVE  /\ Edge(r) \in Edges /\ Counter(r) \in Counters /\ Target(r) \in Rows
         /\ edge[Edge(r)] = NoReq <=> Adds(r)
         /\ \A e \in Edges :
              edge'[e] = IF e = Edge(r) THEN (IF Adds(r) THEN r ELSE NoReq) ELSE edge[e]
         /\ \A c \in Counters :
              count'[c] = IF c = Counter(r) THEN Counted(r, count[c]) ELSE count[c]
<1>1. Good(r) /\ pc[r] = "commit"
  BY DEF IInv, Commit
<1>2. Edge(r) \in Edges /\ Counter(r) \in Counters /\ Target(r) \in Rows
  BY <1>1, CallType DEF IInv, Good, Sound, WroteEdge
<1>3. got[r] = Counted(r, count[Counter(r)])
  BY <1>1 DEF Good, HoldsRow, WroteRow
<1>4. edge[Edge(r)] = NoReq <=> Adds(r)
  BY <1>1 DEF Good, HoldsEdge, WroteEdge
<1> QED BY <1>2, <1>3, <1>4 DEF Commit, IInv, TypeOK

\* The committed edge is one more, or one less, of its own counter's edges and
\* of no other's.
LEMMA CommitCounts ==
  ASSUME IInv, NEW r \in Requests, Commit(r)
  PROVE  CountsMatchEdges'
<1> SUFFICES ASSUME NEW c \in Counters PROVE count'[c] = Cardinality(Counts(c)')
  BY DEF CountsMatchEdges
<1> DEFINE e == Edge(r)
<1>1. count[c] = Cardinality(Counts(c)) /\ IsFiniteSet(Counts(c)) /\ Counts(c) \subseteq Edges
  BY CountsFinite DEF IInv, CountsMatchEdges
<1>2. Cardinality(Counts(c)) \in Nat
  BY <1>1, FS_CardinalityType
<1>3. r # NoReq
  BY NoReqIsNone
<1>4. c = Counter(r) <=> e[1] = c[1] /\ e[3] = c[2]
  BY DEF Counters, Counter, Edge
<1>5. CASE c # Counter(r)
  <2>1. Counts(c)' = Counts(c)
    BY <1>4, <1>5, CommitWrites DEF Counts
  <2> QED BY <1>1, <1>5, <2>1, CommitWrites
<1>6. CASE c = Counter(r) /\ Adds(r)
  <2>1. Counts(c)' = Counts(c) \union {e} /\ e \notin Counts(c)
    BY <1>3, <1>4, <1>6, CommitWrites DEF Counts
  <2>2. Cardinality(Counts(c)') = Cardinality(Counts(c)) + 1
    BY <1>1, <2>1, FS_AddElement
  <2> QED BY <1>1, <1>6, <2>2, CommitWrites DEF Counted
<1>7. CASE c = Counter(r) /\ ~Adds(r)
  <2>1. Counts(c)' = Counts(c) \ {e} /\ e \in Counts(c)
    BY <1>4, <1>7, CommitWrites DEF Counts
  <2>2. Cardinality(Counts(c)') = Cardinality(Counts(c)) - 1 /\ IsFiniteSet(Counts(c)')
    BY <1>1, <2>1, FS_RemoveElement
  <2>3. Cardinality(Counts(c)') \in Nat
    BY <2>2, FS_CardinalityType
  <2>4. count'[c] = Decremented(count[c])
    BY <1>7, CommitWrites DEF Counted
  <2> QED BY <1>1, <1>2, <2>2, <2>3, <2>4 DEF Decremented
<1> QED BY <1>5, <1>6, <1>7

LEMMA CommitStep ==
  ASSUME IInv, TypeOK', NEW r \in Requests, Commit(r)
  PROVE  IInv'
<1>1. LocksAreHeld'
  BY ReleaseStep DEF Commit
<1>2. PICK end \in {"done", "failed"} :
        \A q \in Requests : pc'[q] = IF q = r THEN end ELSE pc[q]
  BY DEF Commit, Goto, IInv, TypeOK
<1>3. Good(r) /\ pc[r] = "commit"
  BY DEF IInv, Commit
<1>4. ASSUME NEW q \in Requests PROVE Good(q)'
  <2>1. CASE q # r
    <3>1. Good(q)
      BY DEF IInv
    <3>2. /\ pc[q] \in WroteEdge => edgeLock'[Edge(q)] = q
          /\ pc[q] \in WroteRow  => rowLock'[Target(q)] = q
      BY <2>1, OthersKeepLocks DEF Commit
    <3>3. pc[q] \in WroteEdge =>
            Edge(q) \in Edges /\ Edge(q) # Edge(r) /\ edge'[Edge(q)] = edge[Edge(q)]
      BY <1>3, <2>1, <3>1, CallType, CommitWrites DEF IInv, Good, HoldsEdge, Sound, WroteEdge
    <3>4. pc[q] \in WroteRow =>
            Counter(q) \in Counters /\ Target(q) # Target(r)
      BY <1>3, <2>1, <3>1, CallType DEF IInv, Good, HoldsRow, Sound, WroteRow, WroteEdge
    <3>5. pc[q] \in WroteRow => count'[Counter(q)] = count[Counter(q)]
      BY <3>4, CommitWrites DEF Counter
    <3>6. (q \in staged' <=> q \in staged) /\ (q \in jobs' <=> q \in jobs)
      BY <2>1 DEF Commit
    <3> QED BY <2>1, <3>1, <3>2, <3>3, <3>5, <3>6, <1>2, OthersStayGood DEF Commit
  <2>2. CASE q = r
    BY <2>2, <1>2 DEF Commit, Good, HoldsEdge, HoldsRow, Sound, Outbox, Ended,
       WroteEdge, WroteRow
  <2> QED BY <2>1, <2>2
<1> QED BY <1>1, <1>4, CommitCounts DEF IInv

-----------------------------------------------------------------------------
\* Every variable keeps its range.
LEMMA TypeStep ==
  ASSUME TypeOK, \A r \in Requests : Good(r), [Next]_vars PROVE TypeOK'
<1> USE DEF TypeOK
<1>1. ASSUME NEW r \in Requests, NEW n \in Nat PROVE Counted(r, n) \in Nat
  BY DEF Counted, Decremented
<1>2. ASSUME NEW r \in Requests, Exists(r) PROVE count[Counter(r)] \in Nat
  BY <1>2, CallType
<1>3. ASSUME NEW r \in Requests, NEW to \in Stages, Goto(r, to)
      PROVE  pc' \in [Requests -> Stages]
  BY <1>3 DEF Goto
<1>4. Stages = {"idle", "edge", "lock", "count", "enqueue", "read", "commit", "done", "failed"}
  BY DEF Stages
<1>5. ASSUME NEW r \in Requests, Release(r)
      PROVE  edgeLock' \in [Edges -> Holders] /\ rowLock' \in [Rows -> Holders]
  BY <1>5 DEF Release, Holders
<1>6. ASSUME NEW r \in Requests, Receive(r) PROVE TypeOK'
  <2>1. pc' \in [Requests -> Stages]
    BY <1>3, <1>4, <1>6 DEF Receive
  <2> QED BY <2>1, <1>6 DEF Receive, store, locks
<1>7. ASSUME NEW r \in Requests, InsertEdge(r) PROVE TypeOK'
  <2>1. pc' \in [Requests -> Stages]
    BY <1>3, <1>4, <1>7 DEF InsertEdge
  <2>2. edgeLock' \in [Edges -> Holders]
    BY <1>7 DEF InsertEdge, Holders
  <2> QED BY <2>1, <2>2, <1>7 DEF InsertEdge, store
<1>8. ASSUME NEW r \in Requests, DeleteEdge(r) PROVE TypeOK'
  <2>1. pc' \in [Requests -> Stages]
    BY <1>3, <1>4, <1>8 DEF DeleteEdge
  <2>2. seen' \in [Requests -> Holders]
    BY <1>8, CallType DEF DeleteEdge
  <2> QED BY <2>1, <2>2, <1>8 DEF DeleteEdge, store, locks
<1>9. ASSUME NEW r \in Requests, DeleteFindsEdgeGone(r) PROVE TypeOK'
  <2>1. pc' \in [Requests -> Stages]
    BY <1>3, <1>4, <1>9 DEF DeleteFindsEdgeGone
  <2> QED BY <2>1, <1>9 DEF DeleteFindsEdgeGone, store, locks
<1>10. ASSUME NEW r \in Requests, DeleteLocksEdge(r) PROVE TypeOK'
  <2>1. pc' \in [Requests -> Stages]
    BY <1>3, <1>4, <1>10 DEF DeleteLocksEdge
  <2>2. edgeLock' \in [Edges -> Holders]
    BY <1>10 DEF DeleteLocksEdge, Holders
  <2> QED BY <2>1, <2>2, <1>10 DEF DeleteLocksEdge, store
<1>11. ASSUME NEW r \in Requests, UpdateCount(r) PROVE TypeOK'
  <2>1. pc' \in [Requests -> Stages]
    BY <1>3, <1>4, <1>11 DEF UpdateCount
  <2>2. Exists(r)
    BY <1>11 DEF UpdateCount, Good, Sound, WroteEdge
  <2>3. got' \in [Requests -> Nat]
    BY <2>2, <1>1, <1>2, <1>11 DEF UpdateCount
  <2>4. rowLock' \in [Rows -> Holders]
    BY <1>11 DEF UpdateCount, Holders
  <2> QED BY <2>1, <2>3, <2>4, <1>11 DEF UpdateCount, store
<1>12. ASSUME NEW r \in Requests, EnqueueUpdatePostSearchTx(r) PROVE TypeOK'
  <2>1. pc' \in [Requests -> Stages]
    BY <1>3, <1>4, <1>12 DEF EnqueueUpdatePostSearchTx
  <2> QED BY <2>1, <1>12 DEF EnqueueUpdatePostSearchTx, store, locks
<1>13. ASSUME NEW r \in Requests, GetCount(r) PROVE TypeOK'
  <2>1. pc' \in [Requests -> Stages]
    BY <1>3, <1>4, <1>13 DEF GetCount
  <2>2. got' \in [Requests -> Nat]
    BY <1>2, <1>13 DEF GetCount
  <2> QED BY <2>1, <2>2, <1>13 DEF GetCount, store, locks
<1>14. ASSUME NEW r \in Requests, Commit(r) PROVE TypeOK'
  <2>1. pc' \in [Requests -> Stages]
    BY <1>3, <1>4, <1>14 DEF Commit
  <2>2. edge' \in [Edges -> Holders]
    BY <1>14 DEF Commit, Holders
  <2>3. count' \in [Counters -> Nat]
    BY <1>14 DEF Commit
  <2> QED BY <2>1, <2>2, <2>3, <1>5, <1>14 DEF Commit
<1>15. ASSUME NEW r \in Requests, Rollback(r) PROVE TypeOK'
  <2>1. pc' \in [Requests -> Stages]
    BY <1>3, <1>4, <1>15 DEF Rollback
  <2> QED BY <2>1, <1>5, <1>15 DEF Rollback, store
<1>16. CASE UNCHANGED vars
  BY <1>16 DEF vars, local, store, locks
<1> QED
  BY <1>6, <1>7, <1>8, <1>9, <1>10, <1>11, <1>12, <1>13, <1>14, <1>15, <1>16
  DEF Next, Statement, NoSuchRow

\* One step per action: which lemma above covers it.
LEMMA NextIInv == IInv /\ [Next]_vars => IInv'
<1> SUFFICES ASSUME IInv, [Next]_vars PROVE IInv'
  OBVIOUS
<1>0. TypeOK' /\ \A q \in Requests : Good(q)
  BY TypeStep DEF IInv
\* The statements before the edge's write, and after the row's.
<1>1. ASSUME NEW r \in Requests, NEW to \in {"edge", "read", "done", "failed"},
             pc[r] \in {"idle", "edge", "lock", "read"}, Goto(r, to),
             to = "edge" => Adds(r) \/ Removes(r),
             UNCHANGED <<call, seen, staged, store, locks>>,
             \A q \in Requests \ {r} : got'[q] = got[q]
      PROVE  IInv'
  <2>1. pc'[r] = to /\ to \in Stages /\ to \notin WroteEdge
    BY <1>1 DEF Goto, IInv, TypeOK, Stages, WroteEdge
  <2>2. Sound(r)'
    BY <1>1, <2>1 DEF Sound, WroteEdge, Adds, Removes
  <2>3. r \notin staged /\ r \notin jobs
    BY <1>0, <1>1 DEF Good, Outbox, Ended
  <2>4. Outbox(r)'
    BY <1>1, <2>1, <2>3 DEF Outbox, store, WroteEdge
  <2> QED BY <1>0, <1>1, <2>1, <2>2, <2>4, LocalStep DEF WroteEdge, store
<1>2. ASSUME NEW r \in Requests, Receive(r) PROVE IInv'
  <2>1. pc[r] = "idle" /\ UNCHANGED <<call, seen, got, staged, store, locks>>
    BY <1>2 DEF Receive
  <2>2. CASE Adds(r) \/ Removes(r)
    <3>1. Goto(r, "edge")
      BY <1>2, <2>2 DEF Receive
    <3> QED BY <1>1, <2>1, <2>2, <3>1
  <2>3. CASE ~(Adds(r) \/ Removes(r))
    <3>1. Goto(r, "failed")
      BY <1>2, <2>3 DEF Receive
    <3> QED BY <1>1, <2>1, <3>1
  <2> QED BY <2>2, <2>3
<1>3. ASSUME NEW r \in Requests, InsertEdge(r) PROVE IInv'
  <2>1. CASE edge[Edge(r)] = NoReq
    BY <1>0, <1>3, <2>1, EdgeStep DEF InsertEdge
  <2>2. CASE edge[Edge(r)] # NoReq
    BY <1>1, <1>3, <2>2 DEF InsertEdge, WroteEdge, locks
  <2> QED BY <2>1, <2>2
<1>4. ASSUME NEW r \in Requests, DeleteEdge(r) PROVE IInv'
  <2>1. CASE Exists(r) /\ edge[Edge(r)] # NoReq
    <3>1. /\ \A q \in Requests : pc'[q] = IF q = r THEN "lock" ELSE pc[q]
          /\ \A q \in Requests : seen'[q] = IF q = r THEN edge[Edge(r)] ELSE seen[q]
      BY <1>4, <2>1 DEF DeleteEdge, Goto, IInv, TypeOK
    <3>2. Sound(r)'
      BY <1>4, <2>1, <3>1 DEF Sound, DeleteEdge, Removes, Exists, Target, WroteEdge
    <3>3. Outbox(r)'
      BY <1>0, <1>4, <3>1 DEF Good, Outbox, DeleteEdge, Ended, store
    <3>4. /\ Goto(r, "lock") /\ "lock" \in Stages
          /\ pc[r] \notin WroteEdge /\ "lock" \notin WroteEdge
          /\ UNCHANGED <<call, edge, count, jobs, locks>>
          /\ \A q \in Requests \ {r} :
               got'[q] = got[q] /\ seen'[q] = seen[q] /\ (q \in staged' <=> q \in staged)
      BY <1>4, <2>1, <3>1 DEF DeleteEdge, Stages, WroteEdge, store
    <3> QED BY <1>0, <3>2, <3>3, <3>4, LocalStep
  <2>2. CASE ~(Exists(r) /\ edge[Edge(r)] # NoReq)
    BY <1>1, <1>4, <2>2 DEF DeleteEdge, WroteEdge
  <2> QED BY <2>1, <2>2
<1>5. ASSUME NEW r \in Requests, DeleteFindsEdgeGone(r) PROVE IInv'
  BY <1>1, <1>5 DEF DeleteFindsEdgeGone, WroteEdge
<1>6. ASSUME NEW r \in Requests, DeleteLocksEdge(r) PROVE IInv'
  <2>1. Exists(r) /\ ~Adds(r) /\ edge[Edge(r)] # NoReq
    BY <1>0, <1>6 DEF DeleteLocksEdge, Good, Sound, Adds, Removes
  <2> QED BY <1>0, <1>6, <2>1, EdgeStep DEF DeleteLocksEdge
<1>7. ASSUME NEW r \in Requests, UpdateCount(r) PROVE IInv'
  BY <1>0, <1>7, RowStep
<1>8. ASSUME NEW r \in Requests, EnqueueUpdatePostSearchTx(r) PROVE IInv'
  <2>1. pc'[r] = "commit" /\ pc[r] = "enqueue"
    BY <1>8 DEF EnqueueUpdatePostSearchTx, Goto, IInv, TypeOK
  <2>2. Sound(r)'
    BY <1>0, <1>8, <2>1 DEF Good, Sound, EnqueueUpdatePostSearchTx, Exists, Target, WroteEdge
  <2>3. OnPost(r) /\ r \notin jobs
    BY <1>0, <2>1 DEF Good, Sound, Outbox, Ended
  <2>4. Outbox(r)'
    BY <1>8, <2>1, <2>3 DEF Outbox, EnqueueUpdatePostSearchTx, OnPost, store
  <2> QED BY <1>0, <1>8, <2>2, <2>4, LocalStep DEF EnqueueUpdatePostSearchTx, Stages, store
<1>9. ASSUME NEW r \in Requests, GetCount(r) PROVE IInv'
  <2>1. \A q \in Requests \ {r} : got'[q] = got[q]
    BY <1>9 DEF GetCount, IInv, TypeOK
  <2> QED BY <1>1, <1>9, <2>1 DEF GetCount, WroteEdge
<1>10. ASSUME NEW r \in Requests, Commit(r) PROVE IInv'
  BY <1>0, <1>10, CommitStep
<1>11. ASSUME NEW r \in Requests, Rollback(r) PROVE IInv'
  BY <1>0, <1>11, RollbackStep
<1>12. CASE UNCHANGED vars
  <2> USE <1>12 DEF vars, local, store, locks
  <2>1. LocksAreHeld'
    BY DEF IInv, LocksAreHeld, Edge, Target
  <2>2. \A q \in Requests : Good(q)'
    BY <1>0, OthersStayGood DEF Good, HoldsEdge, HoldsRow
  <2>3. CountsMatchEdges'
    BY DEF IInv, CountsMatchEdges, Counts
  <2> QED BY <1>0, <2>1, <2>2, <2>3 DEF IInv
<1> QED
  BY <1>2, <1>3, <1>4, <1>5, <1>6, <1>7, <1>8, <1>9, <1>10, <1>11, <1>12
  DEF Next, Statement, NoSuchRow

\* The strengthened invariant of likes and collections.
THEOREM InductiveInvariant == Spec => []IInv
BY InitIInv, NextIInv, PTL DEF Spec

\* Every variable of Engagement keeps its range.
THEOREM TypeCorrect == Spec => []TypeOK
BY InductiveInvariant, PTL DEF IInv

\* like_count and collection_count always are the numbers of committed edges,
\* for any users, posts, comments, calls and interleaving.
THEOREM CountersCorrect == Spec => []CountsMatchEdges
BY InductiveInvariant, PTL DEF IInv

-----------------------------------------------------------------------------
\* A transaction waits for one that is further on: for an edge, to one that
\* has written it, and that one at most for a row, to one that waits no more.
LEMMA LockOrder ==
  ASSUME IInv, NEW r \in Requests, NEW q \in Requests, WaitsFor(r, q)
  PROVE  /\ pc[r] \in {"edge", "lock", "count"}
         /\ pc[q] \in WroteEdge
         /\ pc[r] = "count" => pc[q] \in WroteRow
<1>1. Exists(r)
  BY DEF IInv, Good, Sound, WaitsFor, WroteEdge
<1>2. Edge(r) \in Edges /\ Target(r) \in Rows
  BY <1>1, CallType DEF IInv
<1> QED BY <1>2 DEF IInv, LocksAreHeld, WaitsFor, WroteEdge, WroteRow

LEMMA NoDeadlockFromIInv == IInv => NoDeadlock
<1> SUFFICES ASSUME IInv, NEW S \in (SUBSET Requests) \ {{}},
                    \A r \in S : \E q \in S : WaitsFor(r, q)
             PROVE  FALSE
  BY DEF NoDeadlock
<1>1. PICK r \in S : TRUE
  OBVIOUS
<1>2. PICK q \in S : WaitsFor(r, q)
  OBVIOUS
<1>3. PICK p \in S : WaitsFor(q, p)
  OBVIOUS
<1>4. pc[q] = "count" /\ pc[p] \in WroteRow
  BY <1>2, <1>3, LockOrder DEF WroteEdge
<1>5. PICK s \in S : WaitsFor(p, s)
  OBVIOUS
<1> QED BY <1>4, <1>5, LockOrder DEF WroteRow

\* Likes and collections never deadlock, however many share a post.
THEOREM DeadlockFree == Spec => []NoDeadlock
BY InductiveInvariant, NoDeadlockFromIInv, PTL

\* A step that answers a call is its commit or its read of the count, and the
\* answer is the count it leaves, the number of edges.
LEMMA AnswerStep ==
  ASSUME IInv, IInv', [Next]_vars, NEW r \in Requests, pc[r] # "done", pc'[r] = "done"
  PROVE  got'[r] = Cardinality(Counts(Counter(r)))'
<1>1. PICK q \in Requests : Receive(q) \/ Statement(q) \/ Rollback(q)
  BY DEF Next, vars, local
<1>2. q = r /\ (Commit(r) \/ GetCount(r))
  <2>1. \A to \in Stages : Goto(q, to) => pc'[r] = IF r = q THEN to ELSE pc[r]
    BY DEF Goto, IInv, TypeOK
  <2> QED BY <1>1, <2>1 DEF Statement, Receive, InsertEdge, DeleteEdge, DeleteFindsEdgeGone,
       DeleteLocksEdge, UpdateCount, EnqueueUpdatePostSearchTx, GetCount, Commit, NoSuchRow,
       Rollback, Stages
<1>3. Counter(r)' = Counter(r)
  BY <1>2 DEF Commit, GetCount, Counter, Target
<1>4. CASE Commit(r)
  <2>1. Counter(r) \in Counters /\ got[r] = Counted(r, count[Counter(r)])
    BY <1>4, CommitWrites DEF Commit, IInv, Good, HoldsRow, WroteRow
  <2>2. got'[r] = count'[Counter(r)]
    BY <1>4, <2>1, CommitWrites DEF Commit
  <2> QED BY <1>3, <2>1, <2>2 DEF IInv, CountsMatchEdges
<1>5. CASE GetCount(r)
  <2>1. Counter(r) \in Counters
    BY <1>5, CallType DEF GetCount, IInv
  <2>2. got'[r] = count'[Counter(r)]
    BY <1>5 DEF GetCount, store, IInv, TypeOK
  <2> QED BY <1>3, <2>1, <2>2 DEF IInv, CountsMatchEdges
<1> QED BY <1>2, <1>4, <1>5

\* Every answer is the number of edges at the step it is made.
THEOREM AnswersCorrect == Spec => AnswersAreExact
<1>1. IInv /\ IInv' /\ [Next]_vars =>
        [\A r \in Requests : pc[r] # "done" /\ pc'[r] = "done" =>
           got'[r] = Cardinality(Counts(Counter(r)))']_vars
  BY AnswerStep
<1> QED BY <1>1, InductiveInvariant, PTL DEF Spec, AnswersAreExact

\* A commit changes its counter, and publishes the job staged just for that.
LEMMA JobStep ==
  ASSUME IInv, [Next]_vars, NEW r \in Requests
  PROVE  r \in jobs' \ jobs <=>
           /\ OnPost(r) /\ pc[r] = "commit" /\ pc'[r] \in {"done", "failed"}
           /\ count'[Counter(r)] # count[Counter(r)]
<1>1. CASE Commit(r)
  <2>1. Good(r) /\ pc[r] = "commit"
    BY <1>1 DEF IInv, Commit
  <2>2. r \in jobs' \ jobs <=> OnPost(r)
    BY <1>1, <2>1 DEF Good, Outbox, Ended, Commit
  <2>3. pc'[r] \in {"done", "failed"}
    BY <1>1 DEF Commit, Goto, IInv, TypeOK
  <2>4. count[Counter(r)] \in Nat /\ count'[Counter(r)] = Counted(r, count[Counter(r)])
        /\ (Adds(r) \/ Cardinality(Counts(Counter(r))) > 0)
    <3>1. /\ Counter(r) \in Counters
          /\ count'[Counter(r)] = Counted(r, count[Counter(r)])
      BY <1>1, CommitWrites
    <3>2. ASSUME ~Adds(r) PROVE Cardinality(Counts(Counter(r))) > 0
      <4>1. Edge(r) \in Counts(Counter(r))
        BY <1>1, <3>2, CommitWrites DEF Counts, Edge, Counter
      <4>2. IsFiniteSet(Counts(Counter(r)))
        BY <3>1, CountsFinite
      <4> QED BY <4>1, <4>2, FS_EmptySet, FS_CardinalityType
    <3> QED BY <3>1, <3>2 DEF IInv, TypeOK
  <2>5. Counter(r) \in Counters /\ count[Counter(r)] = Cardinality(Counts(Counter(r)))
    BY <1>1, CommitWrites DEF IInv, CountsMatchEdges
  <2>6. count'[Counter(r)] # count[Counter(r)]
    BY <2>4, <2>5 DEF Counted, Decremented
  <2> QED BY <2>1, <2>2, <2>3, <2>6
<1>2. ASSUME NEW q \in Requests, q # r, Commit(q) PROVE jobs' \ jobs \subseteq {q} /\ pc'[r] = pc[r]
  BY <1>2 DEF Commit, Goto, IInv, TypeOK
<1>3. CASE UNCHANGED store
  BY <1>3 DEF store
<1>4. UNCHANGED store \/ \E q \in Requests : Commit(q)
  BY DEF Next, vars, Statement, Receive, InsertEdge, DeleteEdge, DeleteFindsEdgeGone,
     DeleteLocksEdge, UpdateCount, EnqueueUpdatePostSearchTx, GetCount, NoSuchRow, Rollback
<1>5. CASE \E q \in Requests : q # r /\ Commit(q)
  BY <1>2, <1>5
<1> QED BY <1>1, <1>3, <1>4, <1>5

\* The search index is told of every committed change of a post's counters,
\* and of nothing else.
THEOREM OutboxCorrect == Spec => JobsFollowCounts
<1>1. IInv /\ [Next]_vars =>
        [\A r \in Requests :
           r \in jobs' \ jobs <=>
             /\ OnPost(r) /\ pc[r] = "commit" /\ pc'[r] \in {"done", "failed"}
             /\ count'[Counter(r)] # count[Counter(r)]]_vars
  BY JobStep
<1> QED BY <1>1, InductiveInvariant, PTL DEF Spec, JobsFollowCounts
=============================================================================
