---------------------------- MODULE FollowProofs -----------------------------
(***************************************************************************)
(* Invariants of Follow for every set of users and calls.                  *)
(*                                                                         *)
(* CountsMatchEdges is not inductive: Commit writes counter values that    *)
(* UpdateFollowingCount and UpdateFollowersCount computed earlier.  IInv   *)
(* adds why these are still current: the rows they were read from have     *)
(* been locked by the same transaction ever since.                         *)
(***************************************************************************)
EXTENDS Follow, FiniteSetTheorems, TLAPS

\* The statements between the edge's write and the end of the transaction.
Wrote          == {"following", "followers", "enqueue", "commit"}
WroteFollowing == {"followers", "enqueue", "commit"}
WroteFollowers == {"enqueue", "commit"}

\* Whoever holds a lock is a transaction that has written the locked row.
LocksAreHeld ==
  /\ \A p \in Pairs : edgeLock[p] # NoReq =>
       pc[edgeLock[p]] \in Wrote /\ Pair(edgeLock[p]) = p
  /\ \A u \in Users : userLock[u] # NoReq =>
       \/ u = call[userLock[u]].follower /\ pc[userLock[u]] \in WroteFollowing
       \/ u = call[userLock[u]].followee /\ pc[userLock[u]] \in WroteFollowers

\* A transaction holds every row it has written, and what it is going to
\* commit is still relative to the committed rows.
HoldsEdge(r) ==
  pc[r] \in Wrote =>
    edgeLock[Pair(r)] = r /\ (row[Pair(r)] = NoReq <=> Adds(r))

HoldsFollower(r) ==
  pc[r] \in WroteFollowing =>
    /\ userLock[call[r].follower] = r
    /\ gotFollowing[r] = Counted(r, followingCount[call[r].follower])

HoldsFollowee(r) ==
  pc[r] \in WroteFollowers =>
    /\ call[r].followee \in Users
    /\ userLock[call[r].followee] = r
    /\ gotFollowers[r] = Counted(r, followersCount[call[r].followee])

\* Only sound calls pass the checks before the first statement.
Sound(r) ==
  InTransaction(r) =>
    /\ call[r].follower # call[r].followee
    /\ Adds(r) \/ Removes(r)
    /\ pc[r] = "lock" => Removes(r) /\ seen[r] # NoReq

Holds == \A r \in Requests : HoldsEdge(r) /\ HoldsFollower(r) /\ HoldsFollowee(r) /\ Sound(r)

IInv == TypeOK /\ LocksAreHeld /\ Holds /\ EdgesJoinUsers /\ CountsMatchEdges
-----------------------------------------------------------------------------
\* The edges are finitely many, and so is each side of them.
LEMMA EdgesFinite ==
  ASSUME NEW S \in SUBSET Pairs PROVE IsFiniteSet(S)
<1>1. IsFiniteSet(Pairs)
  BY UsersAreUids, FS_Product DEF Pairs
<1> QED BY <1>1, FS_Subset

\* Adding a new element to, or removing an element from, a finite set.
LEMMA CardinalityAdd ==
  ASSUME NEW S \in SUBSET Pairs, NEW p \in Pairs, p \notin S
  PROVE  Cardinality(S \union {p}) = Cardinality(S) + 1
BY EdgesFinite, FS_AddElement

LEMMA CardinalityRemove ==
  ASSUME NEW S \in SUBSET Pairs, NEW p \in S
  PROVE  /\ Cardinality(S) > 0
         /\ Cardinality(S \ {p}) = Decremented(Cardinality(S))
<1>1. IsFiniteSet(S)
  BY EdgesFinite
<1>2. Cardinality(S \ {p}) = Cardinality(S) - 1
  BY <1>1, FS_RemoveElement
<1>3. Cardinality(S) \in Nat /\ Cardinality(S \ {p}) \in Nat
  BY <1>1, EdgesFinite, FS_CardinalityType
<1> QED BY <1>2, <1>3 DEF Decremented

\* What the constants say of a call.
LEMMA CallType ==
  ASSUME TypeOK, NEW r \in Requests
  PROVE  /\ call[r].follower \in Users
         /\ call[r].followee \in Uids
         /\ call[r].follower \in Uids
         /\ Pair(r) \in Pairs
         /\ r # NoReq
BY UsersAreUids, CallsTyped, NoReqIsNone DEF TypeOK, Pair, Pairs

LEMMA InitIInv == Init => IInv
<1> SUFFICES ASSUME Init PROVE IInv
  OBVIOUS
<1>1. TypeOK
  BY DEF Init, TypeOK, Holders, Stages
<1>2. LocksAreHeld /\ Holds
  BY DEF Init, LocksAreHeld, Holds, HoldsEdge, HoldsFollower, HoldsFollowee, Sound,
         InTransaction, Wrote, WroteFollowing, WroteFollowers
<1>3. Edges = {}
  BY DEF Init, Edges
<1>4. EdgesJoinUsers
  BY <1>3 DEF EdgesJoinUsers
<1>5. CountsMatchEdges
  <2>1. \A u \in Users : Following(u) = {} /\ Followers(u) = {}
    BY <1>3 DEF Following, Followers
  <2> QED BY <2>1, FS_EmptySet DEF CountsMatchEdges, Init
<1> QED BY <1>1, <1>2, <1>4, <1>5 DEF IInv

-----------------------------------------------------------------------------
(***************************************************************************)
(* The transactions of the other calls while r acts: what they hold does    *)
(* not change as long as r only takes free locks, or frees its own.         *)
(***************************************************************************)

\* A step of r that touches no table and no lock.
LEMMA LocalStep ==
  ASSUME IInv, TypeOK', NEW r \in Requests, NEW to \in Stages,
         Goto(r, to), UNCHANGED <<call, tables, locks>>,
         \A q \in Requests \ {r} : gotFollowing'[q] = gotFollowing[q]
                                /\ gotFollowers'[q] = gotFollowers[q]
                                /\ seen'[q] = seen[q],
         \/ pc[r] \notin Wrote /\ to \notin Wrote
         \/ /\ pc[r] = "enqueue" /\ to = "commit"
            /\ gotFollowing'[r] = gotFollowing[r]
            /\ gotFollowers'[r] = gotFollowers[r],
         Sound(r)'
  PROVE  IInv'
<1>1. \A q \in Requests \ {r} : pc'[q] = pc[q]
  BY DEF Goto, IInv, TypeOK
<1>2. pc'[r] = to
  BY DEF Goto, IInv, TypeOK
<1>3. LocksAreHeld'
  BY <1>1, <1>2 DEF IInv, TypeOK, LocksAreHeld, tables, locks, Pair, Pairs, Holders,
     Wrote, WroteFollowing, WroteFollowers
<1>4. Holds'
  <2> SUFFICES ASSUME NEW q \in Requests
      PROVE HoldsEdge(q)' /\ HoldsFollower(q)' /\ HoldsFollowee(q)' /\ Sound(q)'
    BY DEF Holds
  <2>1. HoldsEdge(q) /\ HoldsFollower(q) /\ HoldsFollowee(q) /\ Sound(q)
    BY DEF IInv, Holds
  <2>2. CASE q # r
    BY <2>1, <2>2, <1>1 DEF HoldsEdge, HoldsFollower, HoldsFollowee, Sound, tables, locks,
       Pair, Adds, Removes, Counted, InTransaction, Wrote, WroteFollowing, WroteFollowers
  <2>3. CASE q = r
    BY <2>1, <2>3, <1>2 DEF HoldsEdge, HoldsFollower, HoldsFollowee, tables, locks,
       Pair, Adds, Removes, Counted, Wrote, WroteFollowing, WroteFollowers
  <2> QED BY <2>2, <2>3
<1>5. EdgesJoinUsers' /\ CountsMatchEdges'
  BY DEF IInv, EdgesJoinUsers, CountsMatchEdges, Edges, Following, Followers, tables
<1> QED BY <1>3, <1>4, <1>5 DEF IInv

\* The write of the edge takes its lock.
LEMMA EdgeStep ==
  ASSUME IInv, TypeOK', NEW r \in Requests,
         pc[r] \in {"edge", "lock"}, Goto(r, "following"),
         Free(edgeLock[Pair(r)]), edgeLock' = [edgeLock EXCEPT ![Pair(r)] = r],
         row[Pair(r)] = NoReq <=> Adds(r),
         UNCHANGED <<call, tables, userLock, seen, gotFollowing, gotFollowers>>
  PROVE  IInv'
<1>0. Pair(r) \in Pairs /\ r # NoReq
  BY CallType DEF IInv
<1>1. \A q \in Requests : pc'[q] = IF q = r THEN "following" ELSE pc[q]
  BY DEF Goto, IInv, TypeOK
<1>2. \A p \in Pairs : edgeLock'[p] = IF p = Pair(r) THEN r ELSE edgeLock[p]
  BY DEF IInv, TypeOK
<1>3. LocksAreHeld'
  <2>1. ASSUME NEW p \in Pairs, edgeLock'[p] # NoReq
        PROVE  pc'[edgeLock'[p]] \in Wrote /\ Pair(edgeLock[p])' = p
    <3>1. \A q \in Requests : Pair(q)' = Pair(q)
      BY DEF Pair
    <3>2. CASE p = Pair(r)
      BY <3>1, <3>2, <1>1, <1>2, <1>0 DEF Wrote
    <3>3. CASE p # Pair(r)
      <4>1. edgeLock'[p] = edgeLock[p] /\ edgeLock[p] \in Requests
        BY <2>1, <3>3, <1>2 DEF IInv, TypeOK, Holders
      <4>2. pc[edgeLock[p]] \in Wrote /\ Pair(edgeLock[p]) = p
        BY <4>1, NoReqIsNone DEF IInv, LocksAreHeld
      <4>3. pc'[edgeLock[p]] \in Wrote
        BY <4>1, <4>2, <1>1 DEF Wrote
      <4> QED BY <4>1, <4>2, <4>3, <3>1
    <3> QED BY <3>2, <3>3
  <2>2. ASSUME NEW u \in Users, userLock'[u] # NoReq
        PROVE  \/ u = call'[userLock'[u]].follower /\ pc'[userLock'[u]] \in WroteFollowing
               \/ u = call'[userLock'[u]].followee /\ pc'[userLock'[u]] \in WroteFollowers
    <3>1. userLock[u] \in Requests
      BY <2>2 DEF IInv, TypeOK, Holders
    <3>2. \/ u = call[userLock[u]].follower /\ pc[userLock[u]] \in WroteFollowing
          \/ u = call[userLock[u]].followee /\ pc[userLock[u]] \in WroteFollowers
      BY <2>2 DEF IInv, LocksAreHeld
    <3>3. pc'[userLock[u]] = pc[userLock[u]]
      BY <3>1, <3>2, <1>1 DEF WroteFollowing, WroteFollowers
    <3> QED BY <3>1, <3>2, <3>3
  <2> QED BY <2>1, <2>2 DEF LocksAreHeld
<1>4. Holds'
  <2> SUFFICES ASSUME NEW q \in Requests
      PROVE HoldsEdge(q)' /\ HoldsFollower(q)' /\ HoldsFollowee(q)' /\ Sound(q)'
    BY DEF Holds
  <2>1. HoldsEdge(q) /\ HoldsFollower(q) /\ HoldsFollowee(q) /\ Sound(q)
    BY DEF IInv, Holds
  <2>2. CASE q # r
    <3>1. pc[q] \in Wrote => Pair(q) # Pair(r)
      BY <2>1, <2>2, NoReqIsNone DEF HoldsEdge, Free
    <3>2. Pair(q) \in Pairs
      BY CallType DEF IInv
    <3> QED
      BY <2>1, <2>2, <3>1, <3>2, <1>1, <1>2 DEF HoldsEdge, HoldsFollower, HoldsFollowee,
         Sound, tables, Pair, Adds, Removes, Counted, InTransaction, Wrote,
         WroteFollowing, WroteFollowers
  <2>3. CASE q = r
    BY <2>1, <2>3, <1>0, <1>1, <1>2 DEF HoldsEdge, HoldsFollower, HoldsFollowee, Sound, tables,
       Pair, Adds, Removes, Counted, InTransaction, Wrote, WroteFollowing, WroteFollowers
  <2> QED BY <2>2, <2>3
<1>5. EdgesJoinUsers' /\ CountsMatchEdges'
  BY DEF IInv, EdgesJoinUsers, CountsMatchEdges, Edges, Following, Followers, tables
<1> QED BY <1>3, <1>4, <1>5 DEF IInv

\* The write of a users row takes its lock, and computes a value from it.
LEMMA UserStep ==
  ASSUME IInv, TypeOK', NEW r \in Requests, NEW w \in Users,
         Free(userLock[w]), userLock' = [userLock EXCEPT ![w] = r],
         UNCHANGED <<call, tables, edgeLock, seen>>,
         \A q \in Requests \ {r} : /\ pc'[q] = pc[q]
                                  /\ gotFollowing'[q] = gotFollowing[q]
                                  /\ gotFollowers'[q] = gotFollowers[q],
         \/ /\ pc[r] = "following" /\ pc'[r] = "followers" /\ w = call[r].follower
            /\ gotFollowing'[r] = Counted(r, followingCount[w])
         \/ /\ pc[r] = "followers" /\ pc'[r] \in WroteFollowers /\ w = call[r].followee
            /\ gotFollowing'[r] = gotFollowing[r]
            /\ gotFollowers'[r] = Counted(r, followersCount[w])
  PROVE  IInv'
<1>0. r # NoReq
  BY CallType DEF IInv
<1>1. \A u \in Users : userLock'[u] = IF u = w THEN r ELSE userLock[u]
  BY DEF IInv, TypeOK
<1>2. \A q \in Requests : Pair(q)' = Pair(q) /\ Adds(q)' = Adds(q) /\ Removes(q)' = Removes(q)
  BY DEF Pair, Adds, Removes
<1>3. LocksAreHeld'
  <2>1. ASSUME NEW p \in Pairs, edgeLock'[p] # NoReq
        PROVE  pc'[edgeLock'[p]] \in Wrote /\ Pair(edgeLock[p])' = p
    <3>1. edgeLock'[p] = edgeLock[p] /\ edgeLock[p] \in Requests
      BY <2>1 DEF IInv, TypeOK, Holders
    <3>2. pc[edgeLock[p]] \in Wrote /\ Pair(edgeLock[p]) = p
      BY <3>1, NoReqIsNone DEF IInv, LocksAreHeld
    <3>3. pc'[edgeLock[p]] \in Wrote
      BY <3>1, <3>2 DEF Wrote, WroteFollowers
    <3> QED BY <3>1, <3>2, <3>3, <1>2
  <2>2. ASSUME NEW u \in Users, userLock'[u] # NoReq
        PROVE  \/ u = call'[userLock'[u]].follower /\ pc'[userLock'[u]] \in WroteFollowing
               \/ u = call'[userLock'[u]].followee /\ pc'[userLock'[u]] \in WroteFollowers
    <3>1. CASE u = w
      BY <3>1, <1>1, <1>0 DEF WroteFollowing, WroteFollowers
    <3>2. CASE u # w
      <4>1. userLock'[u] = userLock[u] /\ userLock[u] \in Requests
        BY <2>2, <3>2, <1>1 DEF IInv, TypeOK, Holders
      <4>2. \/ u = call[userLock[u]].follower /\ pc[userLock[u]] \in WroteFollowing
            \/ u = call[userLock[u]].followee /\ pc[userLock[u]] \in WroteFollowers
        BY <4>1, NoReqIsNone DEF IInv, LocksAreHeld
      <4>3. /\ pc[userLock[u]] \in WroteFollowing => pc'[userLock[u]] \in WroteFollowing
            /\ pc[userLock[u]] \in WroteFollowers => pc'[userLock[u]] \in WroteFollowers
        BY <4>1 DEF WroteFollowing, WroteFollowers
      <4> QED BY <4>1, <4>2, <4>3
    <3> QED BY <3>1, <3>2
  <2> QED BY <2>1, <2>2 DEF LocksAreHeld
<1>4. Holds'
  <2> SUFFICES ASSUME NEW q \in Requests
      PROVE HoldsEdge(q)' /\ HoldsFollower(q)' /\ HoldsFollowee(q)' /\ Sound(q)'
    BY DEF Holds
  <2>1. HoldsEdge(q) /\ HoldsFollower(q) /\ HoldsFollowee(q) /\ Sound(q)
    BY DEF IInv, Holds
  <2>2. CASE q # r
    <3>1. q # NoReq /\ call[q].follower \in Users
      BY CallType DEF IInv
    <3> QED
      BY <2>1, <2>2, <3>1, <1>1, <1>2 DEF HoldsEdge, HoldsFollower, HoldsFollowee,
         Sound, tables, Counted, InTransaction, Free, Wrote, WroteFollowing, WroteFollowers
  <2>3. CASE q = r
    <3>1. call[r].follower # call[r].followee
      BY <2>1, <2>3 DEF Sound, InTransaction
    <3>2. HoldsEdge(r)' /\ Sound(r)'
      BY <2>1, <2>3, <1>2 DEF HoldsEdge, Sound, tables, InTransaction, Wrote, WroteFollowers
    <3>3. HoldsFollower(r)' /\ HoldsFollowee(r)'
      BY <2>1, <2>3, <3>1, <1>1, <1>2, CallType DEF IInv, HoldsFollower, HoldsFollowee, tables,
         Counted, WroteFollowing, WroteFollowers
    <3> QED BY <2>3, <3>2, <3>3
  <2> QED BY <2>2, <2>3
<1>5. EdgesJoinUsers' /\ CountsMatchEdges'
  BY DEF IInv, EdgesJoinUsers, CountsMatchEdges, Edges, Following, Followers, tables
<1> QED BY <1>3, <1>4, <1>5 DEF IInv

\* When r ends, its locks are freed and the others keep theirs.
LEMMA ReleaseStep ==
  ASSUME IInv, TypeOK', NEW r \in Requests, NEW end \in {"done", "failed"},
         Goto(r, end), Release(r), UNCHANGED call
  PROVE  LocksAreHeld'
<1>1. \A q \in Requests : pc'[q] = IF q = r THEN end ELSE pc[q]
  BY DEF Goto, IInv, TypeOK
<1>2. \A q \in Requests : Pair(q)' = Pair(q)
  BY DEF Pair
<1>3. ASSUME NEW p \in Pairs, edgeLock'[p] # NoReq
      PROVE  pc'[edgeLock'[p]] \in Wrote /\ Pair(edgeLock[p])' = p /\ edgeLock'[p] = edgeLock[p]
  <2>1. edgeLock'[p] = edgeLock[p] /\ edgeLock[p] \in Requests /\ edgeLock[p] # r
    BY <1>3 DEF Release, IInv, TypeOK, Holders
  <2> QED BY <2>1, <1>1, <1>2, NoReqIsNone DEF IInv, LocksAreHeld
<1>4. ASSUME NEW u \in Users, userLock'[u] # NoReq
      PROVE  \/ u = call'[userLock'[u]].follower /\ pc'[userLock'[u]] \in WroteFollowing
             \/ u = call'[userLock'[u]].followee /\ pc'[userLock'[u]] \in WroteFollowers
  <2>1. userLock'[u] = userLock[u] /\ userLock[u] \in Requests /\ userLock[u] # r
    BY <1>4 DEF Release, IInv, TypeOK, Holders
  <2> QED BY <2>1, <1>1, NoReqIsNone DEF IInv, LocksAreHeld
<1> QED BY <1>3, <1>4 DEF LocksAreHeld

LEMMA RollbackStep ==
  ASSUME IInv, TypeOK', NEW r \in Requests, Rollback(r)
  PROVE  IInv'
<1>1. LocksAreHeld'
  BY ReleaseStep DEF Rollback
<1>2. \A q \in Requests : pc'[q] = IF q = r THEN "failed" ELSE pc[q]
  BY DEF Rollback, Goto, IInv, TypeOK
<1>3. \A q \in Requests : Pair(q)' = Pair(q) /\ Adds(q)' = Adds(q) /\ Removes(q)' = Removes(q)
  BY DEF Rollback, Pair, Adds, Removes
<1>4. Holds'
  <2> SUFFICES ASSUME NEW q \in Requests
      PROVE HoldsEdge(q)' /\ HoldsFollower(q)' /\ HoldsFollowee(q)' /\ Sound(q)'
    BY DEF Holds
  <2>1. HoldsEdge(q) /\ HoldsFollower(q) /\ HoldsFollowee(q) /\ Sound(q)
    BY DEF IInv, Holds
  <2>2. CASE q # r
    BY <2>1, <2>2, <1>2, <1>3, CallType DEF IInv, HoldsEdge, HoldsFollower, HoldsFollowee, Sound,
       Rollback, Release, tables, Counted, InTransaction, Wrote, WroteFollowing, WroteFollowers
  <2>3. CASE q = r
    BY <2>3, <1>2 DEF HoldsEdge, HoldsFollower, HoldsFollowee, Sound, InTransaction,
       Wrote, WroteFollowing, WroteFollowers
  <2> QED BY <2>2, <2>3
<1>5. EdgesJoinUsers' /\ CountsMatchEdges'
  BY DEF IInv, Rollback, EdgesJoinUsers, CountsMatchEdges, Edges, Following, Followers, tables
<1> QED BY <1>1, <1>4, <1>5 DEF IInv

\* What a commit does to one side of the relation: it adds the edge of r to
\* it, or removes it, exactly when r's user is the one of that side.
LEMMA CommitEdges ==
  ASSUME IInv, NEW r \in Requests, Commit(r)
  PROVE  /\ Adds(r) => Edges' = Edges \union {Pair(r)} /\ Pair(r) \notin Edges
         /\ ~Adds(r) => Edges' = Edges \ {Pair(r)} /\ Pair(r) \in Edges
         /\ Pair(r)[1] = call[r].follower /\ Pair(r)[2] = call[r].followee
<1>1. Pair(r) \in Pairs /\ r # NoReq
  BY CallType DEF IInv
<1>2. HoldsEdge(r)
  BY DEF IInv, Holds
<1>3. row[Pair(r)] = NoReq <=> Adds(r)
  BY <1>2 DEF Commit, HoldsEdge, Wrote
<1>4. row' = [row EXCEPT ![Pair(r)] = IF Adds(r) THEN r ELSE NoReq]
  BY DEF Commit
<1>5. \A p \in Pairs : row'[p] = IF p = Pair(r) THEN (IF Adds(r) THEN r ELSE NoReq) ELSE row[p]
  BY <1>4 DEF IInv, TypeOK
<1>6. CASE Adds(r)
  BY <1>1, <1>3, <1>5, <1>6 DEF Edges, Pair
<1>7. CASE ~Adds(r)
  BY <1>1, <1>3, <1>5, <1>7 DEF Edges, Pair
<1> QED BY <1>6, <1>7

LEMMA CommitCounts ==
  ASSUME IInv, NEW r \in Requests, Commit(r)
  PROVE  CountsMatchEdges'
<1> DEFINE p == Pair(r)
<1>1. /\ call[r].follower \in Users /\ call[r].followee \in Users
      /\ gotFollowing[r] = Counted(r, followingCount[call[r].follower])
      /\ gotFollowers[r] = Counted(r, followersCount[call[r].followee])
      /\ p \in Pairs
  BY CallType DEF IInv, Holds, HoldsFollower, HoldsFollowee, Commit, WroteFollowing, WroteFollowers
<1>2. /\ \A u \in Users : followingCount'[u] =
          IF u = call[r].follower THEN Counted(r, followingCount[u]) ELSE followingCount[u]
      /\ \A u \in Users : followersCount'[u] =
          IF u = call[r].followee THEN Counted(r, followersCount[u]) ELSE followersCount[u]
  BY <1>1 DEF Commit, IInv, TypeOK
<1> SUFFICES ASSUME NEW u \in Users
    PROVE  /\ followingCount'[u] = Cardinality(Following(u)')
           /\ followersCount'[u] = Cardinality(Followers(u)')
  BY DEF CountsMatchEdges
<1>3. /\ followingCount[u] = Cardinality(Following(u))
      /\ followersCount[u] = Cardinality(Followers(u))
  BY DEF IInv, CountsMatchEdges
<1>4. Following(u) \in SUBSET Pairs /\ Followers(u) \in SUBSET Pairs
  BY DEF Following, Followers, Edges
<1>5. CASE Adds(r)
  <2>1. Edges' = Edges \union {p} /\ p \notin Edges
        /\ p[1] = call[r].follower /\ p[2] = call[r].followee
    BY <1>5, CommitEdges
  <2>2. p \notin Following(u) /\ p \notin Followers(u)
    BY <2>1 DEF Following, Followers
  <2>3. /\ Cardinality(Following(u) \union {p}) = Cardinality(Following(u)) + 1
        /\ Cardinality(Followers(u) \union {p}) = Cardinality(Followers(u)) + 1
    BY <1>1, <1>4, <2>2, CardinalityAdd
  <2>4. /\ Following(u)' = IF u = call[r].follower THEN Following(u) \union {p} ELSE Following(u)
        /\ Followers(u)' = IF u = call[r].followee THEN Followers(u) \union {p} ELSE Followers(u)
    BY <2>1 DEF Following, Followers
  <2> QED BY <1>2, <1>3, <1>5, <2>3, <2>4 DEF Counted
<1>6. CASE ~Adds(r)
  <2>1. Edges' = Edges \ {p} /\ p \in Edges
        /\ p[1] = call[r].follower /\ p[2] = call[r].followee
    BY <1>6, CommitEdges
  <2>2. /\ p \in Following(u) =>
             Cardinality(Following(u) \ {p}) = Decremented(Cardinality(Following(u)))
        /\ p \in Followers(u) =>
             Cardinality(Followers(u) \ {p}) = Decremented(Cardinality(Followers(u)))
    BY <1>4, CardinalityRemove
  <2>3. /\ u = call[r].follower => p \in Following(u)
        /\ u = call[r].followee => p \in Followers(u)
    BY <2>1 DEF Following, Followers
  <2>4. /\ Following(u)' = IF u = call[r].follower THEN Following(u) \ {p} ELSE Following(u)
        /\ Followers(u)' = IF u = call[r].followee THEN Followers(u) \ {p} ELSE Followers(u)
    BY <2>1 DEF Following, Followers
  <2> QED BY <1>2, <1>3, <1>6, <2>2, <2>3, <2>4 DEF Counted
<1> QED BY <1>5, <1>6

LEMMA CommitStep ==
  ASSUME IInv, TypeOK', NEW r \in Requests, Commit(r)
  PROVE  IInv'
<1>1. LocksAreHeld'
  BY ReleaseStep DEF Commit
<1>2. PICK end \in {"done", "failed"} :
        \A q \in Requests : pc'[q] = IF q = r THEN end ELSE pc[q]
  BY DEF Commit, Goto, IInv, TypeOK
<1>3. \A q \in Requests : Pair(q)' = Pair(q) /\ Adds(q)' = Adds(q) /\ Removes(q)' = Removes(q)
  BY DEF Commit, Pair, Adds, Removes
<1>4. HoldsEdge(r) /\ HoldsFollower(r) /\ HoldsFollowee(r) /\ Sound(r) /\ pc[r] = "commit"
  BY DEF IInv, Holds, Commit
<1>5. Holds'
  <2> SUFFICES ASSUME NEW q \in Requests
      PROVE HoldsEdge(q)' /\ HoldsFollower(q)' /\ HoldsFollowee(q)' /\ Sound(q)'
    BY DEF Holds
  <2>1. HoldsEdge(q) /\ HoldsFollower(q) /\ HoldsFollowee(q) /\ Sound(q)
    BY DEF IInv, Holds
  <2>2. CASE q # r
    <3>1. /\ Pair(q) \in Pairs /\ call[q].follower \in Users
          /\ Pair(r) \in Pairs /\ call[r].follower \in Users
      BY CallType DEF IInv
    <3>2. HoldsEdge(q)' /\ Sound(q)'
      <4>1. pc[q] \in Wrote => Pair(q) # Pair(r)
        BY <2>1, <2>2, <1>4 DEF HoldsEdge, Wrote
      <4>2. pc[q] \in Wrote => row'[Pair(q)] = row[Pair(q)]
        BY <4>1, <3>1 DEF Commit, IInv, TypeOK
      <4>3. pc[q] \in Wrote => edgeLock'[Pair(q)] = q
        BY <2>1, <2>2, <3>1 DEF Commit, Release, HoldsEdge
      <4>4. HoldsEdge(q)'
        BY <4>2, <4>3, <2>1, <2>2, <1>2, <1>3 DEF HoldsEdge
      <4> QED BY <4>4, <2>1, <2>2, <1>2, <1>3 DEF Sound, InTransaction, Commit
    <3>3. HoldsFollower(q)'
      <4>1. pc[q] \in WroteFollowing => call[q].follower # call[r].follower
        BY <2>1, <2>2, <1>4 DEF HoldsFollower, WroteFollowing
      <4>2. pc[q] \in WroteFollowing =>
              /\ followingCount'[call[q].follower] = followingCount[call[q].follower]
              /\ userLock'[call[q].follower] = q
        BY <4>1, <3>1, <2>1, <2>2 DEF Commit, Release, HoldsFollower, IInv, TypeOK
      <4> QED BY <4>2, <2>1, <2>2, <1>2, <1>3 DEF HoldsFollower, Commit, Counted
    <3>4. HoldsFollowee(q)'
      <4>1. pc[q] \in WroteFollowers => call[q].followee # call[r].followee
        BY <2>1, <2>2, <1>4 DEF HoldsFollowee, WroteFollowers
      <4>2. pc[q] \in WroteFollowers =>
              /\ followersCount'[call[q].followee] = followersCount[call[q].followee]
              /\ userLock'[call[q].followee] = q
        BY <4>1, <2>1, <2>2 DEF Commit, Release, HoldsFollowee, IInv, TypeOK
      <4> QED BY <4>2, <2>1, <2>2, <1>2, <1>3 DEF HoldsFollowee, Commit, Counted
    <3> QED BY <3>2, <3>3, <3>4
  <2>3. CASE q = r
    BY <2>3, <1>2 DEF HoldsEdge, HoldsFollower, HoldsFollowee, Sound, InTransaction,
       Wrote, WroteFollowing, WroteFollowers
  <2> QED BY <2>2, <2>3
<1>6. EdgesJoinUsers'
  <2>1. call[r].follower \in Users /\ call[r].followee \in Users
        /\ call[r].follower # call[r].followee
    BY <1>4, CallType DEF IInv, HoldsFollowee, Sound, InTransaction, WroteFollowers
  <2>2. Edges' \subseteq Edges \union {Pair(r)}
    BY CommitEdges
  <2> QED BY <2>1, <2>2, CommitEdges DEF IInv, EdgesJoinUsers
<1> QED BY <1>1, <1>5, <1>6, CommitCounts DEF IInv

-----------------------------------------------------------------------------
\* Every variable keeps its range.
LEMMA TypeStep == TypeOK /\ Holds /\ [Next]_vars => TypeOK'
<1> SUFFICES ASSUME TypeOK, Holds, [Next]_vars PROVE TypeOK'
  OBVIOUS
<1> USE DEF TypeOK
<1>1. ASSUME NEW r \in Requests, NEW n \in Nat PROVE Counted(r, n) \in Nat
  BY DEF Counted, Decremented
<1>2. ASSUME NEW r \in Requests, NEW to \in Stages, Goto(r, to)
      PROVE  pc' \in [Requests -> Stages]
  BY <1>2 DEF Goto
<1>3. {"idle", "edge", "lock", "following", "followers", "enqueue",
       "commit", "read", "done", "failed"} = Stages
  BY DEF Stages
<1>4. ASSUME NEW r \in Requests, Rollback(r) PROVE TypeOK'
  <2>1. pc' \in [Requests -> Stages]
    BY <1>2, <1>3, <1>4 DEF Rollback
  <2>2. edgeLock' \in [Pairs -> Holders] /\ userLock' \in [Users -> Holders]
    BY <1>4 DEF Rollback, Release, Holders
  <2> QED BY <2>1, <2>2, <1>4 DEF Rollback, tables
<1>5. ASSUME NEW r \in Requests, Receive(r) PROVE TypeOK'
  <2>1. pc' \in [Requests -> Stages]
    BY <1>2, <1>3, <1>5 DEF Receive
  <2> QED BY <2>1, <1>5 DEF Receive, tables, locks
<1>6. ASSUME NEW r \in Requests, InsertFollowEdge(r) PROVE TypeOK'
  <2>1. pc' \in [Requests -> Stages]
    BY <1>2, <1>3, <1>6 DEF InsertFollowEdge
  <2>2. edgeLock' \in [Pairs -> Holders]
    BY <1>6 DEF InsertFollowEdge, Holders
  <2> QED BY <2>1, <2>2, <1>6 DEF InsertFollowEdge, tables
<1>7. ASSUME NEW r \in Requests, DeleteFollowEdge(r) PROVE TypeOK'
  <2>1. pc' \in [Requests -> Stages]
    BY <1>2, <1>3, <1>7 DEF DeleteFollowEdge
  <2>2. seen' \in [Requests -> Holders]
    BY <1>7, CallType DEF DeleteFollowEdge, Holders
  <2> QED BY <2>1, <2>2, <1>7 DEF DeleteFollowEdge, tables, locks
<1>8. ASSUME NEW r \in Requests, DeleteFindsRowGone(r) PROVE TypeOK'
  <2>1. pc' \in [Requests -> Stages]
    BY <1>2, <1>3, <1>8 DEF DeleteFindsRowGone
  <2> QED BY <2>1, <1>8 DEF DeleteFindsRowGone, tables, locks
<1>9. ASSUME NEW r \in Requests, DeleteLocksRow(r) PROVE TypeOK'
  <2>1. pc' \in [Requests -> Stages]
    BY <1>2, <1>3, <1>9 DEF DeleteLocksRow
  <2>2. edgeLock' \in [Pairs -> Holders]
    BY <1>9 DEF DeleteLocksRow, Holders
  <2> QED BY <2>1, <2>2, <1>9 DEF DeleteLocksRow, tables
<1>10. ASSUME NEW r \in Requests, UpdateFollowingCount(r) PROVE TypeOK'
  <2>1. pc' \in [Requests -> Stages]
    BY <1>2, <1>3, <1>10 DEF UpdateFollowingCount
  <2>2. gotFollowing' \in [Requests -> Nat]
    <3>1. followingCount[call[r].follower] \in Nat
      BY CallType
    <3> QED BY <3>1, <1>1, <1>10 DEF UpdateFollowingCount
  <2>3. userLock' \in [Users -> Holders]
    BY <1>10 DEF UpdateFollowingCount, Holders
  <2> QED BY <2>1, <2>2, <2>3, <1>10 DEF UpdateFollowingCount, tables
<1>11. ASSUME NEW r \in Requests, UpdateFollowersCount(r) PROVE TypeOK'
  <2>1. pc' \in [Requests -> Stages]
    BY <1>2, <1>3, <1>11 DEF UpdateFollowersCount
  <2>2. gotFollowers' \in [Requests -> Nat]
    <3>1. followersCount[call[r].followee] \in Nat
      BY <1>11 DEF UpdateFollowersCount
    <3> QED BY <3>1, <1>1, <1>11 DEF UpdateFollowersCount
  <2>3. userLock' \in [Users -> Holders]
    BY <1>11 DEF UpdateFollowersCount, Holders
  <2> QED BY <2>1, <2>2, <2>3, <1>11 DEF UpdateFollowersCount, tables
<1>12. ASSUME NEW r \in Requests, EnqueueFollowInboxTx(r) PROVE TypeOK'
  <2>1. pc' \in [Requests -> Stages]
    BY <1>2, <1>3, <1>12 DEF EnqueueFollowInboxTx
  <2> QED BY <2>1, <1>12 DEF EnqueueFollowInboxTx, tables, locks
<1>13. ASSUME NEW r \in Requests, GetFollowCounts(r) PROVE TypeOK'
  <2>1. pc' \in [Requests -> Stages]
    BY <1>2, <1>3, <1>13 DEF GetFollowCounts
  <2>2. gotFollowing' \in [Requests -> Nat] /\ gotFollowers' \in [Requests -> Nat]
    <3>1. followingCount[call[r].follower] \in Nat /\ followersCount[call[r].followee] \in Nat
      BY <1>13, CallType DEF GetFollowCounts
    <3> QED BY <3>1, <1>13 DEF GetFollowCounts
  <2> QED BY <2>1, <2>2, <1>13 DEF GetFollowCounts, tables, locks
<1>14. ASSUME NEW r \in Requests, Commit(r) PROVE TypeOK'
  <2>1. pc' \in [Requests -> Stages]
    BY <1>2, <1>3, <1>14 DEF Commit
  <2>2. edgeLock' \in [Pairs -> Holders] /\ userLock' \in [Users -> Holders]
    BY <1>14 DEF Commit, Release, Holders
  <2>3. row' \in [Pairs -> Holders]
    BY <1>14 DEF Commit, Holders
  <2>4. followingCount' \in [Users -> Nat] /\ followersCount' \in [Users -> Nat]
    BY <1>14 DEF Commit
  <2> QED BY <2>1, <2>2, <2>3, <2>4, <1>14 DEF Commit
<1>15. CASE UNCHANGED vars
  BY <1>15 DEF vars, tx, tables, locks
<1> QED
  BY <1>4, <1>5, <1>6, <1>7, <1>8, <1>9, <1>10, <1>11, <1>12, <1>13, <1>14, <1>15
  DEF Next, Statement, NoSuchFollowee, DeadlockVictim

\* One step per action: which lemma above covers it.
LEMMA NextIInv == IInv /\ [Next]_vars => IInv'
<1> SUFFICES ASSUME IInv, [Next]_vars PROVE IInv'
  OBVIOUS
<1>0. TypeOK'
  BY TypeStep DEF IInv
<1>1. ASSUME NEW r \in Requests, Receive(r) PROVE IInv'
  <2>1. CASE Goto(r, "failed")
    <3>1. pc'[r] = "failed"
      BY <2>1 DEF Goto, IInv, TypeOK
    <3>2. Sound(r)'
      BY <3>1 DEF Sound, InTransaction
    <3> QED
      BY <1>0, <1>1, <2>1, <3>2, LocalStep DEF Receive, Stages, Wrote
  <2>2. CASE Goto(r, "edge") /\ ~(call[r].follower = call[r].followee \/ ~(Adds(r) \/ Removes(r)))
    <3>1. pc'[r] = "edge"
      BY <2>2 DEF Goto, IInv, TypeOK
    <3>2. Sound(r)'
      BY <1>1, <2>2, <3>1 DEF Sound, Receive, Adds, Removes
    <3> QED
      BY <1>0, <1>1, <2>2, <3>2, LocalStep DEF Receive, Stages, Wrote
  <2> QED BY <1>1, <2>1, <2>2 DEF Receive
<1>2. ASSUME NEW r \in Requests, pc[r] \in {"edge", "lock"}, Goto(r, "read"),
             UNCHANGED <<call, seen, gotFollowing, gotFollowers, tables, locks>>
      PROVE  IInv'
  <2>1. pc'[r] = "read" /\ Sound(r)
    BY <1>2 DEF Goto, IInv, TypeOK, Holds
  <2>2. Sound(r)'
    BY <2>1, <1>2 DEF Sound, InTransaction, Adds, Removes
  <2> QED BY <1>0, <1>2, <2>2, LocalStep DEF Stages, Wrote
<1>3. ASSUME NEW r \in Requests, InsertFollowEdge(r) PROVE IInv'
  <2>1. CASE row[Pair(r)] = NoReq
    BY <1>0, <1>3, <2>1, EdgeStep DEF InsertFollowEdge
  <2>2. CASE row[Pair(r)] # NoReq
    BY <1>2, <1>3, <2>2 DEF InsertFollowEdge, locks
  <2> QED BY <2>1, <2>2
<1>4. ASSUME NEW r \in Requests, DeleteFollowEdge(r) PROVE IInv'
  <2>0. \A q \in Requests \ {r} : seen'[q] = seen[q]
    BY <1>4 DEF DeleteFollowEdge, IInv, TypeOK
  <2>1. CASE Goto(r, "read")
    <3>1. pc'[r] = "read" /\ Sound(r)
      BY <2>1 DEF Goto, IInv, TypeOK, Holds
    <3>2. Sound(r)'
      BY <1>4, <3>1 DEF Sound, InTransaction, Adds, Removes, DeleteFollowEdge
    <3> QED
      BY <1>0, <1>4, <2>0, <2>1, <3>2, LocalStep DEF DeleteFollowEdge, Stages, Wrote
  <2>2. CASE Goto(r, "lock") /\ row[Pair(r)] # NoReq
    <3>1. pc'[r] = "lock" /\ Sound(r) /\ seen'[r] = row[Pair(r)]
      BY <1>4, <2>2 DEF DeleteFollowEdge, Goto, IInv, TypeOK, Holds
    <3>2. Sound(r)'
      BY <1>4, <2>2, <3>1 DEF Sound, InTransaction, Adds, Removes, DeleteFollowEdge
    <3> QED
      BY <1>0, <1>4, <2>0, <2>2, <3>2, LocalStep DEF DeleteFollowEdge, Stages, Wrote
  <2> QED BY <1>4, <2>1, <2>2 DEF DeleteFollowEdge
<1>5. ASSUME NEW r \in Requests, DeleteFindsRowGone(r) PROVE IInv'
  BY <1>2, <1>5 DEF DeleteFindsRowGone
<1>6. ASSUME NEW r \in Requests, DeleteLocksRow(r) PROVE IInv'
  <2>1. Removes(r)
    BY <1>6 DEF DeleteLocksRow, IInv, Holds, Sound, InTransaction
  <2>2. row[Pair(r)] # NoReq
    BY <1>6 DEF DeleteLocksRow, IInv, Holds, Sound, InTransaction
  <2> QED BY <1>0, <1>6, <2>1, <2>2, EdgeStep DEF DeleteLocksRow, Adds, Removes
<1>7. ASSUME NEW r \in Requests, UpdateFollowingCount(r) PROVE IInv'
  <2>1. call[r].follower \in Users
    BY CallType DEF IInv
  <2>2. /\ \A q \in Requests : pc'[q] = IF q = r THEN "followers" ELSE pc[q]
        /\ \A q \in Requests : gotFollowing'[q] =
             IF q = r THEN Counted(r, followingCount[call[r].follower]) ELSE gotFollowing[q]
    BY <1>7 DEF UpdateFollowingCount, Goto, IInv, TypeOK
  <2> QED BY <1>0, <1>7, <2>1, <2>2, UserStep DEF UpdateFollowingCount
<1>8. ASSUME NEW r \in Requests, UpdateFollowersCount(r) PROVE IInv'
  <2>1. \A q \in Requests :
          pc'[q] = IF q = r THEN (IF Adds(r) THEN "enqueue" ELSE "commit") ELSE pc[q]
    BY <1>8 DEF UpdateFollowersCount, Goto, IInv, TypeOK
  <2>2. \A q \in Requests : gotFollowers'[q] =
          IF q = r THEN Counted(r, followersCount[call[r].followee]) ELSE gotFollowers[q]
    BY <1>8 DEF UpdateFollowersCount, IInv, TypeOK
  <2> QED BY <1>0, <1>8, <2>1, <2>2, UserStep DEF UpdateFollowersCount, WroteFollowers
<1>9. ASSUME NEW r \in Requests, EnqueueFollowInboxTx(r) PROVE IInv'
  <2>1. pc'[r] = "commit" /\ Sound(r)
    BY <1>9 DEF EnqueueFollowInboxTx, Goto, IInv, TypeOK, Holds
  <2>2. Sound(r)'
    BY <1>9, <2>1 DEF EnqueueFollowInboxTx, Sound, InTransaction, Adds, Removes
  <2> QED BY <1>0, <1>9, <2>2, LocalStep DEF EnqueueFollowInboxTx, Stages
<1>10. ASSUME NEW r \in Requests, GetFollowCounts(r) PROVE IInv'
  <2>1. /\ pc'[r] = "done"
        /\ \A q \in Requests \ {r} : gotFollowing'[q] = gotFollowing[q]
                                 /\ gotFollowers'[q] = gotFollowers[q]
    BY <1>10 DEF GetFollowCounts, Goto, IInv, TypeOK
  <2>2. Sound(r)'
    BY <2>1 DEF Sound, InTransaction
  <2> QED BY <1>0, <1>10, <2>1, <2>2, LocalStep DEF GetFollowCounts, Stages, Wrote
<1>11. ASSUME NEW r \in Requests, Commit(r) PROVE IInv'
  BY <1>0, <1>11, CommitStep
<1>12. ASSUME NEW r \in Requests, Rollback(r) PROVE IInv'
  BY <1>0, <1>12, RollbackStep
<1>13. CASE UNCHANGED vars
  <2> USE <1>13 DEF vars, tx, tables, locks
  <2>1. LocksAreHeld'
    BY DEF IInv, LocksAreHeld, Pair
  <2>2. Holds'
    BY DEF IInv, Holds, HoldsEdge, HoldsFollower, HoldsFollowee, Sound, InTransaction,
       Pair, Adds, Removes, Counted
  <2>3. EdgesJoinUsers' /\ CountsMatchEdges'
    BY DEF IInv, EdgesJoinUsers, CountsMatchEdges, Edges, Following, Followers
  <2> QED BY <1>0, <2>1, <2>2, <2>3 DEF IInv
<1> QED
  BY <1>1, <1>3, <1>4, <1>5, <1>6, <1>7, <1>8, <1>9, <1>10, <1>11, <1>12, <1>13
  DEF Next, Statement, NoSuchFollowee, DeadlockVictim

\* The strengthened invariant of the follow transactions.
THEOREM InductiveInvariant == Spec => []IInv
BY InitIInv, NextIInv, PTL DEF Spec

\* Every variable of Follow keeps its range.
THEOREM TypeCorrect == Spec => []TypeOK
BY InductiveInvariant, PTL DEF IInv

\* users.following_count and users.followers_count always are the number of
\* committed edges on each side, for any users, calls and interleaving.
THEOREM CountersCorrect == Spec => []CountsMatchEdges
BY InductiveInvariant, PTL DEF IInv

\* Committed edges join two different existing users.
THEOREM EdgesSound == Spec => []EdgesJoinUsers
BY InductiveInvariant, PTL DEF IInv

\* No decrement is ever clamped by GREATEST(n - 1, 0): the edge a REMOVE has
\* locked is still in the relation, so both its sides are not empty.
LEMMA ClampFromIInv == IInv => ClampNeverBites
<1> SUFFICES ASSUME IInv, NEW r \in Requests, Removes(r), pc[r] \in {"following", "followers"}
    PROVE  /\ followingCount[call[r].follower] > 0
           /\ call[r].followee \in Users => followersCount[call[r].followee] > 0
  BY DEF ClampNeverBites
<1>1. Pair(r) \in Edges
  <2>1. HoldsEdge(r) /\ ~Adds(r)
    BY DEF IInv, Holds, Adds, Removes
  <2> QED BY <2>1, CallType DEF IInv, HoldsEdge, Wrote, Edges
<1>2. Pair(r) \in Following(call[r].follower) /\ Pair(r) \in Followers(call[r].followee)
  BY <1>1 DEF Following, Followers, Pair
<1>3. \A u \in Users : Following(u) \in SUBSET Pairs /\ Followers(u) \in SUBSET Pairs
  BY DEF Following, Followers, Edges
<1>4. call[r].follower \in Users
  BY CallType DEF IInv
<1>5. Cardinality(Following(call[r].follower)) > 0
  BY <1>2, <1>3, <1>4, CardinalityRemove
<1>6. call[r].followee \in Users => Cardinality(Followers(call[r].followee)) > 0
  BY <1>2, <1>3, CardinalityRemove
<1> QED BY <1>4, <1>5, <1>6 DEF IInv, CountsMatchEdges

THEOREM ClampUnneeded == Spec => []ClampNeverBites
BY InductiveInvariant, ClampFromIInv, PTL

-----------------------------------------------------------------------------
(***************************************************************************)
(* What the commits publish (the outbox), what the deadlocks look like, and *)
(* that Follow implements FollowAbs.  These need, besides IInv, who has      *)
(* staged a job, and that a row, committed or in a snapshot, was inserted by *)
(* a call that has ended.                                                   *)
(***************************************************************************)
\* Only an ADD enqueues; its job is staged between the INSERT and the commit,
\* and a committed job belongs to a call that has ended.
Outbox ==
  /\ \A r \in Requests : /\ r \in staged <=> pc[r] = "commit" /\ Adds(r)
                         /\ pc[r] = "enqueue" => Adds(r)
  /\ \A r \in jobs : Ended(r)

\* No call in progress has inserted a row that anybody sees.
Inserted ==
  /\ \A p \in Pairs : row[p] # NoReq => Ended(row[p])
  /\ \A r \in Requests : pc[r] = "lock" => Ended(seen[r])

FInv == IInv /\ Outbox /\ Inserted

-----------------------------------------------------------------------------
LEMMA InitFInv == Init => FInv
<1>1. Init => Outbox /\ Inserted
  BY DEF Init, Outbox, Inserted
<1> QED BY <1>1, InitIInv DEF FInv

\* A statement that leaves the tables and the staged jobs alone.
LEMMA QuietStep ==
  ASSUME FInv, NEW r \in Requests, UNCHANGED <<call, tables, staged>>,
         \A q \in Requests \ {r} : pc'[q] = pc[q] /\ seen'[q] = seen[q],
         ~Ended(r), pc[r] # "commit",
         pc'[r] = "commit" => ~Adds(r), pc'[r] = "enqueue" => Adds(r),
         pc'[r] = "lock" => row[Pair(r)] # NoReq /\ seen'[r] = row[Pair(r)]
  PROVE  Outbox' /\ Inserted'
<1>1. \A q \in Requests : Ended(q) => Ended(q)'
  BY DEF Ended
<1>2. row \in [Pairs -> Holders] /\ jobs \subseteq Requests /\ Pair(r) \in Pairs
  BY CallType DEF FInv, IInv, TypeOK
<1>3. \A p \in Pairs : row[p] # NoReq => row[p] \in Requests /\ Ended(row[p])
  BY <1>2 DEF FInv, Inserted, Holders
<1>4. \A q \in Requests : pc[q] = "lock" => seen[q] \in Requests /\ Ended(seen[q])
  BY DEF FInv, IInv, TypeOK, Holders, Holds, Sound, InTransaction, Inserted
<1>5. Outbox'
  <2>1. \A q \in Requests : /\ q \in staged <=> pc[q] = "commit" /\ Adds(q)
                            /\ pc[q] = "enqueue" => Adds(q)
    BY DEF FInv, Outbox
  <2>2. ASSUME NEW q \in Requests
        PROVE  /\ q \in staged' <=> pc'[q] = "commit" /\ Adds(q)'
               /\ pc'[q] = "enqueue" => Adds(q)'
    BY <2>1 DEF Adds
  <2>3. ASSUME NEW q \in jobs' PROVE Ended(q)'
    BY <1>1, <1>2 DEF FInv, Outbox, tables
  <2> QED BY <2>2, <2>3 DEF Outbox
<1>6. Inserted'
  <2>1. ASSUME NEW p \in Pairs, row'[p] # NoReq PROVE Ended(row[p])' /\ row'[p] = row[p]
    BY <2>1, <1>1, <1>3 DEF tables, Ended
  <2>2. ASSUME NEW q \in Requests, pc'[q] = "lock" PROVE pc'[seen'[q]] \in {"done", "failed"}
    <3>1. CASE q = r
      BY <1>1, <1>2, <1>3, <2>2, <3>1 DEF Ended
    <3>2. CASE q # r
      BY <1>1, <1>4, <2>2, <3>2 DEF Ended
    <3> QED BY <3>1, <3>2
  <2> QED BY <2>1, <2>2 DEF Inserted, Ended
<1> QED BY <1>5, <1>6

\* The others while r enqueues its job, commits or rolls back: a call that
\* ends stays ended.
LEMMA OutboxStep ==
  ASSUME FInv, [Next]_vars
  PROVE  Outbox' /\ Inserted'
<1> USE DEF FInv
<1>0. TypeOK /\ Holds
  BY DEF IInv
<1>1. ASSUME NEW r \in Requests, Receive(r) PROVE Outbox' /\ Inserted'
  <2>1. /\ \A q \in Requests \ {r} : pc'[q] = pc[q] /\ seen'[q] = seen[q]
        /\ pc'[r] \in {"failed", "edge"}
    BY <1>0, <1>1 DEF Receive, Goto, TypeOK
  <2> QED BY <1>1, <2>1, QuietStep DEF Receive, Ended
<1>2. ASSUME NEW r \in Requests, InsertFollowEdge(r) PROVE Outbox' /\ Inserted'
  <2>1. /\ \A q \in Requests \ {r} : pc'[q] = pc[q] /\ seen'[q] = seen[q]
        /\ pc'[r] \in {"following", "read"}
    BY <1>0, <1>2 DEF InsertFollowEdge, Goto, TypeOK
  <2> QED BY <1>2, <2>1, QuietStep DEF InsertFollowEdge, Ended
<1>3. ASSUME NEW r \in Requests, DeleteFollowEdge(r) PROVE Outbox' /\ Inserted'
  <2>1. /\ \A q \in Requests \ {r} : pc'[q] = pc[q] /\ seen'[q] = seen[q]
        /\ pc'[r] = IF row[Pair(r)] = NoReq THEN "read" ELSE "lock"
        /\ seen'[r] = row[Pair(r)]
    BY <1>0, <1>3 DEF DeleteFollowEdge, Goto, TypeOK
  <2> QED BY <1>3, <2>1, QuietStep DEF DeleteFollowEdge, Ended
<1>4. ASSUME NEW r \in Requests, DeleteFindsRowGone(r) \/ DeleteLocksRow(r)
      PROVE  Outbox' /\ Inserted'
  <2>1. /\ \A q \in Requests \ {r} : pc'[q] = pc[q] /\ seen'[q] = seen[q]
        /\ pc'[r] \in {"read", "following"}
    BY <1>0, <1>4 DEF DeleteFindsRowGone, DeleteLocksRow, Goto, TypeOK
  <2> QED BY <1>4, <2>1, QuietStep DEF DeleteFindsRowGone, DeleteLocksRow, Ended
<1>5. ASSUME NEW r \in Requests, UpdateFollowingCount(r) PROVE Outbox' /\ Inserted'
  <2>1. /\ \A q \in Requests \ {r} : pc'[q] = pc[q] /\ seen'[q] = seen[q]
        /\ pc'[r] = "followers"
    BY <1>0, <1>5 DEF UpdateFollowingCount, Goto, TypeOK
  <2> QED BY <1>5, <2>1, QuietStep DEF UpdateFollowingCount, Ended
<1>6. ASSUME NEW r \in Requests, UpdateFollowersCount(r) PROVE Outbox' /\ Inserted'
  <2>1. /\ \A q \in Requests \ {r} : pc'[q] = pc[q] /\ seen'[q] = seen[q]
        /\ pc'[r] = IF Adds(r) THEN "enqueue" ELSE "commit"
    BY <1>0, <1>6 DEF UpdateFollowersCount, Goto, TypeOK
  <2> QED BY <1>6, <2>1, QuietStep DEF UpdateFollowersCount, Ended
<1>7. ASSUME NEW r \in Requests, GetFollowCounts(r) PROVE Outbox' /\ Inserted'
  <2>1. /\ \A q \in Requests \ {r} : pc'[q] = pc[q] /\ seen'[q] = seen[q]
        /\ pc'[r] = "done"
    BY <1>0, <1>7 DEF GetFollowCounts, Goto, TypeOK
  <2> QED BY <1>7, <2>1, QuietStep DEF GetFollowCounts, Ended
<1>8. /\ \A p \in Pairs : row[p] # NoReq => row[p] \in Requests /\ Ended(row[p])
      /\ \A q \in Requests : pc[q] = "lock" => seen[q] \in Requests /\ Ended(seen[q])
      /\ \A q \in Requests : /\ q \in staged <=> pc[q] = "commit" /\ Adds(q)
                            /\ pc[q] = "enqueue" => Adds(q)
      /\ \A q \in jobs : q \in Requests /\ Ended(q)
  BY <1>0 DEF TypeOK, Holders, Holds, Sound, InTransaction, Outbox, Inserted
<1>9. ASSUME NEW r \in Requests, EnqueueFollowInboxTx(r) PROVE Outbox' /\ Inserted'
  <2>1. /\ \A q \in Requests \ {r} : pc'[q] = pc[q]
        /\ pc'[r] = "commit" /\ pc[r] = "enqueue" /\ staged' = staged \union {r}
        /\ UNCHANGED <<call, seen, tables>>
    BY <1>0, <1>9 DEF EnqueueFollowInboxTx, Goto, TypeOK
  <2>2. Adds(r)
    BY <1>9 DEF EnqueueFollowInboxTx, Outbox
  <2>3. Outbox'
    BY <1>8, <2>1, <2>2 DEF Outbox, Adds, Ended, tables
  <2>4. Inserted'
    BY <1>8, <2>1 DEF Inserted, Ended, tables
  <2> QED BY <2>3, <2>4
<1>10. ASSUME NEW r \in Requests, Rollback(r) PROVE Outbox' /\ Inserted'
  <2>1. /\ \A q \in Requests \ {r} : pc'[q] = pc[q]
        /\ pc'[r] = "failed" /\ staged' = staged \ {r}
        /\ UNCHANGED <<call, seen, tables>>
    BY <1>0, <1>10 DEF Rollback, Goto, TypeOK
  <2>2. Outbox'
    BY <1>8, <2>1 DEF Outbox, Adds, Ended, tables
  <2>3. Inserted'
    BY <1>8, <2>1 DEF Inserted, Ended, tables
  <2> QED BY <2>2, <2>3
<1>11. ASSUME NEW r \in Requests, Commit(r) PROVE Outbox' /\ Inserted'
  <2>1. /\ \A q \in Requests \ {r} : pc'[q] = pc[q]
        /\ pc'[r] \in {"done", "failed"} /\ staged' = staged \ {r}
        /\ jobs' = jobs \union (staged \intersect {r})
        /\ UNCHANGED <<call, seen>>
    BY <1>0, <1>11 DEF Commit, Goto, TypeOK
  <2>2. \A p \in Pairs : row'[p] \in {row[p], r, NoReq}
    BY <1>0, <1>11 DEF Commit, TypeOK
  <2>3. Outbox'
    BY <1>8, <2>1 DEF Outbox, Adds, Ended
  <2>4. ASSUME NEW p \in Pairs, row'[p] # NoReq PROVE pc'[row'[p]] \in {"done", "failed"}
    BY <1>8, <2>1, <2>2, <2>4 DEF Ended
  <2>5. Inserted'
    BY <1>8, <2>1, <2>4 DEF Inserted, Ended
  <2> QED BY <2>3, <2>5
<1>12. CASE UNCHANGED vars
  BY <1>8, <1>12 DEF vars, tx, tables, Outbox, Inserted, Adds, Ended
<1> QED
  BY <1>1, <1>2, <1>3, <1>4, <1>5, <1>6, <1>7, <1>9, <1>10, <1>11, <1>12
  DEF Next, Statement, NoSuchFollowee, DeadlockVictim

\* The strengthened invariant, and who has inserted what.
THEOREM OutboxInvariant == Spec => []FInv
<1>1. FInv /\ [Next]_vars => FInv'
  BY NextIInv, OutboxStep DEF FInv
<1> QED BY <1>1, InitFInv, PTL DEF Spec

-----------------------------------------------------------------------------
\* The transactional outbox: a commit publishes an edge exactly with the job
\* of the call that inserted it, and nothing else publishes either.
THEOREM OutboxCorrect == Spec => OutboxFollowsEdges
<1> DEFINE Told == /\ jobs \subseteq jobs'
                  /\ jobs' \ jobs = {r \in Requests : row'[Pair(r)] = r /\ row[Pair(r)] # r}
<1>1. ASSUME FInv, NEW q \in Requests, Commit(q) PROVE Told
  <2>1. /\ TypeOK /\ Pair(q) \in Pairs /\ q # NoReq /\ pc[q] = "commit"
        /\ \A r \in Requests : Pair(r) \in Pairs /\ r # NoReq
    BY <1>1, CallType DEF FInv, IInv, Commit
  <2>2. row[Pair(q)] = NoReq <=> Adds(q)
    BY <1>1, <2>1 DEF FInv, IInv, Holds, HoldsEdge, Wrote
  <2>3. q \in staged <=> Adds(q)
    BY <1>1, <2>1 DEF FInv, Outbox
  <2>4. q \notin jobs
    BY <1>1, <2>1 DEF FInv, Outbox, Ended
  <2>5. row' = [row EXCEPT ![Pair(q)] = IF Adds(q) THEN q ELSE NoReq]
    BY <1>1 DEF Commit
  <2>6. {r \in Requests : row'[Pair(r)] = r /\ row[Pair(r)] # r} = IF Adds(q) THEN {q} ELSE {}
    BY <2>1, <2>2, <2>5 DEF TypeOK
  <2>7. jobs' = IF Adds(q) THEN jobs \union {q} ELSE jobs
    BY <1>1, <2>3 DEF Commit
  <2> QED BY <2>4, <2>6, <2>7
<1>2. ASSUME UNCHANGED <<row, jobs>> PROVE Told
  BY <1>2
<1>3. FInv /\ [Next]_vars => [Told]_vars
  <2> SUFFICES ASSUME FInv, Next PROVE Told
    OBVIOUS
  <2>1. ASSUME NEW q \in Requests, \/ Receive(q) \/ Rollback(q) \/ InsertFollowEdge(q)
                \/ DeleteFollowEdge(q) \/ DeleteFindsRowGone(q) \/ DeleteLocksRow(q)
                \/ UpdateFollowingCount(q) \/ UpdateFollowersCount(q)
                \/ EnqueueFollowInboxTx(q) \/ GetFollowCounts(q)
        PROVE  UNCHANGED <<row, jobs>>
    BY <2>1 DEF Receive, Rollback, InsertFollowEdge, DeleteFollowEdge, DeleteFindsRowGone,
       DeleteLocksRow, UpdateFollowingCount, UpdateFollowersCount, EnqueueFollowInboxTx,
       GetFollowCounts, tables
  <2> HIDE DEF Told
  <2> QED BY <1>1, <1>2, <2>1 DEF Next, Statement, NoSuchFollowee, DeadlockVictim
<1> QED BY <1>3, OutboxInvariant, PTL DEF Spec, OutboxFollowsEdges

-----------------------------------------------------------------------------
\* In a deadlock everyone who is waited for waits in turn, so holds the row of
\* its follower and waits for that of its followee.
LEMMA AwaitedWaits ==
  ASSUME IInv, NEW r \in Requests, NEW q \in Requests, NEW p \in Requests,
         WaitsFor(r, q), WaitsFor(q, p)
  PROVE  /\ pc[q] \in {"following", "followers"}
         /\ pc[r] \in {"following", "followers"} => pc[q] = "followers"
<1>1. TypeOK /\ LocksAreHeld /\ Pair(r) \in Pairs /\ call[r].follower \in Users /\ q # NoReq
  BY CallType DEF IInv
<1>2. pc[q] \in {"edge", "lock", "following", "followers"}
  BY DEF WaitsFor
<1>3. CASE pc[r] \in {"edge", "lock"}
  <2>1. edgeLock[Pair(r)] = q
    BY <1>3 DEF WaitsFor
  <2> QED BY <1>1, <1>2, <1>3, <2>1 DEF LocksAreHeld, Wrote
<1>4. CASE pc[r] \in {"following", "followers"}
  <2>1. PICK u \in Users : userLock[u] = q
    BY <1>1, <1>4 DEF WaitsFor
  <2> QED BY <1>1, <1>2, <2>1 DEF LocksAreHeld, WroteFollowing, WroteFollowers
<1> QED BY <1>3, <1>4 DEF WaitsFor

\* Those of a cycle that hold their follower's row deadlock on their own, so
\* they are the whole cycle.
LEMMA CycleFromIInv == IInv => DeadlockIsFollowCycle
<1> SUFFICES ASSUME IInv, NEW S \in SUBSET Requests, WaitCycle(S)
             PROVE  \A r \in S : /\ pc[r] = "followers" /\ userLock[call[r].follower] = r
                                 /\ \E q \in S \ {r} : call[q].follower = call[r].followee
  BY DEF DeadlockIsFollowCycle
<1> DEFINE T == {r \in S : pc[r] = "followers"}
<1>1. S # {} /\ \A r \in S : \E q \in S : WaitsFor(r, q)
  BY DEF WaitCycle, Deadlocked
<1>2. T # {}
  <2>1. PICK a \in S : TRUE
    BY <1>1
  <2>2. PICK b \in S : WaitsFor(a, b)
    BY <1>1
  <2>3. PICK c \in S : WaitsFor(b, c)
    BY <1>1
  <2>4. PICK d \in S : WaitsFor(c, d)
    BY <1>1
  <2>5. pc[b] \in {"following", "followers"}
    BY <2>2, <2>3, AwaitedWaits
  <2>6. pc[c] = "followers"
    BY <2>3, <2>4, <2>5, AwaitedWaits
  <2> QED BY <2>6
<1>3. ASSUME NEW r \in T PROVE \E q \in T : WaitsFor(r, q)
  <2>1. PICK q \in S : WaitsFor(r, q)
    BY <1>1
  <2>2. PICK p \in S : WaitsFor(q, p)
    BY <1>1
  <2>3. pc[q] = "followers"
    BY <2>1, <2>2, AwaitedWaits
  <2> QED BY <2>1, <2>3
<1>4. T = S
  <2>1. Deadlocked(T) /\ T \in SUBSET S
    BY <1>2, <1>3 DEF Deadlocked
  <2> QED BY <2>1 DEF WaitCycle
<1>5. ASSUME NEW r \in S
      PROVE  /\ pc[r] = "followers" /\ userLock[call[r].follower] = r
             /\ \E q \in S \ {r} : call[q].follower = call[r].followee
  <2>1. pc[r] = "followers"
    BY <1>4
  <2>2. userLock[call[r].follower] = r /\ call[r].follower # call[r].followee
    BY <2>1 DEF IInv, Holds, HoldsFollower, Sound, InTransaction, WroteFollowing
  <2>3. PICK q \in S : WaitsFor(r, q)
    BY <1>1
  <2>4. pc[q] = "followers" /\ call[r].followee \in Users /\ userLock[call[r].followee] = q
    BY <1>4, <2>1, <2>3 DEF WaitsFor
  <2>5. call[q].follower = call[r].followee
    BY <2>3, <2>4 DEF IInv, LocksAreHeld, WroteFollowers, WaitsFor
  <2> QED BY <2>1, <2>2, <2>5
<1> QED BY <1>5

\* Follow calls deadlock only in a cycle of follows: A follows B, B follows A.
THEOREM DeadlocksAreCycles == Spec => []DeadlockIsFollowCycle
BY InductiveInvariant, CycleFromIInv, PTL

-----------------------------------------------------------------------------
(***************************************************************************)
(* The refinement of FollowAbs: its status and answer of a call, the step   *)
(* that one of Follow's steps is, or the stutter.                           *)
(***************************************************************************)
LEMMA StatusOf ==
  ASSUME NEW r \in Requests
  PROVE  /\ pc[r] \in {"idle", "done", "failed"} => Status[r] = pc[r]
         /\ pc[r] = "read" => Status[r] = "settled"
         /\ pc[r] = "lock" => Status[r] = IF row[Pair(r)] # seen[r] THEN "settled" ELSE "open"
         /\ pc[r] \in {"edge", "following", "followers", "enqueue", "commit"} => Status[r] = "open"
         /\ pc[r] # "done" => Answer[r] = NoAnswer
         /\ pc[r] = "done" => Answer[r] = <<gotFollowing[r], gotFollowers[r]>>
BY DEF Status, Answer

\* A step that leaves a call, its row and its row's snapshot alone leaves its
\* status and its answer.
LEMMA StatusStays ==
  ASSUME TypeOK, NEW q \in Requests, UNCHANGED call, pc'[q] = pc[q],
         pc[q] = "lock" => row'[Pair(q)] = row[Pair(q)] /\ seen'[q] = seen[q],
         pc[q] = "done" =>
           gotFollowing'[q] = gotFollowing[q] /\ gotFollowers'[q] = gotFollowers[q]
  PROVE  Status'[q] = Status[q] /\ Answer'[q] = Answer[q]
<1>1. Pair(q)' = Pair(q)
  BY DEF Pair
<1>2. pc[q] \in Stages
  BY DEF TypeOK
<1>3. Answer'[q] = Answer[q]
  BY DEF Answer
<1>4. Status'[q] = Status[q]
  <2>1. CASE pc[q] = "lock"
    BY <1>1, <2>1 DEF Status
  <2>2. CASE pc[q] # "lock"
    BY <2>2 DEF Status
  <2> QED BY <2>1, <2>2
<1> QED BY <1>3, <1>4

\* The two functions after a step of r alone.
LEMMA OneMoves ==
  ASSUME NEW r \in Requests,
         \A q \in Requests \ {r} : Status'[q] = Status[q] /\ Answer'[q] = Answer[q]
  PROVE  /\ Status' = [Status EXCEPT ![r] = Status'[r]]
         /\ Answer' = [Answer EXCEPT ![r] = Answer'[r]]
<1>1. /\ Status' = [q \in Requests |-> Status'[q]] /\ Status = [q \in Requests |-> Status[q]]
      /\ Answer' = [q \in Requests |-> Answer'[q]] /\ Answer = [q \in Requests |-> Answer[q]]
  BY DEF Status, Answer
<1> QED BY <1>1

\* A step of r that writes no table changes the status of r, if any, and
\* answers r if it ends it.
LEMMA LocalView ==
  ASSUME IInv, NEW r \in Requests, UNCHANGED <<call, tables>>, ~Ended(r),
         \A q \in Requests \ {r} : /\ pc'[q] = pc[q] /\ seen'[q] = seen[q]
                                  /\ gotFollowing'[q] = gotFollowing[q]
                                  /\ gotFollowers'[q] = gotFollowers[q]
  PROVE  /\ Edges' = Edges /\ jobs' = jobs
         /\ Status' = [Status EXCEPT ![r] = Status'[r]]
         /\ Answer' = [Answer EXCEPT ![r] = Answer'[r]]
         /\ pc'[r] # "done" => Answer' = Answer
         /\ Status'[r] = Status[r] => Status' = Status
<1>1. ASSUME NEW q \in Requests \ {r} PROVE Status'[q] = Status[q] /\ Answer'[q] = Answer[q]
  BY <1>1, StatusStays DEF IInv, tables
<1>2. /\ Status' = [Status EXCEPT ![r] = Status'[r]]
      /\ Answer' = [Answer EXCEPT ![r] = Answer'[r]]
  BY <1>1, OneMoves
<1>3. Status = [Status EXCEPT ![r] = Status[r]] /\ Answer = [Answer EXCEPT ![r] = Answer[r]]
  BY DEF Status, Answer
<1>4. pc'[r] # "done" => Answer'[r] = Answer[r]
  BY DEF Ended, Answer
<1>5. Edges' = Edges /\ jobs' = jobs
  BY DEF Edges, tables
<1> QED BY <1>2, <1>3, <1>4, <1>5

\* The status of r after a step that leaves its row alone.
LEMMA StatusNext ==
  ASSUME NEW r \in Requests
  PROVE  /\ pc'[r] \in {"failed", "done"} => Status'[r] = pc'[r]
         /\ pc'[r] = "read" => Status'[r] = "settled"
         /\ pc'[r] \in {"edge", "following", "followers", "enqueue", "commit"} =>
              Status'[r] = "open"
         /\ pc'[r] = "lock" /\ row'[Pair(r)'] = seen'[r] => Status'[r] = "open"
         /\ pc'[r] = "done" => Answer'[r] = <<gotFollowing'[r], gotFollowers'[r]>>
BY DEF Status, Answer

\* The counters of the two users of a call are FollowAbs's sizes.
LEMMA SizesAreCounts ==
  ASSUME CountsMatchEdges, NEW r \in Requests,
         call[r].follower \in Users, call[r].followee \in Users
  PROVE  Promise!Sizes(Edges, r)
           = <<followingCount[call[r].follower], followersCount[call[r].followee]>>
<1>1. /\ followingCount[call[r].follower] = Cardinality({p \in Edges : p[1] = call[r].follower})
      /\ followersCount[call[r].followee] = Cardinality({p \in Edges : p[2] = call[r].followee})
  BY DEF CountsMatchEdges, Following, Followers
<1> QED BY <1>1 DEF Promise!Sizes, Promise!Cardinality, Cardinality

\* The statements between the first look at the edge and the commit are
\* invisible; the first one opens, fails or settles the call.
LEMMA LocalRefines ==
  ASSUME IInv, NEW r \in Requests, UNCHANGED <<call, tables>>, ~Ended(r),
         pc'[r] # "done",
         \A q \in Requests \ {r} : /\ pc'[q] = pc[q] /\ seen'[q] = seen[q]
                                  /\ gotFollowing'[q] = gotFollowing[q]
                                  /\ gotFollowers'[q] = gotFollowers[q],
         \/ Status'[r] = Status[r]
         \/ Status[r] = "idle" /\ Status'[r] = "open"
         \/ Status[r] \in {"idle", "open", "settled"} /\ Status'[r] = "failed"
         \/ /\ Status[r] = "open" /\ Status'[r] = "settled"
            /\ (Pair(r) \in Edges) = (call[r].action = "ADD")
  PROVE  [Promise!Next]_(Promise!vars)
<1>1. /\ UNCHANGED <<call, Edges, jobs, Answer>>
      /\ Status' = [Status EXCEPT ![r] = Status'[r]]
      /\ Status'[r] = Status[r] => Status' = Status
  BY LocalView
<1>2. CASE Status'[r] = Status[r]
  BY <1>1, <1>2 DEF Promise!vars
<1>3. CASE Status[r] = "idle" /\ Status'[r] = "open"
  <2>1. Promise!Open(r)
    BY <1>1, <1>3 DEF Promise!Open
  <2> QED BY <2>1 DEF Promise!Next
<1>4. CASE Status[r] \in {"idle", "open", "settled"} /\ Status'[r] = "failed"
  <2>1. Promise!Fail(r)
    BY <1>1, <1>4 DEF Promise!Fail
  <2> QED BY <2>1 DEF Promise!Next
<1>5. CASE /\ Status[r] = "open" /\ Status'[r] = "settled"
           /\ (Pair(r) \in Edges) = (call[r].action = "ADD")
  <2>1. Promise!Granted(r)
    BY <1>5 DEF Promise!Granted, Promise!Pair, Pair
  <2>2. Promise!Settle(r)
    BY <1>1, <1>5, <2>1 DEF Promise!Settle
  <2> QED BY <2>2 DEF Promise!Next
<1> QED BY <1>2, <1>3, <1>4, <1>5

\* GetFollowCounts reports the two sides of the relation as it is then.
LEMMA ReportRefines ==
  ASSUME IInv, NEW r \in Requests, GetFollowCounts(r)
  PROVE  Promise!Report(r)
<1>1. /\ pc[r] = "read" /\ pc'[r] = "done" /\ UNCHANGED <<call, seen, tables>>
      /\ call[r].followee \in Users /\ call[r].follower \in Users
      /\ gotFollowing'[r] = followingCount[call[r].follower]
      /\ gotFollowers'[r] = followersCount[call[r].followee]
      /\ \A q \in Requests \ {r} : /\ pc'[q] = pc[q]
                                   /\ gotFollowing'[q] = gotFollowing[q]
                                   /\ gotFollowers'[q] = gotFollowers[q]
  BY CallType DEF GetFollowCounts, Goto, IInv, TypeOK
<1>2. /\ UNCHANGED <<call, Edges, jobs>>
      /\ Status' = [Status EXCEPT ![r] = Status'[r]]
      /\ Answer' = [Answer EXCEPT ![r] = Answer'[r]]
  BY <1>1, LocalView DEF Ended
<1>3. Status[r] = "settled" /\ Status'[r] = "done"
  BY <1>1, StatusOf, StatusNext
<1>4. Answer'[r] = Promise!Sizes(Edges, r)
  <2>1. Answer'[r] = <<followingCount[call[r].follower], followersCount[call[r].followee]>>
    BY <1>1, StatusNext
  <2> QED BY <1>1, <2>1, SizesAreCounts DEF IInv
<1> QED BY <1>1, <1>2, <1>3, <1>4 DEF Promise!Report

\* A commit changes the relation, with its announcement and its answer, and
\* settles the calls that had the very same row in their snapshots.
LEMMA CommitRefines ==
  ASSUME FInv, FInv', NEW r \in Requests, Commit(r)
  PROVE  Promise!Change(r)
<1>1. /\ TypeOK /\ pc[r] = "commit" /\ UNCHANGED <<call, seen, gotFollowing, gotFollowers>>
      /\ Pair(r) \in Pairs /\ call[r].follower \in Users /\ call[r].followee \in Users
      /\ row[Pair(r)] = NoReq <=> Adds(r)
      /\ Adds(r) \/ Removes(r)
  BY CallType DEF FInv, IInv, Holds, HoldsEdge, HoldsFollowee, Sound, InTransaction, Commit,
     Wrote, WroteFollowers
<1>2. PICK end \in {"done", "failed"} : \A q \in Requests : pc'[q] = IF q = r THEN end ELSE pc[q]
  BY DEF Commit, Goto, FInv, IInv, TypeOK
<1>3. row' = [row EXCEPT ![Pair(r)] = IF Adds(r) THEN r ELSE NoReq] /\ r # NoReq
  BY <1>1, CallType DEF Commit
<1>4. /\ Edges' = IF Adds(r) THEN Edges \union {Pair(r)} ELSE Edges \ {Pair(r)}
      /\ Pair(r) \in Edges <=> ~Adds(r)
  BY CommitEdges DEF FInv
<1>5. jobs' = IF Adds(r) THEN jobs \union {r} ELSE jobs
  BY <1>1 DEF FInv, Outbox, Commit
<1>6. ~Promise!Granted(r)
  BY <1>4 DEF Promise!Granted, Promise!Pair, Pair, Adds
<1>7. Status[r] = "open" /\ Status'[r] = end
  BY <1>1, <1>2, StatusOf, StatusNext
<1> DEFINE S == {q \in Requests \ {r} : Status'[q] # Status[q]}
<1>8. ASSUME NEW q \in S
      PROVE  Status[q] = "open" /\ call[q] = call[r] /\ Status'[q] = "settled"
  <2>1. pc'[q] = pc[q] /\ Pair(q)' = Pair(q) /\ Pair(q) \in Pairs
    BY <1>1, <1>2, CallType DEF Pair
  <2>2. pc[q] = "lock" /\ row'[Pair(q)] # row[Pair(q)]
    BY <1>1, <2>1, StatusStays
  <2>3. Pair(q) = Pair(r)
    BY <1>1, <1>3, <2>1, <2>2 DEF TypeOK
  <2>4. seen[q] # NoReq /\ seen[q] # r /\ Removes(q)
    BY <1>1, <2>2 DEF FInv, IInv, Holds, Sound, InTransaction, Inserted, Ended
  <2>5. row'[Pair(q)] # seen[q]
    BY <1>1, <1>3, <2>3, <2>4 DEF TypeOK
  <2>6. Status'[q] = "settled"
    BY <1>1, <2>1, <2>2, <2>5 DEF Status
  <2>7. Status[q] = "open" /\ row[Pair(q)] = seen[q]
    BY <2>2, <2>6, StatusOf
  <2>8. Removes(r)
    BY <1>1, <2>3, <2>4, <2>7 DEF Adds, Removes
  <2>9. call[q].follower = call[r].follower /\ call[q].followee = call[r].followee
    BY <2>3 DEF Pair
  <2>10. call[q] = call[r]
    <3>1. call[q] \in [follower : Users, followee : Uids, action : Actions]
          /\ call[r] \in [follower : Users, followee : Uids, action : Actions]
      BY <1>1, CallsTyped DEF TypeOK
    <3> QED BY <2>4, <2>8, <2>9, <3>1 DEF Removes
  <2> QED BY <2>6, <2>7, <2>10
<1>9. S \in SUBSET {q \in Requests \ {r} : Status[q] = "open" /\ call[q] = call[r]}
  BY <1>8
<1>10. Status' = [q \in Requests |-> IF q = r THEN end
                                     ELSE IF q \in S THEN "settled" ELSE Status[q]]
  <2>1. Status' = [q \in Requests |-> Status'[q]]
    BY DEF Status
  <2>2. \A q \in Requests : Status'[q] = IF q = r THEN end
                                         ELSE IF q \in S THEN "settled" ELSE Status[q]
    BY <1>7, <1>8
  <2> QED BY <2>1, <2>2
<1>11. Answer' = IF end = "done" THEN [Answer EXCEPT ![r] = Promise!Sizes(Edges', r)] ELSE Answer
  <2>1. \A q \in Requests \ {r} : Answer'[q] = Answer[q]
    BY <1>1, <1>2 DEF Answer
  <2>2. Answer'[r] = IF end = "done" THEN <<gotFollowing[r], gotFollowers[r]>> ELSE Answer[r]
    BY <1>1, <1>2 DEF Answer
  <2>3. Promise!Sizes(Edges', r) = <<gotFollowing[r], gotFollowers[r]>>
    <3>1. /\ followingCount'[call[r].follower] = gotFollowing[r]
          /\ followersCount'[call[r].followee] = gotFollowers[r]
      BY <1>1 DEF Commit, TypeOK
    <3>2. /\ followingCount'[call[r].follower]
               = Cardinality({p \in Edges' : p[1] = call[r].follower})
          /\ followersCount'[call[r].followee]
               = Cardinality({p \in Edges' : p[2] = call[r].followee})
      BY <1>1 DEF FInv, IInv, CountsMatchEdges, Following, Followers
    <3> QED BY <3>1, <3>2 DEF Promise!Sizes, Promise!Cardinality, Cardinality
  <2>4. /\ Answer' = [q \in Requests |-> Answer'[q]]
        /\ Answer = [q \in Requests |-> Answer[q]]
    BY DEF Answer
  <2> QED BY <2>1, <2>2, <2>3, <2>4
<1> HIDE DEF S
<1> QED
  BY <1>1, <1>4, <1>5, <1>6, <1>7, <1>9, <1>10, <1>11 DEF Promise!Change, Promise!Pair, Pair, Adds

LEMMA InitRefines == Init => Promise!Init
<1> SUFFICES ASSUME Init PROVE Promise!Init
  OBVIOUS
<1>1. Edges = {} /\ jobs = {} /\ call \in [Requests -> CallSpace]
  BY DEF Init, Edges
<1>2. Status = [r \in Requests |-> "idle"] /\ Answer = [r \in Requests |-> NoAnswer]
  BY DEF Init, Status, Answer
<1> QED BY <1>1, <1>2 DEF Promise!Init

\* One step per action: the step of FollowAbs it is.
LEMMA NextRefines ==
  ASSUME FInv, FInv', [Next]_vars
  PROVE  [Promise!Next]_(Promise!vars)
<1>0. TypeOK /\ Holds
  BY DEF FInv, IInv
<1>1. ASSUME NEW r \in Requests, Receive(r) PROVE [Promise!Next]_(Promise!vars)
  <2>1. /\ \A q \in Requests \ {r} : pc'[q] = pc[q]
        /\ pc[r] = "idle" /\ pc'[r] \in {"failed", "edge"}
    BY <1>0, <1>1 DEF Receive, Goto, TypeOK
  <2>2. Status[r] = "idle" /\ Status'[r] \in {"failed", "open"}
    BY <2>1, StatusOf, StatusNext
  <2> QED BY <1>1, <2>1, <2>2, LocalRefines DEF FInv, Receive, Ended
<1>2. ASSUME NEW r \in Requests, InsertFollowEdge(r) PROVE [Promise!Next]_(Promise!vars)
  <2>1. /\ \A q \in Requests \ {r} : pc'[q] = pc[q]
        /\ pc[r] = "edge" /\ Adds(r)
        /\ pc'[r] = IF row[Pair(r)] = NoReq THEN "following" ELSE "read"
    BY <1>0, <1>2 DEF InsertFollowEdge, Goto, TypeOK
  <2>2. /\ Status[r] = "open"
        /\ Status'[r] = IF row[Pair(r)] = NoReq THEN "open" ELSE "settled"
    BY <2>1, StatusOf, StatusNext
  <2>3. row[Pair(r)] # NoReq => (Pair(r) \in Edges) = (call[r].action = "ADD")
    BY <1>0, <2>1, CallType DEF Edges, Adds
  <2> QED BY <1>2, <2>1, <2>2, <2>3, LocalRefines DEF FInv, InsertFollowEdge, Ended
<1>3. ASSUME NEW r \in Requests, DeleteFollowEdge(r) PROVE [Promise!Next]_(Promise!vars)
  <2>1. /\ \A q \in Requests \ {r} : pc'[q] = pc[q] /\ seen'[q] = seen[q]
        /\ pc[r] = "edge" /\ Removes(r) /\ seen'[r] = row[Pair(r)]
        /\ pc'[r] = IF row[Pair(r)] = NoReq THEN "read" ELSE "lock"
    BY <1>0, <1>3 DEF DeleteFollowEdge, Goto, TypeOK
  <2>2. row'[Pair(r)'] = seen'[r]
    BY <1>3, <2>1 DEF DeleteFollowEdge, tables, Pair
  <2>3. /\ Status[r] = "open"
        /\ Status'[r] = IF row[Pair(r)] = NoReq THEN "settled" ELSE "open"
    BY <2>1, <2>2, StatusOf, StatusNext
  <2>4. row[Pair(r)] = NoReq => (Pair(r) \in Edges) = (call[r].action = "ADD")
    BY <2>1 DEF Edges, Removes
  <2> QED BY <1>3, <2>1, <2>3, <2>4, LocalRefines DEF FInv, DeleteFollowEdge, Ended
<1>4. ASSUME NEW r \in Requests, DeleteFindsRowGone(r) PROVE [Promise!Next]_(Promise!vars)
  <2>1. /\ \A q \in Requests \ {r} : pc'[q] = pc[q]
        /\ pc[r] = "lock" /\ pc'[r] = "read" /\ row[Pair(r)] # seen[r]
    BY <1>0, <1>4 DEF DeleteFindsRowGone, Goto, TypeOK
  <2>2. Status[r] = "settled" /\ Status'[r] = "settled"
    BY <2>1, StatusOf, StatusNext
  <2> QED BY <1>4, <2>1, <2>2, LocalRefines DEF FInv, DeleteFindsRowGone, Ended
<1>5. ASSUME NEW r \in Requests, DeleteLocksRow(r) PROVE [Promise!Next]_(Promise!vars)
  <2>1. /\ \A q \in Requests \ {r} : pc'[q] = pc[q]
        /\ pc[r] = "lock" /\ pc'[r] = "following" /\ row[Pair(r)] = seen[r]
    BY <1>0, <1>5 DEF DeleteLocksRow, Goto, TypeOK
  <2>2. Status[r] = "open" /\ Status'[r] = "open"
    BY <2>1, StatusOf, StatusNext
  <2> QED BY <1>5, <2>1, <2>2, LocalRefines DEF FInv, DeleteLocksRow, Ended
<1>6. ASSUME NEW r \in Requests,
             UpdateFollowingCount(r) \/ UpdateFollowersCount(r) \/ EnqueueFollowInboxTx(r)
      PROVE  [Promise!Next]_(Promise!vars)
  <2>1. /\ \A q \in Requests \ {r} : /\ pc'[q] = pc[q]
                                     /\ gotFollowing'[q] = gotFollowing[q]
                                     /\ gotFollowers'[q] = gotFollowers[q]
        /\ pc[r] \in {"following", "followers", "enqueue"}
        /\ pc'[r] \in {"followers", "enqueue", "commit"}
        /\ UNCHANGED <<call, seen, tables>>
    BY <1>0, <1>6 DEF UpdateFollowingCount, UpdateFollowersCount, EnqueueFollowInboxTx, Goto, TypeOK
  <2>2. Status[r] = "open" /\ Status'[r] = "open"
    BY <2>1, StatusOf, StatusNext
  <2> QED BY <2>1, <2>2, LocalRefines DEF FInv, Ended
<1>7. ASSUME NEW r \in Requests, Rollback(r) PROVE [Promise!Next]_(Promise!vars)
  <2>1. /\ \A q \in Requests \ {r} : pc'[q] = pc[q]
        /\ pc[r] \in Stages \ {"idle", "done", "failed"} /\ pc'[r] = "failed"
        /\ UNCHANGED <<call, seen, gotFollowing, gotFollowers, tables>>
    BY <1>0, <1>7 DEF Rollback, InTransaction, Goto, TypeOK
  <2>2. Status[r] \in {"open", "settled"} /\ Status'[r] = "failed"
    BY <2>1, StatusOf, StatusNext DEF Stages
  <2> QED BY <2>1, <2>2, LocalRefines DEF FInv, Ended
<1>8. ASSUME NEW r \in Requests, GetFollowCounts(r) PROVE [Promise!Next]_(Promise!vars)
  BY <1>8, ReportRefines DEF FInv, Promise!Next
<1>9. ASSUME NEW r \in Requests, Commit(r) PROVE [Promise!Next]_(Promise!vars)
  BY <1>9, CommitRefines DEF Promise!Next
<1>10. CASE UNCHANGED vars
  BY <1>10 DEF vars, tx, tables, Promise!vars, Edges, Status, Answer, Pair
<1> QED
  BY <1>1, <1>2, <1>3, <1>4, <1>5, <1>6, <1>7, <1>8, <1>9, <1>10
  DEF Next, Statement, NoSuchFollowee, DeadlockVictim

\* Follow implements FollowAbs: without transactions, counters or locks, a
\* call changes the relation, tells the followee and is answered in one step.
THEOREM Refinement == Spec => ImplementsPromise
<1>1. Init => Promise!Init
  BY InitRefines
<1>2. FInv /\ FInv' /\ [Next]_vars => [Promise!Next]_(Promise!vars)
  BY NextRefines
<1> QED BY <1>1, <1>2, OutboxInvariant, PTL DEF Spec, ImplementsPromise, Promise!Spec
=============================================================================
