--------------------------- MODULE CommentsProofs ----------------------------
(***************************************************************************)
(* Comment threads for every set of users, posts and calls.                 *)
(*                                                                         *)
(* As in EngagementProofs, a transaction commits a counter it computed      *)
(* earlier, under the lock of the counter's row.  New here are that a       *)
(* deletion holds two locks, the comment's and the counter's, and that a    *)
(* comment is placed (its post and root are read) by statements that lock   *)
(* nothing: what keeps a thread flat is that rows never leave the table.    *)
(***************************************************************************)
EXTENDS Comments, FiniteSetTheorems, TLAPS

\* The statements after the first write, and after the write of the counter.
Wrote      == {"count", "enqueue", "commit"}
WroteCount == {"enqueue", "commit"}

\* The calls that change a counter.
Counts(r) == Creates(r) \/ call[r].kind = "delete"

Committed(c) == status[c] # "absent"

\* Where a comment is, once it has been inserted.
Placed(c) ==
  /\ Creates(c) /\ post[c] \in Posts
  /\ call[c].kind = "top" => root[c] = c
  /\ call[c].kind = "reply" =>
       /\ Committed(Target(c)) /\ root[Target(c)] = root[c]
       /\ Committed(root[c]) /\ call[root[c]].kind = "top"
       /\ root[root[c]] = root[c] /\ post[root[c]] = post[c]

\* The value r commits, computed from the committed n.
Recounted(r, n) == IF Creates(r) THEN n + 1 ELSE Decremented(n)

\* Whoever holds a lock is a transaction that has written what it locks.
LocksAreHeld ==
  \A x \in Rows : lock[x] # None =>
    \/ /\ pc[lock[x]] \in Wrote /\ ~Creates(lock[x])
       /\ Target(lock[x]) = x
    \/ /\ pc[lock[x]] \in WroteCount /\ Counts(lock[x])
       /\ CounterOf(Subject(lock[x])) = x

\* A deletion or a change of the post has its row, and it is still NORMAL.
HoldsTarget(r) ==
  pc[r] \in Wrote /\ ~Creates(r) => lock[Target(r)] = r /\ Live(Target(r))

HoldsCounter(r) ==
  pc[r] \in WroteCount /\ Counts(r) =>
    LET x == CounterOf(Subject(r))
    IN  lock[x] = r /\ Live(x) /\ got[r] = Recounted(r, count[x])

\* What the statements so far have established of the call.
Sound(r) ==
  /\ pc[r] = "meta" => call[r].kind \in {"reply", "delete"}
  /\ pc[r] = "read" => call[r].kind = "top"
  /\ pc[r] = "insert" => Creates(r) /\ (call[r].kind = "reply" => Committed(Target(r)))
  /\ pc[r] = "write" => ~Creates(r)
  /\ pc[r] = "count" => Counts(r)
  /\ pc[r] \in Wrote /\ Creates(r) => Placed(r)
  /\ Committed(r) => Ended(r) /\ Placed(r)

\* Jobs are staged by the last statement before the commit.
Outbox(r) ==
  /\ r \in staged <=> pc[r] = "commit"
  /\ r \in search => Ended(r)

Good(r) == HoldsTarget(r) /\ HoldsCounter(r) /\ Sound(r) /\ Outbox(r)

IInv ==
  /\ TypeOK /\ LocksAreHeld
  /\ \A r \in Requests : Good(r)
  /\ CountsMatchLive /\ InboxMatchesComments
-----------------------------------------------------------------------------
Stages == {"idle", "meta", "read", "insert", "write", "count", "enqueue", "commit",
           "done", "failed"}

\* What the constants say of a call.
LEMMA CallType ==
  ASSUME TypeOK, NEW r \in Requests
  PROVE  /\ r # None /\ r \in Rows /\ r \notin Posts
         /\ call[r].kind \in Kinds /\ Target(r) \in Rows
         /\ Target(r) \in Posts <=> call[r].kind \in PostKinds
         /\ ~Creates(r) => Subject(r) = Target(r)
         /\ Creates(r) => Subject(r) = r
BY CallsTyped, RowsFinite, NoneIsNew DEF TypeOK, Target, Subject, Rows

\* The row that counts a placed comment is a post or another, committed one.
LEMMA CounterType ==
  ASSUME TypeOK, NEW c \in Requests, Placed(c)
  PROVE  /\ CounterOf(c) \in Rows /\ CounterOf(c) # c
         /\ IF call[c].kind = "top" THEN CounterOf(c) = post[c]
            ELSE call[c].kind = "reply" /\ CounterOf(c) = root[c] /\ root[c] \in Requests
<1>1. c \notin Posts /\ Creates(c) /\ post[c] \in Posts /\ root[c] \in Requests
  BY CallType DEF Placed, TypeOK
<1>2. CASE call[c].kind = "top"
  BY <1>1, <1>2 DEF Placed, CounterOf, Rows
<1>3. CASE call[c].kind = "reply"
  <2>1. root[c] # c
    BY <1>3 DEF Placed
  <2> QED BY <1>1, <1>3, <2>1 DEF CounterOf, Rows
<1> QED BY <1>1, <1>2, <1>3 DEF Creates

\* A call that changes a counter knows its row from the write of its own on.
LEMMA CounterKnown ==
  ASSUME TypeOK, \A q \in Requests : Good(q),
         NEW r \in Requests, pc[r] \in Wrote, Counts(r)
  PROVE  /\ Subject(r) \in Requests /\ Placed(Subject(r))
         /\ CounterOf(Subject(r)) \in Rows /\ CounterOf(Subject(r)) # Subject(r)
<1>1. CASE Creates(r)
  BY <1>1, CallType, CounterType DEF Good, Sound
<1>2. CASE ~Creates(r)
  <2>1. Target(r) \in Requests /\ Subject(r) = Target(r)
    BY <1>2, CallType DEF Counts, Rows, PostKinds
  <2>2. Committed(Target(r))
    BY <1>2 DEF Good, HoldsTarget, Live, Committed
  <2>3. Placed(Target(r))
    BY <2>1, <2>2 DEF Good, Sound
  <2> QED BY <2>1, <2>3, CounterType
<1> QED BY <1>1, <1>2

LEMMA InitIInv == Init => IInv
<1> SUFFICES ASSUME Init PROVE IInv
  OBVIOUS
<1>1. TypeOK
  BY RowsFinite DEF Init, TypeOK, Rows
<1>2. LocksAreHeld
  BY DEF Init, LocksAreHeld
<1>3. \A r \in Requests : status[r] = "absent"
  BY RowsFinite DEF Init, Rows
<1>4. \A r \in Requests : Good(r)
  BY <1>3 DEF Init, Good, HoldsTarget, HoldsCounter, Sound, Outbox, Committed, Wrote, WroteCount
<1>5. \A x \in Rows : Counted(x) = {}
  BY <1>3 DEF Counted, Live
<1>6. CountsMatchLive
  BY <1>5, FS_EmptySet DEF CountsMatchLive, Init
<1>7. InboxMatchesComments
  BY <1>3 DEF InboxMatchesComments, Init
<1> QED BY <1>1, <1>2, <1>4, <1>6, <1>7 DEF IInv

-----------------------------------------------------------------------------
(***************************************************************************)
(* What a step of r leaves to the transaction of another call q.            *)
(***************************************************************************)

\* No row leaves the table, and only an insert places a comment.
RowsStay ==
  /\ \A x \in Rows : Committed(x) => Committed(x)'
  /\ \A c \in Requests : pc[c] # "insert" => post'[c] = post[c] /\ root'[c] = root[c]

LEMMA PlacedStays ==
  ASSUME TypeOK, \A q \in Requests : Good(q), call' = call, RowsStay,
         NEW c \in Requests, Placed(c), pc[c] # "insert"
  PROVE  Placed(c)' /\ CounterOf(c)' = CounterOf(c)
<1>1. post'[c] = post[c] /\ root'[c] = root[c] /\ root[c] \in Requests
  BY DEF RowsStay, TypeOK
<1>2. ASSUME NEW d \in Requests, Committed(d)
      PROVE  Committed(d)' /\ post'[d] = post[d] /\ root'[d] = root[d]
  <2>1. pc[d] # "insert"
    BY <1>2 DEF Good, Sound, Ended
  <2> QED BY <1>2, <2>1 DEF RowsStay, Rows
<1>3. Creates(c)' = Creates(c) /\ Target(c)' = Target(c)
  BY DEF Creates, Target
<1>4. call[c].kind = "reply" => Target(c) \in Requests
  BY CallType DEF Rows, PostKinds
<1> QED BY <1>1, <1>2, <1>3, <1>4 DEF Placed, CounterOf

\* The row whose counter a transaction writes stays the same.
LEMMA CounterStays ==
  ASSUME TypeOK, \A q \in Requests : Good(q), call' = call, RowsStay,
         NEW r \in Requests, pc[r] \in Wrote, Counts(r)
  PROVE  CounterOf(Subject(r))' = CounterOf(Subject(r))
<1>1. Subject(r) \in Requests /\ Placed(Subject(r))
  BY CounterKnown
<1>2. pc[Subject(r)] # "insert"
  <2>1. CASE Creates(r)
    BY <2>1 DEF Wrote, Subject
  <2>2. CASE ~Creates(r)
    BY <1>1, <2>2 DEF Good, HoldsTarget, Sound, Ended, Subject, Live, Committed
  <2> QED BY <2>1, <2>2
<1>3. Subject(r)' = Subject(r)
  BY DEF Subject, Creates, Target
<1> QED BY <1>1, <1>2, <1>3, PlacedStays

LEMMA OthersStayGood ==
  ASSUME TypeOK, \A p \in Requests : Good(p), call' = call, RowsStay,
         NEW q \in Requests, pc'[q] = pc[q], got'[q] = got[q],
         q \in staged' <=> q \in staged, q \in search' <=> q \in search,
         Committed(q)' => Committed(q),
         pc[q] \in Wrote /\ ~Creates(q) =>
           lock'[Target(q)] = q /\ status'[Target(q)] = status[Target(q)],
         pc[q] \in WroteCount /\ Counts(q) =>
           LET x == CounterOf(Subject(q))
           IN  lock'[x] = q /\ status'[x] = status[x] /\ count'[x] = count[x]
  PROVE  Good(q)'
<1>1. /\ (Creates(q)' <=> Creates(q)) /\ (Counts(q)' <=> Counts(q)) /\ (Ended(q)' <=> Ended(q))
      /\ Target(q)' = Target(q) /\ Subject(q)' = Subject(q)
  BY DEF Creates, Counts, Ended, Target, Subject
<1>2. HoldsTarget(q)'
  BY <1>1 DEF Good, HoldsTarget, Live
<1>3. HoldsCounter(q)'
  <2> SUFFICES ASSUME pc[q] \in WroteCount, Counts(q)
               PROVE  HoldsCounter(q)'
    BY <1>1 DEF HoldsCounter
  <2>1. CounterOf(Subject(q))' = CounterOf(Subject(q))
    BY CounterStays DEF Wrote, WroteCount
  <2> QED BY <1>1, <2>1 DEF Good, HoldsCounter, Live, Recounted
<1>4. Sound(q)'
  <2>1. (pc[q] \in Wrote /\ Creates(q)) \/ Committed(q) => Placed(q)'
    BY PlacedStays DEF Good, Sound, Ended, Wrote
  <2>2. pc[q] = "insert" /\ call[q].kind = "reply" => Committed(Target(q))'
    BY <1>1, CallType DEF Good, Sound, RowsStay, Committed
  <2> QED BY <1>1, <2>1, <2>2 DEF Good, Sound
<1>5. Outbox(q)'
  BY <1>1 DEF Good, Outbox
<1> QED BY <1>2, <1>3, <1>4, <1>5 DEF Good

\* The counters and the inbox, when no committed row has changed.
LEMMA TablesStay ==
  ASSUME IInv, call' = call, RowsStay, UNCHANGED <<status, count, inbox>>
  PROVE  CountsMatchLive' /\ InboxMatchesComments'
<1>1. ASSUME NEW c \in Requests, Live(c) PROVE CounterOf(c)' = CounterOf(c)
  <2>1. pc[c] # "insert" /\ Placed(c)
    BY <1>1 DEF IInv, Good, Sound, Ended, Live, Committed
  <2> QED BY <2>1, PlacedStays DEF IInv
<1>2. \A x \in Rows : Counted(x)' = Counted(x)
  BY <1>1 DEF Counted, Live
<1>3. CountsMatchLive'
  BY <1>2 DEF IInv, CountsMatchLive
<1>4. InboxMatchesComments'
  BY DEF IInv, InboxMatchesComments, Receiver, Author, Target
<1> QED BY <1>3, <1>4

\* A step of r that touches no committed row and no lock.
LEMMA LocalStep ==
  ASSUME IInv, TypeOK', NEW r \in Requests, NEW to \in Stages,
         Goto(r, to), RowsStay, UNCHANGED <<call, status, count, inbox, search, lock>>,
         \A q \in Requests \ {r} : got'[q] = got[q] /\ (q \in staged' <=> q \in staged),
         pc[r] \notin Wrote \/ (pc[r] = "enqueue" /\ to = "commit"),
         Good(r)'
  PROVE  IInv'
<1>0. TypeOK /\ \A q \in Requests : Good(q)
  BY DEF IInv
<1>1. \A q \in Requests : pc'[q] = IF q = r THEN to ELSE pc[q]
  BY <1>0 DEF Goto, TypeOK
<1>2. ASSUME NEW q \in Requests PROVE Good(q)'
  <2>1. CASE q # r
    <3>1. Committed(q)' => Committed(q)
      BY DEF Committed
    <3> QED BY <2>1, <3>1, <1>0, <1>1, OthersStayGood DEF Good, HoldsTarget, HoldsCounter
  <2> QED BY <2>1
<1>3. ASSUME NEW x \in Rows, lock[x] # None
      PROVE  \/ /\ pc'[lock[x]] \in Wrote /\ ~Creates(lock[x])' /\ Target(lock[x])' = x
             \/ /\ pc'[lock[x]] \in WroteCount /\ Counts(lock[x])'
                /\ CounterOf(Subject(lock[x]))' = x
  <2> DEFINE q == lock[x]
  <2>1. q \in Requests
    BY <1>0, <1>3 DEF TypeOK
  <2>2. /\ pc[q] \in Wrote => pc'[q] \in Wrote
        /\ pc[q] \in WroteCount => pc'[q] \in WroteCount
    BY <2>1, <1>1 DEF Wrote, WroteCount
  <2>3. /\ (Creates(q)' <=> Creates(q)) /\ (Counts(q)' <=> Counts(q)) /\ Target(q)' = Target(q)
    BY DEF Creates, Counts, Target
  <2>4. CASE pc[q] \in Wrote /\ ~Creates(q) /\ Target(q) = x
    BY <2>2, <2>3, <2>4
  <2>5. CASE pc[q] \in WroteCount /\ Counts(q) /\ CounterOf(Subject(q)) = x
    <3>1. CounterOf(Subject(q))' = x
      BY <1>0, <2>1, <2>5, CounterStays DEF Wrote, WroteCount
    <3> QED BY <2>2, <2>3, <2>5, <3>1
  <2> QED BY <1>3, <2>4, <2>5 DEF IInv, LocksAreHeld
<1>4. LocksAreHeld'
  BY <1>3 DEF LocksAreHeld
<1> QED BY <1>2, <1>4, TablesStay DEF IInv

\* A write of r takes the lock of row y.
LEMMA LockStep ==
  ASSUME IInv, TypeOK', NEW r \in Requests, NEW y \in Rows, NEW to \in Wrote,
         pc[r] \in {"write", "count"}, Goto(r, to),
         Free(y), lock' = [lock EXCEPT ![y] = r],
         \/ ~Creates(r) /\ Target(r) = y
         \/ to \in WroteCount /\ Counts(r) /\ CounterOf(Subject(r)) = y,
         UNCHANGED <<call, staged, tables>>,
         \A q \in Requests \ {r} : got'[q] = got[q],
         Good(r)'
  PROVE  IInv'
<1>0. TypeOK /\ (\A q \in Requests : Good(q)) /\ r # None
  BY NoneIsNew DEF IInv, Rows
<1>1. \A q \in Requests : pc'[q] = IF q = r THEN to ELSE pc[q]
  BY <1>0 DEF Goto, TypeOK
<1>2. \A x \in Rows : lock'[x] = IF x = y THEN r ELSE lock[x]
  BY <1>0 DEF TypeOK
<1>3. RowsStay
  BY DEF RowsStay, Committed, tables
<1>4. ASSUME NEW q \in Requests PROVE Good(q)'
  <2>1. CASE q # r
    <3>1. pc[q] \in Wrote /\ ~Creates(q) => Target(q) \in Rows /\ Target(q) # y
      BY <1>0, CallType DEF Good, HoldsTarget, Free
    <3>2. pc[q] \in WroteCount /\ Counts(q) =>
            CounterOf(Subject(q)) \in Rows /\ CounterOf(Subject(q)) # y
      BY <1>0, CounterKnown, NoneIsNew DEF Good, HoldsCounter, Free, Wrote, WroteCount, Rows
    <3>3. Committed(q)' => Committed(q)
      BY DEF Committed, tables
    <3>4. /\ pc[q] \in Wrote /\ ~Creates(q) =>
               lock'[Target(q)] = q /\ status'[Target(q)] = status[Target(q)]
          /\ pc[q] \in WroteCount /\ Counts(q) =>
               LET x == CounterOf(Subject(q))
               IN  lock'[x] = q /\ status'[x] = status[x] /\ count'[x] = count[x]
      BY <1>0, <1>2, <3>1, <3>2 DEF tables, Good, HoldsTarget, HoldsCounter
    <3> QED BY <2>1, <3>3, <3>4, <1>0, <1>1, <1>3, OthersStayGood DEF tables
  <2> QED BY <2>1
<1>5. ASSUME NEW x \in Rows, lock'[x] # None
      PROVE  \/ /\ pc'[lock'[x]] \in Wrote /\ ~Creates(lock[x])' /\ Target(lock[x])' = x
             \/ /\ pc'[lock'[x]] \in WroteCount /\ Counts(lock[x])'
                /\ CounterOf(Subject(lock[x]))' = x
  <2> DEFINE q == lock'[x]
  <2>1. q \in Requests
    BY <1>5 DEF TypeOK
  <2>2. /\ pc[q] \in Wrote => pc'[q] \in Wrote
        /\ pc[q] \in WroteCount => pc'[q] \in WroteCount
        /\ q = r => pc'[q] = to
    BY <2>1, <1>1 DEF WroteCount
  <2>3. /\ (Creates(lock[x])' <=> Creates(q)) /\ (Counts(lock[x])' <=> Counts(q))
        /\ Target(lock[x])' = Target(q)
        /\ CounterOf(Subject(lock[x]))' = CounterOf(Subject(q))
    BY DEF Creates, Counts, Target, CounterOf, Subject, tables
  <2>4. CASE x = y
    BY <2>2, <2>3, <2>4, <1>2
  <2>5. CASE x # y
    BY <2>2, <2>3, <2>5, <1>2, <1>5 DEF IInv, LocksAreHeld
  <2> QED BY <2>4, <2>5
<1>6. LocksAreHeld'
  BY <1>5 DEF LocksAreHeld
<1> QED BY <1>3, <1>4, <1>6, TablesStay DEF IInv, tables

\* When r ends, its locks are freed and the others keep theirs.
LEMMA ReleaseStep ==
  ASSUME IInv, TypeOK', NEW r \in Requests, NEW end \in {"done", "failed"},
         Goto(r, end), Release(r), UNCHANGED <<call, post, root>>
  PROVE  LocksAreHeld'
<1>1. \A q \in Requests : pc'[q] = IF q = r THEN end ELSE pc[q]
  BY DEF Goto, IInv, TypeOK
<1>2. ASSUME NEW x \in Rows, lock'[x] # None
      PROVE  \/ /\ pc'[lock'[x]] \in Wrote /\ ~Creates(lock[x])' /\ Target(lock[x])' = x
             \/ /\ pc'[lock'[x]] \in WroteCount /\ Counts(lock[x])'
                /\ CounterOf(Subject(lock[x]))' = x
  <2> DEFINE q == lock'[x]
  <2>1. q = lock[x] /\ q # r /\ q \in Requests
    BY <1>2 DEF Release, IInv, TypeOK
  <2>2. /\ (Creates(lock[x])' <=> Creates(q)) /\ (Counts(lock[x])' <=> Counts(q))
        /\ Target(lock[x])' = Target(q)
        /\ CounterOf(Subject(lock[x]))' = CounterOf(Subject(q))
    BY DEF Creates, Counts, Target, CounterOf, Subject
  <2> QED BY <2>1, <2>2, <1>1, <1>2 DEF IInv, LocksAreHeld
<1> QED BY <1>2 DEF LocksAreHeld

\* The locks of the others when r releases its own.
LEMMA OthersKeepLocks ==
  ASSUME IInv, NEW r \in Requests, Release(r), NEW q \in Requests, q # r
  PROVE  /\ pc[q] \in Wrote /\ ~Creates(q) => lock'[Target(q)] = q
         /\ pc[q] \in WroteCount /\ Counts(q) => lock'[CounterOf(Subject(q))] = q
<1>1. TypeOK /\ \A p \in Requests : Good(p)
  BY DEF IInv
<1>2. pc[q] \in WroteCount /\ Counts(q) => CounterOf(Subject(q)) \in Rows
  BY <1>1, CounterKnown DEF Wrote, WroteCount
<1> QED BY <1>1, <1>2, CallType DEF Good, HoldsTarget, HoldsCounter, Release

LEMMA RollbackStep ==
  ASSUME IInv, TypeOK', NEW r \in Requests, Rollback(r)
  PROVE  IInv'
<1>0. TypeOK /\ \A q \in Requests : Good(q)
  BY DEF IInv
<1>1. LocksAreHeld'
  BY ReleaseStep DEF Rollback, tables
<1>2. \A q \in Requests : pc'[q] = IF q = r THEN "failed" ELSE pc[q]
  BY <1>0 DEF Rollback, Goto, TypeOK
<1>3. RowsStay
  BY DEF RowsStay, Committed, Rollback, tables
<1>4. ASSUME NEW q \in Requests PROVE Good(q)'
  <2>1. CASE q # r
    <3>1. /\ pc[q] \in Wrote /\ ~Creates(q) => lock'[Target(q)] = q
          /\ pc[q] \in WroteCount /\ Counts(q) => lock'[CounterOf(Subject(q))] = q
      BY <2>1, OthersKeepLocks DEF Rollback
    <3>2. Committed(q)' => Committed(q)
      BY DEF Committed, Rollback, tables
    <3> QED BY <2>1, <3>1, <3>2, <1>0, <1>2, <1>3, OthersStayGood DEF Rollback, tables
  <2>2. CASE q = r
    <3>1. pc'[r] = "failed" /\ r \notin staged'
      BY <1>2 DEF Rollback
    <3>2. ~Committed(r)'
      BY <1>0 DEF Rollback, InProgress, Good, Sound, Ended, Committed, tables
    <3> QED BY <2>2, <3>1, <3>2
         DEF Good, HoldsTarget, HoldsCounter, Sound, Outbox, Ended, Wrote, WroteCount
  <2> QED BY <2>1, <2>2
<1> QED BY <1>1, <1>3, <1>4, TablesStay DEF IInv, Rollback, tables

-----------------------------------------------------------------------------
\* What a commit publishes: one status, and at most one counter, of a row that
\* is NORMAL and locked.
LEMMA CommitWrites ==
  ASSUME IInv, NEW r \in Requests, Commit(r)
  PROVE  /\ Subject(r) \in Rows /\ (Committed(Subject(r)) <=> ~Creates(r))
         /\ ~Creates(r) => Live(Subject(r)) /\ lock[Subject(r)] = r
         /\ \A x \in Rows :
              status'[x] = IF x # Subject(r) THEN status[x]
                           ELSE IF Creates(r) THEN "NORMAL"
                           ELSE IF call[r].kind \in {"delete", "archivePost"} THEN "ARCHIVED"
                           ELSE status[x]
         /\ Counts(r) =>
              LET x == CounterOf(Subject(r))
              IN  /\ Subject(r) \in Requests /\ x \in Rows /\ x # Subject(r)
                  /\ Live(x) /\ lock[x] = r
                  /\ \A y \in Rows : count'[y] = IF y = x THEN Recounted(r, count[y]) ELSE count[y]
         /\ ~Counts(r) => count' = count /\ Subject(r) \in Posts
<1>0. TypeOK /\ Good(r) /\ (\A q \in Requests : Good(q)) /\ pc[r] = "commit"
  BY DEF IInv, Commit
<1>1. /\ Subject(r) \in Rows
      /\ Creates(r) => Subject(r) = r
      /\ ~Creates(r) => Subject(r) = Target(r)
  BY <1>0, CallType
<1>2. Creates(r) => status[r] = "absent"
  BY <1>0 DEF Good, Sound, Ended, Committed
<1>3. ~Creates(r) => Live(Target(r)) /\ lock[Target(r)] = r
  BY <1>0 DEF Good, HoldsTarget, Wrote
<1>4. Committed(Subject(r)) <=> ~Creates(r)
  BY <1>1, <1>2, <1>3 DEF Committed, Live
<1>5. \A x \in Rows :
        status'[x] = IF x # Subject(r) THEN status[x]
                     ELSE IF Creates(r) THEN "NORMAL"
                     ELSE IF call[r].kind \in {"delete", "archivePost"} THEN "ARCHIVED"
                     ELSE status[x]
  <2>1. CASE Creates(r)
    <3>1. status' = [status EXCEPT ![Subject(r)] = "NORMAL"]
      BY <2>1 DEF Commit, Creates
    <3> QED BY <2>1, <3>1, <1>1 DEF TypeOK, IInv
  <2>2. CASE call[r].kind \in {"delete", "archivePost"}
    BY <2>2, <1>0, <1>1 DEF Commit, TypeOK, Creates
  <2>3. CASE ~Creates(r) /\ call[r].kind \notin {"delete", "archivePost"}
    <3>1. status' = [status EXCEPT ![Subject(r)] = status[Target(r)]]
      BY <2>3 DEF Commit
    <3> QED BY <2>3, <3>1, <1>0, <1>1 DEF TypeOK
  <2> QED BY <2>1, <2>2, <2>3
<1>6. ASSUME Counts(r)
      PROVE  LET x == CounterOf(Subject(r))
             IN  /\ Subject(r) \in Requests /\ x \in Rows /\ x # Subject(r)
                 /\ Live(x) /\ lock[x] = r
                 /\ \A y \in Rows : count'[y] = IF y = x THEN Recounted(r, count[y]) ELSE count[y]
  <2> DEFINE x == CounterOf(Subject(r))
  <2>1. Subject(r) \in Requests /\ x \in Rows /\ x # Subject(r)
    BY <1>0, <1>6, CounterKnown DEF Wrote
  <2>2. lock[x] = r /\ Live(x) /\ got[r] = Recounted(r, count[x])
    BY <1>0, <1>6 DEF Good, HoldsCounter, WroteCount
  <2>3. count' = [count EXCEPT ![x] = got[r]]
    BY <1>6 DEF Commit, Counts
  <2> QED BY <1>0, <2>1, <2>2, <2>3 DEF TypeOK
<1>7. ~Counts(r) => count' = count /\ Subject(r) \in Posts
  BY <1>0, CallType DEF Commit, Counts, Creates, Kinds, PostKinds
<1> QED BY <1>1, <1>3, <1>4, <1>5, <1>6, <1>7

\* The comments a row counts are finitely many.
LEMMA CountedFinite ==
  ASSUME NEW x PROVE IsFiniteSet(Counted(x)) /\ Cardinality(Counted(x)) \in Nat
<1>1. IsFiniteSet(Requests)
  BY RowsFinite, FS_Subset DEF Rows
<1> QED BY <1>1, FS_Subset, FS_CardinalityType DEF Counted

\* A new comment is one more, a deleted one was one of those its row counts.
LEMMA CommitCounts ==
  ASSUME IInv, NEW r \in Requests, Commit(r)
  PROVE  CountsMatchLive'
<1> SUFFICES ASSUME NEW x \in Rows PROVE count'[x] = Cardinality(Counted(x)')
  BY DEF CountsMatchLive
<1> DEFINE s == Subject(r)
<1>1. count[x] = Cardinality(Counted(x)) /\ Cardinality(Counted(x)) \in Nat
      /\ IsFiniteSet(Counted(x))
  BY CountedFinite DEF IInv, CountsMatchLive
<1>2. \A c \in Requests : CounterOf(c)' = CounterOf(c) /\ c \in Rows
  BY DEF Commit, CounterOf, Rows
<1>3. /\ \A c \in Requests : c # s => (Live(c)' <=> Live(c))
      /\ Counted(x)' = {c \in Requests : Live(c)' /\ CounterOf(c) = x}
  BY <1>2, CommitWrites DEF Live, Counted
<1>4. CASE ~Counts(r) \/ CounterOf(s) # x
  <2>1. count'[x] = count[x]
    BY <1>4, CommitWrites
  <2>2. Counted(x)' = Counted(x)
    <3>1. CASE ~Counts(r)
      <4>1. s \notin Requests
        BY <3>1, CommitWrites, RowsFinite
      <4> QED BY <4>1, <1>2, <1>3 DEF Counted
    <3>2. CASE CounterOf(s) # x
      BY <3>2, <1>2, <1>3 DEF Counted
    <3> QED BY <1>4, <3>1, <3>2
  <2> QED BY <1>1, <2>1, <2>2
<1>5. CASE Creates(r) /\ CounterOf(s) = x
  <2>1. s \in Requests /\ ~Live(s) /\ status'[s] = "NORMAL"
    BY <1>5, CommitWrites DEF Live, Committed, Counts
  <2>2. Counted(x)' = Counted(x) \union {s} /\ s \notin Counted(x)
    BY <1>3, <1>5, <2>1 DEF Counted, Live
  <2>3. Cardinality(Counted(x)') = Cardinality(Counted(x)) + 1
    BY <1>1, <2>2, FS_AddElement
  <2>4. count'[x] = count[x] + 1
    BY <1>5, CommitWrites DEF Counts, Recounted
  <2> QED BY <1>1, <2>3, <2>4
<1>6. CASE ~Creates(r) /\ Counts(r) /\ CounterOf(s) = x
  <2>1. s \in Requests /\ Live(s) /\ status'[s] # "NORMAL"
    BY <1>6, CommitWrites DEF Live, Counts
  <2>2. Counted(x)' = Counted(x) \ {s} /\ s \in Counted(x)
    BY <1>3, <1>6, <2>1 DEF Counted, Live
  <2>3. Cardinality(Counted(x)') = Cardinality(Counted(x)) - 1
    BY <1>1, <2>2, FS_RemoveElement
  <2>4. Cardinality(Counted(x)') \in Nat
    BY <1>1, <2>2, FS_RemoveElement, FS_CardinalityType
  <2>5. count'[x] = Decremented(count[x])
    BY <1>6, CommitWrites DEF Recounted
  <2> QED BY <1>1, <2>3, <2>4, <2>5 DEF Decremented
<1> QED BY <1>4, <1>5, <1>6

LEMMA CommitInbox ==
  ASSUME IInv, NEW r \in Requests, Commit(r)
  PROVE  InboxMatchesComments'
<1>1. r \in staged /\ call' = call
  BY DEF IInv, Good, Outbox, Commit
<1>2. inbox' = IF Notifies(r) THEN inbox \union {r} ELSE inbox
  BY <1>1 DEF Commit
<1>3. \A c \in Requests : Receiver(c)' = Receiver(c) /\ Author(c)' = Author(c)
  BY <1>1 DEF Receiver, Author, Target
<1>4. \A c \in Requests : Committed(c)' <=> Committed(c) \/ (c = r /\ Creates(r))
  <2>1. SUFFICES ASSUME NEW c \in Requests
                 PROVE  Committed(c)' <=> Committed(c) \/ (c = r /\ Creates(r))
    OBVIOUS
  <2>2. c \in Rows /\ (Creates(r) => Subject(r) = r)
    BY DEF Rows, Subject
  <2> QED BY <2>2, CommitWrites DEF Committed, Live
<1> QED BY <1>2, <1>3, <1>4 DEF IInv, InboxMatchesComments, Notifies, Committed

LEMMA CommitStep ==
  ASSUME IInv, TypeOK', NEW r \in Requests, Commit(r)
  PROVE  IInv'
<1>0. TypeOK /\ (\A q \in Requests : Good(q)) /\ pc[r] = "commit" /\ r \in Rows
  BY DEF IInv, Commit, Rows
<1>1. PICK end \in {"done", "failed"} : Goto(r, end)
  BY DEF Commit
<1>2. LocksAreHeld'
  BY <1>1, ReleaseStep DEF Commit
<1>3. \A q \in Requests : pc'[q] = IF q = r THEN end ELSE pc[q]
  BY <1>0, <1>1 DEF Goto, TypeOK
<1>4. RowsStay
  <2>1. ASSUME NEW x \in Rows, Committed(x) PROVE Committed(x)'
    BY <2>1, CommitWrites DEF Committed
  <2> QED BY <2>1 DEF RowsStay, Commit
<1>5. ASSUME NEW q \in Requests PROVE Good(q)'
  <2>1. CASE q # r
    <3>1. /\ pc[q] \in Wrote /\ ~Creates(q) => lock'[Target(q)] = q
          /\ pc[q] \in WroteCount /\ Counts(q) => lock'[CounterOf(Subject(q))] = q
      BY <2>1, OthersKeepLocks DEF Commit
    <3>2. pc[q] \in Wrote /\ ~Creates(q) => status'[Target(q)] = status[Target(q)]
      <4> SUFFICES ASSUME pc[q] \in Wrote, ~Creates(q)
                   PROVE  status'[Target(q)] = status[Target(q)]
        OBVIOUS
      <4>1. lock[Target(q)] = q /\ Committed(Target(q)) /\ Target(q) \in Rows
        BY <1>0, CallType DEF Good, HoldsTarget, Live, Committed
      <4>2. Target(q) # Subject(r)
        BY <2>1, <4>1, CommitWrites
      <4> QED BY <4>1, <4>2, CommitWrites
    <3>3. pc[q] \in WroteCount /\ Counts(q) =>
            LET x == CounterOf(Subject(q))
            IN  status'[x] = status[x] /\ count'[x] = count[x]
      <4> SUFFICES ASSUME pc[q] \in WroteCount, Counts(q)
                   PROVE  LET x == CounterOf(Subject(q))
                          IN  status'[x] = status[x] /\ count'[x] = count[x]
        OBVIOUS
      <4> DEFINE x == CounterOf(Subject(q))
      <4>1. lock[x] = q /\ Committed(x)
        BY <1>0 DEF Good, HoldsCounter, Live, Committed
      <4>2. x \in Rows
        BY <1>0, CounterKnown DEF Wrote, WroteCount
      <4>3. x # Subject(r) /\ (Counts(r) => x # CounterOf(Subject(r)))
        BY <2>1, <4>1, CommitWrites
      <4>4. status'[x] = status[x] /\ count'[x] = count[x]
        BY <4>2, <4>3, CommitWrites
      <4> QED BY <4>4
    <3>4. Committed(q)' => Committed(q)
      <4>1. q \in Rows /\ (Creates(r) => q # Subject(r))
        BY <2>1 DEF Rows, Subject
      <4> QED BY <4>1, CommitWrites DEF Committed, Live
    <3>5. (q \in staged' <=> q \in staged) /\ (q \in search' <=> q \in search)
      BY <2>1 DEF Commit
    <3> QED BY <2>1, <3>1, <3>2, <3>3, <3>4, <3>5, <1>0, <1>3, <1>4, OthersStayGood DEF Commit
  <2>2. CASE q = r
    <3>1. pc'[r] \in {"done", "failed"} /\ r \notin staged'
      BY <1>3 DEF Commit
    <3>2. Committed(r)' => Placed(r)'
      <4>1. Committed(r)' => Creates(r) \/ Committed(r)
        BY <1>0, CommitWrites DEF Committed, Subject
      <4>2. Placed(r) => Placed(r)'
        BY <1>0, <1>4, PlacedStays DEF Commit
      <4> QED BY <1>0, <4>1, <4>2 DEF Good, Sound, Wrote
    <3> QED BY <2>2, <3>1, <3>2
         DEF Good, HoldsTarget, HoldsCounter, Sound, Outbox, Ended, Wrote, WroteCount
  <2> QED BY <2>1, <2>2
<1> QED BY <1>2, <1>5, CommitCounts, CommitInbox DEF IInv

-----------------------------------------------------------------------------
\* Every variable keeps its range.
LEMMA TypeStep ==
  ASSUME TypeOK, \A r \in Requests : Good(r), [Next]_vars PROVE TypeOK'
<1> USE DEF TypeOK
<1>1. ASSUME NEW r \in Requests, NEW to \in Stages, Goto(r, to)
      PROVE  pc' \in [Requests -> Stages]
  BY <1>1 DEF Goto, Stages
<1>2. Stages = {"idle", "meta", "read", "insert", "write", "count", "enqueue", "commit",
                "done", "failed"}
  BY DEF Stages
<1>3. ASSUME NEW r \in Requests, Release(r)
      PROVE  lock' \in [Rows -> Requests \union {None}]
  BY <1>3 DEF Release
<1>4. ASSUME NEW r \in Requests, Receive(r) PROVE TypeOK'
  <2>1. pc' \in [Requests -> Stages]
    BY <1>1, <1>2, <1>4 DEF Receive
  <2> QED BY <2>1, <1>2, <1>4 DEF Receive, tables
<1>5. ASSUME NEW r \in Requests, GetCommentMeta(r) PROVE TypeOK'
  <2>1. pc' \in [Requests -> Stages]
    BY <1>1, <1>2, <1>5 DEF GetCommentMeta
  <2> QED BY <2>1, <1>2, <1>5 DEF GetCommentMeta, tables
<1>6. ASSUME NEW r \in Requests, GetPost(r) PROVE TypeOK'
  <2>1. pc' \in [Requests -> Stages]
    BY <1>1, <1>2, <1>6 DEF GetPost
  <2> QED BY <2>1, <1>2, <1>6 DEF GetPost, tables
<1>7. ASSUME NEW r \in Requests, CreateComment(r) PROVE TypeOK'
  <2>1. pc' \in [Requests -> Stages]
    BY <1>1, <1>2, <1>7 DEF CreateComment
  <2>2. IF call[r].kind = "top" THEN Target(r) \in Posts ELSE Target(r) \in Requests
    BY <1>7, CallType DEF CreateComment, Good, Sound, Creates, PostKinds, Rows
  <2>3. post' \in [Requests -> Posts \union {None}] /\ root' \in [Requests -> Requests]
    BY <1>7, <2>2 DEF CreateComment
  <2> QED BY <2>1, <2>3, <1>2, <1>7 DEF CreateComment
<1>8. ASSUME NEW r \in Requests, WriteRow(r) PROVE TypeOK'
  <2>1. pc' \in [Requests -> Stages]
    BY <1>1, <1>2, <1>8 DEF WriteRow
  <2>2. lock' \in [Rows -> Requests \union {None}]
    BY <1>8 DEF WriteRow
  <2> QED BY <2>1, <2>2, <1>2, <1>8 DEF WriteRow, tables
<1>9. ASSUME NEW r \in Requests, UpdateCount(r) PROVE TypeOK'
  <2>1. pc' \in [Requests -> Stages]
    BY <1>1, <1>2, <1>9 DEF UpdateCount
  <2>2. CounterOf(Subject(r)) \in Rows
    BY <1>9, CounterKnown DEF UpdateCount, Good, Sound, Wrote
  <2>3. count[CounterOf(Subject(r))] \in Nat /\ Decremented(count[CounterOf(Subject(r))]) \in Nat
    BY <2>2 DEF Decremented
  <2>4. got' \in [Requests -> Nat]
    BY <1>9, <2>3 DEF UpdateCount
  <2>5. lock' \in [Rows -> Requests \union {None}]
    BY <1>9 DEF UpdateCount
  <2> QED BY <2>1, <2>4, <2>5, <1>2, <1>9 DEF UpdateCount, tables
<1>10. ASSUME NEW r \in Requests, EnqueueTx(r) PROVE TypeOK'
  <2>1. pc' \in [Requests -> Stages]
    BY <1>1, <1>2, <1>10 DEF EnqueueTx
  <2> QED BY <2>1, <1>2, <1>10 DEF EnqueueTx, tables
<1>11. ASSUME NEW r \in Requests, Commit(r) PROVE TypeOK'
  <2>1. pc' \in [Requests -> Stages]
    BY <1>1, <1>2, <1>11 DEF Commit
  <2>2. \E v \in {"absent", "NORMAL", "ARCHIVED"} : status' = [status EXCEPT ![Subject(r)] = v]
    <3>1. CASE Creates(r)
      <4>1. status' = [status EXCEPT ![Subject(r)] = "NORMAL"]
        BY <1>11, <3>1 DEF Commit, Creates
      <4> QED BY <4>1
    <3>2. CASE call[r].kind \in {"delete", "archivePost"}
      <4>1. status' = [status EXCEPT ![Subject(r)] = "ARCHIVED"]
        BY <1>11, <3>2 DEF Commit, Creates
      <4> QED BY <4>1
    <3>3. CASE ~Creates(r) /\ call[r].kind \notin {"delete", "archivePost"}
      <4>1. status' = [status EXCEPT ![Subject(r)] = status[Target(r)]]
        BY <1>11, <3>3 DEF Commit
      <4> QED BY <4>1, CallType
    <3> QED BY <3>1, <3>2, <3>3
  <2>3. status' \in [Rows -> {"absent", "NORMAL", "ARCHIVED"}]
    BY <2>2
  <2>4. count' \in [Rows -> Nat]
    BY <1>11 DEF Commit
  <2>5. private' \in SUBSET Posts
    <3>1. CASE call[r].kind = "setPrivate"
      <4>1. Target(r) \in Posts
        BY <3>1, CallType DEF PostKinds
      <4>2. private' = private \union {Target(r)}
        BY <1>11, <3>1 DEF Commit
      <4> QED BY <4>1, <4>2
    <3>2. CASE call[r].kind = "setPublic"
      <4>1. private' = private \ {Target(r)}
        BY <1>11, <3>2 DEF Commit
      <4> QED BY <4>1
    <3>3. CASE call[r].kind \notin {"setPrivate", "setPublic"}
      BY <1>11, <3>3 DEF Commit
    <3> QED BY <3>1, <3>2, <3>3
  <2>6. /\ inbox' \in SUBSET Requests /\ search' \in SUBSET Requests
        /\ staged' \in SUBSET Requests
    BY <1>11 DEF Commit
  <2>7. UNCHANGED <<call, got, post, root>> /\ Release(r)
    BY <1>11 DEF Commit
  <2> QED BY <2>1, <2>3, <2>4, <2>5, <2>6, <2>7, <1>2, <1>3
<1>12. ASSUME NEW r \in Requests, Rollback(r) PROVE TypeOK'
  <2>1. pc' \in [Requests -> Stages]
    BY <1>1, <1>2, <1>12 DEF Rollback
  <2> QED BY <2>1, <1>2, <1>3, <1>12 DEF Rollback, tables
<1>13. CASE UNCHANGED vars
  BY <1>13 DEF vars, local, tables
<1> QED
  BY <1>4, <1>5, <1>6, <1>7, <1>8, <1>9, <1>10, <1>11, <1>12, <1>13
  DEF Next, Statement, NoCounterRow

\* One step per action: which lemma above covers it.
LEMMA NextIInv == IInv /\ [Next]_vars => IInv'
<1> SUFFICES ASSUME IInv, [Next]_vars PROVE IInv'
  OBVIOUS
<1>0. TypeOK' /\ TypeOK /\ \A q \in Requests : Good(q)
  BY TypeStep DEF IInv
\* Statements that only decide where to go on.
<1>1. ASSUME NEW r \in Requests, NEW to \in {"meta", "read", "insert", "write", "failed"},
             pc[r] \in {"idle", "meta", "read", "write"}, Goto(r, to),
             UNCHANGED <<call, got, staged, tables, lock>>,
             to = "meta" => call[r].kind \in {"reply", "delete"},
             to = "read" => call[r].kind = "top",
             to = "insert" => Creates(r) /\ (call[r].kind = "reply" => Committed(Target(r))),
             to = "write" => ~Creates(r)
      PROVE  IInv'
  <2>1. pc'[r] = to /\ to \in Stages
    BY <1>0, <1>1 DEF Goto, TypeOK, Stages
  <2>2. ~Committed(r) /\ r \notin staged /\ r \notin search
    BY <1>0, <1>1 DEF Good, Sound, Outbox, Ended
  <2>3. Sound(r)'
    BY <1>1, <2>1, <2>2 DEF Sound, Creates, Committed, Target, Wrote, tables
  <2>4. HoldsTarget(r)' /\ HoldsCounter(r)' /\ Outbox(r)'
    BY <1>1, <2>1, <2>2 DEF HoldsTarget, HoldsCounter, Outbox, Wrote, WroteCount, tables
  <2>5. RowsStay
    BY <1>1 DEF RowsStay, Committed, tables
  <2>6. Good(r)'
    BY <2>3, <2>4 DEF Good
  <2> QED BY <1>0, <1>1, <2>1, <2>5, <2>6, LocalStep DEF Wrote, tables
<1>2. ASSUME NEW r \in Requests, Receive(r) PROVE IInv'
  <2>1. pc[r] = "idle" /\ UNCHANGED <<call, got, staged, tables, lock>>
    BY <1>2 DEF Receive
  <2>2. CASE call[r].kind \in {"reply", "delete"}
    <3>1. Goto(r, "meta")
      BY <1>2, <2>2 DEF Receive
    <3> QED BY <1>1, <2>1, <2>2, <3>1
  <2>3. CASE call[r].kind = "top"
    <3>1. Goto(r, "read")
      BY <1>2, <2>3 DEF Receive
    <3> QED BY <1>1, <2>1, <2>3, <3>1
  <2>4. CASE call[r].kind \notin {"reply", "delete", "top"}
    <3>1. Goto(r, "write") /\ ~Creates(r)
      BY <1>2, <2>4 DEF Receive, Creates
    <3> QED BY <1>1, <2>1, <3>1
  <2> QED BY <2>2, <2>3, <2>4
<1>3. ASSUME NEW r \in Requests, GetCommentMeta(r) PROVE IInv'
  <2>1. pc[r] = "meta" /\ UNCHANGED <<call, got, staged, tables, lock>>
        /\ call[r].kind \in {"reply", "delete"}
    BY <1>0, <1>3 DEF GetCommentMeta, Good, Sound
  <2>2. CASE ~Live(Target(r))
    <3>1. Goto(r, "failed")
      BY <1>3, <2>2 DEF GetCommentMeta
    <3> QED BY <1>1, <2>1, <3>1
  <2>3. CASE Live(Target(r)) /\ call[r].kind = "reply"
    <3>1. Goto(r, "insert") /\ Creates(r) /\ Committed(Target(r))
      BY <1>3, <2>3 DEF GetCommentMeta, Creates, Live, Committed
    <3> QED BY <1>1, <2>1, <3>1
  <2>4. CASE Live(Target(r)) /\ call[r].kind = "delete"
    <3>1. Goto(r, "write") /\ ~Creates(r)
      BY <1>3, <2>4 DEF GetCommentMeta, Creates
    <3> QED BY <1>1, <2>1, <3>1
  <2> QED BY <2>1, <2>2, <2>3, <2>4
<1>4. ASSUME NEW r \in Requests, GetPost(r) PROVE IInv'
  <2>1. pc[r] = "read" /\ UNCHANGED <<call, got, staged, tables, lock>>
        /\ call[r].kind = "top" /\ Creates(r)
    BY <1>0, <1>4 DEF GetPost, Good, Sound, Creates
  <2>2. Goto(r, "insert") \/ Goto(r, "failed")
    BY <1>4 DEF GetPost
  <2> QED BY <1>1, <2>1, <2>2
<1>5. ASSUME NEW r \in Requests, CreateComment(r) PROVE IInv'
  <2>1. /\ pc[r] = "insert" /\ Creates(r) /\ ~Committed(r) /\ r \notin staged /\ r \notin search
        /\ call[r].kind = "reply" => Committed(Target(r)) /\ Target(r) \in Requests
        /\ call[r].kind = "top" => Target(r) \in Posts
    BY <1>0, <1>5, CallType DEF CreateComment, Good, Sound, Outbox, Ended, PostKinds, Rows
  <2>2. pc'[r] = "count"
    BY <1>0, <1>5 DEF CreateComment, Goto, TypeOK
  <2>3. \A c \in Requests : c # r => post'[c] = post[c] /\ root'[c] = root[c]
    BY <1>0, <1>5 DEF CreateComment, TypeOK
  <2>4. RowsStay
    BY <1>5, <2>1, <2>3 DEF RowsStay, CreateComment, Committed
  <2>5. Placed(r)'
    <3>1. CASE call[r].kind = "top"
      <4>1. post'[r] = Target(r) /\ root'[r] = r
        BY <1>0, <1>5, <3>1 DEF CreateComment, TypeOK
      <4> QED BY <1>5, <2>1, <3>1, <4>1 DEF Placed, CreateComment, Creates
    <3>2. CASE call[r].kind = "reply"
      <4> DEFINE t == Target(r)
      <4>1. post'[r] = post[t] /\ root'[r] = root[t]
        BY <1>0, <1>5, <3>2 DEF CreateComment, TypeOK
      <4>2. Placed(t) /\ t # r /\ t \in Requests
        BY <1>0, <2>1, <3>2 DEF Good, Sound
      <4>3. Committed(root[t]) /\ call[root[t]].kind = "top"
            /\ root[root[t]] = root[t] /\ post[root[t]] = post[t] /\ root[t] # r
            /\ post[t] \in Posts /\ root[t] \in Requests
        BY <1>0, <2>1, <3>2, <4>2 DEF Placed, Creates, TypeOK
      <4>4. /\ post'[root[t]] = post[root[t]] /\ root'[root[t]] = root[root[t]]
            /\ root'[t] = root[t] /\ call' = call /\ status' = status
        BY <1>5, <2>3, <4>2, <4>3 DEF CreateComment
      <4>5. Creates(r)' /\ Target(r)' = t
        BY <2>1, <4>4 DEF Creates, Target
      <4> QED BY <2>1, <3>2, <4>1, <4>3, <4>4, <4>5 DEF Placed, Committed
    <3> QED BY <2>1, <3>1, <3>2 DEF Creates
  <2>6. Creates(r)' /\ Counts(r)' /\ ~Committed(r)'
    BY <1>5, <2>1 DEF CreateComment, Creates, Counts, Committed
  <2>7. Good(r)'
    BY <1>5, <2>1, <2>2, <2>5, <2>6 DEF Good, HoldsTarget, HoldsCounter, Sound, Outbox,
       CreateComment, Wrote, WroteCount
  <2> QED BY <1>0, <1>5, <2>1, <2>4, <2>7, LocalStep DEF CreateComment, Wrote, Stages
<1>6. ASSUME NEW r \in Requests, WriteRow(r) PROVE IInv'
  <2>1. /\ pc[r] = "write" /\ ~Creates(r) /\ ~Committed(r) /\ r \notin staged /\ r \notin search
        /\ Target(r) \in Rows /\ (Target(r) \in Posts <=> call[r].kind \in PostKinds)
        /\ call[r].kind \in Kinds
    BY <1>0, <1>6, CallType DEF WriteRow, Good, Sound, Outbox, Ended
  <2>2. CASE ~Writable(r)
    <3>1. Goto(r, "failed") /\ lock' = lock
      BY <1>6, <2>2 DEF WriteRow
    <3> QED BY <1>1, <1>6, <2>1, <3>1 DEF WriteRow
  <2>3. CASE Writable(r)
    <3> DEFINE to == IF Target(r) \in Posts THEN "enqueue" ELSE "count"
    <3>1. Free(Target(r)) /\ lock' = [lock EXCEPT ![Target(r)] = r] /\ Goto(r, to)
      BY <1>6, <2>3 DEF WriteRow
    <3>2. lock'[Target(r)] = r /\ pc'[r] = to
      BY <1>0, <2>1, <3>1 DEF TypeOK, Goto
    <3>3. to = "count" <=> Counts(r)
      BY <2>1 DEF Counts, Creates, Kinds, PostKinds
    <3>4. UNCHANGED <<call, got, staged, tables>>
      BY <1>6 DEF WriteRow
    <3>5. /\ (Creates(r)' <=> Creates(r)) /\ (Counts(r)' <=> Counts(r)) /\ Target(r)' = Target(r)
          /\ (Committed(r)' <=> Committed(r)) /\ Live(Target(r))'
      BY <2>3, <3>4 DEF Creates, Counts, Target, Committed, Live, tables, Writable
    <3>6. Good(r)'
      BY <2>1, <3>2, <3>3, <3>4, <3>5 DEF Good, HoldsTarget, HoldsCounter, Sound, Outbox,
         Wrote, WroteCount, tables
    <3> HIDE DEF to
    <3>7. to \in Wrote
      BY DEF to, Wrote
    <3> QED BY <1>0, <2>1, <3>1, <3>4, <3>6, <3>7, LockStep
  <2> QED BY <2>2, <2>3
<1>7. ASSUME NEW r \in Requests, UpdateCount(r) PROVE IInv'
  <2> DEFINE x == CounterOf(Subject(r))
  <2>1. /\ pc[r] = "count" /\ Counts(r) /\ ~Committed(r) /\ r \notin staged /\ r \notin search
        /\ Free(x) /\ Live(x)
    BY <1>0, <1>7 DEF UpdateCount, Good, Sound, Outbox, Ended
  <2>2. x \in Rows /\ Placed(Subject(r)) /\ Subject(r) \in Requests
    BY <1>0, <2>1, CounterKnown DEF Wrote
  <2>3. /\ pc'[r] = "enqueue" /\ lock'[x] = r /\ got'[r] = Recounted(r, count[x])
        /\ \A q \in Requests : q # r => got'[q] = got[q]
    BY <1>0, <1>7, <2>2 DEF UpdateCount, Goto, TypeOK, Recounted
  <2>4. UNCHANGED <<call, staged, tables>> /\ lock' = [lock EXCEPT ![x] = r]
    BY <1>7 DEF UpdateCount
  <2>5. RowsStay
    BY <2>4 DEF RowsStay, Committed, tables
  <2>6. /\ (Creates(r)' <=> Creates(r)) /\ (Counts(r)' <=> Counts(r)) /\ Target(r)' = Target(r)
        /\ (Committed(r)' <=> Committed(r)) /\ CounterOf(Subject(r))' = x
    BY <2>4 DEF Creates, Counts, Target, Committed, CounterOf, Subject, tables
  <2>7. HoldsTarget(r)'
    <3>1. ~Creates(r) => /\ lock[Target(r)] = r /\ Live(Target(r))
                         /\ Target(r) # x /\ Target(r) \in Rows
      BY <1>0, <2>1, CounterKnown, CallType DEF Good, HoldsTarget, Wrote
    <3>2. ~Creates(r) => lock'[Target(r)] = r
      BY <1>0, <2>4, <3>1 DEF TypeOK
    <3> QED BY <2>4, <2>6, <3>1, <3>2 DEF HoldsTarget, Live, tables
  <2>8. HoldsCounter(r)'
    BY <2>1, <2>3, <2>4, <2>6 DEF HoldsCounter, Live, Recounted, tables
  <2>9. Placed(r) => Placed(r)'
    BY <1>0, <2>1, <2>4, <2>5, PlacedStays
  <2>10. Sound(r)' /\ Outbox(r)'
    BY <1>0, <2>1, <2>3, <2>4, <2>6, <2>9 DEF Good, Sound, Outbox, Wrote, tables
  <2>11. Good(r)'
    BY <2>7, <2>8, <2>10 DEF Good
  <2>12. Goto(r, "enqueue") /\ "enqueue" \in WroteCount /\ "enqueue" \in Wrote
    BY <1>7 DEF UpdateCount, Wrote, WroteCount
  <2> QED BY <1>0, <2>1, <2>2, <2>3, <2>4, <2>11, <2>12, LockStep
<1>8. ASSUME NEW r \in Requests, EnqueueTx(r) PROVE IInv'
  <2>1. pc[r] = "enqueue" /\ pc'[r] = "commit" /\ UNCHANGED <<call, got, tables, lock>>
        /\ r \in staged' /\ \A q \in Requests : q # r => (q \in staged' <=> q \in staged)
    BY <1>0, <1>8 DEF EnqueueTx, Goto, TypeOK
  <2>2. RowsStay
    BY <2>1 DEF RowsStay, Committed, tables
  <2>3. /\ (Creates(r)' <=> Creates(r)) /\ (Counts(r)' <=> Counts(r)) /\ Target(r)' = Target(r)
        /\ (Committed(r)' <=> Committed(r))
        /\ CounterOf(Subject(r))' = CounterOf(Subject(r))
    BY <2>1 DEF Creates, Counts, Target, Committed, CounterOf, Subject, tables
  <2>4. HoldsTarget(r)' /\ HoldsCounter(r)'
    BY <1>0, <2>1, <2>3 DEF Good, HoldsTarget, HoldsCounter, Live, Recounted, Wrote, WroteCount,
       tables
  <2>5. Placed(r) => Placed(r)'
    BY <1>0, <2>1, <2>2, PlacedStays
  <2>6. Sound(r)' /\ Outbox(r)'
    BY <1>0, <2>1, <2>3, <2>5 DEF Good, Sound, Outbox, Ended, Wrote, tables
  <2>7. Good(r)'
    BY <2>4, <2>6 DEF Good
  <2> QED BY <1>0, <1>8, <2>1, <2>2, <2>7, LocalStep DEF EnqueueTx, Stages, tables
<1>9. ASSUME NEW r \in Requests, Commit(r) PROVE IInv'
  BY <1>0, <1>9, CommitStep
<1>10. ASSUME NEW r \in Requests, Rollback(r) PROVE IInv'
  BY <1>0, <1>10, RollbackStep
<1>11. CASE UNCHANGED vars
  <2>1. UNCHANGED <<call, pc, got, staged, post, root, status, private, count, inbox, search, lock>>
    BY <1>11 DEF vars, local, tables
  <2>2. RowsStay
    BY <2>1 DEF RowsStay, Committed
  <2>3. \A q \in Requests : Good(q)'
    BY <1>0, <2>1, <2>2, OthersStayGood DEF Good, HoldsTarget, HoldsCounter, Committed
  <2>4. LocksAreHeld'
    BY <2>1 DEF IInv, LocksAreHeld, Creates, Counts, Target, CounterOf, Subject
  <2> QED BY <1>0, <2>1, <2>2, <2>3, <2>4, TablesStay DEF IInv
<1> QED
  BY <1>2, <1>3, <1>4, <1>5, <1>6, <1>7, <1>8, <1>9, <1>10, <1>11
  DEF Next, Statement, NoCounterRow

\* The strengthened invariant of comment threads.
THEOREM InductiveInvariant == Spec => []IInv
BY InitIInv, NextIInv, PTL DEF Spec

\* Every variable of Comments keeps its range, and the inbox jobs committed are
\* exactly those of the committed comments that answer somebody else.
THEOREM InboxCorrect == Spec => []CommentsInv
<1>1. IInv => CommentsInv
  BY DEF IInv, CommentsInv
<1> QED BY <1>1, InductiveInvariant, PTL

\* comment_count and reply_count are the numbers of live comments, for any
\* users, posts, calls and interleaving.
THEOREM CountersCorrect == Spec => []CountsMatchLive
BY InductiveInvariant, PTL DEF IInv

\* Every committed comment is at the first or second level of a thread that
\* stays on one post.
THEOREM ThreadsFlat == Spec => []ThreadsAreFlat
<1>1. IInv => ThreadsAreFlat
  <2> SUFFICES ASSUME IInv, NEW c \in Requests, Committed(c)
               PROVE  /\ Committed(root[c]) /\ IsRoot(root[c])
                      /\ post[root[c]] = post[c] /\ post[c] \in Posts
                      /\ call[c].kind = "reply" => root[Target(c)] = root[c]
    BY DEF ThreadsAreFlat, Committed
  <2>1. Placed(c)
    BY DEF IInv, Good, Sound
  <2> QED BY <2>1 DEF Placed, IsRoot, Creates
<1> QED BY <1>1, InductiveInvariant, PTL

-----------------------------------------------------------------------------
\* Whoever waits, waits for a transaction that is at its counter already or
\* beyond; and if that one waits too, it is the deletion of the awaited row.
LEMMA LockOrder ==
  ASSUME IInv, NEW r \in Requests, NEW q \in Requests, NEW p \in Requests,
         WaitsFor(r, q), WaitsFor(q, p)
  PROVE  /\ pc[q] = "count" /\ call[q].kind = "delete" /\ Target(q) \in Requests
         /\ Placed(Target(q)) /\ lock[CounterOf(Target(q))] = p
         /\ pc[r] = "count" => CounterOf(Subject(r)) = Target(q)
<1>0. TypeOK /\ \A s \in Requests : Good(s)
  BY DEF IInv
<1>1. \E x \in Rows : lock[x] = q /\ (pc[r] = "count" => x = CounterOf(Subject(r)))
  <2>1. CASE pc[r] = "write"
    BY <2>1, <1>0, CallType DEF WaitsFor
  <2>2. CASE pc[r] = "count"
    BY <2>2, <1>0, CounterKnown DEF WaitsFor, Good, Sound, Wrote
  <2> QED BY <2>1, <2>2 DEF WaitsFor
<1>2. PICK x \in Rows : lock[x] = q /\ (pc[r] = "count" => x = CounterOf(Subject(r)))
  BY <1>1
<1>3. q # None
  BY NoneIsNew DEF Rows
<1>4. pc[q] \in {"write", "count"}
  BY DEF WaitsFor
<1>5. pc[q] = "count" /\ ~Creates(q) /\ Target(q) = x
  BY <1>2, <1>3, <1>4 DEF IInv, LocksAreHeld, Wrote, WroteCount
<1>6. Subject(q) = Target(q) /\ Counts(q) /\ Subject(q) \in Requests /\ Placed(Subject(q))
  BY <1>0, <1>5, CounterKnown, CallType DEF Good, Sound, Wrote
<1>7. call[q].kind = "delete" /\ lock[CounterOf(Target(q))] = p
  BY <1>5, <1>6 DEF Counts, WaitsFor
<1> QED BY <1>2, <1>5, <1>6, <1>7

\* From reply to root to post, and then nothing waits any more.
LEMMA WaitsEnd ==
  ASSUME IInv, NEW a \in Requests, NEW b \in Requests, NEW c \in Requests,
         NEW d \in Requests, NEW e \in Requests,
         WaitsFor(a, b), WaitsFor(b, c), WaitsFor(c, d), WaitsFor(d, e)
  PROVE  FALSE
<1>6. /\ pc[b] = "count" /\ call[b].kind = "delete" /\ Placed(Target(b)) /\ Target(b) \in Requests
      /\ pc[c] = "count" /\ call[c].kind = "delete" /\ Placed(Target(c)) /\ Target(c) \in Requests
      /\ pc[d] = "count" /\ call[d].kind = "delete" /\ Target(d) \in Requests
  BY LockOrder
<1>7. CounterOf(Target(b)) = Target(c) /\ CounterOf(Target(c)) = Target(d)
  <2>1. Subject(b) = Target(b) /\ Subject(c) = Target(c)
    BY <1>6 DEF Subject, Creates
  <2>2. CounterOf(Subject(b)) = Target(c)
    BY <1>6, LockOrder
  <2>3. CounterOf(Subject(c)) = Target(d)
    BY <1>6, LockOrder
  <2> QED BY <2>1, <2>2, <2>3
\* The counter of a reply is its root, and the counter of that is a post.
<1>8. /\ CounterOf(Target(b)) \notin Posts /\ CounterOf(Target(c)) \notin Posts
  BY <1>6, <1>7, RowsFinite
<1>9. call[Target(b)].kind = "reply" /\ CounterOf(Target(b)) = root[Target(b)]
  BY <1>6, <1>8, CounterType DEF IInv, Placed
<1>10. call[Target(c)].kind = "top"
  BY <1>6, <1>7, <1>9 DEF Placed
<1> QED BY <1>6, <1>8, <1>10, CounterType DEF IInv, Placed

LEMMA NoDeadlockFromIInv == IInv => NoDeadlock
<1> SUFFICES ASSUME IInv, NEW S \in (SUBSET Requests) \ {{}},
                    \A r \in S : \E q \in S : WaitsFor(r, q)
             PROVE  FALSE
  BY DEF NoDeadlock
<1>1. PICK a \in S : TRUE
  OBVIOUS
<1>2. PICK b \in S : WaitsFor(a, b)
  OBVIOUS
<1>3. PICK c \in S : WaitsFor(b, c)
  OBVIOUS
<1>4. PICK d \in S : WaitsFor(c, d)
  OBVIOUS
<1>5. PICK e \in S : WaitsFor(d, e)
  OBVIOUS
<1> QED BY <1>2, <1>3, <1>4, <1>5, WaitsEnd

\* Comment transactions never deadlock, whatever threads they meet in.
THEOREM DeadlockFree == Spec => []NoDeadlock
BY InductiveInvariant, NoDeadlockFromIInv, PTL

-----------------------------------------------------------------------------
\* Only a commit changes the tables.
LEMMA OnlyCommitsWrite ==
  ASSUME [Next]_vars
  PROVE  \/ UNCHANGED <<status, private, count, inbox, search>>
         \/ \E r \in Requests : Commit(r)
BY DEF Next, Statement, Receive, GetCommentMeta, GetPost, CreateComment, WriteRow, UpdateCount,
   NoCounterRow, EnqueueTx, Rollback, vars, tables

\* A creation that has not read its post, or was turned down after reading it.
Unborn(r) ==
  call[r].kind = "top" /\ pc[r] \in {"idle", "read", "failed"} /\ status[r] = "absent"

\* While its post is hidden from it, such a call gets no further.
LEMMA UnbornKept ==
  ASSUME IInv, [Next]_vars, NEW r \in Requests, Unborn(r), Hidden(r)
  PROVE  Unborn(r)'
<1>1. r \in Rows /\ r \notin Posts
  BY RowsFinite DEF Rows
<1>2. call' = call
  BY DEF Next, Statement, Receive, GetCommentMeta, GetPost, CreateComment, WriteRow, UpdateCount,
     NoCounterRow, EnqueueTx, Commit, Rollback, vars
<1>3. pc'[r] \in {"idle", "read", "failed"}
  <2>1. pc \in [Requests -> {"idle", "meta", "read", "insert", "write", "count",
                             "enqueue", "commit", "done", "failed"}]
    BY DEF IInv, TypeOK
  <2>2. CASE UNCHANGED vars
    BY <2>2 DEF vars, local, Unborn
  <2>3. ASSUME NEW q \in Requests, q # r, Receive(q) \/ Statement(q) \/ Rollback(q)
        PROVE  pc'[r] = pc[r]
    BY <2>1, <2>3 DEF Receive, Statement, GetCommentMeta, GetPost, CreateComment, WriteRow,
       UpdateCount, NoCounterRow, EnqueueTx, Commit, Rollback, Goto
  <2>4. CASE Receive(r) \/ Statement(r) \/ Rollback(r)
    BY <2>1, <2>4 DEF Receive, Statement, GetCommentMeta, GetPost, CreateComment, WriteRow,
       UpdateCount, NoCounterRow, EnqueueTx, Commit, Rollback, Goto, Unborn, Hidden, Live
  <2> QED BY <2>2, <2>3, <2>4 DEF Next, Unborn
<1>4. status'[r] = "absent"
  <2>1. SUFFICES ASSUME status'[r] # status[r]
                 PROVE  FALSE
    BY DEF Unborn
  <2>2. PICK q \in Requests : Commit(q)
    BY <2>1, OnlyCommitsWrite
  <2>3. r = Subject(q)
    BY <1>1, <2>1, <2>2, CommitWrites
  <2>4. CASE Creates(q)
    BY <2>2, <2>3, <2>4 DEF Subject, Commit, Unborn
  <2>5. CASE ~Creates(q)
    <3>1. pc[q] \in Wrote
      BY <2>2 DEF Commit, Wrote
    <3> QED BY <2>3, <2>5, <3>1 DEF IInv, Good, HoldsTarget, Subject, Live, Unborn
  <2> QED BY <2>4, <2>5
<1> QED BY <1>2, <1>3, <1>4 DEF Unborn

\* A comment appears, or disappears, only while the row that counts it, the
\* post of a top comment and the root of a reply, is NORMAL; and no top
\* comment appears under a post that stays hidden from its author from before
\* the call has read it.
THEOREM LiveUnderLive == Spec => ThreadsStayLive
<1>1. IInv /\ [Next]_vars =>
        [\A c \in Requests : Live(c) # Live(c)' =>
           Live(CounterOf(c)) /\ Live(CounterOf(c))']_vars
  <2> SUFFICES ASSUME IInv, [Next]_vars, NEW c \in Requests, Live(c) # Live(c)'
               PROVE  Live(CounterOf(c)) /\ Live(CounterOf(c))'
    OBVIOUS
  <2>1. PICK r \in Requests : Commit(r)
    BY OnlyCommitsWrite DEF Live
  <2>2. c \in Rows /\ c \notin Posts
    BY RowsFinite DEF Rows
  <2>3. c = Subject(r)
    BY <2>1, <2>2, CommitWrites DEF Live
  <2>4. Counts(r)
    BY <2>1, <2>2, <2>3, CommitWrites
  <2>5. CounterOf(c) \in Rows /\ CounterOf(c) # c /\ Live(CounterOf(c))
    BY <2>1, <2>3, <2>4, CommitWrites
  <2>6. status'[CounterOf(c)] = status[CounterOf(c)] /\ CounterOf(c)' = CounterOf(c)
    BY <2>1, <2>3, <2>5, CommitWrites DEF Commit, CounterOf
  <2> QED BY <2>5, <2>6 DEF Live
<1>2. ASSUME NEW r \in Requests
      PROVE  Spec => [](ToRead(r) /\ []Hidden(r) => []~Live(r))
  <2>1. IInv /\ ToRead(r) => Unborn(r)
    BY DEF IInv, Good, Sound, ToRead, Unborn, Committed, Ended
  <2>2. IInv /\ Unborn(r) /\ Hidden(r) /\ [Next]_vars => Unborn(r)'
    BY UnbornKept
  <2>3. Unborn(r) => ~Live(r)
    BY DEF Unborn, Live
  <2> QED BY <2>1, <2>2, <2>3, InductiveInvariant, PTL DEF Spec
<1>3. Spec => [][\A c \in Requests : Live(c) # Live(c)' =>
                   Live(CounterOf(c)) /\ Live(CounterOf(c))']_vars
  BY <1>1, InductiveInvariant, PTL DEF Spec
<1>4. Spec => \A r \in Requests : [](ToRead(r) /\ []Hidden(r) => []~Live(r))
  BY <1>2
<1> QED BY <1>3, <1>4 DEF ThreadsStayLive

\* Every committed change of what the index holds of a post commits a search
\* job for the post with it.
THEOREM IndexCorrect == Spec => IndexIsTold
<1>1. IInv /\ [Next]_vars =>
        [\A p \in Posts :
           \/ count'[p] # count[p] \/ status'[p] # status[p]
           \/ (p \in private) # (p \in private')
           => \E r \in search' \ search : PostOf(r) = p]_vars
  <2> SUFFICES ASSUME IInv, [Next]_vars, NEW p \in Posts,
                      \/ count'[p] # count[p] \/ status'[p] # status[p]
                      \/ (p \in private) # (p \in private')
               PROVE  \E r \in search' \ search : PostOf(r) = p
    OBVIOUS
  <2>1. PICK r \in Requests : Commit(r)
    BY OnlyCommitsWrite
  <2>2. p \in Rows /\ p \notin Requests
    BY RowsFinite DEF Rows
  <2>3. r \in staged /\ r \notin search
    BY <2>1 DEF IInv, Good, Outbox, Ended, Commit
  <2>4. CASE count'[p] # count[p]
    <3>1. Counts(r) /\ p = CounterOf(Subject(r)) /\ Subject(r) \in Requests
      BY <2>1, <2>2, <2>4, CommitWrites
    <3>2. IsRoot(Subject(r)) /\ post[Subject(r)] = p
      BY <2>2, <3>1 DEF CounterOf, IsRoot, IInv, TypeOK
    <3>3. Reindexes(r) /\ PostOf(r) = p
      BY <3>1, <3>2, RowsFinite DEF Reindexes, PostOf
    <3> QED BY <2>1, <2>3, <3>3 DEF Commit
  <2>5. CASE status'[p] # status[p]
    <3>1. Subject(r) = p
      BY <2>1, <2>2, <2>5, CommitWrites
    <3> QED BY <2>1, <2>3, <3>1 DEF Commit, Reindexes, PostOf
  <2>6. CASE (p \in private) # (p \in private')
    <3>1. call[r].kind \in {"setPrivate", "setPublic"} /\ Target(r) = p
      BY <2>1, <2>6 DEF Commit
    <3>2. Subject(r) = p
      BY <3>1 DEF Subject, Creates
    <3> QED BY <2>1, <2>3, <3>2 DEF Commit, Reindexes, PostOf
  <2> QED BY <2>4, <2>5, <2>6
<1> QED BY <1>1, InductiveInvariant, PTL DEF Spec, IndexIsTold
=============================================================================
