-------------------------- MODULE SearchSyncProofs --------------------------
(***************************************************************************)
(* Proofs about SearchSync, for any writes, searches, viewers and number of *)
(* attempts: its types, what a search answers whom, and that the index is   *)
(* stale, when all is quiet, only after workers have overtaken each other.  *)
(***************************************************************************)
EXTENDS SearchSync, FiniteSetTheorems, SequenceTheorems, TLAPS

TaskSpace(v) == [from : Writes, attempt : 1..MaxAttempts, doc : 0..v]
Positions    == 1..Len(tasks)

\* The calls that have committed, one version of the row each.
Committed == {w \in Writes : job[w] # "absent"}

\* What an attempt that reads the row now will send.
Current == IF live THEN version ELSE NoDoc

RowAgrees ==
  /\ version = Cardinality(Committed)
  /\ live => version > 0
  /\ \A w \in Writes : action[w] = "delete" => ~live /\ version > 0

AttemptsAgree(w) ==
  /\ job[w] = "absent" => attempts[w] = 0
  /\ job[w] = "available" => attempts[w] < MaxAttempts
  /\ job[w] \in {"read", "wait", "finish"} => attempts[w] > 0

\* An attempt has at most one task in the queue, and none before it sends it.
TasksAgree ==
  /\ \A i \in Positions :
       LET w == tasks[i].from IN
         /\ tasks[i].attempt <= attempts[w]
         /\ job[w] = "read" => tasks[i].attempt < attempts[w]
  /\ \A i, k \in Positions :
       tasks[i].from = tasks[k].from /\ tasks[i].attempt = tasks[k].attempt => i = k

\* Others get public versions: from the index, and in an answer.
OthersGetPublic ==
  \A s \in Searches : viewer[s] # Author =>
    hit[s] \in public \union {NoDoc} /\ shown[s] \in public \union {NoDoc}

\* The current document is in the index, or it is on its way: a worker has yet
\* to read it, or has read it and not sent it, or waits for its task.  Behind
\* the current document no other is sent: the attempts that have not been
\* overtaken have all read the current one.
Pending(w) == job[w] \in {"available", "discarded"} \/ (job[w] = "read" /\ doc[w] = Current)

CurrentFrom(i) == \A k \in i..Len(tasks) : tasks[k].doc = Current

OnItsWay(i) ==
  /\ job[tasks[i].from] = "wait" /\ attempts[tasks[i].from] = tasks[i].attempt
  /\ CurrentFrom(i)

ReadersAreCurrent == \A w \in Writes : job[w] = "read" /\ w \notin passed => doc[w] = Current

Fresh ==
  \/ \E w \in Writes : Pending(w)
  \/ /\ ReadersAreCurrent
     /\ \/ index = Current /\ CurrentFrom(1)
        \/ \E i \in Positions : OnItsWay(i)

TypesAgree == TypeOK /\ RowAgrees /\ (\A w \in Writes : AttemptsAgree(w)) /\ TasksAgree

IInv == TypesAgree /\ OthersGetPublic /\ (~raced => Fresh)

-----------------------------------------------------------------------------
\* A type of the queue is a type of it when versions are added.
LEMMA TasksStay ==
  ASSUME NEW v \in Nat, NEW q \in Seq(TaskSpace(v))
  PROVE  q \in Seq(TaskSpace(v + 1))
<1>1. TaskSpace(v) \subseteq TaskSpace(v + 1)
  <2>1. 0..v \subseteq 0..(v + 1)
    OBVIOUS
  <2> QED BY <2>1 DEF TaskSpace
<1> QED BY <1>1, SeqMonotonic

\* What the types say of versions, jobs and the queue.
LEMMA Typed ==
  ASSUME TypesAgree
  PROVE  /\ version \in Nat /\ Cardinality(Writes) \in Nat /\ MaxAttempts \in Nat
         /\ tasks \in Seq(TaskSpace(version)) /\ Len(tasks) \in Nat
         /\ \A i \in Positions : tasks[i] \in TaskSpace(version)
         /\ \A w \in Writes : attempts[w] \in Nat
         /\ Current \in 0..version
<1>1. Cardinality(Writes) \in Nat
  BY WritesFinite, FS_CardinalityType
<1>2. version \in Nat /\ tasks \in Seq(TaskSpace(version)) /\ \A w \in Writes : attempts[w] \in Nat
  BY <1>1 DEF TypesAgree, TypeOK, TaskSpace
<1>3. Len(tasks) \in Nat /\ \A i \in Positions : tasks[i] \in TaskSpace(version)
  BY <1>2, ElementOfSeq, LenProperties DEF Positions
<1> QED BY <1>1, <1>2, <1>3, MaxAttemptsPositive DEF Current, NoDoc

\* The queue holds no document and no attempt of nobody's.
LEMMA TaskTyped ==
  ASSUME TypesAgree, NEW i \in Positions
  PROVE  /\ tasks[i].from \in Writes /\ tasks[i].attempt \in 1..MaxAttempts
         /\ tasks[i].doc \in 0..version
BY Typed DEF TaskSpace

LEMMA InitIInv == Init => IInv
<1> SUFFICES ASSUME Init PROVE IInv
  OBVIOUS
<1>1. Committed = {} /\ Cardinality({}) = 0 /\ Cardinality(Writes) \in Nat
  BY WritesFinite, FS_EmptySet, FS_CardinalityType DEF Init, Committed
<1>2. tasks = <<>> /\ Len(tasks) = 0 /\ Positions = {}
  BY EmptySeq DEF Init, Positions
<1>3. TypeOK
  <2>1. tasks \in Seq([from : Writes, attempt : 1..MaxAttempts, doc : 0..version])
    BY <1>2, EmptySeq
  <2>2. version \in 0..Cardinality(Writes) /\ public \subseteq 1..version /\ 0 \in 0..version
    BY <1>1 DEF Init
  <2>3. attempts \in [Writes -> 0..MaxAttempts]
    BY MaxAttemptsPositive DEF Init
  <2> QED BY <2>1, <2>2, <2>3 DEF Init, TypeOK, NoDoc
<1>4. RowAgrees /\ \A w \in Writes : AttemptsAgree(w)
  BY <1>1, MaxAttemptsPositive DEF Init, RowAgrees, AttemptsAgree
<1>5. TasksAgree
  BY <1>2 DEF TasksAgree
<1>6. OthersGetPublic
  BY DEF Init, OthersGetPublic
<1>7. Fresh
  BY <1>2 DEF Init, Fresh, ReadersAreCurrent, CurrentFrom, Current
<1> QED BY <1>3, <1>4, <1>5, <1>6, <1>7 DEF IInv, TypesAgree

-----------------------------------------------------------------------------
\* The four calls that change the row.
Write(w) == CreatePost(w) \/ UpdatePost(w) \/ CountOnPost(w) \/ DeletePost(w)

\* Each commits one more version and an available job; once a job of a
\* deletion is there the post is not NORMAL any more.
LEMMA WriteFacts ==
  ASSUME TypesAgree, NEW w \in Writes, Write(w)
  PROVE  /\ job[w] = "absent" /\ job' = [job EXCEPT ![w] = "available"]
         /\ version' = version + 1
         /\ live' \in BOOLEAN /\ private' \in BOOLEAN
         /\ public \subseteq public' /\ public' \subseteq public \union {version + 1}
         /\ action' \in [Writes -> {"upsert", "delete"}]
         /\ \A k \in Writes : action'[k] = "delete" => ~live'
         /\ UNCHANGED <<attempts, doc, passed, raced, tasks, index, search>>
<1>0. version \in Nat /\ live \in BOOLEAN /\ private \in BOOLEAN
  BY Typed DEF TypesAgree, TypeOK
<1>1. PICK hidden \in BOOLEAN, act \in {"upsert", "delete"} :
        /\ WriteRow(w, hidden, act)
        /\ live' \in BOOLEAN
        /\ act = "delete" => ~live'
        /\ version > 0 /\ ~live => ~live'
  <2>1. CASE CreatePost(w)
    BY <1>0, <2>1, HidingsTyped DEF CreatePost
  <2>2. CASE UpdatePost(w)
    BY <1>0, <2>2, HidingsTyped DEF UpdatePost
  <2>3. CASE CountOnPost(w)
    BY <1>0, <2>3 DEF CountOnPost
  <2>4. CASE DeletePost(w)
    BY <1>0, <2>4 DEF DeletePost
  <2> QED BY <2>1, <2>2, <2>3, <2>4 DEF Write
<1>2. \A k \in Writes : action'[k] = "delete" => ~live'
  BY <1>1 DEF TypesAgree, TypeOK, RowAgrees, WriteRow
<1> QED BY <1>1, <1>2 DEF TypesAgree, TypeOK, WriteRow

\* One more call has committed.
LEMMA OneMoreCommitted ==
  ASSUME TypesAgree, NEW w \in Writes, job[w] = "absent",
         job' = [job EXCEPT ![w] = "available"]
  PROVE  /\ Cardinality(Committed') = Cardinality(Committed) + 1
         /\ Cardinality(Committed') <= Cardinality(Writes)
<1>1. Committed' = Committed \union {w} /\ w \notin Committed
  BY DEF TypesAgree, TypeOK, Committed
<1>2. Committed' \in SUBSET Writes /\ Committed \in SUBSET Writes
  BY <1>1 DEF Committed
<1>3. IsFiniteSet(Committed) /\ Cardinality(Committed') <= Cardinality(Writes)
  BY <1>2, WritesFinite, FS_Subset
<1>4. Cardinality(Committed \union {w}) = Cardinality(Committed) + 1
  BY <1>1, <1>3, FS_AddElement
<1> QED BY <1>1, <1>3, <1>4

LEMMA WriteTypes ==
  ASSUME TypesAgree, NEW w \in Writes, Write(w)
  PROVE  TypesAgree'
<1>1. /\ job[w] = "absent" /\ job' = [job EXCEPT ![w] = "available"]
      /\ version' = version + 1
      /\ live' \in BOOLEAN /\ private' \in BOOLEAN
      /\ public' \subseteq public \union {version + 1}
      /\ action' \in [Writes -> {"upsert", "delete"}]
      /\ \A k \in Writes : action'[k] = "delete" => ~live'
      /\ UNCHANGED <<attempts, doc, passed, raced, tasks, index, search>>
  BY WriteFacts
<1>2. version \in Nat /\ Cardinality(Writes) \in Nat /\ tasks \in Seq(TaskSpace(version))
  BY Typed
<1>3. version' = Cardinality(Committed') /\ version' <= Cardinality(Writes)
  BY <1>1, OneMoreCommitted DEF TypesAgree, RowAgrees
<1>4. tasks' \in Seq(TaskSpace(version'))
  BY <1>1, <1>2, TasksStay
<1>5. TypeOK'
  <2>1. 0..version \subseteq 0..version' /\ 1..version \subseteq 1..version'
    BY <1>1, <1>2
  <2>2. doc' \in [Writes -> 0..version'] /\ index' \in 0..version'
    BY <1>1, <2>1 DEF TypesAgree, TypeOK
  <2>3. hit' \in [Searches -> 0..version'] /\ shown' \in [Searches -> 0..version']
    BY <1>1, <2>1 DEF TypesAgree, TypeOK, search
  <2>4. public' \subseteq 1..version' /\ version' \in 0..Cardinality(Writes)
    BY <1>1, <1>2, <1>3, <2>1 DEF TypesAgree, TypeOK
  <2> QED BY <1>1, <1>4, <2>2, <2>3, <2>4 DEF TypesAgree, TypeOK, TaskSpace, search
<1>6. RowAgrees'
  BY <1>1, <1>2, <1>3 DEF RowAgrees
<1>7. ASSUME NEW k \in Writes PROVE AttemptsAgree(k)'
  BY <1>1, MaxAttemptsPositive DEF TypesAgree, TypeOK, AttemptsAgree
<1>8. TasksAgree'
  <2>1. \A k \in Writes : job'[k] = "read" => job[k] = "read"
    BY <1>1 DEF TypesAgree, TypeOK
  <2> QED BY <1>1, <2>1, TaskTyped DEF TypesAgree, TasksAgree, Positions
<1> QED BY <1>5, <1>6, <1>7, <1>8 DEF TypesAgree

LEMMA WriteStep ==
  ASSUME IInv, NEW w \in Writes, Write(w)
  PROVE  IInv'
<1>1. TypesAgree /\ TypesAgree'
  BY WriteTypes DEF IInv
<1>2. OthersGetPublic'
  BY <1>1, WriteFacts DEF IInv, OthersGetPublic, search
<1>3. Fresh'
  <2>1. job'[w] = "available"
    BY <1>1, WriteFacts DEF TypesAgree, TypeOK
  <2> QED BY <2>1 DEF Fresh, Pending
<1> QED BY <1>1, <1>2, <1>3 DEF IInv

-----------------------------------------------------------------------------
\* ReadRow, Complete and Fail: the queue, the index and the row stay, and one
\* job moves.
LEMMA MoveTypes ==
  ASSUME TypesAgree, NEW w \in Writes, ReadRow(w) \/ Complete(w) \/ Fail(w)
  PROVE  /\ TypesAgree'
         /\ UNCHANGED <<row, action, raced, tasks, index, search>>
<1>1. UNCHANGED <<row, action, raced, tasks, index, search>>
  BY DEF ReadRow, Complete, Fail
<1>2. \A k \in Writes : k # w => job'[k] = job[k] /\ attempts'[k] = attempts[k]
  BY DEF TypesAgree, TypeOK, ReadRow, Complete, Fail
<1>3. \/ /\ job[w] = "available" /\ job'[w] = "read" /\ attempts'[w] = attempts[w] + 1
      \/ /\ job[w] \in {"read", "wait", "finish"} /\ attempts'[w] = attempts[w]
         /\ \/ job'[w] \in {"completed", "discarded"}
            \/ job'[w] = "available" /\ attempts[w] < MaxAttempts
  BY DEF TypesAgree, TypeOK, ReadRow, Complete, Fail, Retry
<1>4. /\ job' \in [Writes -> {"absent", "available", "read", "wait", "finish", "completed",
                              "discarded"}]
      /\ attempts' = [attempts EXCEPT ![w] = attempts'[w]]
      /\ passed' \subseteq Writes
  BY DEF TypesAgree, TypeOK, ReadRow, Complete, Fail, Retry
<1>5. doc' \in [Writes -> 0..version]
  BY Typed DEF TypesAgree, TypeOK, ReadRow, Complete, Fail, NoDoc
<1>6. attempts'[w] \in 0..MaxAttempts
  BY <1>3, MaxAttemptsPositive DEF TypesAgree, TypeOK, AttemptsAgree
<1>7. TypeOK'
  BY <1>1, <1>4, <1>5, <1>6 DEF TypesAgree, TypeOK, row, search
<1>8. RowAgrees'
  <2>1. Committed' = Committed
    BY <1>2, <1>3 DEF Committed
  <2> QED BY <1>1, <2>1 DEF TypesAgree, RowAgrees, row
<1>9. ASSUME NEW k \in Writes PROVE AttemptsAgree(k)'
  <2>1. CASE k = w
    BY <1>3, <2>1 DEF TypesAgree, TypeOK, AttemptsAgree
  <2>2. CASE k # w
    BY <1>2, <2>2 DEF TypesAgree, AttemptsAgree
  <2> QED BY <2>1, <2>2
<1>10. TasksAgree'
  <2>1. ASSUME NEW i \in Positions
        PROVE  LET k == tasks[i].from IN
                 /\ tasks[i].attempt <= attempts'[k]
                 /\ job'[k] = "read" => tasks[i].attempt < attempts'[k]
    <3>1. /\ tasks[i].from \in Writes /\ tasks[i].attempt \in Nat
          /\ attempts[tasks[i].from] \in Nat /\ tasks[i].attempt <= attempts[tasks[i].from]
          /\ job[tasks[i].from] = "read" => tasks[i].attempt < attempts[tasks[i].from]
      BY TaskTyped, Typed DEF TypesAgree, TasksAgree
    <3> QED BY <1>2, <1>3, <3>1
  <2> QED BY <1>1, <2>1 DEF TypesAgree, TasksAgree, Positions
<1> QED BY <1>1, <1>7, <1>8, <1>9, <1>10 DEF TypesAgree

LEMMA AnswersStay ==
  ASSUME OthersGetPublic, UNCHANGED <<row, search>>
  PROVE  OthersGetPublic'
BY DEF OthersGetPublic, row, search

\* Whatever was on its way still is, unless it was this attempt: then the job
\* is to be done again, or has used up its attempts.
LEMMA MoveFresh ==
  ASSUME TypesAgree, Fresh, NEW w \in Writes, ReadRow(w) \/ Complete(w) \/ Fail(w)
  PROVE  Fresh'
<1>1. UNCHANGED <<row, tasks, index>> /\ Current' = Current
  BY DEF ReadRow, Complete, Fail, row, Current
<1>2. \A i : CurrentFrom(i)' <=> CurrentFrom(i)
  BY <1>1 DEF CurrentFrom
<1>3. ASSUME NEW k \in Writes, k # w
      PROVE  job'[k] = job[k] /\ doc'[k] = doc[k] /\ attempts'[k] = attempts[k]
  BY <1>3 DEF TypesAgree, TypeOK, ReadRow, Complete, Fail
<1>4. CASE ReadRow(w)
  <2>1. job'[w] = "read" /\ doc'[w] = Current
    BY <1>4 DEF TypesAgree, TypeOK, RowAgrees, ReadRow, Current
  <2> QED BY <1>1, <2>1 DEF Fresh, Pending
<1>5. CASE Complete(w)
  <2>1. job[w] = "finish" /\ job'[w] = "completed" /\ UNCHANGED <<doc, attempts, passed>>
    BY <1>5 DEF TypesAgree, TypeOK, Complete
  <2>2. ASSUME NEW k \in Writes, Pending(k) PROVE Pending(k)'
    BY <1>1, <1>3, <2>1, <2>2 DEF Pending
  <2>3. ASSUME NEW i \in Positions, OnItsWay(i) PROVE OnItsWay(i)'
    BY <1>1, <1>2, <1>3, <2>1, <2>3, TaskTyped DEF OnItsWay
  <2>4. ReadersAreCurrent => ReadersAreCurrent'
    BY <1>1, <1>3, <2>1 DEF ReadersAreCurrent
  <2> QED BY <1>1, <1>2, <2>2, <2>3, <2>4 DEF Fresh, Positions
<1>6. CASE Fail(w)
  <2>1. job'[w] \in {"available", "discarded"}
    BY <1>6 DEF TypesAgree, TypeOK, Fail, Retry
  <2> QED BY <2>1 DEF Fresh, Pending
<1> QED BY <1>4, <1>5, <1>6

LEMMA MoveStep ==
  ASSUME IInv, NEW w \in Writes, ReadRow(w) \/ Complete(w) \/ Fail(w)
  PROVE  IInv'
<1>1. TypesAgree' /\ UNCHANGED <<row, raced, search>>
  BY MoveTypes DEF IInv
<1> QED BY <1>1, MoveFresh, AnswersStay DEF IInv

-----------------------------------------------------------------------------
\* The queue after a task has been sent.
LEMMA SendFacts ==
  ASSUME TypesAgree, NEW w \in Writes, SendTask(w)
  PROVE  /\ Len(tasks') = Len(tasks) + 1 /\ Len(tasks) \in Nat
         /\ tasks'[Len(tasks) + 1] = [from |-> w, attempt |-> attempts[w], doc |-> doc[w]]
         /\ \A i \in Positions : tasks'[i] = tasks[i]
         /\ tasks' \in Seq(TaskSpace(version))
         /\ job[w] = "read" /\ job' = [job EXCEPT ![w] = "wait"]
         /\ UNCHANGED <<row, action, attempts, doc, index, search>>
<1> DEFINE e == [from |-> w, attempt |-> attempts[w], doc |-> doc[w]]
<1>1. tasks \in Seq(TaskSpace(version)) /\ Len(tasks) \in Nat
  BY Typed
<1>2. attempts[w] \in 1..MaxAttempts
  BY Typed DEF SendTask, TypesAgree, TypeOK, AttemptsAgree
<1>3. e \in TaskSpace(version)
  BY <1>2 DEF TypesAgree, TypeOK, TaskSpace
<1>4. tasks' = Append(tasks, e)
  BY DEF SendTask
<1> HIDE DEF e
<1>5. Len(tasks') = Len(tasks) + 1 /\ tasks'[Len(tasks) + 1] = e
  BY <1>1, <1>3, <1>4
<1>6. \A i \in Positions : tasks'[i] = tasks[i]
  BY <1>1, <1>3, <1>4 DEF Positions
<1>7. tasks' \in Seq(TaskSpace(version))
  BY <1>1, <1>3, <1>4
<1> QED BY <1>1, <1>5, <1>6, <1>7 DEF SendTask, e

LEMMA SendTypes ==
  ASSUME TypesAgree, NEW w \in Writes, SendTask(w)
  PROVE  TypesAgree'
<1>0. PICK n \in Nat : n = Len(tasks) + 1
  BY Typed
<1>1. /\ Len(tasks') = n /\ Len(tasks) \in Nat
      /\ tasks'[n] = [from |-> w, attempt |-> attempts[w], doc |-> doc[w]]
      /\ \A i \in Positions : tasks'[i] = tasks[i]
      /\ tasks' \in Seq(TaskSpace(version))
      /\ job[w] = "read" /\ job' = [job EXCEPT ![w] = "wait"]
      /\ UNCHANGED <<row, action, attempts, doc, index, search>>
  BY <1>0, SendFacts
<1>2. passed' \subseteq Writes /\ raced' \in BOOLEAN
  BY DEF SendTask, TypesAgree, TypeOK
<1>3. TypeOK'
  BY <1>1, <1>2 DEF TypesAgree, TypeOK, TaskSpace, row, search
<1>4. RowAgrees'
  <2>1. Committed' = Committed
    BY <1>1 DEF TypesAgree, TypeOK, Committed
  <2> QED BY <1>1, <2>1 DEF TypesAgree, RowAgrees, row
<1>5. ASSUME NEW k \in Writes PROVE AttemptsAgree(k)'
  BY <1>1 DEF TypesAgree, TypeOK, AttemptsAgree
<1>6. Positions' = Positions \union {n} /\ n \notin Positions
  BY <1>0, <1>1 DEF Positions
<1>7. ASSUME NEW i \in Positions
      PROVE  /\ tasks'[i].from \in Writes /\ tasks'[i].attempt \in Nat
             /\ tasks'[i].attempt <= attempts[tasks'[i].from]
             /\ job[tasks'[i].from] = "read" => tasks'[i].attempt < attempts[tasks'[i].from]
  <2>1. tasks'[i] = tasks[i]
    BY <1>1
  <2>2. tasks[i].from \in Writes /\ tasks[i].attempt \in Nat
    BY TaskTyped
  <2>3. /\ tasks[i].attempt <= attempts[tasks[i].from]
        /\ job[tasks[i].from] = "read" => tasks[i].attempt < attempts[tasks[i].from]
    BY DEF TypesAgree, TasksAgree
  <2> QED BY <2>1, <2>2, <2>3
<1>8. TasksAgree'
  <2>1. ASSUME NEW i \in Positions'
        PROVE  LET k == tasks'[i].from IN
                 /\ tasks'[i].attempt <= attempts'[k]
                 /\ job'[k] = "read" => tasks'[i].attempt < attempts'[k]
    <3>1. CASE i = n
      <4>1. tasks'[i].from = w /\ tasks'[i].attempt = attempts[w] /\ attempts'[w] = attempts[w]
        BY <1>1, <3>1
      <4>2. attempts[w] \in Nat /\ job'[w] = "wait"
        BY <1>1, Typed DEF TypesAgree, TypeOK
      <4> QED BY <4>1, <4>2
    <3>2. CASE i \in Positions
      BY <1>1, <1>7, <3>2 DEF TypesAgree, TypeOK
    <3> QED BY <1>6, <3>1, <3>2
  <2>2. ASSUME NEW i \in Positions', NEW k \in Positions', i # k,
               tasks'[i].from = tasks'[k].from, tasks'[i].attempt = tasks'[k].attempt
        PROVE  FALSE
    <3>1. CASE i \in Positions /\ k \in Positions
      BY <1>1, <2>2, <3>1 DEF TypesAgree, TasksAgree
    <3>2. CASE i = n
      BY <1>1, <1>6, <1>7, <2>2, <3>2
    <3>3. CASE k = n
      BY <1>1, <1>6, <1>7, <2>2, <3>3
    <3> QED BY <1>6, <3>1, <3>2, <3>3
  <2> QED BY <2>1, <2>2 DEF TasksAgree
<1> QED BY <1>3, <1>4, <1>5, <1>8 DEF TypesAgree

\* An attempt that sends its document unovertaken has read the current one if
\* any current one was sent; from now on all others are overtaken.
LEMMA SendFresh ==
  ASSUME TypesAgree, Fresh, NEW w \in Writes, SendTask(w), w \notin passed
  PROVE  Fresh'
<1>0. PICK n \in Nat : n = Len(tasks) + 1
  BY Typed
<1>1. /\ Len(tasks') = n /\ Len(tasks) \in Nat
      /\ tasks'[n] = [from |-> w, attempt |-> attempts[w], doc |-> doc[w]]
      /\ \A i \in Positions : tasks'[i] = tasks[i]
      /\ job[w] = "read" /\ job' = [job EXCEPT ![w] = "wait"]
      /\ UNCHANGED <<row, attempts, doc, index>>
  BY <1>0, SendFacts
<1>2. Current' = Current /\ n \in Positions' /\ Positions \subseteq Positions'
  BY <1>0, <1>1 DEF row, Current, Positions
<1>3. ReadersAreCurrent'
  <2>1. \A k \in Writes : job'[k] = "read" => job[k] = "read" /\ k # w
    BY <1>1 DEF TypesAgree, TypeOK
  <2>2. \A k \in Writes \ {w} : job[k] = "read" => k \in passed'
    BY DEF SendTask
  <2> QED BY <2>1, <2>2 DEF ReadersAreCurrent
<1>4. CASE doc[w] = Current
  <2>1. OnItsWay(n)'
    BY <1>1, <1>2, <1>4 DEF TypesAgree, TypeOK, OnItsWay, CurrentFrom
  <2> QED BY <1>2, <1>3, <2>1 DEF Fresh
<1>5. CASE doc[w] # Current
  <2>1. ~ReadersAreCurrent
    BY <1>1, <1>5 DEF ReadersAreCurrent
  <2>2. PICK k \in Writes : Pending(k)
    BY <2>1 DEF Fresh
  <2>3. k # w
    BY <1>1, <1>5, <2>2 DEF Pending
  <2>4. Pending(k)'
    BY <1>1, <1>2, <2>2, <2>3 DEF Pending, TypesAgree, TypeOK
  <2> QED BY <2>4 DEF Fresh
<1> QED BY <1>4, <1>5

LEMMA SendStep ==
  ASSUME IInv, NEW w \in Writes, SendTask(w)
  PROVE  IInv'
<1>1. TypesAgree' /\ UNCHANGED <<row, search>>
  BY SendTypes, SendFacts DEF IInv
<1>2. ~raced' => ~raced /\ w \notin passed
  BY DEF SendTask, IInv, TypesAgree, TypeOK
<1> QED BY <1>1, <1>2, SendFresh, AnswersStay DEF IInv

-----------------------------------------------------------------------------
\* Meilisearch has worked off the first task; its worker is told.
LEMMA ApplyFacts ==
  ASSUME TypesAgree, ApplyTask
  PROVE  /\ Len(tasks) \in Nat /\ 1 \in Positions /\ Head(tasks) = tasks[1]
         /\ Len(tasks') = Len(tasks) - 1
         /\ \A i \in Positions' : i + 1 \in Positions /\ tasks'[i] = tasks[i + 1]
         /\ tasks' \in Seq(TaskSpace(version))
         /\ UNCHANGED <<row, action, attempts, doc, passed, raced, search>>
<1>1. tasks \in Seq(TaskSpace(version)) /\ tasks # <<>> /\ tasks' = Tail(tasks)
  BY Typed DEF ApplyTask
<1>2. Len(tasks) \in Nat \ {0}
  BY <1>1, EmptySeq
<1>3. /\ tasks' \in Seq(TaskSpace(version)) /\ Len(tasks') = Len(tasks) - 1
      /\ \A i \in 1..Len(tasks') : tasks'[i] = tasks[i + 1]
  BY <1>1, HeadTailProperties
<1>4. \A i \in Positions' : i + 1 \in Positions
  BY <1>2, <1>3 DEF Positions
<1>5. 1 \in Positions /\ Head(tasks) = tasks[1]
  BY <1>1, <1>2 DEF Positions
<1> QED BY <1>2, <1>3, <1>4, <1>5 DEF ApplyTask, Positions

\* The jobs stay, but for the one that waits for this attempt's task.
LEMMA ApplyJobs ==
  ASSUME TypesAgree, ApplyTask, NEW w \in Writes
  PROVE  /\ ~Awaited(w) => job'[w] = job[w]
         /\ Awaited(w) => /\ job[w] = "wait"
                          /\ \/ job'[w] = "finish" /\ index' = tasks[1].doc
                             \/ job'[w] = Retry(w) /\ index' = index
<1>1. Head(tasks) = tasks[1]
  BY ApplyFacts
<1>2. \/ /\ index' = tasks[1].doc
         /\ job' = [k \in Writes |-> IF Awaited(k) THEN "finish" ELSE job[k]]
      \/ /\ index' = index
         /\ job' = [k \in Writes |-> IF Awaited(k) THEN Retry(k) ELSE job[k]]
  BY <1>1 DEF ApplyTask
<1>3. Awaited(w) => job[w] = "wait"
  BY DEF Awaited
<1> QED BY <1>2, <1>3

LEMMA ApplyTypes ==
  ASSUME TypesAgree, ApplyTask
  PROVE  TypesAgree'
<1>1. /\ Len(tasks) \in Nat /\ 1 \in Positions
      /\ Len(tasks') = Len(tasks) - 1
      /\ \A i \in Positions' : i + 1 \in Positions /\ tasks'[i] = tasks[i + 1]
      /\ tasks' \in Seq(TaskSpace(version))
      /\ UNCHANGED <<row, action, attempts, doc, passed, raced, search>>
  BY ApplyFacts
<1>2. ASSUME NEW w \in Writes
      PROVE  \/ job'[w] = job[w]
             \/ job[w] = "wait" /\ job'[w] = "finish"
             \/ job[w] = "wait" /\ job'[w] = "available" /\ attempts[w] < MaxAttempts
             \/ job[w] = "wait" /\ job'[w] = "discarded"
  BY ApplyJobs DEF Retry
<1>3. job' \in [Writes -> {"absent", "available", "read", "wait", "finish", "completed",
                          "discarded"}]
  BY DEF ApplyTask, TypesAgree, TypeOK, Retry
<1>4. index' \in 0..version
  <2>1. index \in 0..version
    BY DEF TypesAgree, TypeOK
  <2>2. Head(tasks).doc \in 0..version
    BY TaskTyped, ApplyFacts
  <2>3. index' = index \/ index' = Head(tasks).doc
    BY DEF ApplyTask
  <2>4. version' = version
    BY <1>1 DEF row
  <2> HIDE DEF TypesAgree
  <2> QED BY <2>1, <2>2, <2>3, <2>4
<1>5. TypeOK'
  <2>1. TypeOK /\ tasks' \in Seq([from : Writes, attempt : 1..MaxAttempts, doc : 0..version])
    BY <1>1 DEF TypesAgree, TaskSpace
  <2>2. UNCHANGED <<version, live, private, public, action, attempts, doc, passed, raced,
                    hit, shown, viewer>>
    BY <1>1 DEF row, search
  <2> HIDE DEF TypesAgree
  <2> QED BY <1>3, <1>4, <2>1, <2>2 DEF TypeOK
<1>6. RowAgrees'
  <2>1. Committed' = Committed
    BY <1>2 DEF Committed
  <2> QED BY <1>1, <2>1 DEF TypesAgree, RowAgrees, row
<1>7. ASSUME NEW w \in Writes PROVE AttemptsAgree(w)'
  BY <1>1, <1>2 DEF TypesAgree, AttemptsAgree
<1>8. TasksAgree'
  <2>1. \A w \in Writes : job'[w] = "read" => job[w] = "read"
    BY <1>2
  <2>2. ASSUME NEW i \in Positions'
        PROVE  LET k == tasks'[i].from IN
                 /\ tasks'[i].attempt <= attempts'[k]
                 /\ job'[k] = "read" => tasks'[i].attempt < attempts'[k]
    BY <1>1, <2>1, TaskTyped DEF TypesAgree, TasksAgree
  <2>3. ASSUME NEW i \in Positions', NEW k \in Positions',
               tasks'[i].from = tasks'[k].from, tasks'[i].attempt = tasks'[k].attempt
        PROVE  i = k
    <3>1. i + 1 = k + 1
      BY <1>1, <2>3 DEF TypesAgree, TasksAgree
    <3>2. i \in Nat /\ k \in Nat
      BY DEF Positions
    <3> QED BY <3>1, <3>2
  <2> QED BY <2>2, <2>3 DEF TasksAgree
<1> QED BY <1>5, <1>6, <1>7, <1>8 DEF TypesAgree

\* The current document moves towards the head of the queue and then into the
\* index; or its task fails, and its job is to be done again.
LEMMA ApplyFresh ==
  ASSUME TypesAgree, Fresh, ApplyTask
  PROVE  Fresh'
<1>1. /\ Len(tasks) \in Nat /\ 1 \in Positions
      /\ Len(tasks') = Len(tasks) - 1
      /\ \A i \in Positions' : i + 1 \in Positions /\ tasks'[i] = tasks[i + 1]
      /\ UNCHANGED <<row, attempts, doc, passed>>
  BY ApplyFacts
<1>2. Current' = Current
  BY <1>1 DEF row, Current
<1>3. ASSUME NEW i \in Nat \ {0}, CurrentFrom(i + 1) PROVE CurrentFrom(i)'
  <2> SUFFICES ASSUME NEW k \in i..Len(tasks') PROVE tasks'[k].doc = Current
    BY <1>2 DEF CurrentFrom
  <2>1. k \in Positions' /\ k + 1 \in (i + 1)..Len(tasks)
    BY <1>1 DEF Positions
  <2> QED BY <1>1, <1>3, <2>1 DEF CurrentFrom
<1>4. ASSUME NEW w \in Writes, Pending(w) PROVE Pending(w)'
  <2>1. job'[w] = job[w]
    BY <1>4, ApplyJobs DEF Pending
  <2> QED BY <1>1, <1>2, <1>4, <2>1 DEF Pending
<1>5. ASSUME ReadersAreCurrent PROVE ReadersAreCurrent'
  <2>1. \A w \in Writes : job'[w] = "read" => job[w] = "read"
    BY ApplyJobs DEF Retry
  <2> QED BY <1>1, <1>2, <1>5, <2>1 DEF ReadersAreCurrent
<1>6. index' = tasks[1].doc \/ index' = index
  BY ApplyFacts DEF ApplyTask
<1>7. ASSUME CurrentFrom(1), index = Current PROVE index' = Current' /\ CurrentFrom(1)'
  <2>1. tasks[1].doc = Current
    BY <1>1, <1>7 DEF CurrentFrom, Positions
  <2>2. CurrentFrom(2)
    BY <1>1, <1>7 DEF CurrentFrom
  <2> QED BY <1>2, <1>3, <1>6, <1>7, <2>1, <2>2
<1>8. ASSUME NEW i \in Positions, OnItsWay(i)
      PROVE  \/ \E w \in Writes : Pending(w)'
             \/ index' = Current' /\ CurrentFrom(1)'
             \/ \E k \in Positions' : OnItsWay(k)'
  <2> DEFINE w == tasks[i].from
  <2>1. w \in Writes /\ job[w] = "wait" /\ attempts[w] = tasks[i].attempt /\ CurrentFrom(i)
    BY <1>8, TaskTyped DEF OnItsWay
  <2>2. CASE i = 1
    <3>1. tasks[1].doc = Current
      BY <1>1, <2>1, <2>2 DEF CurrentFrom, Positions
    <3>2. CurrentFrom(1)'
      <4>1. CurrentFrom(2)
        BY <1>1, <2>1, <2>2 DEF CurrentFrom
      <4> QED BY <1>3, <4>1
    <3>3. Awaited(w)
      BY <2>1, <2>2, ApplyFacts DEF Awaited
    <3>4. index' = tasks[1].doc \/ job'[w] \in {"available", "discarded"}
      BY <2>1, <3>3, ApplyJobs DEF Retry
    <3> QED BY <1>2, <2>1, <3>1, <3>2, <3>4 DEF Pending
  <2>3. CASE i # 1
    <3>1. i - 1 \in Positions' /\ i - 1 \in Nat \ {0}
      BY <1>1, <2>3 DEF Positions
    <3>2. tasks'[i - 1] = tasks[i] /\ CurrentFrom(i - 1)'
      <4>1. (i - 1) + 1 = i
        BY DEF Positions
      <4>2. CurrentFrom((i - 1) + 1)
        BY <2>1, <4>1
      <4> QED BY <1>1, <1>3, <3>1, <4>1, <4>2
    <3>3. ~Awaited(w)
      BY <1>1, <2>1, <2>3, ApplyFacts DEF Awaited, TypesAgree, TasksAgree
    <3>4. job'[w] = "wait" /\ attempts'[w] = attempts[w]
      BY <1>1, <2>1, <3>3, ApplyJobs
    <3> QED BY <2>1, <3>1, <3>2, <3>4 DEF OnItsWay
  <2> QED BY <2>2, <2>3
<1> QED BY <1>4, <1>5, <1>7, <1>8 DEF Fresh

LEMMA ApplyStep ==
  ASSUME IInv, ApplyTask
  PROVE  IInv'
<1>1. TypesAgree' /\ UNCHANGED <<row, raced, search>>
  BY ApplyTypes, ApplyFacts DEF IInv
<1> QED BY <1>1, ApplyFresh, AnswersStay DEF IInv

-----------------------------------------------------------------------------
\* A search changes only what it has found and shown.
LEMMA SearchStep ==
  ASSUME IInv, NEW s \in Searches, QueryIndex(s) \/ QueryExtras(s)
  PROVE  IInv'
<1>1. UNCHANGED <<row, river, tasks, index, viewer>>
  BY DEF QueryIndex, QueryExtras
<1>2. version \in Nat
  BY Typed DEF IInv
<1>3. hit' \in [Searches -> 0..version] /\ shown' \in [Searches -> 0..version]
  <2>1. /\ NoDoc \in 0..version /\ index \in 0..version
        /\ hit \in [Searches -> 0..version] /\ shown \in [Searches -> 0..version]
    BY <1>2 DEF IInv, TypesAgree, TypeOK, NoDoc
  <2>2. CASE QueryIndex(s)
    BY <2>1, <2>2 DEF QueryIndex
  <2>3. CASE QueryExtras(s)
    BY <2>1, <2>3 DEF QueryExtras
  <2> QED BY <2>2, <2>3
<1>4. TypeOK'
  BY <1>1, <1>3 DEF IInv, TypesAgree, TypeOK, row, river
<1>5. RowAgrees' /\ TasksAgree' /\ \A w \in Writes : AttemptsAgree(w)'
  BY <1>1 DEF IInv, TypesAgree, RowAgrees, Committed, TasksAgree, Positions, AttemptsAgree,
     row, river
<1>6. OthersGetPublic'
  BY <1>1 DEF IInv, TypesAgree, TypeOK, OthersGetPublic, QueryIndex, QueryExtras, row
<1>7. ~raced' => Fresh'
  BY <1>1 DEF IInv, Fresh, Pending, ReadersAreCurrent, Positions, OnItsWay, CurrentFrom, Current,
     row, river
<1> QED BY <1>4, <1>5, <1>6, <1>7 DEF IInv, TypesAgree

LEMMA StutterStep ==
  ASSUME IInv, UNCHANGED vars
  PROVE  IInv'
<1>1. UNCHANGED <<row, river, tasks, index, search>>
  BY DEF vars
<1>2. TypeOK'
  BY <1>1 DEF IInv, TypesAgree, TypeOK, row, river, search
<1>3. RowAgrees' /\ TasksAgree' /\ \A w \in Writes : AttemptsAgree(w)'
  BY <1>1 DEF IInv, TypesAgree, RowAgrees, Committed, TasksAgree, Positions, AttemptsAgree,
     row, river
<1>4. OthersGetPublic'
  BY <1>1, AnswersStay DEF IInv
<1>5. ~raced' => Fresh'
  BY <1>1 DEF IInv, Fresh, Pending, ReadersAreCurrent, Positions, OnItsWay, CurrentFrom, Current,
     row, river
<1> QED BY <1>2, <1>3, <1>4, <1>5 DEF IInv, TypesAgree

LEMMA NextIInv == IInv /\ [Next]_vars => IInv'
<1> SUFFICES ASSUME IInv, [Next]_vars PROVE IInv'
  OBVIOUS
<1>1. ASSUME NEW w \in Writes,
             CreatePost(w) \/ UpdatePost(w) \/ CountOnPost(w) \/ DeletePost(w)
      PROVE  IInv'
  BY <1>1, WriteStep DEF Write
<1>2. ASSUME NEW w \in Writes, Worker(w) \/ Fail(w)
      PROVE  IInv'
  BY <1>2, MoveStep, SendStep DEF Worker
<1>3. CASE ApplyTask
  BY <1>3, ApplyStep
<1>4. ASSUME NEW s \in Searches, QueryIndex(s) \/ QueryExtras(s)
      PROVE  IInv'
  BY <1>4, SearchStep
<1>5. CASE UNCHANGED vars
  BY <1>5, StutterStep
<1> QED BY <1>1, <1>2, <1>3, <1>4, <1>5 DEF Next

\* The inductive invariant holds in every reachable state.
THEOREM InductiveInvariant == Spec => []IInv
BY InitIInv, NextIInv, PTL DEF Spec

\* When the jobs are worked off and the queue is empty nothing is on its way,
\* so the current document is in the index.
THEOREM IndexCorrect == Spec => []IndexInv
<1>1. IInv => IndexInv
  <2> SUFFICES ASSUME IInv, Quiet, ~raced PROVE index = Current
    BY DEF IInv, TypesAgree, IndexInv, StaleOnlyIfOvertaken, Current
  <2>1. Positions = {}
    BY EmptySeq DEF Quiet, Positions
  <2>2. \A w \in Writes : ~Pending(w)
    BY DEF Quiet, Pending
  <2> QED BY <2>1, <2>2 DEF IInv, Fresh
<1> QED BY <1>1, InductiveInvariant, PTL

\* Others are shown public versions only, and nothing that is deleted or
\* private when they are answered.
THEOREM AnswersFit == Spec => AnswersFitTheViewer
<1>1. IInv' => OthersSeePublicVersions'
  BY DEF IInv, OthersGetPublic, OthersSeePublicVersions
<1>2. IInv /\ [Next]_vars => [StaleHitsAreDropped]_vars
  <2> SUFFICES ASSUME IInv, Next, NEW s \in Searches,
                      ~live \/ (private /\ viewer[s] # Author)
               PROVE  shown'[s] \in {shown[s], NoDoc}
    BY DEF StaleHitsAreDropped
  <2>1. ASSUME NEW w \in Writes, \/ CreatePost(w) \/ UpdatePost(w) \/ CountOnPost(w)
                                 \/ DeletePost(w) \/ Worker(w) \/ Fail(w)
        PROVE  shown' = shown
    BY <2>1 DEF CreatePost, UpdatePost, CountOnPost, DeletePost, WriteRow, Worker, ReadRow,
       SendTask, Complete, Fail, search
  <2>2. CASE ApplyTask
    BY <2>2 DEF ApplyTask, search
  <2>3. ASSUME NEW t \in Searches, QueryIndex(t) \/ QueryExtras(t)
        PROVE  shown'[s] \in {shown[s], NoDoc}
    BY <2>3 DEF QueryIndex, QueryExtras, IInv, TypesAgree, TypeOK
  <2> QED BY <2>1, <2>2, <2>3 DEF Next
<1>3. IInv /\ IInv' /\ [Next]_vars => [OthersSeePublicVersions' /\ StaleHitsAreDropped]_vars
  BY <1>1, <1>2
<1> QED BY <1>3, InductiveInvariant, PTL DEF Spec, AnswersFitTheViewer
=============================================================================
