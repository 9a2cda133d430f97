----------------------------- MODULE InboxProofs -----------------------------
(***************************************************************************)
(* Proofs about Inbox, for any users, jobs, list calls and number of        *)
(* attempts.  Complete work (InboxInv) needs to know what a statement that  *)
(* is under way has seen; DuplicatesOverlapped, besides, which statements   *)
(* are under way together.  Both are parts of one inductive invariant.      *)
(***************************************************************************)
EXTENDS Inbox, TLAPS

\* The message of job j has been inserted, or an equal one had been before.
Arrived(j) ==
  \/ msg[j] # "absent"
  \/ \E k \in Jobs : SamePair(j, k) /\ msg[k] # "absent"

\* The attempts of a job and where it stands in River agree.
AttemptsAgree(j) ==
  /\ state[j] = "available" => attempts[j] < MaxAttempts
  /\ state[j] = "absent" => attempts[j] = 0 /\ msg[j] = "absent"
  /\ state[j] = "discarded" => attempts[j] = MaxAttempts

\* What a worker has seen was there, and what it has finished is done.
WorkIsDone(j) ==
  /\ exists[j] => \E k \in Jobs : SamePair(j, k) /\ msg[k] # "absent"
  /\ state[j] \in {"finish", "completed"} => Arrived(j)

\* Two statements on one pair that are under way together are in overlap; and
\* so is a statement that has seen no message with each one inserted since.
OverlapsAreKnown ==
  \A j, k \in Jobs :
    j # k /\ SamePair(j, k) /\ state[j] = "insert" =>
      /\ state[k] = "insert" => {j, k} \in overlap
      /\ ~exists[j] /\ msg[k] = "NORMAL" => {j, k} \in overlap

IInv ==
  /\ TypeOK
  /\ \A j \in Jobs : AttemptsAgree(j) /\ WorkIsDone(j)
  /\ OverlapsAreKnown
  /\ DuplicatesOverlapped

LEMMA InitIInv == Init => IInv
<1> SUFFICES ASSUME Init PROVE IInv
  OBVIOUS
<1>1. TypeOK
  BY BoundsArePositive DEF Init, TypeOK
<1>2. \A j \in Jobs : AttemptsAgree(j) /\ WorkIsDone(j)
  BY BoundsArePositive DEF Init, AttemptsAgree, WorkIsDone
<1>3. OverlapsAreKnown /\ DuplicatesOverlapped
  BY DEF Init, OverlapsAreKnown, DuplicatesOverlapped
<1> QED BY <1>1, <1>2, <1>3 DEF IInv

-----------------------------------------------------------------------------
\* A step of a list call, MarkAllRead or none: jobs and messages stay.
LEMMA ReadStep ==
  ASSUME IInv, UNCHANGED <<jobVars, msg>>,
         read' \in SUBSET Jobs, rows' \in [Lists -> SUBSET Jobs]
  PROVE  IInv'
<1>1. TypeOK'
  BY DEF IInv, TypeOK, jobVars
<1>2. \A j \in Jobs : AttemptsAgree(j)' /\ WorkIsDone(j)'
  BY DEF IInv, jobVars, AttemptsAgree, WorkIsDone, Arrived, SamePair
<1>3. OverlapsAreKnown' /\ DuplicatesOverlapped'
  BY DEF IInv, jobVars, OverlapsAreKnown, DuplicatesOverlapped, SamePair
<1> QED BY <1>1, <1>2, <1>3 DEF IInv

\* Enqueue, Fetch, Complete and Fail move one job and forget what it saw; no
\* follow job gets into its INSERT by them.
LEMMA MoveStep ==
  ASSUME IInv, NEW j \in Jobs, Enqueue(j) \/ Fetch(j) \/ Complete(j) \/ Fail(j)
  PROVE  IInv'
<1>1. TypeOK'
  <2>1. attempts'[j] \in 0..MaxAttempts
    BY BoundsArePositive DEF IInv, TypeOK, AttemptsAgree, Enqueue, Fetch, Complete, Fail
  <2> QED BY <2>1 DEF IInv, TypeOK, Enqueue, Fetch, Complete, Fail
<1>2. ASSUME NEW k \in Jobs PROVE AttemptsAgree(k)'
  BY BoundsArePositive DEF IInv, TypeOK, AttemptsAgree, Enqueue, Fetch, Complete, Fail
<1>3. ASSUME NEW k \in Jobs PROVE WorkIsDone(k)'
  <2>1. WorkIsDone(k)
    BY DEF IInv
  <2>2. state'[k] \in {"finish", "completed"} => state[k] \in {"finish", "completed"}
    BY DEF IInv, TypeOK, Enqueue, Fetch, Complete, Fail
  <2>3. exists'[k] => exists[k]
    BY DEF IInv, TypeOK, Enqueue, Fetch, Complete, Fail
  <2>4. UNCHANGED <<args, msg>>
    BY DEF Enqueue, Fetch, Complete, Fail
  <2> QED BY <2>1, <2>2, <2>3, <2>4 DEF WorkIsDone, Arrived, SamePair
<1>4. UNCHANGED <<args, msg, overlap>>
  BY DEF Enqueue, Fetch, Complete, Fail
<1>5. OverlapsAreKnown'
  <2> SUFFICES ASSUME NEW k \in Jobs, NEW m \in Jobs,
                      k # m, SamePair(k, m)', state'[k] = "insert"
               PROVE  /\ state'[m] = "insert" => {k, m} \in overlap'
                      /\ ~exists'[k] /\ msg'[m] = "NORMAL" => {k, m} \in overlap'
    BY DEF OverlapsAreKnown
  <2>1. SamePair(k, m) /\ args[k].type = "FOLLOW" /\ args[m].type = "FOLLOW"
    BY <1>4 DEF SamePair
  <2>2. ASSUME NEW i \in {k, m}, state'[i] = "insert"
        PROVE  state[i] = "insert" /\ exists'[i] = exists[i]
    BY <2>1, <2>2 DEF IInv, TypeOK, Enqueue, Fetch, Complete, Fail
  <2> QED BY <1>4, <2>1, <2>2 DEF IInv, OverlapsAreKnown
<1>6. DuplicatesOverlapped'
  BY <1>4 DEF IInv, DuplicatesOverlapped, SamePair
<1> QED BY <1>1, <1>2, <1>3, <1>5, <1>6 DEF IInv

\* The snapshot of WHERE NOT EXISTS: it saw every message there was, and every
\* statement it cannot see the outcome of is in overlap.
LEMMA SelectStep ==
  ASSUME IInv, NEW j \in Jobs, SelectExisting(j)
  PROVE  IInv'
<1>1. UNCHANGED <<args, attempts, msg, read, rows>> /\ state[j] = "select"
  BY DEF SelectExisting
<1>2. state' = [state EXCEPT ![j] = "insert"] /\ overlap \subseteq overlap'
  BY DEF SelectExisting
<1>3. exists' = [exists EXCEPT ![j] = \E k \in Jobs : SamePair(j, k) /\ msg[k] = "NORMAL"]
  BY DEF SelectExisting
<1>4. \A k \in Jobs \ {j} : state[k] = "insert" => {j, k} \in overlap'
  BY DEF SelectExisting
<1>5. TypeOK'
  <2>1. overlap' \in SUBSET SUBSET Jobs
    BY DEF IInv, TypeOK, SelectExisting
  <2> QED BY <1>1, <1>2, <1>3, <2>1 DEF IInv, TypeOK
<1>6. ASSUME NEW k \in Jobs PROVE AttemptsAgree(k)' /\ WorkIsDone(k)'
  <2>1. AttemptsAgree(k) /\ WorkIsDone(k)
    BY DEF IInv
  <2>2. exists'[k] => \E m \in Jobs : SamePair(k, m) /\ msg[m] # "absent"
    BY <1>3, <2>1 DEF IInv, TypeOK, WorkIsDone
  <2> QED BY <1>1, <1>2, <2>1, <2>2 DEF IInv, TypeOK, AttemptsAgree, WorkIsDone, Arrived, SamePair
<1>7. OverlapsAreKnown'
  <2> SUFFICES ASSUME NEW k \in Jobs, NEW m \in Jobs,
                      k # m, SamePair(k, m)', state'[k] = "insert"
               PROVE  /\ state'[m] = "insert" => {k, m} \in overlap'
                      /\ ~exists'[k] /\ msg'[m] = "NORMAL" => {k, m} \in overlap'
    BY DEF OverlapsAreKnown
  <2>1. SamePair(k, m)
    BY <1>1 DEF SamePair
  <2>2. CASE k = j
    BY <1>1, <1>2, <1>3, <1>4, <2>1, <2>2 DEF IInv, TypeOK
  <2>3. CASE m = j
    <3>1. state[k] = "insert" /\ {k, m} = {j, k}
      BY <1>2, <2>3 DEF IInv, TypeOK
    <3> QED BY <1>4, <2>3, <3>1
  <2>4. CASE k # j /\ m # j
    <3>1. state[k] = "insert" /\ state'[m] = state[m] /\ exists'[k] = exists[k]
      BY <1>2, <1>3, <2>4 DEF IInv, TypeOK
    <3> QED BY <1>1, <1>2, <2>1, <3>1 DEF IInv, OverlapsAreKnown
  <2> QED BY <2>2, <2>3, <2>4
<1>8. DuplicatesOverlapped'
  BY <1>1, <1>2 DEF IInv, DuplicatesOverlapped, SamePair
<1> QED BY <1>5, <1>6, <1>7, <1>8 DEF IInv

\* Only jobs whose messages stand already, or overlapped, see a new one beside
\* theirs.
LEMMA InsertStep ==
  ASSUME IInv, NEW j \in Jobs, InsertMessage(j)
  PROVE  IInv'
<1>1. UNCHANGED <<args, attempts, exists, overlap, read, rows>> /\ state[j] = "insert"
  BY DEF InsertMessage
<1>2. state' = [state EXCEPT ![j] = "finish"]
  BY DEF InsertMessage
<1>3. \/ UNCHANGED msg /\ (exists[j] \/ msg[j] # "absent")
      \/ msg' = [msg EXCEPT ![j] = "NORMAL"] /\ ~exists[j] /\ msg[j] = "absent"
  BY DEF InsertMessage
<1>4. TypeOK'
  BY <1>1, <1>2, <1>3 DEF IInv, TypeOK
<1>5. \A k \in Jobs : msg[k] # "absent" => msg'[k] # "absent"
  BY <1>3 DEF IInv, TypeOK
<1>6. Arrived(j)'
  BY <1>1, <1>3, <1>5 DEF IInv, TypeOK, WorkIsDone, Arrived, SamePair
<1>7. ASSUME NEW k \in Jobs PROVE AttemptsAgree(k)' /\ WorkIsDone(k)'
  <2>1. AttemptsAgree(k) /\ WorkIsDone(k)
    BY DEF IInv
  <2>2. CASE k = j
    BY <1>1, <1>2, <1>5, <1>6, <2>1, <2>2 DEF IInv, TypeOK, AttemptsAgree, WorkIsDone, SamePair
  <2>3. CASE k # j
    <3>1. state'[k] = state[k] /\ msg'[k] = msg[k]
      BY <1>2, <1>3, <2>3 DEF IInv, TypeOK
    <3> QED BY <1>1, <1>5, <2>1, <3>1 DEF AttemptsAgree, WorkIsDone, Arrived, SamePair
  <2> QED BY <2>2, <2>3
<1>8. ASSUME NEW k \in Jobs, NEW m \in Jobs, k # m, SamePair(k, m), state'[k] = "insert"
      PROVE  state[k] = "insert" /\ k # j
  BY <1>2, <1>8 DEF IInv, TypeOK
<1>9. OverlapsAreKnown'
  <2> SUFFICES ASSUME NEW k \in Jobs, NEW m \in Jobs,
                      k # m, SamePair(k, m)', state'[k] = "insert"
               PROVE  /\ state'[m] = "insert" => {k, m} \in overlap'
                      /\ ~exists'[k] /\ msg'[m] = "NORMAL" => {k, m} \in overlap'
    BY DEF OverlapsAreKnown
  <2>1. SamePair(k, m)
    BY <1>1 DEF SamePair
  <2>2. state[k] = "insert" /\ k # j
    BY <1>8, <2>1
  <2>3. CASE m = j
    BY <1>1, <2>1, <2>2, <2>3 DEF IInv, OverlapsAreKnown
  <2>4. CASE m # j
    <3>1. state'[m] = state[m] /\ msg'[m] = msg[m]
      BY <1>2, <1>3, <2>4 DEF IInv, TypeOK
    <3> QED BY <1>1, <2>1, <2>2, <3>1 DEF IInv, OverlapsAreKnown
  <2> QED BY <2>3, <2>4
<1>10. DuplicatesOverlapped'
  <2> SUFFICES ASSUME NEW k \in Jobs, NEW m \in Jobs, k # m, SamePair(k, m)',
                      msg'[k] = "NORMAL", msg'[m] = "NORMAL"
               PROVE  {k, m} \in overlap'
    BY DEF DuplicatesOverlapped
  <2>1. SamePair(k, m) /\ SamePair(m, k) /\ {k, m} = {m, k}
    BY <1>1 DEF SamePair
  <2>2. CASE msg[k] = "NORMAL" /\ msg[m] = "NORMAL"
    BY <1>1, <2>1, <2>2 DEF IInv, DuplicatesOverlapped
  <2>3. CASE msg[k] # "NORMAL"
    <3>1. k = j /\ ~exists[k] /\ state[k] = "insert" /\ msg[m] = "NORMAL"
      BY <1>1, <1>3, <2>3 DEF IInv, TypeOK
    <3> QED BY <1>1, <2>1, <3>1 DEF IInv, OverlapsAreKnown
  <2>4. CASE msg[m] # "NORMAL"
    <3>1. m = j /\ ~exists[m] /\ state[m] = "insert" /\ msg[k] = "NORMAL"
      BY <1>1, <1>3, <2>4 DEF IInv, TypeOK
    <3> QED BY <1>1, <2>1, <3>1 DEF IInv, OverlapsAreKnown
  <2> QED BY <2>2, <2>3, <2>4
<1> QED BY <1>4, <1>7, <1>9, <1>10 DEF IInv

\* A deleted message stays in the table, and leaves no new pair.
LEMMA DeleteStep ==
  ASSUME IInv, NEW j \in Jobs, DeleteMessage(j)
  PROVE  IInv'
<1>1. /\ UNCHANGED <<jobVars, read, rows>>
      /\ msg[j] = "NORMAL" /\ msg' = [msg EXCEPT ![j] = "ARCHIVED"]
  BY DEF DeleteMessage
<1>2. \A k \in Jobs : /\ msg'[k] = "absent" <=> msg[k] = "absent"
                      /\ msg'[k] = "NORMAL" => msg[k] = "NORMAL"
  BY <1>1 DEF IInv, TypeOK
<1>3. TypeOK'
  BY <1>1 DEF IInv, TypeOK, jobVars
<1>4. \A k \in Jobs : AttemptsAgree(k)' /\ WorkIsDone(k)'
  BY <1>1, <1>2 DEF IInv, jobVars, AttemptsAgree, WorkIsDone, Arrived, SamePair
<1>5. OverlapsAreKnown' /\ DuplicatesOverlapped'
  BY <1>1, <1>2 DEF IInv, jobVars, OverlapsAreKnown, DuplicatesOverlapped, SamePair
<1> QED BY <1>3, <1>4, <1>5 DEF IInv

LEMMA NextIInv == IInv /\ [Next]_vars => IInv'
<1> SUFFICES ASSUME IInv, [Next]_vars PROVE IInv'
  OBVIOUS
<1>1. ASSUME NEW j \in Jobs, Enqueue(j) \/ Worker(j) \/ Fail(j) \/ DeleteMessage(j)
      PROVE  IInv'
  BY <1>1, MoveStep, SelectStep, InsertStep, DeleteStep DEF Worker
<1>2. ASSUME NEW l \in Lists, SelectPage(l) \/ MarkPage(l) \/ AbandonPage(l)
      PROVE  IInv'
  <2>1. UNCHANGED <<jobVars, msg>>
    BY <1>2 DEF SelectPage, MarkPage, AbandonPage
  <2>2. read' \in SUBSET Jobs
    BY <1>2 DEF IInv, TypeOK, SelectPage, MarkPage, AbandonPage
  <2>3. rows' \in [Lists -> SUBSET Jobs]
    BY <1>2 DEF IInv, TypeOK, SelectPage, MarkPage, AbandonPage, Inbox
  <2> QED BY <2>1, <2>2, <2>3, ReadStep
<1>3. ASSUME NEW u \in Users, MarkAllRead(u)
      PROVE  IInv'
  BY <1>3, ReadStep DEF MarkAllRead, Inbox, IInv, TypeOK
<1>4. CASE UNCHANGED vars
  BY <1>4, ReadStep DEF vars, IInv, TypeOK
<1> QED BY <1>1, <1>2, <1>3, <1>4 DEF Next

\* The inductive invariant holds in every reachable state.
THEOREM InductiveInvariant == Spec => []IInv
BY InitIInv, NextIInv, PTL DEF Spec

\* Types, and that a completed job has done its work, however often it was
\* run, failed and was run again.
THEOREM InboxCorrect == Spec => []InboxInv
<1>1. IInv => InboxInv
  BY DEF IInv, InboxInv, NothingLost, WorkIsDone, Arrived
<1> QED BY <1>1, InductiveInvariant, PTL

\* WHERE NOT EXISTS admits a second follow message of a pair only to
\* statements that were under way together.
THEOREM DuplicatesNeedOverlap == Spec => []DuplicatesOverlapped
BY InductiveInvariant, PTL DEF IInv

\* So what inbox_message.sql means to keep up, one follow message of a pair,
\* holds as long as no two statements of the workers overlap.
THEOREM SerialWorkersKeepOne == Spec => [](overlap = {} => OneFollowMessage)
<1>1. DuplicatesOverlapped => (overlap = {} => OneFollowMessage)
  BY DEF DuplicatesOverlapped, OneFollowMessage
<1> QED BY <1>1, DuplicatesNeedOverlap, PTL

\* A deleted message stays deleted, and its mark as it was, through every
\* retry of its job and every list call that selected it before.
THEOREM DeletedStaysDeleted == Spec => ArchivedStaysArchived
<1>1. IInv /\ [Next]_vars =>
        [\A m \in Jobs : msg[m] = "ARCHIVED" =>
           msg'[m] = "ARCHIVED" /\ (m \in read') = (m \in read)]_vars
  <2> SUFFICES ASSUME IInv, Next, NEW m \in Jobs, msg[m] = "ARCHIVED"
               PROVE  msg'[m] = "ARCHIVED" /\ (m \in read') = (m \in read)
    OBVIOUS
  <2>1. ASSUME NEW j \in Jobs, Enqueue(j) \/ Worker(j) \/ Fail(j) \/ DeleteMessage(j)
        PROVE  msg'[m] = "ARCHIVED" /\ read' = read
    BY <2>1 DEF IInv, TypeOK, Worker, Enqueue, Fetch, SelectExisting, InsertMessage, Complete,
       Fail, DeleteMessage
  <2>2. ASSUME NEW l \in Lists, SelectPage(l) \/ MarkPage(l) \/ AbandonPage(l)
        PROVE  msg'[m] = "ARCHIVED" /\ (m \in read') = (m \in read)
    BY <2>2 DEF SelectPage, MarkPage, AbandonPage
  <2>3. ASSUME NEW u \in Users, MarkAllRead(u)
        PROVE  msg'[m] = "ARCHIVED" /\ (m \in read') = (m \in read)
    BY <2>3 DEF MarkAllRead, Inbox
  <2> QED BY <2>1, <2>2, <2>3 DEF Next
<1> QED BY <1>1, InductiveInvariant, PTL DEF Spec, ArchivedStaysArchived
=============================================================================
