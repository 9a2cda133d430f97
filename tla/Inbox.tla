-------------------------------- MODULE Inbox --------------------------------
(***************************************************************************)
(* Inbox messages: the River workers FollowInboxWorker and                  *)
(* CommentInboxWorker (internal/async), the table inbox_messages they fill, *)
(* and the receiver's calls of MessageService on it.                        *)
(*                                                                         *)
(* River runs a committed job at least once: an attempt that fails, times   *)
(* out or dies with its process is retried until MaxAttempts.  A job holds  *)
(* the uid its message gets, so messages are named by their jobs.           *)
(***************************************************************************)
EXTENDS Integers, FiniteSets

CONSTANTS
  Users,
  Jobs,         \* the inbox jobs of a behaviour
  ArgSpace,     \* what a job may be about
  Lists,        \* List...InboxMessages calls in progress at the same time
  MaxAttempts,  \* River's attempts before a job is discarded (25)
  PageSize      \* LIMIT of a list (20)

Types == {"FOLLOW", "COMMENT"}

ASSUME ArgsTyped ==
  ArgSpace \subseteq [type : Types, receiver : Users, actor : Users]
ASSUME BoundsArePositive == MaxAttempts \in Nat \ {0} /\ PageSize \in Nat \ {0}

VARIABLES
  args,      \* args[j]: type, receiver and actor of job j
  state,     \* where job j is in River and in its worker
  attempts,  \* how often job j has been fetched
  exists,    \* what WHERE NOT EXISTS found in the statement of job j
  overlap,   \* history: pairs of jobs whose statements ran at the same time
  msg,       \* msg[j]: status of the message of job j
  read,      \* the messages with is_read = true
  rows       \* rows[l]: selected by list call l and not yet marked read

jobVars  == <<args, state, attempts, exists, overlap>>
vars     == <<jobVars, msg, read, rows>>

SamePair(j, k) ==
  /\ args[j].type = "FOLLOW" /\ args[k].type = "FOLLOW"
  /\ args[j].receiver = args[k].receiver /\ args[j].actor = args[k].actor

Inbox(u) == {m \in Jobs : msg[m] = "NORMAL" /\ args[m].receiver = u}

Init ==
  /\ args \in [Jobs -> ArgSpace]
  /\ state = [j \in Jobs |-> "absent"]
  /\ attempts = [j \in Jobs |-> 0]
  /\ exists = [j \in Jobs |-> FALSE]
  /\ overlap = {}
  /\ msg = [j \in Jobs |-> "absent"]
  /\ read = {}
  /\ rows = [l \in Lists |-> {}]

-----------------------------------------------------------------------------
\* A Follow, CreateTopComment or CreateReply call commits with its job.
Enqueue(j) ==
  /\ state[j] = "absent"
  /\ state' = [state EXCEPT ![j] = "available"]
  /\ UNCHANGED <<args, attempts, exists, overlap, msg, read, rows>>

\* A worker takes the job; the attempt counts from here.
Fetch(j) ==
  /\ state[j] = "available"
  /\ attempts' = [attempts EXCEPT ![j] = @ + 1]
  /\ state' = [state EXCEPT ![j] = IF args[j].type = "FOLLOW" THEN "select" ELSE "insert"]
  /\ UNCHANGED <<args, exists, overlap, msg, read, rows>>

\* Plausible bug: only unread messages keep a new one out.
SelectUnread(j) ==
  /\ state[j] = "select"
  /\ exists' = [exists EXCEPT ![j] =
       \E k \in Jobs \ read : SamePair(j, k) /\ msg[k] = "NORMAL"]
  /\ overlap' = overlap \union {{j, k} : k \in {k \in Jobs \ {j} : state[k] = "insert"}}
  /\ state' = [state EXCEPT ![j] = "insert"]
  /\ UNCHANGED <<args, attempts, msg, read, rows>>

\* CreateFollowInboxMessage evaluates WHERE NOT EXISTS on the snapshot taken
\* when the statement starts; what other statements insert meanwhile is not
\* in it, and no unique index covers (receiver_uid, actor_uid).
SelectExisting(j) ==
  /\ state[j] = "select"
  /\ exists' = [exists EXCEPT ![j] = \E k \in Jobs : SamePair(j, k) /\ msg[k] = "NORMAL"]
  /\ overlap' = overlap \union {{j, k} : k \in {k \in Jobs \ {j} : state[k] = "insert"}}
  /\ state' = [state EXCEPT ![j] = "insert"]
  /\ UNCHANGED <<args, attempts, msg, read, rows>>

\* Plausible bug: ON CONFLICT (uid) DO UPDATE SET status = 'NORMAL'.
InsertRevives(j) ==
  /\ state[j] = "insert"
  /\ msg' = IF exists[j] THEN msg ELSE [msg EXCEPT ![j] = "NORMAL"]
  /\ state' = [state EXCEPT ![j] = "finish"]
  /\ UNCHANGED <<args, attempts, exists, overlap, read, rows>>

\* The row is inserted; a uid already there is error 23505, which both
\* workers take for success: an earlier attempt has done the work.
InsertMessage(j) ==
  /\ state[j] = "insert"
  /\ msg' = IF exists[j] \/ msg[j] # "absent" THEN msg ELSE [msg EXCEPT ![j] = "NORMAL"]
  /\ state' = [state EXCEPT ![j] = "finish"]
  /\ UNCHANGED <<args, attempts, exists, overlap, read, rows>>

\* Work has returned nil, and River records it.
Complete(j) ==
  /\ state[j] = "finish"
  /\ state' = [state EXCEPT ![j] = "completed"]
  /\ UNCHANGED <<args, attempts, exists, overlap, msg, read, rows>>

\* Plausible bugs: attempts are not counted; an error is taken for success;
\* the job of a dead process is not rescued.
FailRetriesForever(j) ==
  /\ state[j] \in {"select", "insert", "finish"}
  /\ state' = [state EXCEPT ![j] = "available"]
  /\ exists' = [exists EXCEPT ![j] = FALSE]
  /\ UNCHANGED <<args, attempts, overlap, msg, read, rows>>

FailIsSwallowed(j) ==
  /\ state[j] \in {"select", "insert", "finish"}
  /\ state' = [state EXCEPT ![j] = "completed"]
  /\ exists' = [exists EXCEPT ![j] = FALSE]
  /\ UNCHANGED <<args, attempts, overlap, msg, read, rows>>

FailIsForgotten(j) ==
  /\ state[j] \in {"select", "insert", "finish"}
  /\ state' = [state EXCEPT ![j] = "running"]
  /\ exists' = [exists EXCEPT ![j] = FALSE]
  /\ UNCHANGED <<args, attempts, overlap, msg, read, rows>>

\* An error or a timeout of the statement, or the death of the process, which
\* may come after the insert: River retries or rescues the job, or discards it.
Fail(j) ==
  /\ state[j] \in {"select", "insert", "finish"}
  /\ state' = [state EXCEPT ![j] = IF attempts[j] < MaxAttempts THEN "available"
                                                                ELSE "discarded"]
  /\ exists' = [exists EXCEPT ![j] = FALSE]
  /\ UNCHANGED <<args, attempts, overlap, msg, read, rows>>

-----------------------------------------------------------------------------
\* ListCommentInboxMessages, ListFollowInboxMessages: SELECT a page from some
\* cursor on; with the READ filter, or an empty page, that is all.
SelectPage(l) ==
  /\ rows[l] = {}
  /\ \E u \in Users, t \in Types :
       \E page \in SUBSET {m \in Inbox(u) : args[m].type = t} :
         /\ 0 < Cardinality(page) /\ Cardinality(page) <= PageSize
         /\ rows' = [rows EXCEPT ![l] = page]
  /\ UNCHANGED <<jobVars, msg, read>>

\* MarkInboxMessagesReadByUidsAndReceiver, a statement of its own: the rows
\* of the page that still are NORMAL.
MarkPage(l) ==
  /\ rows[l] # {}
  /\ read' = read \union {m \in rows[l] : msg[m] = "NORMAL"}
  /\ rows' = [rows EXCEPT ![l] = {}]
  /\ UNCHANGED <<jobVars, msg>>

\* The mark fails, or the caller has gone: nothing is marked.
AbandonPage(l) ==
  /\ rows[l] # {}
  /\ rows' = [rows EXCEPT ![l] = {}]
  /\ UNCHANGED <<jobVars, msg, read>>

\* MarkAllInboxMessagesRead of user u.
MarkAllRead(u) ==
  /\ read' = read \union Inbox(u)
  /\ UNCHANGED <<jobVars, msg, rows>>

\* DeleteInboxMessage by its receiver.
DeleteMessage(m) ==
  /\ msg[m] = "NORMAL"
  /\ msg' = [msg EXCEPT ![m] = "ARCHIVED"]
  /\ UNCHANGED <<jobVars, read, rows>>

Worker(j) == Fetch(j) \/ SelectExisting(j) \/ InsertMessage(j) \/ Complete(j)

Next ==
  \/ \E j \in Jobs : Enqueue(j) \/ Worker(j) \/ Fail(j) \/ DeleteMessage(j)
  \/ \E l \in Lists : SelectPage(l) \/ MarkPage(l) \/ AbandonPage(l)
  \/ \E u \in Users : MarkAllRead(u)

\* River keeps working off its queues (100 workers each; here there is always
\* one free); attempts are bounded, so Fail needs no fairness.
Fairness == \A j \in Jobs : WF_vars(Worker(j))

Spec     == Init /\ [][Next]_vars
FairSpec == Spec /\ Fairness
-----------------------------------------------------------------------------
TypeOK ==
  /\ args \in [Jobs -> ArgSpace]
  /\ state \in [Jobs -> {"absent", "available", "select", "insert", "finish",
                         "completed", "discarded"}]
  /\ attempts \in [Jobs -> 0..MaxAttempts]
  /\ exists \in [Jobs -> BOOLEAN]
  /\ overlap \in SUBSET SUBSET Jobs
  /\ msg \in [Jobs -> {"absent", "NORMAL", "ARCHIVED"}]
  /\ read \in SUBSET Jobs
  /\ rows \in [Lists -> SUBSET Jobs]

\* A completed job has done its work: its message has been inserted, or, for a
\* follow, the receiver had one from the same follower.
NothingLost ==
  \A j \in Jobs : state[j] = "completed" =>
    \/ msg[j] # "absent"
    \/ \E k \in Jobs : SamePair(j, k) /\ msg[k] # "absent"

\* A job that is run again does not bring its message back after the receiver
\* has deleted it, nor mark it unread; a list never marks a deleted message.
ArchivedStaysArchived ==
  [][\A m \in Jobs : msg[m] = "ARCHIVED" =>
       msg'[m] = "ARCHIVED" /\ (m \in read') = (m \in read)]_vars

\* Two follow messages of one follower stand in an inbox only when the
\* statements of their jobs overlapped (follow, unfollow, follow again, with
\* both jobs picked up at once): WHERE NOT EXISTS is good for anything slower.
DuplicatesOverlapped ==
  \A j, k \in Jobs :
    j # k /\ SamePair(j, k) /\ msg[j] = "NORMAL" /\ msg[k] = "NORMAL"
      => {j, k} \in overlap

\* Every committed job is worked off, or discarded after MaxAttempts; until a
\* comment job is discarded its message arrives.
JobsSettle ==
  \A j \in Jobs :
    state[j] = "available" ~>
      IF args[j].type = "COMMENT" THEN msg[j] # "absent" \/ state[j] = "discarded"
                                  ELSE state[j] \in {"completed", "discarded"}

\* inbox_message.sql: CreateFollowInboxMessage inserts "WHERE NOT EXISTS" a
\* NORMAL FOLLOW message of the same actor to the same receiver; so there is
\* at most one.
OneFollowMessage ==
  \A j, k \in Jobs :
    SamePair(j, k) /\ msg[j] = "NORMAL" /\ msg[k] = "NORMAL" => j = k

\* Well-typed, and a completed job has done its work: the message arrived, or
\* the receiver had one from the same follower.
InboxInv == TypeOK /\ NothingLost
=============================================================================
