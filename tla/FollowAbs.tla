------------------------------ MODULE FollowAbs ------------------------------
(***************************************************************************)
(* What FollowService.Follow promises, without transactions, counters or   *)
(* locks: a call that changes the relation changes it in one step, together *)
(* with the announcement of a new follow, and is answered with the sizes    *)
(* of the two sides of the relation at that step.  A call whose wish is     *)
(* already true changes nothing, and is answered with the sizes at a later  *)
(* step (the code reads them in a second statement).                        *)
(***************************************************************************)
EXTENDS Integers, FiniteSets

CONSTANTS Users, Uids, Requests, CallSpace, NoAnswer

VARIABLES
  call,       \* what each request asks for
  edges,      \* the follow relation, a set of <<follower, followee>>
  announced,  \* the requests whose new follow is announced to the followee
  status,     \* "idle", "open", "settled", "done" or "failed"
  answer      \* <<following_count, followers_count>> of an answered request

vars == <<call, edges, announced, status, answer>>

Pair(r) == <<call[r].follower, call[r].followee>>

\* The relation is as r wishes.
Granted(r) == (Pair(r) \in edges) = (call[r].action = "ADD")

Sizes(E, r) ==
  << Cardinality({p \in E : p[1] = call[r].follower}),
     Cardinality({p \in E : p[2] = call[r].followee}) >>

Init ==
  /\ call \in [Requests -> CallSpace]
  /\ edges = {}
  /\ announced = {}
  /\ status = [r \in Requests |-> "idle"]
  /\ answer = [r \in Requests |-> NoAnswer]

Open(r) ==
  /\ status[r] = "idle"
  /\ status' = [status EXCEPT ![r] = "open"]
  /\ UNCHANGED <<call, edges, announced, answer>>

\* r changes the relation; calls S with the very same wish, which were
\* waiting behind r, find it granted by this step.  The answer may be lost.
Change(r) ==
  /\ status[r] = "open"
  /\ ~Granted(r)
  /\ call[r].followee \in Users
  /\ edges' = IF call[r].action = "ADD" THEN edges \union {Pair(r)}
                                        ELSE edges \ {Pair(r)}
  /\ announced' = IF call[r].action = "ADD" THEN announced \union {r} ELSE announced
  /\ \E S \in SUBSET {q \in Requests \ {r} : status[q] = "open" /\ call[q] = call[r]},
        end \in {"done", "failed"} :
        /\ status' = [q \in Requests |-> IF q = r THEN end
                                         ELSE IF q \in S THEN "settled" ELSE status[q]]
        /\ answer' = IF end = "done" THEN [answer EXCEPT ![r] = Sizes(edges', r)]
                                     ELSE answer
  /\ UNCHANGED call

Settle(r) ==
  /\ status[r] = "open"
  /\ Granted(r)
  /\ status' = [status EXCEPT ![r] = "settled"]
  /\ UNCHANGED <<call, edges, announced, answer>>

Report(r) ==
  /\ status[r] = "settled"
  /\ call[r].followee \in Users
  /\ status' = [status EXCEPT ![r] = "done"]
  /\ answer' = [answer EXCEPT ![r] = Sizes(edges, r)]
  /\ UNCHANGED <<call, edges, announced>>

Fail(r) ==
  /\ status[r] \in {"idle", "open", "settled"}
  /\ status' = [status EXCEPT ![r] = "failed"]
  /\ UNCHANGED <<call, edges, announced, answer>>

Next == \E r \in Requests : Open(r) \/ Change(r) \/ Settle(r) \/ Report(r) \/ Fail(r)

Spec == Init /\ [][Next]_vars
=============================================================================
