----------------------------- MODULE MCComments ------------------------------
(***************************************************************************)
(* Comments on one post of user u1, and a second user u2.                   *)
(***************************************************************************)
EXTENDS Comments, TLC
CONSTANTS u1, u2, p1, r1, r2, r3, r4

TwoUsers    == {u1, u2}
OnePost     == {p1}
AuthorIsU1  == [p \in OnePost |-> u1]
ThreeCalls  == {r1, r2, r3}
FourCalls   == {r1, r2, r3, r4}

Ask(k, u, t) == [kind |-> k, user |-> u, target |-> t]

\* Everything two users can ask, in three calls.
EveryCall ==
  [kind : PostKinds, user : TwoUsers, target : OnePost] \union
  [kind : {"reply", "delete"}, user : TwoUsers, target : ThreeCalls]

\* Four calls around one thread: a top comment r1 by u2, a reply r2 to it by
\* u1, and any two of a reply to either, a deletion of either and the
\* deletion of the post.
TopComment == Ask("top", u2, p1)
FirstReply == Ask("reply", u1, r1)
OneThread  == { TopComment, FirstReply, Ask("reply", u2, r2),
                Ask("delete", u2, r1), Ask("delete", u1, r2),
                Ask("archivePost", u1, p1) }
ThreadInit == Init /\ call[r1] = TopComment /\ call[r2] = FirstReply
ThreadSpec == ThreadInit /\ [][Next]_vars /\ Fairness

Symmetry == Permutations(ThreeCalls)
=============================================================================
