------------------------------ MODULE MCFollow -------------------------------
(***************************************************************************)
(* Follow on small sets of users and calls.                                *)
(***************************************************************************)
EXTENDS Follow, TLC
CONSTANTS u1, u2, u3, ghost, r1, r2, r3, r4

ThreeUsers == {u1, u2, u3}
WithGhost  == ThreeUsers \union {ghost}

Ask(u, v, a) == [follower |-> u, followee |-> v, action |-> a]

\* u1 follows two users, u2 is followed by two, u1 and u2 follow each other,
\* the three form a cycle, and u1 follows a uid nobody has.
Follows   == {Ask(u1, u2, "ADD"), Ask(u1, u3, "ADD"), Ask(u2, u1, "ADD"), Ask(u3, u2, "ADD")}
Unfollows == {[c EXCEPT !.action = "REMOVE"] : c \in Follows}
Refused   == {Ask(u1, ghost, "ADD"), Ask(u1, ghost, "REMOVE"),
              Ask(u1, u1, "ADD"), Ask(u1, u2, "OTHER")}
EveryCall == Follows \union Unfollows \union Refused

ThreeCalls == {r1, r2, r3}
FourCalls  == {r1, r2, r3, r4}

\* Any three calls, or four that add and remove one edge.  (The fourth call
\* of the others is a self-follow, refused at once.)
OneEdge   == {Ask(u1, u2, "ADD"), Ask(u1, u2, "REMOVE")}
CallsInit == Init /\ (call[r4] = Ask(u1, u1, "ADD") \/ \A r \in FourCalls : call[r] \in OneEdge)
CallsSpec == CallsInit /\ [][Next]_vars

\* No definition tells these calls from each other.
CallSymmetry == Permutations(ThreeCalls)
=============================================================================
