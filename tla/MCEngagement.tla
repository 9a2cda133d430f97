---------------------------- MODULE MCEngagement -----------------------------
(***************************************************************************)
(* Engagement of two users with a post, a comment and a missing uid.        *)
(***************************************************************************)
EXTENDS Engagement, TLC
CONSTANTS u1, u2, p1, c1, ghost, r1, r2, r3, r4

TwoUsers    == {u1, u2}
OnePost     == {p1}
OneComment  == {c1}
ThreeCalls  == {r1, r2, r3}
FourCalls   == {r1, r2, r3, r4}

Ask(t, u, x, a) == [table |-> t, user |-> u, target |-> x, action |-> a]

\* Either user toggles a like or a collection of the post, or a like of the
\* comment; one of them names a missing uid or an unknown action.
Toggles == { Ask(t, u, x, a) : t \in Tables, u \in TwoUsers, x \in {p1, c1},
                               a \in {"ADD", "REMOVE"} }
Refused == { Ask("post_likes", u1, ghost, "ADD"), Ask("post_likes", u1, ghost, "REMOVE"),
             Ask("post_likes", u1, p1, "OTHER") }
EveryCall == {c \in Toggles : c.target \in Referred(c.table)} \union Refused

\* Any three calls, or four of two users on the likes of the post.  (The
\* fourth call of the others is refused at once.)
PostLikes == {c \in Toggles : c.table = "post_likes" /\ c.target = p1}
CallsInit == /\ Init
             /\ \/ call[r4] = Ask("post_likes", u1, p1, "OTHER")
                \/ \A r \in FourCalls : call[r] \in PostLikes
CallsSpec == CallsInit /\ [][Next]_vars

\* No definition tells these calls from each other.
CallSymmetry == Permutations(ThreeCalls)
=============================================================================
