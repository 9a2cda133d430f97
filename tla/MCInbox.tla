------------------------------- MODULE MCInbox -------------------------------
(***************************************************************************)
(* Inbox with a few jobs.                                                   *)
(***************************************************************************)
EXTENDS Inbox, TLC
CONSTANTS u1, u2, j1, j2, l1

TwoUsers == {u1, u2}
TwoJobs  == {j1, j2}
OneList  == {l1}
NoList   == {}

\* u2 follows, or comments on, u1; u1 may follow u2 in turn.
Events == { [type |-> "FOLLOW", receiver |-> u1, actor |-> u2],
            [type |-> "FOLLOW", receiver |-> u2, actor |-> u1],
            [type |-> "COMMENT", receiver |-> u1, actor |-> u2] }

\* u2 follows u1 again and again.
SameFollow == { [type |-> "FOLLOW", receiver |-> u1, actor |-> u2] }
=============================================================================
