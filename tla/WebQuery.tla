------------------------------- MODULE WebQuery -------------------------------
(***************************************************************************)
(* What the lists of the web client take from TanStack Query: an infinite   *)
(* query keeps its data as a sequence of pages, each with the token of the  *)
(* next.  A run builds its pages, one request after the other, next to the  *)
(* data it started from, and replaces the data when it is finished; a run   *)
(* that fails (retry is 0) or is cancelled leaves the data alone.           *)
(***************************************************************************)
EXTENDS Integers, Sequences, SequencesExt

NoToken == 0

\* A run of the query: "all" asks again for a number of pages, "next" for one
\* page more.
NoRun       == [kind |-> "none", built |-> <<>>, pages |-> 0]
AllRun(n)   == [kind |-> "all", built |-> <<>>, pages |-> n]
NextRun(ps) == [kind |-> "next", built |-> ps, pages |-> Len(ps) + 1]

\* getNextPageParam of the last page.
HasNext(ps) == ps # <<>> /\ Last(ps).token # NoToken
LastToken(ps) == IF ps = <<>> THEN NoToken ELSE Last(ps).token

RunFinished(run) ==
  \/ Len(run.built) = run.pages
  \/ run.built # <<>> /\ ~HasNext(run.built)
=============================================================================
