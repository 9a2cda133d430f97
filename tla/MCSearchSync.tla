---------------------------- MODULE MCSearchSync -----------------------------
(***************************************************************************)
(* SearchSync with a few writes.                                            *)
(***************************************************************************)
EXTENDS SearchSync, TLC
CONSTANTS w1, w2, w3, s1, author, other

TwoWrites   == {w1, w2}
ThreeWrites == {w1, w2, w3}
OneSearch   == {s1}
NoSearch    == {}
PublicOnly  == {FALSE}
EitherWay   == BOOLEAN
BothViewers == {author, other}

WriteSymmetry == Permutations(ThreeWrites)
TwoWriteSymmetry == Permutations(TwoWrites)
=============================================================================
