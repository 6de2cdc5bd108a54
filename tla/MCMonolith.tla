----------------------------- MODULE MCMonolith ----------------------------
(* The monolith for TLC: the vote types of the pages' two buttons.         *)
EXTENDS Monolith

VoteTypes == {1, -1}
=============================================================================
