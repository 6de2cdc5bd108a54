--------------------------- MODULE MCPostService ---------------------------
(* Instances of the post service for TLC. *)
EXTENDS PostService, TLC

VoteTypes == {1, -1}

\* Replicas, and posts, are interchangeable in every safety property.
Symmetric == Permutations(Replicas) \cup Permutations(Posts)

=============================================================================
