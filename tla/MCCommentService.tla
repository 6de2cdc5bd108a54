-------------------------- MODULE MCCommentService -------------------------
(* A comment service for TLC: one post id in two spellings, and a string   *)
(* that is no ObjectId.                                                    *)
EXTENDS CommentService, TLC

CONSTANTS lower, upper, junk

Spelled == lower :> lower @@ upper :> lower @@ junk :> NoId
=============================================================================
