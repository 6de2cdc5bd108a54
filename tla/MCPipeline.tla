----------------------------- MODULE MCPipeline -----------------------------
(* An instance of the pipelines for TLC. *)
EXTENDS Pipeline

MCOrder == <<"ui", "post">>

\* Every push has a new VERSION; versions are no commit numbers.
MCVersionOf == [ui |-> <<11, 12, 13>>, post |-> <<21, 22>>]
=============================================================================
