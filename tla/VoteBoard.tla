----------------------------- MODULE VoteBoard -----------------------------
(***************************************************************************)
(* What the post service promises its clients (the ui): a board of posts   *)
(* with a score each, on which every request is one atomic step.  A vote   *)
(* or a publication that is answered 'ok' has taken effect exactly once,   *)
(* one that is answered 'error' at most once, and a request that loses its *)
(* server at most once and is never answered.  Between its call and its    *)
(* answer a request changes nothing outside the one step that settles it.  *)
(*                                                                         *)
(* PostService implements this board when a single replica runs and no     *)
(* write is executed after its request was answered (PostService!Board).   *)
(***************************************************************************)
EXTENDS Integers

CONSTANTS
    Servers,    \* processes that answer requests
    Items,      \* posts that may be published
    Requests    \* requests clients may make: records with op, id and delta

VARIABLES
    published,  \* the items on the board
    score,      \* the score of every item, 0 until it is published
    call        \* the request each server works on and how it was settled

bvars == <<published, score, call>>

Phases == {"none", "called", "ok", "error"}

NoCall == [phase |-> "none", req |-> [op |-> "none"]]

BoardInit ==
    /\ published = {}
    /\ score = [i \in Items |-> 0]
    /\ call = [s \in Servers |-> NoCall]

Call(s, q) ==
    /\ call[s].phase = "none"
    /\ call' = [call EXCEPT ![s] = [phase |-> "called", req |-> q]]
    /\ UNCHANGED <<published, score>>

Settle(s, phase) ==
    /\ call[s].phase = "called"
    /\ call' = [call EXCEPT ![s] = [phase |-> phase, req |-> call[s].req]]

\* The vote counts, whether or not its caller gets to know.
Cast(s) ==
    /\ call[s].req.op = "vote"
    /\ call[s].req.id \in published
    /\ call[s].req.delta \in Int
    /\ \E phase \in {"ok", "error"} : Settle(s, phase)
    /\ score' = [score EXCEPT ![call[s].req.id] = @ + call[s].req.delta]
    /\ UNCHANGED published

Publish(s) ==
    /\ call[s].req.op = "add"
    /\ call[s].req.id \notin published
    /\ \E phase \in {"ok", "error"} : Settle(s, phase)
    /\ published' = published \cup {call[s].req.id}
    /\ UNCHANGED score

Look(s) ==
    /\ call[s].req.op \in {"list", "show"}
    /\ Settle(s, "ok")
    /\ UNCHANGED <<published, score>>

Refuse(s) ==
    /\ Settle(s, "error")
    /\ UNCHANGED <<published, score>>

\* The answer leaves, or the server is lost.
Leave(s) ==
    /\ call[s].phase # "none"
    /\ call' = [call EXCEPT ![s] = NoCall]
    /\ UNCHANGED <<published, score>>

BoardNext ==
    \E s \in Servers :
        \/ \E q \in Requests : Call(s, q)
        \/ Cast(s) \/ Publish(s) \/ Look(s) \/ Refuse(s) \/ Leave(s)

BoardSpec == BoardInit /\ [][BoardNext]_bvars

=============================================================================
