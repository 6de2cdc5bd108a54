--------------------------- MODULE CommentService --------------------------
(***************************************************************************)
(* The comment service: one puma process of src/comment/comment_app.rb,    *)
(* whose threads serve requests concurrently against a MongoDB collection. *)
(* A new comment is an insert followed by a second query that reads it     *)
(* back; only when both succeed is it counted and answered 200.  Comments  *)
(* are stored under the post id as it was spelled in the request, and      *)
(* looked up under its canonical spelling.                                 *)
(***************************************************************************)
EXTENDS Naturals, FiniteSets

CONSTANTS
    Threads,     \* puma's threads
    Comments,    \* ObjectIds an insert may get (bounds the collection)
    Spellings,   \* strings sent as post id
    Canonical,   \* the canonical spelling of each, NoId if it is no ObjectId
    NoId,        \* nil.to_s; also the id of a request or document without one
    Faults,      \* faults the environment may inject
    MaxRequests, \* bound on the requests received
    MaxRestarts  \* restarts the scheduler grants the process

(* "mongo": MongoDB is unreachable for a while.  "link": a connection breaks *)
(* under an operation, which may or may not have been executed.  "crash":    *)
(* the process dies with all its threads.                                    *)
ASSUME CanonicalSpelling ==
    /\ Canonical \in [Spellings -> Spellings \cup {NoId}]
    /\ \A s \in Spellings : Canonical[s] \in Spellings =>
            Canonical[Canonical[s]] = Canonical[s]
    /\ NoId \notin Spellings \cup Comments
ASSUME FaultsKnown == Faults \subseteq {"mongo", "link", "crash"}
ASSUME CommentsFinite == IsFiniteSet(Comments) /\ IsFiniteSet(Threads)
ASSUME BoundsNatural == MaxRequests \in Nat /\ MaxRestarts \in Nat

VARIABLES
    mongo,          \* is MongoDB reachable
    post_id,        \* per comment, its 'post_id' field; NoId until inserted
    process,        \* is the process running
    job,            \* per thread, the request it works on
    found,          \* per thread, the comments its listing returns
    comment_count,  \* the Prometheus counter
    received, restarts,
    told,           \* observer: the status of each add_comment that ended
    expected        \* observer: per thread, the comments that were answered
                    \* 200 when its listing was received

vars == <<mongo, post_id, process, job, found, comment_count, received,
          restarts, told, expected>>

Steps == {"idle", "insert", "readback", "count", "find", "answer"}

Idle == [step |-> "idle", comment |-> NoId, id |-> NoId, status |-> 200]

Init ==
    /\ mongo = "up"
    /\ post_id = [c \in Comments |-> NoId]
    /\ process = "up"
    /\ job = [t \in Threads |-> Idle]
    /\ found = [t \in Threads |-> {}]
    /\ comment_count = 0
    /\ received = 0
    /\ restarts = 0
    /\ told = [c \in Comments |-> 0]
    /\ expected = [t \in Threads |-> {}]

Stored == {c \in Comments : post_id[c] # NoId}

\* Comments on the post a spelling names, as far as their authors know.
Acknowledged(s) == {c \in Stored : told[c] = 200 /\ post_id[c] = Canonical[s]}

MongoAnswers == mongo = "up"
MongoFails == mongo = "down" \/ "link" \in Faults

Goto(t, step, status) ==
    job' = [job EXCEPT ![t] = [step |-> step, comment |-> @.comment, id |-> @.id,
                               status |-> status]]

-----------------------------------------------------------------------------
(* add_comment.                                                            *)

\* The ui's form posts to the id the post service returned, which is canonical.
ReceiveComment(t) ==
    /\ process = "up" /\ job[t].step = "idle"
    /\ received < MaxRequests /\ received' = received + 1
    /\ \E c \in Comments, s \in Spellings :
        /\ Canonical[s] = s
        /\ c \notin Stored /\ told[c] = 0 /\ \A u \in Threads : job[u].comment # c
        /\ job' = [job EXCEPT ![t] = [step |-> "insert", comment |-> c, id |-> s,
                                      status |-> 200]]
    /\ UNCHANGED <<mongo, post_id, process, found, comment_count, restarts, told,
                   expected>>

InsertComment(t) ==
    /\ job[t].step = "insert"
    /\ MongoAnswers
    /\ post_id' = [post_id EXCEPT ![job[t].comment] = job[t].id]
    /\ \/ Goto(t, "readback", 200)
       \/ "link" \in Faults /\ Goto(t, "answer", 500)
    /\ UNCHANGED <<mongo, process, found, comment_count, received, restarts, told,
                   expected>>

\* db.find(_id: result.inserted_id): the answer does not use the document.
ReadBack(t) ==
    /\ job[t].step = "readback"
    /\ MongoAnswers
    /\ Goto(t, "count", 200)
    /\ UNCHANGED <<mongo, post_id, process, found, comment_count, received,
                   restarts, told, expected>>

\* Faulty variants: rescue clauses that retry, that do not halt, that count.
Retry(t) == Goto(t, "insert", 200)
AnswerOK(t) == Goto(t, "answer", 200)
CountFailure(t) == Goto(t, "count", 500)

Halt(t) == Goto(t, "answer", 500)

\* The rescue clause of both queries: halt 500, inserted or not.
CommentFails(t) ==
    /\ job[t].step \in {"insert", "readback"}
    /\ MongoFails
    /\ Halt(t)
    /\ UNCHANGED <<mongo, post_id, process, found, comment_count, received,
                   restarts, told, expected>>

CountComment(t) ==
    /\ job[t].step = "count"
    /\ comment_count' = comment_count + 1
    /\ Goto(t, "answer", 200)
    /\ UNCHANGED <<mongo, post_id, process, found, received, restarts, told,
                   expected>>

-----------------------------------------------------------------------------
(* The comments of a post.                                                 *)

ReceiveListing(t) ==
    /\ process = "up" /\ job[t].step = "idle"
    /\ received < MaxRequests /\ received' = received + 1
    /\ \E s \in Spellings :
        /\ job' = [job EXCEPT ![t] = [step |-> "find", comment |-> NoId, id |-> s,
                                      status |-> 200]]
        /\ expected' = [expected EXCEPT ![t] = Acknowledged(s)]
    /\ UNCHANGED <<mongo, post_id, process, found, comment_count, restarts, told>>

\* Faulty variant: the id is looked up as the request spelled it.
AsSpelled(t) == job[t].id

LookedUp(t) == Canonical[job[t].id]

\* find(post_id: id.to_s); an id that is no ObjectId looks for ''.
FindComments(t) ==
    /\ job[t].step = "find"
    /\ \/ /\ MongoAnswers
          /\ found' = [found EXCEPT ![t] =
                {c \in Stored : post_id[c] = LookedUp(t)}]
          /\ Goto(t, "answer", 200)
       \/ /\ MongoFails
          /\ Goto(t, "answer", 500)
          /\ UNCHANGED found
    /\ UNCHANGED <<mongo, post_id, process, comment_count, received, restarts,
                   told, expected>>

-----------------------------------------------------------------------------
Answer(t) ==
    /\ job[t].step = "answer"
    /\ told' = IF job[t].comment = NoId THEN told
               ELSE [told EXCEPT ![job[t].comment] = job[t].status]
    /\ job' = [job EXCEPT ![t] = Idle]
    /\ found' = [found EXCEPT ![t] = {}]
    /\ expected' = [expected EXCEPT ![t] = {}]
    /\ UNCHANGED <<mongo, post_id, process, comment_count, received, restarts>>

Crash ==
    /\ "crash" \in Faults /\ process = "up"
    /\ process' = "down"
    /\ job' = [t \in Threads |-> Idle]
    /\ found' = [t \in Threads |-> {}]
    /\ expected' = [t \in Threads |-> {}]
    /\ comment_count' = 0
    /\ UNCHANGED <<mongo, post_id, received, restarts, told>>

\* Faulty variant: one restart more than the restart policy grants.
MayRestartAgain == restarts <= MaxRestarts

MayRestart == restarts < MaxRestarts

Restart ==
    /\ process = "down" /\ MayRestart
    /\ process' = "up"
    /\ restarts' = restarts + 1
    /\ UNCHANGED <<mongo, post_id, job, found, comment_count, received, told,
                   expected>>

MongoChanges ==
    /\ "mongo" \in Faults
    /\ mongo' = IF mongo = "up" THEN "down" ELSE "up"
    /\ UNCHANGED <<post_id, process, job, found, comment_count, received,
                   restarts, told, expected>>

Serve(t) == \/ InsertComment(t) \/ ReadBack(t) \/ CommentFails(t)
            \/ CountComment(t) \/ FindComments(t) \/ Answer(t)

Next ==
    \/ \E t \in Threads : ReceiveComment(t) \/ ReceiveListing(t) \/ Serve(t)
    \/ Crash \/ Restart \/ MongoChanges

Spec == Init /\ [][Next]_vars

\* Threads run, and a MongoDB operation ends by its timeouts.
FairSpec == Spec /\ \A t \in Threads : WF_vars(Serve(t))

-----------------------------------------------------------------------------
(* Properties.                                                             *)

Jobs == [step : Steps, comment : Comments \cup {NoId},
         id : Spellings \cup {NoId}, status : {200, 500}]

\* Every variable keeps its type (configure, comment_app.rb:19).
TypeOK ==
    /\ mongo \in {"up", "down"} /\ process \in {"up", "down"}
    /\ post_id \in [Comments -> Spellings \cup {NoId}]
    /\ job \in [Threads -> Jobs]
    /\ found \in [Threads -> SUBSET Comments]
    /\ comment_count \in Nat
    /\ received \in 0..MaxRequests
    /\ restarts \in 0..MaxRestarts
    /\ told \in [Comments -> {0, 200, 500}]
    /\ expected \in [Threads -> SUBSET Comments]

\* A page shows every comment on its post whose author had been told it was
\* saved when the page was requested, whatever spelling of the id asked for it
\* (get '/:id/comments', comment_app.rb:74, against add_comment, line 101).
ListingComplete ==
    \A t \in Threads : job[t].id # NoId /\ job[t].comment = NoId
            /\ job[t].step = "answer" /\ job[t].status = 200 =>
        expected[t] \subseteq found[t]

\* comment_count counts no comment twice and none that is not stored: with the
\* comments still to be counted it stays within the collection, across crashes.
CommentCountSound ==
    comment_count + Cardinality({t \in Threads : job[t].step \in {"readback", "count"}})
        <= Cardinality(Stored)

\* What authors are told agrees with the collection and with the counter: a
\* comment answered 200 is stored, and a process that never died has counted
\* the comments answered 200, those it is about to answer so, and no other
\* (add_comment's rescue and else clauses, comment_app.rb:105-113).
ToldTheTruth ==
    /\ \A c \in Comments : told[c] = 200 => c \in Stored
    /\ restarts = 0 /\ process = "up" =>
        comment_count = Cardinality({c \in Comments : told[c] = 200})
            + Cardinality({t \in Threads : /\ job[t].step = "answer"
                                           /\ job[t].comment # NoId
                                           /\ job[t].status = 200})

\* Every request a thread works on is answered, or the process is lost.
RequestsEnd == \A t \in Threads : job[t].step # "idle" ~> job[t].step = "idle"

=============================================================================
