---------------------------- MODULE PostService ----------------------------
(***************************************************************************)
(* The post service: replicas of src/post-py/post_app.py in front of one   *)
(* MongoDB collection.  A replica is a Flask development server without    *)
(* threads, so it works on one request at a time; a request is a sequence  *)
(* of steps between which other replicas, MongoDB, Zipkin and the          *)
(* container scheduler may act.                                            *)
(*                                                                         *)
(* A vote is find_one, an addition in Python, and update_one with $set: a  *)
(* read-modify-write that nothing makes atomic.  Reads run inside a Zipkin *)
(* span, which ends with an HTTP call to the collector.  Neither this call *)
(* nor an operation on MongoDB has a timeout once it is sent: a server     *)
(* that accepts it and stays silent holds the replica.                     *)
(***************************************************************************)
EXTENDS Integers, FiniteSets, FiniteSetsExt

CONSTANTS
    Replicas,     \* tasks of the service
    Posts,        \* ObjectIds an insert may get (bounds the board)
    UnknownIds,   \* ids no post has
    MalformedIds, \* ids ObjectId() refuses
    NoId,         \* the id of a request without one
    Deltas,       \* vote types int() accepts
    BadTypes,     \* vote types int() refuses
    Ops,          \* operations clients call
    Faults,       \* faults the environment may inject
    MaxRequests,  \* bound on the requests received
    MaxAttempts   \* restarts the scheduler grants a task

AllOps == {"vote", "add", "list", "show"}

(* "mongo": MongoDB is unreachable for a while; "stall": it accepts         *)
(* operations and answers none.  "link": a connection breaks under an       *)
(* operation, which may or may not have been executed.  "late": MongoDB     *)
(* executes a write after its connection broke.  "zipkin": the collector    *)
(* refuses connections; "hang": it accepts them and never answers.          *)
(* "crash": a replica dies.                                                 *)
AllFaults == {"mongo", "stall", "link", "late", "zipkin", "hang", "crash"}

BadIds == UnknownIds \cup MalformedIds
Ids == Posts \cup BadIds \cup {NoId}
Types == Deltas \cup BadTypes

ASSUME ReplicasFinite == IsFiniteSet(Replicas)
ASSUME PostsFinite == IsFiniteSet(Posts)
ASSUME IdsDisjoint ==
    /\ BadIds \cap Posts = {} /\ NoId \notin Posts \cup BadIds
    /\ UnknownIds \cap MalformedIds = {}
ASSUME DeltasIntegers == Deltas \subseteq Int /\ BadTypes \cap Int = {}
ASSUME OpsKnown == Ops \subseteq AllOps
ASSUME FaultsKnown == Faults \subseteq AllFaults
ASSUME BoundsNatural == MaxRequests \in Nat /\ MaxAttempts \in Nat

VARIABLES
    mongo,       \* state of MongoDB
    zipkin,      \* state of the Zipkin collector
    waits,       \* per replica, the server that holds its call unanswered
    stored,      \* posts in the collection
    votes,       \* their 'votes' field, 0 outside stored
    late,        \* per replica, a write MongoDB may still execute
    job,         \* per replica, the request it works on and its next step
    outcome,     \* per replica, what became of that request so far: executed
                 \* by MongoDB, log event written, status of the answer
    post_count,  \* per replica, the Prometheus counter
    attempts,    \* restarts used by each task
    received,    \* requests received so far (bounded)
    ups, downs,  \* observers: total of the positive and of the negative
                 \* vote types MongoDB was told to add to each post
    raced        \* observer: posts two votes on which overlapped

env == <<mongo, zipkin, waits>>
db == <<stored, votes, ups, downs, raced>>
vars == <<mongo, zipkin, waits, stored, votes, late, job, outcome, post_count,
          attempts, received, ups, downs, raced>>

Steps == {"idle", "down", "find", "write", "insert", "count", "open",
          "dump", "load", "span", "answer"}

Idle == [step |-> "idle", op |-> "none", id |-> NoId, delta |-> 0, val |-> 0]
Down == [Idle EXCEPT !.step = "down"]

Pending == [done |-> FALSE, logged |-> "none", status |-> 200]

NoWrite == [op |-> "none", id |-> NoId, delta |-> 0, val |-> 0]

Init ==
    /\ mongo = "up"
    /\ zipkin = "up"
    /\ waits = [r \in Replicas |-> "none"]
    /\ stored = {}
    /\ votes = [p \in Posts |-> 0]
    /\ late = [r \in Replicas |-> NoWrite]
    /\ job = [r \in Replicas |-> Idle]
    /\ outcome = [r \in Replicas |-> Pending]
    /\ post_count = [r \in Replicas |-> 0]
    /\ attempts = [r \in Replicas |-> 0]
    /\ received = 0
    /\ ups = [p \in Posts |-> 0]
    /\ downs = [p \in Posts |-> 0]
    /\ raced = {}

-----------------------------------------------------------------------------
(* Requests.                                                               *)

\* ObjectIds in use: the driver gives every insert a fresh one.
Taken == stored \cup {job[r].id : r \in {s \in Replicas : job[s].op = "add"}}
                \cup {late[r].id : r \in {s \in Replicas : late[s].op = "add"}}

\* Pages link to stored posts; a stale or mistyped link gives a bad id.
Requests ==
    [op : {"vote"}, id : Posts \cup BadIds, delta : Types] \cup
    [op : {"show"}, id : Posts \cup BadIds, delta : {0}] \cup
    [op : {"add"}, id : Posts, delta : {0}] \cup
    [op : {"list"}, id : {NoId}, delta : {0}]

FirstStep(op) == CASE op = "vote" -> "find"
                   [] op = "add"  -> "insert"
                   [] op = "list" -> "open"
                   [] op = "show" -> "load"

Receive(r) ==
    /\ job[r].step = "idle"
    /\ received < MaxRequests
    /\ received' = received + 1
    /\ \E q \in Requests :
        /\ q.op \in Ops
        /\ q.op \in {"vote", "show"} => q.id \in stored \cup BadIds
        /\ q.op = "add" => q.id \notin Taken
        /\ job' = [job EXCEPT ![r] = [step |-> FirstStep(q.op), op |-> q.op,
                        id |-> q.id, delta |-> q.delta, val |-> 0]]
    /\ UNCHANGED <<env, db, late, outcome, post_count, attempts>>

-----------------------------------------------------------------------------
(* The ways a request moves on.                                            *)

Continue(r, step) == job' = [job EXCEPT ![r].step = step]

Note(r, done, logged, status) == outcome' = [outcome EXCEPT
    ![r] = [done |-> done, logged |-> logged, status |-> status]]

\* Faulty variants: every operation in a span; post_count.inc() in a finally
\* clause; the error path logs the success event; it answers 'OK'.
SpanAlways(op) == "span"
CountAnyway(op) == IF op = "add" THEN "count" ELSE "answer"
NoteSuccess(r, executed) == Note(r, executed, "info", 500)
NoteOK(r, executed) == Note(r, executed, "error", 200)

\* Only reads run in a span, which an exception still has to end.
LastStep(op) == IF op \in {"list", "show"} THEN "span" ELSE "answer"

NoteFailure(r, executed) == Note(r, executed, "error", 500)

\* log_event('error', ...) and abort(500).
Abort(r, executed) == Continue(r, LastStep(job[r].op)) /\ NoteFailure(r, executed)

MongoAnswers == mongo = "up"

\* Besides a broken connection: no server is found within 30 seconds, the
\* driver's default, because MongoDB is down or its heartbeats stay out.
MongoFails == mongo # "up" \/ "link" \in Faults

-----------------------------------------------------------------------------
(* vote().                                                                 *)

\* Another vote on the post has been read and may still be written.
Overlaps(r) ==
    \E s \in Replicas :
        \/ job[s].step = "write" /\ job[s].id = job[r].id
        \/ late[s].op = "vote" /\ late[s].id = job[r].id

\* Faulty variant: post['votes'] = int(vote_type).
OwnVote(r) == job[r].delta

\* post['votes'] += int(vote_type) on the copy just read.
NewVotes(r) == votes[job[r].id] + job[r].delta

FindPostToVote(r) ==
    /\ job[r].step = "find"
    /\ MongoAnswers
    /\ job[r].id \in stored
    /\ job[r].delta \in Deltas
    /\ job' = [job EXCEPT ![r] = [step |-> "write", op |-> "vote", id |-> @.id,
                    delta |-> @.delta, val |-> NewVotes(r)]]
    /\ raced' = IF Overlaps(r) THEN raced \cup {job[r].id} ELSE raced
    /\ UNCHANGED <<env, stored, votes, ups, downs, late, outcome, post_count,
                   attempts, received>>

\* ObjectId() or MongoDB raises, the post is None, or int() raises.
CannotVote(r) ==
    /\ job[r].step = "find"
    /\ \/ MongoFails
       \/ MongoAnswers /\ ~(job[r].id \in stored /\ job[r].delta \in Deltas)
    /\ Abort(r, FALSE)
    /\ UNCHANGED <<env, db, late, post_count, attempts, received>>

\* Faulty variant: {'$inc': {'votes': val}}.
IncField(w) == [votes EXCEPT ![w.id] = @ + w.val]

\* {'$set': {'votes': val}}
SetField(w) == [votes EXCEPT ![w.id] = w.val]

\* MongoDB executes the update of a vote.
SetVotes(w) ==
    /\ votes' = SetField(w)
    /\ ups' = [ups EXCEPT ![w.id] = @ + (IF w.delta > 0 THEN w.delta ELSE 0)]
    /\ downs' = [downs EXCEPT ![w.id] = @ - (IF w.delta < 0 THEN w.delta ELSE 0)]

UpdateVotes(r) ==
    /\ job[r].step = "write"
    /\ MongoAnswers
    /\ SetVotes(job[r])
    /\ Continue(r, "answer")
    /\ Note(r, TRUE, "info", 200)
    /\ UNCHANGED <<env, stored, raced, late, post_count, attempts, received>>

-----------------------------------------------------------------------------
(* add_post().                                                             *)

InsertPost(r) ==
    /\ job[r].step = "insert"
    /\ MongoAnswers
    /\ stored' = stored \cup {job[r].id}
    /\ Continue(r, "count")
    /\ Note(r, TRUE, "info", 200)
    /\ UNCHANGED <<env, votes, ups, downs, raced, late, post_count, attempts,
                   received>>

CountPost(r) ==
    /\ job[r].step = "count"
    /\ post_count' = [post_count EXCEPT ![r] = @ + 1]
    /\ Continue(r, "answer")
    /\ UNCHANGED <<env, db, late, outcome, attempts, received>>

-----------------------------------------------------------------------------
(* A write whose acknowledgement does not arrive: the driver raises and    *)
(* the handler answers 500 whatever became of the write.                   *)

AtWrite(r) == job[r].step \in {"write", "insert"}

WriteNotExecuted(r) ==
    /\ AtWrite(r)
    /\ MongoFails
    /\ Abort(r, FALSE)
    /\ UNCHANGED <<env, db, late, post_count, attempts, received>>

WriteUnacknowledged(r) ==
    /\ AtWrite(r)
    /\ MongoAnswers /\ "link" \in Faults
    /\ Abort(r, TRUE)
    /\ IF job[r].op = "vote"
       THEN SetVotes(job[r]) /\ UNCHANGED stored
       ELSE stored' = stored \cup {job[r].id} /\ UNCHANGED <<votes, ups, downs>>
    /\ UNCHANGED <<env, raced, late, post_count, attempts, received>>

\* The write sits on the broken connection; one per replica at a time.
WriteLeftBehind(r) ==
    /\ AtWrite(r)
    /\ "late" \in Faults
    /\ late[r] = NoWrite
    /\ late' = [late EXCEPT ![r] = [op |-> job[r].op, id |-> job[r].id,
                                    delta |-> job[r].delta, val |-> job[r].val]]
    /\ Abort(r, FALSE)
    /\ UNCHANGED <<env, db, post_count, attempts, received>>

ExecuteLate(r) ==
    /\ late[r] # NoWrite
    /\ IF late[r].op = "vote"
       THEN SetVotes(late[r]) /\ UNCHANGED stored
       ELSE stored' = stored \cup {late[r].id} /\ UNCHANGED <<votes, ups, downs>>
    /\ late' = [late EXCEPT ![r] = NoWrite]
    /\ UNCHANGED <<env, raced, job, outcome, post_count, attempts, received>>

ForgetLate(r) ==
    /\ late[r] # NoWrite
    /\ late' = [late EXCEPT ![r] = NoWrite]
    /\ UNCHANGED <<env, db, job, outcome, post_count, attempts, received>>

-----------------------------------------------------------------------------
(* posts() and get_post(id).                                               *)

\* find().sort() only builds a cursor: it cannot fail, and success is logged.
OpenCursor(r) ==
    /\ job[r].step = "open"
    /\ Continue(r, "dump")
    /\ Note(r, FALSE, "info", 200)
    /\ UNCHANGED <<env, db, late, post_count, attempts, received>>

\* dumps(posts) runs the query, after find_posts' except clause.
DumpPosts(r) ==
    /\ job[r].step = "dump"
    /\ Continue(r, "span")
    /\ \/ MongoAnswers /\ Note(r, TRUE, "info", 200)
       \/ MongoFails /\ Note(r, FALSE, "info", 500)
    /\ UNCHANGED <<env, db, late, post_count, attempts, received>>

\* find_one of an unknown id gives None, dumped as null and answered 200.
FindPost(r) ==
    /\ job[r].step = "load"
    /\ \/ /\ MongoAnswers /\ job[r].id \notin MalformedIds
          /\ Continue(r, "span")
          /\ Note(r, job[r].id \notin UnknownIds, "info", 200)
       \/ /\ MongoFails \/ job[r].id \in MalformedIds
          /\ Abort(r, FALSE)
    /\ UNCHANGED <<env, db, late, post_count, attempts, received>>

\* Faulty variant: the span is posted again until Zipkin takes it.
SpanTaken == zipkin = "up"

\* http_transport: the collector answers, or refuses the connection.
SpanPosted == zipkin # "hung"

\* Leaving the with block posts the span; an exception makes the answer 500.
EndSpan(r) ==
    /\ job[r].step = "span"
    /\ SpanPosted
    /\ Continue(r, "answer")
    /\ outcome' = IF zipkin = "up" THEN outcome
                  ELSE [outcome EXCEPT ![r].status = 500]
    /\ UNCHANGED <<env, db, late, post_count, attempts, received>>

Answer(r) ==
    /\ job[r].step = "answer"
    /\ job' = [job EXCEPT ![r] = Idle]
    /\ outcome' = [outcome EXCEPT ![r] = Pending]
    /\ UNCHANGED <<env, db, late, post_count, attempts, received>>

-----------------------------------------------------------------------------
(* Calls that are not answered: MongoClient() sets no socketTimeoutMS and  *)
(* requests.post() no timeout.                                             *)

\* ObjectId() refuses a malformed id before MongoDB is asked.
CallsMongo(r) ==
    /\ job[r].step \in {"find", "write", "insert", "dump", "load"}
    /\ job[r].id \notin MalformedIds

\* The server takes the call and is silent.
Hang(r) ==
    /\ waits[r] = "none"
    /\ \/ CallsMongo(r) /\ mongo = "hung"
             /\ waits' = [waits EXCEPT ![r] = "mongo"]
       \/ job[r].step = "span" /\ zipkin = "hung"
             /\ waits' = [waits EXCEPT ![r] = "zipkin"]
    /\ UNCHANGED <<mongo, zipkin, db, late, job, outcome, post_count, attempts,
                   received>>

\* A server that is back, or down and its connections reset, may still answer
\* or fail a call it held; it may as well have forgotten it.
Return(r) ==
    /\ \/ waits[r] = "mongo" /\ mongo # "hung"
       \/ waits[r] = "zipkin" /\ zipkin # "hung"
    /\ waits' = [waits EXCEPT ![r] = "none"]
    /\ UNCHANGED <<mongo, zipkin, db, late, job, outcome, post_count, attempts,
                   received>>

-----------------------------------------------------------------------------
(* The container scheduler and the other services.                         *)

\* A write the process had already sent is covered by the actions above.
Crash(r) ==
    /\ "crash" \in Faults
    /\ job[r].step # "down"
    /\ job' = [job EXCEPT ![r] = Down]
    /\ outcome' = [outcome EXCEPT ![r] = Pending]
    /\ post_count' = [post_count EXCEPT ![r] = 0]
    /\ waits' = [waits EXCEPT ![r] = "none"]
    /\ UNCHANGED <<mongo, zipkin, db, late, attempts, received>>

\* Faulty variant: one restart too many.
MayRestartAgain(r) == attempts[r] <= MaxAttempts

MayRestart(r) == attempts[r] < MaxAttempts

\* init() only creates a lazy client: a replica starts without MongoDB.
Restart(r) ==
    /\ job[r].step = "down"
    /\ MayRestart(r)
    /\ attempts' = [attempts EXCEPT ![r] = @ + 1]
    /\ job' = [job EXCEPT ![r] = Idle]
    /\ UNCHANGED <<env, db, late, outcome, post_count, received>>

MongoChanges ==
    /\ \E m \in {"up"} \cup (IF "mongo" \in Faults THEN {"down"} ELSE {})
                       \cup (IF "stall" \in Faults THEN {"hung"} ELSE {}) :
        m # mongo /\ mongo' = m
    /\ UNCHANGED <<zipkin, waits, db, late, job, outcome, post_count, attempts,
                   received>>

ZipkinChanges ==
    /\ \E z \in {"up"} \cup (IF "zipkin" \in Faults THEN {"down"} ELSE {})
                       \cup (IF "hang" \in Faults THEN {"hung"} ELSE {}) :
        z # zipkin /\ zipkin' = z
    /\ UNCHANGED <<mongo, waits, db, late, job, outcome, post_count, attempts,
                   received>>

-----------------------------------------------------------------------------
Vote(r) == FindPostToVote(r) \/ CannotVote(r) \/ UpdateVotes(r)
AddPost(r) == InsertPost(r) \/ CountPost(r)
BrokenWrite(r) == WriteNotExecuted(r) \/ WriteUnacknowledged(r) \/ WriteLeftBehind(r)
Read(r) == OpenCursor(r) \/ DumpPosts(r) \/ FindPost(r) \/ EndSpan(r)

\* What the process does on its own once it has a request.
Serve(r) ==
    \/ waits[r] = "none" /\ (Vote(r) \/ AddPost(r) \/ BrokenWrite(r) \/ Read(r)
                             \/ Answer(r))
    \/ Hang(r)

Next ==
    \/ \E r \in Replicas :
        \/ Receive(r) \/ Serve(r) \/ Return(r)
        \/ ExecuteLate(r) \/ ForgetLate(r)
        \/ Crash(r) \/ Restart(r)
    \/ MongoChanges \/ ZipkinChanges

Spec == Init /\ [][Next]_vars

\* The process keeps running; clients, faults and the servers that hold a call
\* are under no obligation.
FairSpec == Spec /\ \A r \in Replicas : WF_vars(Serve(r))

-----------------------------------------------------------------------------
(* Properties.                                                             *)

Jobs == [step : Steps, op : AllOps \cup {"none"}, id : Ids,
         delta : Types \cup {0}, val : Int]

Outcomes == [done : BOOLEAN, logged : {"none", "info", "error"},
             status : {200, 500}]

Writes == [op : {"none", "vote", "add"}, id : Ids, delta : Types \cup {0},
           val : Int]

\* Every variable keeps its type (init, post_app.py:27).
TypeOK ==
    /\ mongo \in {"up", "down", "hung"}
    /\ zipkin \in {"up", "down", "hung"}
    /\ waits \in [Replicas -> {"none", "mongo", "zipkin"}]
    /\ stored \subseteq Posts
    /\ votes \in [Posts -> Int]
    /\ late \in [Replicas -> Writes]
    /\ job \in [Replicas -> Jobs]
    /\ outcome \in [Replicas -> Outcomes]
    /\ post_count \in [Replicas -> Nat]
    /\ attempts \in [Replicas -> 0..MaxAttempts]
    /\ received \in 0..MaxRequests
    /\ ups \in [Posts -> Nat]
    /\ downs \in [Posts -> Nat]
    /\ raced \subseteq Posts

\* However replicas, crashes and late writes interleave, vote() never counts a
\* vote twice and never invents one: a post's votes stay between what all
\* executed downvotes and all executed upvotes alone would give.
VotesWithinBounds ==
    \A p \in Posts : -downs[p] <= votes[p] /\ votes[p] <= ups[p]

\* A vote is only ever lost to another vote on the same post whose read and
\* write overlapped it (vote, post_app.py:111-114): any number of replicas,
\* crashes and broken connections leave the other posts' scores exact.
LostOnlyToRaces ==
    \A p \in Posts \ raced : votes[p] = ups[p] - downs[p]

\* Every vote MongoDB executed is in the score (what vote() logs as
\* 'Successful vote', post_app.py:121).
NoLostVote == \A p \in Posts : votes[p] = ups[p] - downs[p]

Counted == SumFunction(post_count)
    + Cardinality({r \in Replicas : job[r].step = "count"})

\* post_count never runs ahead of the collection: what all replicas counted,
\* and the inserts still to be counted, are at most the stored posts.
PostCountSound == Counted <= Cardinality(stored)

\* What is logged as a success has happened (the info events of vote, add_post
\* and find_post), with two exceptions.  find_posts logs before the query runs:
\* its success is false until the posts are dumped, and for good when the
\* request is answered 500.  find_post logs that it found an id no post has.
LoggedSuccessIsTrue ==
    \A r \in Replicas : outcome[r].logged = "info" /\ ~outcome[r].done =>
        \/ job[r].op = "list" /\ (job[r].step = "dump" \/ outcome[r].status = 500)
        \/ job[r].op = "show" /\ job[r].id \in UnknownIds

\* A vote or a new post in progress is answered, or its replica is lost,
\* whatever Zipkin does, since vote and add_post open no span; only a MongoDB
\* that took the operation and stays silent keeps it (MongoClient without
\* socketTimeoutMS, post_app.py:43-46).
WritesEnd == \A r \in Replicas :
    job[r].op \in {"vote", "add"} ~> job[r].op = "none" \/ waits[r] = "mongo"

\* A read in progress ends too, be MongoDB and Zipkin up or down, unless one of
\* them took a call of it and stays silent: the query, or the span, which is
\* posted without timeout (http_transport, post_app.py:54).
ReadsEnd == \A r \in Replicas :
    job[r].op \in {"list", "show"} ~> job[r].op = "none" \/ waits[r] # "none"

\* The phase of a request as its caller may come to know it.
Phase(r) ==
    CASE job[r].step \in {"idle", "down"} -> "none"
      [] job[r].step = "count" -> "ok"
      [] job[r].step = "answer" -> IF outcome[r].status = 200 THEN "ok" ELSE "error"
      [] OTHER -> "called"

CallOf(r) ==
    IF Phase(r) = "none" THEN [phase |-> "none", req |-> [op |-> "none"]]
    ELSE [phase |-> Phase(r), req |-> [op |-> job[r].op, id |-> job[r].id,
                                       delta |-> job[r].delta]]

Board == INSTANCE VoteBoard WITH
    Servers <- Replicas, Items <- Posts, published <- stored, score <- votes,
    call <- [r \in Replicas |-> CallOf(r)]

\* With one replica and no late write every request of the service is one
\* atomic step of the board, and is answered according to what it did.
ImplementsBoard == Board!BoardSpec

=============================================================================
