------------------------- MODULE PostServiceProofs -------------------------
(***************************************************************************)
(* Proofs about PostService, for any number of replicas, any posts, any    *)
(* vote types and any set of faults.                                       *)
(***************************************************************************)
EXTENDS PostService, FiniteSetTheorems, WellFoundedInduction, TLAPS

-----------------------------------------------------------------------------
(* Types, and what a job or a late write that is about to change the       *)
(* collection looks like.                                                  *)

Shape ==
    \A r \in Replicas :
        /\ job[r].step = "find" => job[r].op = "vote"
        /\ job[r].step = "write" =>
              job[r].op = "vote" /\ job[r].id \in stored /\ job[r].delta \in Deltas
        /\ job[r].step = "insert" => job[r].op = "add" /\ job[r].id \in Posts
        /\ late[r].op = "vote" => late[r].id \in stored /\ late[r].delta \in Deltas
        /\ late[r].op = "add" => late[r].id \in Posts
        /\ late[r].op = "none" => late[r] = NoWrite

Inv1 == TypeOK /\ Shape

\* A call is taken and held, or comes back; nothing else changes.
Waiting == \E r \in Replicas : Hang(r) \/ Return(r)

USE DEF env, db, LastStep, NoteFailure, NewVotes, SetField, SpanPosted, MayRestart

LEMMA InitInv1 == Init => Inv1
  BY BoundsNatural DEF Init, Inv1, TypeOK, Shape, Idle, NoWrite, Jobs, Writes,
     Steps, AllOps, Ids, Types, Outcomes, Pending

\* MongoDB executing a well-formed write keeps the types of the collection.
LEMMA SetVotesTyped ==
  ASSUME TypeOK, NEW w, w.id \in Posts, w.val \in Int, w.delta \in Int, SetVotes(w)
  PROVE  votes' \in [Posts -> Int] /\ ups' \in [Posts -> Nat] /\ downs' \in [Posts -> Nat]
  BY DEF TypeOK, SetVotes

\* A job that moves on to a step which reads or writes no post.
LEMMA ContinueShape ==
  ASSUME Inv1, NEW r \in Replicas, NEW step \in Steps \ {"find", "write", "insert"},
         Continue(r, step), UNCHANGED late, stored \subseteq stored'
  PROVE  job' \in [Replicas -> Jobs] /\ Shape'
  BY DEF Inv1, TypeOK, Shape, Jobs, Writes, Continue

LEMMA AbortShape ==
  ASSUME Inv1, NEW r \in Replicas, NEW executed \in BOOLEAN, Abort(r, executed),
         UNCHANGED late, stored \subseteq stored'
  PROVE  job' \in [Replicas -> Jobs] /\ outcome' \in [Replicas -> Outcomes] /\ Shape'
  <1>1. outcome' \in [Replicas -> Outcomes]
    BY DEF Inv1, TypeOK, Outcomes, Abort, Note
  <1>2. CASE job[r].op \in {"list", "show"}
    BY <1>1, <1>2, ContinueShape DEF Abort, Steps
  <1>3. CASE job[r].op \notin {"list", "show"}
    BY <1>1, <1>3, ContinueShape DEF Abort, Steps
  <1> QED
    BY <1>2, <1>3

LEMMA StatusTyped ==
  ASSUME NEW o \in Outcomes
  PROVE  [o EXCEPT !.status = 500] \in Outcomes
  BY DEF Outcomes

LEMMA StepInv1 == Inv1 /\ [Next]_vars => Inv1'
  <1> SUFFICES ASSUME Inv1, [Next]_vars PROVE Inv1'
    OBVIOUS
  <1> USE DEF Inv1, TypeOK, Shape, Jobs, Writes, Steps, AllOps
  <1>1. ASSUME NEW r \in Replicas, Receive(r) PROVE Inv1'
    <2>1. PICK q \in Requests :
            /\ q.op \in Ops
            /\ job' = [job EXCEPT ![r] = [step |-> FirstStep(q.op), op |-> q.op,
                         id |-> q.id, delta |-> q.delta, val |-> 0]]
      BY <1>1 DEF Receive
    <2>2. /\ q.op \in AllOps /\ q.id \in Ids /\ q.delta \in Types \cup {0}
          /\ q.op = "add" => q.id \in Posts
      BY DEF Requests, Ids
    <2>3. /\ FirstStep(q.op) \in {"find", "insert", "open", "load"}
          /\ FirstStep(q.op) = "find" => q.op = "vote"
          /\ FirstStep(q.op) = "insert" => q.op = "add"
      BY <2>2 DEF FirstStep
    <2>4. TypeOK'
      BY <1>1, <2>1, <2>2, <2>3, BoundsNatural DEF Receive
    <2>5. Shape'
      BY <1>1, <2>1, <2>2, <2>3 DEF Receive
    <2> QED
      BY <2>4, <2>5
  <1>2. ASSUME NEW r \in Replicas, FindPostToVote(r) PROVE Inv1'
    <2>0. job[r].id \in Posts /\ job[r].delta \in Int
      BY <1>2, DeltasIntegers DEF FindPostToVote
    <2>1. votes[job[r].id] + job[r].delta \in Int
      BY <2>0
    <2>2. TypeOK'
      BY <1>2, <2>1 DEF FindPostToVote
    <2>3. Shape'
      BY <1>2 DEF FindPostToVote
    <2> QED
      BY <2>2, <2>3
  <1>3. ASSUME NEW r \in Replicas, CannotVote(r) PROVE Inv1'
    BY <1>3, AbortShape DEF CannotVote
  <1>4. ASSUME NEW r \in Replicas, UpdateVotes(r) PROVE Inv1'
    <2>1. job[r].id \in Posts /\ job[r].val \in Int /\ job[r].delta \in Int
      BY <1>4, DeltasIntegers DEF UpdateVotes
    <2>2. outcome' \in [Replicas -> Outcomes]
      BY <1>4 DEF UpdateVotes, Note, Outcomes
    <2> QED
      BY <1>4, <2>1, <2>2, SetVotesTyped, ContinueShape DEF UpdateVotes
  <1>5. ASSUME NEW r \in Replicas, InsertPost(r) PROVE Inv1'
    <2>1. outcome' \in [Replicas -> Outcomes]
      BY <1>5 DEF InsertPost, Note, Outcomes
    <2> QED
      BY <1>5, <2>1, ContinueShape DEF InsertPost
  <1>6. ASSUME NEW r \in Replicas, CountPost(r) PROVE Inv1'
    BY <1>6, ContinueShape DEF CountPost
  <1>7. ASSUME NEW r \in Replicas, WriteNotExecuted(r) PROVE Inv1'
    BY <1>7, AbortShape DEF WriteNotExecuted
  <1>8. ASSUME NEW r \in Replicas, WriteUnacknowledged(r) PROVE Inv1'
    <2>1. CASE job[r].op = "vote"
      <3>1. /\ SetVotes(job[r]) /\ Abort(r, TRUE)
            /\ UNCHANGED <<env, stored, raced, late, post_count, attempts, received>>
            /\ job[r].id \in Posts /\ job[r].val \in Int /\ job[r].delta \in Int
        BY <1>8, <2>1, DeltasIntegers DEF WriteUnacknowledged, AtWrite
      <3> QED
        BY <3>1, SetVotesTyped, AbortShape
    <2>2. CASE job[r].op # "vote"
      <3>1. /\ Abort(r, TRUE) /\ stored' = stored \cup {job[r].id}
            /\ UNCHANGED <<env, votes, ups, downs, raced, late, post_count, attempts, received>>
            /\ job[r].id \in Posts
        BY <1>8, <2>2 DEF WriteUnacknowledged, AtWrite
      <3> QED
        BY <3>1, AbortShape
    <2> QED
      BY <2>1, <2>2
  <1>9. ASSUME NEW r \in Replicas, WriteLeftBehind(r) PROVE Inv1'
    BY <1>9 DEF WriteLeftBehind, Abort, AtWrite, Continue, Note, Outcomes
  <1>10. ASSUME NEW r \in Replicas, ExecuteLate(r) PROVE Inv1'
    <2>1. late' \in [Replicas -> Writes]
      BY <1>10 DEF ExecuteLate, NoWrite, Ids
    <2>2. CASE late[r].op = "vote"
      <3>1. /\ SetVotes(late[r])
            /\ UNCHANGED <<env, stored, raced, job, outcome, post_count, attempts, received>>
            /\ late[r].id \in Posts /\ late[r].val \in Int /\ late[r].delta \in Int
        BY <1>10, <2>2, DeltasIntegers DEF ExecuteLate
      <3>2. Shape'
        BY <1>10, <3>1 DEF ExecuteLate, NoWrite
      <3> QED
        BY <2>1, <3>1, <3>2, SetVotesTyped
    <2>3. CASE late[r].op # "vote"
      BY <1>10, <2>1, <2>3 DEF ExecuteLate, NoWrite
    <2> QED
      BY <2>2, <2>3
  <1>11. ASSUME NEW r \in Replicas, ForgetLate(r) PROVE Inv1'
    BY <1>11 DEF ForgetLate, NoWrite, Ids
  <1>12. ASSUME NEW r \in Replicas, Read(r) PROVE Inv1'
    <2>1. CASE OpenCursor(r)
      BY <2>1, ContinueShape DEF OpenCursor, Note, Outcomes
    <2>2. CASE DumpPosts(r)
      <3>1. outcome' \in [Replicas -> Outcomes]
        <4>1. CASE Note(r, TRUE, "info", 200)
          BY <4>1 DEF Note, Outcomes
        <4>2. CASE Note(r, FALSE, "info", 500)
          BY <4>2 DEF Note, Outcomes
        <4> QED
          BY <2>2, <4>1, <4>2 DEF DumpPosts
      <3> QED
        BY <2>2, <3>1, ContinueShape DEF DumpPosts
    <2>3. CASE FindPost(r)
      <3>1. CASE Continue(r, "span") /\ Note(r, job[r].id \notin UnknownIds, "info", 200)
        <4>1. outcome' \in [Replicas -> Outcomes]
          BY <3>1 DEF Note, Outcomes
        <4> QED
          BY <2>3, <3>1, <4>1, ContinueShape DEF FindPost
      <3>2. CASE Abort(r, FALSE)
        BY <2>3, <3>2, AbortShape DEF FindPost
      <3> QED
        BY <2>3, <3>1, <3>2 DEF FindPost
    <2>4. CASE EndSpan(r)
      <3>0. outcome \in [Replicas -> Outcomes]
        OBVIOUS
      <3>1. outcome' \in [Replicas -> Outcomes]
        <4>1. CASE outcome' = outcome
          BY <3>0, <4>1
        <4>2. CASE outcome' = [outcome EXCEPT ![r].status = 500]
          <5>1. [outcome[r] EXCEPT !.status = 500] \in Outcomes
            BY <3>0, StatusTyped
          <5> QED
            BY <3>0, <4>2, <5>1
        <4> QED
          BY <2>4, <4>1, <4>2 DEF EndSpan
      <3> QED
        BY <2>4, <3>1, ContinueShape DEF EndSpan
    <2> QED
      BY <1>12, <2>1, <2>2, <2>3, <2>4 DEF Read
  <1>13. ASSUME NEW r \in Replicas, Answer(r) PROVE Inv1'
    BY <1>13 DEF Answer, Outcomes, Pending, Idle, Ids
  <1>14. ASSUME NEW r \in Replicas, Crash(r) PROVE Inv1'
    BY <1>14 DEF Crash, Outcomes, Pending, Down, Idle, Ids
  <1>15. ASSUME NEW r \in Replicas, Restart(r) PROVE Inv1'
    BY <1>15, BoundsNatural DEF Restart, Outcomes, Pending, Idle, Ids
  <1>16. CASE MongoChanges
    BY <1>16 DEF MongoChanges
  <1>17. CASE ZipkinChanges
    BY <1>17 DEF ZipkinChanges
  <1>18. CASE UNCHANGED vars
    BY <1>18 DEF vars
  <1>19. CASE Waiting
    BY <1>19 DEF Waiting, Hang, Return
  <1> QED
    BY <1>1, <1>2, <1>3, <1>4, <1>5, <1>6, <1>7, <1>8, <1>9, <1>10, <1>11,
       <1>12, <1>13, <1>14, <1>15, <1>16, <1>17, <1>18,
       <1>19
       DEF Next, Waiting, Serve, Vote, AddPost, BrokenWrite

\* Whatever the clients ask and the environment does, every variable of the
\* post service keeps its type.
THEOREM TypeCorrect == Spec => []TypeOK
  <1>1. Inv1 => TypeOK
    BY DEF Inv1
  <1> QED
    BY InitInv1, StepInv1, <1>1, PTL DEF Spec

-----------------------------------------------------------------------------
(* Steps that neither change a score nor make a new write pending.         *)

Calm ==
    /\ UNCHANGED <<votes, ups, downs, raced>>
    /\ \A r \in Replicas :
        /\ job'[r].step = "write" => job'[r] = job[r]
        /\ late'[r].op = "vote" => late'[r] = late[r]

LEMMA ContinueCalm ==
  ASSUME Inv1, NEW r \in Replicas, NEW step \in Steps \ {"write"}, Continue(r, step),
         UNCHANGED <<votes, ups, downs, raced, late>>
  PROVE  Calm
  BY DEF Inv1, TypeOK, Jobs, Continue, Calm

LEMMA AbortCalm ==
  ASSUME Inv1, NEW r \in Replicas, NEW executed \in BOOLEAN, Abort(r, executed),
         UNCHANGED <<votes, ups, downs, raced, late>>
  PROVE  Calm
  BY ContinueCalm DEF Abort, Steps

\* The actions that matter to the scores.
Scoring(r) ==
    \/ FindPostToVote(r)
    \/ UpdateVotes(r)
    \/ WriteUnacknowledged(r) /\ job[r].op = "vote"
    \/ WriteLeftBehind(r)
    \/ ExecuteLate(r) /\ late[r].op = "vote"

LEMMA ScoringOrCalm ==
  ASSUME Inv1, [Next]_vars
  PROVE  Calm \/ \E r \in Replicas : Scoring(r)
  <1> USE DEF Inv1, TypeOK, Steps
  <1>1. ASSUME NEW r \in Replicas, Receive(r) PROVE Calm
    <2>1. PICK q \in Requests :
            /\ q.op \in Ops
            /\ job' = [job EXCEPT ![r] = [step |-> FirstStep(q.op), op |-> q.op,
                         id |-> q.id, delta |-> q.delta, val |-> 0]]
      BY <1>1 DEF Receive
    <2>2. q.op \in AllOps
      BY DEF Requests, AllOps
    <2>3. FirstStep(q.op) # "write"
      BY <2>2 DEF FirstStep, AllOps
    <2> QED
      BY <1>1, <2>1, <2>3 DEF Receive, Calm
  <1>2. ASSUME NEW r \in Replicas, CannotVote(r) PROVE Calm
    BY <1>2, AbortCalm DEF CannotVote
  <1>3. ASSUME NEW r \in Replicas, InsertPost(r) PROVE Calm
    BY <1>3, ContinueCalm DEF InsertPost
  <1>4. ASSUME NEW r \in Replicas, CountPost(r) PROVE Calm
    BY <1>4, ContinueCalm DEF CountPost
  <1>5. ASSUME NEW r \in Replicas, WriteNotExecuted(r) PROVE Calm
    BY <1>5, AbortCalm DEF WriteNotExecuted
  <1>6. ASSUME NEW r \in Replicas, WriteUnacknowledged(r), job[r].op # "vote" PROVE Calm
    BY <1>6, AbortCalm DEF WriteUnacknowledged
  <1>7. ASSUME NEW r \in Replicas, ExecuteLate(r), late[r].op # "vote" PROVE Calm
    BY <1>7 DEF ExecuteLate, NoWrite, Calm
  <1>8. ASSUME NEW r \in Replicas, ForgetLate(r) PROVE Calm
    BY <1>8 DEF ForgetLate, NoWrite, Calm
  <1>9. ASSUME NEW r \in Replicas, Read(r) PROVE Calm
    <2>1. CASE OpenCursor(r)
      BY <2>1, ContinueCalm DEF OpenCursor
    <2>2. CASE DumpPosts(r)
      BY <2>2, ContinueCalm DEF DumpPosts
    <2>3. CASE FindPost(r)
      BY <2>3, ContinueCalm, AbortCalm DEF FindPost
    <2>4. CASE EndSpan(r)
      BY <2>4, ContinueCalm DEF EndSpan
    <2> QED
      BY <1>9, <2>1, <2>2, <2>3, <2>4 DEF Read
  <1>10. ASSUME NEW r \in Replicas, Answer(r) \/ Restart(r) PROVE Calm
    BY <1>10 DEF Answer, Restart, Idle, Calm
  <1>11. ASSUME NEW r \in Replicas, Crash(r) PROVE Calm
    BY <1>11 DEF Crash, Down, Idle, Calm
  <1>12. CASE Waiting \/ MongoChanges \/ ZipkinChanges \/ UNCHANGED vars
    BY <1>12 DEF Waiting, Hang, Return, MongoChanges, ZipkinChanges, vars, Calm
  <1> QED
    BY <1>1, <1>2, <1>3, <1>4, <1>5, <1>6, <1>7, <1>8, <1>9, <1>10, <1>11, <1>12
       DEF Next, Waiting, Serve, Vote, AddPost, BrokenWrite, Scoring

-----------------------------------------------------------------------------
(* No vote is counted twice.  A pending write carries the score it read;   *)
(* that score was within the bounds, and the bounds only grow.             *)

Within(w) ==
    LET read == w.val - w.delta
    IN  -downs[w.id] <= read /\ read <= ups[w.id]

PendingWithin ==
    \A r \in Replicas :
        /\ job[r].step = "write" => Within(job[r])
        /\ late[r].op = "vote" => Within(late[r])

Inv2 == Inv1 /\ VotesWithinBounds /\ PendingWithin

LEMMA InitInv2 == Init => Inv2
  <1>1. Init => VotesWithinBounds /\ PendingWithin
    BY DEF Init, VotesWithinBounds, PendingWithin, Idle, NoWrite
  <1> QED
    BY <1>1, InitInv1 DEF Inv2

\* Executing a write that read a score within the bounds stays within them.
LEMMA SetVotesWithin ==
  ASSUME TypeOK, NEW w, w.id \in Posts, w.val \in Int, w.delta \in Int,
         Within(w), VotesWithinBounds, SetVotes(w)
  PROVE  /\ VotesWithinBounds'
         /\ \A p \in Posts : ups'[p] >= ups[p] /\ downs'[p] >= downs[p]
  <1>1. \A p \in Posts : ups'[p] >= ups[p] /\ downs'[p] >= downs[p]
    BY DEF TypeOK, SetVotes
  <1>2. /\ votes'[w.id] = w.val
        /\ ups'[w.id] = ups[w.id] + (IF w.delta > 0 THEN w.delta ELSE 0)
        /\ downs'[w.id] = downs[w.id] - (IF w.delta < 0 THEN w.delta ELSE 0)
    BY DEF TypeOK, SetVotes
  <1>3. \A p \in Posts \ {w.id} :
            votes'[p] = votes[p] /\ ups'[p] = ups[p] /\ downs'[p] = downs[p]
    BY DEF TypeOK, SetVotes
  <1>4. -downs'[w.id] <= votes'[w.id] /\ votes'[w.id] <= ups'[w.id]
    BY <1>2 DEF TypeOK, Within
  <1> QED
    BY <1>1, <1>3, <1>4 DEF VotesWithinBounds

\* A write that stays pending stays within bounds that only grew.
LEMMA WithinGrows ==
  ASSUME TypeOK, TypeOK', NEW w, w.id \in Posts, w.val \in Int, w.delta \in Int, Within(w),
         ups'[w.id] >= ups[w.id], downs'[w.id] >= downs[w.id]
  PROVE  -downs'[w.id] <= w.val - w.delta /\ w.val - w.delta <= ups'[w.id]
  BY DEF TypeOK, Within

LEMMA PendingTyped ==
  ASSUME Inv1, NEW r \in Replicas
  PROVE  /\ job[r].step = "write" =>
                job[r].id \in Posts /\ job[r].val \in Int /\ job[r].delta \in Int
         /\ late[r].op = "vote" =>
                late[r].id \in Posts /\ late[r].val \in Int /\ late[r].delta \in Int
  BY DeltasIntegers DEF Inv1, TypeOK, Shape, Jobs, Writes

LEMMA StepInv2 == Inv2 /\ [Next]_vars => Inv2'
  <1> SUFFICES ASSUME Inv2, [Next]_vars PROVE Inv2'
    OBVIOUS
  <1>1. Inv1 /\ Inv1' /\ TypeOK /\ TypeOK' /\ VotesWithinBounds /\ PendingWithin
    BY StepInv1 DEF Inv1, Inv2
  <1>2. CASE Calm
    BY <1>1, <1>2 DEF Calm, Inv2, VotesWithinBounds, PendingWithin, Within
  <1>3. ASSUME NEW r \in Replicas, FindPostToVote(r) PROVE Inv2'
    <2>1. /\ job[r].id \in Posts /\ job[r].delta \in Int
          /\ job'[r].val = votes[job[r].id] + job[r].delta
          /\ job'[r].id = job[r].id /\ job'[r].delta = job[r].delta
      BY <1>1, <1>3, DeltasIntegers DEF FindPostToVote, TypeOK
    <2>2. votes[job[r].id] \in Int /\ job'[r].val - job'[r].delta = votes[job[r].id]
      BY <1>1, <2>1 DEF TypeOK
    <2>3. Within(job[r])'
      BY <1>1, <1>3, <2>1, <2>2 DEF Within, VotesWithinBounds, FindPostToVote
    <2>4. \A s \in Replicas \ {r} : job'[s] = job[s]
      BY <1>1, <1>3 DEF FindPostToVote, TypeOK
    <2>5. UNCHANGED <<votes, ups, downs, late>>
      BY <1>3 DEF FindPostToVote
    <2> QED
      BY <1>1, <2>3, <2>4, <2>5 DEF Inv2, VotesWithinBounds, PendingWithin, Within
  <1>4. ASSUME NEW r \in Replicas, job[r].step = "write", SetVotes(job[r]),
               UNCHANGED late, job'[r].step # "write",
               \A s \in Replicas \ {r} : job'[s] = job[s]
        PROVE  Inv2'
    <2>1. /\ VotesWithinBounds'
          /\ \A p \in Posts : ups'[p] >= ups[p] /\ downs'[p] >= downs[p]
      BY <1>1, <1>4, PendingTyped, SetVotesWithin DEF PendingWithin
    <2> QED
      BY <1>1, <1>4, <2>1, PendingTyped, WithinGrows DEF Inv2, PendingWithin, Within
  <1>5. ASSUME NEW r \in Replicas, UpdateVotes(r) PROVE Inv2'
    BY <1>1, <1>4, <1>5 DEF UpdateVotes, Continue, TypeOK, Jobs
  <1>6. ASSUME NEW r \in Replicas, WriteUnacknowledged(r), job[r].op = "vote"
        PROVE  Inv2'
    <2>1. job[r].step = "write"
      BY <1>1, <1>6 DEF WriteUnacknowledged, AtWrite, Inv1, Shape
    <2> QED
      BY <1>1, <1>4, <1>6, <2>1 DEF WriteUnacknowledged, Abort, Continue, TypeOK, Jobs
  <1>7. ASSUME NEW r \in Replicas, WriteLeftBehind(r) PROVE Inv2'
    <2>1. /\ UNCHANGED <<votes, ups, downs>>
          /\ \A s \in Replicas : job'[s].step = "write" => job'[s] = job[s]
      BY <1>1, <1>7 DEF WriteLeftBehind, Abort, Continue, TypeOK, Jobs
    <2>2. late'[r].op = "vote" => Within(late[r])'
      BY <1>1, <1>7 DEF WriteLeftBehind, AtWrite, Inv1, Shape, Within, PendingWithin, TypeOK
    <2>3. \A s \in Replicas \ {r} : late'[s] = late[s]
      BY <1>1, <1>7 DEF WriteLeftBehind, TypeOK
    <2> QED
      BY <1>1, <2>1, <2>2, <2>3 DEF Inv2, VotesWithinBounds, PendingWithin, Within
  <1>8. ASSUME NEW r \in Replicas, ExecuteLate(r), late[r].op = "vote" PROVE Inv2'
    <2>1. /\ SetVotes(late[r]) /\ job' = job /\ late'[r].op # "vote"
          /\ \A s \in Replicas \ {r} : late'[s] = late[s]
      BY <1>1, <1>8 DEF ExecuteLate, NoWrite, TypeOK
    <2>2. /\ VotesWithinBounds'
          /\ \A p \in Posts : ups'[p] >= ups[p] /\ downs'[p] >= downs[p]
      BY <1>1, <1>8, <2>1, PendingTyped, SetVotesWithin DEF PendingWithin
    <2> QED
      BY <1>1, <2>1, <2>2, PendingTyped, WithinGrows DEF Inv2, PendingWithin, Within
  <1> QED
    BY <1>1, <1>2, <1>3, <1>5, <1>6, <1>7, <1>8, ScoringOrCalm DEF Scoring

\* vote() counts no vote twice: for any replicas, crashes, broken connections
\* and late writes a score stays between all its downvotes and all its upvotes.
THEOREM NoVoteCountedTwice == Spec => []VotesWithinBounds
  <1>1. Inv2 => VotesWithinBounds
    BY DEF Inv2
  <1> QED
    BY InitInv2, StepInv2, <1>1, PTL DEF Spec

-----------------------------------------------------------------------------
(* Votes are lost to races only.  On a post without a race at most one     *)
(* write is pending, and it is the score of the moment plus its own vote.  *)

JobWrites(r, p) == job[r].step = "write" /\ job[r].id = p
LateWrites(r, p) == late[r].op = "vote" /\ late[r].id = p

Fresh ==
    \A p \in Posts \ raced : \A r \in Replicas :
        /\ JobWrites(r, p) => job[r].val = votes[p] + job[r].delta
        /\ LateWrites(r, p) => late[r].val = votes[p] + late[r].delta

Alone ==
    \A p \in Posts \ raced : \A r, s \in Replicas :
        /\ JobWrites(r, p) /\ JobWrites(s, p) => r = s
        /\ LateWrites(r, p) /\ LateWrites(s, p) => r = s
        /\ ~(JobWrites(r, p) /\ LateWrites(s, p))

Inv3 == Inv1 /\ LostOnlyToRaces /\ Fresh /\ Alone

LEMMA InitInv3 == Init => Inv3
  <1>1. Init => LostOnlyToRaces /\ Fresh /\ Alone
    BY DEF Init, LostOnlyToRaces, Fresh, Alone, JobWrites, LateWrites, Idle, NoWrite
  <1> QED
    BY <1>1, InitInv1 DEF Inv3

\* Executing the write of the moment keeps the tally, and touches no other post.
LEMMA SetVotesExact ==
  ASSUME TypeOK, NEW w, w.id \in Posts, w.val \in Int, w.delta \in Int, SetVotes(w),
         LostOnlyToRaces, UNCHANGED raced,
         w.id \notin raced => w.val = votes[w.id] + w.delta
  PROVE  LostOnlyToRaces' /\ \A p \in Posts \ {w.id} : votes'[p] = votes[p]
  <1>1. /\ votes'[w.id] = w.val
        /\ ups'[w.id] = ups[w.id] + (IF w.delta > 0 THEN w.delta ELSE 0)
        /\ downs'[w.id] = downs[w.id] - (IF w.delta < 0 THEN w.delta ELSE 0)
    BY DEF TypeOK, SetVotes
  <1>2. \A p \in Posts \ {w.id} :
            votes'[p] = votes[p] /\ ups'[p] = ups[p] /\ downs'[p] = downs[p]
    BY DEF TypeOK, SetVotes
  <1>3. w.id \notin raced => votes'[w.id] = ups'[w.id] - downs'[w.id]
    BY <1>1 DEF LostOnlyToRaces, TypeOK
  <1> QED
    BY <1>2, <1>3 DEF LostOnlyToRaces

LEMMA StepInv3 == Inv3 /\ [Next]_vars => Inv3'
  <1> SUFFICES ASSUME Inv3, [Next]_vars PROVE Inv3'
    OBVIOUS
  <1>1. Inv1 /\ Inv1' /\ TypeOK /\ TypeOK' /\ LostOnlyToRaces /\ Fresh /\ Alone
    BY StepInv1 DEF Inv1, Inv3
  <1> USE DEF JobWrites, LateWrites
  <1>2. CASE Calm
    BY <1>1, <1>2 DEF Calm, Inv3, LostOnlyToRaces, Fresh, Alone
  <1>3. ASSUME NEW r \in Replicas, FindPostToVote(r) PROVE Inv3'
    <2>1. /\ job'[r].val = votes[job[r].id] + job[r].delta
          /\ job'[r].id = job[r].id /\ job'[r].delta = job[r].delta
          /\ \A s \in Replicas \ {r} : job'[s] = job[s]
          /\ UNCHANGED <<votes, ups, downs, late>>
          /\ raced \subseteq raced'
          /\ ~Overlaps(r) \/ job[r].id \in raced'
      BY <1>1, <1>3 DEF FindPostToVote, TypeOK
    <2>2. LostOnlyToRaces' /\ Fresh'
      BY <1>1, <2>1 DEF LostOnlyToRaces, Fresh
    <2>3. Alone'
      BY <1>1, <2>1 DEF Alone, Overlaps
    <2> QED
      BY <1>1, <2>2, <2>3 DEF Inv3
  <1>4. ASSUME NEW r \in Replicas, job[r].step = "write", SetVotes(job[r]),
               UNCHANGED <<late, raced>>, job'[r].step # "write",
               \A s \in Replicas \ {r} : job'[s] = job[s]
        PROVE  Inv3'
    <2>1. job[r].id \notin raced => job[r].val = votes[job[r].id] + job[r].delta
      BY <1>1, <1>4, PendingTyped DEF Fresh
    <2>2. LostOnlyToRaces' /\ \A p \in Posts \ {job[r].id} : votes'[p] = votes[p]
      BY <1>1, <1>4, <2>1, PendingTyped, SetVotesExact
    <2>3. Alone'
      BY <1>1, <1>4 DEF Alone
    <2>4. Fresh'
      BY <1>1, <1>4, <2>2 DEF Fresh, Alone
    <2> QED
      BY <1>1, <2>2, <2>3, <2>4 DEF Inv3
  <1>5. ASSUME NEW r \in Replicas, UpdateVotes(r) PROVE Inv3'
    BY <1>1, <1>4, <1>5 DEF UpdateVotes, Continue, TypeOK, Jobs
  <1>6. ASSUME NEW r \in Replicas, WriteUnacknowledged(r), job[r].op = "vote"
        PROVE  Inv3'
    <2>1. job[r].step = "write"
      BY <1>1, <1>6 DEF WriteUnacknowledged, AtWrite, Inv1, Shape
    <2> QED
      BY <1>1, <1>4, <1>6, <2>1 DEF WriteUnacknowledged, Abort, Continue, TypeOK, Jobs
  <1>7. ASSUME NEW r \in Replicas, WriteLeftBehind(r) PROVE Inv3'
    <2>1. /\ UNCHANGED <<votes, ups, downs, raced>>
          /\ \A s \in Replicas : job'[s].step = "write" => job'[s] = job[s] /\ s # r
          /\ \A s \in Replicas \ {r} : late'[s] = late[s]
      BY <1>1, <1>7 DEF WriteLeftBehind, Abort, Continue, TypeOK, Jobs
    <2>2. late'[r].op = "vote" =>
            /\ job[r].step = "write" /\ late'[r].id = job[r].id
            /\ late'[r].val = job[r].val /\ late'[r].delta = job[r].delta
      BY <1>1, <1>7 DEF WriteLeftBehind, AtWrite, Inv1, Shape, TypeOK
    <2>3. LostOnlyToRaces' /\ Fresh'
      BY <1>1, <2>1, <2>2 DEF LostOnlyToRaces, Fresh
    <2>4. Alone'
      BY <1>1, <2>1, <2>2 DEF Alone
    <2> QED
      BY <1>1, <2>3, <2>4 DEF Inv3
  <1>8. ASSUME NEW r \in Replicas, ExecuteLate(r), late[r].op = "vote" PROVE Inv3'
    <2>1. /\ SetVotes(late[r]) /\ job' = job /\ raced' = raced /\ late'[r].op # "vote"
          /\ \A s \in Replicas \ {r} : late'[s] = late[s]
      BY <1>1, <1>8 DEF ExecuteLate, NoWrite, TypeOK
    <2>2. late[r].id \notin raced => late[r].val = votes[late[r].id] + late[r].delta
      BY <1>1, <1>8, PendingTyped DEF Fresh
    <2>3. LostOnlyToRaces' /\ \A p \in Posts \ {late[r].id} : votes'[p] = votes[p]
      BY <1>1, <1>8, <2>1, <2>2, PendingTyped, SetVotesExact
    <2>4. Alone'
      BY <1>1, <2>1 DEF Alone
    <2>5. Fresh'
      BY <1>1, <1>8, <2>1, <2>3 DEF Fresh, Alone
    <2> QED
      BY <1>1, <2>3, <2>4, <2>5 DEF Inv3
  <1> QED
    BY <1>1, <1>2, <1>3, <1>5, <1>6, <1>7, <1>8, ScoringOrCalm DEF Scoring

\* vote() loses a vote only when another vote on the same post overlaps it:
\* replicas, crashes and broken connections alone never make a score wrong.
THEOREM OnlyRacesLoseVotes == Spec => []LostOnlyToRaces
  <1>1. Inv3 => LostOnlyToRaces
    BY DEF Inv3
  <1> QED
    BY InitInv3, StepInv3, <1>1, PTL DEF Spec

-----------------------------------------------------------------------------
(* One replica and no late writes: nothing can race, so no vote is lost.   *)

OneAtATime == raced = {} /\ \A r \in Replicas : late[r].op # "vote"

LEMMA NoRace ==
  ASSUME \A r, s \in Replicas : r = s, "late" \notin Faults,
         Inv1, OneAtATime, [Next]_vars
  PROVE  OneAtATime'
  <1> USE DEF OneAtATime
  <1>1. CASE Calm
    BY <1>1 DEF Calm
  <1>2. ASSUME NEW r \in Replicas, FindPostToVote(r) PROVE OneAtATime'
    BY <1>2 DEF FindPostToVote, Overlaps
  <1>3. ASSUME NEW r \in Replicas, UpdateVotes(r) PROVE OneAtATime'
    BY <1>3 DEF UpdateVotes
  <1>4. ASSUME NEW r \in Replicas, WriteUnacknowledged(r) PROVE OneAtATime'
    BY <1>4 DEF WriteUnacknowledged
  <1>5. ASSUME NEW r \in Replicas, WriteLeftBehind(r) PROVE FALSE
    BY <1>5 DEF WriteLeftBehind
  <1> QED
    BY <1>1, <1>2, <1>3, <1>4, <1>5, ScoringOrCalm DEF Scoring

\* A single replica, as in .env.dev, is exact while no late write is executed:
\* every vote MongoDB was told to add is in the score.
THEOREM SingleReplicaExact ==
  ASSUME \A r, s \in Replicas : r = s, "late" \notin Faults
  PROVE  Spec => []NoLostVote
  <1>1. Init => OneAtATime
    BY DEF Init, OneAtATime, NoWrite
  <1>2. Inv1 /\ OneAtATime /\ [Next]_vars => OneAtATime'
    BY NoRace
  <1>3. Inv3 /\ OneAtATime => NoLostVote
    BY DEF Inv3, OneAtATime, LostOnlyToRaces, NoLostVote
  <1> QED
    BY InitInv1, StepInv1, InitInv3, StepInv3, <1>1, <1>2, <1>3, PTL DEF Spec

-----------------------------------------------------------------------------
(* The success events.  Only the listing logs one before it has run its    *)
(* query, and the request keeps it until the answer.                       *)

Early(r) == outcome[r].logged = "info" /\ ~outcome[r].done

LogOK(r) ==
    /\ job[r].step \in {"open", "dump"} => job[r].op = "list"
    /\ job[r].step = "load" => job[r].op = "show"
    /\ Early(r) =>
        \/ job[r].op = "list" /\ job[r].step = "dump"
        \/ /\ job[r].op = "list" /\ outcome[r].status = 500
           /\ job[r].step \in {"span", "answer"}
        \/ /\ job[r].op = "show" /\ job[r].id \in UnknownIds
           /\ job[r].step \in {"span", "answer"}

LogInv == \A r \in Replicas : LogOK(r)

\* One replica's request moves on.
LEMMA LogMoves ==
  ASSUME LogInv, NEW r \in Replicas, LogOK(r)',
         \A s \in Replicas \ {r} : job'[s] = job[s] /\ outcome'[s] = outcome[s]
  PROVE  LogInv'
  BY DEF LogInv, LogOK, Early

\* A request that logs truthfully, or logs an error, has nothing to hide.
LEMMA NotedLog ==
  ASSUME Inv1, LogInv, NEW r \in Replicas, NEW step, step \notin {"open", "dump", "load"},
         NEW done \in BOOLEAN, NEW logged, NEW status, done \/ logged # "info",
         Continue(r, step), Note(r, done, logged, status)
  PROVE  LogInv'
  <1>1. /\ job'[r] = [job[r] EXCEPT !.step = step]
        /\ outcome'[r] = [done |-> done, logged |-> logged, status |-> status]
        /\ \A s \in Replicas \ {r} : job'[s] = job[s] /\ outcome'[s] = outcome[s]
    BY DEF Continue, Note, Inv1, TypeOK
  <1>2. job'[r].step = step
    BY <1>1 DEF Inv1, TypeOK, Jobs
  <1>3. ~Early(r)'
    <2>1. CASE done
      BY <1>1, <2>1 DEF Early
    <2>2. CASE logged # "info"
      BY <1>1, <2>2 DEF Early
    <2> QED
      BY <2>1, <2>2
  <1>4. LogOK(r)'
    BY <1>2, <1>3 DEF LogOK
  <1> QED
    BY <1>1, <1>4, LogMoves

LEMMA AbortedLog ==
  ASSUME Inv1, LogInv, NEW r \in Replicas, NEW executed \in BOOLEAN, Abort(r, executed)
  PROVE  LogInv'
  <1>1. LastStep(job[r].op) \notin {"open", "dump", "load"}
    OBVIOUS
  <1> QED
    BY <1>1, NotedLog DEF Abort

LEMMA StepLog == Inv1 /\ LogInv /\ [Next]_vars => LogInv'
  <1> SUFFICES ASSUME Inv1, LogInv, [Next]_vars PROVE LogInv'
    OBVIOUS
  <1>1. ASSUME NEW r \in Replicas, Receive(r) PROVE LogInv'
    <2>1. PICK q \in Requests :
            /\ q.op \in Ops
            /\ job' = [job EXCEPT ![r] = [step |-> FirstStep(q.op), op |-> q.op,
                         id |-> q.id, delta |-> q.delta, val |-> 0]]
      BY <1>1 DEF Receive
    <2>2. q.op \in {"vote", "show", "add", "list"}
      BY DEF Requests
    <2>3. /\ FirstStep(q.op) \in {"open", "dump"} => q.op = "list"
          /\ FirstStep(q.op) = "load" => q.op = "show"
      BY <2>2 DEF FirstStep
    <2>4. outcome' = outcome /\ ~Early(r)
      BY <1>1 DEF Receive, LogInv, LogOK
    <2>5. /\ job'[r].step = FirstStep(q.op) /\ job'[r].op = q.op
          /\ \A s \in Replicas \ {r} : job'[s] = job[s]
      BY <2>1 DEF Inv1, TypeOK
    <2>6. LogOK(r)'
      BY <2>3, <2>4, <2>5 DEF LogOK, Early
    <2> QED
      BY <2>4, <2>5, <2>6, LogMoves
  <1>2. ASSUME NEW r \in Replicas, FindPostToVote(r) PROVE LogInv'
    <2>1. outcome' = outcome /\ ~Early(r)
      BY <1>2 DEF FindPostToVote, LogInv, LogOK
    <2>2. job'[r].step = "write" /\ \A s \in Replicas \ {r} : job'[s] = job[s]
      BY <1>2 DEF FindPostToVote, Inv1, TypeOK
    <2>3. LogOK(r)'
      BY <2>1, <2>2 DEF LogOK, Early
    <2> QED
      BY <2>1, <2>2, <2>3, LogMoves
  <1>3. ASSUME NEW r \in Replicas, CannotVote(r) PROVE LogInv'
    BY <1>3, AbortedLog DEF CannotVote
  <1>4. ASSUME NEW r \in Replicas, UpdateVotes(r) PROVE LogInv'
    BY <1>4, NotedLog DEF UpdateVotes
  <1>5. ASSUME NEW r \in Replicas, InsertPost(r) PROVE LogInv'
    BY <1>5, NotedLog DEF InsertPost
  <1>6. ASSUME NEW r \in Replicas, CountPost(r) PROVE LogInv'
    <2>1. outcome' = outcome /\ ~Early(r)
      BY <1>6 DEF CountPost, LogInv, LogOK
    <2>2. job'[r].step = "answer" /\ \A s \in Replicas \ {r} : job'[s] = job[s]
      BY <1>6 DEF CountPost, Continue, Inv1, TypeOK, Jobs
    <2>3. LogOK(r)'
      BY <2>1, <2>2 DEF LogOK, Early
    <2> QED
      BY <2>1, <2>2, <2>3, LogMoves
  <1>7. ASSUME NEW r \in Replicas, BrokenWrite(r) PROVE LogInv'
    BY <1>7, AbortedLog DEF BrokenWrite, WriteNotExecuted, WriteUnacknowledged, WriteLeftBehind
  <1>8. ASSUME NEW r \in Replicas, ExecuteLate(r) \/ ForgetLate(r) PROVE LogInv'
    BY <1>8 DEF ExecuteLate, ForgetLate, LogInv, LogOK, Early
  <1>9. ASSUME NEW r \in Replicas, OpenCursor(r) PROVE LogInv'
    <2>1. job[r].op = "list"
      BY <1>9 DEF OpenCursor, LogInv, LogOK
    <2>2. /\ job'[r].step = "dump" /\ job'[r].op = "list"
          /\ \A s \in Replicas \ {r} : job'[s] = job[s] /\ outcome'[s] = outcome[s]
      BY <1>9, <2>1 DEF OpenCursor, Continue, Note, Inv1, TypeOK, Jobs
    <2>3. LogOK(r)'
      BY <2>2 DEF LogOK
    <2> QED
      BY <2>2, <2>3, LogMoves
  <1>10. ASSUME NEW r \in Replicas, DumpPosts(r) PROVE LogInv'
    <2>1. CASE Note(r, TRUE, "info", 200)
      BY <1>10, <2>1, NotedLog DEF DumpPosts
    <2>2. CASE Note(r, FALSE, "info", 500)
      <3>1. job[r].op = "list"
        BY <1>10 DEF DumpPosts, LogInv, LogOK
      <3>2. /\ job'[r].step = "span" /\ job'[r].op = "list" /\ outcome'[r].status = 500
            /\ \A s \in Replicas \ {r} : job'[s] = job[s] /\ outcome'[s] = outcome[s]
        BY <1>10, <2>2, <3>1 DEF DumpPosts, Continue, Note, Inv1, TypeOK, Jobs
      <3>3. LogOK(r)'
        BY <3>2 DEF LogOK
      <3> QED
        BY <3>2, <3>3, LogMoves
    <2> QED
      BY <1>10, <2>1, <2>2 DEF DumpPosts
  <1>11. ASSUME NEW r \in Replicas, FindPost(r) PROVE LogInv'
    <2>1. CASE Continue(r, "span") /\ Note(r, TRUE, "info", 200)
      BY <2>1, NotedLog
    <2>2. CASE /\ Continue(r, "span") /\ Note(r, FALSE, "info", 200)
               /\ job[r].id \in UnknownIds
      <3>1. job[r].op = "show"
        BY <1>11 DEF FindPost, LogInv, LogOK
      <3>2. /\ job'[r].step = "span" /\ job'[r].op = "show" /\ job'[r].id \in UnknownIds
            /\ \A s \in Replicas \ {r} : job'[s] = job[s] /\ outcome'[s] = outcome[s]
        BY <2>2, <3>1 DEF Continue, Note, Inv1, TypeOK, Jobs
      <3>3. LogOK(r)'
        BY <3>2 DEF LogOK
      <3> QED
        BY <3>2, <3>3, LogMoves
    <2>3. CASE Abort(r, FALSE)
      BY <2>3, AbortedLog
    <2> QED
      BY <1>11, <2>1, <2>2, <2>3 DEF FindPost
  <1>12. ASSUME NEW r \in Replicas, EndSpan(r) PROVE LogInv'
    <2>1. /\ job'[r].step = "answer" /\ job'[r].op = job[r].op /\ job'[r].id = job[r].id
          /\ \A s \in Replicas \ {r} : job'[s] = job[s] /\ outcome'[s] = outcome[s]
      BY <1>12 DEF EndSpan, Continue, Inv1, TypeOK, Jobs
    <2>2. /\ outcome'[r].logged = outcome[r].logged /\ outcome'[r].done = outcome[r].done
          /\ outcome[r].status = 500 => outcome'[r].status = 500
      BY <1>12 DEF EndSpan, Inv1, TypeOK, Outcomes
    <2>3. LogOK(r)'
      BY <1>12, <2>1, <2>2 DEF EndSpan, LogInv, LogOK, Early
    <2> QED
      BY <2>1, <2>3, LogMoves
  <1>13. ASSUME NEW r \in Replicas, Answer(r) \/ Crash(r) PROVE LogInv'
    <2>1. job'[r].step \in {"idle", "down"} /\ outcome'[r] = Pending
      BY <1>13 DEF Answer, Crash, Idle, Down, Inv1, TypeOK
    <2>2. \A s \in Replicas \ {r} : job'[s] = job[s] /\ outcome'[s] = outcome[s]
      BY <1>13 DEF Answer, Crash, Inv1, TypeOK
    <2>3. LogOK(r)'
      BY <2>1 DEF LogOK, Early, Pending
    <2> QED
      BY <2>2, <2>3, LogMoves
  <1>14. ASSUME NEW r \in Replicas, Restart(r) PROVE LogInv'
    <2>1. outcome' = outcome /\ ~Early(r)
      BY <1>14 DEF Restart, LogInv, LogOK
    <2>2. job'[r].step = "idle" /\ \A s \in Replicas \ {r} : job'[s] = job[s]
      BY <1>14 DEF Restart, Idle, Inv1, TypeOK
    <2>3. LogOK(r)'
      BY <2>1, <2>2 DEF LogOK, Early
    <2> QED
      BY <2>1, <2>2, <2>3, LogMoves
  <1>15. CASE Waiting \/ MongoChanges \/ ZipkinChanges \/ UNCHANGED vars
    BY <1>15 DEF Waiting, Hang, Return, MongoChanges, ZipkinChanges, vars, LogInv, LogOK, Early
  <1> QED
    BY <1>1, <1>2, <1>3, <1>4, <1>5, <1>6, <1>7, <1>8, <1>9, <1>10, <1>11,
       <1>12, <1>13, <1>14, <1>15 DEF Next, Waiting, Serve, Vote, AddPost, Read

\* A success is logged of what MongoDB has executed; the listing, which logs
\* before the query, makes up for it or answers 500 (post_app.py:68-77), and
\* only find_post logs that it found what does not exist (post_app.py:167).
THEOREM SuccessIsLoggedTruly == Spec => []LoggedSuccessIsTrue
  <1>1. Init => LogInv
    BY DEF Init, LogInv, LogOK, Early, Idle, Pending
  <1>2. LogInv => LoggedSuccessIsTrue
    BY DEF LogInv, LogOK, Early, LoggedSuccessIsTrue
  <1> QED
    BY InitInv1, StepInv1, StepLog, <1>1, <1>2, PTL DEF Spec

-----------------------------------------------------------------------------
(* One replica and no late writes implement VoteBoard.  A request is       *)
(* settled by the step in which MongoDB executes its write or its failure  *)
(* is noted, a read by the end of its span.                                *)

\* What the steps that settle a request presuppose.
StepsFit ==
    \A r \in Replicas :
        /\ job[r].step \in {"open", "dump"} => job[r].op = "list"
        /\ job[r].step = "load" => job[r].op = "show"
        /\ job[r].step = "span" => job[r].op \in {"list", "show"}
        /\ job[r].step = "insert" => job[r].id \notin stored
        /\ job[r].step = "count" => outcome[r].status = 200
        /\ late[r] = NoWrite

ReqOf(r) == [op |-> job[r].op, id |-> job[r].id, delta |-> job[r].delta]

InProgress == {"find", "write", "insert", "open", "dump", "load", "span"}

\* The call each replica works on, in a state and in the next.
LEMMA CallFacts ==
  ASSUME NEW r \in Replicas
  PROVE  /\ job[r].step \in {"idle", "down"} => CallOf(r) = Board!NoCall
         /\ job[r].step \in InProgress =>
                CallOf(r) = [phase |-> "called", req |-> ReqOf(r)]
         /\ job[r].step = "count" => CallOf(r) = [phase |-> "ok", req |-> ReqOf(r)]
         /\ job[r].step = "answer" /\ outcome[r].status = 200 =>
                CallOf(r) = [phase |-> "ok", req |-> ReqOf(r)]
         /\ job[r].step = "answer" /\ outcome[r].status # 200 =>
                CallOf(r) = [phase |-> "error", req |-> ReqOf(r)]
  BY DEF CallOf, Phase, ReqOf, InProgress, Board!NoCall

LEMMA NextCallFacts ==
  ASSUME NEW r \in Replicas
  PROVE  /\ job'[r].step \in {"idle", "down"} => CallOf(r)' = Board!NoCall
         /\ job'[r].step \in InProgress =>
                CallOf(r)' = [phase |-> "called", req |-> ReqOf(r)']
         /\ job'[r].step = "count" => CallOf(r)' = [phase |-> "ok", req |-> ReqOf(r)']
         /\ job'[r].step = "answer" /\ outcome'[r].status = 200 =>
                CallOf(r)' = [phase |-> "ok", req |-> ReqOf(r)']
         /\ job'[r].step = "answer" /\ outcome'[r].status # 200 =>
                CallOf(r)' = [phase |-> "error", req |-> ReqOf(r)']
  BY DEF CallOf, Phase, ReqOf, InProgress, Board!NoCall

\* A request in progress is settled.
LEMMA Settled ==
  ASSUME \A r, s \in Replicas : r = s, NEW r \in Replicas, NEW phase,
         CallOf(r) = [phase |-> "called", req |-> ReqOf(r)],
         CallOf(r)' = [phase |-> phase, req |-> ReqOf(r)]
  PROVE  Board!Settle(r, phase)
  BY DEF Board!Settle

\* A step between the call and the answer that settles nothing.
LEMMA Unsettled ==
  ASSUME \A r, s \in Replicas : r = s, NEW r \in Replicas,
         CallOf(r)' = CallOf(r), UNCHANGED <<stored, votes>>
  PROVE  UNCHANGED Board!bvars
  BY DEF Board!bvars

\* A job moves on, with its request and without a write left behind.
LEMMA MovedOn ==
  ASSUME Inv1, NEW r \in Replicas, NEW step \in Steps, Continue(r, step)
  PROVE  /\ job'[r].step = step /\ job'[r].op = job[r].op /\ ReqOf(r)' = ReqOf(r)
         /\ job'[r].id = job[r].id
  BY DEF Inv1, TypeOK, Jobs, Continue, ReqOf

LEMMA Noted ==
  ASSUME Inv1, NEW r \in Replicas, NEW done, NEW logged, NEW status,
         Note(r, done, logged, status)
  PROVE  outcome'[r].status = status
  BY DEF Inv1, TypeOK, Note

\* An operation that writes is aborted: its caller gets an error.
LEMMA AbortSettles ==
  ASSUME \A r, s \in Replicas : r = s, Inv1, NEW r \in Replicas, NEW executed \in BOOLEAN,
         job[r].step \in {"find", "write", "insert"}, Abort(r, executed)
  PROVE  /\ Board!Settle(r, "error")
         /\ job'[r].step = "answer"
  <1>1. job[r].op \notin {"list", "show"}
    BY DEF Inv1, Shape
  <1>2. /\ job'[r].step = "answer" /\ ReqOf(r)' = ReqOf(r)
        /\ outcome'[r].status = 500
    BY <1>1, MovedOn, Noted DEF Abort, Steps
  <1>3. CallOf(r) = [phase |-> "called", req |-> ReqOf(r)]
    BY CallFacts DEF InProgress
  <1>4. CallOf(r)' = [phase |-> "error", req |-> ReqOf(r)]
    BY <1>2, NextCallFacts
  <1> QED
    BY <1>2, <1>3, <1>4, Settled

\* The vote MongoDB executes is one on the score of the moment.
LEMMA SetVotesCasts ==
  ASSUME \A r, s \in Replicas : r = s, Inv3, OneAtATime, NEW r \in Replicas,
         job[r].step = "write", SetVotes(job[r]), UNCHANGED stored,
         NEW phase \in {"ok", "error"}, Board!Settle(r, phase)
  PROVE  Board!Cast(r)
  <1> DEFINE call == [s \in Replicas |-> CallOf(s)]
  <1>1. /\ job[r].op = "vote" /\ job[r].id \in stored /\ job[r].delta \in Int
        /\ job[r].id \in Posts
    BY DeltasIntegers DEF Inv3, Inv1, TypeOK, Shape
  <1>2. call[r].req = ReqOf(r)
    BY CallFacts DEF InProgress
  <1>3. /\ call[r].req.op = "vote" /\ call[r].req.id = job[r].id
        /\ call[r].req.delta = job[r].delta
    BY <1>1, <1>2 DEF ReqOf
  <1>4. job[r].val = votes[job[r].id] + job[r].delta
    BY <1>1 DEF Inv3, OneAtATime, Fresh, JobWrites
  <1>5. votes' = [votes EXCEPT ![call[r].req.id] = @ + call[r].req.delta]
    BY <1>3, <1>4 DEF SetVotes
  <1> QED
    BY <1>1, <1>3, <1>5 DEF Board!Cast

LEMMA InsertPublishes ==
  ASSUME \A r, s \in Replicas : r = s, Inv1, StepsFit, NEW r \in Replicas,
         job[r].step = "insert", stored' = stored \cup {job[r].id}, UNCHANGED votes,
         NEW phase \in {"ok", "error"}, Board!Settle(r, phase)
  PROVE  Board!Publish(r)
  <1> DEFINE call == [s \in Replicas |-> CallOf(s)]
  <1>1. job[r].op = "add" /\ job[r].id \notin stored
    BY DEF Inv1, Shape, StepsFit
  <1>2. call[r].req = ReqOf(r)
    BY CallFacts DEF InProgress
  <1>3. call[r].req.op = "add" /\ call[r].req.id = job[r].id
    BY <1>1, <1>2 DEF ReqOf
  <1> QED
    BY <1>1, <1>3 DEF Board!Publish

\* Every step of the service is one of the board, or none.
LEMMA StepBoard ==
  ASSUME \A r, s \in Replicas : r = s, "late" \notin Faults,
         Inv3, OneAtATime, StepsFit, [Next]_vars
  PROVE  StepsFit' /\ [Board!BoardNext]_(Board!bvars)
  <1>1. Inv1 /\ TypeOK /\ Shape /\ job \in [Replicas -> Jobs]
        /\ outcome \in [Replicas -> Outcomes]
    BY DEF Inv3, Inv1, TypeOK
  <1>2. ASSUME NEW r \in Replicas, job'[r].step \in {"idle", "down", "find", "write", "answer"},
               UNCHANGED late
        PROVE  StepsFit'
    BY <1>2 DEF StepsFit
  <1>3. ASSUME NEW r \in Replicas, Receive(r)
        PROVE  StepsFit' /\ Board!BoardNext
    <2>1. PICK q \in Requests :
            /\ q.op \in Ops /\ q.op = "add" => q.id \notin Taken
            /\ job' = [job EXCEPT ![r] = [step |-> FirstStep(q.op), op |-> q.op,
                         id |-> q.id, delta |-> q.delta, val |-> 0]]
      BY <1>3 DEF Receive
    <2>2. /\ q.op \in AllOps /\ q = [op |-> q.op, id |-> q.id, delta |-> q.delta]
      BY DEF Requests, AllOps
    <2>3. /\ FirstStep(q.op) \in InProgress \ {"dump", "write", "span"}
          /\ FirstStep(q.op) = "insert" => q.op = "add"
          /\ FirstStep(q.op) = "open" => q.op = "list"
          /\ FirstStep(q.op) = "load" => q.op = "show"
      BY <2>2 DEF FirstStep, AllOps, InProgress
    <2>4. /\ job'[r].step = FirstStep(q.op) /\ job'[r].op = q.op /\ job'[r].id = q.id
          /\ ReqOf(r)' = q
      BY <1>1, <2>1, <2>2 DEF ReqOf
    <2>5. StepsFit'
      BY <1>3, <2>1, <2>3, <2>4 DEF StepsFit, Receive, Taken, InProgress
    <2>6. CallOf(r) = Board!NoCall /\ CallOf(r)' = [phase |-> "called", req |-> q]
      BY <1>3, <2>3, <2>4, CallFacts, NextCallFacts DEF Receive
    <2>7. Board!Call(r, q)
      BY <1>3, <2>6 DEF Receive, Board!Call, Board!NoCall
    <2> QED
      BY <2>5, <2>7 DEF Board!BoardNext
  <1>4. ASSUME NEW r \in Replicas, FindPostToVote(r)
        PROVE  StepsFit' /\ UNCHANGED Board!bvars
    <2>1. /\ job[r].step = "find" /\ job[r].op = "vote" /\ job'[r].step = "write"
          /\ ReqOf(r)' = ReqOf(r)
      BY <1>1, <1>4 DEF FindPostToVote, Shape, ReqOf
    <2>2. CallOf(r)' = CallOf(r)
      BY <2>1, CallFacts, NextCallFacts DEF InProgress
    <2> QED
      BY <1>2, <1>4, <2>1, <2>2, Unsettled DEF FindPostToVote
  <1>5. ASSUME NEW r \in Replicas, CannotVote(r) \/ WriteNotExecuted(r)
        PROVE  StepsFit' /\ Board!BoardNext
    <2>1. /\ job[r].step \in {"find", "write", "insert"} /\ Abort(r, FALSE)
          /\ UNCHANGED <<stored, votes, late>>
      BY <1>5 DEF CannotVote, WriteNotExecuted, AtWrite
    <2>2. Board!Settle(r, "error") /\ job'[r].step = "answer"
      BY <1>1, <2>1, AbortSettles
    <2> QED
      BY <1>2, <2>1, <2>2 DEF Board!BoardNext, Board!Refuse
  <1>6. ASSUME NEW r \in Replicas, UpdateVotes(r)
        PROVE  StepsFit' /\ Board!BoardNext
    <2>1. /\ job[r].step = "write" /\ job'[r].step = "answer" /\ ReqOf(r)' = ReqOf(r)
          /\ outcome'[r].status = 200
      BY <1>1, <1>6, MovedOn, Noted DEF UpdateVotes, Steps
    <2>2. Board!Settle(r, "ok")
      BY <2>1, CallFacts, NextCallFacts, Settled DEF InProgress
    <2>3. Board!Cast(r)
      BY <1>6, <2>1, <2>2, SetVotesCasts DEF UpdateVotes
    <2> QED
      BY <1>2, <1>6, <2>1, <2>3 DEF UpdateVotes, Board!BoardNext
  <1>7. ASSUME NEW r \in Replicas, InsertPost(r)
        PROVE  StepsFit' /\ Board!BoardNext
    <2>1. /\ job[r].step = "insert" /\ job'[r].step = "count" /\ ReqOf(r)' = ReqOf(r)
          /\ outcome'[r].status = 200
      BY <1>1, <1>7, MovedOn, Noted DEF InsertPost, Steps
    <2>2. StepsFit'
      BY <1>7, <2>1 DEF StepsFit, InsertPost
    <2>3. Board!Settle(r, "ok")
      BY <2>1, CallFacts, NextCallFacts, Settled DEF InProgress
    <2>4. Board!Publish(r)
      BY <1>1, <1>7, <2>1, <2>3, InsertPublishes DEF InsertPost
    <2> QED
      BY <2>2, <2>4 DEF Board!BoardNext
  <1>8. ASSUME NEW r \in Replicas, CountPost(r)
        PROVE  StepsFit' /\ UNCHANGED Board!bvars
    <2>1. /\ job[r].step = "count" /\ job'[r].step = "answer" /\ ReqOf(r)' = ReqOf(r)
          /\ outcome[r].status = 200 /\ outcome' = outcome
      BY <1>1, <1>8, MovedOn DEF CountPost, StepsFit, Steps
    <2>2. CallOf(r)' = CallOf(r)
      BY <2>1, CallFacts, NextCallFacts
    <2> QED
      BY <1>2, <1>8, <2>1, <2>2, Unsettled DEF CountPost
  <1>9. ASSUME NEW r \in Replicas, WriteUnacknowledged(r)
        PROVE  StepsFit' /\ Board!BoardNext
    <2>1. /\ job[r].step \in {"write", "insert"} /\ Abort(r, TRUE) /\ UNCHANGED late
      BY <1>9 DEF WriteUnacknowledged, AtWrite
    <2>2. Board!Settle(r, "error") /\ job'[r].step = "answer"
      BY <1>1, <2>1, AbortSettles
    <2>3. CASE job[r].step = "write"
      <3>1. SetVotes(job[r]) /\ UNCHANGED stored
        BY <1>1, <1>9, <2>3 DEF WriteUnacknowledged, Shape
      <3> QED
        BY <1>2, <2>1, <2>2, <2>3, <3>1, SetVotesCasts DEF Board!BoardNext
    <2>4. CASE job[r].step = "insert"
      <3>1. stored' = stored \cup {job[r].id} /\ UNCHANGED votes
        BY <1>1, <1>9, <2>4 DEF WriteUnacknowledged, Shape
      <3> QED
        BY <1>1, <1>2, <2>1, <2>2, <2>4, <3>1, InsertPublishes DEF Board!BoardNext
    <2> QED
      BY <2>1, <2>3, <2>4
  <1>10. ASSUME NEW r \in Replicas, WriteLeftBehind(r) \/ ExecuteLate(r) \/ ForgetLate(r)
         PROVE  FALSE
    BY <1>10 DEF WriteLeftBehind, ExecuteLate, ForgetLate, StepsFit
  <1>11. ASSUME NEW r \in Replicas, OpenCursor(r) \/ DumpPosts(r) \/ FindPost(r)
         PROVE  StepsFit' /\ UNCHANGED Board!bvars
    <2>1. /\ job[r].step \in {"open", "dump", "load"}
          /\ job[r].op \in {"list", "show"}
          /\ job[r].step = "open" => job[r].op = "list"
          /\ UNCHANGED <<stored, votes, late>>
      BY <1>11 DEF OpenCursor, DumpPosts, FindPost, StepsFit
    <2>2. PICK step \in {"dump", "span"} :
            Continue(r, step) /\ (step = "dump" => job[r].step = "open")
      BY <1>11, <2>1 DEF OpenCursor, DumpPosts, FindPost, Abort
    <2>3. /\ job'[r].step = step /\ job'[r].op = job[r].op /\ ReqOf(r)' = ReqOf(r)
      BY <1>1, <2>2, MovedOn DEF Steps
    <2>4. StepsFit'
      BY <2>1, <2>2, <2>3 DEF StepsFit
    <2>5. CallOf(r)' = CallOf(r)
      BY <2>1, <2>3, CallFacts, NextCallFacts DEF InProgress
    <2> QED
      BY <2>1, <2>4, <2>5, Unsettled
  <1>12. ASSUME NEW r \in Replicas, EndSpan(r)
         PROVE  StepsFit' /\ Board!BoardNext
    <2> DEFINE call == [s \in Replicas |-> CallOf(s)]
    <2>1. /\ job[r].step = "span" /\ job'[r].step = "answer" /\ ReqOf(r)' = ReqOf(r)
          /\ job[r].op \in {"list", "show"} /\ UNCHANGED <<stored, votes, late>>
      BY <1>1, <1>12, MovedOn DEF EndSpan, StepsFit, Steps
    <2>2. call[r].req.op \in {"list", "show"}
      BY <2>1, CallFacts DEF ReqOf, InProgress
    <2>3. CASE outcome'[r].status = 200
      <3>1. Board!Settle(r, "ok")
        BY <2>1, <2>3, CallFacts, NextCallFacts, Settled DEF InProgress
      <3>2. Board!Look(r)
        BY <2>1, <2>2, <3>1 DEF Board!Look
      <3> QED
        BY <1>2, <2>1, <3>2 DEF Board!BoardNext
    <2>4. CASE outcome'[r].status # 200
      <3>1. Board!Settle(r, "error")
        BY <2>1, <2>4, CallFacts, NextCallFacts, Settled DEF InProgress
      <3>2. Board!Refuse(r)
        BY <2>1, <3>1 DEF Board!Refuse
      <3> QED
        BY <1>2, <2>1, <3>2 DEF Board!BoardNext
    <2> QED
      BY <2>3, <2>4
  <1>13. ASSUME NEW r \in Replicas, Answer(r) \/ Crash(r) \/ Restart(r)
         PROVE  StepsFit' /\ [Board!BoardNext]_(Board!bvars)
    <2>1. job'[r].step \in {"idle", "down"} /\ UNCHANGED <<stored, votes, late>>
      BY <1>1, <1>13 DEF Answer, Crash, Restart, Idle, Down
    <2>2. CallOf(r)' = Board!NoCall
      BY <2>1, NextCallFacts
    <2>3. CASE CallOf(r) = Board!NoCall
      BY <1>2, <2>1, <2>2, <2>3, Unsettled
    <2>4. CASE CallOf(r) # Board!NoCall
      <3>1. job[r].step \in InProgress \cup {"count", "answer"}
        BY <1>1, <2>4, CallFacts DEF Jobs, Steps, InProgress
      <3>2. CallOf(r).phase # "none"
        BY <3>1, CallFacts
      <3>3. Board!Leave(r)
        BY <2>1, <2>2, <3>2 DEF Board!Leave
      <3> QED
        BY <1>2, <2>1, <3>3 DEF Board!BoardNext
    <2> QED
      BY <2>3, <2>4
  <1>14. CASE Waiting \/ MongoChanges \/ ZipkinChanges \/ UNCHANGED vars
    <2>1. UNCHANGED <<stored, votes, late, job, outcome>>
      BY <1>14 DEF Waiting, Hang, Return, MongoChanges, ZipkinChanges, vars
    <2>2. StepsFit'
      BY <2>1 DEF StepsFit
    <2>3. UNCHANGED Board!bvars
      BY <2>1 DEF Board!bvars, CallOf, Phase
    <2> QED
      BY <2>2, <2>3
  <1> QED
    BY <1>3, <1>4, <1>5, <1>6, <1>7, <1>8, <1>9, <1>10, <1>11, <1>12, <1>13, <1>14
       DEF Next, Waiting, Serve, Vote, AddPost, BrokenWrite, Read

\* A single replica without late writes keeps the promise of VoteBoard: every
\* request takes effect in one step, and is answered according to it.
THEOREM BoardIsImplemented ==
  ASSUME \A r, s \in Replicas : r = s, "late" \notin Faults
  PROVE  Spec => ImplementsBoard
  <1>1. Init => OneAtATime /\ StepsFit
    BY DEF Init, OneAtATime, StepsFit, Idle, NoWrite
  <1>2. Init => Board!BoardInit
    <2> SUFFICES ASSUME Init PROVE Board!BoardInit
      OBVIOUS
    <2>1. \A r \in Replicas : CallOf(r) = Board!NoCall
      BY CallFacts DEF Init, Idle
    <2> QED
      BY <2>1 DEF Init, Board!BoardInit
  <1>3. Inv1 /\ OneAtATime /\ [Next]_vars => OneAtATime'
    BY NoRace
  <1>4. Inv3 /\ OneAtATime /\ StepsFit /\ [Next]_vars =>
            StepsFit' /\ [Board!BoardNext]_(Board!bvars)
    BY StepBoard
  <1> QED
    BY InitInv1, StepInv1, InitInv3, StepInv3, <1>1, <1>2, <1>3, <1>4, PTL
       DEF Spec, ImplementsBoard, Board!BoardSpec

-----------------------------------------------------------------------------
(* Sums over a finite set.                                                 *)

\* A set of natural numbers that is not empty has a least element.
LEMMA Least ==
  ASSUME NEW T, T \subseteq Nat, T # {}
  PROVE  \E m \in T : \A n \in T : m <= n
  <1>1. PICK m \in T : \A n \in T : <<n, m>> \notin OpToRel(<, Nat)
    BY NatLessThanWellFounded, WFMin
  <1>2. ASSUME NEW n \in T PROVE m <= n
    <2>1. ~(n < m)
      BY <1>1 DEF OpToRel
    <2> QED
      BY <2>1
  <1> QED
    BY <1>2

Pick(S) == CHOOSE x \in S : TRUE

\* The subsets of D with at most n elements.
Small(D, n) == {S \in SUBSET D : Cardinality(S) <= n}

\* The sums of f over these subsets.
Sums(f, D, n, g) ==
  g = [S \in Small(D, n) |-> IF S = {} THEN 0 ELSE f[Pick(S)] + g[S \ {Pick(S)}]]

LEMMA PickOne ==
  ASSUME NEW D, IsFiniteSet(D), NEW S \in SUBSET D, S # {}
  PROVE  /\ Pick(S) \in S /\ IsFiniteSet(S) /\ S \ {Pick(S)} \in SUBSET D
         /\ Cardinality(S) \in Nat \ {0} /\ Cardinality(S \ {Pick(S)}) = Cardinality(S) - 1
  <1>1. Pick(S) \in S
    BY DEF Pick
  <1>2. IsFiniteSet(S) /\ Cardinality(S) \in Nat
    BY FS_Subset, FS_CardinalityType
  <1>3. Cardinality(S) # 0
    BY <1>2, FS_EmptySet
  <1>4. Cardinality(S \ {Pick(S)}) = Cardinality(S) - 1
    BY <1>1, <1>2, FS_RemoveElement
  <1> QED
    BY <1>1, <1>2, <1>3, <1>4

LEMMA SumsExist ==
  ASSUME NEW f, NEW D, IsFiniteSet(D), NEW n \in Nat
  PROVE  \E g : Sums(f, D, n, g)
  <1> DEFINE T == {m \in Nat : ~\E g : Sums(f, D, m, g)}
  <1> SUFFICES ASSUME T # {} PROVE FALSE
    OBVIOUS
  <1>1. PICK m \in T : \A l \in T : m <= l
    <2>1. T \subseteq Nat
      OBVIOUS
    <2> HIDE DEF T
    <2> QED
      BY <2>1, Least
  <1>2. CASE m = 0
    <2> DEFINE g == [S \in Small(D, 0) |-> 0]
    <2>1. \A S \in Small(D, 0) : S = {}
      <3> SUFFICES ASSUME NEW S \in Small(D, 0), S # {} PROVE FALSE
        OBVIOUS
      <3>1. Cardinality(S) \in Nat \ {0} /\ Cardinality(S) <= 0
        BY PickOne DEF Small
      <3> QED
        BY <3>1
    <2>2. g = [S \in Small(D, 0) |-> IF S = {} THEN 0 ELSE f[Pick(S)] + g[S \ {Pick(S)}]]
      BY <2>1
    <2> HIDE DEF g
    <2> QED
      BY <1>2, <2>2 DEF Sums
  <1>3. CASE m # 0
    <2>1. m - 1 \in Nat /\ m - 1 \notin T
      BY <1>1, <1>3
    <2>2. PICK h : Sums(f, D, m - 1, h)
      BY <2>1
    <2> DEFINE g == [S \in Small(D, m) |->
                      IF S = {} THEN 0 ELSE f[Pick(S)] + h[S \ {Pick(S)}]]
    <2>3. ASSUME NEW S \in Small(D, m), S # {}
          PROVE  g[S \ {Pick(S)}] = h[S \ {Pick(S)}]
      <3> DEFINE R == S \ {Pick(S)}
      <3>1. R \in SUBSET D /\ Cardinality(R) = Cardinality(S) - 1 /\ Cardinality(S) \in Nat
        BY <2>3, PickOne DEF Small
      <3>2. R \in Small(D, m) /\ R \in Small(D, m - 1)
        BY <2>1, <3>1 DEF Small
      <3> HIDE DEF R
      <3>3. h[R] = IF R = {} THEN 0 ELSE f[Pick(R)] + h[R \ {Pick(R)}]
        BY <2>2, <3>2 DEF Sums
      <3>4. g[R] = IF R = {} THEN 0 ELSE f[Pick(R)] + h[R \ {Pick(R)}]
        BY <3>2
      <3> QED
        BY <3>3, <3>4 DEF R
    <2>4. g = [S \in Small(D, m) |-> IF S = {} THEN 0 ELSE f[Pick(S)] + g[S \ {Pick(S)}]]
      <3>1. \A S \in Small(D, m) :
              g[S] = IF S = {} THEN 0 ELSE f[Pick(S)] + g[S \ {Pick(S)}]
        BY <2>3
      <3>2. g = [S \in Small(D, m) |-> g[S]]
        OBVIOUS
      <3> HIDE DEF g
      <3> QED
        BY <3>1, <3>2
    <2> HIDE DEF g
    <2> QED
      BY <2>4 DEF Sums
  <1> QED
    BY <1>2, <1>3

\* Of any subsets of a finite set one has the fewest elements.
LEMMA Smallest ==
  ASSUME NEW D, IsFiniteSet(D), NEW B, B \subseteq SUBSET D, B # {}
  PROVE  \E S \in B : \A R \in B : Cardinality(S) <= Cardinality(R)
  <1> DEFINE T == {Cardinality(S) : S \in B}
  <1>1. T \subseteq Nat /\ T # {}
    <2>1. \A S \in SUBSET D : Cardinality(S) \in Nat
      BY FS_Subset, FS_CardinalityType
    <2> QED
      BY <2>1
  <1> HIDE DEF T
  <1>2. PICK m \in T : \A n \in T : m <= n
    BY <1>1, Least
  <1> QED
    BY <1>2 DEF T

\* SumFunction adds the values one by one.
LEMMA SumOfSums ==
  ASSUME NEW D, IsFiniteSet(D), NEW f, DOMAIN f = D
  PROVE  \E g : Sums(f, D, Cardinality(D), g) /\ SumFunction(f) = g[D]
  <1>1. Cardinality(D) \in Nat
    BY FS_CardinalityType
  <1>2. Small(D, Cardinality(D)) = SUBSET D
    BY FS_Subset DEF Small
  <1>3. SumFunction(f) = (CHOOSE g : g = [S \in SUBSET D |->
                            IF S = {} THEN 0 ELSE f[Pick(S)] + g[S \ {Pick(S)}]])[D]
    BY DEF SumFunction, SumFunctionOnSet, FoldFunctionOnSet, MapThenFoldSet, Pick
  <1>4. SumFunction(f) = (CHOOSE g : Sums(f, D, Cardinality(D), g))[D]
    BY <1>2, <1>3 DEF Sums
  <1> QED
    BY <1>1, <1>4, SumsExist

\* Functions that differ at r only have sums that differ by that much.
LEMMA SumAt ==
  ASSUME NEW D, IsFiniteSet(D), NEW f \in [D -> Nat], NEW h \in [D -> Nat],
         NEW r \in D, \A x \in D \ {r} : h[x] = f[x]
  PROVE  /\ SumFunction(f) \in Nat /\ SumFunction(h) \in Nat
         /\ SumFunction(h) = SumFunction(f) + h[r] - f[r]
  <1>1. PICK a : Sums(f, D, Cardinality(D), a) /\ SumFunction(f) = a[D]
    BY SumOfSums
  <1>2. PICK b : Sums(h, D, Cardinality(D), b) /\ SumFunction(h) = b[D]
    BY SumOfSums
  <1>3. Small(D, Cardinality(D)) = SUBSET D
    BY FS_Subset DEF Small
  <1>4. \A S \in SUBSET D :
          /\ a[S] = IF S = {} THEN 0 ELSE f[Pick(S)] + a[S \ {Pick(S)}]
          /\ b[S] = IF S = {} THEN 0 ELSE h[Pick(S)] + b[S \ {Pick(S)}]
    BY <1>1, <1>2, <1>3 DEF Sums
  <1> DEFINE P(S) == /\ a[S] \in Nat /\ b[S] \in Nat
                     /\ r \notin S => b[S] = a[S]
                     /\ r \in S => b[S] = a[S] + h[r] - f[r]
             Bad == {S \in SUBSET D : ~P(S)}
  <1>5. Bad = {}
    <2> SUFFICES ASSUME Bad # {} PROVE FALSE
      OBVIOUS
    <2>1. PICK S \in Bad : \A R \in Bad : Cardinality(S) <= Cardinality(R)
      <3>1. Bad \subseteq SUBSET D
        OBVIOUS
      <3> HIDE DEF Bad
      <3> QED
        BY <3>1, Smallest
    <2>2. CASE S = {}
      <3>1. a[S] = 0 /\ b[S] = 0
        BY <1>4, <2>2
      <3> QED
        BY <2>2, <3>1
    <2>3. CASE S # {}
      <3> DEFINE x == Pick(S)
                 R == S \ {x}
      <3>1. /\ x \in S /\ R \in SUBSET D /\ Cardinality(S) \in Nat
            /\ Cardinality(R) = Cardinality(S) - 1
        BY <2>3, PickOne
      <3>2. a[S] = f[x] + a[R] /\ b[S] = h[x] + b[R]
        BY <1>4, <2>3
      <3>3. ~(Cardinality(S) <= Cardinality(R))
        BY <3>1
      <3>4. R \in SUBSET D /\ R \notin Bad
        BY <2>1, <3>1, <3>3
      <3>5. P(R)
        BY <3>4
      <3>6. r \in S <=> r = x \/ r \in R
        BY <3>1
      <3>7. r \in R => r # x
        OBVIOUS
      <3>8. /\ x \in D /\ f[x] \in Nat /\ h[x] \in Nat /\ f[r] \in Nat /\ h[r] \in Nat
            /\ x # r => h[x] = f[x]
        BY <3>1
      <3> HIDE DEF x, R
      <3>9. P(S)
        BY <3>2, <3>5, <3>6, <3>7, <3>8
      <3> QED
        BY <3>9
    <2> QED
      BY <2>2, <2>3
  <1>6. P(D)
    BY <1>5
  <1> QED
    BY <1>1, <1>2, <1>6

\* The sum of nothing but zeros.
LEMMA SumZero ==
  ASSUME NEW D, IsFiniteSet(D), NEW f, f = [x \in D |-> 0]
  PROVE  SumFunction(f) = 0
  <1>1. PICK a : Sums(f, D, Cardinality(D), a) /\ SumFunction(f) = a[D]
    BY SumOfSums
  <1>2. Small(D, Cardinality(D)) = SUBSET D
    BY FS_Subset DEF Small
  <1>3. \A S \in SUBSET D : a[S] = IF S = {} THEN 0 ELSE f[Pick(S)] + a[S \ {Pick(S)}]
    BY <1>1, <1>2 DEF Sums
  <1> DEFINE Bad == {S \in SUBSET D : a[S] # 0}
  <1>4. Bad = {}
    <2> SUFFICES ASSUME Bad # {} PROVE FALSE
      OBVIOUS
    <2>1. PICK S \in Bad : \A R \in Bad : Cardinality(S) <= Cardinality(R)
      <3>1. Bad \subseteq SUBSET D
        OBVIOUS
      <3> HIDE DEF Bad
      <3> QED
        BY <3>1, Smallest
    <2>2. S # {}
      BY <1>3
    <2> DEFINE x == Pick(S)
               R == S \ {x}
    <2>3. /\ x \in S /\ R \in SUBSET D /\ Cardinality(S) \in Nat
          /\ Cardinality(R) = Cardinality(S) - 1
      BY <2>2, PickOne
    <2>4. ~(Cardinality(S) <= Cardinality(R))
      BY <2>3
    <2>5. a[R] = 0
      BY <2>1, <2>3, <2>4
    <2>6. a[S] = f[x] + a[R] /\ f[x] = 0
      BY <1>3, <2>2, <2>3
    <2> HIDE DEF x, R
    <2> QED
      BY <2>1, <2>5, <2>6
  <1> QED
    BY <1>1, <1>4

-----------------------------------------------------------------------------
(* post_count never runs ahead of the collection.  A counted insert is a   *)
(* post of its own because the id of an insert is in no stored post, no    *)
(* other insert and no late one.                                           *)

AddFresh ==
    \A r \in Replicas : job[r].step = "insert" =>
        /\ job[r].id \notin stored
        /\ \A s \in Replicas :
            /\ s # r /\ job[s].step = "insert" => job[s].id # job[r].id
            /\ late[s].op = "add" => late[s].id # job[r].id

Counting == {r \in Replicas : job[r].step = "count"}

Inv4 == Inv1 /\ AddFresh /\ PostCountSound

LEMMA InitInv4 == Init => Inv4
  <1> SUFFICES ASSUME Init PROVE AddFresh /\ PostCountSound
    BY InitInv1 DEF Inv4
  <1>1. AddFresh
    BY DEF Init, AddFresh, Idle
  <1>2. SumFunction(post_count) = 0
    BY ReplicasFinite, SumZero DEF Init
  <1>3. Counting = {} /\ stored = {}
    BY DEF Init, Idle, Counting
  <1>4. Cardinality(Counting) = 0 /\ Cardinality(stored) = 0
    BY <1>3, FS_EmptySet
  <1>5. PostCountSound
    BY <1>2, <1>4 DEF PostCountSound, Counted, Counting
  <1> QED
    BY <1>1, <1>5

\* The collection, and the replicas about to count, are finite.
LEMMA CountsTyped ==
  ASSUME TypeOK
  PROVE  /\ IsFiniteSet(stored) /\ Cardinality(stored) \in Nat
         /\ IsFiniteSet(Counting) /\ Cardinality(Counting) \in Nat
  <1>1. stored \in SUBSET Posts /\ Counting \in SUBSET Replicas
    BY DEF TypeOK, Counting
  <1> QED
    BY <1>1, PostsFinite, ReplicasFinite, FS_Subset, FS_CardinalityType

\* Steps after which no more is counted or about to be counted than before.
LEMMA NoMoreCounted ==
  ASSUME TypeOK, TypeOK', PostCountSound, stored \subseteq stored',
         Counting' \subseteq Counting, NEW r \in Replicas,
         \A s \in Replicas \ {r} : post_count'[s] = post_count[s],
         post_count'[r] <= post_count[r]
  PROVE  PostCountSound'
  <1>1. /\ Cardinality(stored) <= Cardinality(stored')
        /\ Cardinality(Counting') <= Cardinality(Counting)
    <2>1. IsFiniteSet(stored') /\ IsFiniteSet(Counting)
      <3>1. stored' \in SUBSET Posts
        BY DEF TypeOK
      <3> QED
        BY <3>1, PostsFinite, FS_Subset, CountsTyped
    <2> QED
      BY <2>1, FS_Subset
  <1>2. /\ SumFunction(post_count) \in Nat /\ SumFunction(post_count') \in Nat
        /\ SumFunction(post_count') = SumFunction(post_count) + post_count'[r] - post_count[r]
    <2>1. post_count \in [Replicas -> Nat] /\ post_count' \in [Replicas -> Nat]
      BY DEF TypeOK
    <2> QED
      BY <2>1, ReplicasFinite, SumAt
  <1>3. post_count[r] \in Nat /\ post_count'[r] \in Nat
    BY DEF TypeOK
  <1>4. /\ Cardinality(stored) \in Nat /\ Cardinality(Counting) \in Nat
        /\ Cardinality(stored)' \in Nat /\ Cardinality(Counting)' \in Nat
    <2>1. stored' \in SUBSET Posts /\ Counting' \in SUBSET Replicas
      BY DEF TypeOK, Counting
    <2>2. Cardinality(stored') \in Nat /\ Cardinality(Counting') \in Nat
      BY <2>1, PostsFinite, ReplicasFinite, FS_Subset, FS_CardinalityType
    <2> QED
      BY <2>2, CountsTyped
  <1>5. SumFunction(post_count) + Cardinality(Counting) <= Cardinality(stored)
    BY DEF PostCountSound, Counted, Counting
  <1>6. SumFunction(post_count') + Cardinality(Counting') <= Cardinality(stored')
    BY <1>1, <1>2, <1>3, <1>4, <1>5
  <1> QED
    BY <1>6 DEF PostCountSound, Counted, Counting

\* Steps that begin no insert, leave none behind and store nothing.
LEMMA StaysFresh ==
  ASSUME AddFresh, UNCHANGED stored,
         \A r \in Replicas : /\ job'[r].step = "insert" => job'[r] = job[r]
                             /\ late'[r].op = "add" => late'[r] = late[r]
  PROVE  AddFresh'
  BY DEF AddFresh

\* A replica moves on, to no insert and to no counting.
LEMMA ContinueQuiet ==
  ASSUME Inv1, NEW r \in Replicas, NEW step \in Steps \ {"insert", "count"},
         Continue(r, step)
  PROVE  /\ Counting' \subseteq Counting
         /\ \A s \in Replicas : job'[s].step = "insert" => job'[s] = job[s]
         /\ job'[r].step # "insert"
  BY DEF Inv1, TypeOK, Jobs, Continue, Counting

LEMMA AbortQuiet ==
  ASSUME Inv1, NEW r \in Replicas, NEW executed \in BOOLEAN, Abort(r, executed)
  PROVE  /\ Counting' \subseteq Counting
         /\ \A s \in Replicas : job'[s].step = "insert" => job'[s] = job[s]
         /\ job'[r].step # "insert"
  BY ContinueQuiet DEF Abort, Steps

\* A step of a replica that counts nothing and adds nothing.
LEMMA Quiet ==
  ASSUME Inv4, Inv1', NEW r \in Replicas, UNCHANGED <<stored, post_count>>,
         Counting' \subseteq Counting,
         \A s \in Replicas : /\ job'[s].step = "insert" => job'[s] = job[s]
                             /\ late'[s].op = "add" => late'[s] = late[s]
  PROVE  Inv4'
  <1>1. AddFresh'
    BY StaysFresh DEF Inv4
  <1>2. post_count[r] \in Nat
    BY DEF Inv4, Inv1, TypeOK
  <1>3. PostCountSound'
    BY <1>2, NoMoreCounted DEF Inv4, Inv1
  <1> QED
    BY <1>1, <1>3 DEF Inv4

\* An insert stores a post nobody has stored and leaves it to be counted.
LEMMA InsertCounted ==
  ASSUME Inv4, NEW r \in Replicas, InsertPost(r)
  PROVE  /\ Counted \in Nat /\ Cardinality(stored) \in Nat
         /\ Counted' = Counted + 1 /\ Cardinality(stored') = Cardinality(stored) + 1
  <1>0. TypeOK /\ AddFresh
    BY DEF Inv4, Inv1
  <1>1. /\ job[r].step = "insert" /\ stored' = stored \cup {job[r].id}
        /\ UNCHANGED <<late, post_count>> /\ job \in [Replicas -> Jobs]
        /\ job' = [job EXCEPT ![r].step = "count"]
    BY <1>0 DEF InsertPost, Continue, TypeOK
  <1>2. job'[r].step = "count" /\ \A s \in Replicas \ {r} : job'[s] = job[s]
    BY <1>1 DEF Jobs
  <1>3. job[r].id \notin stored
    BY <1>0, <1>1 DEF AddFresh
  <1>4. r \notin Counting /\ Counting' = Counting \cup {r}
    BY <1>1, <1>2 DEF Counting
  <1>5. /\ Cardinality(stored) \in Nat /\ Cardinality(Counting) \in Nat
        /\ Cardinality(stored') = Cardinality(stored) + 1
        /\ Cardinality(Counting') = Cardinality(Counting) + 1
    BY <1>0, <1>1, <1>3, <1>4, CountsTyped, FS_AddElement
  <1>6. SumFunction(post_count) \in Nat
    BY <1>0, ReplicasFinite, SumAt DEF TypeOK
  <1>7. SumFunction(post_count') + Cardinality(Counting') =
            SumFunction(post_count) + Cardinality(Counting) + 1
    BY <1>1, <1>5, <1>6
  <1> QED
    BY <1>5, <1>6, <1>7 DEF Counted, Counting

\* Counting a post takes it off the posts to be counted.
LEMMA CountCounted ==
  ASSUME Inv4, TypeOK', NEW r \in Replicas, CountPost(r)
  PROVE  Counted' = Counted
  <1>0. TypeOK
    BY DEF Inv4, Inv1
  <1>1. /\ job[r].step = "count"
        /\ post_count' = [post_count EXCEPT ![r] = @ + 1]
        /\ job \in [Replicas -> Jobs] /\ post_count \in [Replicas -> Nat]
        /\ job' = [job EXCEPT ![r].step = "answer"]
    BY <1>0 DEF CountPost, Continue, TypeOK
  <1>2. job'[r].step = "answer" /\ \A s \in Replicas \ {r} : job'[s] = job[s]
    BY <1>1 DEF Jobs
  <1>3. r \in Counting /\ Counting' = Counting \ {r}
    BY <1>1, <1>2 DEF Counting
  <1>4. /\ Cardinality(Counting) \in Nat
        /\ Cardinality(Counting') = Cardinality(Counting) - 1
    BY <1>0, <1>3, CountsTyped, FS_RemoveElement
  <1>5. /\ SumFunction(post_count) \in Nat
        /\ SumFunction(post_count') = SumFunction(post_count) + post_count'[r] - post_count[r]
    <2>1. post_count \in [Replicas -> Nat] /\ post_count' \in [Replicas -> Nat]
      BY <1>0 DEF TypeOK
    <2>2. \A s \in Replicas \ {r} : post_count'[s] = post_count[s]
      BY <1>1
    <2> QED
      BY <2>1, <2>2, ReplicasFinite, SumAt
  <1>6. post_count[r] \in Nat /\ post_count'[r] = post_count[r] + 1
    BY <1>1
  <1>7. SumFunction(post_count') + Cardinality(Counting') =
            SumFunction(post_count) + Cardinality(Counting)
    BY <1>4, <1>5, <1>6
  <1> QED
    BY <1>7 DEF Counted, Counting

LEMMA StepInv4 == Inv4 /\ [Next]_vars => Inv4'
  <1> SUFFICES ASSUME Inv4, [Next]_vars PROVE Inv4'
    OBVIOUS
  <1>0. Inv1 /\ Inv1' /\ TypeOK /\ TypeOK' /\ Shape /\ AddFresh /\ PostCountSound
    BY StepInv1 DEF Inv1, Inv4
  <1>1. ASSUME NEW r \in Replicas, Receive(r) PROVE Inv4'
    <2>1. PICK q \in Requests :
            /\ q.op \in Ops
            /\ q.op = "add" => q.id \notin Taken
            /\ job' = [job EXCEPT ![r] = [step |-> FirstStep(q.op), op |-> q.op,
                         id |-> q.id, delta |-> q.delta, val |-> 0]]
      BY <1>1 DEF Receive
    <2>2. q.op \in AllOps
      BY DEF Requests, AllOps
    <2>3. /\ FirstStep(q.op) # "count"
          /\ FirstStep(q.op) = "insert" => q.op = "add"
      BY <2>2 DEF FirstStep, AllOps
    <2>4. job \in [Replicas -> Jobs] /\ UNCHANGED <<stored, late, post_count>>
      BY <1>0, <1>1 DEF TypeOK, Receive
    <2>5. /\ job'[r].step = FirstStep(q.op) /\ job'[r].id = q.id
          /\ \A s \in Replicas \ {r} : job'[s] = job[s]
      BY <2>1, <2>4
    <2>6. Counting' \subseteq Counting
      BY <2>3, <2>5 DEF Counting
    <2>7. PostCountSound'
      <3>1. post_count[r] \in Nat
        BY <1>0 DEF TypeOK
      <3> QED
        BY <1>0, <2>4, <2>6, <3>1, NoMoreCounted
    <2>8. q.op = "add" =>
            /\ q.id \notin stored
            /\ \A s \in Replicas : /\ job[s].step = "insert" => job[s].id # q.id
                                   /\ late[s].op = "add" => late[s].id # q.id
      BY <1>0, <2>1 DEF Taken, Shape
    <2>9. AddFresh'
      BY <1>0, <2>3, <2>4, <2>5, <2>8 DEF AddFresh
    <2> QED
      BY <1>0, <2>7, <2>9 DEF Inv4
  <1>2. ASSUME NEW r \in Replicas, FindPostToVote(r) PROVE Inv4'
    <2>1. /\ Counting' \subseteq Counting
          /\ \A s \in Replicas : job'[s].step = "insert" => job'[s] = job[s]
      BY <1>0, <1>2 DEF FindPostToVote, TypeOK, Counting
    <2> QED
      BY <1>0, <1>2, <2>1, Quiet DEF FindPostToVote
  <1>3. ASSUME NEW r \in Replicas, CannotVote(r) PROVE Inv4'
    BY <1>0, <1>3, AbortQuiet, Quiet DEF CannotVote
  <1>4. ASSUME NEW r \in Replicas, UpdateVotes(r) PROVE Inv4'
    BY <1>0, <1>4, ContinueQuiet, Quiet DEF UpdateVotes, Steps
  <1>5. ASSUME NEW r \in Replicas, InsertPost(r) PROVE Inv4'
    <2>1. /\ job'[r].step = "count" /\ \A s \in Replicas \ {r} : job'[s] = job[s]
          /\ stored' = stored \cup {job[r].id} /\ job[r].step = "insert" /\ late' = late
      BY <1>0, <1>5 DEF InsertPost, Continue, TypeOK, Jobs
    <2>2. AddFresh'
      BY <1>0, <2>1 DEF AddFresh
    <2>3. PostCountSound'
      BY <1>0, <1>5, InsertCounted DEF PostCountSound
    <2> QED
      BY <1>0, <2>2, <2>3 DEF Inv4
  <1>6. ASSUME NEW r \in Replicas, CountPost(r) PROVE Inv4'
    <2>1. /\ \A s \in Replicas : job'[s].step = "insert" => job'[s] = job[s]
          /\ UNCHANGED <<stored, late>>
      BY <1>0, <1>6, ContinueQuiet DEF CountPost, Steps
    <2>2. AddFresh'
      BY <1>0, <2>1, StaysFresh
    <2>3. PostCountSound'
      BY <1>0, <1>6, <2>1, CountCounted DEF PostCountSound
    <2> QED
      BY <1>0, <2>2, <2>3 DEF Inv4
  <1>7. ASSUME NEW r \in Replicas, WriteNotExecuted(r) PROVE Inv4'
    BY <1>0, <1>7, AbortQuiet, Quiet DEF WriteNotExecuted
  <1>8. ASSUME NEW r \in Replicas, WriteUnacknowledged(r) PROVE Inv4'
    <2>1. Abort(r, TRUE) /\ UNCHANGED <<late, post_count>> /\ AtWrite(r)
      BY <1>8 DEF WriteUnacknowledged
    <2>2. /\ Counting' \subseteq Counting
          /\ \A s \in Replicas : job'[s].step = "insert" => job'[s] = job[s]
          /\ job'[r].step # "insert"
      BY <1>0, <2>1, AbortQuiet
    <2>3. CASE job[r].op = "vote"
      BY <1>0, <1>8, <2>1, <2>2, <2>3, Quiet DEF WriteUnacknowledged
    <2>4. CASE job[r].op # "vote"
      <3>1. job[r].step = "insert" /\ stored' = stored \cup {job[r].id}
        BY <1>0, <1>8, <2>4 DEF WriteUnacknowledged, AtWrite, Shape
      <3>2. AddFresh'
        BY <1>0, <2>1, <2>2, <3>1 DEF AddFresh
      <3>3. post_count[r] \in Nat
        BY <1>0 DEF TypeOK
      <3>4. PostCountSound'
        BY <1>0, <2>1, <2>2, <3>1, <3>3, NoMoreCounted
      <3> QED
        BY <1>0, <3>2, <3>4 DEF Inv4
    <2> QED
      BY <2>3, <2>4
  <1>9. ASSUME NEW r \in Replicas, WriteLeftBehind(r) PROVE Inv4'
    <2>1. /\ Abort(r, FALSE) /\ UNCHANGED <<stored, post_count>> /\ AtWrite(r)
          /\ late' = [late EXCEPT ![r] = [op |-> job[r].op, id |-> job[r].id,
                                    delta |-> job[r].delta, val |-> job[r].val]]
          /\ late \in [Replicas -> Writes]
      BY <1>0, <1>9 DEF WriteLeftBehind, TypeOK
    <2>2. /\ Counting' \subseteq Counting
          /\ \A s \in Replicas : job'[s].step = "insert" => job'[s] = job[s]
          /\ job'[r].step # "insert"
      BY <1>0, <2>1, AbortQuiet
    <2>3. late'[r].op = "add" => job[r].step = "insert" /\ late'[r].id = job[r].id
      BY <1>0, <2>1 DEF AtWrite, Shape
    <2>4. \A s \in Replicas \ {r} : late'[s] = late[s]
      BY <2>1
    <2>5. AddFresh'
      BY <1>0, <2>1, <2>2, <2>3, <2>4 DEF AddFresh
    <2>6. post_count[r] \in Nat
      BY <1>0 DEF TypeOK
    <2>7. PostCountSound'
      BY <1>0, <2>1, <2>2, <2>6, NoMoreCounted
    <2> QED
      BY <1>0, <2>5, <2>7 DEF Inv4
  <1>10. ASSUME NEW r \in Replicas, ExecuteLate(r) PROVE Inv4'
    <2>1. /\ UNCHANGED <<job, post_count>> /\ late[r] # NoWrite
          /\ late' = [late EXCEPT ![r] = NoWrite] /\ late \in [Replicas -> Writes]
      BY <1>0, <1>10 DEF ExecuteLate, TypeOK
    <2>2. /\ Counting' \subseteq Counting
          /\ \A s \in Replicas : late'[s].op = "add" => late'[s] = late[s]
      BY <2>1 DEF Counting, NoWrite
    <2>3. CASE late[r].op = "vote"
      BY <1>0, <1>10, <2>1, <2>2, <2>3, Quiet DEF ExecuteLate
    <2>4. CASE late[r].op # "vote"
      <3>1. late[r].op = "add" /\ stored' = stored \cup {late[r].id}
        BY <1>0, <1>10, <2>1, <2>4 DEF ExecuteLate, Shape, Writes
      <3>2. AddFresh'
        BY <1>0, <2>1, <2>2, <3>1 DEF AddFresh
      <3>3. post_count[r] \in Nat
        BY <1>0 DEF TypeOK
      <3>4. PostCountSound'
        BY <1>0, <2>1, <2>2, <3>1, <3>3, NoMoreCounted
      <3> QED
        BY <1>0, <3>2, <3>4 DEF Inv4
    <2> QED
      BY <2>3, <2>4
  <1>11. ASSUME NEW r \in Replicas, ForgetLate(r) PROVE Inv4'
    <2>1. /\ Counting' \subseteq Counting
          /\ \A s \in Replicas : late'[s].op = "add" => late'[s] = late[s]
      BY <1>0, <1>11 DEF ForgetLate, Counting, NoWrite, TypeOK
    <2> QED
      BY <1>0, <1>11, <2>1, Quiet DEF ForgetLate
  <1>12. ASSUME NEW r \in Replicas, Read(r) PROVE Inv4'
    <2>1. CASE OpenCursor(r)
      BY <1>0, <2>1, ContinueQuiet, Quiet DEF OpenCursor, Steps
    <2>2. CASE DumpPosts(r)
      BY <1>0, <2>2, ContinueQuiet, Quiet DEF DumpPosts, Steps
    <2>3. CASE FindPost(r)
      BY <1>0, <2>3, ContinueQuiet, AbortQuiet, Quiet DEF FindPost, Steps
    <2>4. CASE EndSpan(r)
      BY <1>0, <2>4, ContinueQuiet, Quiet DEF EndSpan, Steps
    <2> QED
      BY <1>12, <2>1, <2>2, <2>3, <2>4 DEF Read
  <1>13. ASSUME NEW r \in Replicas, Answer(r) \/ Restart(r) PROVE Inv4'
    <2>1. /\ Counting' \subseteq Counting
          /\ \A s \in Replicas : job'[s].step = "insert" => job'[s] = job[s]
      BY <1>0, <1>13 DEF Answer, Restart, Idle, Counting, TypeOK
    <2> QED
      BY <1>0, <1>13, <2>1, Quiet DEF Answer, Restart
  <1>14. ASSUME NEW r \in Replicas, Crash(r) PROVE Inv4'
    <2>1. /\ Counting' \subseteq Counting
          /\ \A s \in Replicas : job'[s].step = "insert" => job'[s] = job[s]
      BY <1>0, <1>14 DEF Crash, Down, Idle, Counting, TypeOK
    <2>2. /\ UNCHANGED <<stored, late>> /\ post_count' = [post_count EXCEPT ![r] = 0]
          /\ post_count \in [Replicas -> Nat]
      BY <1>0, <1>14 DEF Crash, TypeOK
    <2>3. post_count'[r] <= post_count[r] /\ \A s \in Replicas \ {r} : post_count'[s] = post_count[s]
      BY <2>2
    <2>4. PostCountSound'
      BY <1>0, <2>1, <2>2, <2>3, NoMoreCounted
    <2>5. AddFresh'
      BY <1>0, <2>1, <2>2, StaysFresh
    <2> QED
      BY <1>0, <2>4, <2>5 DEF Inv4
  <1>15. CASE Waiting \/ MongoChanges \/ ZipkinChanges \/ UNCHANGED vars
    <2>1. UNCHANGED <<stored, late, job, post_count>>
      BY <1>15 DEF Waiting, Hang, Return, MongoChanges, ZipkinChanges, vars
    <2> QED
      BY <1>0, <2>1 DEF Inv4, AddFresh, PostCountSound, Counted
  <1> QED
    BY <1>1, <1>2, <1>3, <1>4, <1>5, <1>6, <1>7, <1>8, <1>9, <1>10, <1>11,
       <1>12, <1>13, <1>14, <1>15
       DEF Next, Waiting, Serve, Vote, AddPost, BrokenWrite

\* However replicas crash and writes get lost or come late, the counters of
\* all replicas together, with the inserts they have still to count, never
\* show more posts than MongoDB stores.
THEOREM CountNeverAhead == Spec => []PostCountSound
  <1>1. Inv4 => PostCountSound
    BY DEF Inv4
  <1> QED
    BY InitInv4, StepInv4, <1>1, PTL DEF Spec

-----------------------------------------------------------------------------
(* Only a lost acknowledgement, a late write or a crash keeps the counters *)
(* behind the collection.                                                  *)

CountExact == Counted = Cardinality(stored)

NoneLate == \A r \in Replicas : late[r] = NoWrite

\* A replica that was not about to count, and is not now.
LEMMA CountedKept ==
  ASSUME NEW r \in Replicas, job[r].step # "count", job'[r].step # "count",
         \A s \in Replicas \ {r} : job'[s] = job[s], UNCHANGED post_count
  PROVE  Counted' = Counted
  <1>1. Counting' = Counting
    BY DEF Counting
  <1> QED
    BY <1>1 DEF Counted, Counting

\* A step of a replica's request that stores and counts nothing.
LEMMA ExactKept ==
  ASSUME CountExact, NoneLate, NEW r \in Replicas, job[r].step # "count",
         job'[r].step # "count", \A s \in Replicas \ {r} : job'[s] = job[s],
         UNCHANGED <<post_count, stored, late>>
  PROVE  CountExact' /\ NoneLate'
  BY CountedKept DEF CountExact, NoneLate

LEMMA StepExact ==
  ASSUME Faults \cap {"link", "late", "crash"} = {}, Inv4, TypeOK',
         CountExact, NoneLate, [Next]_vars
  PROVE  CountExact' /\ NoneLate'
  <1>0. Inv1 /\ TypeOK /\ Shape /\ job \in [Replicas -> Jobs]
    BY DEF Inv4, Inv1, TypeOK
  <1>1. ASSUME NEW r \in Replicas, NEW step \in Steps \ {"count"}, Continue(r, step),
               job[r].step # "count", UNCHANGED <<post_count, stored, late>>
        PROVE  CountExact' /\ NoneLate'
    <2>1. job'[r].step # "count" /\ \A s \in Replicas \ {r} : job'[s] = job[s]
      BY <1>0, <1>1 DEF Continue, Jobs
    <2> QED
      BY <1>1, <2>1, ExactKept
  <1>2. ASSUME NEW r \in Replicas, NEW executed, Abort(r, executed),
               job[r].step # "count", UNCHANGED <<post_count, stored, late>>
        PROVE  CountExact' /\ NoneLate'
    BY <1>1, <1>2 DEF Abort, Steps
  <1>3. ASSUME NEW r \in Replicas, Receive(r) PROVE CountExact' /\ NoneLate'
    <2>1. PICK q \in Requests :
            job' = [job EXCEPT ![r] = [step |-> FirstStep(q.op), op |-> q.op,
                         id |-> q.id, delta |-> q.delta, val |-> 0]]
      BY <1>3 DEF Receive
    <2>2. q.op \in AllOps
      BY DEF Requests, AllOps
    <2>3. FirstStep(q.op) # "count"
      BY <2>2 DEF FirstStep, AllOps
    <2>4. job'[r].step # "count" /\ \A s \in Replicas \ {r} : job'[s] = job[s]
      BY <1>0, <2>1, <2>3
    <2> QED
      BY <1>3, <2>4, ExactKept DEF Receive
  <1>4. ASSUME NEW r \in Replicas, FindPostToVote(r) PROVE CountExact' /\ NoneLate'
    <2>1. job'[r].step # "count" /\ \A s \in Replicas \ {r} : job'[s] = job[s]
      BY <1>0, <1>4 DEF FindPostToVote
    <2> QED
      BY <1>4, <2>1, ExactKept DEF FindPostToVote
  <1>5. ASSUME NEW r \in Replicas, CannotVote(r) PROVE CountExact' /\ NoneLate'
    BY <1>2, <1>5 DEF CannotVote
  <1>6. ASSUME NEW r \in Replicas, UpdateVotes(r) PROVE CountExact' /\ NoneLate'
    BY <1>1, <1>6 DEF UpdateVotes, Steps
  <1>7. ASSUME NEW r \in Replicas, InsertPost(r) PROVE CountExact' /\ NoneLate'
    <2>1. UNCHANGED late
      BY <1>7 DEF InsertPost
    <2> QED
      BY <1>7, <2>1, InsertCounted DEF CountExact, NoneLate
  <1>8. ASSUME NEW r \in Replicas, CountPost(r) PROVE CountExact' /\ NoneLate'
    <2>1. UNCHANGED <<stored, late>>
      BY <1>8 DEF CountPost
    <2> QED
      BY <1>8, <2>1, CountCounted DEF CountExact, NoneLate
  <1>9. ASSUME NEW r \in Replicas, WriteNotExecuted(r) PROVE CountExact' /\ NoneLate'
    BY <1>2, <1>9 DEF WriteNotExecuted, AtWrite
  <1>10. ASSUME NEW r \in Replicas,
                \/ WriteUnacknowledged(r) \/ WriteLeftBehind(r) \/ Crash(r)
                \/ ExecuteLate(r) \/ ForgetLate(r)
         PROVE  FALSE
    BY <1>10 DEF WriteUnacknowledged, WriteLeftBehind, Crash, ExecuteLate, ForgetLate,
       NoneLate
  <1>11. ASSUME NEW r \in Replicas, Read(r) PROVE CountExact' /\ NoneLate'
    <2>1. CASE OpenCursor(r)
      BY <1>1, <2>1 DEF OpenCursor, Steps
    <2>2. CASE DumpPosts(r)
      BY <1>1, <2>2 DEF DumpPosts, Steps
    <2>3. CASE FindPost(r)
      BY <1>1, <1>2, <2>3 DEF FindPost, Steps
    <2>4. CASE EndSpan(r)
      BY <1>1, <2>4 DEF EndSpan, Steps
    <2> QED
      BY <1>11, <2>1, <2>2, <2>3, <2>4 DEF Read
  <1>12. ASSUME NEW r \in Replicas, Answer(r) \/ Restart(r) PROVE CountExact' /\ NoneLate'
    <2>1. /\ job[r].step # "count" /\ job'[r].step # "count"
          /\ \A s \in Replicas \ {r} : job'[s] = job[s]
      BY <1>0, <1>12 DEF Answer, Restart, Idle
    <2> QED
      BY <1>12, <2>1, ExactKept DEF Answer, Restart
  <1>13. CASE Waiting \/ MongoChanges \/ ZipkinChanges \/ UNCHANGED vars
    <2>1. UNCHANGED <<stored, late, job, post_count>>
      BY <1>13 DEF Waiting, Hang, Return, MongoChanges, ZipkinChanges, vars
    <2> QED
      BY <2>1 DEF CountExact, Counted, NoneLate
  <1> QED
    BY <1>3, <1>4, <1>5, <1>6, <1>7, <1>8, <1>9, <1>10, <1>11, <1>12, <1>13
       DEF Next, Waiting, Serve, Vote, AddPost, BrokenWrite

\* While no connection breaks under an insert and no replica dies, whatever
\* else MongoDB and Zipkin do, the counters of all replicas together, with the
\* inserts they have still to count, show exactly the stored posts.
THEOREM CounterIsExact ==
  ASSUME Faults \cap {"link", "late", "crash"} = {}
  PROVE  Spec => []CountExact
  <1>1. Init => CountExact /\ NoneLate
    <2> SUFFICES ASSUME Init PROVE CountExact /\ NoneLate
      OBVIOUS
    <2>1. SumFunction(post_count) = 0
      BY ReplicasFinite, SumZero DEF Init
    <2>2. Counting = {} /\ stored = {} /\ NoneLate
      BY DEF Init, Idle, Counting, NoneLate
    <2> QED
      BY <2>1, <2>2, FS_EmptySet DEF CountExact, Counted, Counting
  <1>2. Inv4 /\ CountExact /\ NoneLate /\ [Next]_vars => (CountExact /\ NoneLate)'
    BY StepInv4, StepExact DEF Inv4, Inv1
  <1> QED
    BY InitInv4, StepInv4, <1>1, <1>2, PTL DEF Spec

=============================================================================
