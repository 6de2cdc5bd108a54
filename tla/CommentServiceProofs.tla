----------------------- MODULE CommentServiceProofs ------------------------
(***************************************************************************)
(* Theorems about CommentService, for any threads, comments, spellings and *)
(* faults.                                                                 *)
(***************************************************************************)
EXTENDS CommentService, FiniteSetTheorems, TLAPS

(* A comment belongs to one request, whose author has not been answered.   *)
Owned ==
    /\ \A t, u \in Threads : t # u /\ job[t].comment # NoId
                                => job[t].comment # job[u].comment
    /\ \A t \in Threads : job[t].comment # NoId => told[job[t].comment] = 0

(* What a step of a request presupposes.                                   *)
Underway ==
    \A t \in Threads :
        /\ job[t].step \in {"insert", "readback", "count"} => job[t].comment # NoId
        /\ job[t].step = "find" => job[t].comment = NoId
        /\ job[t].step \in {"insert", "find"} => job[t].id # NoId
        /\ \/ job[t].step \in {"readback", "count"}
           \/ job[t].step = "answer" /\ job[t].comment # NoId /\ job[t].status = 200
           => post_id[job[t].comment] # NoId

(* An author told 200 finds the comment in the collection: the first part  *)
(* of ToldTheTruth (add_comment, comment_app.rb:101-113).                  *)
ToldStored == \A c \in Comments : told[c] = 200 => c \in Stored

(* What a listing owes was answered before the query, so it is still there. *)
Owed ==
    \A t \in Threads : job[t].step = "find" => expected[t] \subseteq Acknowledged(job[t].id)

IInv == TypeOK /\ Owned /\ Underway /\ ToldStored /\ Owed /\ ListingComplete

-----------------------------------------------------------------------------
USE DEF Halt, LookedUp, MayRestart

(* The initial state satisfies IInv.                                       *)
LEMMA InitInv == Init => IInv
BY CanonicalSpelling, BoundsNatural
   DEF Init, IInv, TypeOK, Owned, Underway, ToldStored, Owed, ListingComplete,
       Jobs, Steps, Idle, Stored, Acknowledged

(* A thread moves on with its request, the others stay where they are.     *)
LEMMA GotoMoves ==
    ASSUME job \in [Threads -> Jobs], NEW t \in Threads, NEW step \in Steps,
           NEW status \in {200, 500}, Goto(t, step, status)
    PROVE  /\ job' \in [Threads -> Jobs]
           /\ \A u \in Threads : u # t => job'[u] = job[u]
           /\ job'[t].step = step /\ job'[t].status = status
           /\ job'[t].comment = job[t].comment /\ job'[t].id = job[t].id
<1>1. [step |-> step, comment |-> job[t].comment, id |-> job[t].id,
       status |-> status] \in Jobs
      BY DEF Jobs
<1>. QED BY <1>1 DEF Goto

(* Type correctness of every step.                                         *)
LEMMA TypeStep == TypeOK /\ [Next]_vars => TypeOK'
<1> SUFFICES ASSUME TypeOK, [Next]_vars PROVE TypeOK'
    OBVIOUS
<1> USE CanonicalSpelling, BoundsNatural DEF TypeOK
<1>0. /\ Idle \in Jobs
      /\ {"insert", "readback", "count", "find", "answer"} \subseteq Steps
      /\ \A t \in Threads : job[t].comment \in Comments \cup {NoId}
                            /\ job[t].id \in Spellings \cup {NoId}
      BY DEF Idle, Jobs, Steps
<1>1. ASSUME NEW t \in Threads, ReceiveComment(t) PROVE TypeOK'
      BY <1>1 DEF ReceiveComment, Jobs, Steps
<1>2. ASSUME NEW t \in Threads, ReceiveListing(t) PROVE TypeOK'
      BY <1>2 DEF ReceiveListing, Acknowledged, Stored, Jobs, Steps
<1>3. ASSUME NEW t \in Threads, InsertComment(t) PROVE TypeOK'
  <2>1. job' \in [Threads -> Jobs]
        BY <1>0, <1>3, GotoMoves DEF InsertComment
  <2>2. post_id' \in [Comments -> Spellings \cup {NoId}]
        BY <1>0, <1>3 DEF InsertComment
  <2>. QED BY <1>3, <2>1, <2>2 DEF InsertComment
<1>4. ASSUME NEW t \in Threads, ReadBack(t) PROVE TypeOK'
      BY <1>0, <1>4, GotoMoves DEF ReadBack
<1>5. ASSUME NEW t \in Threads, CommentFails(t) PROVE TypeOK'
      BY <1>0, <1>5, GotoMoves DEF CommentFails
<1>6. ASSUME NEW t \in Threads, CountComment(t) PROVE TypeOK'
      BY <1>0, <1>6, GotoMoves DEF CountComment
<1>7. ASSUME NEW t \in Threads, FindComments(t) PROVE TypeOK'
  <2>1. job' \in [Threads -> Jobs]
        BY <1>0, <1>7, GotoMoves DEF FindComments
  <2>. QED BY <1>7, <2>1 DEF FindComments, Stored
<1>8. ASSUME NEW t \in Threads, Answer(t) PROVE TypeOK'
  <2>1. told' \in [Comments -> {0, 200, 500}]
    <3>1. job[t].status \in {0, 200, 500} BY DEF Jobs
    <3>. QED BY <1>8, <3>1 DEF Answer
  <2>. QED BY <1>0, <1>8, <2>1 DEF Answer
<1>9. CASE Crash BY <1>0, <1>9 DEF Crash
<1>10. CASE Restart BY <1>10 DEF Restart
<1>11. CASE MongoChanges BY <1>11 DEF MongoChanges
<1>12. CASE UNCHANGED vars BY <1>12 DEF vars
<1>. QED BY <1>1, <1>2, <1>3, <1>4, <1>5, <1>6, <1>7, <1>8, <1>9, <1>10, <1>11,
            <1>12 DEF Next, Serve

(* Every variable keeps its type, whatever threads and faults there are.   *)
THEOREM TypeCorrect == Spec => []TypeOK
<1>1. Init => TypeOK BY InitInv DEF IInv
<1>. QED BY <1>1, TypeStep, PTL DEF Spec

-----------------------------------------------------------------------------
(* Preservation of the other parts of IInv.                                *)
LEMMA StepInv == IInv /\ [Next]_vars => IInv'
<1> SUFFICES ASSUME IInv, [Next]_vars PROVE IInv'
    OBVIOUS
<1> DEFINE Rest == Owned /\ Underway /\ ToldStored /\ Owed /\ ListingComplete
<1>0. TypeOK /\ TypeOK' /\ Rest
      BY TypeStep DEF IInv
<1>a. NoId \notin Comments /\ NoId \notin Spellings
      BY CanonicalSpelling
<1>b. job \in [Threads -> Jobs] /\ job' \in [Threads -> Jobs]
      BY <1>0 DEF TypeOK
<1>c. {"insert", "readback", "count", "find", "answer"} \subseteq Steps
      BY DEF Steps
<1> USE DEF Owned, Underway, ToldStored, Owed, ListingComplete, Stored, Acknowledged
<1>1. ASSUME NEW t \in Threads, ReceiveComment(t) PROVE Rest'
      BY <1>0, <1>1, <1>a DEF ReceiveComment, TypeOK
<1>2. ASSUME NEW t \in Threads, ReceiveListing(t) PROVE Rest'
      BY <1>0, <1>2, <1>a DEF ReceiveListing, TypeOK
<1>4. ASSUME NEW t \in Threads, ReadBack(t) PROVE Rest'
      BY <1>0, <1>4, <1>b, <1>c, GotoMoves DEF ReadBack
<1>5. ASSUME NEW t \in Threads, CommentFails(t) PROVE Rest'
      BY <1>0, <1>5, <1>b, <1>c, GotoMoves DEF CommentFails
<1>6. ASSUME NEW t \in Threads, CountComment(t) PROVE Rest'
      BY <1>0, <1>6, <1>b, <1>c, GotoMoves DEF CountComment
<1>7. ASSUME NEW t \in Threads, FindComments(t) PROVE Rest'
      BY <1>0, <1>7, <1>b, <1>c, GotoMoves DEF FindComments, TypeOK
<1>3. ASSUME NEW t \in Threads, InsertComment(t) PROVE Rest'
      BY <1>0, <1>3, <1>a, <1>b, <1>c, GotoMoves DEF InsertComment, TypeOK
<1>8. ASSUME NEW t \in Threads, Answer(t) PROVE Rest'
      BY <1>0, <1>8, <1>a DEF Answer, TypeOK, Idle
<1>9. ASSUME Crash PROVE Rest' BY <1>0, <1>9 DEF Crash, Idle
<1>10. ASSUME Restart PROVE Rest' BY <1>0, <1>10 DEF Restart
<1>11. ASSUME MongoChanges PROVE Rest' BY <1>0, <1>11 DEF MongoChanges
<1>12. ASSUME UNCHANGED vars PROVE Rest' BY <1>0, <1>12 DEF vars
<1>13. Rest'
       BY <1>1, <1>2, <1>3, <1>4, <1>5, <1>6, <1>7, <1>8, <1>9, <1>10, <1>11,
          <1>12 DEF Next, Serve
<1>. QED BY <1>0, <1>13 DEF IInv

(* IInv holds in every reachable state.                                    *)
LEMMA Inductive == Spec => []IInv
<1>. QED BY InitInv, StepInv, PTL DEF Spec

(* A page requested after an author was told 200 shows the comment.        *)
THEOREM PagesAreComplete == Spec => []ListingComplete
<1>1. IInv => ListingComplete BY DEF IInv
<1>. QED BY Inductive, <1>1, PTL

(* Whoever was told 200 finds the comment stored, for good.                *)
THEOREM ToldIsStored == Spec => []ToldStored
<1>1. IInv => ToldStored BY DEF IInv
<1>. QED BY Inductive, <1>1, PTL

-----------------------------------------------------------------------------
(* The counter.  Every step changes the sets it is compared with by one    *)
(* thread and one comment at most.                                         *)

(* A comment about to be inserted is not in the collection.                *)
NotYet == \A t \in Threads : job[t].step = "insert" => job[t].comment \notin Stored

ToBeCounted == {t \in Threads : job[t].step \in {"readback", "count"}}

ToBeTold == {t \in Threads : /\ job[t].step = "answer" /\ job[t].comment # NoId
                             /\ job[t].status = 200}

Told == {c \in Comments : told[c] = 200}

Exact == restarts = 0 /\ process = "up" =>
            comment_count = Cardinality(Told) + Cardinality(ToBeTold)

CInv == IInv /\ NotYet /\ CommentCountSound /\ Exact

(* One is a member, or not.                                                *)
In(x, S) == IF x \in S THEN 1 ELSE 0

(* Sets that agree on all but one element differ by it.                    *)
LEMMA CardinalityStep ==
    ASSUME NEW U, IsFiniteSet(U), NEW S \in SUBSET U, NEW T \in SUBSET U, NEW x \in U,
           \A y \in U : y # x => (y \in S <=> y \in T)
    PROVE  /\ Cardinality(S) \in Nat /\ Cardinality(T) \in Nat
           /\ Cardinality(T) = Cardinality(S) + In(x, T) - In(x, S)
<1>1. IsFiniteSet(S) /\ IsFiniteSet(T)
      BY FS_Subset
<1>2. Cardinality(S) \in Nat /\ Cardinality(T) \in Nat
      BY <1>1, FS_CardinalityType
<1>3. CASE x \in S /\ x \notin T
  <2>1. T = S \ {x} BY <1>3
  <2>. QED BY <1>1, <1>2, <1>3, <2>1, FS_RemoveElement DEF In
<1>4. CASE x \notin S /\ x \in T
  <2>1. T = S \cup {x} BY <1>4
  <2>. QED BY <1>1, <1>2, <1>4, <2>1, FS_AddElement DEF In
<1>5. CASE x \in S <=> x \in T
  <2>1. S = T BY <1>5
  <2>. QED BY <1>2, <2>1 DEF In
<1>. QED BY <1>3, <1>4, <1>5

(* Only one thread has moved.                                              *)
LEMMA OneMoves ==
    ASSUME NEW t \in Threads, \A u \in Threads : u # t => job'[u] = job[u]
    PROVE  /\ Cardinality(ToBeCounted) \in Nat /\ Cardinality(ToBeTold) \in Nat
           /\ Cardinality(ToBeCounted') =
                 Cardinality(ToBeCounted) + In(t, ToBeCounted') - In(t, ToBeCounted)
           /\ Cardinality(ToBeTold') =
                 Cardinality(ToBeTold) + In(t, ToBeTold') - In(t, ToBeTold)
<1>1. /\ \A y \in Threads : y # t => (y \in ToBeCounted <=> y \in ToBeCounted')
      /\ \A y \in Threads : y # t => (y \in ToBeTold <=> y \in ToBeTold')
      BY DEF ToBeCounted, ToBeTold
<1>2. /\ ToBeCounted \in SUBSET Threads /\ ToBeCounted' \in SUBSET Threads
      /\ ToBeTold \in SUBSET Threads /\ ToBeTold' \in SUBSET Threads
      BY DEF ToBeCounted, ToBeTold
<1>3. IsFiniteSet(Threads)
      BY CommentsFinite
<1>4. /\ Cardinality(ToBeCounted) \in Nat
      /\ Cardinality(ToBeCounted') =
            Cardinality(ToBeCounted) + In(t, ToBeCounted') - In(t, ToBeCounted)
      BY <1>1, <1>2, <1>3, CardinalityStep
<1>5. /\ Cardinality(ToBeTold) \in Nat
      /\ Cardinality(ToBeTold') =
            Cardinality(ToBeTold) + In(t, ToBeTold') - In(t, ToBeTold)
      BY <1>1, <1>2, <1>3, CardinalityStep
<1>. QED BY <1>4, <1>5

(* The sets of comments are finite.                                        *)
LEMMA CommentSets == Cardinality(Stored) \in Nat /\ Cardinality(Told) \in Nat
<1>1. Stored \in SUBSET Comments /\ Told \in SUBSET Comments
      BY DEF Stored, Told
<1>. QED BY <1>1, CommentsFinite, FS_Subset, FS_CardinalityType

LEMMA InitCInv == Init => CInv
<1> SUFFICES ASSUME Init PROVE CInv
    OBVIOUS
<1>1. /\ ToBeCounted = {} /\ ToBeTold = {} /\ Told = {} /\ comment_count = 0
      BY DEF Init, Idle, ToBeCounted, ToBeTold, Told
<1>2. NotYet
      BY DEF Init, Idle, NotYet
<1>3. Cardinality(ToBeCounted) = 0 /\ Cardinality(ToBeTold) = 0 /\ Cardinality(Told) = 0
      BY <1>1, FS_EmptySet
<1>4. CommentCountSound
      BY <1>1, <1>3, CommentSets DEF CommentCountSound, ToBeCounted
<1>5. Exact
      BY <1>1, <1>3 DEF Exact
<1>. QED BY <1>2, <1>4, <1>5, InitInv DEF CInv

(* A thread that moves on without touching what is counted.                *)
LEMMA QuietMove ==
    ASSUME CInv, IInv', NotYet', NEW t \in Threads,
           \A u \in Threads : u # t => job'[u] = job[u],
           In(t, ToBeCounted') <= In(t, ToBeCounted),
           t \in ToBeTold' <=> t \in ToBeTold,
           UNCHANGED <<post_id, comment_count, told, restarts, process>>
    PROVE  CInv'
<1>1. comment_count \in Nat
      BY DEF CInv, IInv, TypeOK
<1>2. Stored' = Stored /\ Told' = Told
      BY DEF Stored, Told
<1>3. In(t, ToBeTold') = In(t, ToBeTold) /\ In(t, ToBeTold) \in {0, 1}
      /\ In(t, ToBeCounted) \in {0, 1} /\ In(t, ToBeCounted') \in {0, 1}
      BY DEF In
<1>4. CommentCountSound'
      BY <1>1, <1>2, <1>3, OneMoves, CommentSets DEF CInv, CommentCountSound, ToBeCounted
<1>5. Exact'
      BY <1>1, <1>2, <1>3, OneMoves, CommentSets DEF CInv, Exact
<1>. QED BY <1>4, <1>5 DEF CInv

(* Which threads are about to count a comment, and about to answer one.    *)
LEMMA Members ==
    ASSUME NEW t \in Threads
    PROVE  /\ t \in ToBeCounted <=> job[t].step \in {"readback", "count"}
           /\ t \in ToBeCounted' <=> job'[t].step \in {"readback", "count"}
           /\ t \in ToBeTold <=> /\ job[t].step = "answer" /\ job[t].comment # NoId
                                 /\ job[t].status = 200
           /\ t \in ToBeTold' <=> /\ job'[t].step = "answer" /\ job'[t].comment # NoId
                                  /\ job'[t].status = 200
BY DEF ToBeCounted, ToBeTold

LEMMA StepNotYet == CInv /\ IInv' /\ [Next]_vars => NotYet'
<1> SUFFICES ASSUME CInv, IInv', [Next]_vars PROVE NotYet'
    OBVIOUS
<1>0. TypeOK /\ Owned /\ Underway /\ NotYet /\ job \in [Threads -> Jobs]
      BY DEF CInv, IInv, TypeOK
<1>c. {"insert", "readback", "count", "find", "answer"} \subseteq Steps
      BY DEF Steps
<1> USE DEF NotYet, Stored
<1>1. ASSUME NEW t \in Threads, ReceiveComment(t) PROVE NotYet'
      BY <1>0, <1>1 DEF ReceiveComment
<1>2. ASSUME NEW t \in Threads, ReceiveListing(t) PROVE NotYet'
      BY <1>0, <1>2 DEF ReceiveListing
<1>3. ASSUME NEW t \in Threads, InsertComment(t) PROVE NotYet'
  <2>1. /\ \A u \in Threads : u # t => job'[u] = job[u]
        /\ job'[t].step # "insert"
        BY <1>0, <1>c, <1>3, GotoMoves DEF InsertComment
  <2>2. \A u \in Threads : u # t /\ job[u].step = "insert" =>
            job[u].comment # job[t].comment
        BY <1>0, <1>3 DEF Owned, Underway, InsertComment
  <2>3. \A c \in Comments : c # job[t].comment => post_id'[c] = post_id[c]
        BY <1>0, <1>3 DEF InsertComment, TypeOK
  <2>. QED BY <1>0, <2>1, <2>2, <2>3
<1>4. ASSUME NEW t \in Threads, ReadBack(t) PROVE NotYet'
      BY <1>0, <1>c, <1>4, GotoMoves DEF ReadBack
<1>5. ASSUME NEW t \in Threads, CommentFails(t) PROVE NotYet'
      BY <1>0, <1>c, <1>5, GotoMoves DEF CommentFails
<1>6. ASSUME NEW t \in Threads, CountComment(t) PROVE NotYet'
      BY <1>0, <1>c, <1>6, GotoMoves DEF CountComment
<1>7. ASSUME NEW t \in Threads, FindComments(t) PROVE NotYet'
      BY <1>0, <1>c, <1>7, GotoMoves DEF FindComments
<1>8. ASSUME NEW t \in Threads, Answer(t) PROVE NotYet'
      BY <1>0, <1>8 DEF Answer, Idle
<1>9. CASE Crash BY <1>9 DEF Crash, Idle
<1>10. CASE Restart \/ MongoChanges \/ UNCHANGED vars
       BY <1>0, <1>10 DEF Restart, MongoChanges, vars
<1>. QED BY <1>1, <1>2, <1>3, <1>4, <1>5, <1>6, <1>7, <1>8, <1>9, <1>10 DEF Next, Serve

LEMMA StepCInv == CInv /\ [Next]_vars => CInv'
<1> SUFFICES ASSUME CInv, [Next]_vars PROVE CInv'
    OBVIOUS
<1>0. IInv /\ IInv' /\ NotYet /\ NotYet' /\ CommentCountSound /\ Exact
      BY StepInv, StepNotYet DEF CInv
<1>a. TypeOK /\ Owned /\ Underway /\ job \in [Threads -> Jobs] /\ comment_count \in Nat
      BY <1>0 DEF IInv, TypeOK
<1>c. {"insert", "readback", "count", "find", "answer"} \subseteq Steps
      BY DEF Steps
<1>1. ASSUME NEW t \in Threads, ReceiveComment(t) PROVE CInv'
  <2>1. /\ \A u \in Threads : u # t => job'[u] = job[u]
        /\ job[t].step = "idle" /\ job'[t].step = "insert"
        BY <1>a, <1>1 DEF ReceiveComment
  <2>. QED BY <1>0, <1>1, <2>1, Members, QuietMove DEF ReceiveComment, In
<1>2. ASSUME NEW t \in Threads, ReceiveListing(t) PROVE CInv'
  <2>1. /\ \A u \in Threads : u # t => job'[u] = job[u]
        /\ job[t].step = "idle" /\ job'[t].step = "find"
        BY <1>a, <1>2 DEF ReceiveListing
  <2>. QED BY <1>0, <1>2, <2>1, Members, QuietMove DEF ReceiveListing, In
<1>3. ASSUME NEW t \in Threads, InsertComment(t) PROVE CInv'
  <2>1. /\ \A u \in Threads : u # t => job'[u] = job[u]
        /\ job[t].step = "insert" /\ job'[t].step \in {"readback", "answer"}
        /\ job'[t].step = "answer" => job'[t].status = 500
        BY <1>a, <1>c, <1>3, GotoMoves DEF InsertComment
  <2>2. /\ job[t].comment \in Comments /\ job[t].comment \notin Stored
        /\ job[t].id # NoId
        BY <1>0, <1>a, <2>1 DEF NotYet, Underway, Jobs
  <2>3. /\ Stored \in SUBSET Comments /\ Stored' \in SUBSET Comments
        /\ job[t].comment \in Stored'
        /\ \A c \in Comments : c # job[t].comment => (c \in Stored <=> c \in Stored')
        BY <1>a, <1>3, <2>2 DEF InsertComment, Stored, TypeOK
  <2>4. Cardinality(Stored') = Cardinality(Stored) + 1 /\ Cardinality(Stored) \in Nat
    <3>1. In(job[t].comment, Stored) = 0 /\ In(job[t].comment, Stored') = 1
          BY <2>2, <2>3 DEF In
    <3>2. IsFiniteSet(Comments)
          BY CommentsFinite
    <3>. QED BY <2>2, <2>3, <3>1, <3>2, CardinalityStep
  <2>5. /\ In(t, ToBeCounted) = 0 /\ In(t, ToBeCounted') \in {0, 1}
        /\ In(t, ToBeTold) = 0 /\ In(t, ToBeTold') = 0
        BY <2>1, Members DEF In
  <2>6. UNCHANGED <<comment_count, told, restarts, process>> /\ Told' = Told
        BY <1>3 DEF InsertComment, Told
  <2>7. CommentCountSound'
        BY <1>0, <1>a, <2>1, <2>4, <2>5, <2>6, OneMoves DEF CommentCountSound, ToBeCounted
  <2>8. Exact'
        BY <1>0, <1>a, <2>1, <2>5, <2>6, OneMoves DEF Exact
  <2>. QED BY <1>0, <2>7, <2>8 DEF CInv
<1>4. ASSUME NEW t \in Threads, ReadBack(t) PROVE CInv'
  <2>1. /\ \A u \in Threads : u # t => job'[u] = job[u]
        /\ job[t].step = "readback" /\ job'[t].step = "count"
        BY <1>a, <1>c, <1>4, GotoMoves DEF ReadBack
  <2>. QED BY <1>0, <1>4, <2>1, Members, QuietMove DEF ReadBack, In
<1>5. ASSUME NEW t \in Threads, CommentFails(t) PROVE CInv'
  <2>1. /\ \A u \in Threads : u # t => job'[u] = job[u]
        /\ job[t].step \in {"insert", "readback"}
        /\ job'[t].step = "answer" /\ job'[t].status = 500
        BY <1>a, <1>c, <1>5, GotoMoves DEF CommentFails
  <2>. QED BY <1>0, <1>5, <2>1, Members, QuietMove DEF CommentFails, In
<1>6. ASSUME NEW t \in Threads, CountComment(t) PROVE CInv'
  <2>1. /\ \A u \in Threads : u # t => job'[u] = job[u]
        /\ job[t].step = "count" /\ job'[t].step = "answer" /\ job'[t].status = 200
        /\ job'[t].comment # NoId
        BY <1>a, <1>c, <1>6, GotoMoves DEF CountComment, Underway
  <2>2. /\ In(t, ToBeCounted) = 1 /\ In(t, ToBeCounted') = 0
        /\ In(t, ToBeTold) = 0 /\ In(t, ToBeTold') = 1
        BY <2>1, Members DEF In
  <2>3. /\ comment_count' = comment_count + 1
        /\ UNCHANGED <<restarts, process>> /\ Told' = Told /\ Stored' = Stored
        BY <1>6 DEF CountComment, Told, Stored
  <2>4. CommentCountSound'
        BY <1>0, <1>a, <2>1, <2>2, <2>3, OneMoves, CommentSets
           DEF CommentCountSound, ToBeCounted
  <2>5. Exact'
        BY <1>0, <1>a, <2>1, <2>2, <2>3, OneMoves, CommentSets DEF Exact
  <2>. QED BY <1>0, <2>4, <2>5 DEF CInv
<1>7. ASSUME NEW t \in Threads, FindComments(t) PROVE CInv'
  <2>1. /\ \A u \in Threads : u # t => job'[u] = job[u]
        /\ job[t].step = "find" /\ job'[t].step = "answer" /\ job'[t].comment = NoId
        BY <1>a, <1>c, <1>7, GotoMoves DEF FindComments, Underway
  <2>. QED BY <1>0, <1>7, <2>1, Members, QuietMove DEF FindComments, In
<1>8. ASSUME NEW t \in Threads, Answer(t) PROVE CInv'
  <2>1. /\ \A u \in Threads : u # t => job'[u] = job[u]
        /\ job[t].step = "answer" /\ job'[t].step = "idle"
        /\ UNCHANGED <<post_id, comment_count, restarts, process>> /\ Stored' = Stored
        BY <1>a, <1>8 DEF Answer, Idle, Stored
  <2>2. CASE t \notin ToBeTold
    <3>1. In(t, ToBeCounted) = 0 /\ In(t, ToBeCounted') = 0
          /\ In(t, ToBeTold) = 0 /\ In(t, ToBeTold') = 0
          BY <2>1, <2>2, Members DEF In
    <3>2. Told' = Told
          BY <1>a, <1>8, <2>1, <2>2, Members DEF Answer, Told, Owned, TypeOK
    <3>3. CommentCountSound'
          BY <1>0, <1>a, <2>1, <3>1, OneMoves, CommentSets DEF CommentCountSound, ToBeCounted
    <3>4. Exact'
          BY <1>0, <1>a, <2>1, <3>1, <3>2, OneMoves DEF Exact
    <3>. QED BY <1>0, <3>3, <3>4 DEF CInv
  <2>3. CASE t \in ToBeTold
    <3>1. In(t, ToBeCounted) = 0 /\ In(t, ToBeCounted') = 0
          /\ In(t, ToBeTold) = 1 /\ In(t, ToBeTold') = 0
          BY <2>1, <2>3, Members DEF In
    <3>2. /\ job[t].comment \in Comments /\ job[t].status = 200
          /\ told[job[t].comment] = 0
          BY <1>a, <2>3, Members DEF Owned, Jobs
    <3>3. told' = [told EXCEPT ![job[t].comment] = 200]
          BY <1>8, <2>3, <3>2, Members DEF Answer
    <3>4. /\ Told \in SUBSET Comments /\ Told' \in SUBSET Comments
          /\ job[t].comment \notin Told /\ job[t].comment \in Told'
          /\ \A c \in Comments : c # job[t].comment => (c \in Told <=> c \in Told')
          BY <1>a, <3>2, <3>3 DEF Told, TypeOK
    <3>5. Cardinality(Told') = Cardinality(Told) + 1 /\ Cardinality(Told) \in Nat
      <4>1. In(job[t].comment, Told) = 0 /\ In(job[t].comment, Told') = 1
            BY <3>4 DEF In
      <4>2. IsFiniteSet(Comments)
            BY CommentsFinite
      <4>. QED BY <3>2, <3>4, <4>1, <4>2, CardinalityStep
    <3>6. CommentCountSound'
          BY <1>0, <1>a, <2>1, <3>1, OneMoves, CommentSets DEF CommentCountSound, ToBeCounted
    <3>7. Exact'
          BY <1>0, <1>a, <2>1, <3>1, <3>5, OneMoves DEF Exact
    <3>. QED BY <1>0, <3>6, <3>7 DEF CInv
  <2>. QED BY <2>2, <2>3
<1>9. CASE Crash
  <2>1. /\ ToBeCounted' = {} /\ comment_count' = 0 /\ process' = "down"
        /\ Stored' = Stored
        BY <1>9 DEF Crash, Idle, ToBeCounted, Stored
  <2>2. Cardinality(ToBeCounted') = 0 /\ Cardinality(Stored') \in Nat
        BY <2>1, FS_EmptySet, CommentSets
  <2>3. CommentCountSound'
        BY <2>1, <2>2 DEF CommentCountSound, ToBeCounted
  <2>4. Exact'
        BY <2>1 DEF Exact
  <2>. QED BY <1>0, <2>3, <2>4 DEF CInv
<1>10. CASE Restart
  <2>1. /\ restarts' # 0 /\ UNCHANGED <<post_id, job, comment_count>>
        BY <1>a, <1>10 DEF Restart, TypeOK
  <2>2. CommentCountSound' /\ Exact'
        BY <1>0, <2>1 DEF CommentCountSound, Exact, Stored
  <2>. QED BY <1>0, <2>2 DEF CInv
<1>11. CASE MongoChanges \/ UNCHANGED vars
  <2>1. UNCHANGED <<post_id, job, comment_count, told, restarts, process>>
        BY <1>11 DEF MongoChanges, vars
  <2>2. CommentCountSound' /\ Exact'
        BY <1>0, <2>1 DEF CommentCountSound, Exact, Stored, Told, ToBeTold
  <2>. QED BY <1>0, <2>2 DEF CInv
<1>. QED BY <1>1, <1>2, <1>3, <1>4, <1>5, <1>6, <1>7, <1>8, <1>9, <1>10, <1>11
         DEF Next, Serve

(* CInv holds in every reachable state.                                    *)
LEMMA CountInductive == Spec => []CInv
<1>. QED BY InitCInv, StepCInv, PTL DEF Spec

(* comment_count never runs ahead of the collection, across crashes.       *)
THEOREM CounterIsSound == Spec => []CommentCountSound
<1>1. CInv => CommentCountSound BY DEF CInv
<1>. QED BY CountInductive, <1>1, PTL

(* Authors, the collection and the counter agree.                          *)
THEOREM AuthorsAreToldTheTruth == Spec => []ToldTheTruth
<1>1. CInv => ToldTheTruth
      BY DEF CInv, IInv, ToldStored, Exact, Told, ToBeTold, ToldTheTruth
<1>. QED BY CountInductive, <1>1, PTL
=============================================================================
