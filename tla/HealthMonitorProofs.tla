------------------------ MODULE HealthMonitorProofs ------------------------
(***************************************************************************)
(* Theorems about HealthMonitor, for any number of scheduler threads, any  *)
(* list of dependencies and any faults.                                    *)
(***************************************************************************)
EXTENDS HealthMonitor, TLAPS

(* A check that is alone is the only one, and clean means that every check *)
(* under way is.                                                           *)
Alone ==
    /\ \A s, u \in Slots : s # u /\ Busy(s) /\ Busy(u) => ~check[s].alone
    /\ \A s \in Slots : clean /\ Busy(s) => check[s].alone

(* What an undisturbed check has set so far is what it has read.           *)
SetAsRead ==
    /\ \A s \in Slots : check[s].step = "status" => check[s].pos = 1
    /\ \A s \in Slots : check[s].alone /\ check[s].step = "set" =>
        /\ health = Status(check[s].read)
        /\ \A i \in Indices : i < check[s].pos => available[i] = check[s].read[i]

IInv == TypeOK /\ Alone /\ SetAsRead /\ AgreeUnlessOverlapped

-----------------------------------------------------------------------------
(* The dependencies are numbered from 1.                                   *)
LEMMA Numbering == Len(Deps) \in Nat /\ 1 \in Indices /\ Len(Deps) \in Indices
BY DepsKnown DEF Indices

(* An idle slot is a check at rest.                                        *)
LEMMA IdleTyped == Idle \in Checks /\ Idle.step = "idle" /\ Idle.pos = 1 /\ Idle.alone
BY Numbering DEF Idle, Checks

(* The status is 0 or 1 whatever was read.                                 *)
LEMMA StatusTyped == ASSUME NEW read PROVE Status(read) \in {0, 1}
BY DEF Status

(* Every step keeps the types.                                             *)
LEMMA TypeStep == TypeOK /\ [Next]_vars => TypeOK'
<1> SUFFICES ASSUME TypeOK, [Next]_vars PROVE TypeOK'
    OBVIOUS
<1> USE CrashesNatural, IdleTyped DEF TypeOK
<1>1. ASSUME NEW s \in Slots, Trigger(s) PROVE TypeOK'
  <2>1. \A b \in BOOLEAN : [Idle EXCEPT !.step = "ask", !.alone = b] \in Checks
        BY Numbering DEF Idle, Checks
  <2>2. \A u \in Slots : [check[u] EXCEPT !.alone = FALSE] \in Checks
        BY DEF Checks
  <2>3. check' \in [Slots -> Checks]
        BY <1>1, <2>1, <2>2 DEF Trigger
  <2>4. clean' \in BOOLEAN
        BY <1>1 DEF Trigger
  <2>. QED BY <1>1, <2>3, <2>4 DEF Trigger
<1>2. ASSUME NEW s \in Slots, Ask(s) PROVE TypeOK'
  <2> DEFINE i == check[s].pos
             next == [step  |-> IF i = Len(Deps) THEN "status" ELSE "ask",
                      pos   |-> IF i = Len(Deps) THEN 1 ELSE i + 1,
                      read  |-> [check[s].read EXCEPT ![i] =
                                    IF Healthy(Deps[i]) THEN 1 ELSE 0],
                      alone |-> check[s].alone]
  <2>1. i \in Indices /\ check[s].read \in [Indices -> {0, 1}] /\ check[s].alone \in BOOLEAN
        BY DEF Checks
  <2>2. (IF i = Len(Deps) THEN 1 ELSE i + 1) \in Indices
        BY <2>1, Numbering DEF Indices
  <2>3. next.read \in [Indices -> {0, 1}]
        BY <2>1
  <2>4. next \in Checks
        BY <2>1, <2>2, <2>3 DEF Checks
  <2>5. check' = [check EXCEPT ![s] = next]
        BY <1>2 DEF Ask
  <2> HIDE DEF next
  <2>6. check' \in [Slots -> Checks]
        BY <2>4, <2>5
  <2>. QED BY <1>2, <2>6 DEF Ask
<1>3. ASSUME NEW s \in Slots, SetStatus(s) PROVE TypeOK'
  <2>1. [check[s] EXCEPT !.step = "set"] \in Checks
        BY DEF Checks
  <2>2. check' \in [Slots -> Checks]
        BY <1>3, <2>1 DEF SetStatus
  <2>. QED BY <1>3, <2>2, StatusTyped DEF SetStatus
<1>4. ASSUME NEW s \in Slots, SetAvailability(s) PROVE TypeOK'
  <2> DEFINE i == check[s].pos
  <2>1. i \in Indices /\ check[s].read[i] \in {0, 1} /\ check[s].alone \in BOOLEAN
        BY DEF Checks
  <2>0. i # Len(Deps) => i + 1 \in Indices
        BY <2>1, Numbering DEF Indices
  <2>2. i # Len(Deps) => [check[s] EXCEPT !.pos = i + 1] \in Checks
        BY <2>0, check[s] \in Checks DEF Checks
  <2>3. check' \in [Slots -> Checks]
        BY <1>4, <2>2 DEF SetAvailability
  <2>4. available' \in [Indices -> {Unset, 0, 1}]
        BY <1>4, <2>1 DEF SetAvailability
  <2>5. clean' \in BOOLEAN
        BY <1>4, <2>1 DEF SetAvailability
  <2>. QED BY <1>4, <2>3, <2>4, <2>5 DEF SetAvailability
<1>5. CASE MongoChanges BY <1>5 DEF MongoChanges
<1>6. ASSUME NEW d \in {"post", "comment"}, ServiceChanges(d) PROVE TypeOK'
      BY <1>6 DEF ServiceChanges
<1>7. CASE Crash BY <1>7 DEF Crash
<1>8. CASE UNCHANGED vars BY <1>8 DEF vars
<1>. QED BY <1>1, <1>2, <1>3, <1>4, <1>5, <1>6, <1>7, <1>8 DEF Next, Run

(* The initial state satisfies IInv.                                       *)
LEMMA InitInv == Init => IInv
<1> SUFFICES ASSUME Init PROVE IInv
    OBVIOUS
<1>1. TypeOK
      BY IdleTyped, CrashesNatural DEF Init, TypeOK
<1>. QED BY <1>1, IdleTyped
         DEF Init, IInv, Alone, SetAsRead, AgreeUnlessOverlapped, Busy

(* Every variable keeps its type, whatever checks overlap.                 *)
THEOREM TypeCorrect == Spec => []TypeOK
<1>1. Init => TypeOK BY InitInv DEF IInv
<1>. QED BY <1>1, TypeStep, PTL DEF Spec

-----------------------------------------------------------------------------
(* Every step preserves the other parts of IInv.                           *)
LEMMA StepInv == IInv /\ [Next]_vars => IInv'
<1> SUFFICES ASSUME IInv, [Next]_vars PROVE IInv'
    OBVIOUS
<1> DEFINE Rest == Alone /\ SetAsRead /\ AgreeUnlessOverlapped
<1>0. TypeOK /\ TypeOK' /\ Rest
      BY TypeStep DEF IInv
<1>a. check \in [Slots -> Checks] /\ check' \in [Slots -> Checks]
      BY <1>0 DEF TypeOK
<1> USE DEF Alone, SetAsRead, AgreeUnlessOverlapped, Busy
<1>1. ASSUME NEW s \in Slots, Trigger(s) PROVE Rest'
  <2>1. ASSUME NEW u \in Slots \ {s}
        PROVE  /\ check'[u].step = check[u].step /\ check'[u].pos = check[u].pos
               /\ Busy(u) => ~check'[u].alone
    <3>0. check[u] \in Checks BY <1>a
    <3>1. CASE Busy(u)
      <4>1. check'[u] = [check[u] EXCEPT !.alone = FALSE]
            BY <1>1, <3>1 DEF Trigger
      <4>. QED BY <3>0, <4>1 DEF Checks
    <3>2. CASE ~Busy(u)
      <4>1. check'[u] = check[u]
            BY <1>1, <3>2 DEF Trigger
      <4>. QED BY <3>2, <4>1
    <3>. QED BY <3>1, <3>2
  <2>2. /\ check'[s].step = "ask"
        /\ (\E u \in Slots : Busy(u)) => ~check'[s].alone
        /\ ~(\E u \in Slots : Busy(u)) => check'[s].alone
        BY <1>1, <1>a DEF Trigger, Idle
  <2>3. ~Busy(s) /\ clean' = (clean /\ ~\E u \in Slots : Busy(u))
        /\ health' = health /\ available' = available
        BY <1>1 DEF Trigger
  <2>4. \A t, u \in Slots : t # u /\ Busy(t)' /\ Busy(u)' => ~check'[t].alone
    <3> SUFFICES ASSUME NEW t \in Slots, NEW u \in Slots, t # u, Busy(t)', Busy(u)'
                 PROVE  ~check'[t].alone
        OBVIOUS
    <3>1. CASE t = s
      <4>1. Busy(u) BY <2>1, <3>1
      <4>. QED BY <2>2, <3>1, <4>1
    <3>2. CASE t # s
      <4>1. Busy(t) BY <2>1, <3>2
      <4>. QED BY <2>1, <3>2, <4>1
    <3>. QED BY <3>1, <3>2
  <2>5. \A t \in Slots : clean' /\ Busy(t)' => check'[t].alone
        BY <2>1, <2>2, <2>3
  <2>6. Alone'
        BY <2>4, <2>5
  <2>7. SetAsRead'
        BY <1>0, <2>1, <2>2
  <2>8. AgreeUnlessOverlapped'
        BY <2>2
  <2>. QED BY <2>6, <2>7, <2>8
<1>2. ASSUME NEW s \in Slots, Ask(s) PROVE Rest'
  <2>1. /\ check'[s].step \in {"ask", "status"} /\ check'[s].alone = check[s].alone
        /\ check'[s].step = "status" => check'[s].pos = 1
        /\ \A u \in Slots \ {s} : check'[u] = check[u]
        /\ check[s].step = "ask"
        /\ UNCHANGED <<health, available, clean>>
        BY <1>2, <1>a DEF Ask
  <2>2. Alone'
        BY <1>0, <2>1
  <2>3. SetAsRead'
        BY <1>0, <2>1
  <2>4. AgreeUnlessOverlapped'
        BY <2>1
  <2>. QED BY <2>2, <2>3, <2>4
<1>3. ASSUME NEW s \in Slots, SetStatus(s) PROVE Rest'
  <2>1. /\ check'[s].step = "set" /\ check'[s].alone = check[s].alone
        /\ check'[s].read = check[s].read /\ check'[s].pos = check[s].pos
        /\ \A u \in Slots \ {s} : check'[u] = check[u]
        BY <1>3, <1>a DEF SetStatus, Checks
  <2>2. /\ check[s].step = "status" /\ check[s].pos = 1
        /\ health' = Status(check[s].read) /\ clean' = clean
        BY <1>0, <1>3 DEF SetStatus
  <2>3. Alone'
        BY <1>0, <2>1, <2>2
  <2>4. SetAsRead'
    <3>1. ASSUME NEW u \in Slots \ {s}
          PROVE  ~(check'[u].alone /\ check'[u].step = "set")
          BY <1>0, <2>1, <2>2, <3>1
    <3>2. \A k \in Indices : ~(k < check'[s].pos)
          BY <2>1, <2>2 DEF Indices
    <3>. QED BY <1>0, <2>1, <2>2, <3>1, <3>2
  <2>5. AgreeUnlessOverlapped'
        BY <2>1
  <2>. QED BY <2>3, <2>4, <2>5
<1>4. ASSUME NEW s \in Slots, SetAvailability(s) PROVE Rest'
  <2> DEFINE i == check[s].pos
  <2>0. /\ i \in Indices /\ Indices \subseteq Int /\ Len(Deps) \in Int
        /\ \A j \in Indices : j <= Len(Deps)
        /\ available \in [Indices -> {Unset, 0, 1}]
        BY <1>0, <1>a, Numbering DEF Checks, Indices, TypeOK
  <2>1. /\ \A u \in Slots \ {s} : check'[u] = check[u]
        /\ check[s].step = "set"
        /\ available' = [available EXCEPT ![i] = check[s].read[i]]
        /\ health' = health
        BY <1>4, <1>a DEF SetAvailability
  <2>2. CASE i = Len(Deps)
    <3>1. /\ check'[s] = Idle
          /\ clean' = (clean \/ check[s].alone)
          BY <1>4, <1>a, <2>2 DEF SetAvailability
    <3>2. Alone'
          BY <1>0, <2>1, <3>1, IdleTyped
    <3>3. SetAsRead'
      <4>1. ASSUME NEW u \in Slots \ {s}
            PROVE  ~(check'[u].alone /\ check'[u].step = "set")
            BY <1>0, <2>1, <4>1
      <4>2. \A u \in Slots : check'[u].step = "status" => check'[u].pos = 1
            BY <1>0, <2>1, <3>1, IdleTyped
      <4>. QED BY <3>1, <4>1, <4>2, IdleTyped
    <3>4. AgreeUnlessOverlapped'
      <4>1. SUFFICES ASSUME clean', \A u \in Slots : ~Busy(u)'
                     PROVE  health = 1 <=> \A j \in Indices : available'[j] = 1
            BY <2>1
      <4>2. check[s].alone
            BY <1>0, <2>1, <3>1, <4>1
      <4>3. health = Status(check[s].read)
            BY <1>0, <2>1, <4>2
      <4>4. \A j \in Indices : available'[j] = check[s].read[j]
            BY <1>0, <2>0, <2>1, <2>2, <4>2
      <4>. QED BY <4>3, <4>4 DEF Status
    <3>. QED BY <3>2, <3>3, <3>4
  <2>3. CASE i # Len(Deps)
    <3>1. check'[s] = [check[s] EXCEPT !.pos = i + 1] /\ clean' = clean
          BY <1>4, <1>a, <2>3, <1>0 DEF SetAvailability, TypeOK
    <3>2. /\ check'[s].step = "set" /\ check'[s].pos = i + 1
          /\ check'[s].read = check[s].read /\ check'[s].alone = check[s].alone
          BY <2>1, <3>1, <1>a DEF Checks
    <3>a. clean' = clean
          BY <3>1
    <3>3. Alone'
          BY <1>0, <2>1, <3>2, <3>a
    <3>4. SetAsRead'
      <4>1. ASSUME check'[s].alone
            PROVE  /\ health' = Status(check'[s].read)
                   /\ \A k \in Indices : k < check'[s].pos => available'[k] = check'[s].read[k]
        <5>1. health = Status(check[s].read) /\ \A k \in Indices :
                    k < i => available[k] = check[s].read[k]
              BY <1>0, <2>1, <3>2, <4>1
        <5>2. ASSUME NEW k \in Indices, k < i + 1
              PROVE  available'[k] = check[s].read[k]
          <6>1. k = i \/ k < i BY <2>0, <5>2
          <6>. QED BY <2>0, <2>1, <5>1, <6>1
        <5>. QED BY <2>1, <3>2, <5>1, <5>2
      <4>2. ASSUME NEW u \in Slots \ {s}
            PROVE  ~(check'[u].alone /\ check'[u].step = "set")
            BY <1>0, <2>1, <4>2
      <4>3. \A u \in Slots : check'[u].step = "status" => check'[u].pos = 1
            BY <1>0, <2>1, <3>2
      <4>. QED BY <3>2, <4>1, <4>2, <4>3
    <3>5. AgreeUnlessOverlapped'
          BY <3>2
    <3>. QED BY <3>3, <3>4, <3>5
  <2>. QED BY <2>2, <2>3
<1>5. ASSUME MongoChanges PROVE Rest' BY <1>0, <1>5 DEF MongoChanges
<1>6. ASSUME NEW d \in {"post", "comment"}, ServiceChanges(d) PROVE Rest'
      BY <1>0, <1>6 DEF ServiceChanges
<1>7. ASSUME Crash PROVE Rest' BY <1>0, <1>7, IdleTyped DEF Crash
<1>8. ASSUME UNCHANGED vars PROVE Rest' BY <1>0, <1>8 DEF vars
<1>9. Rest'
      BY <1>1, <1>2, <1>3, <1>4, <1>5, <1>6, <1>7, <1>8 DEF Next, Run
<1>. QED BY <1>0, <1>9 DEF IInv

(* While no check runs the gauges agree unless the last checks overlapped. *)
THEOREM GaugesAgree == Spec => []AgreeUnlessOverlapped
<1>1. IInv => AgreeUnlessOverlapped BY DEF IInv
<1>. QED BY InitInv, StepInv, <1>1, PTL DEF Spec

-----------------------------------------------------------------------------
(* A scheduler that starts no check while one runs (rufus-scheduler's      *)
(* overlap: false, which neither service asks for).                        *)

Agree ==
    (\A s \in Slots : ~Busy(s)) /\ health # Unset =>
        (health = 1 <=> \A i \in Indices : available[i] = 1)

(* With one slot no check ever overlaps another, and the gauges agree      *)
(* whenever no check runs: the overlapping checks are the only cause of a  *)
(* status that contradicts the gauges of the dependencies.                 *)
THEOREM OneSlotAgrees ==
    ASSUME \A s, u \in Slots : s = u
    PROVE  Spec => []Agree
<1>1. Init => clean
      BY DEF Init
<1>2. TypeOK /\ clean /\ [Next]_vars => clean'
  <2> SUFFICES ASSUME clean, [Next]_vars PROVE clean'
      OBVIOUS
  <2>1. ASSUME NEW s \in Slots, Trigger(s) PROVE clean'
        BY <2>1 DEF Trigger
  <2>. QED BY <2>1 DEF Next, Run, Ask, SetStatus, SetAvailability, MongoChanges,
                      ServiceChanges, Crash, vars
<1>3. IInv /\ clean => Agree
      BY DEF IInv, AgreeUnlessOverlapped, Agree
<1>4. IInv => TypeOK
      BY DEF IInv
<1>. QED BY InitInv, StepInv, <1>1, <1>2, <1>3, <1>4, PTL DEF Spec
=============================================================================
