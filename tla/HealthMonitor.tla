--------------------------- MODULE HealthMonitor ---------------------------
(***************************************************************************)
(* The periodic health check of one process.  Every five seconds a         *)
(* rufus-scheduler thread asks each dependency in turn and then sets one   *)
(* gauge after another: first the status of the process itself, then that  *)
(* of each dependency (src/ui/ui_app.rb:62, src/comment/comment_app.rb:50).*)
(* The scheduler starts a check whether or not the last one is over, and a *)
(* dependency that does not answer holds a check up for its timeout, so    *)
(* checks may overlap and set the gauges in any order.                     *)
(*                                                                         *)
(* The ui depends on <<"post", "comment">>, whose own /healthcheck probes  *)
(* MongoDB on each call; the comment service depends on <<"mongo">>.       *)
(***************************************************************************)
EXTENDS Integers, Sequences, FiniteSets

CONSTANTS
    Slots,      \* scheduler threads a check may run on
    Deps,       \* the dependencies, in the order they are asked
    Faults,     \* faults the environment may inject
    MaxCrashes  \* bound on the crashes of the monitoring process

DepNames == {"post", "comment", "mongo"}

(* "mongo": MongoDB is unreachable for a while.  "service": a service dies. *)
(* "hang": the post service waits for Zipkin and answers nobody.  "crash":  *)
(* the monitoring process dies.                                             *)
ASSUME DepsKnown ==
    /\ Len(Deps) \in Nat \ {0}
    /\ Deps \in [1..Len(Deps) -> DepNames]
    /\ \A i, j \in 1..Len(Deps) : Deps[i] = Deps[j] => i = j
ASSUME FaultsKnown == Faults \subseteq {"mongo", "service", "hang", "crash"}
ASSUME CrashesNatural == MaxCrashes \in Nat

Unset == -1

VARIABLES
    mongo,     \* is MongoDB reachable
    service,   \* state of the two services
    check,     \* per slot, the check it runs
    health,    \* the gauge of the process's own status
    available, \* the gauge of each dependency
    crashes,
    clean      \* observer: FALSE from the moment two checks overlap until a
               \* check has run alone

vars == <<mongo, service, check, health, available, crashes, clean>>

Indices == 1..Len(Deps)

Idle == [step |-> "idle", pos |-> 1, read |-> [i \in Indices |-> 0], alone |-> TRUE]

Init ==
    /\ mongo = "up"
    /\ service = [d \in {"post", "comment"} |-> "up"]
    /\ check = [s \in Slots |-> Idle]
    /\ health = Unset
    /\ available = [i \in Indices |-> Unset]
    /\ crashes = 0
    /\ clean = TRUE

Busy(s) == check[s].step # "idle"

\* What a dependency's health check answers; no answer counts as 0.
Healthy(d) == mongo = "up" /\ (d = "mongo" \/ service[d] = "up")

\* Faulty variants: the number of dependencies up; || instead of &&; the gauge
\* is only set on success.
StatusCount(read) == Cardinality({i \in Indices : read[i] = 1})
StatusAny(read) == IF \E i \in Indices : read[i] = 1 THEN 1 ELSE 0

StatusOnSuccess(read) == IF \A i \in Indices : read[i] = 1 THEN 1 ELSE health

\* 1 when every dependency answered 1.
Status(read) == IF \A i \in Indices : read[i] = 1 THEN 1 ELSE 0

-----------------------------------------------------------------------------
\* scheduler.every '5s': checks already running do not hold a new one back.
Trigger(s) ==
    /\ ~Busy(s)
    /\ LET overlapping == \E u \in Slots : Busy(u)
       IN  /\ check' = [u \in Slots |->
                IF u = s THEN [Idle EXCEPT !.step = "ask", !.alone = ~overlapping]
                ELSE IF Busy(u) THEN [check[u] EXCEPT !.alone = FALSE]
                ELSE check[u]]
           /\ clean' = (clean /\ ~overlapping)
    /\ UNCHANGED <<mongo, service, health, available, crashes>>

\* check_service_health, or the comment service's own query to MongoDB.
Ask(s) ==
    /\ check[s].step = "ask"
    /\ LET i == check[s].pos IN
       check' = [check EXCEPT ![s] =
            [step  |-> IF i = Len(Deps) THEN "status" ELSE "ask",
             pos   |-> IF i = Len(Deps) THEN 1 ELSE i + 1,
             read  |-> [@.read EXCEPT ![i] = IF Healthy(Deps[i]) THEN 1 ELSE 0],
             alone |-> @.alone]]
    /\ UNCHANGED <<mongo, service, health, available, crashes, clean>>

SetStatus(s) ==
    /\ check[s].step = "status"
    /\ health' = Status(check[s].read)
    /\ check' = [check EXCEPT ![s].step = "set"]
    /\ UNCHANGED <<mongo, service, available, crashes, clean>>

SetAvailability(s) ==
    /\ check[s].step = "set"
    /\ LET i == check[s].pos IN
       /\ available' = [available EXCEPT ![i] = check[s].read[i]]
       /\ check' = [check EXCEPT ![s] =
                IF i = Len(Deps) THEN Idle ELSE [@ EXCEPT !.pos = i + 1]]
       /\ clean' = (clean \/ (i = Len(Deps) /\ check[s].alone))
    /\ UNCHANGED <<mongo, service, health, crashes>>

-----------------------------------------------------------------------------
MongoChanges ==
    /\ "mongo" \in Faults
    /\ mongo' = IF mongo = "up" THEN "down" ELSE "up"
    /\ UNCHANGED <<service, check, health, available, crashes, clean>>

ServiceChanges(d) ==
    /\ \E new \in {"up"} \cup (IF "service" \in Faults THEN {"down"} ELSE {})
            \cup (IF "hang" \in Faults /\ d = "post" THEN {"hung"} ELSE {}) :
        new # service[d] /\ service' = [service EXCEPT ![d] = new]
    /\ UNCHANGED <<mongo, check, health, available, crashes, clean>>

\* The process dies and is started again, with no gauge set.
Crash ==
    /\ "crash" \in Faults /\ crashes < MaxCrashes
    /\ crashes' = crashes + 1
    /\ check' = [s \in Slots |-> Idle]
    /\ health' = Unset
    /\ available' = [i \in Indices |-> Unset]
    /\ clean' = TRUE
    /\ UNCHANGED <<mongo, service>>

Run(s) == Ask(s) \/ SetStatus(s) \/ SetAvailability(s)

Next ==
    \/ \E s \in Slots : Trigger(s) \/ Run(s)
    \/ MongoChanges \/ (\E d \in {"post", "comment"} : ServiceChanges(d)) \/ Crash

Spec == Init /\ [][Next]_vars

\* The scheduler keeps its period, and every call of a check has a timeout:
\* Faraday's, or the two seconds of MongoDB's server selection.
FairSpec ==
    /\ Spec
    /\ WF_vars(\E s \in Slots : Trigger(s))
    /\ \A s \in Slots : WF_vars(Run(s))

-----------------------------------------------------------------------------
(* Properties.                                                             *)

Checks == [step : {"idle", "ask", "status", "set"}, pos : Indices,
           read : [Indices -> {0, 1}], alone : BOOLEAN]

\* Every variable keeps its type (the gauges of ui_app.rb:44).
TypeOK ==
    /\ mongo \in {"up", "down"}
    /\ service \in [{"post", "comment"} -> {"up", "down", "hung"}]
    /\ check \in [Slots -> Checks]
    /\ health \in {Unset, 0, 1}
    /\ available \in [Indices -> {Unset, 0, 1}]
    /\ crashes \in 0..MaxCrashes
    /\ clean \in BOOLEAN

\* While no check runs, the status gauge is 1 exactly if those of all
\* dependencies are, unless the last checks overlapped (ui_app.rb:64-66,
\* comment_app.rb:52-53 set them one by one, without a lock).
AgreeUnlessOverlapped ==
    clean /\ (\A s \in Slots : ~Busy(s)) /\ health # Unset =>
        (health = 1 <=> \A i \in Indices : available[i] = 1)

\* The gauges come to tell the truth and keep telling it: once a dependency
\* has stopped changing they show its state for good, however many checks were
\* under way when it last changed (check_service_health, ui/helpers.rb:65).
Settles ==
    /\ \A i \in Indices :
        /\ <>[]Healthy(Deps[i])  => <>[](available[i] = 1)
        /\ <>[]~Healthy(Deps[i]) => <>[](available[i] = 0)
    /\ <>[](\A i \in Indices : Healthy(Deps[i])) => <>[](health = 1)
    /\ (\E i \in Indices : <>[]~Healthy(Deps[i])) => <>[](health = 0)

=============================================================================
