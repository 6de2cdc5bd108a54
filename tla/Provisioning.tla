----------------------------- MODULE Provisioning -----------------------------
(***************************************************************************)
(* Playbooks of kubernetes/ansible run over gce.py: ansible-playbook runs  *)
(* the script once, and every loop of the playbook goes over the groups    *)
(* it printed.  "configure" is main.yml, which first needs both groups and *)
(* then visits their hosts; "cleanup" is playbooks/cleanup.yml.            *)
(* gce_provision.yml makes no use of the groups and is RunScript, its      *)
(* creations, which gcloud completes later (--async), are CloudChanges.    *)
(***************************************************************************)
EXTENDS Inventory

CONSTANTS
    Zone,     \* the zone gcloud is configured with
    Books,    \* playbooks people run
    MaxMoves  \* bound on the changes made by others

AllBooks == {"configure", "cleanup"}

ASSUME BooksKnown == Books \subseteq AllBooks
ASSUME MaxMovesNatural == MaxMoves \in Nat

\* The playbooks' tags have no group- prefix; the rest is about strings.
ASSUME ClusterTags ==
    /\ {"controller", "worker"} \cap DOMAIN GroupTags = {}
    /\ "tag_" \o "controller" = "tag_controller" /\ "tag_" \o "worker" = "tag_worker"

VARIABLES
    play,  \* per process, its playbook: the loops it has left, each with the
           \* items it has left; whether no item has failed; instances whose
           \* command succeeded, and those on which it failed
    moves  \* changes made by others so far (bounded)

vars == <<now, cloud, changed, file, job, starts, cut, play, moves>>

NoPlay == [book |-> "none", loops |-> <<>>, ok |-> TRUE, reached |-> {},
           failed |-> {}]

Init == InvInit /\ play = [r \in Runs |-> NoPlay] /\ moves = 0

-----------------------------------------------------------------------------
\* ansible-playbook runs the script with --list, people as they like.
RunScript(r) ==
    /\ \E args \in Asks : Start(r, args)
    /\ UNCHANGED <<play, moves>>

GroupsOf(r) == Printed(job[r].data).groups

\* Faulty variant: the loop is over the workers only.
WorkersOnly(groups) == Members(groups, "tag_worker")

\* groups['tag_controller'] | union(groups['tag_worker']), each host once.
ClusterHosts(groups) ==
    SetToSeq(ToSet(Members(groups, "tag_controller")) \cup ToSet(Members(groups, "tag_worker")))

Loops(book, groups) ==
    IF book = "cleanup" THEN <<ClusterHosts(groups)>>
    ELSE <<Members(groups, "tag_worker"), Members(groups, "tag_controller")>>

\* Looping over an undefined variable fails before any host is reached.
GroupsDefined(groups) == {"tag_controller", "tag_worker"} \subseteq DOMAIN groups

EnterLoop(r) ==
    /\ job[r].step = "printed" /\ job[r].args = List
    /\ play[r] = NoPlay
    /\ \E b \in Books : play' = [play EXCEPT ![r] =
        IF GroupsDefined(GroupsOf(r))
        THEN [NoPlay EXCEPT !.book = b, !.loops = Loops(b, GroupsOf(r))]
        ELSE [NoPlay EXCEPT !.book = "undefined", !.ok = FALSE]]
    /\ UNCHANGED <<invVars, moves>>

\* gcloud finds the host of an item by its name in the configured zone.
Item(r) == {i \in cloud : /\ Fleet[i].name = play[r].loops[1][1]
                          /\ Fleet[i].zone = Zone}

\* gcloud deletes the host, or logs in to it.
ItemSucceeds(r) ==
    /\ Item(r) # {}
    /\ play' = [play EXCEPT ![r].loops[1] = Tail(@), ![r].reached = @ \cup Item(r)]
    /\ IF play[r].book = "cleanup"
       THEN \E i \in Item(r) : Vanish(i)
       ELSE UNCHANGED <<cloud, changed>>

\* There is no such host, or the API, a quota or the network refuses gcloud,
\* which may lose the answer to a deletion that is carried out.
ItemFails(r) ==
    /\ play' = [play EXCEPT ![r].loops[1] = Tail(@), ![r].ok = FALSE,
                           ![r].failed = @ \cup Item(r)]
    /\ \/ UNCHANGED <<cloud, changed>>
       \/ play[r].book = "cleanup" /\ \E i \in Item(r) : Vanish(i)

\* An item that fails does not end its loop.
LoopItem(r) ==
    /\ play[r].loops # <<>> /\ play[r].loops[1] # <<>>
    /\ ItemSucceeds(r) \/ ItemFails(r)
    /\ UNCHANGED <<now, file, job, starts, cut, moves>>

\* After a loop with failed items the playbook stops.
EndLoop(r) ==
    /\ play[r].loops # <<>> /\ play[r].loops[1] = <<>>
    /\ play' = [play EXCEPT ![r].loops = IF play[r].ok THEN Tail(@) ELSE <<>>]
    /\ UNCHANGED <<invVars, moves>>

\* The output was only looked at, or the playbook is over.
Quit(r) ==
    /\ play[r].loops = <<>>
    /\ Leave(r)
    /\ play' = [play EXCEPT ![r] = NoPlay]
    /\ UNCHANGED moves

Play(r) == EnterLoop(r) \/ LoopItem(r) \/ EndLoop(r)

\* gcloud's pending creations, other people, the console.
CloudChanges ==
    /\ moves < MaxMoves
    /\ moves' = moves + 1
    /\ \E i \in Instances : Appear(i) \/ Vanish(i)
    /\ UNCHANGED <<now, file, job, starts, cut, play>>

Next ==
    \/ \E r \in Runs : RunScript(r) \/ Play(r) \/ Quit(r)
    \/ \E r \in Runs : Script(r) /\ UNCHANGED <<play, moves>>
    \/ Tick /\ UNCHANGED <<play, moves>>
    \/ CloudChanges

Spec == Init /\ [][Next]_vars

-----------------------------------------------------------------------------
(* Properties.                                                             *)

TypeOK ==
    /\ InvTypeOK
    /\ play \in [Runs -> [book : AllBooks \cup {"none", "undefined"},
                          loops : Seq(Seq(Names)), ok : BOOLEAN,
                          reached : SUBSET Instances, failed : SUBSET Instances]]
    /\ moves \in 0 .. MaxMoves

\* Controllers and workers that gcloud reaches and the inventory may list.
Cluster == {i \in Instances :
    /\ Fleet[i].zone = Zone /\ Visible(Fleet[i], Unfiltered)
    /\ {"controller", "worker"} \cap ToSet(Fleet[i].tags) # {}
    /\ InstanceStates = {} \/ Fleet[i].status \in InstanceStates}

\* Instances without a change a playbook's inventory could have missed.
Known(r) == {i \in Cluster : changed[i] <= Settled(r)}

Whole(r) == job[r].data.filter = Unfiltered

(* What README.md:643 and :645 hope for, with its limits.  Take the        *)
(* controllers and workers created at least cache_max_age plus the         *)
(* duration of one gce.py run before the playbook started, and suppose no  *)
(* filtered run wrote the cache.  When the loop of cleanup.yml is over,    *)
(* one of them that still exists was tried and its own deletion failed,    *)
(* and the playbook knows: no other item's failure spares it.  When        *)
(* main.yml has stopped without an error it has visited each of them.      *)
LoopsReachSettled ==
    \A r \in Runs : play[r].loops = <<>> /\ Whole(r) =>
        \A i \in Known(r) \cap cloud :
            /\ play[r].book = "cleanup" => i \in play[r].failed /\ ~play[r].ok
            /\ play[r].book = "configure" /\ play[r].ok => i \in play[r].reached

(* groups['tag_worker'] is undefined, the failure of README.md:645, only   *)
(* while there is no worker or no controller that is old enough: waiting   *)
(* cache_max_age and one run of gce.py between two playbooks is enough.    *)
UndefinedHasCause ==
    \A r \in Runs : play[r].book = "undefined" /\ Whole(r) =>
        \E t \in {"controller", "worker"} :
            \A i \in Known(r) \cap cloud : t \notin ToSet(Fleet[i].tags)
=============================================================================
