------------------------------ MODULE GceGroups ------------------------------
(***************************************************************************)
(* What kubernetes/ansible/inventory/gce.py makes of a list of instances:  *)
(* the groups Ansible loops over and the variables of each host.  An       *)
(* inventory is a function of the listed instances and of the filter of    *)
(* the run that listed them.                                               *)
(***************************************************************************)
EXTENDS Integers, SequencesExt

CONSTANTS
    Fleet,          \* instances that may exist, in the order the API lists
                    \* them: a sequence of records
    GroupTags,      \* tags 'group-<name>' |-> <name>
    InstanceStates  \* instance_states of gce.ini, {} for all

ASSUME FleetNotEmpty == Len(Fleet) \in Nat \ {0}

Instances == 1 .. Len(Fleet)

\* node_to_dict reads private_ips[0] of every instance.
ASSUME FleetTyped == \A i \in Instances :
    /\ Fleet[i].tags \in Seq(STRING)
    /\ Fleet[i].private \in Seq(STRING) /\ Fleet[i].private # <<>>
    /\ Fleet[i].public \in Seq(STRING)

Names == {Fleet[i].name : i \in Instances}

\* instance_tags, GCE_ZONE and inventory_ip_type of a run; {} filters nothing.
Unfiltered == [tags |-> {}, zones |-> {}, ip |-> "external"]

Lower == [PROVISIONING |-> "provisioning", RUNNING |-> "running",
          TERMINATED |-> "terminated"]

\* Faulty variants: an instance needs all the tags; tags prefixed 'group_'.
AllTags(n, tags) == tags \subseteq ToSet(n.tags)
PrefixedGroup(t) == "group_" \o t

\* At least one tag, or no tag asked for.
SomeTag(n, tags) == tags = {} \/ tags \cap ToSet(n.tags) # {}

Selected(n, filter) ==
    /\ InstanceStates = {} \/ n.status \in InstanceStates
    /\ SomeTag(n, filter.tags)

InZones(n, filter) == filter.zones = {} \/ n.zone \in filter.zones

TagGroup(t) == IF t \in DOMAIN GroupTags THEN GroupTags[t] ELSE "tag_" \o t

ImageGroup(n) == IF n.image = "" THEN "persistent_disk" ELSE n.image

\* The groups an instance is appended to.
Labels(n) == <<n.zone>> \o [k \in DOMAIN n.tags |-> TagGroup(n.tags[k])]
    \o <<"network_" \o n.network, n.size, ImageGroup(n), "status_" \o Lower[n.status]>>

\* The groups an instance gets for itself, whoever was in them.
Addresses(n) == ToSet(n.private \o n.public)

\* The names of zones, networks, sizes, images and tags have no dots.
ASSUME LabelsNoAddresses == \A i, j \in Instances :
    ToSet(Labels(Fleet[i])) \cap Addresses(Fleet[j]) = {}

SshHost(n, ip) ==
    IF ip = "internal" \/ n.public = <<>> THEN n.private[1] ELSE n.public[1]

NodeToDict(i, ip) == [node |-> i, ansible_ssh_host |-> SshHost(Fleet[i], ip)]

Members(groups, label) == IF label \in DOMAIN groups THEN groups[label] ELSE <<>>

AppendTo(groups, n) ==
    LET labels == Labels(n)
        Times(l) == Cardinality({m \in DOMAIN labels : labels[m] = l})
    IN  [l \in DOMAIN groups \cup ToSet(labels) \cup Addresses(n) |->
            IF l \in Addresses(n) THEN <<n.name>>
            ELSE Members(groups, l) \o [k \in 1 .. Times(l) |-> n.name]]

\* The zones are looked at after the host's variables are stored.
GroupInstance(inventory, i, filter) ==
    IF ~Selected(Fleet[i], filter) THEN inventory
    ELSE [hostvars |-> [h \in DOMAIN inventory.hostvars \cup {Fleet[i].name} |->
                            IF h = Fleet[i].name THEN NodeToDict(i, filter.ip)
                            ELSE inventory.hostvars[h]],
          groups |-> IF InZones(Fleet[i], filter)
                     THEN AppendTo(inventory.groups, Fleet[i])
                     ELSE inventory.groups]

\* What the loop over list_nodes() has made of the first k instances.
Inventories(nodes, filter) ==
    LET inventory[k \in 0 .. Len(Fleet)] ==
            IF k = 0 THEN [hostvars |-> << >>, groups |-> << >>]
            ELSE IF k \in nodes THEN GroupInstance(inventory[k - 1], k, filter)
            ELSE inventory[k - 1]
    IN  inventory

GroupInstances(nodes, filter) == Inventories(nodes, filter)[Len(Fleet)]

-----------------------------------------------------------------------------
(* What the playbooks rely on.                                             *)

Distinct(nodes) == \A i, j \in nodes : i # j =>
    /\ Fleet[i].name # Fleet[j].name
    /\ Addresses(Fleet[i]) \cap Addresses(Fleet[j]) = {}

(* A host has variables exactly when some listed instance of its name has  *)
(* one of the tags asked for, and a group has only hosts with variables;   *)
(* unless instances of two zones or networks share a name or an address,   *)
(* a host is in a group exactly when it has that label or address and its  *)
(* zone was asked for, and the address Ansible connects to leads to it.    *)
GroupsAgree(nodes, filter) ==
    LET inventory == GroupInstances(nodes, filter)
        hosts == {i \in nodes : /\ InstanceStates = {} \/ Fleet[i].status \in InstanceStates
                                /\ filter.tags = {} \/ \E t \in filter.tags :
                                                  t \in ToSet(Fleet[i].tags)}
    IN  /\ DOMAIN inventory.hostvars = {Fleet[i].name : i \in hosts}
        /\ Distinct(nodes) => \A i \in hosts, l \in DOMAIN inventory.groups :
            LET own == InZones(Fleet[i], filter)
                           /\ l \in ToSet(Labels(Fleet[i])) \cup Addresses(Fleet[i])
            IN  Fleet[i].name \in ToSet(inventory.groups[l]) <=> own
        /\ \A l \in DOMAIN inventory.groups :
            ToSet(inventory.groups[l]) \subseteq DOMAIN inventory.hostvars
        /\ Distinct(nodes) => \A i \in hosts : InZones(Fleet[i], filter) =>
            inventory.groups[inventory.hostvars[Fleet[i].name].ansible_ssh_host]
                = <<Fleet[i].name>>
=============================================================================
