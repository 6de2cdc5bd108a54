--------------------------- MODULE MCProvisioning ---------------------------
(* Instances of the provisioning for TLC. *)
EXTENDS Provisioning

Node(name, zone, tags, size, image, status, private, public) ==
    [name |-> name, zone |-> zone, tags |-> tags, network |-> "net", size |-> size,
     image |-> image, status |-> status, private |-> private, public |-> public]

\* A controller, and a worker without image and public address.
MCFleet ==
    << Node("c0", "b", <<"k8s", "controller">>, "n1", "ubuntu", "RUNNING", <<"10.0.0.10">>, <<"1.1.1.1">>),
       Node("w0", "b", <<"group-old", "worker">>, "f1", "", "PROVISIONING", <<"10.0.0.20">>, <<>>) >>

MCGroupTags == [t \in {"group-old"} |-> "old"]

Filter == [tags |-> {"controller", "master"}, zones |-> {"d", "e"}, ip |-> "internal"]

\* --list, and a forced refresh with a filter that shows one host.
MCAsks == {List, [refresh |-> TRUE, host |-> "c0", filter |-> Filter]}

Symmetric == Permutations(Runs)
=============================================================================
