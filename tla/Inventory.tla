------------------------------ MODULE Inventory ------------------------------
(***************************************************************************)
(* Runs of kubernetes/ansible/inventory/gce.py on one machine.  A run      *)
(* serves the cache file while it is young enough, and otherwise lists the *)
(* instances page by page and rewrites the file in place: open() empties   *)
(* it, and the text arrives when the file is closed.  Nothing locks it.    *)
(* The file does not say which filter it was made with.  The driver lists  *)
(* one zone, GCE_ZONE or else gce_zone of gce.ini, unless GCE_ZONE names   *)
(* several, which it takes for no zone at all: then it lists every zone.   *)
(***************************************************************************)
EXTENDS GceGroups

CONSTANTS
    Runs,     \* processes that run the script, one run after the other
    NoHost,   \* no --host
    Asks,     \* arguments and filters people run the script with
    GceZone,  \* gce_zone of gce.ini
    MaxAge,   \* cache_max_age
    MaxRun,   \* the longest a run takes
    PageSize, \* maxResults
    MaxTime,  \* bound on the clock
    MaxStarts \* bound on the runs

List == [refresh |-> FALSE, host |-> NoHost, filter |-> Unfiltered]

ASSUME BoundsNatural ==
    /\ MaxAge \in Nat /\ MaxRun \in Nat \ {0}
    /\ MaxTime \in Nat /\ MaxStarts \in Nat
    /\ PageSize \in Nat \ {0}
ASSUME NoHostNoName == NoHost \notin Names
ASSUME AsksPlain == List \in Asks

VARIABLES
    now,     \* the clock
    cloud,   \* instances that exist
    changed, \* when each instance was last created or deleted
    file,    \* the cache file: its text, the inventory in it, its mtime
    job,     \* the run of each process and its next step
    starts,  \* runs so far (bounded)
    cut      \* observer: when a write was last cut short, or landed on
             \* another run's

invVars == <<now, cloud, changed, file, job, starts, cut>>

Steps == {"idle", "check", "load", "list", "write", "print",
          "printed"}
Running == Steps \ {"idle", "printed"}

\* An inventory is what GroupInstances makes of listed instances and a filter.
NoData == [nodes |-> {}, filter |-> Unfiltered]

Idle == [step |-> "idle", args |-> List, started |-> 0, cursor |-> 0,
         data |-> NoData]

\* GCE keeps names unique within a zone.
Clash(i, j) == i # j /\ Fleet[i].name = Fleet[j].name /\ Fleet[i].zone = Fleet[j].zone

Clouds == {c \in SUBSET Instances : \A i, j \in c : ~Clash(i, j)}

InvInit ==
    /\ now = 0
    /\ cloud \in Clouds
    /\ changed = [i \in Instances |-> 0]
    /\ file = [text |-> "none", data |-> NoData, mtime |-> 0]
    /\ job = [r \in Runs |-> Idle]
    /\ starts = 0
    /\ cut = -MaxAge

-----------------------------------------------------------------------------
(* The world around the script.                                            *)

\* Time passes while every run is within MaxRun of its start.
Tick ==
    /\ now < MaxTime
    /\ \A r \in Runs : job[r].step \in Running => now < job[r].started + MaxRun
    /\ now' = now + 1
    /\ UNCHANGED <<cloud, changed, file, job, cut, starts>>

Appear(i) ==
    /\ cloud' = cloud \cup {i}
    /\ i \notin cloud /\ \A j \in cloud : ~Clash(i, j)
    /\ changed' = [changed EXCEPT ![i] = now]

Vanish(i) ==
    /\ i \in cloud
    /\ cloud' = cloud \ {i}
    /\ changed' = [changed EXCEPT ![i] = now]

-----------------------------------------------------------------------------
(* The script.                                                             *)

Start(r, args) ==
    /\ job[r].step = "idle"
    /\ starts < MaxStarts
    /\ starts' = starts + 1
    /\ job' = [job EXCEPT ![r] = [step |-> "check", args |-> args,
                    started |-> now, cursor |-> 0, data |-> NoData]]
    /\ UNCHANGED <<now, cloud, changed, file, cut>>

\* Faulty variant: mod_time + max_age >= current_time.
ValidTooLong == file.text # "none" /\ file.mtime + MaxAge >= now

IsValid == file.text # "none" /\ file.mtime + MaxAge > now

ChooseSource(r) ==
    /\ job[r].step = "check"
    /\ job' = [job EXCEPT ![r].data.filter = job[r].args.filter,
        ![r].step = IF job[r].args.refresh \/ ~IsValid THEN "list" ELSE "load"]
    /\ UNCHANGED <<now, cloud, changed, file, cut, starts>>

\* Faulty variants: one page too many; all_nodes = list_nodes().
NextCursors(r) == job[r].cursor .. Len(Fleet) + 1

LastPage(r, end) == {i \in cloud : job[r].cursor < i /\ i <= end}

\* Whether the driver's datacenter lets list_nodes() see an instance.
Visible(n, filter) ==
    \/ Cardinality(filter.zones) > 1
    \/ n.zone \in (IF filter.zones = {} THEN {GceZone} ELSE filter.zones)

\* Where a page may end: the server may send fewer than maxResults.
PageEnds(r) == job[r].cursor + 1 .. Len(Fleet)

Page(r, end) == {i \in cloud : /\ job[r].cursor < i /\ i <= end
                               /\ Visible(Fleet[i], job[r].data.filter)}

\* all_nodes.extend(list_nodes())
Listed(r, end) == job[r].data.nodes \cup Page(r, end)

\* list_nodes(): one request per page, until there is no pageToken.
ListPage(r) ==
    /\ job[r].step = "list" /\ job[r].cursor < Len(Fleet)
    /\ \E end \in PageEnds(r) :
        /\ Cardinality(Page(r, end)) <= PageSize
        /\ job' = [job EXCEPT ![r].cursor = end, ![r].data.nodes = Listed(r, end)]
    /\ UNCHANGED <<now, cloud, changed, file, cut, starts>>

\* open(filename, 'w'), once the last page has been read.
EmptyFile(r) ==
    /\ job[r].step = "list" /\ job[r].cursor = Len(Fleet)
    /\ file' = [text |-> "empty", data |-> NoData, mtime |-> now]
    /\ job' = [job EXCEPT ![r].step = "write", ![r].cursor = 0]
    /\ UNCHANGED <<now, cloud, changed, cut, starts>>

\* Over the text of another run that opened the file too, a shorter text
\* leaves the end of the longer one.
WriteFile(r) ==
    /\ job[r].step = "write"
    /\ \/ file' = [text |-> "whole", data |-> job[r].data, mtime |-> now]
       \/ /\ file.text # "empty"
          /\ file' = [text |-> "garbled", data |-> NoData, mtime |-> now]
    /\ cut' = IF file.text = "empty" THEN cut ELSE now
    /\ job' = [job EXCEPT ![r].step = "print"]
    /\ UNCHANGED <<now, cloud, changed, starts>>

\* The file is read some time after is_valid() looked at it; an exception
\* ends the run, and the playbook that waits for it.
LoadFile(r) ==
    /\ job[r].step = "load"
    /\ job' = IF file.text = "whole"
              THEN [job EXCEPT ![r].step = "print", ![r].data = file.data]
              ELSE [job EXCEPT ![r] = Idle]
    /\ UNCHANGED <<now, cloud, changed, file, cut, starts>>

Printed(data) == GroupInstances(data.nodes, data.filter)

\* --host looks the host up in hostvars, which raises KeyError.
PrintInventory(r) ==
    /\ job[r].step = "print"
    /\ job' = IF job[r].args.host \in {NoHost} \cup DOMAIN Printed(job[r].data).hostvars
              THEN [job EXCEPT ![r].step = "printed"]
              ELSE [job EXCEPT ![r] = Idle]
    /\ UNCHANGED <<now, cloud, changed, file, cut, starts>>

\* The driver, the API or the disk fails, or the run is killed; a write that
\* had begun leaves the file empty or with part of its text.
Fail(r) ==
    /\ job[r].step \in Running
    /\ job' = [job EXCEPT ![r] = Idle]
    /\ IF job[r].step = "write"
       THEN /\ cut' = now
            /\ \/ UNCHANGED file
               \/ file' = [text |-> "garbled", data |-> NoData, mtime |-> now]
       ELSE UNCHANGED <<file, cut>>
    /\ UNCHANGED <<now, cloud, changed, starts>>

\* The process that asked has read the output.
Leave(r) ==
    /\ job[r].step = "printed"
    /\ job' = [job EXCEPT ![r] = Idle]
    /\ UNCHANGED <<now, cloud, changed, file, cut, starts>>

Script(r) ==
    \/ ChooseSource(r) \/ ListPage(r) \/ EmptyFile(r) \/ WriteFile(r)
    \/ LoadFile(r) \/ PrintInventory(r) \/ Fail(r)

-----------------------------------------------------------------------------
(* Properties.                                                             *)

Data == [nodes : SUBSET Instances, filter : {a.filter : a \in Asks}]

InvTypeOK ==
    /\ now \in 0 .. MaxTime
    /\ cloud \in Clouds
    /\ changed \in [Instances -> 0 .. MaxTime]
    /\ file \in [text : {"none", "empty", "whole", "garbled"}, data : Data,
                 mtime : 0 .. MaxTime]
    /\ job \in [Runs -> [step : Steps, args : Asks, started : 0 .. MaxTime,
                         cursor : 0 .. Len(Fleet), data : Data]]
    /\ starts \in 0 .. MaxStarts
    /\ cut \in Int

\* No change later than this may be missing from what a run prints.
Settled(r) == job[r].started - MaxAge - MaxRun

(* The hosts a run prints, be they from the cache or from the API, with a  *)
(* listing of several pages during which instances come and go and while   *)
(* slower runs overwrite newer files with older data, are right about all  *)
(* that happened at least cache_max_age plus the duration of one run       *)
(* before the run started.  An instance that has existed since then is     *)
(* printed if the filter of the inventory selects it and its zone is       *)
(* listed; the filter is the run's own, unless a run with another filter   *)
(* left its inventory in the cache.  A printed name is not the name of     *)
(* instances that had all been deleted by then.                            *)
FreshEnough ==
    \A r \in Runs : job[r].step \in {"print", "printed"} =>
        LET hosts  == DOMAIN Printed(job[r].data).hostvars
            filter == job[r].data.filter
        IN  /\ \A i \in cloud :
                  changed[i] <= Settled(r) /\ Visible(Fleet[i], filter)
                  /\ Selected(Fleet[i], filter) => Fleet[i].name \in hosts
            /\ \A h \in hosts : \E i \in Instances :
                  Fleet[i].name = h /\ (i \in cloud \/ changed[i] > Settled(r))

(* 'Invalid inventory file' has a cause that passes: a run that trusts the *)
(* cache finds it unreadable only while another run is writing it, or when *)
(* a write was cut short, or two writes collided, less than cache_max_age  *)
(* before the run started.  An older ruin is always rebuilt.               *)
InvalidHasCause ==
    \A r \in Runs : job[r].step = "load" /\ file.text # "whole" =>
        \/ \E s \in Runs : job[s].step = "write"
        \/ cut > job[r].started - MaxAge

\* In every inventory about to be printed, groups and hostvars agree.
PrintedGroupsAgree ==
    \A r \in Runs : job[r].step = "print" =>
        GroupsAgree(job[r].data.nodes, job[r].data.filter)
=============================================================================
