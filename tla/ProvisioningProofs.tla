-------------------------- MODULE ProvisioningProofs --------------------------
(***************************************************************************)
(* Proofs about gce.py and the playbooks that loop over its groups: its    *)
(* cache, the groups it makes of a listing, and the hosts the loops reach, *)
(* for any fleet, filters, processes and bounds.                           *)
(***************************************************************************)
EXTENDS Provisioning, FiniteSetTheorems, SequenceTheorems, WellFoundedInduction, TLAPS

Jobs == [step : Steps, args : Asks, started : 0 .. MaxTime,
         cursor : 0 .. Len(Fleet), data : Data]

USE FleetNotEmpty, BoundsNatural, AsksPlain

-----------------------------------------------------------------------------
(* The invariant behind FreshEnough: every listing is right about what did *)
(* not change since its run started, and every step keeps that knowledge.  *)

\* The nodes hold an instance that has not changed since time t exactly when
\* it exists and their listing shows its zone.
Right(data, t) ==
    \A i \in Instances : changed[i] <= t =>
        (i \in data.nodes <=> i \in cloud /\ Visible(Fleet[i], data.filter))

\* What has been listed so far is right about changes before the run.
ListedRight(j) ==
    \A i \in 1 .. j.cursor : changed[i] < j.started =>
        (i \in j.data.nodes <=> i \in cloud /\ Visible(Fleet[i], j.data.filter))

JobInv(j) ==
    /\ j.step # "idle" => j.started <= now
    /\ j.step \in Running => now <= j.started + MaxRun
    /\ j.step = "check" => j.cursor = 0 /\ j.data.nodes = {}
    /\ j.step = "list" => j.data.nodes \subseteq 1 .. j.cursor /\ ListedRight(j)
    /\ j.step = "load" => file.text # "none" /\ file.mtime > j.started - MaxAge
    /\ j.step = "write" => Right(j.data, j.started - 1)
    /\ j.step \in {"print", "printed"} => Right(j.data, j.started - MaxAge - MaxRun)

TimesInv ==
    /\ file.mtime <= now
    /\ \A i \in Instances : changed[i] <= now

FileInv == file.text = "whole" => Right(file.data, file.mtime - MaxRun - 1)

Writing == \E r \in Runs : job[r].step = "write"

\* An unreadable file is being written, or its ruin is no older than its mtime.
RuinInv ==
    file.text \in {"empty", "garbled"} => Writing \/ cut >= file.mtime

Inv ==
    /\ InvTypeOK
    /\ TimesInv
    /\ FileInv
    /\ RuinInv
    /\ \A r \in Runs : JobInv(job[r])

LEMMA InstancesNatural == Instances \subseteq Nat /\ Len(Fleet) \in Nat
BY DEF Instances

\* What is right about changes up to t is right about earlier ones.
LEMMA RightEarlier ==
    ASSUME InvTypeOK, NEW d, NEW t \in Int, NEW u \in Int, u <= t, Right(d, t)
    PROVE  Right(d, u)
<1> SUFFICES ASSUME NEW i \in Instances, changed[i] <= u
             PROVE  i \in d.nodes <=> i \in cloud /\ Visible(Fleet[i], d.filter)
    BY DEF Right
<1>1. changed[i] \in Int
      BY DEF InvTypeOK
<1>2. changed[i] <= t
      BY <1>1
<1>. QED BY <1>2 DEF Right

LEMMA UnfilteredAsked == Unfiltered \in {a.filter : a \in Asks}
<1>1. List.filter = Unfiltered
      BY DEF List
<1>. QED BY <1>1

LEMMA IdleJob == Idle \in Jobs /\ Idle.step = "idle"
BY InstancesNatural, UnfilteredAsked DEF Idle, Jobs, NoData, Data, Steps

-----------------------------------------------------------------------------
(* Frames: what a step has to show that changes one run, or the cloud.     *)

\* A run moves on and nothing else changes.
LEMMA JobChange ==
    ASSUME Inv, NEW r \in Runs, NEW j \in Jobs, JobInv(j),
           job' = [job EXCEPT ![r] = j], UNCHANGED <<now, cloud, changed, file>>
    PROVE  /\ job' \in [Runs -> Jobs] /\ TimesInv' /\ FileInv'
           /\ \A s \in Runs : JobInv(job[s])'
<1>1. job \in [Runs -> Jobs]
      BY DEF Inv, InvTypeOK, Jobs
<1>2. job' \in [Runs -> Jobs]
      BY <1>1
<1>3. TimesInv' /\ FileInv'
      BY DEF Inv, TimesInv, FileInv, Right
<1>4. ASSUME NEW s \in Runs PROVE JobInv(job[s])'
  <2>1. JobInv(job[s]) /\ job'[s] = IF s = r THEN j ELSE job[s]
        BY <1>1 DEF Inv
  <2>. QED BY <2>1 DEF JobInv, ListedRight, Right
<1>. QED BY <1>2, <1>3, <1>4

\* A run writes to the file now and moves on.
LEMMA FileChange ==
    ASSUME Inv, NEW r \in Runs, NEW j \in Jobs, JobInv(j), j.step # "load",
           job' = [job EXCEPT ![r] = j], UNCHANGED <<now, cloud, changed>>,
           file'.text # "none", file'.mtime = now
    PROVE  /\ job' \in [Runs -> Jobs] /\ TimesInv'
           /\ \A s \in Runs : JobInv(job[s])'
<1>1. job \in [Runs -> Jobs] /\ now \in Nat /\ file.mtime \in Nat
      BY DEF Inv, InvTypeOK, Jobs
<1>2. job' \in [Runs -> Jobs]
      BY <1>1
<1>3. TimesInv'
      BY <1>1 DEF Inv, TimesInv
<1>4. ASSUME NEW s \in Runs PROVE JobInv(job[s])'
  <2>1. JobInv(job[s]) /\ job'[s] = IF s = r THEN j ELSE job[s]
        BY <1>1 DEF Inv
  <2>2. job[s].step = "load" => now > job[s].started - MaxAge
    <3>1. job[s].started \in Nat /\ MaxAge \in Nat
          BY <1>1 DEF Jobs
    <3>2. file.mtime <= now
          BY DEF Inv, TimesInv
    <3>. QED BY <1>1, <2>1, <3>1, <3>2 DEF JobInv
  <2>. QED BY <2>1, <2>2 DEF JobInv, ListedRight, Right
<1>. QED BY <1>2, <1>3, <1>4

\* An instance appears or vanishes now.
LEMMA CloudChange ==
    ASSUME Inv, NEW i \in Instances, changed' = [changed EXCEPT ![i] = now],
           \A k \in Instances : k # i => (k \in cloud' <=> k \in cloud),
           UNCHANGED <<now, file, job, cut>>
    PROVE  /\ changed' \in [Instances -> 0 .. MaxTime] /\ TimesInv' /\ FileInv'
           /\ RuinInv' /\ \A s \in Runs : JobInv(job[s])'
<1>1. /\ now \in 0 .. MaxTime /\ changed \in [Instances -> 0 .. MaxTime]
      /\ job \in [Runs -> Jobs] /\ file.mtime \in 0 .. MaxTime
      BY DEF Inv, InvTypeOK, Jobs
<1>2. changed' \in [Instances -> 0 .. MaxTime]
      BY <1>1
<1>3. TimesInv'
      BY <1>1 DEF Inv, TimesInv
<1>4. ASSUME NEW d, NEW t \in Int, t < now, Right(d, t)
      PROVE  \A k \in Instances : changed'[k] <= t =>
                (k \in d.nodes <=> k \in cloud' /\ Visible(Fleet[k], d.filter))
  <2> SUFFICES ASSUME NEW k \in Instances, changed'[k] <= t
               PROVE  k \in d.nodes <=> k \in cloud' /\ Visible(Fleet[k], d.filter)
      OBVIOUS
  <2>1. k # i
        BY <1>1, <1>4
  <2>2. changed[k] <= t
        BY <1>1, <2>1
  <2>. QED BY <1>4, <2>1, <2>2 DEF Right
<1>5. FileInv'
  <2> SUFFICES ASSUME file.text = "whole", NEW k \in Instances,
                      changed'[k] <= file.mtime - MaxRun - 1
               PROVE  k \in file.data.nodes <=>
                        k \in cloud' /\ Visible(Fleet[k], file.data.filter)
      BY DEF FileInv, Right
  <2> DEFINE t == file.mtime - MaxRun - 1
  <2>1. t \in Int /\ t < now /\ Right(file.data, t)
        BY <1>1 DEF Inv, FileInv, TimesInv
  <2>. QED BY <1>4, <2>1
<1>6. RuinInv'
      BY DEF Inv, RuinInv, Writing
<1>7. ASSUME NEW s \in Runs PROVE JobInv(job[s])'
  <2>1. JobInv(job[s]) /\ job[s] \in Jobs /\ job[s].started \in Nat
        BY <1>1 DEF Inv, Jobs
  <2>2. job[s].step = "list" => ListedRight(job[s])'
    <3> SUFFICES ASSUME job[s].step = "list", NEW k \in 1 .. job[s].cursor,
                        changed'[k] < job[s].started
                 PROVE  k \in job[s].data.nodes <=>
                        k \in cloud' /\ Visible(Fleet[k], job[s].data.filter)
        BY DEF ListedRight
    <3>1. k \in Instances
          BY <2>1, InstancesNatural DEF Jobs, Instances
    <3>2. job[s].started <= now
          BY <2>1 DEF JobInv
    <3>3. k # i
          BY <1>1, <2>1, <3>2
    <3>4. changed[k] < job[s].started
          BY <1>1, <3>1, <3>3
    <3>. QED BY <2>1, <3>1, <3>3, <3>4 DEF JobInv, ListedRight
  <2>3. job[s].step = "write" => Right(job[s].data, job[s].started - 1)'
    <3> SUFFICES ASSUME job[s].step = "write", NEW k \in Instances,
                        changed'[k] <= job[s].started - 1
                 PROVE  k \in job[s].data.nodes <=>
                        k \in cloud' /\ Visible(Fleet[k], job[s].data.filter)
        BY DEF Right
    <3> DEFINE t == job[s].started - 1
    <3>1. t \in Int /\ t < now /\ Right(job[s].data, t)
          BY <1>1, <2>1 DEF JobInv
    <3>. QED BY <1>4, <3>1
  <2>4. job[s].step \in {"print", "printed"} =>
            Right(job[s].data, job[s].started - MaxAge - MaxRun)'
    <3> SUFFICES ASSUME job[s].step \in {"print", "printed"}, NEW k \in Instances,
                        changed'[k] <= job[s].started - MaxAge - MaxRun
                 PROVE  k \in job[s].data.nodes <=>
                        k \in cloud' /\ Visible(Fleet[k], job[s].data.filter)
        BY DEF Right
    <3> DEFINE t == job[s].started - MaxAge - MaxRun
    <3>1. t \in Int /\ t < now /\ Right(job[s].data, t)
          BY <1>1, <2>1 DEF JobInv
    <3>. QED BY <1>4, <3>1
  <2>. QED BY <2>1, <2>2, <2>3, <2>4 DEF JobInv, Right
<1>. QED BY <1>2, <1>3, <1>5, <1>6, <1>7

\* A run that was not writing moves on: whoever was writing still is.
LEMMA WritingStays ==
    ASSUME Inv, NEW r \in Runs, NEW j \in Jobs, job[r].step # "write",
           job' = [job EXCEPT ![r] = j], UNCHANGED <<file, cut>>
    PROVE  RuinInv'
<1>1. job \in [Runs -> Jobs]
      BY DEF Inv, InvTypeOK, Jobs
<1>2. Writing => Writing'
  <2> SUFFICES ASSUME NEW s \in Runs, job[s].step = "write" PROVE job'[s].step = "write"
      BY DEF Writing
  <2>. QED BY <1>1
<1>. QED BY <1>2 DEF Inv, RuinInv

-----------------------------------------------------------------------------
(* The steps of a run.                                                     *)

LEMMA InitInv == Init => Inv
<1> SUFFICES ASSUME Init PROVE Inv
    OBVIOUS
<1> USE DEF Init, InvInit
<1>1. NoData \in Data
      BY UnfilteredAsked DEF NoData, Data
<1>2. InvTypeOK
      BY <1>1, IdleJob DEF InvTypeOK, Jobs
<1>3. TimesInv /\ FileInv /\ RuinInv
      BY DEF TimesInv, FileInv, RuinInv
<1>4. ASSUME NEW r \in Runs PROVE JobInv(job[r])
      BY IdleJob DEF JobInv, Running, Steps
<1>. QED BY <1>2, <1>3, <1>4 DEF Inv

LEMMA StartInv ==
    ASSUME Inv, NEW r \in Runs, NEW args \in Asks, Start(r, args)
    PROVE  Inv'
<1> DEFINE j == [step |-> "check", args |-> args, started |-> now, cursor |-> 0,
                 data |-> NoData]
<1>0. Start(r, args)
      OBVIOUS
<1>1. /\ job' = [job EXCEPT ![r] = j] /\ UNCHANGED <<now, cloud, changed, file, cut>>
      /\ job[r].step = "idle" /\ starts < MaxStarts /\ starts' = starts + 1
      BY DEF Start
<1>2. now \in 0 .. MaxTime /\ job \in [Runs -> Jobs]
      BY DEF Inv, InvTypeOK, Jobs
<1>3. j \in Jobs
      BY <1>2, InstancesNatural, UnfilteredAsked DEF Jobs, NoData, Data, Steps
<1>4. JobInv(j)
      BY <1>2 DEF JobInv, NoData
<1>5. /\ job' \in [Runs -> Jobs] /\ TimesInv' /\ FileInv'
      /\ \A s \in Runs : JobInv(job[s])'
      BY <1>1, <1>3, <1>4, JobChange
<1>6. RuinInv'
      BY <1>1, <1>3, WritingStays
<1>7. InvTypeOK'
      BY <1>1, <1>5 DEF Inv, InvTypeOK, Jobs
<1>. QED BY <1>5, <1>6, <1>7 DEF Inv

\* A run that touches neither file nor clock: its new job has to fit.
LEMMA QuietStep ==
    ASSUME Inv, NEW r \in Runs, NEW j \in Jobs, JobInv(j), job[r].step # "write",
           job' = [job EXCEPT ![r] = j],
           UNCHANGED <<now, cloud, changed, file, cut, starts>>
    PROVE  Inv'
<1>1. /\ job' \in [Runs -> Jobs] /\ TimesInv' /\ FileInv'
      /\ \A s \in Runs : JobInv(job[s])'
      BY JobChange
<1>2. RuinInv'
      BY WritingStays
<1>3. InvTypeOK'
      BY <1>1 DEF Inv, InvTypeOK, Jobs
<1>. QED BY <1>1, <1>2, <1>3 DEF Inv

LEMMA IdleInv == JobInv(Idle)
BY IdleJob DEF JobInv, Running

LEMMA ChooseSourceInv ==
    ASSUME Inv, NEW r \in Runs, ChooseSource(r)
    PROVE  Inv'
<1> DEFINE step == IF job[r].args.refresh \/ ~IsValid THEN "list" ELSE "load"
           j == [job[r] EXCEPT !.data.filter = job[r].args.filter, !.step = step]
<1>1. /\ job[r].step = "check" /\ job' = [job EXCEPT ![r] = j]
      /\ UNCHANGED <<now, cloud, changed, file, cut, starts>>
      BY DEF ChooseSource
<1>2. /\ job[r] \in Jobs /\ JobInv(job[r]) /\ now \in Nat
      /\ file.mtime \in Nat /\ job[r].started \in Nat
      BY DEF Inv, InvTypeOK, Jobs
<1>3. job[r].args.filter \in {a.filter : a \in Asks}
      BY <1>2 DEF Jobs
<1>4. j \in Jobs
      BY <1>2, <1>3 DEF Jobs, Data, Steps
<1>5. step = "load" => file.text # "none" /\ file.mtime > job[r].started - MaxAge
      BY <1>1, <1>2 DEF IsValid, JobInv
<1>6. /\ j.started = job[r].started /\ j.cursor = 0 /\ j.data.nodes = {}
      /\ j.step = step /\ step \in {"list", "load"}
      /\ job[r].started <= now /\ now <= job[r].started + MaxRun
      BY <1>1, <1>2 DEF JobInv, Jobs, Data, Running, Steps
<1> HIDE DEF j, step
<1>7. JobInv(j)
      BY <1>5, <1>6 DEF JobInv, ListedRight
<1>. QED BY <1>1, <1>4, <1>7, QuietStep

LEMMA ListPageInv ==
    ASSUME Inv, NEW r \in Runs, ListPage(r)
    PROVE  Inv'
<1>1. PICK end \in PageEnds(r) :
        job' = [job EXCEPT ![r].cursor = end, ![r].data.nodes = Listed(r, end)]
      BY DEF ListPage
<1> DEFINE j == [job[r] EXCEPT !.cursor = end, !.data.nodes = Listed(r, end)]
<1>2. /\ job[r].step = "list" /\ job' = [job EXCEPT ![r] = j]
      /\ UNCHANGED <<now, cloud, changed, file, cut, starts>>
      BY <1>1 DEF ListPage
<1>3. /\ job[r] \in Jobs /\ JobInv(job[r]) /\ cloud \subseteq Instances
      /\ job[r].cursor \in Nat
      BY InstancesNatural DEF Inv, InvTypeOK, Jobs, Clouds
<1>4. end \in 0 .. Len(Fleet) /\ end > job[r].cursor
      BY <1>3, InstancesNatural DEF PageEnds
<1>5. Listed(r, end) \subseteq 1 .. end /\ Listed(r, end) \subseteq Instances
  <2>1. job[r].data.nodes \subseteq 1 .. job[r].cursor
        BY <1>2, <1>3 DEF JobInv
  <2> SUFFICES ASSUME NEW i \in Listed(r, end)
               PROVE  i \in 1 .. end /\ i \in Instances
      OBVIOUS
  <2>2. i \in Instances
    <3>1. job[r].data.nodes \subseteq Instances
          BY <1>3 DEF Jobs, Data
    <3>. QED BY <1>3, <3>1 DEF Listed, Page
  <2>3. i \in Nat /\ i >= 1
        BY <2>2, InstancesNatural DEF Instances
  <2>4. i <= end
        BY <1>3, <1>4, <2>1, <2>3 DEF Listed, Page
  <2>. QED BY <1>4, <2>2, <2>3, <2>4
<1>6. j \in Jobs
  <2>1. j = [job[r] EXCEPT !.cursor = end,
                           !.data = [job[r].data EXCEPT !.nodes = Listed(r, end)]]
        BY <1>3 DEF Jobs, Data
  <2>2. [job[r].data EXCEPT !.nodes = Listed(r, end)] \in Data
        BY <1>3, <1>5 DEF Jobs, Data
  <2>. QED BY <1>3, <1>4, <2>1, <2>2 DEF Jobs
<1>7. ASSUME NEW i \in 1 .. end, changed[i] < job[r].started
      PROVE  i \in Listed(r, end) <=>
                i \in cloud /\ Visible(Fleet[i], job[r].data.filter)
  <2>1. i \in job[r].data.nodes => i \in 1 .. job[r].cursor
        BY <1>2, <1>3 DEF JobInv
  <2>2. CASE i <= job[r].cursor
    <3>1. i \in 1 .. job[r].cursor
          BY <1>3, <2>2
    <3>2. i \in job[r].data.nodes <=>
                i \in cloud /\ Visible(Fleet[i], job[r].data.filter)
          BY <1>2, <1>3, <1>7, <3>1 DEF JobInv, ListedRight
    <3>. QED BY <1>3, <2>2, <3>2 DEF Listed, Page
  <2>3. CASE i > job[r].cursor
        BY <1>3, <2>1, <2>3 DEF Listed, Page
  <2>. QED BY <1>3, <2>2, <2>3
<1>8. /\ j.step = "list" /\ j.started = job[r].started /\ j.cursor = end
      /\ j.data.nodes = Listed(r, end) /\ j.data.filter = job[r].data.filter
      /\ job[r].started <= now /\ now <= job[r].started + MaxRun
      BY <1>2, <1>3 DEF JobInv, Jobs, Data, Running, Steps
<1> HIDE DEF j
<1>9. JobInv(j)
      BY <1>5, <1>7, <1>8 DEF JobInv, ListedRight
<1>. QED BY <1>2, <1>6, <1>9, QuietStep

LEMMA LoadFileInv ==
    ASSUME Inv, NEW r \in Runs, LoadFile(r)
    PROVE  Inv'
<1>1. /\ job[r].step = "load" /\ UNCHANGED <<now, cloud, changed, file, cut, starts>>
      /\ job[r] \in Jobs /\ JobInv(job[r]) /\ file.data \in Data
      /\ file.mtime \in Nat /\ job[r].started \in Nat
      BY DEF LoadFile, Inv, InvTypeOK, Jobs
<1>2. CASE file.text # "whole"
  <2>1. job' = [job EXCEPT ![r] = Idle]
        BY <1>2 DEF LoadFile
  <2>. QED BY <1>1, <2>1, IdleJob, IdleInv, QuietStep
<1>3. CASE file.text = "whole"
  <2> DEFINE j == [job[r] EXCEPT !.step = "print", !.data = file.data]
  <2>1. job' = [job EXCEPT ![r] = j]
        BY <1>3 DEF LoadFile
  <2>2. j \in Jobs
        BY <1>1 DEF Jobs, Steps
  <2>3. Right(file.data, job[r].started - MaxAge - MaxRun)
    <3>1. file.mtime > job[r].started - MaxAge
          BY <1>1 DEF JobInv
    <3>2. Right(file.data, file.mtime - MaxRun - 1)
          BY <1>3 DEF Inv, FileInv
    <3>3. Inv => InvTypeOK
          BY DEF Inv
    <3>. QED BY <1>1, <3>1, <3>2, <3>3, RightEarlier
  <2>4. /\ j.step = "print" /\ j.started = job[r].started /\ j.data = file.data
        /\ job[r].started <= now /\ now <= job[r].started + MaxRun
        BY <1>1 DEF JobInv, Jobs, Running, Steps
  <2> HIDE DEF j
  <2>5. JobInv(j)
        BY <2>3, <2>4 DEF JobInv
  <2>. QED BY <1>1, <2>1, <2>2, <2>5, QuietStep
<1>. QED BY <1>2, <1>3

LEMMA PrintInventoryInv ==
    ASSUME Inv, NEW r \in Runs, PrintInventory(r)
    PROVE  Inv'
<1>1. /\ job[r].step = "print" /\ UNCHANGED <<now, cloud, changed, file, cut, starts>>
      /\ job[r] \in Jobs /\ JobInv(job[r])
      BY DEF PrintInventory, Inv, InvTypeOK, Jobs
<1> DEFINE j == [job[r] EXCEPT !.step = "printed"]
<1>2. job' = [job EXCEPT ![r] = j] \/ job' = [job EXCEPT ![r] = Idle]
      BY DEF PrintInventory
<1>3. j \in Jobs
      BY <1>1 DEF Jobs, Steps
<1>4. JobInv(j)
      BY <1>1 DEF JobInv, Jobs, Running, Steps
<1>. QED BY <1>1, <1>2, <1>3, <1>4, IdleJob, IdleInv, QuietStep

-----------------------------------------------------------------------------
(* The steps on the file.                                                  *)

LEMMA EmptyFileInv ==
    ASSUME Inv, NEW r \in Runs, EmptyFile(r)
    PROVE  Inv'
<1> DEFINE j == [job[r] EXCEPT !.step = "write", !.cursor = 0]
<1>1. /\ job[r].step = "list" /\ job[r].cursor = Len(Fleet)
      /\ job' = [job EXCEPT ![r] = j]
      /\ file' = [text |-> "empty", data |-> NoData, mtime |-> now]
      /\ UNCHANGED <<now, cloud, changed, cut, starts>>
      BY DEF EmptyFile
<1>2. /\ job[r] \in Jobs /\ JobInv(job[r]) /\ job \in [Runs -> Jobs]
      /\ changed \in [Instances -> Nat] /\ job[r].started \in Nat
      BY DEF Inv, InvTypeOK, Jobs
<1>3. j \in Jobs
  <2>1. 0 \in 0 .. Len(Fleet) /\ "write" \in Steps
        BY InstancesNatural DEF Steps
  <2>. QED BY <1>2, <2>1 DEF Jobs
<1>4. Right(job[r].data, job[r].started - 1)
      BY <1>1, <1>2 DEF JobInv, ListedRight, Right, Instances
<1>5. /\ j.step = "write" /\ j.started = job[r].started /\ j.data = job[r].data
      /\ job[r].started <= now /\ now <= job[r].started + MaxRun
      BY <1>1, <1>2 DEF JobInv, Jobs, Running, Steps
<1>6. RuinInv'
      BY <1>1, <1>2 DEF RuinInv, Writing
<1> HIDE DEF j
<1>7. JobInv(j)
      BY <1>4, <1>5 DEF JobInv
<1>8. job' \in [Runs -> Jobs] /\ TimesInv' /\ \A s \in Runs : JobInv(job[s])'
      BY <1>1, <1>3, <1>5, <1>7, FileChange
<1>9. FileInv'
      BY <1>1 DEF FileInv
<1>10. InvTypeOK'
      BY <1>1, <1>8, IdleJob DEF Inv, InvTypeOK, Jobs, Idle
<1>. QED BY <1>6, <1>8, <1>9, <1>10 DEF Inv

LEMMA WriteFileInv ==
    ASSUME Inv, NEW r \in Runs, WriteFile(r)
    PROVE  Inv'
<1> DEFINE j == [job[r] EXCEPT !.step = "print"]
<1>1. /\ job[r].step = "write" /\ job' = [job EXCEPT ![r] = j]
      /\ \/ file' = [text |-> "whole", data |-> job[r].data, mtime |-> now]
         \/ /\ file.text # "empty"
            /\ file' = [text |-> "garbled", data |-> NoData, mtime |-> now]
      /\ cut' = IF file.text = "empty" THEN cut ELSE now
      /\ UNCHANGED <<now, cloud, changed, starts>>
      BY DEF WriteFile
<1>2. /\ job[r] \in Jobs /\ JobInv(job[r]) /\ now \in 0 .. MaxTime
      /\ job[r].started \in Nat
      BY DEF Inv, InvTypeOK, Jobs
<1>3. j \in Jobs
      BY <1>2 DEF Jobs, Steps
<1>4. Inv => InvTypeOK
      BY DEF Inv
<1>5. /\ Right(job[r].data, job[r].started - 1)
      /\ job[r].started <= now /\ now <= job[r].started + MaxRun
      BY <1>1, <1>2 DEF JobInv, Running, Steps
<1>6. Right(job[r].data, job[r].started - MaxAge - MaxRun)
      BY <1>2, <1>4, <1>5, RightEarlier
<1>7. Right(job[r].data, now - MaxRun - 1)
      BY <1>2, <1>4, <1>5, RightEarlier
<1>8. FileInv'
      BY <1>1, <1>7 DEF FileInv, Right
<1>9. RuinInv'
      BY <1>1, <1>2 DEF RuinInv
<1>10. j.step = "print" /\ j.started = job[r].started /\ j.data = job[r].data
      BY <1>2 DEF Jobs
<1>11. job[r].data \in Data /\ NoData \in Data
      BY <1>2, IdleJob DEF Jobs, Idle
<1> HIDE DEF j
<1>12. JobInv(j)
      BY <1>5, <1>6, <1>10 DEF JobInv
<1>13. job' \in [Runs -> Jobs] /\ TimesInv' /\ \A s \in Runs : JobInv(job[s])'
  <2>1. file'.text # "none" /\ file'.mtime = now /\ j.step # "load"
        BY <1>1, <1>10
  <2>2. job' = [job EXCEPT ![r] = j] /\ UNCHANGED <<now, cloud, changed>>
        BY <1>1
  <2>. QED BY <1>3, <1>12, <2>1, <2>2, FileChange
<1>14. InvTypeOK'
      BY <1>1, <1>2, <1>11, <1>13 DEF Inv, InvTypeOK, Jobs
<1>. QED BY <1>8, <1>9, <1>13, <1>14 DEF Inv

LEMMA FailInv ==
    ASSUME Inv, NEW r \in Runs, Fail(r)
    PROVE  Inv'
<1>1. job[r].step \in Running /\ job' = [job EXCEPT ![r] = Idle]
      /\ UNCHANGED <<now, cloud, changed, starts>>
      BY DEF Fail
<1>2. CASE job[r].step # "write"
  <2>1. UNCHANGED <<file, cut>>
        BY <1>2 DEF Fail
  <2>. QED BY <1>1, <1>2, <2>1, IdleJob, IdleInv, QuietStep
<1>3. CASE job[r].step = "write"
  <2>1. /\ cut' = now /\ \/ UNCHANGED file
                         \/ file' = [text |-> "garbled", data |-> NoData, mtime |-> now]
        BY <1>3 DEF Fail
  <2>2. now \in 0 .. MaxTime /\ file.mtime <= now /\ file.mtime \in Nat
        BY DEF Inv, InvTypeOK, TimesInv
  <2>3. RuinInv'
        BY <2>1, <2>2 DEF RuinInv
  <2>4. /\ job' \in [Runs -> Jobs] /\ TimesInv' /\ FileInv'
        /\ \A s \in Runs : JobInv(job[s])'
    <3>1. CASE UNCHANGED file
          BY <1>1, <3>1, IdleJob, IdleInv, JobChange
    <3>2. CASE file' = [text |-> "garbled", data |-> NoData, mtime |-> now]
      <4>1. /\ job' \in [Runs -> Jobs] /\ TimesInv'
            /\ \A s \in Runs : JobInv(job[s])'
            BY <1>1, <3>2, IdleJob, IdleInv, FileChange
      <4>. QED BY <3>2, <4>1 DEF FileInv
    <3>. QED BY <2>1, <3>1, <3>2
  <2>5. NoData \in Data
        BY IdleJob DEF Jobs, Idle
  <2>6. InvTypeOK'
        BY <1>1, <2>1, <2>2, <2>4, <2>5 DEF Inv, InvTypeOK, Jobs
  <2>. QED BY <2>3, <2>4, <2>6 DEF Inv
<1>. QED BY <1>2, <1>3

-----------------------------------------------------------------------------
(* The steps of the world and of the playbooks.                            *)

LEMMA CloudInv ==
    ASSUME Inv, NEW i \in Instances, Appear(i) \/ Vanish(i),
           UNCHANGED <<now, file, job, starts, cut>>
    PROVE  Inv'
<1>1. /\ changed' = [changed EXCEPT ![i] = now]
      /\ cloud' \in {cloud \cup {i}, cloud \ {i}}
      BY DEF Appear, Vanish
<1>2. \A k \in Instances : k # i => (k \in cloud' <=> k \in cloud)
      BY <1>1
<1>3. /\ changed' \in [Instances -> 0 .. MaxTime] /\ TimesInv' /\ FileInv'
      /\ RuinInv' /\ \A s \in Runs : JobInv(job[s])'
      BY <1>1, <1>2, CloudChange
<1>4. cloud' \in Clouds
  <2>1. cloud \in Clouds /\ \A k, l \in Instances : Clash(k, l) <=> Clash(l, k)
        BY DEF Inv, InvTypeOK, Clash
  <2>2. CASE Appear(i)
    <3>1. cloud' = cloud \cup {i} /\ \A k \in cloud : ~Clash(i, k)
          BY <2>2 DEF Appear
    <3>2. ~Clash(i, i)
          BY DEF Clash
    <3>. QED BY <2>1, <3>1, <3>2 DEF Clouds
  <2>3. CASE Vanish(i)
        BY <2>1, <2>3 DEF Vanish, Clouds
  <2>. QED BY <2>2, <2>3
<1>5. InvTypeOK'
      BY <1>3, <1>4 DEF Inv, InvTypeOK
<1>. QED BY <1>3, <1>5 DEF Inv

LEMMA TickInv ==
    ASSUME Inv, Tick
    PROVE  Inv'
<1>1. /\ now < MaxTime /\ now' = now + 1
      /\ \A r \in Runs : job[r].step \in Running => now < job[r].started + MaxRun
      /\ UNCHANGED <<cloud, changed, file, job, cut, starts>>
      BY DEF Tick
<1>2. /\ now \in 0 .. MaxTime /\ changed \in [Instances -> Nat] /\ file.mtime \in Nat
      /\ job \in [Runs -> Jobs]
      BY DEF Inv, InvTypeOK, Jobs
<1>3. InvTypeOK'
      BY <1>1, <1>2 DEF Inv, InvTypeOK
<1>4. TimesInv'
      BY <1>1, <1>2 DEF Inv, TimesInv
<1>5. FileInv' /\ RuinInv'
      BY <1>1 DEF Inv, FileInv, RuinInv, Right, Writing
<1>6. ASSUME NEW r \in Runs PROVE JobInv(job[r])'
  <2>1. JobInv(job[r]) /\ job[r].started \in Nat
        BY <1>2 DEF Inv, Jobs
  <2>2. /\ job[r].step # "idle" => job[r].started <= now'
        /\ job[r].step \in Running => now' <= job[r].started + MaxRun
        BY <1>1, <1>2, <2>1 DEF JobInv
  <2>. QED BY <1>1, <2>1, <2>2 DEF JobInv, ListedRight, Right
<1>. QED BY <1>3, <1>4, <1>5, <1>6 DEF Inv

LEMMA LeaveInv ==
    ASSUME Inv, NEW r \in Runs, Leave(r)
    PROVE  Inv'
BY IdleJob, IdleInv, QuietStep DEF Leave

LEMMA SameInv ==
    ASSUME Inv, UNCHANGED invVars
    PROVE  Inv'
<1>1. InvTypeOK'
      BY DEF Inv, InvTypeOK, invVars
<1>2. TimesInv' /\ FileInv' /\ RuinInv'
      BY DEF Inv, TimesInv, FileInv, RuinInv, Right, Writing, invVars
<1>3. \A r \in Runs : JobInv(job[r])'
      BY DEF Inv, JobInv, ListedRight, Right, invVars
<1>. QED BY <1>1, <1>2, <1>3 DEF Inv

\* Every step keeps what is known about the listings, the file and its ruins.
LEMMA StepInv == Inv /\ [Next]_vars => Inv'
<1> SUFFICES ASSUME Inv, [Next]_vars PROVE Inv'
    OBVIOUS
<1>1. ASSUME NEW r \in Runs, RunScript(r) PROVE Inv'
      BY <1>1, StartInv DEF RunScript
<1>2. ASSUME NEW r \in Runs, EnterLoop(r) \/ EndLoop(r) PROVE Inv'
      BY <1>2, SameInv DEF EnterLoop, EndLoop
<1>3. ASSUME NEW r \in Runs, LoopItem(r) PROVE Inv'
  <2>1. CASE UNCHANGED <<cloud, changed>>
        BY <1>3, <2>1, SameInv DEF LoopItem, invVars
  <2>2. ASSUME NEW i \in Item(r), Vanish(i) PROVE Inv'
    <3>1. i \in Instances
          BY DEF Item, Inv, InvTypeOK, Clouds
    <3>2. UNCHANGED <<now, file, job, starts, cut>>
          BY <1>3 DEF LoopItem
    <3>. QED BY <2>2, <3>1, <3>2, CloudInv
  <2>3. \/ UNCHANGED <<cloud, changed>>
        \/ \E i \in Item(r) : Vanish(i)
        BY <1>3 DEF LoopItem, ItemSucceeds, ItemFails
  <2>. QED BY <2>1, <2>2, <2>3
<1>4. ASSUME NEW r \in Runs, Quit(r) PROVE Inv'
      BY <1>4, LeaveInv DEF Quit
<1>5. ASSUME NEW r \in Runs, Script(r) PROVE Inv'
      BY <1>5, ChooseSourceInv, ListPageInv, EmptyFileInv, WriteFileInv, LoadFileInv,
         PrintInventoryInv, FailInv DEF Script
<1>6. CASE CloudChanges
      BY <1>6, CloudInv DEF CloudChanges
<1>7. CASE UNCHANGED vars
      BY <1>7, SameInv DEF vars, invVars
<1>. QED BY <1>1, <1>2, <1>3, <1>4, <1>5, <1>6, <1>7, TickInv DEF Next, Play

-----------------------------------------------------------------------------
(* The groups gce.py makes of a listing.                                   *)

\* A set of natural numbers that is not empty has a least element.
LEMMA Least ==
    ASSUME NEW T, T \subseteq Nat, T # {}
    PROVE  \E m \in T : \A n \in T : m <= n
<1>1. PICK m \in T : \A n \in T : <<n, m>> \notin OpToRel(<, Nat)
      BY NatLessThanWellFounded, WFMin
<1>2. ASSUME NEW n \in T PROVE m <= n
  <2>1. ~(n < m)
        BY <1>1 DEF OpToRel
  <2>. QED BY <2>1
<1>. QED BY <1>2

First == [hostvars |-> << >>, groups |-> << >>]

\* The first n values of Inventories.
UpTo(nodes, filter, n, f) ==
    f = [k \in 0 .. n |->
            IF k = 0 THEN First
            ELSE IF k \in nodes THEN GroupInstance(f[k - 1], k, filter)
            ELSE f[k - 1]]

LEMMA UpToEach ==
    ASSUME NEW nodes, NEW filter, NEW n \in Nat
    PROVE  \E f : UpTo(nodes, filter, n, f)
<1> DEFINE T == {m \in Nat : ~\E f : UpTo(nodes, filter, m, f)}
<1> SUFFICES ASSUME T # {} PROVE FALSE
    OBVIOUS
<1>1. PICK m \in T : \A l \in T : m <= l
  <2>1. T \subseteq Nat
        OBVIOUS
  <2> HIDE DEF T
  <2>. QED BY <2>1, Least
<1>2. CASE m = 0
  <2>1. UpTo(nodes, filter, m, [k \in 0 .. 0 |-> First])
        BY <1>2 DEF UpTo
  <2>. QED BY <2>1
<1>3. CASE m # 0
  <2>1. m - 1 \in Nat /\ m - 1 \notin T
        BY <1>1, <1>3
  <2>2. PICK g : UpTo(nodes, filter, m - 1, g)
        BY <2>1
  <2> DEFINE last == IF m \in nodes THEN GroupInstance(g[m - 1], m, filter) ELSE g[m - 1]
             f == [k \in 0 .. m |-> IF k = m THEN last ELSE g[k]]
  <2>3. ASSUME NEW k \in 0 .. m
        PROVE  f[k] = IF k = 0 THEN First
                      ELSE IF k \in nodes THEN GroupInstance(f[k - 1], k, filter)
                      ELSE f[k - 1]
    <3>1. CASE k = 0
      <4>1. f[k] = g[0] /\ g[0] = First
            BY <1>3, <2>1, <2>2, <3>1 DEF UpTo
      <4>. QED BY <3>1, <4>1
    <3>2. CASE k = m
      <4>1. f[k] = last /\ f[k - 1] = g[k - 1]
            BY <1>3, <3>2
      <4>. QED BY <1>3, <3>2, <4>1
    <3>3. CASE k # 0 /\ k # m
      <4>1. f[k] = g[k] /\ f[k - 1] = g[k - 1] /\ k \in 0 .. m - 1
            BY <3>3
      <4>2. g[k] = IF k \in nodes THEN GroupInstance(g[k - 1], k, filter) ELSE g[k - 1]
            BY <2>2, <3>3, <4>1 DEF UpTo
      <4>. QED BY <3>3, <4>1, <4>2
    <3>. QED BY <3>1, <3>2, <3>3
  <2>4. f = [k \in 0 .. m |-> f[k]]
        OBVIOUS
  <2> HIDE DEF f
  <2>5. UpTo(nodes, filter, m, f)
        BY <2>3, <2>4 DEF UpTo
  <2>. QED BY <2>5
<1>. QED BY <1>2, <1>3

\* The loop over list_nodes(), one instance at a time.
LEMMA InventoriesStep ==
    ASSUME NEW nodes, NEW filter
    PROVE  /\ Inventories(nodes, filter)[0] = First
           /\ \A k \in Instances : Inventories(nodes, filter)[k] =
                IF k \in nodes
                THEN GroupInstance(Inventories(nodes, filter)[k - 1], k, filter)
                ELSE Inventories(nodes, filter)[k - 1]
<1> DEFINE f == Inventories(nodes, filter)
<1>1. f = CHOOSE g : UpTo(nodes, filter, Len(Fleet), g)
      BY DEF Inventories, UpTo, First
<1>2. \E g : UpTo(nodes, filter, Len(Fleet), g)
      BY UpToEach
<1> HIDE DEF f
<1>3. UpTo(nodes, filter, Len(Fleet), f)
      BY <1>1, <1>2
<1>. QED BY <1>3 DEF UpTo, Instances, f
-----------------------------------------------------------------------------
LEMMA FourSeq ==
    ASSUME NEW S, NEW a \in S, NEW b \in S, NEW c \in S, NEW d \in S
    PROVE  <<a, b, c, d>> \in Seq(S)
OBVIOUS

\* The labels are a sequence, and hold the group of each tag.
LEMMA LabelsSeq ==
    ASSUME NEW i \in Instances
    PROVE  /\ \E S : Labels(Fleet[i]) \in Seq(S)
           /\ \A t \in ToSet(Fleet[i].tags) : TagGroup(t) \in ToSet(Labels(Fleet[i]))
<1> DEFINE n == Fleet[i]
           tagged == [k \in DOMAIN n.tags |-> TagGroup(n.tags[k])]
           rest == <<"network_" \o n.network, n.size, ImageGroup(n), "status_" \o Lower[n.status]>>
           S == {n.zone} \cup {TagGroup(n.tags[k]) : k \in DOMAIN n.tags}
                \cup {"network_" \o n.network, n.size, ImageGroup(n), "status_" \o Lower[n.status]}
<1>1. n.tags \in Seq(STRING)
      BY FleetTyped
<1>2. tagged \in Seq(S) /\ DOMAIN tagged = DOMAIN n.tags
  <2>1. DOMAIN n.tags = 1 .. Len(n.tags) /\ Len(n.tags) \in Nat
        BY <1>1
  <2>. QED BY <2>1
<1>3. <<n.zone>> \in Seq(S) /\ Len(<<n.zone>>) = 1
      OBVIOUS
<1>4. rest \in Seq(S)
  <2>1. /\ "network_" \o n.network \in S /\ n.size \in S
        /\ ImageGroup(n) \in S /\ "status_" \o Lower[n.status] \in S
        OBVIOUS
  <2> HIDE DEF S
  <2>. QED BY <2>1, FourSeq
<1>5. Labels(n) = (<<n.zone>> \o tagged) \o rest
      BY DEF Labels
<1> DEFINE p == <<n.zone>> \o tagged
<1> HIDE DEF tagged, rest, S
<1>6. p \in Seq(S) /\ Len(p) = 1 + Len(tagged) /\ \A k \in 1 .. Len(tagged) : p[k + 1] = tagged[k]
      BY <1>2, <1>3
<1> HIDE DEF p
<1>7. p \o rest \in Seq(S) /\ \A k \in 1 .. Len(p) : (p \o rest)[k] = p[k]
      BY <1>4, <1>6, ConcatProperties
<1>8. DOMAIN (p \o rest) = 1 .. Len(p) + Len(rest) /\ Len(rest) \in Nat /\ Len(tagged) \in Nat
  <2>1. Len(p \o rest) = Len(p) + Len(rest)
        BY <1>4, <1>6, ConcatProperties
  <2>2. DOMAIN (p \o rest) = 1 .. Len(p \o rest)
        BY <1>7, LenProperties
  <2>. QED BY <1>2, <1>4, <2>1, <2>2, LenProperties
<1>9. ASSUME NEW t \in ToSet(n.tags) PROVE TagGroup(t) \in ToSet(Labels(n))
  <2>1. PICK k \in DOMAIN n.tags : t = n.tags[k]
        BY DEF ToSet
  <2>2. k \in 1 .. Len(tagged) /\ tagged[k] = TagGroup(t)
        BY <1>2, <2>1 DEF tagged
  <2>3. k + 1 \in DOMAIN (p \o rest) /\ k + 1 \in 1 .. Len(p)
        BY <1>6, <1>8, <2>2
  <2>4. (p \o rest)[k + 1] = TagGroup(t)
        BY <1>6, <1>7, <2>2, <2>3
  <2>. QED BY <1>5, <2>3, <2>4 DEF p, ToSet
<1>. QED BY <1>5, <1>7, <1>9 DEF p

\* What AppendTo does to groups with lists over X.
Appended(groups, X, n, after) ==
    /\ DOMAIN after = DOMAIN groups \cup ToSet(Labels(n)) \cup Addresses(n)
    /\ \A l \in DOMAIN after :
        /\ after[l] \in Seq(X \cup {n.name})
        /\ l \in Addresses(n) => after[l] = <<n.name>>
        /\ l \notin Addresses(n) =>
            ToSet(after[l]) = ToSet(Members(groups, l))
                                  \cup IF l \in ToSet(Labels(n)) THEN {n.name} ELSE {}
        /\ l \notin Addresses(n) \cup ToSet(Labels(n)) => after[l] = groups[l]

LEMMA AppendToGroup ==
    ASSUME NEW groups, NEW X, \A l \in DOMAIN groups : groups[l] \in Seq(X),
           NEW i \in Instances
    PROVE  Appended(groups, X, Fleet[i], AppendTo(groups, Fleet[i]))
<1> DEFINE n == Fleet[i]
           labels == Labels(n)
           after == AppendTo(groups, n)
           Times(l) == Cardinality({m \in DOMAIN labels : labels[m] = l})
           added(l) == [k \in 1 .. Times(l) |-> n.name]
<1>1. \A l \in DOMAIN after :
        after[l] = IF l \in Addresses(n) THEN <<n.name>> ELSE Members(groups, l) \o added(l)
      BY DEF AppendTo
<1>2. DOMAIN after = DOMAIN groups \cup ToSet(labels) \cup Addresses(n)
      BY DEF AppendTo
<1>3. ASSUME NEW l
      PROVE  /\ added(l) \in Seq(X \cup {n.name}) /\ Times(l) \in Nat /\ Len(added(l)) = Times(l)
             /\ Times(l) = 0 <=> l \notin ToSet(labels)
  <2> DEFINE at == {m \in DOMAIN labels : labels[m] = l}
  <2>1. PICK S : labels \in Seq(S)
        BY LabelsSeq
  <2>2. IsFiniteSet(at)
    <3>1. IsFiniteSet(DOMAIN labels)
      <4>1. DOMAIN labels = 1 .. Len(labels) /\ Len(labels) \in Nat
            BY <2>1
      <4>. QED BY <4>1, FS_Interval
    <3>. QED BY <3>1, FS_Subset
  <2>3. Times(l) \in Nat /\ (Times(l) = 0 <=> at = {})
        BY <2>2, FS_CardinalityType, FS_EmptySet
  <2>4. at = {} <=> l \notin ToSet(labels)
        BY DEF ToSet
  <2> HIDE DEF Times
  <2>. QED BY <2>3, <2>4
<1> HIDE DEF after, labels, Times
<1>4. ASSUME NEW l \in DOMAIN after, l \notin Addresses(n)
      PROVE  /\ after[l] \in Seq(X \cup {n.name})
             /\ ToSet(after[l]) = ToSet(Members(groups, l))
                         \cup IF l \in ToSet(labels) THEN {n.name} ELSE {}
             /\ l \notin ToSet(labels) => after[l] = groups[l]
  <2> DEFINE old == Members(groups, l)
             new == added(l)
  <2>1. old \in Seq(X \cup {n.name}) /\ (l \in DOMAIN groups => old = groups[l])
    <3>1. CASE l \in DOMAIN groups
      <4>1. old = groups[l] /\ groups[l] \in Seq(X)
            BY <3>1 DEF Members
      <4>. QED BY <4>1, SeqMonotonic
    <3>2. CASE l \notin DOMAIN groups
          BY <3>2 DEF Members
    <3>. QED BY <3>1, <3>2
  <2>2. new \in Seq(X \cup {n.name}) /\ Len(new) = Times(l) /\ Times(l) \in Nat
        BY <1>3
  <2>3. \A k \in 1 .. Times(l) : new[k] = n.name
        OBVIOUS
  <2>4. after[l] = old \o new
        BY <1>1, <1>4
  <2>5. Times(l) = 0 <=> l \notin ToSet(labels)
        BY <1>3
  <2> HIDE DEF old, new
  <2>6. /\ old \o new \in Seq(X \cup {n.name})
        /\ Len(old \o new) = Len(old) + Times(l)
        /\ \A k \in 1 .. Len(old) : (old \o new)[k] = old[k]
        /\ \A k \in 1 .. Times(l) : (old \o new)[Len(old) + k] = n.name
    <3>1. \A k \in Len(old) + 1 .. Len(old) + Len(new) : (old \o new)[k] = new[k - Len(old)]
          BY <2>1, <2>2, ConcatProperties
    <3>2. Len(old) \in Nat
          BY <2>1
    <3>3. \A k \in 1 .. Times(l) : (old \o new)[Len(old) + k] = new[k]
      <4>1. ASSUME NEW k \in 1 .. Times(l)
            PROVE  Len(old) + k \in Len(old) + 1 .. Len(old) + Len(new) /\ Len(old) + k - Len(old) = k
            BY <2>2, <3>2
      <4>. QED BY <3>1, <4>1
    <3>. QED BY <2>1, <2>2, <2>3, <3>3, ConcatProperties
  <2>7. DOMAIN old = 1 .. Len(old) /\ DOMAIN (old \o new) = 1 .. Len(old) + Times(l)
        /\ Len(old) \in Nat
        BY <2>1, <2>6
  <2>8. ToSet(old \o new) = ToSet(old) \cup IF Times(l) = 0 THEN {} ELSE {n.name}
    <3>1. ASSUME NEW x \in ToSet(old \o new), x \notin ToSet(old)
          PROVE  x = n.name /\ Times(l) # 0
      <4>1. PICK k \in DOMAIN (old \o new) : x = (old \o new)[k]
            BY DEF ToSet
      <4>2. k \notin 1 .. Len(old)
            BY <2>6, <2>7, <3>1, <4>1 DEF ToSet
      <4>3. k - Len(old) \in 1 .. Times(l) /\ k = Len(old) + (k - Len(old))
            BY <2>2, <2>7, <4>1, <4>2
      <4>. QED BY <2>6, <4>1, <4>3
    <3>2. ToSet(old) \subseteq ToSet(old \o new)
      <4>1. 1 .. Len(old) \subseteq 1 .. Len(old) + Times(l)
            BY <2>2, <2>7
      <4>. QED BY <2>6, <2>7, <4>1 DEF ToSet
    <3>3. Times(l) # 0 => n.name \in ToSet(old \o new)
      <4>1. Times(l) # 0 => 1 \in 1 .. Times(l) /\ Len(old) + 1 \in 1 .. Len(old) + Times(l)
            BY <2>2, <2>7
      <4>. QED BY <2>6, <2>7, <4>1 DEF ToSet
    <3>. QED BY <3>1, <3>2, <3>3
  <2>9. l \notin ToSet(labels) => old \o new = old /\ l \in DOMAIN groups
    <3>1. l \notin ToSet(labels) => l \in DOMAIN groups
          BY <1>2, <1>4 DEF labels
    <3>2. l \notin ToSet(labels) => Len(new) = 0
          BY <2>2, <2>5
    <3>. QED BY <2>1, <2>2, <3>1, <3>2
  <2>. QED BY <2>1, <2>4, <2>5, <2>6, <2>8, <2>9 DEF old
<1>5. ASSUME NEW l \in DOMAIN after, l \in Addresses(n)
      PROVE  after[l] = <<n.name>> /\ after[l] \in Seq(X \cup {n.name})
  <2>1. after[l] = <<n.name>>
        BY <1>1, <1>5
  <2> HIDE DEF n
  <2>. QED BY <2>1
<1>. QED BY <1>2, <1>4, <1>5 DEF after, labels, Appended
-----------------------------------------------------------------------------
\* What the first k listed instances leave in an inventory.
Chosen(nodes, filter, k) == {i \in nodes : i <= k /\ Selected(Fleet[i], filter)}

Own(i, l) == l \in ToSet(Labels(Fleet[i])) \cup Addresses(Fleet[i])

NamesOf(S) == {Fleet[i].name : i \in S}

Grouped(inv, S, filter) ==
    /\ DOMAIN inv.hostvars = NamesOf(S)
    /\ \A l \in DOMAIN inv.groups : inv.groups[l] \in Seq(NamesOf(S))
    /\ \A i \in S : InZones(Fleet[i], filter) => \A l \in ToSet(Labels(Fleet[i])) :
        l \in DOMAIN inv.groups /\ Fleet[i].name \in ToSet(inv.groups[l])

\* The same when no name and no address is shared.
Separate(inv, S, filter) ==
    /\ \A i \in S : inv.hostvars[Fleet[i].name] = NodeToDict(i, filter.ip)
    /\ \A i \in S, l \in DOMAIN inv.groups :
        Fleet[i].name \in ToSet(inv.groups[l]) => InZones(Fleet[i], filter) /\ Own(i, l)
    /\ \A i \in S : InZones(Fleet[i], filter) => \A a \in Addresses(Fleet[i]) :
        a \in DOMAIN inv.groups /\ inv.groups[a] = <<Fleet[i].name>>

LEMMA GroupInstanceFields ==
    ASSUME NEW inv, NEW i, NEW filter, Selected(Fleet[i], filter)
    PROVE  /\ DOMAIN GroupInstance(inv, i, filter).hostvars
                = DOMAIN inv.hostvars \cup {Fleet[i].name}
           /\ GroupInstance(inv, i, filter).hostvars[Fleet[i].name] = NodeToDict(i, filter.ip)
           /\ \A m \in DOMAIN inv.hostvars \ {Fleet[i].name} :
                GroupInstance(inv, i, filter).hostvars[m] = inv.hostvars[m]
           /\ GroupInstance(inv, i, filter).groups =
                IF InZones(Fleet[i], filter)
                THEN AppendTo(inv.groups, Fleet[i]) ELSE inv.groups
BY DEF GroupInstance

LEMMA GroupedStep ==
    ASSUME NEW inv, NEW S, S \subseteq Instances, NEW i \in Instances, NEW filter,
           Selected(Fleet[i], filter), Grouped(inv, S, filter)
    PROVE  Grouped(GroupInstance(inv, i, filter), S \cup {i}, filter)
<1> DEFINE after == GroupInstance(inv, i, filter)
           n == Fleet[i]
           T == S \cup {i}
<1>1. /\ DOMAIN after.hostvars = DOMAIN inv.hostvars \cup {n.name}
      /\ after.groups = IF InZones(n, filter) THEN AppendTo(inv.groups, n) ELSE inv.groups
      BY GroupInstanceFields
<1>2. NamesOf(T) = NamesOf(S) \cup {n.name}
      BY DEF NamesOf
<1>3. \A l \in DOMAIN inv.groups : inv.groups[l] \in Seq(NamesOf(S))
      BY DEF Grouped
<1> HIDE DEF after, T
<1>4. CASE ~InZones(n, filter)
  <2>1. \A l \in DOMAIN after.groups : after.groups[l] \in Seq(NamesOf(T))
    <3>1. NamesOf(S) \subseteq NamesOf(T)
          BY <1>2
    <3>. QED BY <1>1, <1>3, <1>4, <3>1, SeqMonotonic
  <2>. QED BY <1>1, <1>2, <1>4, <2>1 DEF Grouped, T, after
<1>5. CASE InZones(n, filter)
  <2>1. after.groups = AppendTo(inv.groups, n)
        BY <1>1, <1>5
  <2>2. Appended(inv.groups, NamesOf(S), n, after.groups)
        BY <1>3, <2>1, AppendToGroup
  <2>3. \A l \in DOMAIN after.groups : after.groups[l] \in Seq(NamesOf(T))
        BY <1>2, <2>2 DEF Appended
  <2>4. ASSUME NEW k \in T, InZones(Fleet[k], filter), NEW l \in ToSet(Labels(Fleet[k]))
        PROVE  l \in DOMAIN after.groups /\ Fleet[k].name \in ToSet(after.groups[l])
    <3>1. k \in Instances /\ l \notin Addresses(n)
          BY <2>4, LabelsNoAddresses DEF T
    <3>2. k = i => l \in ToSet(Labels(n))
          OBVIOUS
    <3>3. k \in S => l \in DOMAIN inv.groups /\ Fleet[k].name \in ToSet(Members(inv.groups, l))
          BY <2>4 DEF Grouped, Members
    <3>4. l \in DOMAIN after.groups
          BY <2>2, <3>2, <3>3 DEF T, Appended
    <3>5. ToSet(after.groups[l]) = ToSet(Members(inv.groups, l))
                                      \cup IF l \in ToSet(Labels(n)) THEN {n.name} ELSE {}
          BY <2>2, <3>1, <3>4 DEF Appended
    <3>. QED BY <3>2, <3>3, <3>4, <3>5 DEF T
  <2>. QED BY <1>1, <1>2, <2>3, <2>4 DEF Grouped, T, after
<1>. QED BY <1>4, <1>5

LEMMA SeparateStep ==
    ASSUME NEW inv, NEW S, S \subseteq Instances, NEW i \in Instances \ S, NEW filter,
           Selected(Fleet[i], filter), Distinct(S \cup {i}),
           Grouped(inv, S, filter), Separate(inv, S, filter)
    PROVE  Separate(GroupInstance(inv, i, filter), S \cup {i}, filter)
<1> DEFINE after == GroupInstance(inv, i, filter)
           n == Fleet[i]
           T == S \cup {i}
<1>1. /\ after.hostvars[n.name] = NodeToDict(i, filter.ip)
      /\ \A m \in DOMAIN inv.hostvars \ {n.name} : after.hostvars[m] = inv.hostvars[m]
      /\ after.groups = IF InZones(n, filter) THEN AppendTo(inv.groups, n) ELSE inv.groups
      BY GroupInstanceFields
<1>2. \A k \in S : /\ Fleet[k].name # n.name
                   /\ Addresses(Fleet[k]) \cap Addresses(n) = {}
      BY DEF Distinct
<1>3. \A l \in DOMAIN inv.groups : inv.groups[l] \in Seq(NamesOf(S))
      BY DEF Grouped
<1>4. n.name \notin NamesOf(S)
      BY <1>2 DEF NamesOf
<1>5. \A l \in DOMAIN inv.groups : n.name \notin ToSet(inv.groups[l])
  <2>1. ASSUME NEW l \in DOMAIN inv.groups PROVE ToSet(inv.groups[l]) \subseteq NamesOf(S)
        BY <1>3 DEF ToSet
  <2>. QED BY <1>4, <2>1
<1> HIDE DEF after, T
<1>6. \A k \in T : after.hostvars[Fleet[k].name] = NodeToDict(k, filter.ip)
  <2>1. ASSUME NEW k \in S PROVE after.hostvars[Fleet[k].name] = NodeToDict(k, filter.ip)
    <3>1. Fleet[k].name \in DOMAIN inv.hostvars \ {n.name}
          BY <1>2 DEF Grouped, NamesOf
    <3>. QED BY <1>1, <3>1 DEF Separate
  <2>. QED BY <1>1, <2>1 DEF T
<1>7. CASE ~InZones(n, filter)
  <2>1. after.groups = inv.groups
        BY <1>1, <1>7
  <2>2. ASSUME NEW k \in T, NEW l \in DOMAIN after.groups,
               Fleet[k].name \in ToSet(after.groups[l])
        PROVE  InZones(Fleet[k], filter) /\ Own(k, l)
        BY <1>5, <2>1, <2>2 DEF Separate, T
  <2>3. ASSUME NEW k \in T, InZones(Fleet[k], filter), NEW a \in Addresses(Fleet[k])
        PROVE  a \in DOMAIN after.groups /\ after.groups[a] = <<Fleet[k].name>>
        BY <1>7, <2>1, <2>3 DEF Separate, T
  <2>. QED BY <1>6, <2>2, <2>3 DEF Separate, T, after
<1>8. CASE InZones(n, filter)
  <2>1. after.groups = AppendTo(inv.groups, n)
        BY <1>1, <1>8
  <2>2. Appended(inv.groups, NamesOf(S), n, after.groups)
        BY <1>3, <2>1, AppendToGroup
  <2> DEFINE g == after.groups
  <2>3. /\ DOMAIN g = DOMAIN inv.groups \cup ToSet(Labels(n)) \cup Addresses(n)
        /\ \A l \in DOMAIN g :
            /\ l \in Addresses(n) => g[l] = <<n.name>>
            /\ l \notin Addresses(n) =>
                ToSet(g[l]) = ToSet(Members(inv.groups, l))
                                  \cup IF l \in ToSet(Labels(n)) THEN {n.name} ELSE {}
            /\ l \notin Addresses(n) \cup ToSet(Labels(n)) => g[l] = inv.groups[l]
        BY <2>2 DEF Appended
  <2>4. ASSUME NEW k \in T, NEW l \in DOMAIN after.groups,
               Fleet[k].name \in ToSet(after.groups[l])
        PROVE  InZones(Fleet[k], filter) /\ Own(k, l)
    <3>1. CASE l \in Addresses(n)
      <4>1. Fleet[k].name = n.name
            BY <2>3, <2>4, <3>1 DEF ToSet
      <4>2. k = i
            BY <1>2, <4>1 DEF T
      <4>. QED BY <1>8, <3>1, <4>2 DEF Own
    <3>2. CASE l \notin Addresses(n) /\ k = i
      <4>1. n.name \notin ToSet(Members(inv.groups, l))
            BY <1>5 DEF Members, ToSet
      <4>. QED BY <1>8, <2>3, <2>4, <3>2, <4>1 DEF Own
    <3>3. CASE l \notin Addresses(n) /\ k \in S
      <4>1. Fleet[k].name \in ToSet(Members(inv.groups, l))
            BY <1>2, <2>3, <2>4, <3>3
      <4>2. l \in DOMAIN inv.groups /\ Members(inv.groups, l) = inv.groups[l]
            BY <4>1 DEF Members, ToSet
      <4>. QED BY <3>3, <4>1, <4>2 DEF Separate
    <3>. QED BY <3>1, <3>2, <3>3 DEF T
  <2>5. ASSUME NEW k \in T, InZones(Fleet[k], filter), NEW a \in Addresses(Fleet[k])
        PROVE  a \in DOMAIN after.groups /\ after.groups[a] = <<Fleet[k].name>>
    <3>1. CASE k = i
          BY <2>3, <3>1
    <3>2. CASE k \in S
      <4>1. a \in DOMAIN inv.groups /\ inv.groups[a] = <<Fleet[k].name>>
            BY <2>5, <3>2 DEF Separate
      <4>2. a \notin Addresses(n) \cup ToSet(Labels(n))
            BY <1>2, <3>2, LabelsNoAddresses
      <4>. QED BY <2>3, <4>1, <4>2
    <3>. QED BY <3>1, <3>2 DEF T
  <2>. QED BY <1>6, <2>4, <2>5 DEF Separate, T, after
<1>. QED BY <1>7, <1>8

\* By induction on the instances looked at.
LEMMA InventoriesGrouped ==
    ASSUME NEW nodes, nodes \subseteq Instances, NEW filter, NEW k \in 0 .. Len(Fleet)
    PROVE  /\ Grouped(Inventories(nodes, filter)[k], Chosen(nodes, filter, k), filter)
           /\ Distinct(nodes) =>
                Separate(Inventories(nodes, filter)[k], Chosen(nodes, filter, k), filter)
<1> DEFINE V(m) == Inventories(nodes, filter)[m]
           S(m) == Chosen(nodes, filter, m)
           Good(m) == Grouped(V(m), S(m), filter)
                      /\ (Distinct(nodes) => Separate(V(m), S(m), filter))
           T == {m \in 0 .. Len(Fleet) : ~Good(m)}
<1> SUFFICES ASSUME T # {} PROVE FALSE
    OBVIOUS
<1>1. PICK m \in T : \A l \in T : m <= l
  <2>1. T \subseteq Nat
        OBVIOUS
  <2> HIDE DEF T
  <2>. QED BY <2>1, Least
<1> HIDE DEF T, Good
<1>2. CASE m = 0
  <2>1. S(m) = {}
    <3> SUFFICES ASSUME NEW i \in S(m) PROVE FALSE
        OBVIOUS
    <3>1. i \in 1 .. Len(Fleet) /\ i <= 0
          BY <1>2 DEF Chosen, Instances
    <3>. QED BY <3>1
  <2>2. V(m) = First
        BY <1>2, InventoriesStep
  <2>3. DOMAIN First.hostvars = {} /\ DOMAIN First.groups = {}
        BY DEF First
  <2> HIDE DEF V, S
  <2>4. Good(m)
        BY <2>1, <2>2, <2>3 DEF Good, Grouped, Separate, NamesOf
  <2>. QED BY <1>1, <2>4 DEF T
<1>3. CASE m # 0
  <2>1. m \in Instances /\ m - 1 \in 0 .. Len(Fleet) /\ m - 1 \notin T
        BY <1>1, <1>3 DEF T, Instances
  <2>2. Good(m - 1)
        BY <2>1 DEF T
  <2>3. V(m) = IF m \in nodes THEN GroupInstance(V(m - 1), m, filter) ELSE V(m - 1)
        BY <2>1, InventoriesStep
  <2>4. /\ S(m) = S(m - 1) \cup {i \in nodes : i = m /\ Selected(Fleet[i], filter)}
        /\ m \notin S(m - 1) /\ S(m - 1) \subseteq Instances /\ S(m) \subseteq nodes
    <3>1. \A i \in nodes : i <= m <=> i <= m - 1 \/ i = m
          BY <2>1 DEF Instances
    <3>2. ~(m <= m - 1)
          BY <2>1 DEF Instances
    <3>. QED BY <3>1, <3>2 DEF Chosen
  <2> HIDE DEF V, S
  <2>5. CASE m \notin nodes \/ ~Selected(Fleet[m], filter)
    <3>1. S(m) = S(m - 1) /\ V(m) = V(m - 1)
          BY <2>3, <2>4, <2>5 DEF GroupInstance
    <3>. QED BY <1>1, <2>2, <3>1 DEF T, Good
  <2>6. CASE m \in nodes /\ Selected(Fleet[m], filter)
    <3>1. S(m) = S(m - 1) \cup {m} /\ V(m) = GroupInstance(V(m - 1), m, filter)
          BY <2>3, <2>4, <2>6
    <3>2. Grouped(V(m), S(m), filter)
          BY <2>1, <2>2, <2>4, <2>6, <3>1, GroupedStep DEF Good
    <3>3. ASSUME Distinct(nodes) PROVE Separate(V(m), S(m), filter)
      <4>1. Distinct(S(m - 1) \cup {m})
            BY <2>4, <3>1, <3>3 DEF Distinct
      <4>2. Grouped(V(m - 1), S(m - 1), filter) /\ Separate(V(m - 1), S(m - 1), filter)
            BY <2>2, <3>3 DEF Good
      <4>3. m \in Instances \ S(m - 1) /\ S(m - 1) \subseteq Instances
            BY <2>1, <2>4
      <4>4. Separate(GroupInstance(V(m - 1), m, filter), S(m - 1) \cup {m}, filter)
            BY <2>6, <4>1, <4>2, <4>3, SeparateStep
      <4>. QED BY <3>1, <4>4
    <3>. QED BY <1>1, <3>2, <3>3 DEF T, Good
  <2>. QED BY <2>5, <2>6
<1>. QED BY <1>2, <1>3
-----------------------------------------------------------------------------
\* Ansible connects to an address of the instance.
LEMMA SshHostOwn ==
    ASSUME NEW i \in Instances, NEW ip
    PROVE  SshHost(Fleet[i], ip) \in Addresses(Fleet[i])
<1> DEFINE n == Fleet[i]
           p == n.private
           q == n.public
<1>1. p \in Seq(STRING) /\ p # <<>> /\ q \in Seq(STRING)
      BY FleetTyped
<1>2. SshHost(n, ip) = p[1] \/ (SshHost(n, ip) = q[1] /\ q # <<>>)
      BY DEF SshHost
<1>3. Addresses(n) = {(p \o q)[k] : k \in DOMAIN (p \o q)}
      BY DEF Addresses, ToSet
<1> HIDE DEF n, p, q
<1>4. Len(p) \in Nat \ {0} /\ Len(q) \in Nat /\ (q # <<>> => Len(q) # 0)
      BY <1>1
<1>5. /\ DOMAIN (p \o q) = 1 .. Len(p) + Len(q)
      /\ (p \o q)[1] = p[1] /\ (q # <<>> => (p \o q)[Len(p) + 1] = q[1])
  <2>1. p \o q \in Seq(STRING) /\ Len(p \o q) = Len(p) + Len(q)
        BY <1>1, ConcatProperties
  <2>2. (p \o q)[1] = p[1]
        BY <1>1, <1>4, ConcatProperties
  <2>3. q # <<>> => (p \o q)[Len(p) + 1] = q[1]
    <3>1. q # <<>> => Len(p) + 1 \in Len(p) + 1 .. Len(p) + Len(q) /\ Len(p) + 1 - Len(p) = 1
          BY <1>4
    <3>. QED BY <1>1, <3>1, ConcatProperties
  <2>. QED BY <2>1, <2>2, <2>3, LenProperties
<1>6. 1 \in DOMAIN (p \o q) /\ (q # <<>> => Len(p) + 1 \in DOMAIN (p \o q))
      BY <1>4, <1>5
<1>. QED BY <1>2, <1>3, <1>5, <1>6 DEF n

\* For every listing and every filter.
LEMMA AnyGroupsAgree ==
    ASSUME NEW nodes, nodes \subseteq Instances, NEW filter
    PROVE  GroupsAgree(nodes, filter)
<1> DEFINE inv == GroupInstances(nodes, filter)
           hosts == {i \in nodes : /\ InstanceStates = {} \/ Fleet[i].status \in InstanceStates
                                   /\ filter.tags = {} \/ \E t \in filter.tags :
                                                     t \in ToSet(Fleet[i].tags)}
<1>1. hosts = Chosen(nodes, filter, Len(Fleet))
  <2>1. \A i \in nodes : i <= Len(Fleet)
        BY DEF Instances
  <2>2. \A i \in nodes : i \in hosts <=> Selected(Fleet[i], filter)
        BY DEF Selected, SomeTag
  <2> HIDE DEF hosts
  <2>3. hosts \subseteq nodes
        BY DEF hosts
  <2>. QED BY <2>1, <2>2, <2>3 DEF Chosen
<1>2. Grouped(inv, hosts, filter) /\ (Distinct(nodes) => Separate(inv, hosts, filter))
  <2>1. Len(Fleet) \in 0 .. Len(Fleet)
        OBVIOUS
  <2> HIDE DEF hosts
  <2>. QED BY <1>1, <2>1, InventoriesGrouped DEF GroupInstances
<1>3. hosts \subseteq Instances
      OBVIOUS
<1> HIDE DEF inv, hosts
<1>4. DOMAIN inv.hostvars = {Fleet[i].name : i \in hosts}
      BY <1>2 DEF Grouped, NamesOf
<1>5. ASSUME Distinct(nodes), NEW i \in hosts, NEW l \in DOMAIN inv.groups
      PROVE  Fleet[i].name \in ToSet(inv.groups[l]) <=>
                /\ InZones(Fleet[i], filter)
                /\ l \in ToSet(Labels(Fleet[i])) \cup Addresses(Fleet[i])
  <2>1. ASSUME InZones(Fleet[i], filter), l \in Addresses(Fleet[i])
        PROVE  Fleet[i].name \in ToSet(inv.groups[l])
    <3>1. inv.groups[l] = <<Fleet[i].name>>
          BY <1>2, <1>5, <2>1 DEF Separate
    <3>. QED BY <3>1 DEF ToSet
  <2>2. ASSUME InZones(Fleet[i], filter), l \in ToSet(Labels(Fleet[i]))
        PROVE  Fleet[i].name \in ToSet(inv.groups[l])
        BY <1>2, <2>2 DEF Grouped
  <2>. QED BY <1>2, <1>5, <2>1, <2>2 DEF Separate, Own
<1>6. ASSUME NEW l \in DOMAIN inv.groups
      PROVE  ToSet(inv.groups[l]) \subseteq DOMAIN inv.hostvars
  <2>1. inv.groups[l] \in Seq(DOMAIN inv.hostvars)
        BY <1>2 DEF Grouped
  <2>. QED BY <2>1 DEF ToSet
<1>7. ASSUME Distinct(nodes), NEW i \in hosts, InZones(Fleet[i], filter)
      PROVE  inv.groups[inv.hostvars[Fleet[i].name].ansible_ssh_host] = <<Fleet[i].name>>
  <2>1. inv.hostvars[Fleet[i].name].ansible_ssh_host = SshHost(Fleet[i], filter.ip)
    <3>1. inv.hostvars[Fleet[i].name] = NodeToDict(i, filter.ip)
          BY <1>2, <1>7 DEF Separate
    <3>. QED BY <3>1 DEF NodeToDict
  <2>2. SshHost(Fleet[i], filter.ip) \in Addresses(Fleet[i])
        BY <1>3, SshHostOwn
  <2>. QED BY <1>2, <1>7, <2>1, <2>2 DEF Separate
<1>. QED BY <1>4, <1>5, <1>6, <1>7 DEF GroupsAgree, inv, hosts

\* In an unfiltered inventory the group of a tag has every instance with it,
\* and only instances of the fleet.
LEMMA TagGroupWhole ==
    ASSUME NEW nodes, nodes \subseteq Instances, NEW i \in nodes,
           InstanceStates = {} \/ Fleet[i].status \in InstanceStates,
           NEW t \in ToSet(Fleet[i].tags)
    PROVE  LET groups == GroupInstances(nodes, Unfiltered).groups
           IN  TagGroup(t) \in DOMAIN groups /\ Fleet[i].name \in ToSet(groups[TagGroup(t)])
<1>1. i \in Chosen(nodes, Unfiltered, Len(Fleet)) /\ InZones(Fleet[i], Unfiltered)
  <2>1. i <= Len(Fleet)
        BY DEF Instances
  <2>2. Unfiltered.tags = {} /\ Unfiltered.zones = {}
        BY DEF Unfiltered
  <2>. QED BY <2>1, <2>2 DEF Chosen, Selected, SomeTag, InZones
<1>2. Grouped(GroupInstances(nodes, Unfiltered), Chosen(nodes, Unfiltered, Len(Fleet)), Unfiltered)
  <2>1. Len(Fleet) \in 0 .. Len(Fleet)
        OBVIOUS
  <2>. QED BY <2>1, InventoriesGrouped DEF GroupInstances
<1>3. TagGroup(t) \in ToSet(Labels(Fleet[i]))
      BY LabelsSeq
<1>. QED BY <1>1, <1>2, <1>3 DEF Grouped

LEMMA GroupTyped ==
    ASSUME NEW nodes, nodes \subseteq Instances, NEW filter, NEW l
    PROVE  Members(GroupInstances(nodes, filter).groups, l) \in Seq(Names)
<1> DEFINE inv == GroupInstances(nodes, filter)
           S == Chosen(nodes, filter, Len(Fleet))
<1>1. Grouped(inv, S, filter)
  <2>1. Len(Fleet) \in 0 .. Len(Fleet)
        OBVIOUS
  <2>. QED BY <2>1, InventoriesGrouped DEF GroupInstances
<1>2. NamesOf(S) \subseteq Names
      BY DEF NamesOf, Names, Chosen
<1>3. CASE l \in DOMAIN inv.groups
  <2>1. inv.groups[l] \in Seq(NamesOf(S))
        BY <1>1, <1>3 DEF Grouped
  <2>. QED BY <1>2, <1>3, <2>1, SeqMonotonic DEF Members
<1>4. CASE l \notin DOMAIN inv.groups
      BY <1>4 DEF Members
<1>. QED BY <1>3, <1>4

-----------------------------------------------------------------------------
(* The playbooks.  A host a playbook has still to treat is in an item it   *)
(* has left, for as long as the host is known and in the cloud.            *)

Plays == [book : AllBooks \cup {"none", "undefined"}, loops : Seq(Seq(Names)),
          ok : BOOLEAN, reached : SUBSET Instances, failed : SUBSET Instances]

\* The items of these loops.
Left(loops) == UNION {ToSet(loops[k]) : k \in DOMAIN loops}

Lacking(r) ==
    \E t \in {"controller", "worker"} :
        \A i \in Known(r) \cap cloud : t \notin ToSet(Fleet[i].tags)

PlayInv(r) ==
    /\ play[r].book # "none" => job[r].step = "printed"
    /\ play[r].book = "cleanup" => Len(play[r].loops) <= 1
    /\ play[r].failed # {} => ~play[r].ok
    /\ play[r].book = "cleanup" /\ Whole(r) =>
        \A i \in Known(r) \cap cloud :
            i \in play[r].failed \/ Fleet[i].name \in Left(play[r].loops)
    /\ play[r].book = "configure" /\ play[r].ok /\ Whole(r) =>
        \A i \in Known(r) \cap cloud :
            i \in play[r].reached \/ Fleet[i].name \in Left(play[r].loops)
    /\ play[r].book = "undefined" /\ Whole(r) => Lacking(r)

PlaysInv ==
    /\ play \in [Runs -> Plays] /\ moves \in 0 .. MaxMoves
    /\ \A r \in Runs : PlayInv(r)

USE MaxMovesNatural, BoundsNatural

\* SetToSeq lists every element of a finite set.
LEMMA SetToSeqAll ==
    ASSUME NEW S, IsFiniteSet(S)
    PROVE  SetToSeq(S) \in Seq(S) /\ ToSet(SetToSeq(S)) = S
<1> DEFINE f == SetToSeq(S)
           D == 1 .. Cardinality(S)
<1>1. Cardinality(S) \in Nat /\ ExistsBijection(D, S)
      BY FS_CardinalityType
<1>2. \E g \in [D -> S] : IsInjective(g)
      BY <1>1 DEF ExistsBijection, Bijection, Injection
<1>3. f \in [D -> S] /\ IsInjective(f)
      BY <1>2 DEF SetToSeq
<1> HIDE DEF f
<1>4. f \in Seq(S)
      BY <1>1, <1>3
<1>5. f \in Surjection(D, S)
  <2>1. IsFiniteSet(D) /\ Cardinality(D) = Cardinality(S)
        BY <1>1, FS_Interval
  <2>2. f \in Injection(D, S)
        BY <1>3 DEF Injection
  <2> HIDE DEF D
  <2>. QED BY <2>1, <2>2, FS_Injection
<1>6. ToSet(f) = S
      BY <1>3, <1>5 DEF ToSet, Surjection
<1>. QED BY <1>4, <1>6 DEF f

LEMMA ToSetFinite ==
    ASSUME NEW S, NEW s \in Seq(S)
    PROVE  IsFiniteSet(ToSet(s)) /\ ToSet(s) \subseteq S
<1>1. s \in Surjection(DOMAIN s, ToSet(s))
      BY DEF Surjection, ToSet
<1>2. IsFiniteSet(DOMAIN s)
  <2>1. DOMAIN s = 1 .. Len(s) /\ Len(s) \in Nat
        OBVIOUS
  <2>. QED BY <2>1, FS_Interval
<1>3. IsFiniteSet(ToSet(s))
      BY <1>1, <1>2, FS_Surjection
<1>. QED BY <1>3 DEF ToSet

\* The loops of a playbook hold the hosts of both groups.
LEMMA LoopsAll ==
    ASSUME NEW groups, NEW b \in AllBooks,
           Members(groups, "tag_controller") \in Seq(Names),
           Members(groups, "tag_worker") \in Seq(Names)
    PROVE  /\ Loops(b, groups) \in Seq(Seq(Names))
           /\ b = "cleanup" => Len(Loops(b, groups)) <= 1
           /\ Left(Loops(b, groups)) = ToSet(Members(groups, "tag_controller"))
                                          \cup ToSet(Members(groups, "tag_worker"))
<1> DEFINE c == Members(groups, "tag_controller")
           w == Members(groups, "tag_worker")
<1>1. c \in Seq(Names) /\ w \in Seq(Names)
      OBVIOUS
<1> HIDE DEF c, w
<1>2. CASE b = "cleanup"
  <2> DEFINE S == ToSet(c) \cup ToSet(w)
  <2>1. IsFiniteSet(S) /\ S \subseteq Names
        BY <1>1, ToSetFinite, FS_Union
  <2> HIDE DEF S
  <2>2. SetToSeq(S) \in Seq(S) /\ ToSet(SetToSeq(S)) = S
        BY <2>1, SetToSeqAll
  <2>3. SetToSeq(S) \in Seq(Names)
        BY <2>1, <2>2, SeqMonotonic
  <2>4. Loops(b, groups) = <<SetToSeq(S)>>
        BY <1>2 DEF Loops, ClusterHosts, S, c, w
  <2> DEFINE q == SetToSeq(S)
  <2> HIDE DEF q
  <2>5. <<q>> \in Seq(Seq(Names)) /\ Len(<<q>>) = 1 /\ Left(<<q>>) = ToSet(q)
        BY <2>3 DEF q, Left
  <2>6. Loops(b, groups) = <<q>> /\ ToSet(q) = ToSet(c) \cup ToSet(w)
        BY <2>2, <2>4 DEF q, S
  <2>. QED BY <2>5, <2>6 DEF c, w
<1>3. CASE b # "cleanup"
  <2>1. Loops(b, groups) = <<w, c>>
        BY <1>3 DEF Loops, c, w
  <2>2. <<w, c>> \in Seq(Seq(Names))
        BY <1>1
  <2>3. Left(<<w, c>>) = ToSet(c) \cup ToSet(w)
        BY DEF Left
  <2>. QED BY <1>3, <2>1, <2>2, <2>3 DEF c, w
<1>. QED BY <1>2, <1>3

-----------------------------------------------------------------------------
\* What others do: the instances a playbook knows only become fewer.
LEMMA KnownShrinks ==
    ASSUME Inv, NEW s \in Runs, job[s].step # "idle", job'[s] = job[s],
           NEW i \in Instances, changed' = [changed EXCEPT ![i] = now],
           cloud' \in {cloud \cup {i}, cloud \ {i}}
    PROVE  Known(s)' \cap cloud' = (Known(s) \cap cloud) \ {i}
<1>1. /\ changed \in [Instances -> Nat] /\ now \in Nat /\ job[s].started \in Nat
      /\ job[s].started <= now
      BY DEF Inv, InvTypeOK, JobInv
<1>2. ~(now <= Settled(s)) /\ Settled(s)' = Settled(s)
      BY <1>1 DEF Settled
<1>3. ASSUME NEW k \in Instances PROVE changed'[k] = IF k = i THEN now ELSE changed[k]
      BY <1>1
<1>4. Cluster \subseteq Instances
      BY DEF Cluster
<1>5. Known(s)' = Known(s) \ {i}
      BY <1>2, <1>3, <1>4 DEF Known
<1>. QED BY <1>5

LEMMA OthersKept ==
    ASSUME Inv, NEW s \in Runs, PlayInv(s), job'[s] = job[s], play'[s] = play[s],
           \/ UNCHANGED <<cloud, changed>>
           \/ \E i \in Instances : /\ changed' = [changed EXCEPT ![i] = now]
                                   /\ cloud' \in {cloud \cup {i}, cloud \ {i}}
    PROVE  PlayInv(s)'
<1>1. CASE play[s].book = "none"
      BY <1>1 DEF PlayInv
<1>2. CASE play[s].book # "none"
  <2>1. job[s].step # "idle" /\ Whole(s)' = Whole(s)
        BY <1>2 DEF PlayInv, Whole
  <2>2. Known(s)' \cap cloud' \subseteq Known(s) \cap cloud
    <3>1. CASE UNCHANGED <<cloud, changed>>
          BY <3>1 DEF Known, Settled
    <3>. QED BY <2>1, <3>1, KnownShrinks
  <2>3. Lacking(s) => Lacking(s)'
        BY <2>2 DEF Lacking
  <2>. QED BY <2>1, <2>2, <2>3 DEF PlayInv
<1>. QED BY <1>1, <1>2

\* A run of the script that no playbook is at.
LEMMA ScriptKeeps ==
    ASSUME Inv, PlaysInv, NEW r \in Runs, job[r].step # "printed",
           \A s \in Runs \ {r} : job'[s] = job[s], UNCHANGED <<cloud, changed, play, moves>>
    PROVE  PlaysInv'
<1>1. ASSUME NEW s \in Runs PROVE PlayInv(s)'
  <2>1. CASE s = r
        BY <2>1 DEF PlaysInv, PlayInv
  <2>2. CASE s # r
        BY <2>2, OthersKept DEF PlaysInv
  <2>. QED BY <2>1, <2>2
<1>. QED BY <1>1 DEF PlaysInv

\* One playbook moves on.
LEMMA PlayChange ==
    ASSUME Inv, PlaysInv, NEW r \in Runs, NEW p \in Plays, play' = [play EXCEPT ![r] = p],
           \A s \in Runs \ {r} : job'[s] = job[s], UNCHANGED moves, PlayInv(r)',
           \/ UNCHANGED <<cloud, changed>>
           \/ \E i \in Instances : /\ changed' = [changed EXCEPT ![i] = now]
                                   /\ cloud' \in {cloud \cup {i}, cloud \ {i}}
    PROVE  PlaysInv'
<1>1. play' \in [Runs -> Plays]
      BY DEF PlaysInv
<1>2. ASSUME NEW s \in Runs \ {r} PROVE PlayInv(s)'
  <2>1. play'[s] = play[s]
        BY DEF PlaysInv
  <2>. QED BY <2>1, OthersKept DEF PlaysInv
<1>. QED BY <1>1, <1>2 DEF PlaysInv

-----------------------------------------------------------------------------
\* A playbook is entered with the hosts of everything it knows.
LEMMA EnterLoopPlays ==
    ASSUME Inv, PlaysInv, NEW r \in Runs, EnterLoop(r)
    PROVE  PlaysInv'
<1> DEFINE g == GroupsOf(r)
<1>1. PICK b \in Books : play' = [play EXCEPT ![r] =
        IF GroupsDefined(g) THEN [NoPlay EXCEPT !.book = b, !.loops = Loops(b, g)]
        ELSE [NoPlay EXCEPT !.book = "undefined", !.ok = FALSE]]
      BY DEF EnterLoop
<1>2. job[r].step = "printed" /\ UNCHANGED <<invVars, moves>> /\ play \in [Runs -> Plays]
      BY DEF EnterLoop, PlaysInv
<1>3. b \in AllBooks /\ b # "none" /\ b # "undefined"
      BY BooksKnown DEF AllBooks
<1>4. job[r].data.nodes \subseteq Instances
      BY DEF Inv, InvTypeOK, Data
<1>5. \A l : Members(g, l) \in Seq(Names)
      BY <1>4, GroupTyped DEF GroupsOf, Printed
<1>6. ASSUME Whole(r), NEW i \in Known(r) \cap cloud, NEW t \in {"controller", "worker"},
             t \in ToSet(Fleet[i].tags)
      PROVE  "tag_" \o t \in DOMAIN g /\ Fleet[i].name \in ToSet(Members(g, "tag_" \o t))
  <2>1. Right(job[r].data, Settled(r))
        BY <1>2 DEF Inv, JobInv, Settled
  <2>2. i \in job[r].data.nodes /\ (InstanceStates = {} \/ Fleet[i].status \in InstanceStates)
        BY <1>6, <2>1 DEF Right, Known, Cluster, Whole
  <2>3. TagGroup(t) = "tag_" \o t
        BY ClusterTags DEF TagGroup
  <2>4. g = GroupInstances(job[r].data.nodes, Unfiltered).groups
        BY <1>6 DEF GroupsOf, Printed, Whole
  <2> HIDE DEF g
  <2>5. TagGroup(t) \in DOMAIN g /\ Fleet[i].name \in ToSet(g[TagGroup(t)])
        BY <1>4, <1>6, <2>2, <2>4, TagGroupWhole
  <2>. QED BY <2>3, <2>5 DEF Members
<1> HIDE DEF g
<1>7. Whole(r)' = Whole(r) /\ Known(r)' \cap cloud' = Known(r) \cap cloud
      /\ (Lacking(r) => Lacking(r)') /\ UNCHANGED <<job, cloud, changed>>
      BY <1>2 DEF Whole, Known, Settled, Lacking, invVars
<1>8. CASE GroupsDefined(g)
  <2> DEFINE p == [NoPlay EXCEPT !.book = b, !.loops = Loops(b, g)]
  <2>1. /\ Loops(b, g) \in Seq(Seq(Names)) /\ (b = "cleanup" => Len(Loops(b, g)) <= 1)
        /\ Left(Loops(b, g)) = ToSet(Members(g, "tag_controller"))
                                  \cup ToSet(Members(g, "tag_worker"))
        BY <1>3, <1>5, LoopsAll
  <2>2. p \in Plays /\ p.book = b /\ p.loops = Loops(b, g) /\ p.failed = {}
        BY <1>3, <2>1 DEF Plays, NoPlay
  <2>3. play' = [play EXCEPT ![r] = p] /\ play'[r] = p
        BY <1>1, <1>2, <1>8
  <2> HIDE DEF p
  <2>4. ASSUME Whole(r), NEW i \in Known(r) \cap cloud
        PROVE  Fleet[i].name \in Left(p.loops)
    <3>1. PICK t \in {"controller", "worker"} : t \in ToSet(Fleet[i].tags)
          BY DEF Known, Cluster
    <3>2. Fleet[i].name \in ToSet(Members(g, "tag_" \o t))
          BY <1>6, <2>4, <3>1
    <3>. QED BY <2>1, <2>2, <3>1, <3>2, ClusterTags
  <2>5. PlayInv(r)'
        BY <1>2, <1>3, <1>7, <2>1, <2>2, <2>3, <2>4 DEF PlayInv
  <2>. QED BY <1>2, <1>7, <2>2, <2>3, <2>5, PlayChange
<1>9. CASE ~GroupsDefined(g)
  <2> DEFINE p == [NoPlay EXCEPT !.book = "undefined", !.ok = FALSE]
  <2>1. p \in Plays /\ p.book = "undefined" /\ p.failed = {}
    <3>1. <<>> \in Seq(Seq(Names))
          OBVIOUS
    <3>. QED BY <3>1 DEF Plays, NoPlay
  <2>2. play' = [play EXCEPT ![r] = p] /\ play'[r] = p
        BY <1>1, <1>2, <1>9
  <2> HIDE DEF p
  <2>3. Whole(r) => Lacking(r)
    <3>1. PICK t \in {"controller", "worker"} : "tag_" \o t \notin DOMAIN g
          BY <1>9, ClusterTags DEF GroupsDefined
    <3>. QED BY <1>6, <3>1 DEF Lacking
  <2>4. PlayInv(r)'
        BY <1>2, <1>7, <2>1, <2>2, <2>3 DEF PlayInv
  <2>. QED BY <1>2, <1>7, <2>1, <2>2, <2>4, PlayChange
<1>. QED BY <1>8, <1>9

\* The items left once the first one is taken.
LEMMA LeftTail ==
    ASSUME NEW S, NEW loops \in Seq(Seq(S)), loops # <<>>, loops[1] # <<>>
    PROVE  LET rest == [loops EXCEPT ![1] = Tail(loops[1])]
           IN  /\ rest \in Seq(Seq(S)) /\ Len(rest) = Len(loops)
               /\ \A x \in Left(loops) : x = loops[1][1] \/ x \in Left(rest)
<1> DEFINE rest == [loops EXCEPT ![1] = Tail(loops[1])]
<1>1. /\ Len(loops) \in Nat \ {0} /\ DOMAIN loops = 1 .. Len(loops) /\ loops[1] \in Seq(S)
      /\ 1 \in DOMAIN loops
      OBVIOUS
<1>2. /\ Tail(loops[1]) \in Seq(S)
      /\ \A m \in DOMAIN loops[1] : m # 1 => /\ m - 1 \in DOMAIN Tail(loops[1])
                                            /\ Tail(loops[1])[m - 1] = loops[1][m]
  <2> DEFINE first == loops[1]
  <2>1. first \in Seq(S) /\ first # <<>>
        BY <1>1
  <2> HIDE DEF first
  <2>2. /\ Tail(first) \in Seq(S)
        /\ \A m \in DOMAIN first : m # 1 => /\ m - 1 \in DOMAIN Tail(first)
                                            /\ Tail(first)[m - 1] = first[m]
        BY <2>1
  <2>. QED BY <2>2 DEF first
<1>3. /\ rest \in Seq(Seq(S)) /\ Len(rest) = Len(loops) /\ DOMAIN rest = DOMAIN loops
      /\ rest[1] = Tail(loops[1])
      /\ \A k \in DOMAIN loops : k # 1 => rest[k] = loops[k]
      BY <1>1, <1>2
<1> HIDE DEF rest
<1>4. ASSUME NEW x \in Left(loops) PROVE x = loops[1][1] \/ x \in Left(rest)
  <2>1. PICK k \in DOMAIN loops : x \in ToSet(loops[k])
        BY DEF Left
  <2>2. PICK m \in DOMAIN loops[k] : x = loops[k][m]
        BY <2>1 DEF ToSet
  <2>3. CASE k # 1
    <3>1. rest[k] = loops[k] /\ k \in DOMAIN rest
          BY <1>3, <2>3
    <3>. QED BY <2>1, <3>1 DEF Left
  <2>4. CASE k = 1 /\ m # 1
    <3>1. m - 1 \in DOMAIN rest[1] /\ rest[1][m - 1] = x /\ 1 \in DOMAIN rest
          BY <1>1, <1>2, <1>3, <2>2, <2>4
    <3>. QED BY <3>1 DEF Left, ToSet
  <2>. QED BY <2>2, <2>3, <2>4
<1>. QED BY <1>3, <1>4 DEF rest

\* Nothing is left in a loop that has ended.
LEMMA LeftNext ==
    ASSUME NEW S, NEW loops \in Seq(Seq(S)), loops # <<>>, loops[1] = <<>>
    PROVE  /\ Tail(loops) \in Seq(Seq(S)) /\ Len(Tail(loops)) <= Len(loops)
           /\ Left(loops) \subseteq Left(Tail(loops))
           /\ Len(loops) <= 1 => Left(loops) = {}
<1>1. /\ Len(loops) \in Nat \ {0} /\ DOMAIN loops = 1 .. Len(loops)
      /\ Tail(loops) \in Seq(Seq(S)) /\ Len(Tail(loops)) <= Len(loops)
      OBVIOUS
<1>2. ASSUME NEW x \in Left(loops)
      PROVE  Len(loops) > 1 /\ x \in Left(Tail(loops))
  <2>1. PICK k \in DOMAIN loops : x \in ToSet(loops[k])
        BY DEF Left
  <2>2. k # 1
        BY <2>1 DEF ToSet
  <2>3. k - 1 \in DOMAIN Tail(loops) /\ Tail(loops)[k - 1] = loops[k] /\ Len(loops) > 1
        BY <1>1, <2>2
  <2>. QED BY <2>1, <2>3 DEF Left
<1>3. Len(loops) <= 1 => Left(loops) = {}
      BY <1>1, <1>2
<1>. QED BY <1>1, <1>2, <1>3

\* What an item's command leaves of the playbook.
ItemDone(r, p, q) ==
    /\ q.book = p.book /\ q.loops = [p.loops EXCEPT ![1] = Tail(p.loops[1])]
    /\ q.ok => p.ok /\ Item(r) \subseteq q.reached
    /\ q.failed # p.failed => ~q.ok
    /\ p.failed \subseteq q.failed /\ p.reached \subseteq q.reached
    /\ p.book = "cleanup" =>
        Item(r) \subseteq q.failed \/ \E i \in Item(r) : Vanish(i)

LEMMA ItemResult ==
    ASSUME PlaysInv, NEW r \in Runs, LoopItem(r), Item(r) \subseteq Instances,
           [play[r].loops EXCEPT ![1] = Tail(play[r].loops[1])] \in Seq(Seq(Names))
    PROVE  \E q \in Plays : play' = [play EXCEPT ![r] = q] /\ ItemDone(r, play[r], q)
<1> DEFINE p == play[r]
           rest == [p.loops EXCEPT ![1] = Tail(p.loops[1])]
           won == [p EXCEPT !.loops = rest, !.reached = p.reached \cup Item(r)]
           lost == [p EXCEPT !.loops = rest, !.ok = FALSE, !.failed = p.failed \cup Item(r)]
<1>1. p \in Plays /\ play \in [Runs -> Plays] /\ rest \in Seq(Seq(Names))
      BY DEF PlaysInv
<1>2. CASE ItemSucceeds(r)
  <2>1. play' = [play EXCEPT ![r] = won]
        BY <1>1, <1>2 DEF ItemSucceeds, Plays
  <2>2. /\ won \in Plays /\ won.book = p.book /\ won.loops = rest /\ won.ok = p.ok
        /\ won.reached = p.reached \cup Item(r) /\ won.failed = p.failed
        BY <1>1 DEF Plays
  <2>3. p.book = "cleanup" => \E i \in Item(r) : Vanish(i)
        BY <1>2 DEF ItemSucceeds
  <2>4. ItemDone(r, p, won)
        BY <2>2, <2>3 DEF ItemDone
  <2>. QED BY <2>1, <2>2, <2>4
<1>3. CASE ItemFails(r)
  <2>1. play' = [play EXCEPT ![r] = lost]
        BY <1>1, <1>3 DEF ItemFails, Plays
  <2>2. /\ lost \in Plays /\ lost.book = p.book /\ lost.loops = rest /\ ~lost.ok
        /\ lost.reached = p.reached /\ lost.failed = p.failed \cup Item(r)
        BY <1>1 DEF Plays
  <2>3. ItemDone(r, p, lost)
        BY <2>2 DEF ItemDone
  <2>. QED BY <2>1, <2>2, <2>3
<1>. QED BY <1>2, <1>3 DEF LoopItem

LEMMA LoopItemPlays ==
    ASSUME Inv, PlaysInv, NEW r \in Runs, LoopItem(r)
    PROVE  PlaysInv'
<1> DEFINE p == play[r]
           rest == [p.loops EXCEPT ![1] = Tail(p.loops[1])]
<1>1. /\ p.loops # <<>> /\ p.loops[1] # <<>>
      /\ UNCHANGED <<now, file, job, starts, cut, moves>>
      BY DEF LoopItem
<1>2. p \in Plays /\ play \in [Runs -> Plays] /\ PlayInv(r)
      BY DEF PlaysInv
<1>3. /\ rest \in Seq(Seq(Names)) /\ Len(rest) = Len(p.loops)
      /\ \A x \in Left(p.loops) : x = p.loops[1][1] \/ x \in Left(rest)
      BY <1>1, <1>2, LeftTail DEF Plays
<1>4. Item(r) \subseteq cloud /\ cloud \subseteq Instances /\ cloud \in Clouds
      BY DEF Item, Inv, InvTypeOK, Clouds
<1>5. PICK q \in Plays : play' = [play EXCEPT ![r] = q] /\ ItemDone(r, p, q)
      BY <1>3, <1>4, ItemResult
<1>6. play'[r] = q
      BY <1>2, <1>5
<1>7. ASSUME NEW i \in Known(r) \cap cloud, Fleet[i].name \in Left(p.loops)
      PROVE  i \in Item(r) \/ Fleet[i].name \in Left(rest)
      BY <1>3, <1>7 DEF Item, Known, Cluster
<1>8. \/ UNCHANGED <<cloud, changed>>
      \/ \E i \in Instances : /\ changed' = [changed EXCEPT ![i] = now]
                              /\ cloud' \in {cloud \cup {i}, cloud \ {i}}
      BY <1>4 DEF LoopItem, ItemSucceeds, ItemFails, Vanish
<1>9. /\ q.book = p.book /\ q.loops = rest /\ (q.ok => p.ok /\ Item(r) \subseteq q.reached)
      /\ (q.failed # p.failed => ~q.ok) /\ p.failed \subseteq q.failed
      /\ p.reached \subseteq q.reached
      BY <1>5 DEF ItemDone
<1> HIDE DEF rest
<1>10. CASE p.book = "none"
  <2>1. PlayInv(r)'
        BY <1>2, <1>6, <1>9, <1>10 DEF PlayInv
  <2>. QED BY <1>1, <1>5, <1>8, <2>1, PlayChange
<1>11. CASE p.book # "none"
  <2>1. Known(r)' \cap cloud' \subseteq Known(r) \cap cloud
    <3>1. CASE UNCHANGED <<cloud, changed>>
          BY <1>1, <3>1 DEF Known, Settled
    <3>2. job[r].step # "idle"
          BY <1>2, <1>11 DEF PlayInv
    <3>. QED BY <1>1, <1>8, <3>1, <3>2, KnownShrinks
  <2>2. ASSUME p.book = "cleanup", NEW i \in Known(r)' \cap cloud', i \in Item(r)
        PROVE  i \in q.failed
    <3> SUFFICES ASSUME NEW k \in Item(r), Vanish(k) PROVE FALSE
        BY <1>5, <2>2 DEF ItemDone
    <3>1. ~Clash(i, k)
          BY <1>4, <2>2 DEF Clouds
    <3>2. i = k
          BY <2>2, <3>1 DEF Clash, Item
    <3>. QED BY <2>2, <3>2 DEF Vanish
  <2>3. Whole(r)' = Whole(r) /\ (Lacking(r) => Lacking(r)')
        BY <1>1, <2>1 DEF Whole, Lacking
  <2>4. p.book = "cleanup" /\ Whole(r)' =>
            \A i \in Known(r)' \cap cloud' : i \in q.failed \/ Fleet[i].name \in Left(rest)
        BY <1>2, <1>7, <1>9, <2>1, <2>2, <2>3 DEF PlayInv
  <2>5. p.book = "configure" /\ q.ok /\ Whole(r)' =>
            \A i \in Known(r)' \cap cloud' : i \in q.reached \/ Fleet[i].name \in Left(rest)
        BY <1>2, <1>7, <1>9, <2>1, <2>3 DEF PlayInv
  <2>6. PlayInv(r)'
        BY <1>1, <1>2, <1>3, <1>6, <1>9, <2>3, <2>4, <2>5 DEF PlayInv
  <2>. QED BY <1>1, <1>5, <1>8, <2>6, PlayChange
<1>. QED BY <1>10, <1>11

LEMMA EndLoopPlays ==
    ASSUME Inv, PlaysInv, NEW r \in Runs, EndLoop(r)
    PROVE  PlaysInv'
<1> DEFINE p == play[r]
           rest == IF p.ok THEN Tail(p.loops) ELSE <<>>
           q == [p EXCEPT !.loops = rest]
<1>1. p.loops # <<>> /\ p.loops[1] = <<>> /\ UNCHANGED <<invVars, moves>>
      BY DEF EndLoop
<1>2. p \in Plays /\ play \in [Runs -> Plays] /\ PlayInv(r)
      BY DEF PlaysInv
<1>3. play' = [play EXCEPT ![r] = q]
      BY <1>2 DEF EndLoop, Plays
<1>4. /\ Tail(p.loops) \in Seq(Seq(Names)) /\ Len(Tail(p.loops)) <= Len(p.loops)
      /\ Left(p.loops) \subseteq Left(Tail(p.loops))
      /\ Len(p.loops) <= 1 => Left(p.loops) = {}
      BY <1>1, <1>2, LeftNext DEF Plays
<1>5. rest \in Seq(Seq(Names)) /\ (Len(p.loops) <= 1 => Len(rest) <= 1)
  <2>1. <<>> \in Seq(Seq(Names)) /\ Len(<<>>) = 0
        OBVIOUS
  <2>2. Len(p.loops) \in Nat /\ Len(Tail(p.loops)) \in Nat
        BY <1>2, <1>4 DEF Plays
  <2>. QED BY <1>4, <2>1, <2>2
<1>6. p.ok => rest = Tail(p.loops)
      OBVIOUS
<1> HIDE DEF rest
<1>7. /\ q \in Plays /\ q.book = p.book /\ q.loops = rest
      /\ q.ok = p.ok /\ q.reached = p.reached /\ q.failed = p.failed
      BY <1>2, <1>5 DEF Plays
<1>8. play'[r] = q
      BY <1>2, <1>3
<1> HIDE DEF q
<1>9. /\ Whole(r)' = Whole(r) /\ Known(r)' \cap cloud' = Known(r) \cap cloud
      /\ (Lacking(r) => Lacking(r)') /\ UNCHANGED <<job, cloud, changed>>
      BY <1>1 DEF Whole, Known, Settled, Lacking, invVars
<1>10. PlayInv(r)'
      BY <1>2, <1>4, <1>5, <1>6, <1>7, <1>8, <1>9 DEF PlayInv
<1>. QED BY <1>1, <1>3, <1>7, <1>9, <1>10, PlayChange

LEMMA QuitPlays ==
    ASSUME Inv, PlaysInv, NEW r \in Runs, Quit(r)
    PROVE  PlaysInv'
<1>1. /\ play' = [play EXCEPT ![r] = NoPlay] /\ play \in [Runs -> Plays]
      /\ UNCHANGED <<cloud, changed, moves>> /\ job' = [job EXCEPT ![r] = Idle]
      BY DEF Quit, Leave, PlaysInv
<1>2. NoPlay \in Plays /\ NoPlay.book = "none" /\ NoPlay.failed = {}
  <2>1. <<>> \in Seq(Seq(Names))
        OBVIOUS
  <2>. QED BY <2>1 DEF Plays, NoPlay
<1>3. \A s \in Runs \ {r} : job'[s] = job[s]
      BY <1>1 DEF Inv, InvTypeOK
<1>4. PlayInv(r)'
      BY <1>1, <1>2 DEF PlayInv
<1>. QED BY <1>1, <1>2, <1>3, <1>4, PlayChange

LEMMA ScriptPlays ==
    ASSUME Inv, PlaysInv, NEW r \in Runs, Script(r), UNCHANGED <<play, moves>>
    PROVE  PlaysInv'
<1>1. job[r].step # "printed" /\ UNCHANGED <<cloud, changed>>
      BY DEF Script, ChooseSource, ListPage, EmptyFile, WriteFile, LoadFile,
         PrintInventory, Fail, Running
<1>2. job \in [Runs -> Jobs]
      BY DEF Inv, InvTypeOK, Jobs
<1>3. \A s \in Runs \ {r} : job'[s] = job[s]
      BY <1>2 DEF Script, ChooseSource, ListPage, EmptyFile, WriteFile, LoadFile,
         PrintInventory, Fail
<1>. QED BY <1>1, <1>3, ScriptKeeps

LEMMA InitPlays == Init => PlaysInv
<1> SUFFICES ASSUME Init PROVE PlaysInv
    OBVIOUS
<1>1. NoPlay \in Plays /\ NoPlay.book = "none" /\ NoPlay.failed = {}
  <2>1. <<>> \in Seq(Seq(Names))
        OBVIOUS
  <2>. QED BY <2>1 DEF Plays, NoPlay
<1>. QED BY <1>1 DEF Init, PlaysInv, PlayInv

LEMMA StepPlays == Inv /\ PlaysInv /\ [Next]_vars => PlaysInv'
<1> SUFFICES ASSUME Inv, PlaysInv, [Next]_vars PROVE PlaysInv'
    OBVIOUS
<1>1. ASSUME NEW r \in Runs, RunScript(r) PROVE PlaysInv'
  <2>1. PICK args \in Asks : Start(r, args)
        BY <1>1 DEF RunScript
  <2>2. job[r].step = "idle" /\ UNCHANGED <<cloud, changed, play, moves>>
        BY <1>1, <2>1 DEF RunScript, Start
  <2>3. \A s \in Runs \ {r} : job'[s] = job[s]
        BY <2>1 DEF Start, Inv, InvTypeOK
  <2>. QED BY <2>2, <2>3, ScriptKeeps
<1>2. CASE Tick /\ UNCHANGED <<play, moves>>
      BY <1>2, OthersKept DEF Tick, PlaysInv
<1>3. CASE CloudChanges
  <2>1. PICK i \in Instances : Appear(i) \/ Vanish(i)
        BY <1>3 DEF CloudChanges
  <2>2. /\ changed' = [changed EXCEPT ![i] = now] /\ cloud' \in {cloud \cup {i}, cloud \ {i}}
        /\ UNCHANGED <<job, play>>
        BY <1>3, <2>1 DEF Appear, Vanish, CloudChanges
  <2>3. moves' \in 0 .. MaxMoves
        BY <1>3 DEF CloudChanges, PlaysInv
  <2>. QED BY <2>2, <2>3, OthersKept DEF PlaysInv
<1>4. CASE UNCHANGED vars
      BY <1>4, OthersKept DEF vars, PlaysInv
<1>. QED BY <1>1, <1>2, <1>3, <1>4, EnterLoopPlays, LoopItemPlays, EndLoopPlays, QuitPlays,
         ScriptPlays DEF Next, Play

LEMMA SpecPlays == Spec => [](Inv /\ PlaysInv)
<1>1. Inv /\ PlaysInv /\ [Next]_vars => (Inv /\ PlaysInv)'
      BY StepInv, StepPlays
<1>. QED BY <1>1, InitInv, InitPlays, PTL DEF Spec

-----------------------------------------------------------------------------
(* Theorems.                                                               *)

LEMMA SpecInv == Spec => []Inv
BY InitInv, StepInv, PTL DEF Spec

(* The whole state keeps its types: the items of every loop are names of   *)
(* the fleet, whatever gce.py printed, and a playbook is at one of its     *)
(* books.                                                                  *)
THEOREM TypeCorrect == Spec => []TypeOK
<1>1. Inv /\ PlaysInv => TypeOK
      BY DEF Inv, PlaysInv, TypeOK, Plays
<1>. QED BY <1>1, SpecPlays, PTL

\* The hosts with variables are those of the selected instances.
LEMMA HostsSelected ==
    ASSUME NEW nodes, nodes \subseteq Instances, NEW filter
    PROVE  DOMAIN GroupInstances(nodes, filter).hostvars
               = {Fleet[i].name : i \in {k \in nodes : Selected(Fleet[k], filter)}}
<1> DEFINE inv == GroupInstances(nodes, filter)
           hosts == {i \in nodes : /\ InstanceStates = {} \/ Fleet[i].status \in InstanceStates
                                   /\ filter.tags = {} \/ \E t \in filter.tags :
                                                     t \in ToSet(Fleet[i].tags)}
           shown == {k \in nodes : Selected(Fleet[k], filter)}
<1>1. DOMAIN inv.hostvars = {Fleet[i].name : i \in hosts}
      BY AnyGroupsAgree DEF GroupsAgree
<1>2. \A i \in nodes : i \in hosts <=> i \in shown
      BY DEF Selected, SomeTag
<1> HIDE DEF inv
<1>3. hosts = shown
  <2> HIDE DEF hosts, shown
  <2>1. hosts \subseteq nodes /\ shown \subseteq nodes
        BY DEF hosts, shown
  <2>. QED BY <1>2, <2>1
<1>4. DOMAIN inv.hostvars = {Fleet[i].name : i \in shown}
      BY <1>1, <1>3
<1>. QED BY <1>4 DEF inv, shown

(* The hosts a run prints are right about every instance that was created  *)
(* or deleted cache_max_age and one run of gce.py before, as far as the    *)
(* filter of the inventory and the zones listed under it show it: for      *)
(* every fleet, page size, interleaving of runs, and failure of a run.     *)
THEOREM CacheIsFresh == Spec => []FreshEnough
<1>1. ASSUME Inv PROVE FreshEnough
  <2> SUFFICES ASSUME NEW r \in Runs, job[r].step \in {"print", "printed"}
               PROVE  LET hosts  == DOMAIN Printed(job[r].data).hostvars
                          filter == job[r].data.filter
                      IN  /\ \A i \in cloud :
                                changed[i] <= Settled(r) /\ Visible(Fleet[i], filter)
                                /\ Selected(Fleet[i], filter) => Fleet[i].name \in hosts
                          /\ \A h \in hosts : \E i \in Instances :
                                Fleet[i].name = h /\ (i \in cloud \/ changed[i] > Settled(r))
      BY DEF FreshEnough
  <2> DEFINE nodes == job[r].data.nodes
             filter == job[r].data.filter
             shown == {i \in nodes : Selected(Fleet[i], filter)}
  <2>1. /\ job[r] \in Jobs /\ cloud \subseteq Instances /\ changed \in [Instances -> Nat]
        /\ Right(job[r].data, Settled(r))
        BY <1>1 DEF Inv, InvTypeOK, Jobs, JobInv, Clouds, Settled
  <2>2. nodes \subseteq Instances /\ Settled(r) \in Int
        BY <2>1 DEF Jobs, Data, Settled
  <2>3. DOMAIN Printed(job[r].data).hostvars = {Fleet[i].name : i \in shown}
        BY <2>2, HostsSelected DEF Printed
  <2>4. ASSUME NEW i \in cloud, changed[i] <= Settled(r), Visible(Fleet[i], filter),
               Selected(Fleet[i], filter)
        PROVE  Fleet[i].name \in {Fleet[k].name : k \in shown}
        BY <2>1, <2>4 DEF Right
  <2>5. ASSUME NEW i \in shown PROVE i \in Instances /\ (i \in cloud \/ changed[i] > Settled(r))
        BY <2>1, <2>2 DEF Right
  <2>. QED BY <2>3, <2>4, <2>5
<1>. QED BY <1>1, SpecInv, PTL

(* A run that trusts an unreadable cache meets a write in progress, or one *)
(* cut short or overlapped less than cache_max_age before it started.      *)
THEOREM RuinsPass == Spec => []InvalidHasCause
<1>1. ASSUME Inv PROVE InvalidHasCause
  <2> SUFFICES ASSUME NEW r \in Runs, job[r].step = "load", file.text # "whole", ~Writing
               PROVE  cut > job[r].started - MaxAge
      BY DEF InvalidHasCause, Writing
  <2>1. file.text # "none" /\ file.mtime > job[r].started - MaxAge
        BY <1>1 DEF Inv, JobInv
  <2>2. file.text \in {"empty", "garbled"}
        BY <1>1, <2>1 DEF Inv, InvTypeOK
  <2>3. cut >= file.mtime
        BY <1>1, <2>2 DEF Inv, RuinInv
  <2>4. cut \in Int /\ file.mtime \in Int /\ job[r].started \in Int
        BY <1>1 DEF Inv, InvTypeOK
  <2>. QED BY <2>1, <2>3, <2>4
<1>. QED BY <1>1, SpecInv, PTL

(* For every fleet, every set of listed instances and every filter, the    *)
(* groups about to be printed hold hosts with variables only, hold a host  *)
(* exactly when it has the label or the address and is in a zone asked     *)
(* for, and Ansible connects to an address of the host.                    *)
THEOREM GroupsAreRight == Spec => []PrintedGroupsAgree
<1>1. Inv => PrintedGroupsAgree
      BY AnyGroupsAgree DEF Inv, InvTypeOK, Data, PrintedGroupsAgree
<1>. QED BY <1>1, SpecInv, PTL

(* Whatever appears, vanishes or fails while they run: the loop of         *)
(* cleanup.yml leaves a known instance only when its own deletion failed,  *)
(* and then with an error, and main.yml ends without an error only after   *)
(* it visited every known instance that is still there.                    *)
THEOREM LoopsReachAll == Spec => []LoopsReachSettled
<1>1. ASSUME PlaysInv PROVE LoopsReachSettled
  <2> SUFFICES ASSUME NEW r \in Runs, play[r].loops = <<>>, Whole(r),
                      NEW i \in Known(r) \cap cloud
               PROVE  /\ play[r].book = "cleanup" => i \in play[r].failed /\ ~play[r].ok
                      /\ play[r].book = "configure" /\ play[r].ok => i \in play[r].reached
      BY DEF LoopsReachSettled
  <2>1. Left(play[r].loops) = {}
        BY DEF Left
  <2>. QED BY <1>1, <2>1 DEF PlaysInv, PlayInv
<1>. QED BY <1>1, SpecPlays, PTL

(* A group is undefined only while no known instance has its tag.          *)
THEOREM UndefinedPasses == Spec => []UndefinedHasCause
<1>1. PlaysInv => UndefinedHasCause
      BY DEF PlaysInv, PlayInv, Lacking, UndefinedHasCause
<1>. QED BY <1>1, SpecPlays, PTL

(* LoopsReachSettled and UndefinedHasCause without the exemption of        *)
(* inventories that a filtered run has left in the cache; a host whose     *)
(* own command failed stays exempt.                                        *)
LoopsReachAllSettled ==
    \A r \in Runs : play[r].loops = <<>> =>
        \A i \in Known(r) \cap cloud :
            /\ play[r].book = "cleanup" => i \in play[r].failed /\ ~play[r].ok
            /\ play[r].book = "configure" /\ play[r].ok => i \in play[r].reached

UndefinedOnlyIfNone ==
    \A r \in Runs : play[r].book = "undefined" =>
        \E t \in {"controller", "worker"} :
            \A i \in Known(r) \cap cloud : t \notin ToSet(Fleet[i].tags)

(* As long as nobody runs gce.py with a filter, waiting cache_max_age and  *)
(* one run of it between two playbooks is enough: every loop tries every   *)
(* controller and worker, so a playbook without an error leaves none out.  *)
THEOREM UnfilteredRunsReachAll ==
    ASSUME \A args \in Asks : args.filter = Unfiltered
    PROVE  Spec => [](LoopsReachAllSettled /\ UndefinedOnlyIfNone)
<1>1. Inv => \A r \in Runs : Whole(r)
      BY DEF Inv, InvTypeOK, Data, Whole
<1>2. ASSUME \A r \in Runs : Whole(r), LoopsReachSettled, UndefinedHasCause
      PROVE  LoopsReachAllSettled /\ UndefinedOnlyIfNone
      BY <1>2 DEF LoopsReachSettled, UndefinedHasCause, LoopsReachAllSettled,
                  UndefinedOnlyIfNone
<1>. QED BY <1>1, <1>2, SpecInv, LoopsReachAll, UndefinedPasses, PTL
=============================================================================
