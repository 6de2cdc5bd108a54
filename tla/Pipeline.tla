------------------------------- MODULE Pipeline -------------------------------
(***************************************************************************)
(* The GitLab pipelines.  A push to the master branch of a service builds  *)
(* its image, releases it under the name in its VERSION file and triggers  *)
(* a deployment of the whole application (src/*/.gitlab-ci.yml, one for    *)
(* all three services), which asks for the VERSION of every service and    *)
(* goes to staging and, by a button, to production                         *)
(* (kubernetes/charts/.gitlab-ci.yml).  All these jobs run side by side.   *)
(***************************************************************************)
EXTENDS Integers, SequencesExt

CONSTANTS
    Order,      \* the services, in the order deploy() asks for their VERSION
    VersionOf,  \* per service, the VERSION file at each commit of master
    Faults,     \* faults that may be injected
    MaxPushes,  \* bound on the pushes
    MaxFaults   \* bound on the faults

Services == ToSet(Order)
Commits(s) == DOMAIN VersionOf[s]
Envs == {"staging", "production"}

\* The empty string of a curl without answer, a tag nobody pushed.
None == 0

Numbers(s) == ToSet(VersionOf[s])

Builds == UNION {{s} \X Commits(s) : s \in Services}
Tags == UNION {{s} \X Numbers(s) : s \in Services}

\* A deployment is known by the commit whose pipeline triggered it.
Deployments == {b \in Builds : b[2] # 1}

(* "job": a job fails for a reason of its own.  "trigger": GitLab refuses a *)
(* trigger, which curl takes for an answer.  "curl": no VERSION arrives.    *)
AllFaults == {"job", "trigger", "curl"}

ASSUME OrderOnce == Order \in Seq(STRING) /\ IsInjective(Order)
ASSUME VersionsGrow ==
    /\ VersionOf \in [Services -> Seq(Nat \ {None})]
    /\ \A s \in Services : 1 \in Commits(s)
    /\ \A s \in Services : \A c, d \in Commits(s) :
        c <= d => VersionOf[s][c] <= VersionOf[s][d]
ASSUME FaultsKnown == Faults \subseteq AllFaults
ASSUME BoundsNatural == MaxPushes \in Nat /\ MaxFaults \in Nat

VARIABLES
    head,    \* per service, the newest commit of master
    pipe,    \* per service and commit, its pipeline: the next step of its
             \* stages, the image it has pulled, whether its trigger ran
    branch,  \* per service, the commit whose image has the tag 'master'
    tags,    \* per service and version, the commit whose image has that tag
    job,     \* per environment and deployment, its job: the next step, and
             \* the versions it has asked for
    spec,    \* per environment and service, the version helm has asked for
    pod,     \* per environment and service, the version and image that run
    staged,  \* observer: versions that ran in staging
    raced,   \* observer: commits whose pipeline overlapped another of the service
    overlap, \* observer: jobs that overlapped another of the environment
    harm     \* faults so far (bounded)

releases == <<head, pipe, branch, tags, raced>>
vars == <<head, pipe, branch, tags, job, spec, pod, staged, raced, overlap, harm>>

Stages == {"none", "build", "broken", "pull", "push", "released", "unreleased"}
Active == {"build", "pull", "push"}

Steps == {"none", "pending", "read", "wait", "ok", "failed"}

NoPipe == [stage |-> "none", image |-> None, triggered |-> FALSE]
NoJob == [step |-> "none", read |-> <<>>]

First(s) == VersionOf[s][1]

\* The first commits are released, and run in both environments.
Init ==
    /\ head = [s \in Services |-> 1]
    /\ pipe = [b \in Builds |-> NoPipe]
    /\ branch = [s \in Services |-> 1]
    /\ tags = [t \in Tags |-> IF t[2] = First(t[1]) THEN 1 ELSE None]
    /\ job = [e \in Envs |-> [k \in Deployments |-> NoJob]]
    /\ spec = [e \in Envs |-> [s \in Services |-> First(s)]]
    /\ pod = [e \in Envs |-> [s \in Services |-> [version |-> First(s), image |-> 1]]]
    /\ staged = {<<s, First(s)>> : s \in Services}
    /\ raced = {}
    /\ overlap = {}
    /\ harm = 0

\* A fault is injected.
Harm(fault) == fault \in Faults /\ harm < MaxFaults /\ harm' = harm + 1

-----------------------------------------------------------------------------
(* The pipeline of a commit.                                               *)

Push(s) ==
    LET c == head[s] + 1
        others == {d \in Commits(s) : pipe[<<s, d>>].stage \in Active}
    IN  /\ c \in Commits(s)
        /\ Cardinality({b \in Builds : pipe[b] # NoPipe}) < MaxPushes
        /\ head' = [head EXCEPT ![s] = c]
        /\ pipe' = [pipe EXCEPT ![<<s, c>>].stage = "build"]
        /\ raced' = raced \cup (IF others = {} THEN {} ELSE {s} \X (others \cup {c}))
        /\ UNCHANGED <<branch, tags, job, spec, pod, staged, overlap, harm>>

\* docker build, and docker push of the branch's tag.
Build(s, c) ==
    /\ pipe[<<s, c>>].stage = "build"
    /\ branch' = [branch EXCEPT ![s] = c]
    /\ pipe' = [pipe EXCEPT ![<<s, c>>].stage = "pull"]
    /\ UNCHANGED <<head, tags, job, spec, pod, staged, raced, overlap, harm>>

\* release(): docker pull of the branch's tag, whoever pushed it last,
PullImage(s, c) ==
    /\ pipe[<<s, c>>].stage = "pull"
    /\ pipe' = [pipe EXCEPT ![<<s, c>>].stage = "push", ![<<s, c>>].image = branch[s]]
    /\ UNCHANGED <<head, branch, tags, job, spec, pod, staged, raced, overlap, harm>>

\* and docker tag and push with $(cat VERSION).
PushImage(s, c) ==
    /\ pipe[<<s, c>>].stage = "push"
    /\ tags' = [tags EXCEPT ![<<s, VersionOf[s][c]>>] = pipe[<<s, c>>].image]
    /\ pipe' = [pipe EXCEPT ![<<s, c>>].stage = "released"]
    /\ UNCHANGED <<head, branch, job, spec, pod, staged, raced, overlap, harm>>

\* Faulty variant: the pipeline goes on to release.
Ignored(stage) == IF stage = "build" THEN "pull" ELSE "unreleased"

\* The stages after a failed one are skipped.
Failed(stage) == IF stage = "build" THEN "broken" ELSE "unreleased"

JobFails(s, c) ==
    /\ Harm("job")
    /\ pipe[<<s, c>>].stage \in Active
    /\ pipe' = [pipe EXCEPT ![<<s, c>>].stage = Failed(@)]
    /\ UNCHANGED <<head, branch, tags, job, spec, pod, staged, raced, overlap>>

-----------------------------------------------------------------------------
(* A deployment.                                                           *)

\* Faulty variant: when: on_failure.
AfterFailure(stage) == stage = "unreleased"

\* trigger_build is of the same stage as release and does not wait for it.
StageReached(stage) == stage \in {"pull", "push", "released", "unreleased"}

TriggerBuild(s, c) ==
    /\ StageReached(pipe[<<s, c>>].stage) /\ ~pipe[<<s, c>>].triggered
    /\ pipe' = [pipe EXCEPT ![<<s, c>>].triggered = TRUE]
    /\ \/ /\ job' = [job EXCEPT !["staging"][<<s, c>>].step = "pending"]
          /\ UNCHANGED harm
       \/ Harm("trigger") /\ UNCHANGED job
    /\ UNCHANGED <<head, branch, tags, spec, pod, staged, raced, overlap>>

Working(step) == step \in {"read", "wait"}

ReadOf(read, s) == read[CHOOSE i \in DOMAIN Order : Order[i] = s]

\* Faulty variants: the file build() writes; what the pipeline has staged.
BuildInfo(e, k, s) == head[s]
StagedVersion(e, k, s) ==
    IF e = "staging" THEN VersionOf[s][head[s]]
    ELSE ReadOf(job["staging"][k].read, s)

\* curl .../raw/master/VERSION
MasterVersion(e, k, s) == VersionOf[s][head[s]]

\* One VERSION after the other goes into the command line of helm.
ReadVersion(e, k) ==
    LET read == job[e][k].read
        others == {d \in Deployments \ {k} : Working(job[e][d].step)}
        answer(v) ==
            job' = [job EXCEPT ![e][k] = [step |-> "read", read |-> Append(read, v)]]
    IN  /\ job[e][k].step \in {"pending", "read"}
        /\ Len(read) < Len(Order)
        /\ \/ answer(MasterVersion(e, k, Order[Len(read) + 1])) /\ UNCHANGED harm
           \/ Harm("curl") /\ answer(None)
        /\ overlap' = overlap \cup (IF others = {} THEN {} ELSE {e} \X (others \cup {k}))
        /\ UNCHANGED <<releases, spec, pod, staged>>

\* helm upgrade replaces the pods of a service whose version changes.
Upgrade(e, k) ==
    /\ job[e][k].step = "read" /\ Len(job[e][k].read) = Len(Order)
    /\ spec' = [spec EXCEPT ![e] = [s \in Services |-> ReadOf(job[e][k].read, s)]]
    /\ job' = [job EXCEPT ![e][k].step = "wait"]
    /\ UNCHANGED <<releases, pod, staged, overlap, harm>>

\* Kubernetes retries until the tag is in the registry; then the new pod
\* takes the place of the old one.
StartPod(e, s) ==
    LET v == spec[e][s]
    IN  /\ v # pod[e][s].version
        /\ v \in Numbers(s) /\ tags[<<s, v>>] # None
        /\ pod' = [pod EXCEPT ![e][s] = [version |-> v, image |-> tags[<<s, v>>]]]
        /\ staged' = IF e = "staging" THEN staged \cup {<<s, v>>} ELSE staged
        /\ UNCHANGED <<releases, job, spec, overlap, harm>>

Ready(e) == \A s \in Services : pod[e][s].version = spec[e][s]

\* --wait: until the pods are there, or until helm's patience ends.
EndWait(e, k) ==
    /\ job[e][k].step = "wait"
    /\ job' = [job EXCEPT ![e][k].step = IF Ready(e) THEN "ok" ELSE "failed"]
    /\ UNCHANGED <<releases, spec, pod, staged, overlap, harm>>

DeployFails(e, k) ==
    /\ Harm("job")
    /\ job[e][k].step \in {"pending", "read"}
    /\ job' = [job EXCEPT ![e][k].step = "failed"]
    /\ UNCHANGED <<releases, spec, pod, staged, overlap>>

\* Faulty variant: 'allow_failure' for staging.
StagingOver(k) == job["staging"][k].step \in {"ok", "failed"}

\* The stage production is reached when staging has succeeded.
StagingPassed(k) == job["staging"][k].step = "ok"

\* when: manual.
Play(k) ==
    /\ StagingPassed(k)
    /\ job["production"][k].step = "none"
    /\ job' = [job EXCEPT !["production"][k].step = "pending"]
    /\ UNCHANGED <<releases, spec, pod, staged, overlap, harm>>

-----------------------------------------------------------------------------
ServiceJobs(s, c) == Build(s, c) \/ PullImage(s, c) \/ PushImage(s, c) \/ JobFails(s, c)
DeployJob(e, k) == ReadVersion(e, k) \/ Upgrade(e, k) \/ EndWait(e, k) \/ DeployFails(e, k)

Next ==
    \/ \E s \in Services : Push(s)
    \/ \E s \in Services : \E c \in Commits(s) : ServiceJobs(s, c) \/ TriggerBuild(s, c)
    \/ \E k \in Deployments, e \in Envs : DeployJob(e, k)
    \/ \E k \in Deployments : Play(k)
    \/ \E e \in Envs, s \in Services : StartPod(e, s)

Spec == Init /\ [][Next]_vars

\* Runners take every job and Kubernetes keeps trying; people push, and press
\* the button, as they like.
FairSpec ==
    /\ Spec
    /\ \A s \in Services : \A c \in Commits(s) :
        WF_vars(ServiceJobs(s, c)) /\ WF_vars(TriggerBuild(s, c))
    /\ \A e \in Envs : \A k \in Deployments : WF_vars(DeployJob(e, k))
    /\ \A e \in Envs : \A s \in Services : WF_vars(StartPod(e, s))

-----------------------------------------------------------------------------
(* Properties.                                                             *)

\* Every variable keeps its type.
TypeOK ==
    /\ head \in [Services -> Nat] /\ branch \in [Services -> Nat]
    /\ \A s \in Services : {head[s], branch[s]} \subseteq Commits(s)
    /\ pipe \in [Builds -> [stage : Stages, image : Nat, triggered : BOOLEAN]]
    /\ tags \in [Tags -> Nat]
    /\ job \in [Envs -> [Deployments -> [step : Steps, read : Seq(Nat)]]]
    /\ \A e \in Envs, k \in Deployments : \A i \in DOMAIN job[e][k].read :
        i \in DOMAIN Order /\ job[e][k].read[i] \in Numbers(Order[i]) \cup {None}
    /\ spec \in [Envs -> [Services -> Nat]]
    /\ pod \in [Envs -> [Services -> [version : Nat, image : Nat]]]
    /\ staged \subseteq Tags /\ raced \subseteq Builds
    /\ overlap \subseteq Envs \X Deployments
    /\ harm \in 0 .. MaxFaults

(* A pod is the program its version names: release() tags whatever image   *)
(* has the branch's tag (ui/.gitlab-ci.yml:165-167), but a wrong one needs *)
(* two overlapping pipelines of the service, of which one has that VERSION.*)
RunsItsVersion ==
    \A e \in Envs, s \in Services :
        LET p == pod[e][s]
        IN  \/ VersionOf[s][p.image] = p.version
            \/ \E c \in Commits(s) : VersionOf[s][c] = p.version /\ <<s, c>> \in raced

(* 'First stage, then prod by a button' (README.md:687): production is     *)
(* upgraded to a version that has never run in staging only if VERSION     *)
(* changed after the pipeline's staging job had read it, for production    *)
(* reads it again, or if that staging job overlapped another.              *)
StagedFirst ==
    \A k \in Deployments : job["production"][k].step \in {"wait", "ok"} =>
        \A i \in DOMAIN Order :
            LET v == job["production"][k].read[i]
            IN  \/ v = None \/ <<Order[i], v>> \in staged
                \/ i \notin DOMAIN job["staging"][k].read
                \/ v # job["staging"][k].read[i]
                \/ <<"staging", k>> \in overlap

(* An environment goes back to an older version of a service only by jobs  *)
(* that overlapped: neither the button of an old pipeline nor a late       *)
(* trigger does it.                                                        *)
NeverBack ==
    [][\A e \in Envs, k \in Deployments, s \in Services :
        job'[e][k].step = "wait" /\ spec'[e][s] # None /\ spec'[e][s] < spec[e][s]
            => <<e, k>> \in overlap]_vars

(* 'After the releases the trigger runs the deployment' (README.md:686):   *)
(* though the trigger does not wait for the release, staging comes to run  *)
(* the newest version of every service, unless a fault is injected or jobs *)
(* of staging overlapped.                                                  *)
StagingCatchesUp ==
    \A s \in Services :
        <>[](pod["staging"][s].version = VersionOf[s][head[s]])
            \/ <>(harm > 0 \/ \E k \in Deployments : <<"staging", k>> \in overlap)
=============================================================================
