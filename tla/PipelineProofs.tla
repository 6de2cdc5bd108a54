---------------------------- MODULE PipelineProofs ----------------------------
(***************************************************************************)
(* Proofs about the pipelines, for any services, histories of VERSION,     *)
(* interleaving of jobs and number of faults.                              *)
(***************************************************************************)
EXTENDS Pipeline, TLAPS

-----------------------------------------------------------------------------
(* The invariant.                                                          *)

\* Two pipelines of a service under way, or two jobs of an environment at
\* work, know of each other.
ActiveRaced ==
    \A s \in Services : \A c, d \in Commits(s) :
        c # d /\ pipe[<<s, c>>].stage \in Active /\ pipe[<<s, d>>].stage \in Active
            => <<s, c>> \in raced

WorkingOverlap ==
    \A e \in Envs, k, d \in Deployments :
        k # d /\ Working(job[e][k].step) /\ Working(job[e][d].step) => <<e, k>> \in overlap

\* A pipeline that is alone pulls its own image.
OwnImage ==
    \A s \in Services : \A c \in Commits(s) :
        LET p == pipe[<<s, c>>]
        IN  /\ p.stage = "push" => p.image \in Commits(s)
            /\ p.stage = "pull" /\ <<s, c>> \notin raced => branch[s] = c
            /\ p.stage = "push" /\ <<s, c>> \notin raced => p.image = c

\* An image is of the version, or a pipeline of that version was not alone.
ImageOf(s, v, image) ==
    \/ VersionOf[s][image] = v
    \/ \E c \in Commits(s) : VersionOf[s][c] = v /\ <<s, c>> \in raced

TagsHold ==
    \A s \in Services : \A v \in Numbers(s) :
        tags[<<s, v>>] # None => tags[<<s, v>>] \in Commits(s) /\ ImageOf(s, v, tags[<<s, v>>])

ImageInv == ActiveRaced /\ OwnImage /\ TagsHold /\ RunsItsVersion

Newest(s) == VersionOf[s][head[s]]

\* What a job has read; what it asks for is all there when it upgrades.
ReadInv ==
    \A e \in Envs, k \in Deployments :
        LET j == job[e][k]
        IN  /\ j.step \in {"none", "pending"} => j.read = <<>>
            /\ j.step \in {"wait", "ok"} => Len(j.read) = Len(Order)
            /\ \A i \in DOMAIN j.read : j.read[i] <= Newest(Order[i])

\* A job that is alone has read nothing older than what the environment has.
SpecInv ==
    /\ \A e \in Envs, s \in Services : spec[e][s] <= Newest(s)
    /\ \A e \in Envs, k \in Deployments : <<e, k>> \notin overlap =>
        /\ job[e][k].step = "read" => \A i \in DOMAIN job[e][k].read :
            job[e][k].read[i] = None \/ spec[e][Order[i]] <= job[e][k].read[i]
        /\ job[e][k].step = "wait" => \A i \in DOMAIN Order :
            spec[e][Order[i]] = job[e][k].read[i]

\* What runs in staging is staged, hence what a job that is alone has deployed.
StagedInv ==
    /\ \A s \in Services : <<s, pod["staging"][s].version>> \in staged
    /\ \A k \in Deployments :
        /\ job["staging"][k].step = "ok" /\ <<"staging", k>> \notin overlap =>
            \A i \in DOMAIN Order : <<Order[i], job["staging"][k].read[i]>> \in staged
        /\ job["production"][k].step # "none" => job["staging"][k].step = "ok"

\* Staging waits for the trigger, which runs once.
TriggerOnce == \A k \in Deployments : ~pipe[k].triggered => job["staging"][k] = NoJob

DeployInv == WorkingOverlap /\ TriggerOnce /\ ReadInv /\ SpecInv /\ StagedInv

Inv == TypeOK /\ ImageInv /\ DeployInv

-----------------------------------------------------------------------------
(* Facts about the constants.                                              *)

LEMMA CommitFacts ==
    ASSUME NEW s \in Services
    PROVE  /\ Commits(s) \subseteq Nat \ {0} /\ 1 \in Commits(s)
           /\ \A c \in Commits(s) : /\ VersionOf[s][c] \in Nat /\ VersionOf[s][c] # None
                                    /\ VersionOf[s][c] \in Numbers(s)
                                    /\ <<s, c>> \in Builds
                                    /\ <<s, VersionOf[s][c]>> \in Tags
           /\ \A c, d \in Commits(s) : c <= d => VersionOf[s][c] <= VersionOf[s][d]
           /\ \A v \in Numbers(s) : v \in Nat /\ v # None /\ <<s, v>> \in Tags
<1>1. VersionOf[s] \in Seq(Nat \ {None}) /\ 1 \in Commits(s)
      BY VersionsGrow
<1>2. /\ Commits(s) = 1 .. Len(VersionOf[s]) /\ Len(VersionOf[s]) \in Nat
      /\ \A c \in Commits(s) : VersionOf[s][c] \in Nat \ {None}
      BY <1>1 DEF Commits
<1>3. Numbers(s) = {VersionOf[s][c] : c \in Commits(s)}
      BY DEF Numbers, ToSet, Commits
<1>4. \A c \in Commits(s) : <<s, c>> \in Builds
      BY DEF Builds
<1>5. \A v \in Numbers(s) : <<s, v>> \in Tags
      BY DEF Tags
<1>. QED BY <1>1, <1>2, <1>3, <1>4, <1>5, VersionsGrow DEF None

LEMMA BuildFacts ==
    /\ \A b \in Builds : b[1] \in Services /\ b[2] \in Commits(b[1]) /\ b = <<b[1], b[2]>>
    /\ \A t \in Tags : t[1] \in Services /\ t[2] \in Numbers(t[1]) /\ t = <<t[1], t[2]>>
BY DEF Builds, Tags

LEMMA OrderFacts ==
    /\ Len(Order) \in Nat /\ DOMAIN Order = 1 .. Len(Order)
    /\ \A i \in DOMAIN Order : Order[i] \in Services
    /\ \A s \in Services : \E i \in DOMAIN Order : Order[i] = s
    /\ \A i, j \in DOMAIN Order : Order[i] = Order[j] => i = j
BY OrderOnce DEF Services, ToSet, IsInjective

LEMMA ReadOfOrder ==
    ASSUME NEW read, NEW i \in DOMAIN Order
    PROVE  ReadOf(read, Order[i]) = read[i]
<1> DEFINE j == CHOOSE k \in DOMAIN Order : Order[k] = Order[i]
<1>1. j \in DOMAIN Order /\ Order[j] = Order[i]
      OBVIOUS
<1>2. j = i
      BY <1>1, OrderFacts
<1>. QED BY <1>2 DEF ReadOf

-----------------------------------------------------------------------------
(* The initial states.                                                     *)

LEMMA InitInv == Init => Inv
<1> SUFFICES ASSUME Init PROVE Inv
    OBVIOUS
<1> USE DEF Init
<1>1. \A s \in Services : First(s) \in Numbers(s) /\ First(s) \in Nat /\ <<s, First(s)>> \in Tags
      BY CommitFacts DEF First
<1>2. \A b \in Builds : pipe[b] = NoPipe
      OBVIOUS
<1>3. TypeOK
  <2>1. \A s \in Services : {head[s], branch[s]} \subseteq Commits(s)
        BY CommitFacts
  <2>2. pipe \in [Builds -> [stage : Stages, image : Nat, triggered : BOOLEAN]]
        BY DEF NoPipe, Stages, None
  <2>3. job \in [Envs -> [Deployments -> [step : Steps, read : Seq(Nat)]]]
        BY DEF NoJob, Steps
  <2>4. \A e \in Envs, k \in Deployments : job[e][k].read = <<>>
        BY DEF NoJob
  <2>5. staged \subseteq Tags
        BY <1>1
  <2>6. harm \in 0 .. MaxFaults
        BY BoundsNatural
  <2>7. tags \in [Tags -> Nat]
        BY DEF None
  <2>8. spec \in [Envs -> [Services -> Nat]]
        BY <1>1
  <2>9. pod \in [Envs -> [Services -> [version : Nat, image : Nat]]]
        BY <1>1
  <2>10. head \in [Services -> Nat] /\ branch \in [Services -> Nat]
        OBVIOUS
  <2>11. raced \subseteq Builds /\ overlap \subseteq Envs \X Deployments
        OBVIOUS
  <2>. QED BY <2>1, <2>2, <2>3, <2>4, <2>5, <2>6, <2>7, <2>8, <2>9, <2>10, <2>11 DEF TypeOK
<1>4. \A s \in Services : \A c \in Commits(s) : pipe[<<s, c>>].stage = "none"
      BY <1>2, CommitFacts DEF NoPipe
<1>5. ActiveRaced /\ OwnImage
      BY <1>4 DEF ActiveRaced, OwnImage, Active
<1>6. TagsHold
  <2> SUFFICES ASSUME NEW s \in Services, NEW v \in Numbers(s), tags[<<s, v>>] # None
               PROVE  tags[<<s, v>>] \in Commits(s) /\ ImageOf(s, v, tags[<<s, v>>])
      BY DEF TagsHold
  <2>1. <<s, v>> \in Tags
        BY CommitFacts
  <2>2. v = First(s) /\ tags[<<s, v>>] = 1
        BY <2>1
  <2>. QED BY <2>2, CommitFacts DEF ImageOf, First
<1>7. RunsItsVersion
      BY DEF RunsItsVersion, First
<1>8. \A e \in Envs, k \in Deployments : job[e][k] = NoJob
      OBVIOUS
<1>9. WorkingOverlap /\ TriggerOnce /\ ReadInv
      BY <1>8 DEF WorkingOverlap, TriggerOnce, ReadInv, NoJob, Working, Envs
<1>10. SpecInv
  <2>1. \A e \in Envs, s \in Services : spec[e][s] = Newest(s) /\ Newest(s) \in Nat
        BY <1>1 DEF Newest, First
  <2>. QED BY <1>8, <2>1 DEF SpecInv, NoJob
<1>11. StagedInv
      BY <1>8 DEF StagedInv, NoJob, Envs
<1>. QED BY <1>3, <1>5, <1>6, <1>7, <1>9, <1>10, <1>11 DEF Inv, ImageInv, DeployInv

-----------------------------------------------------------------------------
(* Frames.                                                                 *)

\* The images of tags and pods stay as good as they were.
LEMMA RacedGrows ==
    ASSUME Inv, raced \subseteq raced', UNCHANGED <<tags, pod>>
    PROVE  TagsHold' /\ RunsItsVersion'
BY DEF Inv, ImageInv, TagsHold, RunsItsVersion, ImageOf

\* No pipeline moves on.
LEMMA ImageFrame ==
    ASSUME Inv, UNCHANGED <<branch, tags, pod, raced>>,
           \A b \in Builds : pipe'[b].stage = pipe[b].stage /\ pipe'[b].image = pipe[b].image
    PROVE  ImageInv'
<1>1. \A s \in Services : \A c \in Commits(s) :
        /\ pipe'[<<s, c>>].stage = pipe[<<s, c>>].stage
        /\ pipe'[<<s, c>>].image = pipe[<<s, c>>].image
      BY CommitFacts
<1>2. ActiveRaced'
      BY <1>1 DEF Inv, ImageInv, ActiveRaced
<1>3. OwnImage'
      BY <1>1 DEF Inv, ImageInv, OwnImage
<1>. QED BY <1>2, <1>3, RacedGrows DEF ImageInv

\* A pipeline moves on alone, and the others keep their step.
LEMMA PipeStep ==
    ASSUME Inv, NEW s \in Services, NEW c \in Commits(s), NEW p,
           pipe' = [pipe EXCEPT ![<<s, c>>] = p], raced' = raced,
           p.triggered = pipe[<<s, c>>].triggered,
           p.stage \in Active => pipe[<<s, c>>].stage \in Active
    PROVE  /\ ActiveRaced'
           /\ \A k \in Builds : pipe'[k].triggered = pipe[k].triggered
           /\ pipe'[<<s, c>>] = p
           /\ \A t \in Services : \A d \in Commits(t) :
                <<t, d>> # <<s, c>> => pipe'[<<t, d>>] = pipe[<<t, d>>]
<1>1. \A t \in Services : \A d \in Commits(t) : pipe'[<<t, d>>] =
        IF <<t, d>> = <<s, c>> THEN p ELSE pipe[<<t, d>>]
      BY CommitFacts DEF Inv, TypeOK
<1>2. \A t \in Services : \A d \in Commits(t) :
        pipe'[<<t, d>>].stage \in Active => pipe[<<t, d>>].stage \in Active
      BY <1>1
<1>3. \A k \in Builds : pipe'[k].triggered = pipe[k].triggered
  <2>1. \A k \in Builds : pipe'[<<k[1], k[2]>>].triggered = pipe[<<k[1], k[2]>>].triggered
        BY <1>1, BuildFacts
  <2>. QED BY <2>1, BuildFacts
<1>. QED BY <1>1, <1>2, <1>3 DEF Inv, ImageInv, ActiveRaced

\* Nothing happens to the deployments but that VERSION may grow.
LEMMA DeployFrame ==
    ASSUME Inv, UNCHANGED <<job, spec, pod, staged, overlap>>,
           \A s \in Services : Newest(s) <= Newest(s)', TypeOK',
           \A k \in Builds : pipe'[k].triggered = pipe[k].triggered
    PROVE  DeployInv'
<1>1. \A s \in Services : Newest(s) \in Nat /\ Newest(s)' \in Nat
      BY CommitFacts DEF Inv, TypeOK, Newest
<1>2. WorkingOverlap' /\ StagedInv'
      BY DEF Inv, DeployInv, WorkingOverlap, StagedInv
<1>5. TriggerOnce'
      BY DEF Inv, DeployInv, TriggerOnce, Deployments
<1>3. ReadInv'
  <2>1. ASSUME NEW e \in Envs, NEW k \in Deployments, NEW i \in DOMAIN job[e][k].read
        PROVE  job[e][k].read[i] <= Newest(Order[i])'
    <3>1. Order[i] \in Services /\ job[e][k].read[i] \in Nat
          BY OrderFacts, CommitFacts DEF Inv, TypeOK, None
    <3>2. job[e][k].read[i] <= Newest(Order[i])
          BY DEF Inv, DeployInv, ReadInv
    <3>. QED BY <1>1, <3>1, <3>2
  <2>. QED BY <2>1 DEF Inv, DeployInv, ReadInv
<1>4. SpecInv'
  <2>1. ASSUME NEW e \in Envs, NEW s \in Services PROVE spec[e][s] <= Newest(s)'
    <3>1. spec[e][s] \in Nat /\ spec[e][s] <= Newest(s)
          BY DEF Inv, TypeOK, DeployInv, SpecInv
    <3>. QED BY <1>1, <3>1
  <2>. QED BY <2>1 DEF Inv, DeployInv, SpecInv
<1>. QED BY <1>2, <1>3, <1>4, <1>5 DEF DeployInv

\* VERSION does not change when no service is pushed to.
LEMMA HeadStays ==
    ASSUME Inv, head' = head
    PROVE  \A s \in Services : Newest(s) <= Newest(s)'
<1> SUFFICES ASSUME NEW s \in Services PROVE Newest(s) <= Newest(s)'
    OBVIOUS
<1>1. Newest(s) \in Nat
      BY CommitFacts DEF Inv, TypeOK, Newest
<1>2. Newest(s)' = Newest(s)
      BY DEF Newest
<1>. QED BY <1>1, <1>2

-----------------------------------------------------------------------------
(* The pipelines of the services.                                          *)

LEMMA PushInv ==
    ASSUME Inv, NEW s \in Services, Push(s)
    PROVE  Inv'
<1> DEFINE c == head[s] + 1
           others == {d \in Commits(s) : pipe[<<s, d>>].stage \in Active}
           p == [pipe[<<s, c>>] EXCEPT !.stage = "build"]
<1>1. /\ c \in Commits(s) /\ head' = [head EXCEPT ![s] = c]
      /\ pipe' = [pipe EXCEPT ![<<s, c>>] = p]
      /\ raced' = raced \cup (IF others = {} THEN {} ELSE {s} \X (others \cup {c}))
      /\ UNCHANGED <<branch, tags, job, spec, pod, staged, overlap, harm>>
      BY DEF Push
<1>2. /\ head \in [Services -> Nat] /\ head[s] \in Commits(s)
      /\ pipe \in [Builds -> [stage : Stages, image : Nat, triggered : BOOLEAN]]
      /\ <<s, c>> \in Builds /\ others \subseteq Commits(s)
      BY <1>1, CommitFacts DEF Inv, TypeOK
<1>3. \A t \in Services : \A d \in Commits(t) : pipe'[<<t, d>>] =
        IF <<t, d>> = <<s, c>> THEN p ELSE pipe[<<t, d>>]
      BY <1>1, <1>2, CommitFacts
<1>4. /\ p \in [stage : Stages, image : Nat, triggered : BOOLEAN]
      /\ p.stage = "build" /\ p.triggered = pipe[<<s, c>>].triggered
      BY <1>2 DEF Stages
<1> HIDE DEF p
<1>5. TypeOK'
  <2>1. head' \in [Services -> Nat] /\ \A t \in Services : head'[t] \in Commits(t)
        BY <1>1, <1>2, CommitFacts DEF Inv, TypeOK
  <2>2. pipe' \in [Builds -> [stage : Stages, image : Nat, triggered : BOOLEAN]]
        BY <1>1, <1>2, <1>4
  <2>3. raced' \subseteq Builds
    <3>1. others \cup {c} \subseteq Commits(s)
          BY <1>1
    <3>2. {s} \X Commits(s) \subseteq Builds
          BY DEF Builds
    <3> HIDE DEF c, others
    <3>3. {s} \X (others \cup {c}) \subseteq Builds
          BY <3>1, <3>2
    <3>. QED BY <1>1, <3>3 DEF Inv, TypeOK
  <2>4. UNCHANGED <<branch, tags, job, spec, pod, staged, overlap, harm>>
        BY <1>1
  <2>. QED BY <2>1, <2>2, <2>3, <2>4 DEF Inv, TypeOK
<1>6. raced \subseteq raced'
      BY <1>1
<1>7. ActiveRaced'
  <2> SUFFICES ASSUME NEW t \in Services, NEW a \in Commits(t), NEW b \in Commits(t), a # b,
                      pipe'[<<t, a>>].stage \in Active, pipe'[<<t, b>>].stage \in Active
               PROVE  <<t, a>> \in raced'
      BY DEF ActiveRaced
  <2>1. CASE t = s /\ a = c
    <3>1. b \in others
          BY <1>3, <2>1
    <3>. QED BY <1>1, <2>1, <3>1
  <2>2. CASE t = s /\ b = c
    <3>1. a \in others
          BY <1>3, <2>2
    <3>. QED BY <1>1, <2>2, <3>1
  <2>3. CASE ~(t = s /\ a = c) /\ ~(t = s /\ b = c)
    <3>1. pipe[<<t, a>>].stage \in Active /\ pipe[<<t, b>>].stage \in Active
          BY <1>3, <2>3
    <3>. QED BY <1>6, <3>1 DEF Inv, ImageInv, ActiveRaced
  <2>. QED BY <2>1, <2>2, <2>3
<1>8. OwnImage'
  <2>1. ASSUME NEW t \in Services, NEW d \in Commits(t),
               pipe'[<<t, d>>].stage \in {"pull", "push"}
        PROVE  pipe'[<<t, d>>] = pipe[<<t, d>>]
        BY <1>3, <1>4, <2>1
  <2>. QED BY <1>1, <1>6, <2>1 DEF Inv, ImageInv, OwnImage
<1>9. \A t \in Services : Newest(t) <= Newest(t)'
  <2> SUFFICES ASSUME NEW t \in Services PROVE Newest(t) <= Newest(t)'
      OBVIOUS
  <2>1. head[t] \in Commits(t) /\ head'[t] \in Commits(t) /\ head[t] <= head'[t]
        BY <1>1, <1>2, CommitFacts DEF Inv, TypeOK
  <2>. QED BY <2>1, CommitFacts DEF Newest
<1>10. \A k \in Builds : pipe'[k].triggered = pipe[k].triggered
      BY <1>1, <1>2, <1>4
<1>11. DeployInv'
      BY <1>1, <1>5, <1>9, <1>10, DeployFrame
<1>. QED BY <1>1, <1>5, <1>6, <1>7, <1>8, <1>11, RacedGrows DEF Inv, ImageInv

LEMMA BuildInv ==
    ASSUME Inv, NEW s \in Services, NEW c \in Commits(s), Build(s, c)
    PROVE  Inv'
<1> DEFINE p == [pipe[<<s, c>>] EXCEPT !.stage = "pull"]
<1>1. /\ pipe[<<s, c>>].stage = "build" /\ branch' = [branch EXCEPT ![s] = c]
      /\ pipe' = [pipe EXCEPT ![<<s, c>>] = p]
      /\ UNCHANGED <<head, tags, job, spec, pod, staged, raced, overlap, harm>>
      BY DEF Build
<1>2. /\ pipe \in [Builds -> [stage : Stages, image : Nat, triggered : BOOLEAN]]
      /\ <<s, c>> \in Builds /\ c \in Nat /\ branch \in [Services -> Nat]
      BY CommitFacts DEF Inv, TypeOK
<1>3. p \in [stage : Stages, image : Nat, triggered : BOOLEAN] /\ p.stage = "pull"
         /\ p.triggered = pipe[<<s, c>>].triggered
      BY <1>2 DEF Stages
<1> HIDE DEF p
<1>4. TypeOK'
  <2>1. branch' \in [Services -> Nat] /\ \A t \in Services : branch'[t] \in Commits(t)
        BY <1>1, <1>2 DEF Inv, TypeOK
  <2>2. pipe' \in [Builds -> [stage : Stages, image : Nat, triggered : BOOLEAN]]
        BY <1>1, <1>2, <1>3
  <2>. QED BY <1>1, <2>1, <2>2 DEF Inv, TypeOK
<1>5. /\ ActiveRaced' /\ pipe'[<<s, c>>] = p
      /\ \A k \in Builds : pipe'[k].triggered = pipe[k].triggered
      /\ \A t \in Services : \A d \in Commits(t) :
            <<t, d>> # <<s, c>> => pipe'[<<t, d>>] = pipe[<<t, d>>]
  <2>1. /\ raced' = raced /\ p.triggered = pipe[<<s, c>>].triggered
        /\ p.stage \in Active => pipe[<<s, c>>].stage \in Active
        BY <1>1, <1>3 DEF Active
  <2>2. pipe' = [pipe EXCEPT ![<<s, c>>] = p]
        BY <1>1
  <2>. QED BY <2>1, <2>2, PipeStep
<1>6. OwnImage'
  <2> SUFFICES ASSUME NEW t \in Services, NEW d \in Commits(t)
               PROVE  LET q == pipe'[<<t, d>>]
                      IN  /\ q.stage = "push" => q.image \in Commits(t)
                          /\ q.stage = "pull" /\ <<t, d>> \notin raced' => branch'[t] = d
                          /\ q.stage = "push" /\ <<t, d>> \notin raced' => q.image = d
      BY DEF OwnImage
  <2>1. CASE <<t, d>> = <<s, c>>
        BY <1>1, <1>2, <1>3, <1>5, <2>1
  <2>2. CASE t = s /\ d # c
    <3>1. pipe'[<<t, d>>] = pipe[<<t, d>>]
          BY <1>5, <2>2
    <3>2. pipe[<<t, d>>].stage = "pull" => <<t, d>> \in raced
          BY <1>1, <2>2 DEF Inv, ImageInv, ActiveRaced, Active
    <3>. QED BY <1>1, <2>2, <3>1, <3>2 DEF Inv, ImageInv, OwnImage
  <2>3. CASE t # s
    <3>1. pipe'[<<t, d>>] = pipe[<<t, d>>] /\ branch'[t] = branch[t]
          BY <1>1, <1>2, <1>5, <2>3
    <3>. QED BY <1>1, <3>1 DEF Inv, ImageInv, OwnImage
  <2>. QED BY <2>1, <2>2, <2>3
<1>7. DeployInv'
      BY <1>1, <1>4, <1>5, HeadStays, DeployFrame
<1>. QED BY <1>1, <1>4, <1>5, <1>6, <1>7, RacedGrows DEF Inv, ImageInv

LEMMA PullImageInv ==
    ASSUME Inv, NEW s \in Services, NEW c \in Commits(s), PullImage(s, c)
    PROVE  Inv'
<1> DEFINE p == [pipe[<<s, c>>] EXCEPT !.stage = "push", !.image = branch[s]]
<1>1. /\ pipe[<<s, c>>].stage = "pull" /\ pipe' = [pipe EXCEPT ![<<s, c>>] = p]
      /\ UNCHANGED <<head, branch, tags, job, spec, pod, staged, raced, overlap, harm>>
  <2>1. <<s, c>> \in Builds
        BY CommitFacts
  <2>. QED BY <2>1 DEF PullImage, Inv, TypeOK
<1>2. /\ pipe \in [Builds -> [stage : Stages, image : Nat, triggered : BOOLEAN]]
      /\ <<s, c>> \in Builds /\ branch[s] \in Commits(s) /\ branch[s] \in Nat
      BY CommitFacts DEF Inv, TypeOK
<1>3. /\ p \in [stage : Stages, image : Nat, triggered : BOOLEAN]
      /\ p.stage = "push" /\ p.image = branch[s] /\ p.triggered = pipe[<<s, c>>].triggered
      BY <1>2 DEF Stages
<1> HIDE DEF p
<1>4. TypeOK'
  <2>1. pipe' \in [Builds -> [stage : Stages, image : Nat, triggered : BOOLEAN]]
        BY <1>1, <1>2, <1>3
  <2>. QED BY <1>1, <2>1 DEF Inv, TypeOK
<1>5. /\ ActiveRaced' /\ pipe'[<<s, c>>] = p
      /\ \A k \in Builds : pipe'[k].triggered = pipe[k].triggered
      /\ \A t \in Services : \A d \in Commits(t) :
            <<t, d>> # <<s, c>> => pipe'[<<t, d>>] = pipe[<<t, d>>]
  <2>1. /\ raced' = raced /\ p.triggered = pipe[<<s, c>>].triggered
        /\ p.stage \in Active => pipe[<<s, c>>].stage \in Active
        BY <1>1, <1>3 DEF Active
  <2>2. pipe' = [pipe EXCEPT ![<<s, c>>] = p]
        BY <1>1
  <2>. QED BY <2>1, <2>2, PipeStep
<1>6. OwnImage'
  <2> SUFFICES ASSUME NEW t \in Services, NEW d \in Commits(t)
               PROVE  LET q == pipe'[<<t, d>>]
                      IN  /\ q.stage = "push" => q.image \in Commits(t)
                          /\ q.stage = "pull" /\ <<t, d>> \notin raced' => branch'[t] = d
                          /\ q.stage = "push" /\ <<t, d>> \notin raced' => q.image = d
      BY DEF OwnImage
  <2>1. CASE <<t, d>> = <<s, c>>
    <3>1. <<s, c>> \notin raced => branch[s] = c
          BY <1>1 DEF Inv, ImageInv, OwnImage
    <3>. QED BY <1>1, <1>2, <1>3, <1>5, <2>1, <3>1
  <2>2. CASE <<t, d>> # <<s, c>>
        BY <1>1, <1>5, <2>2 DEF Inv, ImageInv, OwnImage
  <2>. QED BY <2>1, <2>2
<1>7. DeployInv'
      BY <1>1, <1>4, <1>5, HeadStays, DeployFrame
<1>. QED BY <1>1, <1>4, <1>5, <1>6, <1>7, RacedGrows DEF Inv, ImageInv

LEMMA PushImageInv ==
    ASSUME Inv, NEW s \in Services, NEW c \in Commits(s), PushImage(s, c)
    PROVE  Inv'
<1> DEFINE p == [pipe[<<s, c>>] EXCEPT !.stage = "released"]
           v == VersionOf[s][c]
           image == pipe[<<s, c>>].image
<1>1. /\ pipe[<<s, c>>].stage = "push" /\ pipe' = [pipe EXCEPT ![<<s, c>>] = p]
      /\ tags' = [tags EXCEPT ![<<s, v>>] = image]
      /\ UNCHANGED <<head, branch, job, spec, pod, staged, raced, overlap, harm>>
      BY DEF PushImage
<1>2. /\ pipe \in [Builds -> [stage : Stages, image : Nat, triggered : BOOLEAN]]
      /\ tags \in [Tags -> Nat] /\ <<s, c>> \in Builds /\ <<s, v>> \in Tags
      BY CommitFacts DEF Inv, TypeOK
<1>3. /\ p \in [stage : Stages, image : Nat, triggered : BOOLEAN]
      /\ p.stage = "released" /\ p.triggered = pipe[<<s, c>>].triggered /\ image \in Nat
      BY <1>2 DEF Stages
<1>4. image \in Commits(s) /\ ImageOf(s, v, image)
      BY <1>1 DEF Inv, ImageInv, OwnImage, ImageOf
<1> HIDE DEF p, v, image
<1>5. TypeOK'
  <2>1. pipe' \in [Builds -> [stage : Stages, image : Nat, triggered : BOOLEAN]]
        BY <1>1, <1>2, <1>3
  <2>2. tags' \in [Tags -> Nat]
        BY <1>1, <1>2, <1>3
  <2>. QED BY <1>1, <2>1, <2>2 DEF Inv, TypeOK
<1>6. /\ ActiveRaced' /\ pipe'[<<s, c>>] = p
      /\ \A k \in Builds : pipe'[k].triggered = pipe[k].triggered
      /\ \A t \in Services : \A d \in Commits(t) :
            <<t, d>> # <<s, c>> => pipe'[<<t, d>>] = pipe[<<t, d>>]
  <2>1. /\ raced' = raced /\ p.triggered = pipe[<<s, c>>].triggered
        /\ p.stage \in Active => pipe[<<s, c>>].stage \in Active
        BY <1>1, <1>3 DEF Active
  <2>2. pipe' = [pipe EXCEPT ![<<s, c>>] = p]
        BY <1>1
  <2>. QED BY <2>1, <2>2, PipeStep
<1>7. OwnImage'
  <2>1. ASSUME NEW t \in Services, NEW d \in Commits(t),
               pipe'[<<t, d>>].stage \in {"pull", "push"}
        PROVE  pipe'[<<t, d>>] = pipe[<<t, d>>]
        BY <1>3, <1>6, <2>1
  <2>. QED BY <1>1, <2>1 DEF Inv, ImageInv, OwnImage
<1>8. TagsHold'
  <2> SUFFICES ASSUME NEW t \in Services, NEW w \in Numbers(t), tags'[<<t, w>>] # None
               PROVE  tags'[<<t, w>>] \in Commits(t) /\ ImageOf(t, w, tags[<<t, w>>])'
      BY DEF TagsHold
  <2>1. <<t, w>> \in Tags
        BY CommitFacts
  <2>2. CASE <<t, w>> = <<s, v>>
    <3>1. t = s /\ w = v /\ tags'[<<t, w>>] = image
          BY <1>1, <1>2, <2>2
    <3>. QED BY <1>1, <1>4, <3>1 DEF ImageOf
  <2>3. CASE <<t, w>> # <<s, v>>
    <3>1. tags'[<<t, w>>] = tags[<<t, w>>]
          BY <1>1, <1>2, <2>1, <2>3
    <3>. QED BY <1>1, <3>1 DEF Inv, ImageInv, TagsHold, ImageOf
  <2>. QED BY <2>2, <2>3
<1>9. RunsItsVersion'
      BY <1>1 DEF Inv, ImageInv, RunsItsVersion
<1>10. DeployInv'
      BY <1>1, <1>5, <1>6, HeadStays, DeployFrame
<1>. QED BY <1>5, <1>6, <1>7, <1>8, <1>9, <1>10 DEF Inv, ImageInv

LEMMA JobFailsInv ==
    ASSUME Inv, NEW s \in Services, NEW c \in Commits(s), JobFails(s, c)
    PROVE  Inv'
<1> DEFINE p == [pipe[<<s, c>>] EXCEPT !.stage = Failed(@)]
<1>1. /\ pipe' = [pipe EXCEPT ![<<s, c>>] = p] /\ harm < MaxFaults /\ harm' = harm + 1
      /\ UNCHANGED <<head, branch, tags, job, spec, pod, staged, raced, overlap>>
      BY DEF JobFails, Harm
<1>2. /\ pipe \in [Builds -> [stage : Stages, image : Nat, triggered : BOOLEAN]]
      /\ <<s, c>> \in Builds
      BY CommitFacts DEF Inv, TypeOK
<1>3. /\ p \in [stage : Stages, image : Nat, triggered : BOOLEAN]
      /\ p.stage \in {"broken", "unreleased"} /\ p.triggered = pipe[<<s, c>>].triggered
      BY <1>2 DEF Stages, Failed
<1> HIDE DEF p
<1>4. TypeOK'
  <2>1. pipe' \in [Builds -> [stage : Stages, image : Nat, triggered : BOOLEAN]]
        BY <1>1, <1>2, <1>3
  <2>2. harm' \in 0 .. MaxFaults
        BY <1>1, BoundsNatural DEF Inv, TypeOK
  <2>. QED BY <1>1, <2>1, <2>2 DEF Inv, TypeOK
<1>5. /\ ActiveRaced' /\ pipe'[<<s, c>>] = p
      /\ \A k \in Builds : pipe'[k].triggered = pipe[k].triggered
      /\ \A t \in Services : \A d \in Commits(t) :
            <<t, d>> # <<s, c>> => pipe'[<<t, d>>] = pipe[<<t, d>>]
  <2>1. /\ raced' = raced /\ p.triggered = pipe[<<s, c>>].triggered
        /\ p.stage \in Active => pipe[<<s, c>>].stage \in Active
        BY <1>1, <1>3 DEF Active
  <2>2. pipe' = [pipe EXCEPT ![<<s, c>>] = p]
        BY <1>1
  <2>. QED BY <2>1, <2>2, PipeStep
<1>6. OwnImage'
  <2>1. ASSUME NEW t \in Services, NEW d \in Commits(t),
               pipe'[<<t, d>>].stage \in {"pull", "push"}
        PROVE  pipe'[<<t, d>>] = pipe[<<t, d>>]
        BY <1>3, <1>5, <2>1
  <2>. QED BY <1>1, <2>1 DEF Inv, ImageInv, OwnImage
<1>7. DeployInv'
      BY <1>1, <1>4, <1>5, HeadStays, DeployFrame
<1>. QED BY <1>1, <1>4, <1>5, <1>6, <1>7, RacedGrows DEF Inv, ImageInv

-----------------------------------------------------------------------------
(* The deployments.                                                        *)

JobOK(j) ==
    /\ j \in [step : Steps, read : Seq(Nat)]
    /\ \A i \in DOMAIN j.read : i \in DOMAIN Order /\ j.read[i] \in Numbers(Order[i]) \cup {None}

LEMMA JobTypes == Inv => \A e \in Envs, k \in Deployments : JobOK(job[e][k])
BY DEF Inv, TypeOK, JobOK

\* One job takes a step, and every other one stays.
LEMMA JobStep ==
    ASSUME Inv, NEW e \in Envs, NEW k, NEW j, job' = [job EXCEPT ![e][k] = j],
           k \in Deployments => JobOK(j)
    PROVE  /\ job' \in [Envs -> [Deployments -> [step : Steps, read : Seq(Nat)]]]
           /\ \A f \in Envs, d \in Deployments :
                /\ job'[f][d] = IF f = e /\ d = k THEN j ELSE job[f][d]
                /\ JobOK(job'[f][d])
<1>1. job \in [Envs -> [Deployments -> [step : Steps, read : Seq(Nat)]]]
      BY DEF Inv, TypeOK
<1>2. \A f \in Envs, d \in Deployments :
        job'[f][d] = IF f = e /\ d = k THEN j ELSE job[f][d]
      BY <1>1
<1>3. \A f \in Envs, d \in Deployments : JobOK(job'[f][d])
      BY <1>2, JobTypes
<1>4. job' \in [Envs -> [Deployments -> [step : Steps, read : Seq(Nat)]]]
  <2>1. k \in Deployments => j \in [step : Steps, read : Seq(Nat)]
        BY DEF JobOK
  <2>. QED BY <1>1, <2>1
<1>. QED BY <1>2, <1>3, <1>4

\* A step of a job leaves the images as they are.
LEMMA JobFrame ==
    ASSUME Inv, UNCHANGED <<releases, spec, pod, staged>>,
           overlap' \subseteq Envs \X Deployments, harm' \in 0 .. MaxFaults,
           job' \in [Envs -> [Deployments -> [step : Steps, read : Seq(Nat)]]],
           \A f \in Envs, d \in Deployments : JobOK(job'[f][d])
    PROVE  /\ TypeOK' /\ ImageInv'
           /\ \A s \in Services : Newest(s)' = Newest(s) /\ Newest(s) \in Nat
<1>1. TypeOK'
      BY DEF Inv, TypeOK, JobOK, releases
<1>2. ImageInv'
      BY ImageFrame DEF releases
<1>3. \A s \in Services : Newest(s)' = Newest(s) /\ Newest(s) \in Nat
      BY CommitFacts DEF Inv, TypeOK, Newest, releases
<1>. QED BY <1>1, <1>2, <1>3

LEMMA AppendFacts ==
    ASSUME NEW read \in Seq(Nat), NEW v \in Nat
    PROVE  LET i == Len(read) + 1
           IN  /\ Append(read, v) \in Seq(Nat)
               /\ DOMAIN Append(read, v) = DOMAIN read \cup {i}
               /\ Append(read, v)[i] = v
               /\ \A n \in DOMAIN read : Append(read, v)[n] = read[n]
<1>1. /\ Len(read) \in Nat /\ DOMAIN read = 1 .. Len(read)
      /\ DOMAIN Append(read, v) = 1 .. Len(read) + 1
      OBVIOUS
<1>2. 1 .. Len(read) + 1 = (1 .. Len(read)) \cup {Len(read) + 1}
      BY <1>1
<1>. QED BY <1>1, <1>2

LEMMA ReadVersionInv ==
    ASSUME Inv, NEW e \in Envs, NEW k \in Deployments, ReadVersion(e, k)
    PROVE  Inv'
<1> DEFINE read == job[e][k].read
           s == Order[Len(read) + 1]
           others == {d \in Deployments \ {k} : Working(job[e][d].step)}
<1>1. /\ job[e][k].step \in {"pending", "read"} /\ Len(read) < Len(Order)
      /\ overlap' = overlap \cup (IF others = {} THEN {} ELSE {e} \X (others \cup {k}))
      /\ UNCHANGED <<releases, spec, pod, staged>>
      BY DEF ReadVersion
<1>2. PICK v \in {None, Newest(s)} :
        /\ job' = [job EXCEPT ![e][k] = [step |-> "read", read |-> Append(read, v)]]
        /\ harm' \in 0 .. MaxFaults
  <2>1. harm \in 0 .. MaxFaults
        BY DEF Inv, TypeOK
  <2>. QED BY <2>1, BoundsNatural DEF ReadVersion, MasterVersion, Newest, Harm
<1> DEFINE j == [step |-> "read", read |-> Append(read, v)]
           i == Len(read) + 1
<1>3. JobOK(job[e][k]) /\ read \in Seq(Nat)
      BY JobTypes DEF JobOK
<1>4. i \in DOMAIN Order /\ s \in Services
      BY <1>1, <1>3, OrderFacts
<1>5. Newest(s) \in Nat \cap Numbers(s) /\ v \in Nat /\ v \in Numbers(s) \cup {None}
  <2>1. head[s] \in Commits(s)
        BY <1>4 DEF Inv, TypeOK
  <2>2. Newest(s) \in Nat /\ Newest(s) \in Numbers(s)
        BY <1>4, <2>1, CommitFacts DEF Newest
  <2>. QED BY <2>2 DEF None
<1>6. /\ Append(read, v) \in Seq(Nat) /\ DOMAIN Append(read, v) = DOMAIN read \cup {i}
      /\ Append(read, v)[i] = v /\ \A n \in DOMAIN read : Append(read, v)[n] = read[n]
      BY <1>3, <1>5, AppendFacts
<1> HIDE DEF read, s, i
<1>7. JobOK(j)
  <2>1. ASSUME NEW n \in DOMAIN j.read
        PROVE  n \in DOMAIN Order /\ j.read[n] \in Numbers(Order[n]) \cup {None}
        BY <1>3, <1>4, <1>5, <1>6 DEF JobOK, read, s, i
  <2>. QED BY <1>6, <2>1 DEF JobOK, Steps
<1>8. \A f \in Envs, d \in Deployments :
        /\ job'[f][d] = IF f = e /\ d = k THEN j ELSE job[f][d]
        /\ JobOK(job'[f][d])
      BY <1>2, <1>7, JobStep
<1>9. overlap \subseteq overlap' /\ overlap' \subseteq Envs \X Deployments
      BY <1>1 DEF Inv, TypeOK
<1>10. /\ TypeOK' /\ ImageInv'
       /\ \A t \in Services : Newest(t)' = Newest(t) /\ Newest(t) \in Nat
  <2>1. job' \in [Envs -> [Deployments -> [step : Steps, read : Seq(Nat)]]]
        BY <1>2, <1>7, JobStep
  <2>. QED BY <1>1, <1>2, <1>8, <1>9, <2>1, JobFrame
<1>11. WorkingOverlap'
  <2> SUFFICES ASSUME NEW f \in Envs, NEW a \in Deployments, NEW b \in Deployments, a # b,
                      Working(job'[f][a].step), Working(job'[f][b].step)
               PROVE  <<f, a>> \in overlap'
      BY DEF WorkingOverlap, Working
  <2>1. CASE f = e /\ (a = k \/ b = k)
    <3>1. others # {} /\ a \in others \cup {k}
          BY <1>8, <2>1
    <3>. QED BY <1>1, <2>1, <3>1
  <2>2. CASE ~(f = e /\ (a = k \/ b = k))
    <3>1. job'[f][a] = job[f][a] /\ job'[f][b] = job[f][b]
          BY <1>8, <2>2
    <3>. QED BY <1>9, <3>1 DEF Inv, DeployInv, WorkingOverlap
  <2>. QED BY <2>1, <2>2
<1>12. TriggerOnce'
  <2>1. job[e][k].step # "none"
        BY <1>1
  <2>. QED BY <1>1, <1>8, <2>1 DEF Inv, DeployInv, TriggerOnce, NoJob, Envs, releases
<1>13. ReadInv'
  <2> SUFFICES ASSUME NEW f \in Envs, NEW d \in Deployments
               PROVE  /\ job'[f][d].step \in {"none", "pending"} => job'[f][d].read = <<>>
                      /\ job'[f][d].step \in {"wait", "ok"} =>
                            Len(job'[f][d].read) = Len(Order)
                      /\ \A n \in DOMAIN job'[f][d].read :
                            job'[f][d].read[n] <= Newest(Order[n])'
      BY DEF ReadInv
  <2>1. CASE f = e /\ d = k
    <3>1. job'[f][d] = j
          BY <1>8, <2>1
    <3>2. ASSUME NEW n \in DOMAIN j.read PROVE j.read[n] <= Newest(Order[n])'
      <4>1. CASE n = i
        <5>1. j.read[n] = v /\ Order[n] = s
              BY <1>6, <4>1 DEF s, i
        <5>. QED BY <1>2, <1>4, <1>5, <1>10, <5>1 DEF None
      <4>2. CASE n \in DOMAIN read
        <5>1. j.read[n] = read[n] /\ Order[n] \in Services
              BY <1>3, <1>6, <4>2, OrderFacts DEF JobOK, read
        <5>2. read[n] <= Newest(Order[n])
              BY <4>2 DEF Inv, DeployInv, ReadInv, read
        <5>. QED BY <1>10, <5>1, <5>2
      <4>. QED BY <1>6, <4>1, <4>2
    <3>. QED BY <3>1, <3>2
  <2>2. CASE ~(f = e /\ d = k)
    <3>1. job'[f][d] = job[f][d] /\ JobOK(job[f][d])
          BY <1>8, <2>2, JobTypes
    <3>2. \A n \in DOMAIN job[f][d].read : Newest(Order[n])' = Newest(Order[n])
          BY <1>10, <3>1, OrderFacts DEF JobOK
    <3>. QED BY <3>1, <3>2 DEF Inv, DeployInv, ReadInv
  <2>. QED BY <2>1, <2>2
<1>14. SpecInv'
  <2>1. \A f \in Envs, t \in Services : spec'[f][t] <= Newest(t)'
        BY <1>1, <1>10 DEF Inv, DeployInv, SpecInv
  <2>2. ASSUME NEW f \in Envs, NEW d \in Deployments, <<f, d>> \notin overlap'
        PROVE  /\ job'[f][d].step = "read" => \A n \in DOMAIN job'[f][d].read :
                    job'[f][d].read[n] = None \/ spec'[f][Order[n]] <= job'[f][d].read[n]
               /\ job'[f][d].step = "wait" => \A n \in DOMAIN Order :
                    spec'[f][Order[n]] = job'[f][d].read[n]
    <3>1. <<f, d>> \notin overlap
          BY <1>9, <2>2
    <3>2. CASE f = e /\ d = k
      <4>1. job'[f][d] = j
            BY <1>8, <3>2
      <4>2. ASSUME NEW n \in DOMAIN j.read
            PROVE  j.read[n] = None \/ spec[e][Order[n]] <= j.read[n]
        <5>1. CASE n = i
          <6>1. j.read[n] = v /\ Order[n] = s
                BY <1>6, <5>1 DEF s, i
          <6>. QED BY <1>2, <1>4, <6>1 DEF Inv, DeployInv, SpecInv
        <5>2. CASE n \in DOMAIN read
          <6>1. j.read[n] = read[n]
                BY <1>6, <5>2
          <6>2. job[e][k].step = "read"
                BY <1>1, <5>2 DEF Inv, DeployInv, ReadInv, read
          <6>. QED BY <3>1, <3>2, <5>2, <6>1, <6>2 DEF Inv, DeployInv, SpecInv, read
        <5>. QED BY <1>6, <5>1, <5>2
      <4>. QED BY <1>1, <3>2, <4>1, <4>2
    <3>3. CASE ~(f = e /\ d = k)
      <4>1. job'[f][d] = job[f][d]
            BY <1>8, <3>3
      <4>. QED BY <1>1, <3>1, <4>1 DEF Inv, DeployInv, SpecInv
    <3>. QED BY <3>2, <3>3
  <2>. QED BY <2>1, <2>2 DEF SpecInv
<1>15. StagedInv'
  <2>1. job[e][k].step \notin {"none", "ok"}
        BY <1>1
  <2>. QED BY <1>1, <1>8, <1>9, <2>1 DEF Inv, DeployInv, StagedInv, Envs
<1>. QED BY <1>10, <1>11, <1>12, <1>13, <1>14, <1>15 DEF Inv, DeployInv

LEMMA UpgradeInv ==
    ASSUME Inv, NEW e \in Envs, NEW k \in Deployments, Upgrade(e, k)
    PROVE  Inv'
<1> DEFINE read == job[e][k].read
           j == [job[e][k] EXCEPT !.step = "wait"]
<1>1. /\ job[e][k].step = "read" /\ Len(read) = Len(Order)
      /\ spec' = [spec EXCEPT ![e] = [s \in Services |-> ReadOf(read, s)]]
      /\ job' = [job EXCEPT ![e][k] = j]
      /\ UNCHANGED <<releases, pod, staged, overlap, harm>>
      BY DEF Upgrade
<1>2. JobOK(job[e][k]) /\ DOMAIN read = DOMAIN Order
  <2>1. JobOK(job[e][k]) /\ read \in Seq(Nat)
        BY JobTypes DEF JobOK
  <2>. QED BY <1>1, <2>1, OrderFacts
<1>3. JobOK(j) /\ j.step = "wait" /\ j.read = read
      BY <1>2 DEF JobOK, Steps
<1> HIDE DEF j
<1>4. \A f \in Envs, d \in Deployments :
        /\ job'[f][d] = IF f = e /\ d = k THEN j ELSE job[f][d]
        /\ JobOK(job'[f][d])
      BY <1>1, <1>3, JobStep
<1>5. \A f \in Envs, s \in Services :
        spec'[f][s] = IF f = e THEN ReadOf(read, s) ELSE spec[f][s]
      BY <1>1 DEF Inv, TypeOK
<1>6. \A i \in DOMAIN Order : spec'[e][Order[i]] = read[i]
      BY <1>5, OrderFacts, ReadOfOrder
<1>7. \A s \in Services : spec'[e][s] \in Nat /\ spec'[e][s] <= Newest(s)
  <2> SUFFICES ASSUME NEW s \in Services PROVE spec'[e][s] \in Nat /\ spec'[e][s] <= Newest(s)
      OBVIOUS
  <2>1. PICK i \in DOMAIN Order : Order[i] = s
        BY OrderFacts
  <2>2. read[i] \in Nat
        BY <1>2, <2>1, CommitFacts DEF JobOK, None
  <2>. QED BY <1>2, <1>6, <2>1, <2>2 DEF Inv, DeployInv, ReadInv
<1>8. /\ ImageInv' /\ \A s \in Services : Newest(s)' = Newest(s) /\ Newest(s) \in Nat
  <2>1. ImageInv'
        BY <1>1, ImageFrame DEF releases
  <2>2. \A s \in Services : Newest(s)' = Newest(s) /\ Newest(s) \in Nat
        BY <1>1, CommitFacts DEF Inv, TypeOK, Newest, releases
  <2>. QED BY <2>1, <2>2
<1>9. TypeOK'
  <2>1. job' \in [Envs -> [Deployments -> [step : Steps, read : Seq(Nat)]]]
        BY <1>1, <1>3, JobStep
  <2>2. spec' \in [Envs -> [Services -> Nat]]
    <3>1. [s \in Services |-> ReadOf(read, s)] \in [Services -> Nat]
          BY <1>5, <1>7
    <3>. QED BY <1>1, <3>1 DEF Inv, TypeOK
  <2>. QED BY <1>1, <1>4, <2>1, <2>2 DEF Inv, TypeOK, JobOK, releases
<1>10. WorkingOverlap'
  <2>1. \A f \in Envs, d \in Deployments :
            Working(job'[f][d].step) => Working(job[f][d].step)
        BY <1>1, <1>3, <1>4 DEF Working
  <2>. QED BY <1>1, <2>1 DEF Inv, DeployInv, WorkingOverlap
<1>11. TriggerOnce'
  <2>1. job[e][k].step # "none"
        BY <1>1
  <2>. QED BY <1>1, <1>4, <2>1 DEF Inv, DeployInv, TriggerOnce, NoJob, Envs, releases
<1>12. ReadInv'
  <2> SUFFICES ASSUME NEW f \in Envs, NEW d \in Deployments
               PROVE  /\ job'[f][d].step \in {"none", "pending"} => job'[f][d].read = <<>>
                      /\ job'[f][d].step \in {"wait", "ok"} =>
                            Len(job'[f][d].read) = Len(Order)
                      /\ \A n \in DOMAIN job'[f][d].read :
                            job'[f][d].read[n] <= Newest(Order[n])'
      BY DEF ReadInv
  <2>1. JobOK(job[f][d])
        BY JobTypes
  <2>2. \A n \in DOMAIN job[f][d].read :
            /\ Newest(Order[n])' = Newest(Order[n])
            /\ job[f][d].read[n] <= Newest(Order[n])
        BY <1>8, <2>1, OrderFacts DEF JobOK, Inv, DeployInv, ReadInv
  <2>3. CASE f = e /\ d = k
        BY <1>1, <1>3, <1>4, <2>2, <2>3
  <2>4. CASE ~(f = e /\ d = k)
        BY <1>4, <2>2, <2>4 DEF Inv, DeployInv, ReadInv
  <2>. QED BY <2>3, <2>4
<1>13. SpecInv'
  <2>1. \A f \in Envs, t \in Services : spec'[f][t] <= Newest(t)'
        BY <1>5, <1>7, <1>8 DEF Inv, DeployInv, SpecInv
  <2>2. ASSUME NEW f \in Envs, NEW d \in Deployments, <<f, d>> \notin overlap'
        PROVE  /\ job'[f][d].step = "read" => \A n \in DOMAIN job'[f][d].read :
                    job'[f][d].read[n] = None \/ spec'[f][Order[n]] <= job'[f][d].read[n]
               /\ job'[f][d].step = "wait" => \A n \in DOMAIN Order :
                    spec'[f][Order[n]] = job'[f][d].read[n]
    <3>1. CASE f = e /\ d = k
          BY <1>3, <1>4, <1>6, <3>1
    <3>2. CASE f = e /\ d # k
      <4>1. job'[f][d] = job[f][d] /\ <<f, d>> \notin overlap
            BY <1>1, <1>4, <2>2, <3>2
      <4>2. ~Working(job[f][d].step)
            BY <1>1, <3>2, <4>1 DEF Inv, DeployInv, WorkingOverlap, Working
      <4>. QED BY <4>1, <4>2 DEF Working
    <3>3. CASE f # e
      <4>1. job'[f][d] = job[f][d] /\ <<f, d>> \notin overlap
            BY <1>1, <1>4, <2>2, <3>3
      <4>2. \A n \in DOMAIN Order : spec'[f][Order[n]] = spec[f][Order[n]]
            BY <1>5, <3>3, OrderFacts
      <4>3. \A n \in DOMAIN job[f][d].read : n \in DOMAIN Order
            BY JobTypes DEF JobOK
      <4>. QED BY <4>1, <4>2, <4>3 DEF Inv, DeployInv, SpecInv
    <3>. QED BY <3>1, <3>2, <3>3
  <2>. QED BY <2>1, <2>2 DEF SpecInv
<1>14. StagedInv'
  <2>1. /\ job[e][k].step \notin {"none", "ok"} /\ j.step \notin {"none", "ok"}
        BY <1>1, <1>3
  <2>. QED BY <1>1, <1>4, <2>1 DEF Inv, DeployInv, StagedInv, Envs
<1>. QED BY <1>8, <1>9, <1>10, <1>11, <1>12, <1>13, <1>14 DEF Inv, DeployInv

LEMMA StartPodInv ==
    ASSUME Inv, NEW e \in Envs, NEW s \in Services, StartPod(e, s)
    PROVE  Inv'
<1> DEFINE v == spec[e][s]
           image == tags[<<s, v>>]
           p == [version |-> v, image |-> image]
<1>1. /\ v \in Numbers(s) /\ image # None
      /\ pod' = [pod EXCEPT ![e][s] = p]
      /\ staged' = IF e = "staging" THEN staged \cup {<<s, v>>} ELSE staged
      /\ UNCHANGED <<releases, job, spec, overlap, harm>>
      BY DEF StartPod
<1>2. /\ <<s, v>> \in Tags /\ image \in Nat /\ v \in Nat
      /\ pod \in [Envs -> [Services -> [version : Nat, image : Nat]]]
      BY <1>1, CommitFacts DEF Inv, TypeOK
<1>3. p \in [version : Nat, image : Nat] /\ p.version = v /\ p.image = image
      BY <1>2
<1>4. ImageOf(s, v, image)
      BY <1>1 DEF Inv, ImageInv, TagsHold
<1> HIDE DEF p, v, image
<1>5. \A f \in Envs, t \in Services :
        pod'[f][t] = IF f = e /\ t = s THEN p ELSE pod[f][t]
      BY <1>1, <1>2
<1>6. TypeOK'
  <2>1. pod' \in [Envs -> [Services -> [version : Nat, image : Nat]]]
        BY <1>1, <1>2, <1>3
  <2>2. staged' \subseteq Tags
        BY <1>1, <1>2 DEF Inv, TypeOK
  <2>. QED BY <1>1, <2>1, <2>2 DEF Inv, TypeOK, releases
<1>7. RunsItsVersion'
  <2>1. ASSUME NEW f \in Envs, NEW t \in Services
        PROVE  \/ VersionOf[t][pod'[f][t].image] = pod'[f][t].version
               \/ \E c \in Commits(t) :
                    VersionOf[t][c] = pod'[f][t].version /\ <<t, c>> \in raced'
    <3>1. CASE f = e /\ t = s
      <4>1. pod'[f][t].version = v /\ pod'[f][t].image = image /\ raced' = raced
            BY <1>1, <1>3, <1>5, <3>1 DEF releases
      <4>. QED BY <1>4, <3>1, <4>1 DEF ImageOf
    <3>2. CASE ~(f = e /\ t = s)
      <4>1. pod'[f][t] = pod[f][t] /\ raced' = raced
            BY <1>1, <1>5, <3>2 DEF releases
      <4>2. \/ VersionOf[t][pod[f][t].image] = pod[f][t].version
            \/ \E c \in Commits(t) : VersionOf[t][c] = pod[f][t].version /\ <<t, c>> \in raced
            BY DEF Inv, ImageInv, RunsItsVersion
      <4>. QED BY <4>1, <4>2
    <3>. QED BY <3>1, <3>2
  <2>. QED BY <2>1 DEF RunsItsVersion
<1>8. ActiveRaced' /\ OwnImage' /\ TagsHold'
      BY <1>1 DEF Inv, ImageInv, ActiveRaced, OwnImage, TagsHold, ImageOf, releases
<1>9. WorkingOverlap' /\ TriggerOnce' /\ ReadInv' /\ SpecInv'
      BY <1>1 DEF Inv, DeployInv, WorkingOverlap, TriggerOnce, ReadInv, SpecInv, Newest,
                  releases
<1>10. StagedInv'
  <2>1. staged \subseteq staged'
        BY <1>1
  <2>2. \A t \in Services : <<t, pod'["staging"][t].version>> \in staged'
    <3>1. "staging" \in Envs
          BY DEF Envs
    <3>. QED BY <1>1, <1>3, <1>5, <2>1, <3>1 DEF Inv, DeployInv, StagedInv
  <2>. QED BY <1>1, <2>1, <2>2 DEF Inv, DeployInv, StagedInv
<1>. QED BY <1>6, <1>7, <1>8, <1>9, <1>10 DEF Inv, ImageInv, DeployInv

\* A job that stops working, or has yet to start, disturbs nothing.
LEMMA StepEnds ==
    ASSUME Inv, NEW e \in Envs, NEW k \in Deployments, NEW t \in Steps \ {"read", "wait"},
           \A f \in Envs, d \in Deployments : job'[f][d] =
                IF f = e /\ d = k THEN [job[e][k] EXCEPT !.step = t] ELSE job[f][d],
           t \in {"none", "pending"} => job[e][k].read = <<>>,
           t = "ok" => Len(job[e][k].read) = Len(Order),
           UNCHANGED <<spec, overlap>>, \A s \in Services : Newest(s)' = Newest(s)
    PROVE  WorkingOverlap' /\ ReadInv' /\ SpecInv'
<1>1. \A f \in Envs, d \in Deployments : JobOK(job[f][d])
      BY JobTypes
<1>2. \A f \in Envs, d \in Deployments :
        /\ job'[f][d].read = job[f][d].read
        /\ job'[f][d].step = IF f = e /\ d = k THEN t ELSE job[f][d].step
      BY <1>1 DEF JobOK
<1>3. WorkingOverlap'
      BY <1>2 DEF Inv, DeployInv, WorkingOverlap, Working
<1>4. ReadInv'
  <2>1. \A f \in Envs, d \in Deployments : \A n \in DOMAIN job[f][d].read :
            Newest(Order[n])' = Newest(Order[n])
        BY <1>1, OrderFacts DEF JobOK
  <2>. QED BY <1>2, <2>1 DEF Inv, DeployInv, ReadInv
<1>5. SpecInv'
      BY <1>2 DEF Inv, DeployInv, SpecInv
<1>. QED BY <1>3, <1>4, <1>5

LEMMA EndWaitInv ==
    ASSUME Inv, NEW e \in Envs, NEW k \in Deployments, EndWait(e, k)
    PROVE  Inv'
<1> DEFINE t == IF Ready(e) THEN "ok" ELSE "failed"
           j == [job[e][k] EXCEPT !.step = t]
<1>1. /\ job[e][k].step = "wait" /\ job' = [job EXCEPT ![e][k] = j]
      /\ UNCHANGED <<releases, spec, pod, staged, overlap, harm>>
      BY DEF EndWait
<1>2. JobOK(job[e][k]) /\ t \in {"ok", "failed"} /\ (t = "ok" => Ready(e))
      BY JobTypes
<1> HIDE DEF t
<1>3. JobOK(j) /\ j.step = t /\ j.read = job[e][k].read
      BY <1>2 DEF JobOK, Steps
<1>4. \A f \in Envs, d \in Deployments :
        /\ job'[f][d] = IF f = e /\ d = k THEN j ELSE job[f][d]
        /\ JobOK(job'[f][d])
      BY <1>1, <1>3, JobStep
<1>5. /\ TypeOK' /\ ImageInv'
      /\ \A s \in Services : Newest(s)' = Newest(s) /\ Newest(s) \in Nat
  <2>1. job' \in [Envs -> [Deployments -> [step : Steps, read : Seq(Nat)]]]
        BY <1>1, <1>3, JobStep
  <2>2. overlap' \subseteq Envs \X Deployments /\ harm' \in 0 .. MaxFaults
        BY <1>1 DEF Inv, TypeOK
  <2>. QED BY <1>1, <1>4, <2>1, <2>2, JobFrame
<1>6. Len(job[e][k].read) = Len(Order)
      BY <1>1 DEF Inv, DeployInv, ReadInv
<1>7. WorkingOverlap' /\ ReadInv' /\ SpecInv'
  <2>1. t \in Steps \ {"read", "wait"} /\ t \notin {"none", "pending"}
        BY <1>2 DEF Steps
  <2>. QED BY <1>1, <1>4, <1>5, <1>6, <2>1, StepEnds
<1>8. TriggerOnce'
      BY <1>1, <1>4 DEF Inv, DeployInv, TriggerOnce, NoJob, Envs, releases
<1>9. StagedInv'
  <2>1. \A d \in Deployments : job'["production"][d].step # "none" =>
            job'["staging"][d].step = "ok"
        BY <1>1, <1>4 DEF Inv, DeployInv, StagedInv, Envs
  <2>2. ASSUME NEW d \in Deployments, NEW i \in DOMAIN Order,
               job'["staging"][d].step = "ok", <<"staging", d>> \notin overlap'
        PROVE  <<Order[i], job'["staging"][d].read[i]>> \in staged'
    <3>1. CASE e = "staging" /\ d = k
      <4>1. t = "ok" /\ Order[i] \in Services /\ job'["staging"][d].read = job[e][k].read
            BY <1>3, <1>4, <2>2, <3>1, OrderFacts
      <4>2. pod["staging"][Order[i]].version = spec["staging"][Order[i]]
            BY <1>2, <3>1, <4>1 DEF Ready
      <4>3. spec["staging"][Order[i]] = job[e][k].read[i]
            BY <1>1, <2>2, <3>1 DEF Inv, DeployInv, SpecInv
      <4>4. <<Order[i], pod["staging"][Order[i]].version>> \in staged
            BY <4>1 DEF Inv, DeployInv, StagedInv
      <4>. QED BY <1>1, <4>1, <4>2, <4>3, <4>4
    <3>2. CASE ~(e = "staging" /\ d = k)
      <4>1. job'["staging"][d] = job["staging"][d]
            BY <1>4, <3>2 DEF Envs
      <4>2. job["staging"][d].step = "ok" /\ <<"staging", d>> \notin overlap
            BY <1>1, <2>2, <4>1
      <4>3. <<Order[i], job["staging"][d].read[i]>> \in staged
            BY <4>2 DEF Inv, DeployInv, StagedInv
      <4>. QED BY <1>1, <4>1, <4>3
    <3>. QED BY <3>1, <3>2
  <2>. QED BY <1>1, <2>1, <2>2 DEF Inv, DeployInv, StagedInv
<1>. QED BY <1>5, <1>7, <1>8, <1>9 DEF Inv, DeployInv

LEMMA DeployFailsInv ==
    ASSUME Inv, NEW e \in Envs, NEW k \in Deployments, DeployFails(e, k)
    PROVE  Inv'
<1> DEFINE j == [job[e][k] EXCEPT !.step = "failed"]
<1>1. /\ job[e][k].step \in {"pending", "read"} /\ job' = [job EXCEPT ![e][k] = j]
      /\ harm < MaxFaults /\ harm' = harm + 1
      /\ UNCHANGED <<releases, spec, pod, staged, overlap>>
      BY DEF DeployFails, Harm
<1>2. JobOK(job[e][k])
      BY JobTypes
<1>3. JobOK(j) /\ j.step = "failed"
      BY <1>2 DEF JobOK, Steps
<1>4. \A f \in Envs, d \in Deployments :
        /\ job'[f][d] = IF f = e /\ d = k THEN j ELSE job[f][d]
        /\ JobOK(job'[f][d])
      BY <1>1, <1>3, JobStep
<1>5. /\ TypeOK' /\ ImageInv'
      /\ \A s \in Services : Newest(s)' = Newest(s) /\ Newest(s) \in Nat
  <2>1. job' \in [Envs -> [Deployments -> [step : Steps, read : Seq(Nat)]]]
        BY <1>1, <1>3, JobStep
  <2>2. overlap' \subseteq Envs \X Deployments
        BY <1>1 DEF Inv, TypeOK
  <2>3. harm' \in 0 .. MaxFaults
        BY <1>1, BoundsNatural DEF Inv, TypeOK
  <2>. QED BY <1>1, <1>4, <2>1, <2>2, <2>3, JobFrame
<1>6. WorkingOverlap' /\ ReadInv' /\ SpecInv'
  <2>1. "failed" \in Steps \ {"read", "wait"}
        BY DEF Steps
  <2>. QED BY <1>1, <1>4, <1>5, <2>1, StepEnds
<1>7. TriggerOnce'
      BY <1>1, <1>4 DEF Inv, DeployInv, TriggerOnce, NoJob, Envs, releases
<1>8. StagedInv'
      BY <1>1, <1>3, <1>4 DEF Inv, DeployInv, StagedInv, Envs
<1>. QED BY <1>5, <1>6, <1>7, <1>8 DEF Inv, DeployInv

LEMMA PlayInv ==
    ASSUME Inv, NEW k \in Deployments, Play(k)
    PROVE  Inv'
<1> DEFINE j == [job["production"][k] EXCEPT !.step = "pending"]
<1>1. /\ job["staging"][k].step = "ok" /\ job["production"][k].step = "none"
      /\ job' = [job EXCEPT !["production"][k] = j]
      /\ UNCHANGED <<releases, spec, pod, staged, overlap, harm>>
      BY DEF Play, StagingPassed
<1>2. "production" \in Envs /\ "staging" \in Envs
      BY DEF Envs
<1>3. JobOK(job["production"][k])
      BY <1>2, JobTypes
<1>4. JobOK(j) /\ j.step = "pending"
      BY <1>3 DEF JobOK, Steps
<1>5. \A f \in Envs, d \in Deployments :
        /\ job'[f][d] = IF f = "production" /\ d = k THEN j ELSE job[f][d]
        /\ JobOK(job'[f][d])
      BY <1>1, <1>2, <1>4, JobStep
<1>6. /\ TypeOK' /\ ImageInv'
      /\ \A s \in Services : Newest(s)' = Newest(s) /\ Newest(s) \in Nat
  <2>1. job' \in [Envs -> [Deployments -> [step : Steps, read : Seq(Nat)]]]
        BY <1>1, <1>2, <1>4, JobStep
  <2>2. overlap' \subseteq Envs \X Deployments /\ harm' \in 0 .. MaxFaults
        BY <1>1 DEF Inv, TypeOK
  <2>. QED BY <1>1, <1>5, <2>1, <2>2, JobFrame
<1>7. WorkingOverlap' /\ ReadInv' /\ SpecInv'
  <2>1. "pending" \in Steps \ {"read", "wait"}
        BY DEF Steps
  <2>2. job["production"][k].read = <<>>
        BY <1>1, <1>2 DEF Inv, DeployInv, ReadInv
  <2>. QED BY <1>1, <1>2, <1>5, <1>6, <2>1, <2>2, StepEnds
<1>8. TriggerOnce'
      BY <1>1, <1>2, <1>5 DEF Inv, DeployInv, TriggerOnce, releases
<1>9. StagedInv'
      BY <1>1, <1>2, <1>5 DEF Inv, DeployInv, StagedInv
<1>. QED BY <1>6, <1>7, <1>8, <1>9 DEF Inv, DeployInv

LEMMA TriggerBuildInv ==
    ASSUME Inv, NEW s \in Services, NEW c \in Commits(s), TriggerBuild(s, c)
    PROVE  Inv'
<1> DEFINE b == <<s, c>>
           p == [pipe[b] EXCEPT !.triggered = TRUE]
           j == [job["staging"][b] EXCEPT !.step = "pending"]
<1>1. /\ ~pipe[b].triggered /\ pipe' = [pipe EXCEPT ![b] = p]
      /\ UNCHANGED <<head, branch, tags, spec, pod, staged, raced, overlap>>
      BY DEF TriggerBuild
<1>2. harm' \in 0 .. MaxFaults
  <2>1. harm \in 0 .. MaxFaults
        BY DEF Inv, TypeOK
  <2>. QED BY <2>1, BoundsNatural DEF TriggerBuild, Harm
<1>3. job' = job \/ job' = [job EXCEPT !["staging"][b] = j]
      BY DEF TriggerBuild
<1>4. /\ pipe \in [Builds -> [stage : Stages, image : Nat, triggered : BOOLEAN]]
      /\ b \in Builds /\ "staging" \in Envs
      BY CommitFacts DEF Inv, TypeOK, Envs
<1>5. /\ p \in [stage : Stages, image : Nat, triggered : BOOLEAN]
      /\ p.stage = pipe[b].stage /\ p.image = pipe[b].image
      BY <1>4
<1>6. b \in Deployments => JobOK(j) /\ job["staging"][b] = NoJob
  <2>1. b \in Deployments => JobOK(job["staging"][b])
        BY <1>4, JobTypes
  <2>. QED BY <1>1, <2>1 DEF JobOK, Steps, Inv, DeployInv, TriggerOnce
<1> HIDE DEF b, p
<1>7. \A d \in Builds : /\ pipe'[d].stage = pipe[d].stage
                        /\ pipe'[d].image = pipe[d].image
                        /\ d # b => pipe'[d] = pipe[d]
      BY <1>1, <1>4, <1>5
<1>8. pipe' \in [Builds -> [stage : Stages, image : Nat, triggered : BOOLEAN]]
      BY <1>1, <1>4, <1>5
<1>9. pipe'[b].triggered
      BY <1>1, <1>4 DEF p
<1>10. ImageInv'
      BY <1>1, <1>7, ImageFrame
<1>11. \A t \in Services : Newest(t)' = Newest(t)
      BY <1>1 DEF Newest
<1>12. CASE job' = job
  <2>1. TypeOK'
        BY <1>1, <1>2, <1>8, <1>12 DEF Inv, TypeOK
  <2>2. WorkingOverlap' /\ ReadInv' /\ SpecInv' /\ StagedInv'
        BY <1>1, <1>12 DEF Inv, DeployInv, WorkingOverlap, ReadInv, SpecInv, StagedInv, Newest
  <2>3. TriggerOnce'
        BY <1>7, <1>9, <1>12 DEF Inv, DeployInv, TriggerOnce, Deployments
  <2>. QED BY <1>10, <2>1, <2>2, <2>3 DEF Inv, DeployInv
<1>13. CASE job' = [job EXCEPT !["staging"][b] = j]
  <2> HIDE DEF j
  <2>1. \A f \in Envs, d \in Deployments :
            /\ job'[f][d] = IF f = "staging" /\ d = b THEN j ELSE job[f][d]
            /\ JobOK(job'[f][d])
        BY <1>4, <1>6, <1>13, JobStep
  <2>2. TypeOK'
    <3>1. job' \in [Envs -> [Deployments -> [step : Steps, read : Seq(Nat)]]]
          BY <1>4, <1>6, <1>13, JobStep
    <3>. QED BY <1>1, <1>2, <1>8, <2>1, <3>1 DEF Inv, TypeOK, JobOK
  <2>3. WorkingOverlap' /\ ReadInv' /\ SpecInv' /\ StagedInv'
    <3>1. CASE b \in Deployments
      <4>1. WorkingOverlap' /\ ReadInv' /\ SpecInv'
        <5>1. "pending" \in Steps \ {"read", "wait"}
              BY DEF Steps
        <5>2. job["staging"][b].read = <<>>
              BY <1>6, <3>1 DEF NoJob
        <5>. QED BY <1>1, <1>4, <1>11, <2>1, <3>1, <5>1, <5>2, StepEnds DEF j
      <4>2. job["staging"][b].step = "none" /\ j.step = "pending"
            BY <1>6, <3>1 DEF NoJob, j
      <4>. QED BY <1>1, <2>1, <4>1, <4>2 DEF Inv, DeployInv, StagedInv, Envs
    <3>2. CASE b \notin Deployments
      <4>1. \A f \in Envs, d \in Deployments : job'[f][d] = job[f][d]
            BY <2>1, <3>2
      <4>2. WorkingOverlap' /\ ReadInv' /\ SpecInv'
            BY <1>1, <4>1 DEF Inv, DeployInv, WorkingOverlap, ReadInv, SpecInv, Newest
      <4>3. StagedInv'
            BY <1>1, <4>1 DEF Inv, DeployInv, StagedInv, Envs
      <4>. QED BY <4>2, <4>3
    <3>. QED BY <3>1, <3>2
  <2>4. TriggerOnce'
    <3>1. \A d \in Deployments : d # b => pipe'[d] = pipe[d]
          BY <1>7 DEF Deployments
    <3>. QED BY <1>4, <1>9, <2>1, <3>1 DEF Inv, DeployInv, TriggerOnce
  <2>. QED BY <1>10, <2>2, <2>3, <2>4 DEF Inv, DeployInv
<1>. QED BY <1>3, <1>12, <1>13

-----------------------------------------------------------------------------
(* The theorems.                                                           *)

LEMMA NextInv == Inv /\ [Next]_vars => Inv'
<1> SUFFICES ASSUME Inv, [Next]_vars PROVE Inv'
    OBVIOUS
<1>1. CASE UNCHANGED vars
  <2>1. UNCHANGED <<head, pipe, branch, tags, job, spec, pod, staged, raced, overlap, harm>>
        BY <1>1 DEF vars
  <2>2. TypeOK'
        BY <2>1 DEF Inv, TypeOK
  <2>3. ImageInv'
        BY <2>1, ImageFrame
  <2>4. DeployInv'
        BY <2>1, <2>2, HeadStays, DeployFrame
  <2>. QED BY <2>2, <2>3, <2>4 DEF Inv
<1>2. ASSUME NEW s \in Services, Push(s) PROVE Inv'
      BY <1>2, PushInv
<1>3. ASSUME NEW s \in Services, NEW c \in Commits(s), ServiceJobs(s, c) PROVE Inv'
      BY <1>3, BuildInv, PullImageInv, PushImageInv, JobFailsInv DEF ServiceJobs
<1>4. ASSUME NEW s \in Services, NEW c \in Commits(s), TriggerBuild(s, c) PROVE Inv'
      BY <1>4, TriggerBuildInv
<1>5. ASSUME NEW k \in Deployments, NEW e \in Envs, DeployJob(e, k) PROVE Inv'
      BY <1>5, ReadVersionInv, UpgradeInv, EndWaitInv, DeployFailsInv DEF DeployJob
<1>6. ASSUME NEW k \in Deployments, Play(k) PROVE Inv'
      BY <1>6, PlayInv
<1>7. ASSUME NEW e \in Envs, NEW s \in Services, StartPod(e, s) PROVE Inv'
      BY <1>7, StartPodInv
<1>. QED BY <1>1, <1>2, <1>3, <1>4, <1>5, <1>6, <1>7 DEF Next

LEMMA SpecKeepsInv == Spec => []Inv
BY InitInv, NextInv, PTL DEF Spec

\* Every variable keeps its type.
THEOREM TypeCorrect == Spec => []TypeOK
<1>1. Inv => TypeOK
      BY DEF Inv
<1>. QED BY <1>1, SpecKeepsInv, PTL

\* A pod runs the program its version names, or one of the pipelines of that
\* version overlapped another (release() of src/*/.gitlab-ci.yml).
THEOREM PodsRunTheirVersion == Spec => []RunsItsVersion
<1>1. Inv => RunsItsVersion
      BY DEF Inv, ImageInv
<1>. QED BY <1>1, SpecKeepsInv, PTL

\* Production is upgraded to what its pipeline has run in staging, unless
\* VERSION changed in between or jobs of staging overlapped (the stages of
\* charts/.gitlab-ci.yml).
THEOREM ProductionWasStaged == Spec => []StagedFirst
<1>1. Inv => StagedFirst
  <2> SUFFICES ASSUME Inv, NEW k \in Deployments, job["production"][k].step \in {"wait", "ok"},
                      NEW i \in DOMAIN Order,
                      i \in DOMAIN job["staging"][k].read,
                      job["production"][k].read[i] = job["staging"][k].read[i],
                      <<"staging", k>> \notin overlap
               PROVE  <<Order[i], job["production"][k].read[i]>> \in staged
      BY DEF StagedFirst
  <2>1. job["staging"][k].step = "ok"
        BY DEF Inv, DeployInv, StagedInv
  <2>. QED BY <2>1 DEF Inv, DeployInv, StagedInv
<1>. QED BY <1>1, SpecKeepsInv, PTL

\* Only overlapping jobs take an environment back to an older version
\* (deploy() of charts/.gitlab-ci.yml).
THEOREM NeverGoesBack == Spec => NeverBack
<1> DEFINE Back(e, k, s) ==
        job'[e][k].step = "wait" /\ spec'[e][s] # None /\ spec'[e][s] < spec[e][s]
            => <<e, k>> \in overlap
           Forward == \A e \in Envs, k \in Deployments, s \in Services : Back(e, k, s)
<1>1. Inv /\ [Next]_vars => [Forward]_vars
  <2> SUFFICES ASSUME Inv, [Next]_vars, NEW f \in Envs, NEW d \in Deployments, NEW s \in Services,
                      job'[f][d].step = "wait", spec'[f][s] # None, spec'[f][s] < spec[f][s]
               PROVE  <<f, d>> \in overlap
      OBVIOUS
  <2>1. spec[f][s] \in Nat
        BY DEF Inv, TypeOK
  <2>2. spec' # spec
        BY <2>1
  <2>3. PICK e \in Envs, k \in Deployments : Upgrade(e, k)
        BY <2>2 DEF Next, vars, Push, ServiceJobs, Build, PullImage, PushImage, JobFails,
                    TriggerBuild, DeployJob, ReadVersion, EndWait, DeployFails, Play, StartPod
  <2>4. /\ job[e][k].step = "read" /\ JobOK(job[e][k])
        /\ spec' = [spec EXCEPT ![e] = [t \in Services |-> ReadOf(job[e][k].read, t)]]
        /\ job' = [job EXCEPT ![e][k].step = "wait"]
        /\ Len(job[e][k].read) = Len(Order)
        BY <2>3, JobTypes DEF Upgrade
  <2>5. f = e
        BY <2>1, <2>4 DEF Inv, TypeOK
  <2>6. PICK i \in DOMAIN Order : Order[i] = s
        BY OrderFacts
  <2>7. spec'[e][s] = job[e][k].read[i] /\ i \in DOMAIN job[e][k].read
    <3>1. spec'[e][s] = ReadOf(job[e][k].read, s)
          BY <2>4 DEF Inv, TypeOK
    <3>2. DOMAIN job[e][k].read = DOMAIN Order
          BY <2>4, OrderFacts DEF JobOK
    <3>. QED BY <2>6, <3>1, <3>2, ReadOfOrder
  <2>8. job[e][k].read[i] \in Nat
        BY <2>4, <2>6, <2>7, CommitFacts DEF JobOK, None
  <2>9. <<e, k>> \in overlap
        BY <2>1, <2>4, <2>5, <2>6, <2>7, <2>8 DEF Inv, DeployInv, SpecInv
  <2>10. CASE d = k
        BY <2>5, <2>9, <2>10
  <2>11. CASE d # k
    <3>1. job'[e][d] = job[e][d]
          BY <2>4, <2>11 DEF Inv, TypeOK
    <3>. QED BY <2>4, <2>5, <2>11, <3>1 DEF Inv, DeployInv, WorkingOverlap, Working
  <2>. QED BY <2>10, <2>11
<1>. QED BY <1>1, SpecKeepsInv, PTL DEF Spec, NeverBack
=============================================================================
