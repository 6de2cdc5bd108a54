# Verification of the reddit microservices

This directory holds TLA+ specifications of the programs in this repository:
the `ui`, `post` and `comment` services under `src/`, which run as a
docker-compose or Kubernetes stack around one MongoDB, the application `reddit/`
they were split from, and the two processes that bring them to a cluster: the
GitLab pipelines and the Ansible playbooks over the dynamic inventory `gce.py`.
Each specification is
translated from the source, checked by TLC on a small instance, and, where a
theorem is listed below, proved with TLAPS for every value of its constants.

- `tlc -config X.cfg M` checks a run, `tlapm M.tla` checks the proofs of a module.
- `PROJECT.json` lists the components, runs, the source lines behind every
  definition (`map`), the hazards and the faulty variants (`mutants`) which show
  that each property notices a plausible bug.

Paths such as `ui/ui_app.rb` below are relative to `src/`, but `reddit/`,
`docker/` and `kubernetes/` to the root.

## 1. The system

```
 browser --HTTP--> ui (puma threads, N replicas)
                    |-- POST /add_post, /vote; GET /posts, /post/:id --> post (Flask, N replicas) --> MongoDB
                    |                                                     '-- span --> Zipkin
                    '-- POST /add_comment; GET /:id/comments ----------> comment (puma threads) ----> MongoDB
 Prometheus --scrapes--> ui, post, comment: counters and health gauges set by each process
```

| Component | State | Operations | Interactions | What makes it correct |
|---|---|---|---|---|
| post (`post-py/post_app.py`) | collection `posts` with a `votes` field; counter `post_count` per process; one request at a time per replica | `vote`, `add_post`, `posts`, `get_post`, `/healthcheck`, `/metrics` | MongoDB on every request; Zipkin at the end of every read | a vote counts once; the counter never runs ahead of the collection; success is logged only of what MongoDB executed, with the exceptions of section 5; requests end unless a silent server holds them |
| comment (`comment/comment_app.rb`) | collection `comments`; counter `comment_count`; puma threads | `add_comment`, `/:id/comments`, `/healthcheck`, scheduler every 5 s | MongoDB | whoever is told 200 finds the comment on the page; the counter never runs ahead, and is exact before a crash |
| ui threads (`ui/middleware.rb`, `ui/helpers.rb`) | instance variables of one `Metrics` object; the header of one Faraday connection; `ui_request_count` | all nine routes, through the middleware | post and comment by HTTP | each browser gets its own response; counted with its own status; calls carry the id of their request |
| ui sessions (`ui/ui_app.rb`) | session cookie in the browser, signed with a secret per process; flash messages in it | submissions (post, vote, comment), pages | post, comment; other replicas and tabs through the cookie | every post is reported; a message is shown once, and is true |
| health checks (`ui_app.rb:60`, `comment_app.rb:48`, the `healthcheck` handlers) | three gauges in ui, two in comment | a check every 5 s, `/healthcheck` | ui asks post and comment, each asks MongoDB | gauges agree with each other and come back to the truth |
| monolith (`reddit/app.rb`) | users, posts, comments in MongoDB; session with the user name | signup, login, logout, vote, post, comment | MongoDB | an account keeps its password; sessions open on the own account; votes counted once |
| pipelines (`*/.gitlab-ci.yml`, `kubernetes/charts/.gitlab-ci.yml`) | registry tags, releases of two namespaces, the `VERSION` files at the head of `master` | build, release, trigger, staging, production | Docker registry, Helm, Kubernetes, each other by trigger | a pod runs the program its version names; production was staged; no environment goes back; staging catches up |
| provisioning (`kubernetes/ansible`, `inventory/gce.py`) | the cache file of the inventory; per playbook the groups it looped over | runs of the inventory script; the playbooks' loops | the GCE API, `gcloud`, other runs through the file | what is printed is fresh enough; a ruined file is rebuilt; loops reach every settled host |
| monitoring, logging, Terraform, manifests | configuration only | | third-party programs | |

Behaviour that is hard to test:

- **Interleaving without locks.** `vote` reads a post, adds in Python and writes
  the sum with `$set`; replicas of `post` race. The ui's threads share a
  middleware object and an HTTP client. Two tabs share a cookie.
- **Partial failure.** An insert is stored but not acknowledged; a read-back
  fails after the insert; a POST is answered 500 and nobody looks at the status.
- **Delay.** A write left on a broken connection is executed later; a check
  waits for a timeout while the next one runs; MongoDB or Zipkin accepts a call and
  stays silent, which holds the only thread of a `post` replica, for `MongoClient`
  gets no `socketTimeoutMS` and `requests.post` no timeout.
- **Crashes and restarts.** Counters restart at zero, session secrets change,
  Swarm stops restarting after `max_attempts`.
- **Shared files and tags.** `gce.py` empties and rewrites its cache in place
  while other runs look at its age and read it; two pipelines push and pull the
  same `master` tag; deployments of three services upgrade the same release, and
  each reads `VERSION` when it gets there, not when it was triggered.

## 2. Modules

| Module | Models | Checked by | Proved in |
|---|---|---|---|
| `VoteBoard` | the abstract promise of the post service: requests are atomic steps on a board with scores | `post_one` (refinement) | `PostServiceProofs` (refinement) |
| `PostService` | replicas of `post`, MongoDB, Zipkin, restarts | `post_*` | `PostServiceProofs` |
| `CommentService` | one `comment` process with its threads | `comments` | `CommentServiceProofs` |
| `UiServer` | the threads of one ui process and what they share | `ui_threads`, `ui_swapped_status` | `UiServerProofs` |
| `UiSession` | a browser, its tabs and cookie, and several ui replicas | `ui_session`, `ui_false_success` | `UiSessionProofs` |
| `HealthMonitor` | the periodic health check of one process | `ui_health` | `HealthMonitorProofs` |
| `Monolith` | the application before the split: accounts, sessions and votes served by puma threads | `monolith` | `MonolithProofs` |
| `Pipeline` | pipelines of the services and of the charts, registry, Helm and pods | `pipeline` | `PipelineProofs` |
| `GceGroups` | the inventory `gce.py` makes of a list of instances (operators only) | `provisioning` | `ProvisioningProofs` |
| `Inventory` | runs of `gce.py`, their cache file, the clock and the cloud (extends `GceGroups`) | `provisioning` | `ProvisioningProofs` |
| `Provisioning` | the playbooks' loops over what `Inventory` prints (extends it) | `provisioning` | `ProvisioningProofs` |
| `MC*` | definitions TLC needs: model functions, symmetry | | |

Definitions introduced as *faulty variant* are not part of any behaviour: each
is the definition below it with a plausible bug, and the run named for it in
`PROJECT.json` must fail when it takes the definition's place. *Observer*
variables record history for the properties and guard nothing the code does
(`UiSession` and `CommentService` also use them to send each form once).

### PostService

A replica is a Flask development server without threads, so its state is one
`job`: the request, the next step, and the value read. Between two steps other
replicas and the environment act. `Receive` takes a request; `FindPostToVote`,
`CannotVote` and `UpdateVotes` are `vote`; `InsertPost` and `CountPost` are
`add_post`; `OpenCursor`, `DumpPosts`, `FindPost` and `EndSpan` are the reads,
in which `find().sort()` only builds a lazy cursor and leaving the `with` block
posts the span. `WriteNotExecuted`, `WriteUnacknowledged` and `WriteLeftBehind`
are the ways a write can end in an exception; `ExecuteLate` is MongoDB executing
a write whose connection has broken. `outcome` is what the handler logged and
will answer, with `done` telling whether MongoDB executed the operation (for an
unknown id it has found nothing, and `done` stays false).
`waits` tells which server holds the replica's call unanswered: `Hang` is a call
that reaches a silent server, `Return` its end once the server is no longer silent,
by an answer or an error. Nothing obliges `Return` to happen: the server may have
forgotten the call, and neither client has a timeout. After it the replica goes on
with the step it was at, which includes every way the call can end.
`Crash` loses the job and the counter, `Restart` is the restart policy of
`docker/docker-compose.yml:52`.

The content of posts is left out, as are metrics other than `post_count`, and
the retry of reads the driver may make on its own (a read that is retried has no
effect in between). The check of a request's parameters is modelled by the ids
and vote types that `ObjectId` and `int` refuse.

`VoteBoard` is the promise to the ui: a vote or publication answered `ok` has
taken effect exactly once, one answered `error` at most once. The refinement
mapping hides the copies in the replicas and maps the phase of each job to the
phase of a call. It holds for one replica and no late writes, and fails
otherwise - that is the finding of `post_lost_vote`.

### CommentService

Threads of one process serve `add_comment` (`InsertComment`, `ReadBack`,
`CountComment`, with `CommentFails` as the `rescue` clause of both queries) and
listings (`FindComments`). Post ids appear as spellings: `add_comment` stores
the spelling it is sent, a listing looks up its canonical form (`obj_id(id).to_s`,
which is the empty string for a string that is no ObjectId). The ui's pages only
link to canonical ids, so these are the ones comments are posted to.

### UiServer and UiSession

`UiServer` models the route only by the number of upstream calls it makes and the
status it answers, and concentrates on the two things threads share. MRI switches
threads at method calls and while waiting for I/O, so the multiple assignment in
`middleware.rb:22` and the array in line 30 are single steps and everything
between may interleave. `Probe` is the scheduler's health check, which has no
request and therefore does not set the header.

`UiSession` follows posts, votes and comments and the messages about them. A
request works on the copy of the session it was sent with; its response replaces
the browser's cookie (`Respond`). The services appear through what `VoteBoard`
promises: an answer comes with the submission executed or refused
(`PostAnswered`, `VoteAnswered`, which leaves no message), and the absence of an
answer with either (`PostUnanswered`). A new post redirects to pages that always
render (`follow`); a vote and a comment may return to `/post/:id` (`back`), which
is answered 404 when the post service does not return the post, and then the message
stays in the cookie. The messages a page adds itself when a service fails are
shown by the request that adds them and are left out.

### HealthMonitor

One check asks the dependencies in order (`Ask`), then sets the status gauge
(`SetStatus`) and the others (`SetAvailability`). `Slots` are the scheduler's
threads: rufus-scheduler starts a job every five seconds whether or not the last
run is over. `Deps` makes the module the ui's monitor (`<<"post", "comment">>`,
the instance that is checked) or the comment service's (`<<"mongo">>`); the proofs
hold for both. A dependency's answer is computed when
it is asked: `post` and `comment` probe MongoDB on every call.

### Monolith

One action per step of a route between two MongoDB operations. Signing up is
`LookForName` and then `CreateAccount`, or `DuplicateName` when another browser
was faster: the name is the document's `_id`, so `insert_one` raises and the
session is not touched. A password stands for its salted hash, `Login` compares
it. A vote is `ReadVotes` and `WriteVotes` as in `PostService`. `Fails` is any
operation that raises; with the fault `"link"` an insert may be executed and
raise (`CreateAccount` without a session), a vote that is executed and raises is
`WriteVotes`. With the fault `"late"` the driver gives a write up, by its socket
timeout or because the connection broke, and MongoDB executes it later or never
(`WriteLeftBehind`, `ExecuteLate`, `ForgetLate`), as in `PostService`; a post that
is inserted late is one that is inserted later (`AddPost`). Pages, flash messages and comments touch none of this state and are left out.

### Pipeline

One action per command that other jobs can notice: `Build` moves the branch's
tag, `PullImage` and `PushImage` are `release()`, between which another pipeline
may push, `TriggerBuild` is in the same stage as the release. A triggered
deployment is known by the commit that triggered it; `ReadVersion` is one `curl`
of a `VERSION` file, `Upgrade` is `helm upgrade`, `StartPod` is Kubernetes
pulling the image (it retries until the tag is there) and replacing the pod,
`EndWait` is the end of `--wait`, which waits for the pods because the charts ask
for one replica and the API version they use rounds `maxUnavailable` down to none.
`Play` is the manual job. The first commit of each service is taken to be released
and deployed. Pushes are pushes to `master`: branches and pushes to the charts only
add deployments, review apps have namespaces of their own, and the root
`.gitlab-ci.yml` shares no state with these jobs; they are left out.
`Faults` are a job that fails, a trigger that GitLab refuses (its `curl` succeeds
all the same) and a `VERSION` that is not answered (an empty tag, `None`).

### GceGroups, Inventory and Provisioning

An inventory is a function (`GroupInstances`) of the instances a run has listed and
of its filter (`instance_tags`, `GCE_ZONE`, `inventory_ip_type`), so the cache and
the runs carry only those two; the loop of `group_instances` over the instances is
the recursive function `Inventories`, whose last value it returns; the JSON text is
whole, empty, or garbled, and not readable in the latter two cases. `Visible` is the zone libcloud lists: `gce_zone`
(`GceZone`) or `GCE_ZONE` when it names one zone; a list of several zones is no
zone libcloud knows, and then it lists all of them and `InZones` filters what was
listed. A `GCE_ZONE` that is set but empty is left out.

`Inventory` has one action per step of a run that another run can notice: looking at
the file's age (`ChooseSource`), one page of `list_nodes` (`ListPage`; a page may be shorter than asked for), `open(..., 'w')`
(`EmptyFile`), closing it (`WriteFile`), reading it (`LoadFile`), and printing.
`Fail` is any exception, or the death of the process, between them. The clock counts
units in which a run ends: API calls have no stated timeout, so `MaxRun` is an
assumption, which `Tick` makes.

A process of `Runs` is one `ansible-playbook` (or a person) that runs the script and
uses its output. `EnterLoop` evaluates the playbook's `with_items`, `LoopItem` is
one `gcloud` command on a host (`ClusterHosts` is the union `cleanup.yml` loops over,
which keeps one item per host; the order of its items is left open). An item
fails because there is no such host, or because the API, a quota or the network
refuses it, and then the host stays, or is deleted although gcloud reports an
error (`ItemFails`). The other items of the loop are still tried, and `EndLoop`
stops a playbook that had failed items.
`gce_provision.yml` uses no group, hence it is a run of the script; the instances it
asks for with `--async` appear whenever GCE is ready (`CloudChanges`, which is also
everyone else with access to the project).

## 3. Runs

| Run | Instance | Shows |
|---|---|---|
| `post_votes` | 2 replicas, 2 posts, upvote and downvote, 5 requests, 1 restart; MongoDB down, broken connections, late writes, crashes | no vote is counted twice; only overlapping votes are lost; the counter stays within the collection |
| `post_one` | 1 replica, 2 posts, all operations, MongoDB and Zipkin may stay silent; no late writes | `PostService` implements `VoteBoard`; no vote is lost; success is logged only for what was done, but for listings and unknown ids; writes end unless a silent MongoDB holds them, reads unless a silent MongoDB or Zipkin does |
| `post_lost_vote` (violation) | 2 replicas, no fault | two successful votes, one in the score |
| `comments` | 2 threads, 2 comments, one id in two spellings and a malformed one, 3 requests, 1 crash | pages are complete, authors are told the truth, requests end |
| `ui_threads` | 2 threads, 3 requests | mix-ups only between overlapping requests; every request is answered |
| `ui_swapped_status` (violation) | 2 threads | a request is counted with another's status |
| `ui_session` | 2 replicas, 2 tabs, a post, a vote and a comment | without overlap or a change of replica no message is shown twice or lost; every post is reported, a comment or failed vote too, or it waits for the next page that is found |
| `ui_false_success` (violation) | 1 replica, 1 tab | 'Post successuly published' for a post that was not stored |
| `ui_health` | 2 scheduler threads, all faults, 1 crash | gauges agree unless checks overlapped, and settle on the truth |
| `monolith` | 2 browsers, 1 name, 2 passwords, 2 posts, 7 requests, operations that fail, are executed without acknowledgement, or late | racing signups let only the first browser in; accounts keep their passwords; only overlapping votes are lost |
| `pipeline` | 2 pushes, both to the ui or one to the ui and one to post, the two deployments they trigger with a production button each, 2 faults of any kind | a pod runs another program than its version names only after overlapping pipelines; production was staged unless `VERSION` moved or jobs overlapped; going back takes an overlap; staging catches up |
| `provisioning` | 2 processes, a controller and a worker (without image and public address, with a `group-` tag), 3 runs, a full and a filtered refresh, `MaxAge` 1, `MaxRun` 1, pages of one instance, clock to 2, 1 change by others, all in one zone | the hosts printed are fresh enough and ruins of the cache pass; groups and host variables agree; the playbooks' loops try all settled hosts; undefined groups have a passing cause |

**Bounds.** Two actors are enough for every race here: each hazard is between one
read and one write of two actors, and the observers (`raced`, `overlap`,
`clean`, `overlapped`) relate pairs. Five requests on two replicas let two
votes overlap after a publication while a third is left behind and executed
late. Two posts separate a score that is raced on from one that is not. Three
ui requests on two threads let a thread be overtaken by a request that started
after the first has ended. `MaxRequests`, `MaxAttempts`, `MaxRestarts` and
`MaxCrashes` appear in guards only; `UiSession` needs no bound but the set of
submissions, `HealthMonitor` none but the crashes. Identical replicas and posts
are symmetric in `post_votes`, and the processes in `provisioning`, where only
invariants are checked. `MaxPushes` bounds the pushes of `pipeline` to two: two to the
ui give overlapping pipelines of one service on the branch's tag; one to each service
gives deployments triggered by different services, of which the one of post can take
the ui back to the version it has read before. Three deployments at once are beyond
the run, and covered by the proofs of everything but `StagingCatchesUp`. Versions are
numbers of their own, not commits. Two faults
let one of the first deployment hide behind one of the second. In `provisioning`
three runs are one that fills the file, one that serves it and one that overwrites
it meanwhile; the clock reaches `MaxAge + MaxRun`, so that a run which starts then must
know the first instances; two pages are enough for an instance to vanish from one that
has been read and another to appear on one that has not. The
fleet is in one zone: that `FreshEnough` holds of fleets in several zones, of which a
refresh lists one, rests on its proof. Larger fleets change the grouping only, which
is proved for every fleet (section 4).

**Counters.** `PostCountSound` and `CommentCountSound` bound the counters from above:
they notice what is counted twice or without being stored, not what is stored and not
counted, which the code allows (a lost acknowledgement, a crash). `CounterIsExact`
and `ToldTheTruth` say when the counters are exact.

**Deadlock.** `post_votes`, `post_one`, `comments` and `monolith` may stop: requests are
bounded, and the scheduler gives a process up after `max_attempts`. `pipeline` and
`provisioning` stop when nobody pushes or runs anything any more. The other
runs check for deadlock where it is meaningful.

**Fairness.** Weak fairness is assumed of what a process does once it has a
request (`Serve`), of the scheduler's triggers and of running checks. It is what
the operating system and the timeouts give: pymongo and the Ruby driver end an
operation on an unreachable server after their selection timeout, Faraday's
Net::HTTP after sixty seconds. It is not assumed of clients, of MongoDB or Zipkin
recovering, or of restarts. The timeouts of pymongo's server selection and of its
connections do not cover an operation that was sent to a MongoDB which then stays
silent, nor does anything cover a span that a silent Zipkin took: such a call holds
its replica (`Hang`), no fairness makes it return (`Return`), and `WritesEnd` and
`ReadsEnd` exempt exactly the requests held so. `Pipeline` assumes that runners take every job and that
Kubernetes keeps trying (`StartPod`), not that anybody pushes, presses the button, or
that faults happen. `Inventory` and `Provisioning` have only safety properties.

## 4. Proofs

All theorems hold for any sets of replicas, threads, posts, faults and any bounds
that satisfy the modules' named assumptions. These say that sets are finite where
the code counts (`ReplicasFinite`, `PostsFinite`, `CommentsFinite`), that different
kinds of values differ, that bounds are natural numbers, and, of the instances, what
the code relies on: tags and addresses are lists of strings and every instance has a
private address (`FleetTyped`; `node_to_dict` reads the first), no label is an
address (`LabelsNoAddresses`), and the playbooks' two tags have no `group-` prefix
(`ClusterTags`). TLC evaluates each assumption in a passing run.

Every safety property of the passing runs is proved. Beyond them some theorems say what
exactly a hazard costs, by proving the property without its exemption where the
hazard cannot occur: one replica, thread, browser or scheduler slot, no broken
connection, no filtered run.

Two proofs are about data of any size: the instances of a fleet and the counters of
the replicas. The induction they need is done by a least counterexample: a set
of natural numbers that is not empty has a least element (`Least`, from the library's
`WFMin`), so the numbers for which a claim fails have one, and the step before it
refutes it. The same argument shows that the recursive functions exist at all
(`UpToEach`, `SumsExist`), which TLC takes for granted and a proof must not.

- **`PostServiceProofs`** - `TypeCorrect`; `NoVoteCountedTwice`: a score is never
  above its executed upvotes nor below its executed downvotes. That alone is not
  inductive: a replica may hold a sum it read long ago. The invariant adds that
  the value every job and late write is about to set lies within the bounds the
  votes *including that vote* would give; the bounds only grow, so old values stay
  within. `OnlyRacesLoseVotes`: for a post never raced on, a pending
  write holds exactly the score plus its vote, and there is at most one.
  `SingleReplicaExact`: with one replica and no late writes no post is raced on.
  `SuccessIsLoggedTruly`: a success that is logged before its operation is over
  belongs to a listing, and one of nothing to an unknown id (`LogInv`). `BoardIsImplemented`: with one replica and no late
  writes every step is a step of `VoteBoard` or a stutter. A request is settled by
  the step in which MongoDB executes its write or its failure is noted, a read by the
  end of its span; that no vote is then overtaken is `OneAtATime`, and `StepsFit` says
  which step goes with which request. `CountNeverAhead`: the counters of all replicas
  never show more posts than are stored. It needs that an insert under way, or left
  behind on a broken connection, is of a post that is neither stored nor inserted
  elsewhere (`AddFresh`), so each insert adds one to the collection; a sum over
  replicas changes by what one of them adds (`SumAt`). `CounterIsExact`: without
  broken connections and crashes the two are equal.
- **`CommentServiceProofs`** - `TypeCorrect`; `PagesAreComplete` and
  `ToldIsStored`. A comment belongs to one request and is told 0 until that
  request is answered (`Owned`); after the insert its field is set (`Underway`);
  what a listing owes its reader was told 200, so it is stored and is in the
  result (`Owed`). `CounterIsSound` and `AuthorsAreToldTheTruth` count: every step
  changes the sets the counter is compared with by one thread and one comment at most
  (`CardinalityStep`), a comment about to be inserted is not in the collection
  (`NotYet`), and before the first crash the counter is exact (`Exact`).
- **`UiServerProofs`** - `TypeCorrect`; `MixupsAreBounded`: busy threads overlap
  pairwise, so whoever last wrote the shared state between a thread's write and
  its read overlaps that thread's request. `OneThreadIsExact`: with one thread
  nothing overlaps, hence calls and counts are exact. `StatusLabelsAreTrue`: a request
  is served by one thread and has not been answered (`Once`), the shared response is
  the own one of a request that overlaps none (`OwnResponse`), so what is counted is
  what the thread goes on to deliver (`Counts`).
- **`UiSessionProofs`** - `TypeCorrect`; `MessagesAreShownOnce` and `MessagesAreKept`:
  tabs that never overlapped wait one at a time (`OneWaits`), so the one request under
  way brought along what the cookie holds (`Carried`), and no session holds what a page
  has shown (`NoneHeld`); that a new message is new is `Owned`. `NoTwoVerdicts`: a
  submission never gets both a message of success and one of failure, even with
  overlapping tabs.
- **`HealthMonitorProofs`** - `TypeCorrect`; `GaugesAgree`: `clean` implies that
  the check under way is alone (`Alone`), and an undisturbed check has set the
  gauges to what it read (`SetAsRead`). `OneSlotAgrees`: with checks that never
  overlap the gauges agree whenever none runs.

- **`MonolithProofs`** - `TypeCorrect`; `PasswordsAreKept`; `NobodyElsesAccount`,
  whose invariant adds that an open session was opened with a password
  (`Opened`), so no session can name an account that is only now created;
  `OnlyRacesLoseVotes`, from the invariant `Exact`: on a post never raced on at
  most one vote lies between its read and its write, be it in time or late, and it
  holds the score plus itself. `OneBrowserExact`: without threads, and if MongoDB
  executes no write the driver has given up on, no executed vote is lost.

- **`PipelineProofs`** - `TypeCorrect`; `PodsRunTheirVersion`, from `ImageInv`: a
  pipeline that is alone owns the branch's tag from its build to its release
  (`OwnImage`), hence a version's tag holds that version's image (`TagsHold`);
  `ProductionWasStaged` and the action property `NeverGoesBack`, from `DeployInv`: a
  job that is alone has read nothing older than what its environment was asked for
  (`SpecInv`), and what it waited for in staging ran there (`StagedInv`). Services,
  histories and faults are arbitrary; `VersionsGrow` says that `VERSION` is never set
  back.

- **`ProvisioningProofs`** - `CacheIsFresh`: whatever a run holds, and whatever the
  file holds, is right about each instance that did not change since some moment not
  long before (`JobInv`, `FileInv`), as far as the zones it listed show it, and
  the hosts printed of it are those its filter selects (`HostsSelected`); `RuinsPass`: a file that is not whole is being
  written or was cut short no longer ago than its modification time (`RuinInv`). Both
  hold for any number of runs, pages of any length, and any changes of the cloud.
  `GroupsAreRight`: after each instance the hosts with variables are those seen so
  far, groups hold no others, and a host in a zone asked for is in the group of each
  of its labels (`Grouped`); when hosts share no name and no address, a group that
  holds a host is its own (`Separate`). `InventoriesGrouped` carries both from one
  instance to the next, so they hold of what is printed for every fleet, listing and
  filter. `LoopsReachAll` and `UndefinedPasses`, from
  `PlaysInv`: a known host that a playbook has still to treat is in an item it has
  left, as long as the host exists, and a group may be missing only while no known
  instance has its tag (`TagGroupWhole`). They rest on `CacheIsFresh` (the inventory
  lists every settled instance) and on `GroupsAreRight` (the groups hold what is
  listed). A loop tries every item whatever became of the others; what it leaves, of
  the hosts that are known and still there, is what gcloud failed to delete.
  `UnfilteredRunsReachAll`: without filtered runs neither property needs its premise
  on the cache. `TypeCorrect` needs the groups too: the items of a loop are what the
  script printed.

Only model-checked: liveness (`WritesEnd`, `ReadsEnd`, `RequestsEnd`, `Answered`,
`Reported`, `Settles`, `StagingCatchesUp`), because fairness and ENABLED are beyond
the prover. `VoteBoard` states no fairness, so `BoardIsImplemented` proves all of the
refinement that `post_one` checks.

## 5. What the code does that it should not

1. Votes are lost when two replicas of `post` handle them at once
   (`post_app.py:112`); `$inc` would be atomic. `.env.prod` runs three replicas.
2. `find_posts` logs success before its query runs, and its `except` clause can
   never see a failing query (`post_app.py:68-77`); `find_post` logs 'Successfully
   found the post information' of an id no post has, for `find_one` returns `None`
   (`post_app.py:167`). `LoggedSuccessIsTrue` exempts exactly these two cases.
3. `Metrics` keeps responses in instance variables that all threads share
   (`middleware.rb:22`).
4. The ui reports success for requests the services answered with an error
   (`ui/helpers.rb:42`, `ui_app.rb:124`).
5. `comment_health` recovers before `comment_health_mongo_availability`
   (`comment_app.rb:52`), other than `README.md:312` says: the order is that of
   `SetStatus` and `SetAvailability`.
6. The cache of `gce.py` does not say which filter it was made with
   (`gce.py:173`): after a filtered run with `--refresh-cache` a playbook loops over the
   filtered hosts only. `LoopsReachSettled` and `UndefinedHasCause` exempt it, and
   `FreshEnough` speaks of the filter the printed inventory was made with.
7. The failure of `README.md:645`, undefined groups after new instances, comes from
   an inventory that is read once per playbook and may come from the cache; waiting
   `cache_max_age` and the duration of one run between two playbooks avoids it.
8. Production reads `VERSION` again (`kubernetes/charts/.gitlab-ci.yml:72`), so the
   button of a pipeline can deploy a version its staging never ran, other than
   'first stage, then prod' (`README.md:687`); for the same reason the button of an
   old pipeline does not roll back.
9. `release()` tags whatever image has the branch's tag at that moment
   (`ui/.gitlab-ci.yml:165`): with overlapping pipelines a version may name the
   program of another commit.
10. A replica of `post` works on one request at a time and waits without limit for a
    MongoDB or a Zipkin that has taken a call and stays silent (`post_app.py:43`, `:54`).

## 6. Not modelled, and the plan

Not modelled by nature: Grafana, Prometheus, Alertmanager and fluentd
configuration (third-party programs), charts, manifests and Terraform
(declarative), the Makefile, what the playbooks' tasks do on a host (straight-line
shell), review apps and the root `.gitlab-ci.yml` (no state shared with the rest),
`document_by_id` of the comment service (dead code), formatting of logs and pages.

Planned, in this order:

1. **Board pages**: `UiSession` composed with `CommentService` and `PostService`
   through `VoteBoard`, for comments on posts that do not exist and the `show` page's
   two calls.
2. **Rolling updates** of docker-compose (`update_config`) with versions in the
   health gauges; the leak of MongoDB clients in failed checks
   (`comment/helpers.rb:23`).
3. **Comments of the monolith**, which are inserted and never changed.
