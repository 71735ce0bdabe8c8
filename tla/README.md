# A TLA+ model of OpenCoda's control plane

OpenCoda keeps GPU machines warm, joins them to a Kubernetes cluster, starts
inference replicas on them and routes requests to the replicas. This directory
models the parts of it that decide: the scheduler, the three controllers of the
capacity plane, the cloud providers they share, the endpoint controller with
the webhook and the pods it renders, and the gateway with its autoscaler.
TLC checks the models on small instances (12 runs), TLAPS proves their safety
for every value of the constants (27 theorems in 7 modules, and one of
lemmas about folds and sums). `PROJECT.json`
lists the components, the runs, the mutants that show each property can fail,
the source lines of each definition, the hazards and the theorems.

Line numbers are those of the repository at the commit modelled;
`buffer_controller.go` etc. stand for the only file of that name.

## 1. Inventory

### The capacity plane (`coda-controller-manager`)

| part | state | operations | talks to |
|---|---|---|---|
| greedy scheduler (`pkg/scheduler/greedy`) | none | `Fill(need, pools)` | called by the buffer controller |
| pool controller (`internal/controller/pool`) | none of its own | `Reconcile`: capacity report, node records, counters, status update | `GPUPool` status, node cache, provider |
| buffer controller (`internal/controller/buffer`) | none of its own | `Reconcile`: count, target, plan, `provisionPool`, or `scaleDown` with `drainAndRelease`; status update | `GPUPool` and `BufferPolicy` status, nodes, pods, provider |
| health controller (`internal/controller/health`) | none of its own | `Reconcile`: boot check; `handleXidCritical` | nodes, pods, `GPUPool` status, provider |
| providers (`pkg/capacity/{aws,static,gcp}`) | last price, ICE times, without a lock | `Quote`, `Provision`, `Release`, `Capacity` | EC2, GCE, or nothing |
| provider cache (`pkg/capacity/cache.go`, `registry.go`) | one provider per pool name, under a mutex | `ForPool` | secrets |
| price sync (`pkg/capacity/pricesync`) | a price table nobody reads | periodic download | |

The controllers run concurrently (one worker each) and share nothing but the
API server and the provider cache. Each reads from the manager's informer
cache, which lags, changes its copy of an object and writes the copy back;
the API server accepts it only if the object has not changed since the version
that was read. Three controllers write the same `GPUPool` status; the buffer
controller and the gateway write the same `BufferPolicy` status.

What must be right: node records are neither lost nor doubled, machines being
provisioned are counted, machines are taken away only behind a cordon, the
counters stay sane, exported demand survives, machines whose record was lost
are found again, refused launches reach the report the scheduler goes by, Xid
handling ends. Of the providers: one per pool however many workers ask at once,
no refusal forgotten, no machine left running behind a release that succeeded.

### Endpoints (`internal/controller/endpoint`)

The endpoint controller keeps cold-start samples and an idle timer in memory,
and the pods `<endpoint>-replica-<i>` in the API. One `Reconcile`: read the
endpoint, hash its spec, compute the desired number, count pods of this hash
and of others, record cold starts, update the status, create the missing pods,
drain the pods of other hashes. The gateway patches the annotation
`desired-replicas` and the status field `kvHitRate` of the same object.

Before that the admission webhook (`internal/webhook`) may have refused the
spec; after that `buildPod` looks the engine up, asks the KV provider for a
patch, lets the engine render its container, wires the two together and adds
the GPU limits (`pkg/engine`, `pkg/kv`).

What must be right: replicas are created within the limits and for a spec that
was current, no lost status fields, upgrades that come through without downtime;
what is admitted can be built, a pod is built from one spec and not from two,
and its containers fit together.

### Gateway (`internal/gateway`, `cmd/coda-gateway`)

The `Router` (endpoints, replica URLs, two counters) is shared, under a lock
per method, by handler goroutines and by the autoscaler loop, which every ten
seconds lists endpoints and pods, registers the replicas, reads the counters,
writes the desired replicas and exports the demand.

What must be right: a queue depth that does not drift, routes that follow the
pods, endpoints that wake up.

### The rest

Token authentication, price sync, the node agent, metrics, CLI, Studio, SDK,
charts: stateless checks, formatting, one-shot commands or read-only views.
They are listed in `PROJECT.json` as not modelled, each with its reason.

### Where it is hard

Stale caches (a controller acts on a world that has moved on), optimistic
updates that fail after irreversible calls (a machine is launched, then the
record is refused), restarts in the middle of a drain of minutes, spot losses,
objects written by two processes, counters reset under requests in flight,
cloud calls whose answer is lost, a slice read while it grows, and a spec that
changes during a rollout. `PROJECT.json` lists each such place
under "hazards", with the properties that cover it or the reason why none does.

## 2. Modules

```
Scheduling          the scheduler's operators: cost, order, capacity, fill step, all plans
                                                          SchedulingProofs (folds, sums, plans)
Greedy              Fill iteration by iteration          GreedyProofs
NodeLedger          abstract: one growing list of entries per pool
Fleet               machines, nodes, pool status, caches, environment, API calls
  PoolController    BufferController (uses Scheduling)    HealthController
    CapacityPlane   the three controllers over one fleet  CapacityPlaneProofs
                    implements NodeLedger                 CapacityCountProofs
Providers           the providers and their cache         ProvidersProofs
EndpointController  one CodaEndpoint and its pods         EndpointProofs
PodRendering        webhook, hash, engine and KV rendering, as operators
  ReplicaStart      EndpointController with whole specs   ReplicaProofs
Gateway             handlers and autoscaler loop          GatewayProofs
MCGreedy, MCCapacityPlane, MCProviders, MCEndpoint,
MCReplicaStart, MCGateway                                 instances for TLC
```

**Scheduling, Greedy** (`scheduler.go`, `greedy.go`). A pool view is a record
of numbers; money is in whole units. `IsSortOf` allows every order `sort.Slice`
may leave among equal costs. `Greedy` runs the loop; `PlansOf` gives all
results at once and is what `BufferController` uses.

**Fleet.** State: `machine[n]` (unused, running, gone), `node[n]` (present,
eligible, cordoned, xid), `pool[p]` (records and counters, price, ICE),
`demand` (with its version), and for each the copy in the manager's cache (`cpool`, `cnode`,
`cdemand`); `provider[p]` is the entry of the provider cache. `StatusUpdate` and
`NodeUpdate` are the version-checked writes. The environment joins nodes, loses
machines, raises Xids, schedules replicas, changes the demand, delivers watches
and restarts the manager; the constant `Events` switches the events of a run.

**PoolController**: `PoolRead` is `Reconcile` up to its status update (capacity
report and `reconcileNodeRecords`), `PoolWrite`/`PoolConflict` the update.

**BufferController**: one action per call that leaves the process: `BufCount`,
`BufPlan`, `EntryRefused`/`EntryQuoted` (the checks of `provisionPool`, Quote),
`Launch`/`LaunchFails`/`LaunchUnanswered` per machine, `LaunchesStored`/`LaunchesDropped`; for the
scale-down `ScalePool`, `DrainAbsent`, `DrainCordon`, `DrainEvict`,
`DrainRelease` with their failures, `ScaleStored`/`ScaleDropped`; last
`BufStatus`. Errors go where the code sends them: a failed launch leaves
`provisionPool` without storing, a failed drain leaves `scaleDown`.

**HealthController**: `BootCheck`; `XidCordon`, `XidDrain`, `XidRelease` or
`XidNoProvider`, `XidStored`/`XidDropped`, `XidFinish`/`XidRetry`.

**CapacityPlane** interleaves the three controllers and the environment, adds
the restart that clears all of them, and states the properties. What they
promise together about node records is the specification **NodeLedger**: a book
of entries (name and origin) per pool, extended at its end only, one pool per
step, no name twice. `Book` instantiates it with the records in the API.

**Providers** (`cache.go`, `registry.go`, `register.go`, `aws.go`, `gcp.go`,
`static.go`). Three workers, named for their controllers, call `ForPool` step
by step (`Lock`, `Hit` or `LoadCredentials` and `Build`, `ForPoolFails`) and
then the provider they got: `Quote`, `RunInstances` or `Insert` and `Waited`,
`ICE` and `ICEStored`, `ReleaseDone`/`ReleaseFails`, `Capacity`. `prov[p][c]` is
the object that worker `c` built, so that two objects for one pool could exist.
The append to `lastICE` is two steps, length and element, because `Capacity`
copies the slice without a lock. An answer that is lost leaves a machine
without a handle; `Discovered` gives it one with the node's name as its id.
`Fleet` keeps a coarser view of the same code (built or not, price, ICE).

**EndpointController**: `EpRead` (Get, hash, desired, first count),
`EpCountOld`, `EpColdStarts`, `EpStatus`/`EpStatusFails`, `EpCreate`/
`EpExists`/`EpCreateFails` per index, `EpCreated`, `EpDrain`. The resource
version is modelled by `fresh`: which of the cache and Reconcile's copy still
hold the latest version. What a user wants of it is `gen`, the spec hash, and
`scaling`, the limits that every Reconcile reads afresh; `SpecEdit` changes
either, as `Edits` allows. A pod has its hash, whether it
is ready, marked as recorded, and being deleted. `accepted` is a history
variable.

**PodRendering, ReplicaStart** (`codaendpoint_webhook.go`, `vllm.go`,
`lmcache.go`, `null.go`, `engine.go`, `pkg/kv/provider.go`, `buildPod`).
`Handle` is what the webhook allows, `ComputeSpecHash` the string that is hashed,
`BuildPod` the pod: the engine's image, model, arguments, tensor parallelism,
GPUs, variables, the LMCache port it is told, and the containers beside it. The
port and the variables that two places of the code repeat are two definitions.
`ReplicaStart` repeats EndpointController's actions with the spec beside the
hash: `spec`, `cspec` and `rspec` are the specs of the object, of the cache and
of Reconcile's copy, `rendered[i]` the containers of pod `i`.

**Gateway**: handlers step by `PickEndpointByModel`, `IncQueue`, `PickReplica`
or `NoReplica`, `ProxyEnds`, `DecQueue`; the loop by `Tick`, `SyncList` or
`SyncSkip`, `SyncRegister`, `SyncInFlight`, `SyncQueue`, `SyncScale`,
`SyncExport`.

### Abstractions

- In `Fleet` the content of a pool or node stands for its resource version. Two
  writes that restore the same content look like none, which only allows more
  updates than the API server does. The demand, which two programs write, has a
  version (at most `MaxExports` changes). A cache jumps to the latest version; reading in
  between is the same as syncing earlier. Lists from a synced cache do not fail.
- Node names are those of the provider's handle. `Available` reports other than
  the pool's configured number, and prices that move, are not modelled.
  `CurrentWarmGPUs` of the policy is written by the code and read by nobody, so
  of the policy's status only the demand is kept.
- Time: `settled` is the set of machines past the stabilization window; sleeps
  and requeue intervals are steps that may take arbitrarily long.
- `Fleet` bounds: a machine name is used once (`NamesUsedUp` stands for a
  provider that refuses); Xid events hit nodes that are not cordoned.
- `desiredReplicas`: for an annotation of 0 the idle timer chooses between two
  returns that both give `minReplicas`, so the timer is left out, and 0 also
  stands for a missing or unreadable annotation. In `EndpointController` the
  engine type is valid; `ReplicaStart` has the other types.
  Percentiles are kept as "set or not".
- `recordColdStarts` and `drainOldHashPods` make their calls in one step, of
  which any subset may fail: what a pod did between list and call is covered by
  the staleness of the cache.
- `ComputeSpecHash` is the one string that is hashed, as the sequence of its
  parts: the separators `|` and `,`, wherever they come from, and what is between
  them. Two specs with the same string have the same hash, as in the code;
  collisions of SHA-256 (cut to 8 bytes) are left out. `ReplicaStart` leaves
  edits of `spec.scaling`, of which no pod shows anything, to
  `EndpointController`.
- `ContainersFit` speaks of the tensor parallel size `RenderPodSpec` passes. The
  arguments of the user come after it (vllm.go:67) and may name another one.
- `K` times the demand, both floats, is cut to a whole number: `Target.k` is in
  halves, the demand in whole units, and the division rounds down.
- `Providers`: prices are 0 (unknown) or one spot price; the mutex is handed to
  any waiter; a machine name is used once; `MaxICE` bounds the refusals counted
  per process. AWS names a node `aws-<instance id>` in its handle, and `Fleet`
  takes it that nodes join under that name, which the user data does not see to.
- The gateway's EWMA is kept by its sign; `MaxInFlight` bounds the requests
  routed between two registrations.

## 3. Runs

| run | instance | shows |
|---|---|---|
| `greedy` | lists of at most two pools, numbers on both sides of each comparison | `PlanFits`, `Exhaustive`, `DominantFirst`, `PlanIsMaximal` (reference value) |
| `plane_ledger` | AWS pool with one machine, static pool with a joined node and two interchangeable placeholders, target 3, restarts, launches not answered; 0.80M states | `TypeOK`, `OneRecordPerNode`, `ProvisioningCounted`, `KeepsLedger` (refinement of `NodeLedger`) |
| `plane_drain` | AWS pool, 1 machine, demand 0/1, Xids, losses, replicas, restarts, stabilization, answers lost; 2.7M states | `BufferedNotNegative`, `ReleasedBehindCordon`, `DemandKept` |
| `plane_live` | 1 machine, launches not answered, Xids, no restarts, fair; 47k states | `JoinedIsRecorded`, `XidIsHandled` |
| `providers` | 1 pool of any kind, its secret coming and going, 1 machine, 3 workers, restarts, fair; 95k states | `ProvidersTypeOK`, `OneProviderPerPool`, `ICEsKept`, `ReleasedIsGone`, `ForPoolReturns`, `ICEReported` |
| `gateway` | 1 endpoint, 1 replica, 2 clients, deletion, restarts, fair; 156k states | `GatewayTypeOK`, `QueueNotOvercounted`, `RoutesFollowPods` |
| `endpoint` | up to 2 replicas, one edit: an upgrade, or `maxReplicas` lowered from 2 to 1; annotation 1 or 3, losses, restarts, KV writes; 5.3M states | `EndpointTypeOK`, `KVHitKept`, `CreatesAccepted`, `CreatesWithinLimits` |
| `replica` | 1 replica, 4 specs edited in any order, with the webhook and vLLM or without it and the fake engine, losses, restarts; 0.83M states | `ReplicaTypeOK`, `AdmittedBuilds`, `ContainersFit`, `RenderedFromAccepted` |
| `plane_herd` | violation of `NoDoubleProvision` | a second machine is launched before the cache shows the first |
| `plane_serving` | violation of `NeverReleaseServing` | a machine with a replica on it is terminated |
| `gateway_wake` | violation of `WakesUp` | one waiting request over a target of two asks for no replica |
| `endpoint_rollout` | violation of `RolloutCompletes` | with one replica an upgrade never starts its new replica |

Why the bounds are enough. The ledger properties are about two writers of one
record list: a launch and a discovery that overlap, and a second record that a
stale copy would drop, which the static pool has with its placeholders; the
AWS pool beside it gives plans with two entries and names that come from the
cloud. The drain properties are about one machine and all controllers. Of the
providers one pool is enough, since pools share nothing but the mutex, and one
machine, since a second worker's call for it is the interesting one. The specs
of `replica` differ from the first in the model, in fields the hash leaves out
(with arguments that differ and hash alike), and in a type that only one of
three checks lets pass; lost pods are what makes it build a second pod under an
index.
The queue needs two requests and one registration between them. Two replicas
are the least with which a new generation can exist beside the old (names
collide at one), and three the least number beyond the limit. `DemandKept` needs
two changes of the demand, so that it can come back to what was read. What
`plane_live` does not exercise are restarts and a second machine: a handler that
a restart cuts short again and again need not end, and a second machine's
discovery is the same step. Every property has a mutant of the code, listed in
`PROJECT.json`, that breaks it under these bounds, and the proofs of section 4 remove the bounds for all of them but
liveness.

Deadlock is checked in every run but `greedy`, where `Fill` returns and stops.

### Fairness

- `CapacityPlane`: watches deliver, machines that run join, each worker goes on
  (controller-runtime requeues after errors, and every `Reconcile` asks to be
  requeued), and an update that is tried again and again is accepted at times
  (strong fairness: the controllers retry with a fresh read). Nothing is assumed
  of losses, restarts, Xids or demand.
- `Providers`: a worker in a call goes on (cloud and API calls return or fail);
  a Go mutex does not starve a waiter; the pool controller requeues every pool.
- `Gateway`: the ticker and the loop go on (this takes it that a scrape of a
  replica ends, although `http.DefaultClient` has no timeout, `k8s.go:99`); a list, a registration and a patch
  that are tried at every tick work at times. Clients owe nothing.
- `EndpointController`: Reconcile comes again after ten seconds or after its
  error; conflicts and failures do not hit the same step for ever; watches
  deliver; pods start and stop in the end.

The two liveness violations are found under these assumptions, so neither rests
on a component that merely stops.

## 4. Proofs

Assumptions are the named `ASSUME`s of the modules: types of the constants,
finite sets of requests and replicas, `MinReplicas <= MaxReplicas`.

- `SchedulingProofs` has no theorem of a specification, but the lemmas the next
  ones rest on: what sums and `Fill`'s fold compute, for every length. The
  library's induction theorems take the claim as an operator, which the provers
  cannot instantiate; here the claim is a set of index sets, and a smallest
  index set outside it is shown not to exist (`SubsetInduction`, from `WFMin` on
  strict inclusion). The community folds are recursive functions, that is a
  `CHOOSE`: `FoldExists` builds one that fits, `FoldsAgree` shows it unique. A
  sum then does not depend on the order of its terms (`SumTakesOut`,
  `SumRenames`), and `FoldLeft` of `FillStep` goes over the pools from the first
  to the last (`FillRuns`).
- `GreedyProofs`: `FillTypeCorrect`, `FillFits`, `FillExhausts`,
  `FillDominantFirst`, `FillMaximal`, `FillIsPlan`, over the loop
  of `Fill`. The invariant says of the entries made so far that each belongs to
  a pool already visited and fits it, and that need left over means all visited
  pools are full. `DominantFirst` speaks of the caller's list, which the loop
  does not look at: `OrderInv` adds that the copy is a sort of that list and
  that the entries follow the copy (a new entry is made only while need is left,
  when all pools before it are full). The sort is an injection of a finite set
  into itself, hence onto, so no pool of the caller is missing from the copy, and
  one that dominates another costs strictly less (`SortLosesNothing`). `PlanIsMaximal` compares two sums: `SizeInv` says
  that the counts of the plan add up to what no longer remains, and, while
  something remains, to all that the pools passed can take; the sort permutes
  the terms of the caller's sum. `FillIsPlan` says that the loop, which stops
  once nothing remains, returns a plan of `PlansOf`, which goes over all pools:
  `RunInv` has the loop on the fold's track, and the pools after an early return
  change nothing. It ties the loop to the operator `BufferController` takes.
- `CapacityPlaneProofs`: `PlaneTypeCorrect`, `PlaneOneRecord`,
  `PlaneKeepsLedger` (the refinement of `NodeLedger`),
  `PlaneReleasedBehindCordon`, `PlaneDemandKept`. None is inductive alone. The
  invariant says of every copy a controller holds how it relates to the object
  it was read from: if the object still is the base the copy was made from, the
  copy extends it (`Revision`); a machine launched but not stored is in the copy
  and its node, if discovered meanwhile, has changed the object (`Ledger`); a
  controller past its cordon holds a node that is cordoned or gone, and no one
  removes a cordon (`Behind`); a copy of the demand is no newer than the object,
  and of the same version only if it has the same value (`SameVersion`). Each
  action is one step of the proof; the
  environment and the idle controllers are handled by frame lemmas.
- `CapacityCountProofs`, over that invariant: `PlaneProvisioningCounted`,
  `PlaneBufferedNotNegative`. The counters are compared with
  the cardinality of the sets of records they count (`Counted`), in the API, in
  the cache and in each controller's copy. For the provisioning ones that is
  direct. The buffered counter bounds no such set: the pool controller leaves
  out of its recount the records whose node is not in the cache, and leaves
  their state. It bounds the buffered records whose node has not left for good
  (`Lost`), which is enough because a record says buffered only once its node
  was in the cache (`Seen`) and a node leaves the cache only after its machine
  is gone (`CacheFollows`); neither comes back. `scaleDown` counts down after a
  sleep in which the node may be lost, so from the cordon to the release the
  counter is one more than the others need. Had `drainAndRelease` counted down
  for an absent node, as the mutant of `DrainAbsent` does, the argument fails at
  that step.
- `ProvidersProofs`: `ProvidersTypeCorrect`, `ProvidersBuiltOnce`,
  `ProvidersKeepICEs`, `ProvidersReleaseEnds`. The invariant says what the mutex
  protects: a worker owns it exactly between Lock and Unlock (`MutexHeld`), so
  its miss is still a miss when it stores what it built, and past `ForPool` it
  holds the cached object (`WorkersAgree`, `BuiltIsCached`). The refusals it
  appends are then those of the object `Capacity` reports, one ahead of what was
  returned while `ICE` is on its way (`ICEsCounted`).
- `GatewayProofs`: `GatewayTypeCorrect`, `GatewayQueue`. The counter is compared
  with the cardinality of the set of requests in service: one lemma each for a
  handler that enters, leaves or stays in service, and a registration only
  lowers the counter.
- `EndpointProofs`: `EndpointTypeCorrect`, `EndpointKeepsKVHit`,
  `EndpointCreatesAccepted`, `EndpointCreatesWithinLimits`. The invariant says
  that whatever is `fresh` agrees with the object, and that past an accepted
  update Reconcile works for the accepted spec, for a number within the accepted
  limits. Nothing bounds the pods that are there: a lowered limit leaves them.
- `ReplicaProofs`: `ReplicaTypeCorrect`, `ReplicaAdmittedBuilds`,
  `ReplicaContainersFit` and `ReplicaRendersAccepted`. A lemma maps every step to
  one of `EpNext` or a stutter, so that the invariant of `EndpointProofs` can be
  used. The invariant adds
  that each spec has the hash beside it, that a copy that is `fresh` is the
  object's spec and one past an accepted update the accepted one, that behind the
  webhook all specs are admitted ones, and that a pod was built from some spec
  with the pod's hash. That nothing follows from an equal hash is why no theorem
  says what a counted pod serves (section 5). What `BuildPod` guarantees is one
  lemma about operators.

Each of these invariants was checked by TLC on instances like those of section 3
before it was proved.

Only model-checked: the liveness properties (`JoinedIsRecorded`,
`XidIsHandled`, `RoutesFollowPods`, `ForPoolReturns`,
`ICEReported`), since the prover does not do fairness. Every invariant and every
action property of the passing runs has a theorem.

## 5. Where code and documents differ

With a run (see "findings"): double provisioning (PRD.md:454), releasing nodes
that serve (PRD.md:454), waking up (PRD.md:580), upgrades (PRD.md:319).

Met while modelling, without a run:

- `greedy.go:21` adds priority and penalised price; greedy.go:9 and PRD.md:465
  sort by the pair, priority first. A pool of priority 1 at 10 USD and one of
  priority 2 at 1 USD have the keys 11 and 3, so the code fills the second first
  and the documents the first. `DominantFirst` says only what both orders agree
  on.
- The spend ceiling, "never exceed `maxHourlyUSD`" (PRD.md:454) and "hard"
  (PRD.md:222), is not kept, and no property says it is: `spendAllowed` charges
  1 USD per node while no price is known, which it is only after a Quote, and
  machines whose status update was refused are in no counter it reads until
  their nodes join.
- "Every `Provision` failure with an ICE-class error is recorded" (PRD.md:378)
  fails: only the provider remembers it until the pool controller's next status
  update, and a restart before that loses it. Within a process it reaches the
  report (`ICEReported`).
- Buffer targets are GPUs, `countWarmGPUs` and `Fill` count nodes.
- `bootstrap.go:32` labels a node buffer-eligible as it joins, so the boot check
  of PRD.md:471 is skipped.
- `handleXidCritical` tries the release once and drops its error (PRD.md:472).
- A static placeholder is never bound to a node (`static.go:39`); provisioning
  records never time out.
- An AWS machine whose record was lost is discovered with a `static://` id and
  can then not be released.
- `Provision` is not idempotent on the offer (PRD.md:369).
- `InFlight` is never counted down (PRD.md:577); deleted endpoints stay in the
  Router and in the demand.
- Nothing deletes replicas when the desired number falls, so N→0 (PRD.md:580)
  does not happen, and an edit that lowers `maxReplicas` leaves pods above it; ready pods are counted twice, so a lost replica of several is
  not replaced.
- "No capacity dip, no downtime" (PRD.md:319) fails in a second way: an upgrade
  while two replicas are wanted puts its pod at index 1; when one is wanted again
  the old pod at index 0 is drained; a revert now counts that pod, terminating
  but ready, and drains the new one too (`endpoint_controller.go:178`).
- Changes of `resources.gpu`, `kv` or the engine image are not rolled out: they
  are not part of the hash (`endpoint_controller.go:115`). Neither are edits that
  leave the joined string as it is: arguments `["a,b"]` to `["a", "b"]`, which
  the engine reads differently, or `[]` to `[""]`; the model `m|q` without a
  quantization to `m` with `q` and the argument `|`. So a pod that counts need
  not serve the spec it counts for.
- `engine.version` is hashed but never reaches the pod: a new version rolls out
  pods with the same image (PRD.md:317); `runtime.class` is not stamped onto
  pods (PRD.md:313, PRD.md:568).
- The webhook admits an empty engine type, which the controller ignores. The
  chart deploys no ValidatingWebhookConfiguration; without one the type "VLLM"
  passes `ValidateEngineType` and fails in `Engines.Get` at every Reconcile.
- A GCP pool has no price (`hourlyUSD` is never set), and its nodes join without
  the labels the controllers look for.

## 6. Not modelled

- Price sync: its table has no reader outside its tests.
- Token authentication: a pure check of one header against the listed tokens,
  with no state and no order of steps to get wrong.
- The node agent: a stub (README.md:18) that runs pull commands in a loop and
  shares no state with the control plane.
- Metrics, CLI, Studio, SDK, charts and the end-to-end harness: write-only
  gauges, one-shot commands, views and deployment files.
- Of the KV and engine packages: `OnRestore`, `Fingerprint`, `Capabilities` and
  weight sources, which nothing calls.
- The data race on the gateway's `kvHits` map (`k8s.go:91`), whose reader, the
  Studio handler, is not modelled; several managers at once; several endpoints
  of one name; pool specs that change.

## 7. Plan

Done: the scheduler, the capacity plane and its ledger, the providers, the
gateway, the endpoint controller and the pods it renders, with the runs and
proofs above. Next, in this order:

1. `Autoscaling`: `Gateway` and `EndpointController` over one endpoint, with the
   annotation and the pods shared, instead of each being the other's
   environment.
2. Percentiles of cold starts as a function over bounded samples.
