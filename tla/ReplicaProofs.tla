---------------------------- MODULE ReplicaProofs ---------------------------
(***************************************************************************)
(* The way from a spec to its replicas, for every set of specs, limits and *)
(* annotations.  To the endpoint controller's invariant it adds that       *)
(* hashes belong to the specs they travel with and that a pod is what      *)
(* buildPod makes of some spec with the hash it is marked with.            *)
(***************************************************************************)
EXTENDS ReplicaStart, EndpointProofs

\* Every hash is that of the spec it goes with.
HashesOK ==
    /\ obj.gen = ComputeSpecHash(spec) /\ cobj.gen = ComputeSpecHash(cspec)
    /\ rec.pc # "idle" => rec.gen = ComputeSpecHash(rspec)

\* The specs that are fresh agree with the object's, and past the status
\* update Reconcile works on the spec of that time.
SpecsOK ==
    /\ {spec, cspec, rspec, atStatus} \subseteq Specs
    /\ "cache" \in fresh => cspec = spec
    /\ "copy" \in fresh /\ rec.pc \in {"old", "cold", "status"} => rspec = spec
    /\ rec.pc = "create" => rspec = atStatus

\* What the webhook has let pass is all there is, and Reconcile only works on
\* engine types it has checked.
AdmissionOK ==
    /\ webhook \in BOOLEAN /\ image \in EngineImages
    /\ webhook => Handle(spec) /\ Handle(cspec) /\ Handle(rspec)
    /\ rec.pc # "idle" => ValidateEngineType(rspec)

\* A pod is rendered from a spec that has the pod's hash.
RenderedOK ==
    /\ DOMAIN rendered = Index
    /\ \A i \in Index : pods[i].there =>
          \E s \in Specs : rendered[i] = BuildPod(s, image) /\ pods[i].gen = ComputeSpecHash(s)

RInv == EInv /\ HashesOK /\ SpecsOK /\ AdmissionOK /\ RenderedOK

-----------------------------------------------------------------------------
\* One container fits the other, for one pod.
Fit(p) ==
    /\ IF p.connector = NoPort THEN p.sidecars = {}
       ELSE \E c \in p.sidecars : c.port = p.connector /\ c.env = p.env
    /\ p.gpus > 0 /\ p.image # FakeImage => p.tensorParallel = p.gpus

LEMMA SpecType ==
    ASSUME NEW s \in Specs
    PROVE  s.gpu \in Int /\ ComputeSpecHash(s) \in Gen
  BY SpecsAssumption DEF EndpointSpec

\* The containers that buildPod makes of a spec fit.
LEMMA BuildPodFits ==
    ASSUME NEW s \in Specs, NEW im \in EngineImages
    PROVE  Fit(BuildPod(s, im))
<1> DEFINE r == RenderPodSpec(s, im, KVPatch(s))
           port == IF s.lmcache = "on" THEN ConnectorPort ELSE NoPort
           gpus == IF s.gpu <= 0 THEN 0 ELSE s.gpu
           p == BuildPod(s, im)
<1>1. s.gpu \in Int
  BY SpecType
<1>2. /\ r.image = im /\ r.gpus = 0 /\ r.connector = NoPort /\ r.gpuNode = FALSE
      /\ im # FakeImage => r.tensorParallel = IF s.gpu > 1 THEN s.gpu ELSE 1
      /\ r.sidecars = KVPatch(s).containers
  BY DEF RenderPodSpec
<1>3. r = [image |-> im, gpus |-> 0, connector |-> NoPort, model |-> r.model, args |-> r.args,
           tensorParallel |-> r.tensorParallel, env |-> r.env, sidecars |-> r.sidecars,
           gpuNode |-> FALSE]
  BY DEF RenderPodSpec
<1>4. p = ApplyGPUScheduling(s, IF s.lmcache = "on" THEN [r EXCEPT !.connector = ConnectorPort] ELSE r)
  BY DEF BuildPod
<1>e. s.lmcache = "on" => r.env = VLLMEnv /\ KVPatch(s).containers = {LMCacheServer(s)}
  <2> SUFFICES ASSUME s.lmcache = "on"
               PROVE  r.env = VLLMEnv /\ KVPatch(s).containers = {LMCacheServer(s)}
    OBVIOUS
  <2> DEFINE e(v) == IF VLLMEnv[v] # Unset THEN VLLMEnv[v]
                     ELSE IF v = "PYTHONHASHSEED" THEN 0 ELSE Unset
  <2>1. KVPatch(s) = [containers |-> {LMCacheServer(s)}, env |-> VLLMEnv]
    BY DEF KVPatch, SelectKV, KVProviders, LMCachePatch
  <2>2. \A v \in EnvVars : VLLMEnv[v] # Unset
    BY DEF VLLMEnv, EnvVars, Unset
  <2>3. r.env = [v \in EnvVars |-> e(v)]
    BY <2>1 DEF RenderPodSpec
  <2>4. \A v \in EnvVars : e(v) = VLLMEnv[v]
    BY <2>2
  <2>5. VLLMEnv = [v \in EnvVars |-> VLLMEnv[v]]
    BY DEF VLLMEnv
  <2> HIDE DEF e
  <2> QED
    BY <2>1, <2>3, <2>4, <2>5
<1>n. s.lmcache # "on" => KVPatch(s).containers = {}
  BY DEF KVPatch, SelectKV, NoPatch
<1> HIDE DEF r
<1> DEFINE c == IF s.lmcache = "on" THEN [r EXCEPT !.connector = ConnectorPort] ELSE r
<1>c. /\ DOMAIN c = {"image", "gpus", "connector", "model", "args", "tensorParallel", "env",
                     "sidecars", "gpuNode"}
      /\ c.image = im /\ c.gpus = 0 /\ c.connector = port /\ c.model = r.model
      /\ c.args = r.args /\ c.tensorParallel = r.tensorParallel /\ c.env = r.env
      /\ c.sidecars = r.sidecars
  BY <1>3
<1> HIDE DEF c
<1>5. /\ p.image = im /\ p.gpus = gpus /\ p.connector = port /\ p.model = r.model
      /\ p.args = r.args /\ p.tensorParallel = r.tensorParallel /\ p.env = r.env
      /\ p.sidecars = r.sidecars
  <2>1. p = ApplyGPUScheduling(s, c)
    BY <1>4 DEF c
  <2>2. CASE s.gpu <= 0
    BY <1>1, <1>c, <2>1, <2>2 DEF ApplyGPUScheduling
  <2>3. CASE ~(s.gpu <= 0)
    BY <1>1, <1>c, <2>1, <2>3 DEF ApplyGPUScheduling
  <2> QED
    BY <2>2, <2>3
<1> HIDE DEF p
<1>6. LMCacheServer(s).port = ConnectorPort /\ LMCacheServer(s).env = VLLMEnv
  <2>1. \A v \in EnvVars : (IF v = "PYTHONHASHSEED" THEN 0 ELSE 256)
                              = (IF v = "LMCACHE_CHUNK_SIZE" THEN 256 ELSE 0)
    BY DEF EnvVars
  <2>2. ServerEnv = VLLMEnv
    BY <2>1 DEF ServerEnv, VLLMEnv
  <2> QED
    BY <2>2 DEF LMCacheServer, MPPort, ConnectorPort
<1>p. ConnectorPort # NoPort
  BY DEF ConnectorPort, NoPort
<1>7. IF p.connector = NoPort THEN p.sidecars = {}
      ELSE \E d \in p.sidecars : d.port = p.connector /\ d.env = p.env
  BY <1>2, <1>5, <1>6, <1>p, <1>e, <1>n
<1>8. p.gpus > 0 /\ p.image # FakeImage => p.tensorParallel = p.gpus
  BY <1>1, <1>2, <1>5
<1> QED
  BY <1>2, <1>5, <1>7, <1>8 DEF Fit, p

-----------------------------------------------------------------------------
\* Reconcile's local variables where it creates and where it marks pods.
LEMMA MoreType ==
    ASSUME EInv, More
    PROVE  /\ rec.i \in Index /\ rec.pc = "create"
           /\ [rec EXCEPT !.i = @ + 1].gen = rec.gen /\ [rec EXCEPT !.i = @ + 1].pc = rec.pc
<1>1. rec \in [pc : {"create"}, gen : Gen, desired : 0..MostReplicas, ready : Nat, old : Nat, i : Nat]
  BY DEF EInv, EndpointTypeOK, More, Local, RecIdle
<1>2. rec.i \in Index
  BY <1>1, EndpointAssumption DEF More, Index
<1> QED
  BY <1>1, <1>2

LEMMA ColdType ==
    ASSUME EInv, EpColdStarts
    PROVE  rec'.pc = "status" /\ rec'.gen = rec.gen
<1>1. rec \in [pc : {"cold", "status"}, gen : Gen, desired : 0..MostReplicas, ready : Nat,
               starting : Nat, kv : BOOLEAN, cold : BOOLEAN, old : Nat]
  BY DEF EInv, EndpointTypeOK, EpColdStarts, Local, RecIdle
<1> QED
  BY <1>1 DEF EpColdStarts

\* Every step is one of the endpoint controller: an edit of a spec is an edit
\* of its hash that leaves its scaling, or of nothing that shows but the version.
LEMMA StepImplements == ASSUME RInv, [ReplicaNext]_replicaVars PROVE [EpNext]_epVars
<1>1. CASE EditSpec
  <2>1. PICK s \in Specs : Write([obj EXCEPT !.gen = ComputeSpecHash(s)])
    BY <1>1 DEF EditSpec
  <2> DEFINE w == [gen |-> ComputeSpecHash(s), scaling |-> obj.scaling]
  <2>2. WantedOf(obj) \in Wanted /\ w \in Wanted /\ obj \in Object
    BY SpecType DEF RInv, EInv, EndpointTypeOK, Object, Wanted, WantedOf
  <2>3. <<WantedOf(obj), w>> \in Edits
    BY <2>2, SpecsAssumption
  <2>4. [obj EXCEPT !.gen = w.gen, !.scaling = w.scaling] = [obj EXCEPT !.gen = ComputeSpecHash(s)]
    BY <2>2 DEF Object
  <2>5. Write([obj EXCEPT !.gen = w.gen, !.scaling = w.scaling])
    BY <2>1, <2>4
  <2>6. SpecEdit
    BY <2>2, <2>3, <2>5 DEF SpecEdit
  <2> QED
    BY <2>6 DEF EpNext
<1>2. CASE ReplicaNext /\ ~EditSpec
  BY <1>2 DEF ReplicaNext, ReadSpec, AcceptStatus, CreatePod, PodExists, DeliverSpec, RestartManager,
     EpNext, Reconcile
<1>3. CASE UNCHANGED replicaVars
  BY <1>3 DEF replicaVars
<1> QED
  BY <1>1, <1>2, <1>3

LEMMA RInvInit == ReplicaInit => RInv
<1> SUFFICES ASSUME ReplicaInit PROVE RInv
  OBVIOUS
<1>1. EInv
  BY EInvInit DEF ReplicaInit
<1>2. HashesOK /\ SpecsOK /\ AdmissionOK
  BY SpecsAssumption DEF ReplicaInit, EpInit, HashesOK, SpecsOK, AdmissionOK, RecIdle
<1>3. RenderedOK
  BY DEF ReplicaInit, EpInit, RenderedOK, NoPod
<1> QED
  BY <1>1, <1>2, <1>3 DEF RInv
LEMMA RInvNext == RInv /\ [ReplicaNext]_replicaVars => RInv'
<1> SUFFICES ASSUME RInv, [ReplicaNext]_replicaVars PROVE RInv'
  OBVIOUS
<1>0. EInv'
  BY StepImplements, EInvNext DEF RInv
<1>s. /\ {spec, cspec, rspec, atStatus} \subseteq Specs
      /\ obj \in Object /\ pods \in [Index -> Pod] /\ NoPod.there = FALSE
  BY DEF RInv, SpecsOK, EInv, EndpointTypeOK, NoPod
\* A step that keeps the specs and the pods that are there, or fewer of them.
<1>k. ASSUME UNCHANGED specVars, UNCHANGED <<obj, cobj>>,
             fresh' = fresh,
             rec' = RecIdle \/ (rec.pc # "idle" /\ rec'.gen = rec.gen
                                /\ (rec'.pc = "create" => rec.pc = "create")
                                /\ (rec'.pc \in {"old", "cold", "status"}
                                       => rec.pc \in {"old", "cold", "status"}))
                            \/ rec' = rec,
             \A i \in Index : pods'[i].there => pods[i].there /\ pods'[i].gen = pods[i].gen
      PROVE  HashesOK' /\ SpecsOK' /\ AdmissionOK' /\ RenderedOK'
  <2>1. HashesOK' /\ SpecsOK' /\ AdmissionOK'
    BY <1>k DEF RInv, HashesOK, SpecsOK, AdmissionOK, specVars, RecIdle
  <2>2. RenderedOK'
    BY <1>k DEF RInv, RenderedOK, specVars
  <2> QED
    BY <2>1, <2>2
<1>1. CASE EditSpec
  <2>1. PICK s \in Specs : /\ webhook => Handle(s)
                           /\ Write([obj EXCEPT !.gen = ComputeSpecHash(s)]) /\ spec' = s
                           /\ UNCHANGED <<webhook, image, cspec, rspec, atStatus, rendered>>
    BY <1>1 DEF EditSpec
  <2>2. obj'.gen = ComputeSpecHash(s) /\ fresh' = {} /\ UNCHANGED <<cobj, pods, rec>>
    BY <1>s, <2>1 DEF Write, Object
  <2> QED
    BY <1>0, <2>1, <2>2 DEF RInv, HashesOK, SpecsOK, AdmissionOK, RenderedOK
<1>2. CASE ReadSpec
  <2>1. /\ ValidateEngineType(cspec) /\ rspec' = cspec
        /\ UNCHANGED <<webhook, image, spec, cspec, atStatus, rendered, obj, cobj, pods>>
        /\ rec'.pc = "old" /\ rec'.gen = cobj.gen
        /\ "copy" \in fresh' => "cache" \in fresh
        /\ "cache" \in fresh' => "cache" \in fresh
    BY <1>2 DEF ReadSpec, EpRead
  <2> QED
    BY <1>0, <2>1 DEF RInv, HashesOK, SpecsOK, AdmissionOK, RenderedOK
<1>3. CASE AcceptStatus
  <2>1. /\ atStatus' = spec /\ fresh' = {} /\ rspec = spec
        /\ UNCHANGED <<webhook, image, spec, cspec, rspec, rendered, cobj, pods>>
        /\ obj'.gen = obj.gen /\ rec' = AfterStatus /\ rec.pc = "status"
    BY <1>3, <1>s DEF AcceptStatus, EpStatus, RInv, SpecsOK, Object
  <2>2. AfterStatus.pc \in {"idle", "create"} /\ (AfterStatus.pc # "idle" => AfterStatus.gen = rec.gen)
    BY DEF AfterStatus, RecIdle
  <2> QED
    BY <1>0, <2>1, <2>2 DEF RInv, HashesOK, SpecsOK, AdmissionOK, RenderedOK
<1>4. CASE CreatePod
  <2>1. /\ rec.pc = "create" /\ rec.i \in Index /\ rec' = [rec EXCEPT !.i = @ + 1]
        /\ pods' = [pods EXCEPT ![rec.i] = NewPod(rec.gen)]
        /\ UNCHANGED <<obj, cobj, fresh, webhook, image, spec, cspec, rspec, atStatus>>
        /\ rendered' = [rendered EXCEPT ![rec.i] = BuildPod(rspec, image)]
    BY <1>4, MoreType DEF CreatePod, EpCreate, More, RInv
  <2>2. rec'.pc = "create" /\ rec'.gen = rec.gen /\ NewPod(rec.gen).gen = ComputeSpecHash(rspec)
    BY <1>4, <2>1, MoreType DEF RInv, HashesOK, NewPod, NoPod, CreatePod, EpCreate
  <2>3. RenderedOK'
    BY <1>s, <2>1, <2>2 DEF RInv, RenderedOK
  <2> QED
    BY <1>0, <2>1, <2>2, <2>3 DEF RInv, HashesOK, SpecsOK, AdmissionOK
<1>5. CASE PodExists
  <2>1. rec'.pc = "create" /\ rec.pc = "create" /\ rec'.gen = rec.gen
    BY <1>5, MoreType DEF PodExists, EpExists, More, RInv
  <2> QED
    BY <1>0, <1>5, <1>k, <2>1 DEF PodExists, EpExists, RInv
<1>6. CASE DeliverSpec
  BY <1>0, <1>6 DEF DeliverSpec, SyncObject, RInv, HashesOK, SpecsOK, AdmissionOK, RenderedOK
<1>7. CASE RestartManager
  BY <1>0, <1>7, SpecsAssumption
  DEF RestartManager, EpCrash, RInv, HashesOK, SpecsOK, AdmissionOK, RenderedOK, RecIdle
<1>8. CASE (EpCountOld \/ EpStatusFails \/ EpCreateFails \/ EpCreated) /\ UNCHANGED specVars
  <2>1. rec' = RecIdle \/ (rec.pc # "idle" /\ rec'.gen = rec.gen /\ rec'.pc # "create"
                           /\ (rec'.pc \in {"old", "cold", "status"} => rec.pc = "old"))
    BY <1>8 DEF EpCountOld, EpStatusFails, EpCreateFails, EpCreated
  <2>2. UNCHANGED <<obj, cobj, pods, fresh>>
    BY <1>8 DEF EpCountOld, EpStatusFails, EpCreateFails, EpCreated
  <2> QED
    BY <1>0, <1>8, <1>k, <2>1, <2>2 DEF RInv
<1>9. CASE EpColdStarts /\ UNCHANGED specVars
  <2>1. rec'.pc = "status" /\ rec.pc = "cold" /\ rec'.gen = rec.gen
    BY <1>9, ColdType DEF EpColdStarts, RInv
  <2>2. \A i \in Index : pods'[i].there => pods[i].there /\ pods'[i].gen = pods[i].gen
    BY <1>9, <1>s DEF EpColdStarts, Pod
  <2>3. UNCHANGED <<obj, cobj, fresh>>
    BY <1>9 DEF EpColdStarts
  <2> QED
    BY <1>0, <1>9, <1>k, <2>1, <2>2, <2>3 DEF RInv
<1>10. CASE EpDrain /\ UNCHANGED specVars
  <2>2. \A i \in Index : pods'[i].there => pods[i].there /\ pods'[i].gen = pods[i].gen
    BY <1>10, <1>s DEF EpDrain, Pod
  <2>3. rec' = RecIdle /\ UNCHANGED <<obj, cobj, fresh>>
    BY <1>10 DEF EpDrain
  <2> QED
    BY <1>0, <1>10, <1>k, <2>2, <2>3 DEF RInv
<1>11. CASE SyncPods /\ UNCHANGED specVars
  BY <1>0, <1>11, <1>k DEF SyncPods, RInv
<1>12. ASSUME NEW i \in Index, PodReady(i) \/ PodGone(i) \/ PodLost(i), UNCHANGED specVars PROVE RInv'
  <2>1. PICK p \in {[pods[i] EXCEPT !.ready = TRUE], NoPod} : pods' = [pods EXCEPT ![i] = p]
    BY <1>12 DEF PodReady, PodGone, PodLost, PodStep
  <2>2. pods[i].there /\ UNCHANGED <<obj, cobj, fresh, rec>>
    BY <1>12 DEF PodReady, PodGone, PodLost, PodStep
  <2>3. \A j \in Index : pods'[j].there => pods[j].there /\ pods'[j].gen = pods[j].gen
    BY <1>s, <2>1, <2>2 DEF Pod
  <2> QED
    BY <1>0, <1>12, <1>k, <2>2, <2>3 DEF RInv
<1>13. CASE UNCHANGED replicaVars
  BY <1>0, <1>13 DEF replicaVars, epVars, specVars, RInv, HashesOK, SpecsOK, AdmissionOK, RenderedOK
<1> QED
  BY <1>1, <1>2, <1>3, <1>4, <1>5, <1>6, <1>7, <1>8, <1>9, <1>10, <1>11, <1>12, <1>13
  DEF ReplicaNext

LEMMA RInvAlways == ReplicaSpec => []RInv
  BY RInvInit, RInvNext, PTL DEF ReplicaSpec

-----------------------------------------------------------------------------
\* The hashes of the endpoint, of its cached copy and of a running Reconcile
\* are those of the specs they go with.
THEOREM ReplicaTypeCorrect == ReplicaSpec => []ReplicaTypeOK
<1>1. RInv => ReplicaTypeOK
  BY DEF RInv, EInv, HashesOK, SpecsOK, AdmissionOK, RenderedOK, ReplicaTypeOK
<1> QED
  BY <1>1, RInvAlways, PTL

\* Whatever the webhook admits and Reconcile goes on with, buildPod builds.
THEOREM ReplicaAdmittedBuilds == ReplicaSpec => []AdmittedBuilds
<1>1. RInv => AdmittedBuilds
  BY DEF RInv, AdmissionOK, AdmittedBuilds, Handle, ValidateEngineType, Builds, Engines
<1> QED
  BY <1>1, RInvAlways, PTL

\* The containers of every pod fit, for every spec.
THEOREM ReplicaContainersFit == ReplicaSpec => []ContainersFit
<1>1. RInv => ContainersFit
  <2> SUFFICES ASSUME RInv, NEW i \in Index, pods[i].there PROVE Fit(rendered[i])
    BY DEF ContainersFit, Fit
  <2>1. PICK s \in Specs : rendered[i] = BuildPod(s, image)
    BY DEF RInv, RenderedOK
  <2>2. image \in EngineImages
    BY DEF RInv, AdmissionOK
  <2> QED
    BY <2>1, <2>2, BuildPodFits
<1> QED
  BY <1>1, RInvAlways, PTL

\* A pod is rendered from the spec of the accepted status update as a whole.
THEOREM ReplicaRendersAccepted == ReplicaSpec => RenderedFromAccepted
<1> DEFINE OK(i) == ~pods[i].there /\ pods'[i].there => rendered'[i] = BuildPod(atStatus, image)
<1>1. RInv /\ [ReplicaNext]_replicaVars => [\A i \in Index : OK(i)]_replicaVars
  <2> SUFFICES ASSUME RInv, ReplicaNext, NEW i \in Index PROVE OK(i)
    BY DEF replicaVars
  <2>0. pods \in [Index -> Pod] /\ DOMAIN rendered = Index /\ NoPod.there = FALSE
    BY DEF RInv, EInv, EndpointTypeOK, RenderedOK, NoPod
  <2>1. CASE CreatePod
    <3>1. rspec = atStatus /\ rec.i \in Index
      BY <2>1, MoreType DEF CreatePod, EpCreate, More, RInv, SpecsOK
    <3> QED
      BY <2>0, <2>1, <3>1 DEF CreatePod, EpCreate
  <2>2. CASE EditSpec \/ ReadSpec \/ AcceptStatus \/ PodExists \/ DeliverSpec \/ RestartManager
    BY <2>2 DEF EditSpec, Write, ReadSpec, EpRead, AcceptStatus, EpStatus, PodExists, EpExists,
       DeliverSpec, SyncObject, RestartManager, EpCrash
  <2>3. CASE EpCountOld \/ EpStatusFails \/ EpCreateFails \/ EpCreated \/ SyncPods
    BY <2>3 DEF EpCountOld, EpStatusFails, EpCreateFails, EpCreated, SyncPods
  <2>4. CASE EpColdStarts \/ EpDrain
    BY <2>0, <2>4 DEF EpColdStarts, EpDrain, Pod
  <2>5. ASSUME NEW j \in Index, PodReady(j) \/ PodGone(j) \/ PodLost(j) PROVE OK(i)
    <3>1. pods[j].there /\ \E p : pods' = [pods EXCEPT ![j] = p]
      BY <2>5 DEF PodReady, PodGone, PodLost, PodStep
    <3> QED
      BY <2>0, <3>1
  <2> QED
    BY <2>1, <2>2, <2>3, <2>4, <2>5 DEF ReplicaNext
<1> QED
  BY <1>1, RInvAlways, PTL DEF ReplicaSpec, RenderedFromAccepted
=============================================================================
