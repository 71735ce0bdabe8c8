---------------------------- MODULE ReplicaStart ----------------------------
(***************************************************************************)
(* How a spec becomes a replica: EndpointController with the whole spec in *)
(* place of its hash.  A user's edit goes through the webhook where one is *)
(* configured; Reconcile works on the copy it has read, whose hash marks   *)
(* the pods it renders from it.  Edits of spec.scaling and the gateway's    *)
(* patches, which touch nothing a pod is rendered from, are left to        *)
(* EndpointController.                                                     *)
(***************************************************************************)
EXTENDS EndpointController, PodRendering

CONSTANTS
    Specs,       \* the specs a user writes
    FirstSpec,   \* the endpoint as it is created
    Deployments  \* ways to deploy: with or without the webhook, and an engine image

ASSUME SpecsAssumption ==
    /\ FirstSpec \in Specs /\ Handle(FirstSpec)
    /\ FirstGen = ComputeSpecHash(FirstSpec)
    /\ \A s \in Specs : ComputeSpecHash(s) \in Gen
    /\ Specs \subseteq EndpointSpec({s.model : s \in Specs}, {s.version : s \in Specs},
                                   {s.args : s \in Specs})
    /\ Edits = Wanted \X Wanted
    /\ Deployments \subseteq [webhook : BOOLEAN, image : EngineImages]

VARIABLES
    webhook,     \* whether the API server calls the admission webhook
    image,       \* CODA_ENGINE_IMAGE of the manager
    spec,        \* the spec of obj, of cobj and of Reconcile's copy
    cspec,
    rspec,
    atStatus,    \* history: the spec obj had at the last accepted status update
    rendered     \* rendered[i]: the containers of pods[i]

specVars == <<webhook, image, spec, cspec, rspec, atStatus, rendered>>
replicaVars == <<epVars, specVars>>

ReplicaInit ==
    /\ EpInit
    /\ \E d \in Deployments : webhook = d.webhook /\ image = d.image
    /\ spec = FirstSpec /\ cspec = FirstSpec /\ rspec = FirstSpec /\ atStatus = FirstSpec
    /\ rendered = [i \in Index |-> BuildPod(FirstSpec, image)]

\* A user writes a spec; the webhook has denied it or lets it pass.
EditSpec ==
    \E s \in Specs \ {spec} :
        /\ webhook => Handle(s)
        /\ Write([obj EXCEPT !.gen = ComputeSpecHash(s)])
        /\ spec' = s
        /\ UNCHANGED <<webhook, image, cspec, rspec, atStatus, rendered>>

\* Mutant of ReadSpec: the spec of the round before is kept.
ReadSpecOnce ==
    /\ ValidateEngineType(cspec)
    /\ EpRead
    /\ UNCHANGED specVars

\* Reconcile reads the endpoint; one of another engine is left alone.
ReadSpec ==
    /\ ValidateEngineType(cspec)
    /\ EpRead
    /\ rspec' = cspec
    /\ UNCHANGED <<webhook, image, spec, cspec, atStatus, rendered>>

AcceptStatus ==
    /\ EpStatus
    /\ atStatus' = spec
    /\ UNCHANGED <<webhook, image, spec, cspec, rspec, rendered>>

\* Mutant of CreatePod: the pod is rendered from the cache as it is by now.
CreatePodFromCache ==
    /\ Builds(rspec)
    /\ EpCreate
    /\ rendered' = [rendered EXCEPT ![rec.i] = BuildPod(cspec, image)]
    /\ UNCHANGED <<webhook, image, spec, cspec, rspec, atStatus>>

\* buildPod and Create.
CreatePod ==
    /\ Builds(rspec)
    /\ EpCreate
    /\ rendered' = [rendered EXCEPT ![rec.i] = BuildPod(rspec, image)]
    /\ UNCHANGED <<webhook, image, spec, cspec, rspec, atStatus>>

\* The name is taken, which shows only after buildPod.
PodExists == Builds(rspec) /\ EpExists /\ UNCHANGED specVars

DeliverSpec ==
    /\ SyncObject
    /\ cspec' = spec
    /\ UNCHANGED <<webhook, image, spec, rspec, atStatus, rendered>>

RestartManager ==
    /\ EpCrash
    /\ cspec' = spec /\ rspec' = FirstSpec
    /\ UNCHANGED <<webhook, image, spec, atStatus, rendered>>

ReplicaNext ==
    \/ EditSpec \/ ReadSpec \/ AcceptStatus \/ CreatePod \/ PodExists
    \/ DeliverSpec \/ RestartManager
    \/ (EpCountOld \/ EpColdStarts \/ EpStatusFails \/ EpCreateFails \/ EpCreated \/ EpDrain)
            /\ UNCHANGED specVars
    \/ (SyncPods \/ \E i \in Index : PodReady(i) \/ PodGone(i) \/ PodLost(i))
            /\ UNCHANGED specVars

ReplicaSpec == ReplicaInit /\ [][ReplicaNext]_replicaVars

-----------------------------------------------------------------------------
\* The spec's variables have their types, and the hashes the endpoint
\* controller works with are those of the specs it has.
ReplicaTypeOK ==
    /\ EndpointTypeOK
    /\ webhook \in BOOLEAN /\ image \in EngineImages
    /\ {spec, cspec, rspec, atStatus} \subseteq Specs
    /\ obj.gen = ComputeSpecHash(spec) /\ cobj.gen = ComputeSpecHash(cspec)
    /\ rec.pc # "idle" => rec.gen = ComputeSpecHash(rspec)
    /\ DOMAIN rendered = Index

\* A pod is rendered from the whole spec the endpoint had when the status
\* update of the same Reconcile was accepted, the fields that are not part of
\* the hash included (gpu, kv): no mixture of a pod's hash and a later or
\* earlier spec (endpoint_controller.go:75-99).
RenderedFromAccepted ==
    [][\A i \in Index : ~pods[i].there /\ pods'[i].there
          => rendered'[i] = BuildPod(atStatus, image)]_replicaVars

\* Where the webhook is configured, no Reconcile gets as far as buildPod with
\* a spec that buildPod refuses: what two other functions let pass, written
\* with other comparisons, is registered (codaendpoint_webhook.go:38,
\* vllm.go:111, endpoint_controller.go:224).
AdmittedBuilds == webhook /\ rec.pc = "create" => Builds(rspec)

\* The containers of a pod fit: the engine connects to LMCache exactly if a
\* server runs beside it, on that server's port, with the same hash seed and
\* chunk size, and a vLLM with a command line is told to spread over just the
\* GPUs it may use (buildPod, RenderPodPatch, RenderPodSpec, applyGPUScheduling).
ContainersFit ==
    \A i \in Index :
        LET e == rendered[i]
        IN  pods[i].there =>
                /\ IF e.connector = NoPort THEN e.sidecars = {}
                   ELSE \E c \in e.sidecars : c.port = e.connector /\ c.env = e.env
                /\ e.gpus > 0 /\ e.image # FakeImage => e.tensorParallel = e.gpus
=============================================================================
