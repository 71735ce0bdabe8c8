---------------------------- MODULE PodRendering ----------------------------
(***************************************************************************)
(* From the spec of a CodaEndpoint to the pod of a replica: the admission  *)
(* webhook, the engine and KV registries and what buildPod puts together   *)
(* of vLLM's container and LMCache's.  Of a container the model keeps what *)
(* its partner, the scheduler or the rollout depends on.  A string that    *)
(* goes into the hash is the sequence of its parts: the separators "," and *)
(* "|", which users may write too, and what is between them.               *)
(***************************************************************************)
EXTENDS Integers, SequencesExt

\* A CodaEndpoint's spec without its scaling.
EndpointSpec(Model, Version, Args) ==
    [model : Model, quantization : {<<>>, <<"fp8">>}, type : {"", "vllm", "VLLM", "sglang"},
     version : Version, args : Args, gpu : Int, class : {"", "runc", "gvisor"},
     snapshot : BOOLEAN, lmcache : {"absent", "off", "on"}, remote : {"", "http", "https"}]

\* Mutant of Handle: the engine type is compared as ValidateEngineType does.
HandleAnyCase(s) ==
    /\ s.snapshot => s.class \in {"", "runc"}
    /\ s.type \in {"", "vllm", "VLLM"}

\* The webhook's Handle allows the spec.
Handle(s) ==
    /\ s.snapshot => s.class \in {"", "runc"}
    /\ s.type \in {"", "vllm"}

\* The controller's own check takes every spelling, and not the empty type.
ValidateEngineType(s) == s.type \in {"vllm", "VLLM"}

\* What NewReconciler registers; Get finds exact names only.
Engines == {"vllm"}
KVProviders == {"lmcache", "null"}

\* strings.Join of the arguments with commas.
JoinArgs(args) ==
    IF args = <<>> THEN <<>>
    ELSE Head(args) \o FlattenSeq([i \in 1..(Len(args) - 1) |-> <<",">> \o args[i + 1]])

\* computeSpecHash, up to collisions of the digest.  Nothing is escaped: specs
\* that put their separators elsewhere, or no argument and an empty one, have
\* the same hash.
ComputeSpecHash(s) ==
    s.version \o <<"|">> \o s.model \o <<"|">> \o s.quantization \o <<"|">> \o JoinArgs(s.args)

-----------------------------------------------------------------------------
\* The port LMCache serves, and the one buildPod tells the engine to use: the
\* code has it at both places.
MPPort == 5555
ConnectorPort == 5555
NoPort == 0

\* vllm.New: one of the images takes no command line.
FakeImage == "fakevllm"
EngineImages == {FakeImage, "vllm-openai"}

\* The variables both containers must agree on; 0 is PYTHONHASHSEED's value.
EnvVars == {"PYTHONHASHSEED", "LMCACHE_CHUNK_SIZE"}
Unset == -1
NoPatch == [containers |-> {}, env |-> [v \in EnvVars |-> Unset]]

\* The environment RenderPodPatch gives the server, and the one of its patch
\* for vLLM, written down twice.
ServerEnv == [v \in EnvVars |-> IF v = "PYTHONHASHSEED" THEN 0 ELSE 256]
VLLMEnv == [v \in EnvVars |-> IF v = "LMCACHE_CHUNK_SIZE" THEN 256 ELSE 0]

\* The server's container: its port, its remote tier and its environment.
LMCacheServer(s) ==
    [name |-> "lmcache-server", image |-> "lmcache", port |-> MPPort,
     remote |-> IF s.remote = "" THEN "garage" ELSE s.remote, env |-> ServerEnv]

\* RenderPodPatch of the lmcache provider.
LMCachePatch(s) ==
    IF s.lmcache # "on" THEN NoPatch
    ELSE [containers |-> {LMCacheServer(s)}, env |-> VLLMEnv]

\* selectKV, and the patch of the provider it selects.
SelectKV(s) == IF s.lmcache = "on" /\ "lmcache" \in KVProviders THEN "lmcache" ELSE "null"
KVPatch(s) == IF SelectKV(s) = "lmcache" THEN LMCachePatch(s) ELSE NoPatch

\* RenderPodSpec: vLLM's container, field by field, and the sidecars beside it.
\* The patch's variables come after the engine's own and win.  The arguments of
\* the user come after the tensor parallel size and may name another one, which
\* `tensorParallel' does not show.
RenderPodSpec(s, image, patch) ==
    LET cli == image # FakeImage
    IN  [image |-> image, gpus |-> 0, connector |-> NoPort,
         model |-> IF cli THEN s.model ELSE <<>>,
         args |-> IF cli THEN s.args ELSE <<>>,
         tensorParallel |-> IF cli /\ s.gpu > 1 THEN s.gpu ELSE 1,
         env |-> [v \in EnvVars |->
                     IF patch.env[v] # Unset THEN patch.env[v]
                     ELSE IF v = "PYTHONHASHSEED" THEN 0 ELSE Unset],
         sidecars |-> patch.containers, gpuNode |-> FALSE]

\* Mutant of ApplyGPUScheduling: the limit is one per container.
ApplyOneGPU(s, p) == IF s.gpu <= 0 THEN p ELSE [p EXCEPT !.gpuNode = TRUE, !.gpus = 1]

\* applyGPUScheduling: node selector, toleration and the engine's limit.
ApplyGPUScheduling(s, p) ==
    IF s.gpu <= 0 THEN p ELSE [p EXCEPT !.gpuNode = TRUE, !.gpus = s.gpu]

\* buildPod finds an engine.
Builds(s) == s.type \in Engines

\* buildPod: the engine is told of LMCache by the endpoint's spec, also when
\* its image takes no command line.
BuildPod(s, image) ==
    LET p == RenderPodSpec(s, image, KVPatch(s))
    IN  ApplyGPUScheduling(s, IF s.lmcache = "on" THEN [p EXCEPT !.connector = ConnectorPort] ELSE p)
=============================================================================
