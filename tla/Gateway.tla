------------------------------ MODULE Gateway -------------------------------
(***************************************************************************)
(* The gateway: HTTP handlers that route chat completions to replicas, and *)
(* the autoscaler loop that registers the replicas it finds, measures the  *)
(* load and writes the desired replicas.  The handlers and the loop share  *)
(* the Router, whose methods each take its lock once; between two of them  *)
(* anything may happen.                                                    *)
(***************************************************************************)
EXTENDS Integers, Sequences, FiniteSets, SequencesExt

CONSTANTS
    Endpoint,        \* the names of the CodaEndpoints
    Model,           \* the models clients may ask for
    ModelOf,         \* ModelOf[e]: spec.model.source
    Replica,         \* the addresses replicas get
    Request,         \* the handler goroutines
    MinReplicas,     \* of spec.scaling, the same for every endpoint
    MaxReplicas,
    TargetValue,
    MaxInFlight,     \* bound: requests an endpoint is sent between two registrations
    Events           \* which of these happen: "crash", "delete"

ASSUME GatewayAssumption ==
    /\ IsFiniteSet(Request) /\ IsFiniteSet(Replica)
    /\ ModelOf \in [Endpoint -> Model]
    /\ MinReplicas \in Int /\ MaxReplicas \in Int /\ TargetValue \in Int
    /\ MaxInFlight \in Nat

VARIABLES
    exists,      \* the CodaEndpoint objects there are
    live,        \* live[e]: the ready pods of e, in the gateway's cache
    desired,     \* desired[e]: the annotation desired-replicas
    demand,      \* DemandEWMA of the buffer policies is above zero
    router,      \* router[e]: the entry of Router.endpoints
    loaded,      \* the endpoints whose ewma is above zero: those that ever had load
    kvHits,      \* the endpoints with an entry in kvHits
    handler,     \* handler[r]: where the goroutine is
    sync         \* the autoscaler loop: where it is and its local variables

gwVars == <<exists, live, desired, demand, router, loaded, kvHits, handler, sync>>

Unregistered == [known |-> FALSE, urls |-> <<>>, inFlight |-> 0, queue |-> 0]
Idle == [pc |-> "idle"]
Waiting == [pc |-> "wait"]

\* A handler at pc, for endpoint e.
At(pc, e) == [pc |-> pc, e |-> e]

GatewayInit ==
    /\ exists = Endpoint
    /\ live = [e \in Endpoint |-> {}]
    /\ desired = [e \in Endpoint |-> 0]
    /\ demand = FALSE
    /\ router = [e \in Endpoint |-> Unregistered]
    /\ loaded = {} /\ kvHits = {}
    /\ handler = [r \in Request |-> Idle]
    /\ sync = Waiting

-----------------------------------------------------------------------------
(* The handlers.                                                           *)

\* PickEndpointByModel: any registered endpoint with that model or that name.
\* Without one the answer is 404 and nothing changes.
PickEndpointByModel(r, m) ==
    /\ handler[r].pc = "idle"
    /\ \E e \in Endpoint :
          /\ router[e].known /\ (ModelOf[e] = m \/ e = m)
          /\ handler' = [handler EXCEPT ![r] = At("found", e)]
    /\ UNCHANGED <<exists, live, desired, demand, router, loaded, kvHits, sync>>

IncQueue(r) ==
    /\ handler[r].pc = "found"
    /\ handler' = [handler EXCEPT ![r] = At("queued", handler[r].e)]
    /\ router' = [router EXCEPT ![handler[r].e].queue = @ + 1]
    /\ UNCHANGED <<exists, live, desired, demand, loaded, kvHits, sync>>

\* PickReplica finds no replica: the answer is 429 with Retry-After.
NoReplica(r) ==
    /\ handler[r].pc = "queued" /\ router[handler[r].e].urls = <<>>
    /\ handler' = [handler EXCEPT ![r] = At("refused", handler[r].e)]
    /\ UNCHANGED <<exists, live, desired, demand, router, loaded, kvHits, sync>>

\* PickReplica: the replicas take turns, counted by InFlight.
PickReplica(r) ==
    LET ep == router[handler[r].e]
    IN  /\ handler[r].pc = "queued" /\ ep.urls # <<>> /\ ep.inFlight < MaxInFlight
        /\ handler' = [handler EXCEPT ![r] =
                          [pc |-> "proxy", e |-> handler[r].e,
                           url |-> ep.urls[(ep.inFlight % Len(ep.urls)) + 1]]]
        /\ router' = [router EXCEPT ![handler[r].e].inFlight = @ + 1]
        /\ UNCHANGED <<exists, live, desired, demand, loaded, kvHits, sync>>

\* The replica answers, fails, or the client goes away.
ProxyEnds(r) ==
    /\ handler[r].pc = "proxy"
    /\ handler' = [handler EXCEPT ![r] = At("answered", handler[r].e)]
    /\ UNCHANGED <<exists, live, desired, demand, router, loaded, kvHits, sync>>

\* Mutant of DecQueue: a request that was refused stays in the queue.
DecQueueAnswered(r) ==
    /\ handler[r].pc \in {"refused", "answered"}
    /\ handler' = [handler EXCEPT ![r] = Idle]
    /\ router' = [router EXCEPT ![handler[r].e].queue =
                     IF @ > 0 /\ handler[r].pc = "answered" THEN @ - 1 ELSE @]
    /\ UNCHANGED <<exists, live, desired, demand, loaded, kvHits, sync>>

\* Mutant of DecQueue: it does not look whether the counter was reset.
DecQueueUnguarded(r) ==
    /\ handler[r].pc \in {"refused", "answered"}
    /\ handler' = [handler EXCEPT ![r] = Idle]
    /\ router' = [router EXCEPT ![handler[r].e].queue = @ - 1]
    /\ UNCHANGED <<exists, live, desired, demand, loaded, kvHits, sync>>

\* The deferred DecQueue.
DecQueue(r) ==
    /\ handler[r].pc \in {"refused", "answered"}
    /\ handler' = [handler EXCEPT ![r] = Idle]
    /\ router' = [router EXCEPT ![handler[r].e].queue = IF @ > 0 THEN @ - 1 ELSE @]
    /\ UNCHANGED <<exists, live, desired, demand, loaded, kvHits, sync>>

Handler(r) ==
    \/ \E m \in Model \cup Endpoint : PickEndpointByModel(r, m)
    \/ IncQueue(r) \/ NoReplica(r) \/ PickReplica(r) \/ ProxyEnds(r) \/ DecQueue(r)

-----------------------------------------------------------------------------
(* The autoscaler loop.                                                    *)

\* RunAutoscalerLoop goes on with the endpoints that are left.
NextOf(todo) == IF todo = {} THEN Waiting ELSE [pc |-> "next", todo |-> todo]

\* A tick: the endpoints are listed.
Tick ==
    /\ sync.pc = "wait" /\ exists # {}
    /\ sync' = NextOf(exists)
    /\ UNCHANGED <<exists, live, desired, demand, router, loaded, kvHits, handler>>

\* The endpoint is gone by now, or its pods cannot be listed: it is skipped.
SyncSkip(e) ==
    /\ sync.pc = "next" /\ e \in sync.todo
    /\ sync' = NextOf(sync.todo \ {e})
    /\ UNCHANGED <<exists, live, desired, demand, router, loaded, kvHits, handler>>

\* SyncEndpoint lists the pods, in the order the cache has them.
SyncList(e) ==
    /\ sync.pc = "next" /\ e \in sync.todo /\ e \in exists
    /\ \E urls \in SetToSeqs(live[e]) :
          sync' = [pc |-> "register", todo |-> sync.todo \ {e}, e |-> e, urls |-> urls]
    /\ UNCHANGED <<exists, live, desired, demand, router, loaded, kvHits, handler>>

\* Mutant of SyncRegister: a known endpoint keeps its replicas.
SyncRegisterOnce ==
    /\ sync.pc = "register"
    /\ router' = [router EXCEPT ![sync.e] =
                     [known |-> TRUE, urls |-> IF @.known THEN @.urls ELSE sync.urls,
                      inFlight |-> 0, queue |-> 0]]
    /\ UNCHANGED kvHits
    /\ sync' = [pc |-> "inflight", todo |-> sync.todo, e |-> sync.e]
    /\ UNCHANGED <<exists, live, desired, demand, loaded, handler>>

\* RegisterEndpoint puts a new entry, with zero counters, in place of the old
\* one.  A hit rate above zero, scraped from a replica, goes into kvHits and
\* into the endpoint's status.
SyncRegister ==
    /\ sync.pc = "register"
    /\ router' = [router EXCEPT ![sync.e] = [known |-> TRUE, urls |-> sync.urls,
                                             inFlight |-> 0, queue |-> 0]]
    /\ kvHits' \in IF sync.urls = <<>> THEN {kvHits} ELSE {kvHits, kvHits \cup {sync.e}}
    /\ sync' = [pc |-> "inflight", todo |-> sync.todo, e |-> sync.e]
    /\ UNCHANGED <<exists, live, desired, demand, loaded, handler>>

\* The loop reads InFlight and, later, QueueDepth.
SyncInFlight ==
    /\ sync.pc = "inflight"
    /\ sync' = [pc |-> "queue", todo |-> sync.todo, e |-> sync.e,
                load |-> router[sync.e].inFlight]
    /\ UNCHANGED <<exists, live, desired, demand, router, loaded, kvHits, handler>>

SyncQueue ==
    /\ sync.pc = "queue"
    /\ sync' = [pc |-> "scale", todo |-> sync.todo, e |-> sync.e,
                load |-> sync.load + router[sync.e].queue]
    /\ UNCHANGED <<exists, live, desired, demand, router, loaded, kvHits, handler>>

\* Evaluate: the load over the target, by default eight, rounded down, within
\* the limits, the upper one last.
Evaluate(load) ==
    LET target == IF TargetValue <= 0 THEN 8 ELSE TargetValue
        atLeast == IF load \div target < MinReplicas THEN MinReplicas ELSE load \div target
    IN  IF atLeast > MaxReplicas THEN MaxReplicas ELSE atLeast

\* Evaluate keeps the EWMA, of which only the sign matters here: it is above
\* zero once there was load.  The patch of the annotation may fail.
SyncScale ==
    /\ sync.pc = "scale"
    /\ loaded' = IF sync.load > 0 THEN loaded \cup {sync.e} ELSE loaded
    /\ desired' \in {desired, [desired EXCEPT ![sync.e] = Evaluate(sync.load)]}
    /\ sync' = [pc |-> "export", todo |-> sync.todo]
    /\ UNCHANGED <<exists, live, demand, router, kvHits, handler>>

\* exportDemand writes the total of the EWMAs; the update may be refused.
SyncExport ==
    /\ sync.pc = "export"
    /\ demand' \in {demand, loaded # {}}
    /\ sync' = NextOf(sync.todo)
    /\ UNCHANGED <<exists, live, desired, router, loaded, kvHits, handler>>

Loop ==
    \/ Tick \/ (\E e \in Endpoint : SyncSkip(e) \/ SyncList(e))
    \/ SyncRegister \/ SyncInFlight \/ SyncQueue \/ SyncScale \/ SyncExport

-----------------------------------------------------------------------------
(* Around the gateway.                                                     *)

\* A replica of an endpoint becomes ready, or stops being so.
PodChanges(e, u) ==
    /\ \A f \in Endpoint \ {e} : u \notin live[f]
    /\ live' = [live EXCEPT ![e] = IF u \in @ THEN @ \ {u} ELSE @ \cup {u}]
    /\ UNCHANGED <<exists, desired, demand, router, loaded, kvHits, handler, sync>>

EndpointDeleted(e) ==
    /\ "delete" \in Events
    /\ exists' = exists \ {e} /\ e \in exists
    /\ UNCHANGED <<live, desired, demand, router, loaded, kvHits, handler, sync>>

\* The gateway restarts: connections break, everything in memory is lost.
GatewayCrash ==
    /\ "crash" \in Events
    /\ router' = [e \in Endpoint |-> Unregistered]
    /\ loaded' = {} /\ kvHits' = {}
    /\ handler' = [r \in Request |-> Idle]
    /\ sync' = Waiting
    /\ UNCHANGED <<exists, live, desired, demand>>

GatewayNext ==
    \/ \E r \in Request : Handler(r)
    \/ Loop
    \/ \E e \in Endpoint : EndpointDeleted(e) \/ \E u \in Replica : PodChanges(e, u)
    \/ GatewayCrash

GatewaySpec == GatewayInit /\ [][GatewayNext]_gwVars

-----------------------------------------------------------------------------
\* The variables of the gateway have their types.
GatewayTypeOK ==
    /\ exists \subseteq Endpoint /\ loaded \subseteq Endpoint /\ kvHits \subseteq Endpoint
    /\ live \in [Endpoint -> SUBSET Replica] /\ desired \in [Endpoint -> Int]
    /\ demand \in BOOLEAN
    /\ router \in [Endpoint -> [known : BOOLEAN, urls : Seq(Replica), inFlight : Nat, queue : Nat]]
    /\ \A r \in Request :
          /\ handler[r].pc \in {"idle", "found", "queued", "refused", "proxy", "answered"}
          /\ handler[r].pc # "idle" => handler[r].e \in Endpoint
    /\ DOMAIN handler = Request
    /\ sync.pc \in {"wait", "next", "register", "inflight", "queue", "scale", "export"}

\* The requests between IncQueue and DecQueue on an endpoint.
Queued(e) ==
    {r \in Request : handler[r].pc \in {"queued", "refused", "proxy", "answered"}
                     /\ handler[r].e = e}

\* The queue depth the autoscaler goes by is never more than the requests that
\* are there: every path out of handleChatCompletions counts down what it has
\* counted up, also when SyncEndpoint has put a new entry with a zero counter
\* in between (server.go, IncQueue, DecQueue, RegisterEndpoint).
QueueNotOvercounted == \A e \in Endpoint : router[e].queue <= Cardinality(Queued(e))

-----------------------------------------------------------------------------
(* Fairness: the ticker ticks, the loop goes through every endpoint it     *)
(* listed, and a list or a patch that is tried for ever works at times.    *)

LoopFairness ==
    /\ WF_gwVars(Loop)
    /\ SF_gwVars(SyncScale /\ desired'[sync.e] = Evaluate(sync.load))
    /\ \A e \in Endpoint : SF_gwVars(SyncList(e))
    /\ \A e \in Endpoint : SF_gwVars(SyncRegister /\ sync.e = e)

GatewayFairSpec == GatewaySpec /\ LoopFairness

\* Replicas that stay are routed to and replicas that went are not: when the
\* ready pods of an endpoint settle, its entry keeps coming back to exactly
\* those, through failed lists, restarts and requests in flight (SyncEndpoint).
RoutesFollowPods ==
    \A e \in Endpoint : \A S \in SUBSET Replica :
        <>[](e \in exists /\ live[e] = S) => []<>(ToSet(router[e].urls) = S)

\* PRD.md:580: "0→1 wakes via buffer": an endpoint without replicas that is
\* asked for again and again gets one to start.
WakesUp ==
    \A e \in Endpoint :
        []<>(\E r \in Request : handler[r].pc = "refused" /\ handler[r].e = e)
            => <>(desired[e] >= 1)
=============================================================================
