--------------------------- MODULE GatewayProofs ----------------------------
(***************************************************************************)
(* The types and the queue depth of the gateway, for every number of       *)
(* endpoints, requests and replicas.  QueueNotOvercounted is inductive     *)
(* once the handlers and the loop are known to hold endpoints: a new       *)
(* registration only makes the counter smaller, and what a handler counts  *)
(* down is at most its own.                                                *)
(***************************************************************************)
EXTENDS Gateway, FiniteSetTheorems, TLAPS

\* What the loop holds at each of its places.
LoopOK ==
    /\ sync.pc \in {"next", "register", "inflight", "queue", "scale", "export"}
          => sync.todo \subseteq Endpoint
    /\ sync.pc \in {"register", "inflight", "queue", "scale"} => sync.e \in Endpoint
    /\ sync.pc = "register" => sync.urls \in Seq(Replica)
    /\ sync.pc \in {"queue", "scale"} => sync.load \in Nat

\* The type invariant made inductive.
TInv == GatewayTypeOK /\ LoopOK

\* Evaluate gives a number.
LEMMA EvaluateType == ASSUME NEW load \in Nat PROVE Evaluate(load) \in Int
<1> DEFINE target == IF TargetValue <= 0 THEN 8 ELSE TargetValue
<1>1. TargetValue \in Int /\ MinReplicas \in Int /\ MaxReplicas \in Int
  BY GatewayAssumption
<1>2. target \in Nat \ {0}
  BY <1>1
<1> HIDE DEF target
<1>3. load \div target \in Int
  BY <1>2
<1> QED
  BY <1>1, <1>3 DEF Evaluate, target

\* The lists SyncEndpoint makes are lists of replicas.
LEMMA UrlsType ==
    ASSUME NEW S \in SUBSET Replica, NEW urls \in SetToSeqs(S)
    PROVE  urls \in Seq(Replica)
<1>1. IsFiniteSet(S)
  BY FS_Subset, GatewayAssumption
<1>2. Cardinality(S) \in Nat
  BY <1>1, FS_CardinalityType
<1>3. urls \in [1..Cardinality(S) -> S]
  BY DEF SetToSeqs
<1>4. urls \in [1..Cardinality(S) -> Replica]
  BY <1>3
<1> QED
  BY <1>2, <1>4

\* The loop goes on with what is left, or waits.
LEMMA NextOfOK ==
    ASSUME NEW todo \in SUBSET Endpoint, sync' = NextOf(todo)
    PROVE  LoopOK' /\ sync'.pc \in {"wait", "next"}
<1>1. CASE todo = {}
  BY <1>1 DEF NextOf, Waiting, LoopOK
<1>2. CASE todo # {}
  BY <1>2 DEF NextOf, LoopOK
<1> QED
  BY <1>1, <1>2

\* An entry of the router, and what counting does to it.
Counters == [known : BOOLEAN, urls : Seq(Replica), inFlight : Nat, queue : Nat]

LEMMA CountType ==
    ASSUME NEW f \in [Endpoint -> Counters], NEW e \in Endpoint, NEW n \in Nat
    PROVE  /\ [f EXCEPT ![e].queue = n] \in [Endpoint -> Counters]
           /\ [f EXCEPT ![e].inFlight = n] \in [Endpoint -> Counters]
<1>1. f[e] \in Counters
  OBVIOUS
<1>2. [f[e] EXCEPT !.queue = n] \in Counters
  BY <1>1 DEF Counters
<1>3. [f[e] EXCEPT !.inFlight = n] \in Counters
  BY <1>1 DEF Counters
<1> QED
  BY <1>2, <1>3

LEMMA TInvInit == GatewayInit => TInv
<1> SUFFICES ASSUME GatewayInit PROVE TInv
  OBVIOUS
<1>1. router \in [Endpoint -> [known : BOOLEAN, urls : Seq(Replica), inFlight : Nat, queue : Nat]]
  BY DEF GatewayInit, Unregistered
<1>2. live \in [Endpoint -> SUBSET Replica] /\ desired \in [Endpoint -> Int]
  BY DEF GatewayInit
<1> QED
  BY <1>1, <1>2 DEF GatewayInit, TInv, GatewayTypeOK, LoopOK, Unregistered, Idle, Waiting

\* A handler keeps the types.
LEMMA TInvHandler == ASSUME TInv, NEW r \in Request, Handler(r) PROVE TInv'
<1>0. router \in [Endpoint -> Counters]
  BY DEF TInv, GatewayTypeOK, Counters
<1>1. CASE \E m \in Model \cup Endpoint : PickEndpointByModel(r, m)
  BY <1>1 DEF PickEndpointByModel, TInv, GatewayTypeOK, LoopOK, At
<1>2. CASE IncQueue(r)
  <2> DEFINE n == router[handler[r].e].queue + 1
  <2>a. handler[r].e \in Endpoint
    BY <1>2 DEF IncQueue, TInv, GatewayTypeOK
  <2>b. n \in Nat
    BY <1>0, <2>a DEF Counters
  <2>c. router' = [router EXCEPT ![handler[r].e].queue = n]
    BY <1>2 DEF IncQueue
  <2> HIDE DEF n
  <2>1. router' \in [Endpoint -> Counters]
    BY <1>0, <2>a, <2>b, <2>c, CountType
  <2> QED
    BY <1>2, <2>1 DEF IncQueue, TInv, GatewayTypeOK, LoopOK, At, Counters
<1>3. CASE NoReplica(r)
  BY <1>3 DEF NoReplica, TInv, GatewayTypeOK, LoopOK, At
<1>4. CASE PickReplica(r)
  <2> DEFINE n == router[handler[r].e].inFlight + 1
  <2>a. handler[r].e \in Endpoint
    BY <1>4 DEF PickReplica, TInv, GatewayTypeOK
  <2>b. n \in Nat
    BY <1>0, <2>a DEF Counters
  <2>c. router' = [router EXCEPT ![handler[r].e].inFlight = n]
    BY <1>4 DEF PickReplica
  <2> HIDE DEF n
  <2>1. router' \in [Endpoint -> Counters]
    BY <1>0, <2>a, <2>b, <2>c, CountType
  <2>2. PICK u : handler' = [handler EXCEPT ![r] = [pc |-> "proxy", e |-> handler[r].e, url |-> u]]
    BY <1>4 DEF PickReplica
  <2>3. handler[r].e \in Endpoint
    BY <1>4 DEF PickReplica, TInv, GatewayTypeOK
  <2>4. UNCHANGED <<exists, live, desired, demand, loaded, kvHits, sync>>
    BY <1>4 DEF PickReplica
  <2> QED
    BY <2>1, <2>2, <2>3, <2>4 DEF TInv, GatewayTypeOK, LoopOK, Counters
<1>5. CASE ProxyEnds(r)
  BY <1>5 DEF ProxyEnds, TInv, GatewayTypeOK, LoopOK, At
<1>6. CASE DecQueue(r)
  <2> DEFINE n == (IF router[handler[r].e].queue > 0 THEN router[handler[r].e].queue - 1
                ELSE router[handler[r].e].queue)
  <2>a. handler[r].e \in Endpoint
    BY <1>6 DEF DecQueue, TInv, GatewayTypeOK
  <2>b. n \in Nat
    BY <1>0, <2>a DEF Counters
  <2>c. router' = [router EXCEPT ![handler[r].e].queue = n]
    BY <1>6 DEF DecQueue
  <2> HIDE DEF n
  <2>1. router' \in [Endpoint -> Counters]
    BY <1>0, <2>a, <2>b, <2>c, CountType
  <2> QED
    BY <1>6, <2>1 DEF DecQueue, TInv, GatewayTypeOK, LoopOK, Idle, Counters
<1> QED
  BY <1>1, <1>2, <1>3, <1>4, <1>5, <1>6 DEF Handler

\* So does the loop.
LEMMA TInvLoop == ASSUME TInv, Loop PROVE TInv'
<1>1. CASE Tick
  BY <1>1, NextOfOK DEF Tick, TInv, GatewayTypeOK
<1>2. ASSUME NEW e \in Endpoint, SyncSkip(e) PROVE TInv'
  <2>1. sync.todo \ {e} \in SUBSET Endpoint
    BY <1>2 DEF SyncSkip, TInv, LoopOK
  <2> QED
    BY <1>2, <2>1, NextOfOK DEF SyncSkip, TInv, GatewayTypeOK
<1>3. ASSUME NEW e \in Endpoint, SyncList(e) PROVE TInv'
  <2>1. PICK urls \in SetToSeqs(live[e]) :
           sync' = [pc |-> "register", todo |-> sync.todo \ {e}, e |-> e, urls |-> urls]
    BY <1>3 DEF SyncList
  <2>2. urls \in Seq(Replica)
    BY UrlsType, live[e] \in SUBSET Replica DEF TInv, GatewayTypeOK
  <2>3. sync.todo \subseteq Endpoint
    BY <1>3 DEF SyncList, TInv, LoopOK
  <2>4. UNCHANGED <<exists, live, desired, demand, router, loaded, kvHits, handler>>
    BY <1>3 DEF SyncList
  <2> QED
    BY <2>1, <2>2, <2>3, <2>4 DEF TInv, GatewayTypeOK, LoopOK
<1>4. CASE SyncRegister
  BY <1>4 DEF SyncRegister, TInv, GatewayTypeOK, LoopOK
<1>5. CASE SyncInFlight
  <2>1. router[sync.e].inFlight \in Nat
    BY <1>5 DEF SyncInFlight, TInv, GatewayTypeOK, LoopOK
  <2> QED
    BY <1>5, <2>1 DEF SyncInFlight, TInv, GatewayTypeOK, LoopOK
<1>6. CASE SyncQueue
  <2>1. sync.load + router[sync.e].queue \in Nat
    BY <1>6 DEF SyncQueue, TInv, GatewayTypeOK, LoopOK
  <2> QED
    BY <1>6, <2>1 DEF SyncQueue, TInv, GatewayTypeOK, LoopOK
<1>7. CASE SyncScale
  <2>1. sync.e \in Endpoint /\ Evaluate(sync.load) \in Int
    BY <1>7, EvaluateType DEF SyncScale, TInv, LoopOK
  <2>2. desired' \in [Endpoint -> Int]
    BY <1>7, <2>1 DEF SyncScale, TInv, GatewayTypeOK
  <2>3. loaded' \subseteq Endpoint
    BY <1>7, <2>1 DEF SyncScale, TInv, GatewayTypeOK
  <2> QED
    BY <1>7, <2>2, <2>3 DEF SyncScale, TInv, GatewayTypeOK, LoopOK
<1>8. CASE SyncExport
  <2>1. sync.todo \in SUBSET Endpoint
    BY <1>8 DEF SyncExport, TInv, LoopOK
  <2>2. demand' \in BOOLEAN
    BY <1>8 DEF SyncExport, TInv, GatewayTypeOK
  <2> QED
    BY <1>8, <2>1, <2>2, NextOfOK DEF SyncExport, TInv, GatewayTypeOK
<1> QED
  BY <1>1, <1>2, <1>3, <1>4, <1>5, <1>6, <1>7, <1>8 DEF Loop

\* Deleting an endpoint, a pod that changes and a restart keep the types.
LEMMA TInvOther ==
    ASSUME TInv,
           \/ \E e \in Endpoint : EndpointDeleted(e) \/ \E u \in Replica : PodChanges(e, u)
           \/ GatewayCrash
    PROVE  TInv'
<1>1. ASSUME NEW e \in Endpoint, EndpointDeleted(e) PROVE TInv'
  BY <1>1 DEF EndpointDeleted, TInv, GatewayTypeOK, LoopOK
<1>2. ASSUME NEW e \in Endpoint, NEW u \in Replica, PodChanges(e, u) PROVE TInv'
  BY <1>2 DEF PodChanges, TInv, GatewayTypeOK, LoopOK
<1>3. CASE GatewayCrash
  <2>1. router' \in [Endpoint -> [known : BOOLEAN, urls : Seq(Replica), inFlight : Nat, queue : Nat]]
    BY <1>3 DEF GatewayCrash, Unregistered
  <2> QED
    BY <1>3, <2>1 DEF GatewayCrash, TInv, GatewayTypeOK, LoopOK, Idle, Waiting
<1> QED
  BY <1>1, <1>2, <1>3

\* The gateway keeps its types, whatever the number of endpoints, replicas
\* and requests, and the counters of the Router never go below zero: DecQueue
\* looks before it counts down (server.go).
THEOREM GatewayTypeCorrect == GatewaySpec => []GatewayTypeOK
<1>1. TInv /\ [GatewayNext]_gwVars => TInv'
  <2> SUFFICES ASSUME TInv, [GatewayNext]_gwVars PROVE TInv'
    OBVIOUS
  <2>1. CASE UNCHANGED gwVars
    BY <2>1 DEF gwVars, TInv, GatewayTypeOK, LoopOK
  <2> QED
    BY <2>1, TInvHandler, TInvLoop, TInvOther DEF GatewayNext
<1>2. TInv => GatewayTypeOK
  BY DEF TInv
<1> QED
  BY <1>1, <1>2, TInvInit, PTL DEF GatewaySpec

-----------------------------------------------------------------------------
(* The queue depth.                                                        *)

InService == {"queued", "refused", "proxy", "answered"}

LEMMA QueuedFinite ==
    ASSUME NEW e
    PROVE  /\ IsFiniteSet(Queued(e)) /\ IsFiniteSet(Queued(e)')
           /\ Cardinality(Queued(e)) \in Nat /\ Cardinality(Queued(e)') \in Nat
<1>1. Queued(e) \in SUBSET Request /\ Queued(e)' \in SUBSET Request
  BY DEF Queued
<1> QED
  BY <1>1, FS_Subset, FS_CardinalityType, GatewayAssumption

\* A handler that stays in service, or stays out of it, queues nothing.
LEMMA QueuedSame ==
    ASSUME TInv, NEW r \in Request, NEW h, handler' = [handler EXCEPT ![r] = h],
           (h.pc \in InService) = (handler[r].pc \in InService),
           h.pc \in InService => h.e = handler[r].e,
           NEW e
    PROVE  Queued(e)' = Queued(e)
<1>1. DOMAIN handler = Request
  BY DEF TInv, GatewayTypeOK
<1> QED
  BY <1>1 DEF Queued, InService

\* A handler that enters service queues at its endpoint and nowhere else.
LEMMA QueuedEnters ==
    ASSUME TInv, NEW r \in Request, NEW h, handler' = [handler EXCEPT ![r] = h],
           handler[r].pc \notin InService, h.pc \in InService, NEW e
    PROVE  Cardinality(Queued(e)') = Cardinality(Queued(e)) + (IF h.e = e THEN 1 ELSE 0)
<1>1. DOMAIN handler = Request
  BY DEF TInv, GatewayTypeOK
<1>2. CASE h.e = e
  <2>1. Queued(e)' = Queued(e) \cup {r} /\ r \notin Queued(e)
    BY <1>1, <1>2 DEF Queued, InService
  <2> QED
    BY <1>2, <2>1, QueuedFinite, FS_AddElement
<1>3. CASE h.e # e
  <2>1. Queued(e)' = Queued(e)
    BY <1>1, <1>3 DEF Queued, InService
  <2> QED
    BY <1>3, <2>1, QueuedFinite
<1> QED
  BY <1>2, <1>3

\* A handler that leaves service was queued at its endpoint.
LEMMA QueuedLeaves ==
    ASSUME TInv, NEW r \in Request, NEW h, handler' = [handler EXCEPT ![r] = h],
           handler[r].pc \in InService, h.pc \notin InService, NEW e
    PROVE  /\ Cardinality(Queued(e)') = Cardinality(Queued(e)) - (IF handler[r].e = e THEN 1 ELSE 0)
           /\ handler[r].e = e => Cardinality(Queued(e)) >= 1
<1>1. DOMAIN handler = Request
  BY DEF TInv, GatewayTypeOK
<1>2. CASE handler[r].e = e
  <2>1. Queued(e)' = Queued(e) \ {r} /\ r \in Queued(e)
    BY <1>1, <1>2 DEF Queued, InService
  <2>2. IsFiniteSet(Queued(e)) /\ Cardinality(Queued(e)) \in Nat /\ Cardinality(Queued(e)') \in Nat
    BY QueuedFinite
  <2>3. Cardinality(Queued(e) \ {r}) = Cardinality(Queued(e)) - 1
    BY <2>1, <2>2, FS_RemoveElement
  <2> QED
    BY <1>2, <2>1, <2>2, <2>3
<1>3. CASE handler[r].e # e
  <2>1. Queued(e)' = Queued(e)
    BY <1>1, <1>3 DEF Queued, InService
  <2> QED
    BY <1>3, <2>1, QueuedFinite
<1> QED
  BY <1>2, <1>3

QueueBounded(e) == router[e].queue <= Cardinality(Queued(e))

LEMMA QueueHandler ==
    ASSUME TInv, QueueNotOvercounted, NEW r \in Request, Handler(r), NEW e \in Endpoint
    PROVE  QueueBounded(e)'
<1>0. /\ router \in [Endpoint -> Counters] /\ router[e] \in Counters
      /\ router[e].queue \in Nat /\ router[e].queue <= Cardinality(Queued(e))
      /\ Cardinality(Queued(e)) \in Nat /\ Cardinality(Queued(e)') \in Nat
  BY QueuedFinite DEF TInv, GatewayTypeOK, QueueNotOvercounted, Counters
<1>1. ASSUME NEW m, PickEndpointByModel(r, m) PROVE QueueBounded(e)'
  <2>1. PICK f : handler' = [handler EXCEPT ![r] = At("found", f)]
    BY <1>1 DEF PickEndpointByModel
  <2> DEFINE h == At("found", f)
  <2>a. handler' = [handler EXCEPT ![r] = h]
    BY <2>1
  <2>b. (h.pc \in InService) = (handler[r].pc \in InService) /\ (h.pc \in InService => h.e = handler[r].e)
    BY <1>1 DEF PickEndpointByModel, At, InService
  <2> HIDE DEF h
  <2>2. Queued(e)' = Queued(e)
    BY <2>a, <2>b, QueuedSame
  <2> QED
    BY <1>0, <1>1, <2>2 DEF PickEndpointByModel, QueueBounded
<1>2. CASE IncQueue(r)
  <2> DEFINE h == At("queued", handler[r].e)
  <2>a. handler' = [handler EXCEPT ![r] = h]
    BY <1>2 DEF IncQueue
  <2>b. handler[r].pc \notin InService /\ h.pc \in InService /\ h.e = handler[r].e
    BY <1>2 DEF IncQueue, At, InService
  <2> HIDE DEF h
  <2>1. Cardinality(Queued(e)') =
           Cardinality(Queued(e)) + (IF handler[r].e = e THEN 1 ELSE 0)
    BY <2>a, <2>b, QueuedEnters
  <2>2. router'[e].queue = router[e].queue + (IF handler[r].e = e THEN 1 ELSE 0)
    BY <1>0, <1>2 DEF IncQueue, Counters
  <2> QED
    BY <1>0, <2>1, <2>2 DEF QueueBounded
<1>3. CASE NoReplica(r)
  <2> DEFINE h == At("refused", handler[r].e)
  <2>a. handler' = [handler EXCEPT ![r] = h]
    BY <1>3 DEF NoReplica
  <2>b. (h.pc \in InService) = (handler[r].pc \in InService) /\ (h.pc \in InService => h.e = handler[r].e)
    BY <1>3 DEF NoReplica, At, InService
  <2> HIDE DEF h
  <2>1. Queued(e)' = Queued(e)
    BY <2>a, <2>b, QueuedSame
  <2> QED
    BY <1>0, <1>3, <2>1 DEF NoReplica, QueueBounded
<1>4. CASE PickReplica(r)
  <2>1. PICK u : handler' = [handler EXCEPT ![r] = [pc |-> "proxy", e |-> handler[r].e, url |-> u]]
    BY <1>4 DEF PickReplica
  <2> DEFINE h == [pc |-> "proxy", e |-> handler[r].e, url |-> u]
  <2>a. handler' = [handler EXCEPT ![r] = h]
    BY <2>1
  <2>b. (h.pc \in InService) = (handler[r].pc \in InService) /\ (h.pc \in InService => h.e = handler[r].e)
    BY <1>4 DEF PickReplica, At, InService
  <2> HIDE DEF h
  <2>2. Queued(e)' = Queued(e)
    BY <2>a, <2>b, QueuedSame
  <2>3. router'[e].queue = router[e].queue
    BY <1>0, <1>4 DEF PickReplica, Counters
  <2> QED
    BY <1>0, <2>2, <2>3 DEF QueueBounded
<1>5. CASE ProxyEnds(r)
  <2> DEFINE h == At("answered", handler[r].e)
  <2>a. handler' = [handler EXCEPT ![r] = h]
    BY <1>5 DEF ProxyEnds
  <2>b. (h.pc \in InService) = (handler[r].pc \in InService) /\ (h.pc \in InService => h.e = handler[r].e)
    BY <1>5 DEF ProxyEnds, At, InService
  <2> HIDE DEF h
  <2>1. Queued(e)' = Queued(e)
    BY <2>a, <2>b, QueuedSame
  <2> QED
    BY <1>0, <1>5, <2>1 DEF ProxyEnds, QueueBounded
<1>6. CASE DecQueue(r)
  <2>1. /\ Cardinality(Queued(e)') =
              Cardinality(Queued(e)) - (IF handler[r].e = e THEN 1 ELSE 0)
        /\ handler[r].e = e => Cardinality(Queued(e)) >= 1
    BY <1>6, QueuedLeaves DEF DecQueue, Idle, InService
  <2>2. CASE handler[r].e = e
    <3>1. router'[e].queue = IF router[e].queue > 0 THEN router[e].queue - 1 ELSE router[e].queue
      BY <1>0, <1>6, <2>2 DEF DecQueue, Counters
    <3> QED
      BY <1>0, <2>1, <2>2, <3>1 DEF QueueBounded
  <2>3. CASE handler[r].e # e
    <3>1. router'[e].queue = router[e].queue
      BY <1>0, <1>6, <2>3 DEF DecQueue
    <3> QED
      BY <1>0, <2>1, <2>3, <3>1 DEF QueueBounded
  <2> QED
    BY <2>2, <2>3
<1> QED
  BY <1>1, <1>2, <1>3, <1>4, <1>5, <1>6 DEF Handler

\* No step of the loop moves a handler, and a registration starts at zero.
LEMMA QueueLoop ==
    ASSUME TInv, QueueNotOvercounted, Loop, NEW e \in Endpoint PROVE QueueBounded(e)'
<1>0. /\ router \in [Endpoint -> Counters]
      /\ router[e].queue <= Cardinality(Queued(e)) /\ Cardinality(Queued(e)) \in Nat
  BY QueuedFinite DEF TInv, GatewayTypeOK, QueueNotOvercounted, Counters
<1>1. handler' = handler
  BY DEF Loop, Tick, SyncSkip, SyncList, SyncRegister, SyncInFlight, SyncQueue, SyncScale, SyncExport
<1>2. Queued(e)' = Queued(e)
  BY <1>1 DEF Queued
<1>3. CASE SyncRegister
  <2>1. router'[e].queue \in {0, router[e].queue}
    BY <1>0, <1>3 DEF SyncRegister, TInv, LoopOK
  <2> QED
    BY <1>0, <1>2, <2>1 DEF QueueBounded
<1>4. CASE ~SyncRegister
  <2>1. router' = router
    BY <1>4 DEF Loop, Tick, SyncSkip, SyncList, SyncInFlight, SyncQueue, SyncScale, SyncExport
  <2> QED
    BY <1>0, <1>2, <2>1 DEF QueueBounded
<1> QED
  BY <1>3, <1>4

\* The autoscaler never counts more queued requests than there are, for any
\* number of clients, endpoints and replicas, through registrations in the
\* middle of a request and restarts (server.go, IncQueue, DecQueue).
THEOREM GatewayQueue == GatewaySpec => []QueueNotOvercounted
<1>1. GatewayInit => QueueNotOvercounted
  BY QueuedFinite DEF GatewayInit, QueueNotOvercounted, Unregistered
<1>2. TInv /\ QueueNotOvercounted /\ [GatewayNext]_gwVars => QueueNotOvercounted'
  <2> SUFFICES ASSUME TInv, QueueNotOvercounted, [GatewayNext]_gwVars, NEW e \in Endpoint
               PROVE  QueueBounded(e)'
    BY DEF QueueNotOvercounted, QueueBounded
  <2>0. router[e].queue <= Cardinality(Queued(e)) /\ Cardinality(Queued(e)') \in Nat
    BY QueuedFinite DEF QueueNotOvercounted
  <2>1. CASE UNCHANGED <<router, handler>>
    BY <2>0, <2>1 DEF QueueBounded, Queued
  <2>2. CASE \E f \in Endpoint : EndpointDeleted(f) \/ \E u \in Replica : PodChanges(f, u)
    BY <2>1, <2>2 DEF EndpointDeleted, PodChanges
  <2>3. CASE GatewayCrash
    <3>1. router'[e].queue = 0
      BY <2>3 DEF GatewayCrash, Unregistered
    <3> QED
      BY <2>0, <3>1 DEF QueueBounded
  <2> QED
    BY <2>1, <2>2, <2>3, QueueHandler, QueueLoop DEF GatewayNext, gwVars
<1>3. TInv /\ [GatewayNext]_gwVars => TInv'
  BY TInvHandler, TInvLoop, TInvOther DEF GatewayNext, gwVars, TInv, GatewayTypeOK, LoopOK
<1> QED
  BY <1>1, <1>2, <1>3, TInvInit, PTL DEF GatewaySpec
=============================================================================
