------------------------- MODULE EndpointController -------------------------
(***************************************************************************)
(* The controller of CodaEndpoints: it creates replica pods named by their *)
(* index up to the desired number, reports them in the endpoint's status   *)
(* and, after a change of the spec, drains the pods of the old spec.  It   *)
(* reads from informer caches that may be behind; the gateway writes the   *)
(* same object.  One endpoint; `gen' stands for its spec hash.             *)
(***************************************************************************)
EXTENDS Integers, FiniteSets

CONSTANTS
    Gen,             \* the spec hashes
    FirstGen,        \* that of the endpoint as it is created
    Scalings,        \* the values of spec.scaling: its minReplicas and maxReplicas
    FirstScaling,
    MostReplicas,    \* bound: no limit in Scalings is above it
    Edits,           \* pairs of what a user wants and what it is changed to
    Annotation,      \* values of desired-replicas; 0 also stands for none
    Events           \* which of these happen: "crash", "lost", "kv"

\* The part of the spec that the controller goes by.  Nothing compares the two
\* limits with each other.
Wanted == [gen : Gen, scaling : Scalings]

ASSUME EndpointAssumption ==
    /\ FirstGen \in Gen /\ FirstScaling \in Scalings /\ MostReplicas \in Nat
    /\ Scalings \subseteq [min : 0..MostReplicas, max : 0..MostReplicas]
    /\ Edits \subseteq Wanted \X Wanted
    /\ Annotation \subseteq Int

VARIABLES
    obj,         \* the CodaEndpoint: spec hash, scaling, annotation, and whether
                 \*   KVHitRate and ColdStart are set
    cobj,        \* the same in the cache
    pods,        \* pods[i]: the pod <name>-replica-i
    cpods,       \* the same in the cache
    fresh,       \* which of "cache" and "copy" hold obj's latest version
    rec,         \* the Reconcile that runs: where it is and its local variables
    accepted     \* history: what obj wanted at the last accepted status update

epVars == <<obj, cobj, pods, cpods, fresh, rec, accepted>>

\* One index more than any scaling asks for.
Index == 0..MostReplicas

Object == [gen : Gen, scaling : Scalings, ann : Annotation \cup {0}, kv : BOOLEAN, cold : BOOLEAN]
Pod == [there : BOOLEAN, gen : Gen, ready : BOOLEAN, recorded : BOOLEAN, going : BOOLEAN]

NoPod == [there |-> FALSE, gen |-> FirstGen, ready |-> FALSE, recorded |-> FALSE, going |-> FALSE]

\* buildPod, as far as the controllers tell pods apart.
NewPod(g) == [NoPod EXCEPT !.there = TRUE, !.gen = g]

RecIdle == [pc |-> "idle"]

WantedOf(o) == [gen |-> o.gen, scaling |-> o.scaling]

EpInit ==
    /\ obj = [gen |-> FirstGen, scaling |-> FirstScaling, ann |-> 0, kv |-> FALSE, cold |-> FALSE]
    /\ cobj = obj
    /\ pods = [i \in Index |-> NoPod] /\ cpods = pods
    /\ fresh = {"cache"}
    /\ rec = RecIdle
    /\ accepted = WantedOf(obj)

-----------------------------------------------------------------------------
(* Reconcile.                                                              *)

\* Mutant of DesiredReplicas: the upper limit is not applied.
DesiredUnlimited(o) == IF o.ann < o.scaling.min THEN o.scaling.min ELSE o.ann

\* desiredReplicas.  For a 0 the idle timer decides between minReplicas and
\* the end of the function, which is minReplicas as well.
DesiredReplicas(o) ==
    IF o.ann = 0 \/ o.ann < o.scaling.min THEN o.scaling.min
    ELSE IF o.ann > o.scaling.max THEN o.scaling.max ELSE o.ann

\* countReplicaPods over the cache, for a spec hash and for all others: a pod
\* that is terminating counts like any other.
Of(g) == {i \in Index : cpods[i].there /\ cpods[i].gen = g}
NotOf(g) == {i \in Index : cpods[i].there /\ cpods[i].gen # g}
ReadyIn(S) == {i \in S : cpods[i].ready}

\* Get, computeSpecHash, desiredReplicas and the first count, whose total
\* (ready or not) is taken for `starting'.
EpRead ==
    /\ rec.pc = "idle"
    /\ rec' = [pc |-> "old", gen |-> cobj.gen, desired |-> DesiredReplicas(cobj),
               ready |-> Cardinality(ReadyIn(Of(cobj.gen))),
               starting |-> Cardinality(Of(cobj.gen)),
               kv |-> cobj.kv, cold |-> cobj.cold]
    /\ fresh' = IF "cache" \in fresh THEN fresh \cup {"copy"} ELSE fresh \ {"copy"}
    /\ UNCHANGED <<obj, cobj, pods, cpods, accepted>>

\* The second count: another List, maybe of a newer cache.
EpCountOld ==
    /\ rec.pc = "old"
    /\ rec' = [pc |-> "cold", gen |-> rec.gen, desired |-> rec.desired, ready |-> rec.ready,
               starting |-> rec.starting, kv |-> rec.kv, cold |-> rec.cold,
               old |-> Cardinality(ReadyIn(NotOf(rec.gen)))]
    /\ UNCHANGED <<obj, cobj, pods, cpods, fresh, accepted>>

\* recordColdStarts: the ready pods that are not marked give a sample each
\* and are marked, by name; a patch that fails is ignored.
EpColdStarts ==
    LET due == {i \in Index : cpods[i].there /\ cpods[i].ready /\ ~cpods[i].recorded}
    IN  /\ rec.pc = "cold"
        /\ \E marked \in SUBSET due :
              pods' = [i \in Index |-> IF i \in marked /\ pods[i].there
                                       THEN [pods[i] EXCEPT !.recorded = TRUE] ELSE pods[i]]
        /\ rec' = [rec EXCEPT !.pc = "status", !.cold = @ \/ due # {}]
        /\ UNCHANGED <<obj, cobj, cpods, fresh, accepted>>

\* After the status update: nothing to do for 0 replicas.
AfterStatus ==
    IF rec.desired = 0 THEN RecIdle
    ELSE [pc |-> "create", gen |-> rec.gen, desired |-> rec.desired, ready |-> rec.ready,
          old |-> rec.old, i |-> rec.ready + rec.starting]

\* Mutant of EpStatus: the version that was read is not checked.
EpStatusUnchecked ==
    /\ rec.pc = "status"
    /\ obj' = [obj EXCEPT !.kv = rec.kv, !.cold = rec.cold]
    /\ fresh' = {}
    /\ accepted' = WantedOf(obj)
    /\ rec' = AfterStatus
    /\ UNCHANGED <<cobj, pods, cpods>>

\* Status().Update of the copy is accepted: it has the latest version.
EpStatus ==
    /\ rec.pc = "status" /\ "copy" \in fresh
    /\ obj' = [obj EXCEPT !.kv = rec.kv, !.cold = rec.cold]
    /\ fresh' = {}
    /\ accepted' = WantedOf(obj)
    /\ rec' = AfterStatus
    /\ UNCHANGED <<cobj, pods, cpods>>

\* Mutant of EpStatusFails: the error does not end Reconcile.
EpStatusFailsGoesOn ==
    /\ rec.pc = "status"
    /\ rec' = AfterStatus
    /\ UNCHANGED <<obj, cobj, pods, cpods, fresh, accepted>>

\* It is refused or fails: Reconcile ends and is queued again.
EpStatusFails ==
    /\ rec.pc = "status"
    /\ rec' = RecIdle
    /\ UNCHANGED <<obj, cobj, pods, cpods, fresh, accepted>>

\* Mutant of More: one index too far.
MoreInclusive == rec.pc = "create" /\ rec.i <= rec.desired

\* The condition of the loop that creates pods.
More == rec.pc = "create" /\ rec.i < rec.desired

EpCreate ==
    /\ More /\ ~pods[rec.i].there
    /\ pods' = [pods EXCEPT ![rec.i] = NewPod(rec.gen)]
    /\ rec' = [rec EXCEPT !.i = @ + 1]
    /\ UNCHANGED <<obj, cobj, cpods, fresh, accepted>>

\* The name is taken, also by a pod of another spec: AlreadyExists is ignored.
EpExists ==
    /\ More /\ pods[rec.i].there
    /\ rec' = [rec EXCEPT !.i = @ + 1]
    /\ UNCHANGED <<obj, cobj, pods, cpods, fresh, accepted>>

\* buildPod or Create fails: Reconcile ends and is queued again.
EpCreateFails ==
    /\ More
    /\ rec' = RecIdle
    /\ UNCHANGED <<obj, cobj, pods, cpods, fresh, accepted>>

\* The loop is through: drain, or wait ten seconds.
EpCreated ==
    /\ rec.pc = "create" /\ ~More
    /\ rec' = IF rec.ready >= rec.desired /\ rec.old > 0
              THEN [pc |-> "drain", gen |-> rec.gen] ELSE RecIdle
    /\ UNCHANGED <<obj, cobj, pods, cpods, fresh, accepted>>

\* drainOldHashPods: the pods of other specs in the cache are deleted, by
\* name; a Delete that fails is ignored.
EpDrain ==
    /\ rec.pc = "drain"
    /\ \E deleted \in SUBSET NotOf(rec.gen) :
          pods' = [i \in Index |-> IF i \in deleted /\ pods[i].there
                                   THEN [pods[i] EXCEPT !.going = TRUE] ELSE pods[i]]
    /\ rec' = RecIdle
    /\ UNCHANGED <<obj, cobj, cpods, fresh, accepted>>

Reconcile ==
    \/ EpRead \/ EpCountOld \/ EpColdStarts \/ EpStatus \/ EpStatusFails
    \/ EpCreate \/ EpExists \/ EpCreateFails \/ EpCreated \/ EpDrain

-----------------------------------------------------------------------------
(* Around the controller.                                                  *)

\* A write of the object by someone else: caches and copies are behind.
Write(o) == obj' = o /\ fresh' = {} /\ UNCHANGED <<cobj, pods, cpods, rec, accepted>>

\* A user edits the spec, its scaling included, which no rollout follows.
SpecEdit ==
    \E w \in Wanted :
        /\ <<WantedOf(obj), w>> \in Edits
        /\ Write([obj EXCEPT !.gen = w.gen, !.scaling = w.scaling])

\* The gateway's patchDesiredReplicas and patchEndpointKVHit.
PatchDesired == \E n \in Annotation \ {obj.ann} : Write([obj EXCEPT !.ann = n])
PatchKVHit == "kv" \in Events /\ ~obj.kv /\ Write([obj EXCEPT !.kv = TRUE])

\* A pod changes by itself.
PodStep(i, p) ==
    /\ pods[i].there
    /\ pods' = [pods EXCEPT ![i] = p]
    /\ UNCHANGED <<obj, cobj, cpods, fresh, rec, accepted>>

PodReady(i) == ~pods[i].ready /\ ~pods[i].going /\ PodStep(i, [pods[i] EXCEPT !.ready = TRUE])
PodGone(i) == pods[i].going /\ PodStep(i, NoPod)
PodLost(i) == "lost" \in Events /\ ~pods[i].going /\ PodStep(i, NoPod)

\* The watches deliver.
SyncObject ==
    /\ "cache" \notin fresh
    /\ cobj' = obj /\ fresh' = fresh \cup {"cache"}
    /\ UNCHANGED <<obj, pods, cpods, rec, accepted>>

SyncPods ==
    /\ cpods # pods
    /\ cpods' = pods
    /\ UNCHANGED <<obj, cobj, pods, fresh, rec, accepted>>

\* The manager restarts and fills its caches.
EpCrash ==
    /\ "crash" \in Events
    /\ rec' = RecIdle
    /\ cobj' = obj /\ cpods' = pods /\ fresh' = {"cache"}
    /\ UNCHANGED <<obj, pods, accepted>>

EpNext ==
    \/ Reconcile
    \/ SpecEdit \/ PatchDesired \/ PatchKVHit
    \/ \E i \in Index : PodReady(i) \/ PodGone(i) \/ PodLost(i)
    \/ SyncObject \/ SyncPods
    \/ EpCrash

EpSpec == EpInit /\ [][EpNext]_epVars

-----------------------------------------------------------------------------
\* The local variables of Reconcile at each of its places.
Local ==
    {RecIdle}
    \cup [pc : {"old"}, gen : Gen, desired : 0..MostReplicas, ready : Nat, starting : Nat,
          kv : BOOLEAN, cold : BOOLEAN]
    \cup [pc : {"cold", "status"}, gen : Gen, desired : 0..MostReplicas, ready : Nat,
          starting : Nat, kv : BOOLEAN, cold : BOOLEAN, old : Nat]
    \cup [pc : {"create"}, gen : Gen, desired : 0..MostReplicas, ready : Nat, old : Nat, i : Nat]
    \cup [pc : {"drain"}, gen : Gen]

\* The variables of the endpoint controller have their types, and a Reconcile
\* never works for more replicas than some spec.scaling allows.
EndpointTypeOK ==
    /\ obj \in Object /\ cobj \in Object
    /\ pods \in [Index -> Pod] /\ cpods \in [Index -> Pod]
    /\ fresh \subseteq {"cache", "copy"}
    /\ rec \in Local
    /\ accepted \in Wanted

\* A replica is only created within the limits that the endpoint's scaling had
\* when the status update of the same Reconcile was accepted: no annotation
\* and no limit of before an edit, read from a cache, starts another one.
\* Pods that are there when a limit is lowered stay: nothing deletes them
\* (endpoint_controller.go:76, 96, 142).
CreatesWithinLimits ==
    [][\A i \in Index : ~pods[i].there /\ pods'[i].there =>
          i < accepted.scaling.max \/ i < accepted.scaling.min]_epVars

\* A hit rate the gateway has put into the status is never taken out again by
\* a status update of Reconcile, which writes back all of the status it has
\* read from its cache (endpoint_controller.go:88, k8s.go:152).
KVHitKept == [][obj.kv => obj'.kv]_epVars

\* A replica is only created for the spec that the endpoint had when the
\* status update of the same Reconcile was accepted: a Reconcile that has read
\* an older spec from its cache ends there and starts nothing.
CreatesAccepted ==
    [][\A i \in Index : ~pods[i].there /\ pods'[i].there => pods'[i].gen = accepted.gen]_epVars

-----------------------------------------------------------------------------
(* Fairness: Reconcile comes again after ten seconds or after its error,   *)
(* and restarts, conflicts and failures do not hit the same step for ever; *)
(* the watches deliver; a replica starts, and stops, in the end.           *)

ReconcileFairness ==
    /\ WF_epVars(Reconcile)
    /\ SF_epVars(EpRead) /\ SF_epVars(EpCountOld) /\ SF_epVars(EpColdStarts)
    /\ SF_epVars(EpStatus) /\ SF_epVars(EpCreate \/ EpExists) /\ SF_epVars(EpCreated)
    /\ SF_epVars(EpDrain /\ \A i \in NotOf(rec.gen) : pods'[i].going \/ ~pods[i].there)

ClusterFairness ==
    /\ WF_epVars(SyncObject) /\ WF_epVars(SyncPods)
    /\ \A i \in Index : WF_epVars(PodReady(i)) /\ WF_epVars(PodGone(i))

EpFairSpec == EpSpec /\ ReconcileFairness /\ ClusterFairness

\* PRD.md:319: "new-version replicas come up (...), take traffic, old replicas
\* drain": a changed spec that stays gets a replica that is ready.
RolloutCompletes ==
    \A g \in Gen :
        <>[](obj.gen = g /\ DesiredReplicas(obj) > 0)
            => <>(\E i \in Index : pods[i].there /\ pods[i].gen = g /\ pods[i].ready)
=============================================================================
