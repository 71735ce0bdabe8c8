--------------------------- MODULE EndpointProofs ---------------------------
(***************************************************************************)
(* Safety of the endpoint controller for every set of specs and of limits  *)
(* on replicas, edited at any time, and every value of the annotation.  What Reconcile holds is *)
(* right as long as no one has written the object since: that is what the  *)
(* version check of the status update relies on, and the reason why it     *)
(* keeps the gateway's hit rate and creates for the accepted spec only.    *)
(***************************************************************************)
EXTENDS EndpointController, FiniteSetTheorems, TLAPS

\* The caches and copies that are fresh agree with the object.
FreshOK ==
    /\ "cache" \in fresh => cobj = obj
    /\ "copy" \in fresh /\ rec.pc \in {"old", "cold", "status"}
          => rec.gen = obj.gen /\ rec.kv = obj.kv /\ rec.desired = DesiredReplicas(obj)

\* As many replicas as a scaling allows at most.
Within(n, scaling) == n <= scaling.max \/ n <= scaling.min

\* Past the status update Reconcile works for the accepted spec and scaling.
CreatingOK ==
    rec.pc = "create" => rec.gen = accepted.gen /\ Within(rec.desired, accepted.scaling)

EInv == EndpointTypeOK /\ FreshOK /\ CreatingOK

LEMMA ScalingType ==
    ASSUME NEW sc \in Scalings
    PROVE  /\ sc.min \in Nat /\ sc.max \in Nat
           /\ sc.min \in 0..MostReplicas /\ sc.max \in 0..MostReplicas
  BY EndpointAssumption

\* What an endpoint wants is within its limits, of which the lower one counts
\* if the two contradict each other (desiredReplicas).
LEMMA DesiredType ==
    ASSUME NEW o \in Object
    PROVE  /\ DesiredReplicas(o) \in 0..MostReplicas
           /\ Within(DesiredReplicas(o), o.scaling)
<1>0. o.ann \in Annotation \cup {0} /\ o.scaling \in Scalings
  BY DEF Object
<1>a. Annotation \subseteq Int /\ 0 \in Int
  BY EndpointAssumption
<1>1. o.ann \in Int
  BY <1>0, <1>a, Zenon
<1>2. PICK min, max : min = o.scaling.min /\ max = o.scaling.max
  OBVIOUS
<1>3. min \in 0..MostReplicas /\ max \in 0..MostReplicas /\ MostReplicas \in Nat
  BY <1>0, <1>2, ScalingType, EndpointAssumption
<1>4. DesiredReplicas(o) = IF o.ann = 0 \/ o.ann < min THEN min
                           ELSE IF o.ann > max THEN max ELSE o.ann
  BY <1>2 DEF DesiredReplicas
<1>5. CASE o.ann = 0 \/ o.ann < min
  BY <1>1, <1>2, <1>3, <1>4, <1>5 DEF Within
<1>6. CASE ~(o.ann = 0 \/ o.ann < min) /\ o.ann > max
  BY <1>1, <1>2, <1>3, <1>4, <1>6 DEF Within
<1>7. CASE ~(o.ann = 0 \/ o.ann < min) /\ ~(o.ann > max)
  BY <1>1, <1>2, <1>3, <1>4, <1>7 DEF Within
<1> QED
  BY <1>5, <1>6, <1>7

\* The counts of pods are numbers.
LEMMA CountType == ASSUME NEW S \in SUBSET Index PROVE Cardinality(S) \in Nat
<1>1. IsFiniteSet(Index)
  BY FS_Interval, EndpointAssumption DEF Index
<1> QED
  BY <1>1, FS_Subset, FS_CardinalityType

LEMMA NewPodType == ASSUME NEW g \in Gen PROVE NewPod(g) \in Pod /\ NoPod \in Pod
  BY EndpointAssumption DEF NewPod, NoPod, Pod

LEMMA EInvInit == EpInit => EInv
<1> SUFFICES ASSUME EpInit PROVE EInv
  OBVIOUS
<1>1. pods \in [Index -> Pod] /\ cpods \in [Index -> Pod]
  BY NewPodType, EndpointAssumption DEF EpInit
<1>2. obj \in Object
  BY EndpointAssumption DEF EpInit, Object
<1>3. accepted \in Wanted
  BY EndpointAssumption DEF EpInit, WantedOf, Wanted
<1> QED
  BY <1>1, <1>2, <1>3, EndpointAssumption
  DEF EpInit, EInv, EndpointTypeOK, Local, FreshOK, CreatingOK, RecIdle

\* A step in which neither the object nor the pods change and Reconcile stops.
LEMMA StopKeeps ==
    ASSUME EInv, rec' = RecIdle, UNCHANGED <<obj, cobj, pods, cpods, fresh, accepted>>
    PROVE  EInv'
  BY DEF EInv, EndpointTypeOK, Local, FreshOK, CreatingOK, RecIdle

LEMMA ReconcileKeeps == ASSUME EInv, Reconcile PROVE EInv'
<1>0. /\ obj \in Object /\ cobj \in Object /\ fresh \subseteq {"cache", "copy"}
      /\ pods \in [Index -> Pod] /\ cpods \in [Index -> Pod] /\ accepted \in Wanted /\ rec \in Local
  BY DEF EInv, EndpointTypeOK
<1>m. MostReplicas \in Index /\ MostReplicas \in Nat
  BY EndpointAssumption DEF Index
<1>1. CASE EpRead
  <2>1. DesiredReplicas(cobj) \in 0..MostReplicas
    BY <1>0, DesiredType
  <2>2. Cardinality(ReadyIn(Of(cobj.gen))) \in Nat /\ Cardinality(Of(cobj.gen)) \in Nat
    BY CountType DEF ReadyIn, Of
  <2>3. cobj.gen \in Gen /\ cobj.kv \in BOOLEAN /\ cobj.cold \in BOOLEAN
    BY <1>0 DEF Object
  <2>4. rec' \in Local
    BY <1>1, <2>1, <2>2, <2>3 DEF EpRead, Local
  <2>5. "copy" \in fresh' => "cache" \in fresh
    BY <1>1 DEF EpRead
  <2>6. fresh' \subseteq {"cache", "copy"} /\ ("cache" \in fresh' => "cache" \in fresh)
    BY <1>0, <1>1 DEF EpRead
  <2>7. /\ rec'.pc = "old" /\ rec'.gen = cobj.gen /\ rec'.kv = cobj.kv
        /\ rec'.desired = DesiredReplicas(cobj)
    BY <1>1 DEF EpRead
  <2>8. UNCHANGED <<obj, cobj, pods, cpods, accepted>>
    BY <1>1 DEF EpRead
  <2> QED
    BY <2>4, <2>5, <2>6, <2>7, <2>8 DEF EInv, EndpointTypeOK, FreshOK, CreatingOK
<1>2. CASE EpCountOld
  <2>1. Cardinality(ReadyIn(NotOf(rec.gen))) \in Nat
    BY CountType DEF ReadyIn, NotOf
  <2>2. rec \in [pc : {"old"}, gen : Gen, desired : 0..MostReplicas, ready : Nat, starting : Nat,
                 kv : BOOLEAN, cold : BOOLEAN]
    BY <1>0, <1>2 DEF EpCountOld, Local, RecIdle
  <2>3. rec' \in Local
    BY <1>2, <2>1, <2>2 DEF EpCountOld, Local
  <2>4. /\ rec'.pc = "cold" /\ rec'.gen = rec.gen /\ rec'.kv = rec.kv /\ rec.pc = "old"
        /\ rec'.desired = rec.desired
    BY <1>2 DEF EpCountOld
  <2>5. UNCHANGED <<obj, cobj, pods, cpods, fresh, accepted>>
    BY <1>2 DEF EpCountOld
  <2> QED
    BY <2>3, <2>4, <2>5 DEF EInv, EndpointTypeOK, FreshOK, CreatingOK
<1>3. CASE EpColdStarts
  <2>1. rec \in [pc : {"cold", "status"}, gen : Gen, desired : 0..MostReplicas, ready : Nat,
                 starting : Nat, kv : BOOLEAN, cold : BOOLEAN, old : Nat]
    BY <1>0, <1>3 DEF EpColdStarts, Local, RecIdle
  <2>2. PICK c \in BOOLEAN : rec' = [rec EXCEPT !.pc = "status", !.cold = c]
    BY <1>3, <2>1 DEF EpColdStarts
  <2>3. /\ rec' \in Local /\ rec'.pc = "status" /\ rec'.gen = rec.gen /\ rec'.kv = rec.kv
        /\ rec'.desired = rec.desired
    BY <2>1, <2>2 DEF Local
  <2>4. PICK marked : pods' = [i \in Index |-> IF i \in marked /\ pods[i].there
                                  THEN [pods[i] EXCEPT !.recorded = TRUE] ELSE pods[i]]
    BY <1>3 DEF EpColdStarts
  <2>5. \A i \in Index : pods'[i] \in Pod /\ pods'[i].there = pods[i].there
    BY <1>0, <2>4 DEF Pod
  <2>6. pods' \in [Index -> Pod]
    BY <1>m, <2>4, <2>5 DEF EInv
  <2>7. UNCHANGED <<obj, cobj, cpods, fresh, accepted>> /\ rec.pc = "cold"
    BY <1>3 DEF EpColdStarts
  <2> QED
    BY <2>3, <2>6, <2>7 DEF EInv, EndpointTypeOK, FreshOK, CreatingOK
<1>4. CASE EpStatus
  <2>1. rec \in [pc : {"cold", "status"}, gen : Gen, desired : 0..MostReplicas, ready : Nat,
                 starting : Nat, kv : BOOLEAN, cold : BOOLEAN, old : Nat]
    BY <1>0, <1>4 DEF EpStatus, Local, RecIdle
  <2>2. obj' \in Object
    BY <1>0, <1>4, <2>1 DEF EpStatus, Object
  <2>3. /\ AfterStatus \in Local /\ AfterStatus.pc \in {"idle", "create"}
        /\ AfterStatus.pc = "create" =>
              AfterStatus.gen = rec.gen /\ AfterStatus.desired = rec.desired
    BY <2>1 DEF AfterStatus, Local, RecIdle
  <2>4. rec.gen = obj.gen /\ Within(rec.desired, obj.scaling)
    BY <1>0, <1>4, DesiredType DEF EpStatus, EInv, FreshOK
  <2>5. WantedOf(obj) \in Wanted /\ WantedOf(obj).gen = obj.gen
        /\ WantedOf(obj).scaling = obj.scaling
    BY <1>0 DEF WantedOf, Wanted, Object
  <2>6. rec' = AfterStatus /\ fresh' = {} /\ accepted' = WantedOf(obj)
        /\ UNCHANGED <<cobj, pods, cpods>>
    BY <1>4 DEF EpStatus
  <2>7. CreatingOK'
    BY <2>3, <2>4, <2>5, <2>6 DEF CreatingOK, Within
  <2> QED
    BY <2>2, <2>3, <2>5, <2>6, <2>7, <1>0 DEF EInv, EndpointTypeOK, FreshOK
<1>5. CASE EpStatusFails \/ EpCreateFails
  BY <1>5, StopKeeps DEF EpStatusFails, EpCreateFails
<1>6. ASSUME More
      PROVE  /\ rec \in [pc : {"create"}, gen : Gen, desired : 0..MostReplicas, ready : Nat,
                         old : Nat, i : Nat]
             /\ [rec EXCEPT !.i = @ + 1] \in Local
             /\ rec.i \in Index /\ rec.i # MostReplicas
  <2>1. rec \in [pc : {"create"}, gen : Gen, desired : 0..MostReplicas, ready : Nat, old : Nat, i : Nat]
    BY <1>0, <1>6 DEF More, Local, RecIdle
  <2> QED
    BY <1>6, <1>m, <2>1 DEF More, Local, Index
<1>7. CASE EpCreate
  <2>1. NewPod(rec.gen) \in Pod
    BY <1>6, <1>7, NewPodType DEF EpCreate
  <2>2. pods' \in [Index -> Pod]
    BY <1>0, <1>m, <1>6, <1>7, <2>1 DEF EpCreate, EInv
  <2>3. rec' \in Local /\ rec'.pc = "create" /\ rec.pc = "create" /\ rec'.gen = rec.gen
        /\ rec'.desired = rec.desired
    BY <1>6, <1>7 DEF EpCreate
  <2>4. UNCHANGED <<obj, cobj, cpods, fresh, accepted>>
    BY <1>7 DEF EpCreate
  <2> QED
    BY <2>2, <2>3, <2>4 DEF EInv, EndpointTypeOK, FreshOK, CreatingOK
<1>8. CASE EpExists
  <2>1. rec' \in Local /\ rec'.pc = "create" /\ rec.pc = "create" /\ rec'.gen = rec.gen
        /\ rec'.desired = rec.desired
    BY <1>6, <1>8 DEF EpExists
  <2>2. UNCHANGED <<obj, cobj, pods, cpods, fresh, accepted>>
    BY <1>8 DEF EpExists
  <2> QED
    BY <2>1, <2>2 DEF EInv, EndpointTypeOK, FreshOK, CreatingOK
<1>9. CASE EpCreated
  <2>1. rec.gen \in Gen
    BY <1>0, <1>9 DEF EpCreated, Local, RecIdle
  <2>2. rec' \in Local /\ rec'.pc \in {"idle", "drain"}
    BY <1>9, <2>1 DEF EpCreated, Local, RecIdle
  <2>3. UNCHANGED <<obj, cobj, pods, cpods, fresh, accepted>>
    BY <1>9 DEF EpCreated
  <2> QED
    BY <2>2, <2>3 DEF EInv, EndpointTypeOK, FreshOK, CreatingOK
<1>10. CASE EpDrain
  <2>1. PICK deleted : pods' = [i \in Index |-> IF i \in deleted /\ pods[i].there
                                  THEN [pods[i] EXCEPT !.going = TRUE] ELSE pods[i]]
    BY <1>10 DEF EpDrain
  <2>2. \A i \in Index : pods'[i] \in Pod /\ pods'[i].there = pods[i].there
    BY <1>0, <2>1 DEF Pod
  <2>3. pods' \in [Index -> Pod]
    BY <1>m, <2>1, <2>2 DEF EInv
  <2>4. rec' \in Local /\ rec'.pc = "idle" /\ UNCHANGED <<obj, cobj, cpods, fresh, accepted>>
    BY <1>10 DEF EpDrain, Local, RecIdle
  <2> QED
    BY <2>3, <2>4 DEF EInv, EndpointTypeOK, FreshOK, CreatingOK
<1> QED
  BY <1>1, <1>2, <1>3, <1>4, <1>5, <1>7, <1>8, <1>9, <1>10 DEF Reconcile

\* A write by someone else leaves nothing fresh, so nothing has to agree.
LEMMA WriteKeeps == ASSUME EInv, NEW o \in Object, Write(o) PROVE EInv'
<1>1. obj' \in Object /\ fresh' = {} /\ UNCHANGED <<cobj, pods, cpods, rec, accepted>>
  BY DEF Write
<1> QED
  BY <1>1 DEF EInv, EndpointTypeOK, FreshOK, CreatingOK

LEMMA PodKeeps ==
    ASSUME EInv, NEW i \in Index, NEW p \in Pod, PodStep(i, p) PROVE EInv'
<1>1. UNCHANGED <<obj, cobj, cpods, fresh, rec, accepted>>
  BY DEF PodStep
<1>2. pods \in [Index -> Pod]
  BY DEF EInv, EndpointTypeOK
<1>3. pods' \in [Index -> Pod]
  BY <1>2 DEF PodStep
<1> QED
  BY <1>1, <1>3 DEF EInv, EndpointTypeOK, FreshOK, CreatingOK

LEMMA OthersKeep ==
    ASSUME EInv,
           \/ SpecEdit \/ PatchDesired \/ PatchKVHit
           \/ \E i \in Index : PodReady(i) \/ PodGone(i) \/ PodLost(i)
           \/ SyncObject \/ SyncPods \/ EpCrash
    PROVE  EInv'
<1>0. obj \in Object /\ pods \in [Index -> Pod]
  BY DEF EInv, EndpointTypeOK
<1>1. CASE SpecEdit
  <2>1. PICK w \in Wanted : Write([obj EXCEPT !.gen = w.gen, !.scaling = w.scaling])
    BY <1>1 DEF SpecEdit
  <2>2. [obj EXCEPT !.gen = w.gen, !.scaling = w.scaling] \in Object
    BY <1>0 DEF Object, Wanted
  <2> QED
    BY <2>1, <2>2, WriteKeeps
<1>2. CASE PatchDesired
  <2>1. PICK n \in Annotation : Write([obj EXCEPT !.ann = n])
    BY <1>2 DEF PatchDesired
  <2>2. [obj EXCEPT !.ann = n] \in Object
    BY <1>0 DEF Object
  <2> QED
    BY <2>1, <2>2, WriteKeeps
<1>3. CASE PatchKVHit
  <2>1. [obj EXCEPT !.kv = TRUE] \in Object
    BY <1>0 DEF Object
  <2> QED
    BY <1>3, <2>1, WriteKeeps DEF PatchKVHit
<1>4. ASSUME NEW i \in Index, PodReady(i) \/ PodGone(i) \/ PodLost(i) PROVE EInv'
  <2>1. [pods[i] EXCEPT !.ready = TRUE] \in Pod
    BY <1>0 DEF Pod
  <2>2. NoPod \in Pod
    BY NewPodType, EndpointAssumption
  <2> QED
    BY <1>4, <2>1, <2>2, PodKeeps DEF PodReady, PodGone, PodLost
<1>5. CASE SyncObject
  BY <1>5 DEF SyncObject, EInv, EndpointTypeOK, FreshOK, CreatingOK
<1>6. CASE SyncPods
  BY <1>6 DEF SyncPods, EInv, EndpointTypeOK, FreshOK, CreatingOK
<1>7. CASE EpCrash
  BY <1>7 DEF EpCrash, EInv, EndpointTypeOK, FreshOK, CreatingOK, RecIdle, Local
<1> QED
  BY <1>1, <1>2, <1>3, <1>4, <1>5, <1>6, <1>7

LEMMA EInvNext == EInv /\ [EpNext]_epVars => EInv'
<1> SUFFICES ASSUME EInv, [EpNext]_epVars PROVE EInv'
  OBVIOUS
<1>1. CASE UNCHANGED epVars
  BY <1>1 DEF epVars, EInv, EndpointTypeOK, FreshOK, CreatingOK
<1> QED
  BY <1>1, ReconcileKeeps, OthersKeep DEF EpNext

LEMMA EInvAlways == EpSpec => []EInv
  BY EInvInit, EInvNext, PTL DEF EpSpec

\* The endpoint controller keeps its types: Reconcile works for at most as
\* many replicas as some limit says, whatever the annotation is.
THEOREM EndpointTypeCorrect == EpSpec => []EndpointTypeOK
<1>1. EInv => EndpointTypeOK
  BY DEF EInv
<1> QED
  BY <1>1, EInvAlways, PTL

\* Reconcile's status update never undoes the gateway's, for any specs and
\* limits: it is accepted only when its copy is the latest version.
THEOREM EndpointKeepsKVHit == EpSpec => KVHitKept
<1>1. EInv /\ [EpNext]_epVars => [obj.kv => obj'.kv]_epVars
  <2> SUFFICES ASSUME EInv, EpNext, obj.kv PROVE obj'.kv
    BY DEF epVars
  <2>0. obj \in Object
    BY DEF EInv, EndpointTypeOK
  <2>1. CASE EpStatus
    BY <2>0, <2>1 DEF EpStatus, EInv, FreshOK, Object
  <2>2. CASE SpecEdit \/ PatchDesired \/ PatchKVHit
    BY <2>0, <2>2 DEF SpecEdit, PatchDesired, PatchKVHit, Write, Object
  <2>3. CASE UNCHANGED obj
    BY <2>3
  <2>4. CASE Reconcile /\ ~EpStatus
    BY <2>3, <2>4 DEF Reconcile, EpRead, EpCountOld, EpColdStarts, EpStatusFails, EpCreate,
       EpExists, EpCreateFails, EpCreated, EpDrain
  <2>5. CASE \E i \in Index : PodReady(i) \/ PodGone(i) \/ PodLost(i)
    BY <2>3, <2>5 DEF PodReady, PodGone, PodLost, PodStep
  <2>6. CASE SyncObject \/ SyncPods \/ EpCrash
    BY <2>3, <2>6 DEF SyncObject, SyncPods, EpCrash
  <2> QED
    BY <2>1, <2>2, <2>4, <2>5, <2>6 DEF EpNext
<1> QED
  BY <1>1, EInvAlways, PTL DEF EpSpec, KVHitKept

\* A pod appears only where Reconcile creates it.
LEMMA OnlyCreated ==
    ASSUME EInv, [EpNext]_epVars, NEW i \in Index, ~pods[i].there, pods'[i].there
    PROVE  EpCreate /\ i = rec.i /\ pods'[i].gen = rec.gen
<1>0. pods \in [Index -> Pod] /\ NoPod \in Pod /\ ~NoPod.there
  BY NewPodType, EndpointAssumption DEF EInv, EndpointTypeOK, NoPod
<1>1. CASE EpCreate
  BY <1>0, <1>1 DEF EpCreate, NewPod, NoPod
<1>2. CASE EpColdStarts \/ EpDrain
  BY <1>0, <1>2 DEF EpColdStarts, EpDrain, Pod
<1>3. CASE Reconcile /\ ~EpCreate /\ ~EpColdStarts /\ ~EpDrain
  BY <1>3 DEF Reconcile, EpRead, EpCountOld, EpStatus, EpStatusFails, EpExists,
     EpCreateFails, EpCreated
<1>4. ASSUME NEW j \in Index, PodReady(j) \/ PodGone(j) \/ PodLost(j)
      PROVE  FALSE
  <2>1. pods[j].there /\ \E p : pods' = [pods EXCEPT ![j] = p]
    BY <1>4 DEF PodReady, PodGone, PodLost, PodStep
  <2> QED
    BY <1>0, <2>1
<1>5. CASE SpecEdit \/ PatchDesired \/ PatchKVHit \/ SyncObject \/ SyncPods \/ EpCrash
  BY <1>5 DEF SpecEdit, PatchDesired, PatchKVHit, Write, SyncObject, SyncPods, EpCrash
<1>6. CASE UNCHANGED epVars
  BY <1>6 DEF epVars
<1> QED
  BY <1>1, <1>2, <1>3, <1>4, <1>5, <1>6 DEF EpNext

\* Replicas are created for the accepted spec only, for any specs and limits:
\* after an accepted update Reconcile goes on with the spec the update saw.
THEOREM EndpointCreatesAccepted == EpSpec => CreatesAccepted
<1> DEFINE Fits(i) == ~pods[i].there /\ pods'[i].there => pods'[i].gen = accepted.gen
<1>1. EInv /\ [EpNext]_epVars => [\A i \in Index : Fits(i)]_epVars
  <2> SUFFICES ASSUME EInv, [EpNext]_epVars, NEW i \in Index, ~pods[i].there, pods'[i].there
               PROVE  pods'[i].gen = accepted.gen
    OBVIOUS
  <2> QED
    BY OnlyCreated DEF EpCreate, More, EInv, CreatingOK
<1> QED
  BY <1>1, EInvAlways, PTL DEF EpSpec, CreatesAccepted

\* No number of stale reads, lost pods and restarts makes Reconcile create a
\* replica beyond the limits of the accepted scaling, which a user may lower
\* at any time and which may contradict each other.
THEOREM EndpointCreatesWithinLimits == EpSpec => CreatesWithinLimits
<1> DEFINE Fits(i) == ~pods[i].there /\ pods'[i].there =>
                          i < accepted.scaling.max \/ i < accepted.scaling.min
<1>1. EInv /\ [EpNext]_epVars => [\A i \in Index : Fits(i)]_epVars
  <2> SUFFICES ASSUME EInv, [EpNext]_epVars, NEW i \in Index, ~pods[i].there, pods'[i].there
               PROVE  i < accepted.scaling.max \/ i < accepted.scaling.min
    OBVIOUS
  <2>1. i = rec.i /\ rec.pc = "create" /\ rec.i < rec.desired
    BY OnlyCreated DEF EpCreate, More
  <2>2. accepted.scaling \in Scalings /\ rec \in Local
    BY DEF EInv, EndpointTypeOK, Wanted
  <2>3. PICK min \in Nat, max \in Nat : min = accepted.scaling.min /\ max = accepted.scaling.max
    BY <2>2, ScalingType
  <2>4. PICK n \in Int : n = rec.desired
    BY <2>1, <2>2 DEF Local, RecIdle
  <2>5. n <= max \/ n <= min
    BY <2>1, <2>3, <2>4 DEF EInv, CreatingOK, Within
  <2>6. i < max \/ i < min
    BY <2>1, <2>3, <2>4, <2>5 DEF Index
  <2> QED
    BY <2>3, <2>6
<1> QED
  BY <1>1, EInvAlways, PTL DEF EpSpec, CreatesWithinLimits
=============================================================================
