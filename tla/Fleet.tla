------------------------------- MODULE Fleet --------------------------------
(***************************************************************************)
(* The state the capacity controllers share, and everything around them    *)
(* that changes it: the machines the providers rent out, the Node, GPUPool *)
(* and BufferPolicy objects of the Kubernetes API, the informer cache of   *)
(* the controller manager, and the providers that ProviderCache keeps.     *)
(*                                                                         *)
(* An update of an object carries the version that was read and fails when *)
(* the object has changed since.  For pools and nodes the contents of the  *)
(* object read stand for its version: an update that would be accepted     *)
(* with an older version of the same contents writes what it would write   *)
(* with the current one.  The BufferPolicy, of which two programs write    *)
(* the same field, has a version of its own.                               *)
(***************************************************************************)
EXTENDS Integers, Sequences, FiniteSets

CONSTANTS
    Pool,            \* the GPUPools, each named after itself
    Name,            \* node names; a machine and its node have the same name
    Home,            \* Home[n]: the pool a machine of that name belongs to
    PreJoined,       \* the names of nodes that an operator joined to static pools
    Provider,        \* Provider[p]: "aws" or "static" (spec.provider.name)
    Price,           \* Price[p]: the spot price of a node of p
    Available,       \* Available[p]: what the provider's Capacity reports
    Demand,          \* the values of DemandEWMA the gateway writes
    MaxExports,      \* bound: how often they change
    Events           \* which of these happen: "crash", "lost", "xid", "pods",
                     \*   "ice", "young" (launches stay within the window for a while),
                     \*   "unanswered" (a cloud does what it is asked, its answer is lost)

ASSUME PoolAssumption == IsFiniteSet(Name) /\ Home \in [Name -> Pool]
ASSUME ProviderAssumption ==
    /\ Provider \in [Pool -> {"aws", "static"}]
    /\ Price \in [Pool -> Nat] /\ Available \in [Pool -> Nat]
ASSUME PreJoinedAssumption == PreJoined \subseteq {n \in Name : Provider[Home[n]] = "static"}
ASSUME DemandAssumption == Demand \subseteq Nat /\ 0 \in Demand /\ MaxExports \in Nat

VARIABLES
    machine,     \* machine[n]: "unused", "running", "gone", or "placeholder"
    node,        \* node[n]: the Node object, as far as the controllers use it
    busy,        \* the nodes with a pod that serves traffic
    pool,        \* pool[p]: the status of the GPUPool object
    demand,      \* the BufferPolicy: DemandEWMA in its status, and its version
    cpool,       \* what the manager's informer cache holds of pool,
    cnode,       \*   of node
    cdemand,     \*   and of demand
    provider,    \* provider[p]: the entry of ProviderCache for p
    settled      \* the machines launched longer ago than the stabilization window

fleet == <<machine, node, busy, pool, demand, cpool, cnode, cdemand, provider, settled>>

-----------------------------------------------------------------------------
NoNode == [present |-> FALSE, cordoned |-> FALSE, eligible |-> "unset", xid |-> FALSE]

Node == [present : BOOLEAN, cordoned : BOOLEAN,
         eligible : {"unset", "true", "false"}, xid : BOOLEAN]

\* A NodeRecord.  `origin' stands for its ProviderID and its LaunchedAt: those
\* of a handle that Provision returned, or static://pool/node and no time.
Record == [name   : Name,
           state  : {"provisioning", "discovered", "draining", "buffered",
                     "active", "released"},
           origin : {"provisioned", "discovered"}]

\* GPUPoolStatus; `ice' says that LastICE is set.
PoolStatus == [recs : Seq(Record), active : Int, buffered : Int, provisioning : Int,
               available : Nat, usd : Nat, ice : BOOLEAN]

EmptyStatus == [recs |-> <<>>, active |-> 0, buffered |-> 0, provisioning |-> 0,
                available |-> 0, usd |-> 0, ice |-> FALSE]

\* A provider not built yet, or as its factory builds it: no price, no ICE.
NoProvider == [built |-> FALSE, usd |-> 0, ice |-> FALSE]

\* A BufferPolicy.  A version stands for a value of DemandEWMA: one that comes
\* from a change of CurrentWarmGPUs, which nothing reads, is left out, and an
\* update that it would have refused is one of those that fail anyway.
Policy == [ewma : Nat, version : Nat]

\* The names in a pool status' records.
Names(s) == {s.recs[i].name : i \in 1..Len(s.recs)}

\* CurrentNodes of a pool: what the scheduler and the spend check go by.
CurrentNodes(s) == s.active + s.buffered + s.provisioning

Init ==
    /\ machine = [n \in Name |-> IF n \in PreJoined THEN "running" ELSE "unused"]
    /\ node = [n \in Name |-> IF n \in PreJoined THEN [NoNode EXCEPT !.present = TRUE]
                              ELSE NoNode]
    /\ busy = {}
    /\ pool = [p \in Pool |-> EmptyStatus]
    /\ demand = [ewma |-> 0, version |-> 0]
    /\ cpool = pool /\ cnode = node /\ cdemand = demand
    /\ provider = [p \in Pool |-> NoProvider]
    /\ settled = {}

-----------------------------------------------------------------------------
(* Calls of the controllers, used by their modules.                        *)

\* Mutant of StatusUpdate: the version that was read is not checked.
StatusUpdateUnchecked(p, base, s) ==
    /\ base = base
    /\ pool' = [pool EXCEPT ![p] = s]

\* Status().Update of a GPUPool read as `base' and changed to `s' succeeds.
StatusUpdate(p, base, s) ==
    /\ pool[p] = base
    /\ pool' = [pool EXCEPT ![p] = s]

\* Update of a Node read as `base' and changed to `o' succeeds.
NodeUpdate(n, base, o) ==
    /\ node[n] = base
    /\ node' = [node EXCEPT ![n] = o]

\* ForPool may fail only for a provider that is not in the cache yet.
ForPoolFails(p) == ~ provider[p].built

\* Provider.Release of a record's handle.  An AWS instance is terminated by
\* its id, which a discovered record does not hold; TerminateInstances accepts
\* the id of an instance that is gone.  A static release does nothing.
ReleaseSucceeds(p, rec) ==
    \/ /\ Provider[p] = "static"
       /\ UNCHANGED machine
    \/ /\ Provider[p] = "aws" /\ rec.origin = "provisioned"
       /\ machine' = [machine EXCEPT ![rec.name] = "gone"]

\* Release returns an error: nothing was done, or the answer is lost.
ReleaseFails(p, rec) ==
    /\ Provider[p] = "aws"
    /\ \/ UNCHANGED machine
       \/ /\ "unanswered" \in Events /\ rec.origin = "provisioned"
          /\ machine' = [machine EXCEPT ![rec.name] = "gone"]

-----------------------------------------------------------------------------
(* The environment.                                                        *)

\* A machine's kubelet registers its node: the user data of an AWS instance
\* passes the labels gpu, pool and buffer-eligible=true.
NodeJoin(n) ==
    /\ machine[n] = "running" /\ ~ node[n].present
    /\ node' = [node EXCEPT ![n] = [NoNode EXCEPT !.present = TRUE, !.eligible = "true"]]
    /\ UNCHANGED <<machine, busy, pool, demand, cpool, cnode, cdemand, provider, settled>>

\* A spot instance is reclaimed.
MachineLost(n) ==
    /\ "lost" \in Events
    /\ machine[n] = "running" /\ n \notin PreJoined
    /\ machine' = [machine EXCEPT ![n] = "gone"]
    /\ UNCHANGED <<node, busy, pool, demand, cpool, cnode, cdemand, provider, settled>>

\* The cloud's node controller deletes the node of a machine that is gone.
NodeVanish(n) ==
    /\ machine[n] = "gone" /\ node[n].present
    /\ node' = [node EXCEPT ![n] = NoNode]
    /\ busy' = busy \ {n}
    /\ UNCHANGED <<machine, pool, demand, cpool, cnode, cdemand, provider, settled>>

\* A critical Xid is annotated on a node.  Bound: not on one that is cordoned.
XidEvent(n) ==
    /\ "xid" \in Events
    /\ node[n].present /\ ~ node[n].xid /\ ~ node[n].cordoned
    /\ node' = [node EXCEPT ![n].xid = TRUE]
    /\ UNCHANGED <<machine, busy, pool, demand, cpool, cnode, cdemand, provider, settled>>

\* The Kubernetes scheduler places a replica on a node that is not cordoned.
PodScheduled(n) ==
    /\ "pods" \in Events
    /\ node[n].present /\ ~ node[n].cordoned /\ n \notin busy
    /\ busy' = busy \cup {n}
    /\ UNCHANGED <<machine, node, pool, demand, cpool, cnode, cdemand, provider, settled>>

\* Time passes: the machine's launch leaves the stabilization window.
Settle(n) ==
    /\ "young" \in Events
    /\ machine[n] # "unused" /\ n \notin PreJoined \cup settled
    /\ settled' = settled \cup {n}
    /\ UNCHANGED <<machine, node, busy, pool, demand, cpool, cnode, cdemand, provider>>

\* The replica's pod ends, for a reason outside the capacity controllers.
PodLeaves(n) ==
    /\ n \in busy
    /\ busy' = busy \ {n}
    /\ UNCHANGED <<machine, node, pool, demand, cpool, cnode, cdemand, provider, settled>>

\* The gateway's exportDemand lists the policy and updates its status; a
\* conflict is logged, and the next tick tries again.
SetDemand(d) ==
    /\ demand.ewma # d /\ demand.version < MaxExports
    /\ demand' = [ewma |-> d, version |-> demand.version + 1]
    /\ UNCHANGED <<machine, node, busy, pool, cpool, cnode, cdemand, provider, settled>>

\* The watches bring the cache up to date, one object at a time.
SyncPool(p) ==
    /\ cpool[p] # pool[p]
    /\ cpool' = [cpool EXCEPT ![p] = pool[p]]
    /\ UNCHANGED <<machine, node, busy, pool, demand, cnode, cdemand, provider, settled>>

SyncNode(n) ==
    /\ cnode[n] # node[n]
    /\ cnode' = [cnode EXCEPT ![n] = node[n]]
    /\ UNCHANGED <<machine, node, busy, pool, demand, cpool, cdemand, provider, settled>>

SyncDemand ==
    /\ cdemand # demand
    /\ cdemand' = demand
    /\ UNCHANGED <<machine, node, busy, pool, demand, cpool, cnode, provider, settled>>

Environment ==
    \/ \E n \in Name : \/ NodeJoin(n) \/ MachineLost(n) \/ NodeVanish(n)
                       \/ XidEvent(n) \/ PodScheduled(n) \/ PodLeaves(n)
                       \/ Settle(n) \/ SyncNode(n)
    \/ \E p \in Pool : SyncPool(p)
    \/ \E d \in Demand : SetDemand(d)
    \/ SyncDemand

\* The manager restarts: the cache is listed anew, the providers are lost.
Restart ==
    /\ "crash" \in Events
    /\ cpool' = pool /\ cnode' = node /\ cdemand' = demand
    /\ provider' = [p \in Pool |-> NoProvider]
    /\ UNCHANGED <<machine, node, busy, pool, demand, settled>>

-----------------------------------------------------------------------------
FleetTypeOK ==
    /\ machine \in [Name -> {"unused", "running", "gone", "placeholder"}]
    /\ node \in [Name -> Node] /\ cnode \in [Name -> Node]
    /\ busy \subseteq Name /\ settled \subseteq Name
    /\ pool \in [Pool -> PoolStatus] /\ cpool \in [Pool -> PoolStatus]
    /\ demand \in Policy /\ cdemand \in Policy
    /\ provider \in [Pool -> [built : BOOLEAN, usd : Nat, ice : BOOLEAN]]
=============================================================================
