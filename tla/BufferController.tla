-------------------------- MODULE BufferController --------------------------
(***************************************************************************)
(* The buffer controller: keeps the number of warm nodes of one            *)
(* BufferPolicy at its target, by provisioning nodes in the pools the      *)
(* greedy scheduler picks or by draining and releasing buffered ones.      *)
(*                                                                         *)
(* One worker.  The calls that leave the process (Provision, Release, the  *)
(* updates) and the reads of the cache between them are steps of their own *)
(* and other actors run in between.                                        *)
(***************************************************************************)
EXTENDS Fleet, Scheduling

CONSTANTS
    PolicyPools,     \* the pools of the policy, in its order
    Priority,        \* Priority[p], MaxNodes[p], MaxHourlyUSD[p]:
    MaxNodes,        \*   of the GPUPool's spec
    MaxHourlyUSD,
    Target           \* the policy's target: mode, min, max and k, in halves

ASSUME PolicyAssumption ==
    /\ PolicyPools \in Seq(Pool)
    /\ \A i, j \in 1..Len(PolicyPools) : PolicyPools[i] = PolicyPools[j] => i = j
    /\ Priority \in [Pool -> Int] /\ MaxNodes \in [Pool -> Int]
    /\ MaxHourlyUSD \in [Pool -> Int]
    /\ Target \in [mode : {"static", "dynamic"}, min : Int, max : Int, k : Int]

VARIABLE buf     \* the worker: where it is and its local variables

BufIdle == [pc |-> "idle"]

BufInit == buf = BufIdle

-----------------------------------------------------------------------------
\* countWarmGPUs, from the cache.
CountWarm ==
    SumFunction([i \in DOMAIN PolicyPools |->
                    cpool[PolicyPools[i]].buffered + cpool[PolicyPools[i]].provisioning])

\* desiredWarmGPUs.  K times the demand, both of them floats in the code, is
\* cut to a whole number.
DesiredWarm(d) ==
    IF Target.mode = "dynamic"
    THEN LET base == IF d > 0 /\ Target.k > 0 THEN Target.min + (Target.k * d) \div 2
                     ELSE Target.min
         IN  IF base > Target.max THEN Target.max
             ELSE IF base < Target.min THEN Target.min ELSE base
    ELSE IF Target.min > 0 THEN Target.min ELSE 0

\* The view of a pool.  An ICE counts for 15 minutes: one that is remembered
\* may or may not be that recent.
ViewsOf(p) ==
    {[name |-> p, priority |-> Priority[p], usd |-> cpool[p].usd, penalty |-> c,
      max |-> MaxNodes[p], current |-> CurrentNodes(cpool[p]),
      available |-> cpool[p].available] : c \in IF cpool[p].ice THEN {1, 2} ELSE {1}}

\* buildPoolViews: a view of every pool of the policy.
PoolViews ==
    {vs \in [DOMAIN PolicyPools -> UNION {ViewsOf(p) : p \in Pool}] :
        \A i \in DOMAIN PolicyPools : vs[i] \in ViewsOf(PolicyPools[i])}

\* spendAllowed: a pool whose price is not known counts 1 dollar per node.
SpendAllowed(p, s, add) ==
    \/ MaxHourlyUSD[p] <= 0
    \/ (IF s.usd <= 0 THEN 1 ELSE s.usd) * (CurrentNodes(s) + add) <= MaxHourlyUSD[p]

-----------------------------------------------------------------------------
\* Reconcile reads the policy, counts and compares.
BufCount ==
    /\ buf.pc = "idle"
    /\ LET excess == CountWarm - DesiredWarm(cdemand.ewma)
       IN  buf' = IF excess < 0
                  THEN [pc |-> "plan", read |-> cdemand, need |-> 0 - excess]
                  ELSE IF excess > 0
                  THEN [pc |-> "scale", read |-> cdemand, excess |-> excess, i |-> 1]
                  ELSE [pc |-> "status", read |-> cdemand]
    /\ UNCHANGED fleet

\* The worker moves on to the entries that are left, or to the status update.
ToEntries(todo) ==
    buf' = IF todo = <<>> THEN [pc |-> "status", read |-> buf.read]
           ELSE [pc |-> "entry", read |-> buf.read, todo |-> todo]

\* The pools are viewed and the plan is made.
BufPlan ==
    /\ buf.pc = "plan"
    /\ \E vs \in PoolViews : \E plan \in PlansOf(buf.need, vs) : ToEntries(plan)
    /\ UNCHANGED fleet

\* A static pool with at least as many labelled nodes as asked for is left
\* as it is.
EnoughStaticNodes(p, count) ==
    /\ Provider[p] = "static"
    /\ Cardinality({n \in Name : cnode[n].present /\ Home[n] = p}) >= count

\* provisionPool gives up before it launches anything.
EntryRefused ==
    /\ buf.pc = "entry"
    /\ LET e == Head(buf.todo)
       IN  \/ ~ SpendAllowed(e.pool, cpool[e.pool], e.count)
           \/ EnoughStaticNodes(e.pool, e.count)
           \/ ForPoolFails(e.pool)
    /\ ToEntries(Tail(buf.todo))
    /\ UNCHANGED fleet

\* provisionPool reads its pool and goes on to the first Provision: Quote asks
\* for the spot price when the AWS provider has none, and goes on without it
\* when that fails.
EntryQuoted ==
    /\ buf.pc = "entry"
    /\ LET e == Head(buf.todo)
           p == e.pool
       IN  /\ p \in Pool
           /\ SpendAllowed(p, cpool[p], e.count) /\ ~ EnoughStaticNodes(p, e.count)
           /\ \E usd \in IF Provider[p] = "aws" /\ provider[p].usd = 0
                         THEN {0, Price[p]} ELSE {provider[p].usd} :
                 provider' = [provider EXCEPT ![p].built = TRUE, ![p].usd = usd]
           /\ buf' = [pc |-> "launch", read |-> buf.read, todo |-> Tail(buf.todo), p |-> p,
                      left |-> e.count, base |-> cpool[p], copy |-> cpool[p]]
    /\ UNCHANGED <<machine, node, busy, pool, demand, cpool, cnode, cdemand, settled>>

\* Provision returns a handle: an instance that runs, or the placeholder of the
\* static provider.  The record goes into the local copy.
Launch(n) ==
    /\ buf.pc = "launch" /\ buf.left > 0
    /\ machine[n] = "unused" /\ Home[n] = buf.p
    /\ machine' = [machine EXCEPT ![n] = IF Provider[buf.p] = "aws" THEN "running"
                                         ELSE "placeholder"]
    /\ buf' = [buf EXCEPT !.left = @ - 1, !.copy.provisioning = @ + 1,
                          !.copy.recs = Append(@, [name |-> n, state |-> "provisioning",
                                                   origin |-> "provisioned"])]
    /\ UNCHANGED <<node, busy, pool, demand, cpool, cnode, cdemand, provider, settled>>

\* Bound: the names a pool has for new machines are used up.
NamesUsedUp(p) == \A n \in Name : Home[n] = p => machine[n] # "unused"

\* Provision fails, for want of capacity (remembered by the provider) or for
\* another reason: provisionPool returns and the copy is dropped.
LaunchFails ==
    /\ buf.pc = "launch" /\ buf.left > 0
    /\ Provider[buf.p] = "aws" \/ NamesUsedUp(buf.p)
    /\ \E ice \in {provider[buf.p].ice} \cup {"ice" \in Events /\ Provider[buf.p] = "aws"} :
          provider' = [provider EXCEPT ![buf.p].ice = ice]
    /\ ToEntries(buf.todo)
    /\ UNCHANGED <<machine, node, busy, pool, demand, cpool, cnode, cdemand, settled>>

\* RunInstances has started the instance and its answer is lost: Provision
\* fails for provisionPool, which returns; the copy is dropped.
LaunchUnanswered(n) ==
    /\ "unanswered" \in Events
    /\ buf.pc = "launch" /\ buf.left > 0
    /\ machine[n] = "unused" /\ Home[n] = buf.p /\ Provider[buf.p] = "aws"
    /\ machine' = [machine EXCEPT ![n] = "running"]
    /\ ToEntries(buf.todo)
    /\ UNCHANGED <<node, busy, pool, demand, cpool, cnode, cdemand, provider, settled>>

\* The status update that ends provisionPool.
LaunchesStored ==
    /\ buf.pc = "launch" /\ buf.left = 0
    /\ StatusUpdate(buf.p, buf.base, buf.copy)
    /\ ToEntries(buf.todo)
    /\ UNCHANGED <<machine, node, busy, demand, cpool, cnode, cdemand, provider, settled>>

LaunchesDropped ==
    /\ buf.pc = "launch" /\ buf.left = 0
    /\ ToEntries(buf.todo)
    /\ UNCHANGED fleet

-----------------------------------------------------------------------------
ToStatus == buf' = [pc |-> "status", read |-> buf.read]

\* scaleDown reads the next pool of the policy.
ScalePool ==
    /\ buf.pc = "scale"
    /\ IF buf.i > Len(PolicyPools) THEN ToStatus
       ELSE LET p == PolicyPools[buf.i]
            IN  buf' = [pc |-> "rec", read |-> buf.read, excess |-> buf.excess, i |-> buf.i,
                        p |-> p, base |-> cpool[p], copy |-> cpool[p], r |-> 1]
    /\ UNCHANGED fleet

\* A record that scaleDown drains: buffered, and launched before the
\* stabilization window.  A discovered record has no launch time.
Drainable(rec) ==
    /\ rec.state = "buffered"
    /\ rec.origin = "discovered" \/ "young" \notin Events \/ rec.name \in settled

\* Record r is the next one to drain.
NextToDrain(r) ==
    /\ buf.excess > 0
    /\ r \in buf.r..Len(buf.copy.recs)
    /\ Drainable(buf.copy.recs[r])
    /\ \A q \in buf.r..(r - 1) : ~ Drainable(buf.copy.recs[q])

\* Mutant of DrainAbsent: the counter goes down with the excess.
DrainAbsentCounted(r) ==
    /\ buf.pc = "rec" /\ NextToDrain(r)
    /\ ~ cnode[buf.copy.recs[r].name].present
    /\ buf' = [buf EXCEPT !.excess = @ - 1, !.r = r + 1, !.copy.buffered = @ - 1]
    /\ UNCHANGED fleet

\* drainAndRelease finds no node: nil is returned and the excess counts down.
DrainAbsent(r) ==
    /\ buf.pc = "rec" /\ NextToDrain(r)
    /\ ~ cnode[buf.copy.recs[r].name].present
    /\ buf' = [buf EXCEPT !.excess = @ - 1, !.r = r + 1]
    /\ UNCHANGED fleet

\* Mutant of DrainCordon: the node is not cordoned.
DrainWithoutCordon(r) ==
    LET n == buf.copy.recs[r].name
    IN  /\ buf.pc = "rec" /\ NextToDrain(r)
        /\ cnode[n].present
        /\ buf' = [buf EXCEPT !.pc = "evict", !.r = r]
        /\ UNCHANGED fleet

\* The node is cordoned.
DrainCordon(r) ==
    LET n == buf.copy.recs[r].name
    IN  /\ buf.pc = "rec" /\ NextToDrain(r)
        /\ cnode[n].present
        /\ NodeUpdate(n, cnode[n], [cnode[n] EXCEPT !.cordoned = TRUE])
        /\ buf' = [buf EXCEPT !.pc = "evict", !.r = r]
        /\ UNCHANGED <<machine, busy, pool, demand, cpool, cnode, cdemand, provider, settled>>

\* The update that cordons fails, and with it scaleDown: the copy is dropped.
DrainCordonFails ==
    /\ buf.pc = "rec"
    /\ \E r \in 1..Len(buf.copy.recs) :
          NextToDrain(r) /\ cnode[buf.copy.recs[r].name].present
    /\ ToStatus
    /\ UNCHANGED fleet

\* Evictions are asked for, their errors ignored, and the drain timeout slept.
DrainEvict ==
    /\ buf.pc = "evict"
    /\ busy' \in {busy, busy \ {buf.copy.recs[buf.r].name}}
    /\ buf' = [buf EXCEPT !.pc = "release"]
    /\ UNCHANGED <<machine, node, pool, demand, cpool, cnode, cdemand, provider, settled>>

\* The provider releases the node; the copy says so.
DrainRelease ==
    /\ buf.pc = "release"
    /\ ReleaseSucceeds(buf.p, buf.copy.recs[buf.r])
    /\ provider' = [provider EXCEPT ![buf.p].built = TRUE]
    /\ buf' = [buf EXCEPT !.pc = "rec", !.r = @ + 1, !.excess = @ - 1,
                          !.copy.buffered = @ - 1,
                          !.copy.recs[buf.r].state = "released"]
    /\ UNCHANGED <<node, busy, pool, demand, cpool, cnode, cdemand, settled>>

\* ForPool or Release fails, and with it scaleDown: the copy is dropped.
DrainReleaseFails ==
    /\ buf.pc = "release"
    /\ \/ ForPoolFails(buf.p) /\ UNCHANGED <<machine, provider>>
       \/ /\ ReleaseFails(buf.p, buf.copy.recs[buf.r])
          /\ provider' = [provider EXCEPT ![buf.p].built = TRUE]
    /\ ToStatus
    /\ UNCHANGED <<node, busy, pool, demand, cpool, cnode, cdemand, settled>>

\* No record is left to drain: the pool's status is updated in any case.
NothingToDrain ==
    \/ buf.excess <= 0
    \/ \A q \in buf.r..Len(buf.copy.recs) : ~ Drainable(buf.copy.recs[q])

ScaleStored ==
    /\ buf.pc = "rec" /\ NothingToDrain
    /\ StatusUpdate(buf.p, buf.base, buf.copy)
    /\ buf' = [pc |-> "scale", read |-> buf.read, excess |-> buf.excess, i |-> buf.i + 1]
    /\ UNCHANGED <<machine, node, busy, demand, cpool, cnode, cdemand, provider, settled>>

ScaleDropped ==
    /\ buf.pc = "rec" /\ NothingToDrain
    /\ ToStatus
    /\ UNCHANGED fleet

-----------------------------------------------------------------------------
\* Mutant of BufStatus: the version that was read is not checked.
BufStatusUnchecked ==
    /\ buf.pc = "status"
    /\ buf' = BufIdle
    /\ demand' = [demand EXCEPT !.ewma = buf.read.ewma]
    /\ UNCHANGED <<machine, node, busy, pool, cpool, cnode, cdemand, provider, settled>>

\* The policy's status is updated: CurrentWarmGPUs, which nothing reads, with
\* a fresh count, and DemandEWMA with what was read.  It is accepted if what
\* was read has the version that the API holds.
BufStatus ==
    /\ buf.pc = "status"
    /\ buf' = BufIdle
    /\ demand.version = buf.read.version
    /\ demand' = [demand EXCEPT !.ewma = buf.read.ewma]
    /\ UNCHANGED <<machine, node, busy, pool, cpool, cnode, cdemand, provider, settled>>

BufStatusFails ==
    /\ buf.pc = "status"
    /\ buf' = BufIdle
    /\ UNCHANGED fleet

BufNext ==
    \/ BufCount \/ BufPlan \/ EntryRefused \/ EntryQuoted
    \/ \E n \in Name : Launch(n) \/ LaunchUnanswered(n)
    \/ LaunchFails \/ LaunchesStored \/ LaunchesDropped
    \/ ScalePool
    \/ \E r \in (IF buf.pc = "rec" THEN 1..Len(buf.copy.recs) ELSE {}) :
          DrainAbsent(r) \/ DrainCordon(r)
    \/ DrainCordonFails \/ DrainEvict \/ DrainRelease \/ DrainReleaseFails
    \/ ScaleStored \/ ScaleDropped \/ BufStatus \/ BufStatusFails
=============================================================================
