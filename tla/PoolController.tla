--------------------------- MODULE PoolController ---------------------------
(***************************************************************************)
(* The pool controller: refreshes what a GPUPool's status says of its      *)
(* provider and reconciles the node records with the nodes that carry the  *)
(* pool's label.  One worker; a Reconcile reads the cache (PoolRead) and   *)
(* ends in one status update (PoolWrite).                                  *)
(***************************************************************************)
EXTENDS Fleet, SequencesExt

VARIABLE pctl    \* the worker: idle, or the object it read and its new status

PoolIdle == [pc |-> "idle"]

PoolInit == pctl = PoolIdle

-----------------------------------------------------------------------------
\* Mutant of Listed: the cordoned nodes are left out.
ListedSchedulable(p) ==
    {n \in Name : cnode[n].present /\ Home[n] = p /\ ~ cnode[n].cordoned}

\* The nodes List returns for the pool's label, read from the cache.
Listed(p) == {n \in Name : cnode[n].present /\ Home[n] = p}

\* Mutant of Unknown: a node is looked for among the live records only.
UnknownLive(p, s) ==
    Listed(p) \ {s.recs[i].name : i \in {j \in 1..Len(s.recs) : s.recs[j].state # "released"}}

\* The listed nodes that no record names.
Unknown(p, s) == Listed(p) \ Names(s)

\* They are appended in the order the map of nodes is ranged over.
Discover(s, order) ==
    s.recs \o [i \in 1..Len(order) |->
        [name |-> order[i], state |-> "discovered", origin |-> "discovered"]]

\* Mutant of StateOf: the label's value is taken as it is.
StateOfLabel(o) == IF o.cordoned THEN "draining" ELSE o.eligible

\* The state a record takes from its node.
StateOf(o) ==
    IF o.cordoned THEN "draining" ELSE IF o.eligible = "true" THEN "buffered" ELSE "active"

\* Mutant of Relabelled: the records of nodes that left are counted by their
\* old state.
RelabelledByRecord(s, recs, listed) ==
    LET new == [i \in 1..Len(recs) |->
                   IF recs[i].name \in listed
                   THEN [recs[i] EXCEPT !.state = StateOf(cnode[recs[i].name])]
                   ELSE recs[i]]
        Count(st) == Cardinality({i \in 1..Len(new) : new[i].state = st})
    IN  [s EXCEPT !.recs = new, !.active = Count("active"),
                  !.buffered = Count("buffered"), !.provisioning = 0]

\* The new states of the records, and the counters: of the nodes listed, by
\* state; of the records without a node, only those still provisioning.
Relabelled(s, recs, listed) ==
    LET new == [i \in 1..Len(recs) |->
                   IF recs[i].name \in listed
                   THEN [recs[i] EXCEPT !.state = StateOf(cnode[recs[i].name])]
                   ELSE recs[i]]
        Here(st) == Cardinality({i \in 1..Len(new) :
                                    new[i].name \in listed /\ new[i].state = st})
    IN  [s EXCEPT !.recs = new, !.active = Here("active"), !.buffered = Here("buffered"),
                  !.provisioning = Cardinality({i \in 1..Len(new) :
                                      /\ new[i].name \notin listed
                                      /\ new[i].state = "provisioning"})]

\* What Capacity reports: the provider's price is 0 until it has quoted, and
\* ICEs are remembered as long as the provider lives.
Observed(p, s) ==
    [s EXCEPT !.available = Available[p],
              !.usd = IF Provider[p] = "aws" THEN provider[p].usd ELSE 0,
              !.ice = s.ice \/ provider[p].ice]

\* reconcileNodeRecords.  Its List is served by the cache, which has synced
\* before a controller runs, and does not fail.
Reconciled(p, s) ==
    {Relabelled(s, Discover(s, order), Listed(p)) : order \in SetToSeqs(Unknown(p, s))}

\* Reconcile up to the status update.  When ForPool fails it ends here, with
\* nothing changed.
PoolRead(p) ==
    /\ pctl.pc = "idle"
    /\ provider' = [provider EXCEPT ![p].built = TRUE]
    /\ \E copy \in Reconciled(p, Observed(p, cpool[p])) :
          pctl' = [pc |-> "write", p |-> p, base |-> cpool[p], copy |-> copy]
    /\ UNCHANGED <<machine, node, busy, pool, demand, cpool, cnode, cdemand, settled>>

\* The update is accepted, or it fails and the request is queued again.
PoolWrite ==
    /\ pctl.pc = "write"
    /\ pctl' = PoolIdle
    /\ StatusUpdate(pctl.p, pctl.base, pctl.copy)
    /\ UNCHANGED <<machine, node, busy, demand, cpool, cnode, cdemand, provider, settled>>

PoolConflict ==
    /\ pctl.pc = "write"
    /\ pctl' = PoolIdle
    /\ UNCHANGED fleet

PoolNext == (\E p \in Pool : PoolRead(p)) \/ PoolWrite \/ PoolConflict

PoolTypeOK ==
    pctl \in {PoolIdle} \cup [pc : {"write"}, p : Pool, base : PoolStatus, copy : PoolStatus]
=============================================================================
