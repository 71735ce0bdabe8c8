-------------------------- MODULE HealthController --------------------------
(***************************************************************************)
(* The health controller: marks GPU nodes buffer-eligible after a boot     *)
(* check, and takes nodes with a critical Xid out of service.  One worker. *)
(* The deep check of a buffered node only logs and is left out.            *)
(***************************************************************************)
EXTENDS Fleet

VARIABLE hea     \* the worker: where it is and its local variables

HealthIdle == [pc |-> "idle"]

HealthInit == hea = HealthIdle

-----------------------------------------------------------------------------
\* The boot check passes or fails and its result is written to the label.
\* The node is read, checked and updated: accepted, that is as if the three
\* happened at once; refused, nothing changes.
BootCheck(n) ==
    /\ hea.pc = "idle"
    /\ cnode[n].present /\ ~ cnode[n].xid /\ cnode[n].eligible # "true"
    /\ \E result \in {"true", "false"} :
          NodeUpdate(n, cnode[n], [cnode[n] EXCEPT !.eligible = result])
    /\ UNCHANGED <<machine, busy, pool, demand, cpool, cnode, cdemand, provider, settled, hea>>

\* Mutant of XidCordon: a node that is cordoned already is left alone.
XidCordonOnce(n) ==
    /\ hea.pc = "idle"
    /\ cnode[n].present /\ cnode[n].xid /\ ~ cnode[n].cordoned
    /\ LET o == [cnode[n] EXCEPT !.cordoned = TRUE]
       IN  /\ NodeUpdate(n, cnode[n], o)
           /\ hea' = [pc |-> "drain", n |-> n, node |-> o]
    /\ UNCHANGED <<machine, busy, pool, demand, cpool, cnode, cdemand, provider, settled>>

\* handleXidCritical cordons the node; when the update fails it ends there.
XidCordon(n) ==
    /\ hea.pc = "idle"
    /\ cnode[n].present /\ cnode[n].xid
    /\ LET o == [cnode[n] EXCEPT !.cordoned = TRUE]
       IN  /\ NodeUpdate(n, cnode[n], o)
           /\ hea' = [pc |-> "drain", n |-> n, node |-> o]
    /\ UNCHANGED <<machine, busy, pool, demand, cpool, cnode, cdemand, provider, settled>>

\* The pods are deleted, their errors ignored.
XidDrain ==
    /\ hea.pc = "drain"
    /\ busy' \in {busy, busy \ {hea.n}}
    /\ hea' = [hea EXCEPT !.pc = "release"]
    /\ UNCHANGED <<machine, node, pool, demand, cpool, cnode, cdemand, provider, settled>>

\* The records of the node in the pool's status, and the status after them.
RecordsOf(n, s) == {i \in 1..Len(s.recs) : s.recs[i].name = n}

Released(n, s) ==
    [s EXCEPT !.ice = TRUE,
              !.recs = [i \in 1..Len(s.recs) |->
                           IF i \in RecordsOf(n, s) THEN [s.recs[i] EXCEPT !.state = "released"]
                           ELSE s.recs[i]]]

\* The pool is read and every record of the node is released; a Release that
\* fails is only logged.
XidRelease ==
    /\ hea.pc = "release"
    /\ LET p == Home[hea.n]
           s == cpool[p]
       IN  /\ \/ RecordsOf(hea.n, s) = {} /\ UNCHANGED machine
              \/ \E i \in RecordsOf(hea.n, s) :
                    ReleaseSucceeds(p, s.recs[i]) \/ ReleaseFails(p, s.recs[i])
           /\ provider' = [provider EXCEPT ![p].built = TRUE]
           /\ hea' = [pc |-> "store", n |-> hea.n, node |-> hea.node,
                      base |-> s, copy |-> Released(hea.n, s)]
    /\ UNCHANGED <<node, busy, pool, demand, cpool, cnode, cdemand, settled>>

ToFinish == hea' = [pc |-> "finish", n |-> hea.n, node |-> hea.node]

\* ForPool fails: the pool is passed over.
XidNoProvider ==
    /\ hea.pc = "release" /\ ForPoolFails(Home[hea.n])
    /\ ToFinish
    /\ UNCHANGED fleet

\* The pool's status is updated; an error is ignored.
XidStored ==
    /\ hea.pc = "store"
    /\ StatusUpdate(Home[hea.n], hea.base, hea.copy)
    /\ ToFinish
    /\ UNCHANGED <<machine, node, busy, demand, cpool, cnode, cdemand, provider, settled>>

XidDropped ==
    /\ hea.pc = "store"
    /\ ToFinish
    /\ UNCHANGED fleet

\* The annotation is taken off.  When that fails the request is retried from
\* the start, since the annotation is still there.
XidFinish ==
    /\ hea.pc = "finish"
    /\ NodeUpdate(hea.n, hea.node, [hea.node EXCEPT !.xid = FALSE, !.eligible = "false"])
    /\ hea' = HealthIdle
    /\ UNCHANGED <<machine, busy, pool, demand, cpool, cnode, cdemand, provider, settled>>

XidRetry ==
    /\ hea.pc = "finish"
    /\ hea' = HealthIdle
    /\ UNCHANGED fleet

HealthNext ==
    \/ \E n \in Name : BootCheck(n) \/ XidCordon(n)
    \/ XidDrain \/ XidRelease \/ XidNoProvider \/ XidStored \/ XidDropped
    \/ XidFinish \/ XidRetry
=============================================================================
