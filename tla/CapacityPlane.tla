--------------------------- MODULE CapacityPlane ----------------------------
(***************************************************************************)
(* The capacity plane: the pool, buffer and health controllers of one      *)
(* controller manager run side by side over the shared fleet, and the      *)
(* manager may crash and restart between any two of their steps.           *)
(***************************************************************************)
EXTENDS PoolController, BufferController, HealthController

vars == <<fleet, pctl, buf, hea>>

PlaneInit == Init /\ PoolInit /\ BufInit /\ HealthInit

\* The manager dies and comes back: its workers forget what they were doing.
Crash ==
    /\ Restart
    /\ pctl' = PoolIdle /\ buf' = BufIdle /\ hea' = HealthIdle

PlaneNext ==
    \/ Environment /\ UNCHANGED <<pctl, buf, hea>>
    \/ PoolNext /\ UNCHANGED <<buf, hea>>
    \/ BufNext /\ UNCHANGED <<pctl, hea>>
    \/ HealthNext /\ UNCHANGED <<pctl, buf>>
    \/ Crash

Spec == PlaneInit /\ [][PlaneNext]_vars

-----------------------------------------------------------------------------
\* The shared state and the locals of the workers have their types.
TypeOK ==
    /\ FleetTypeOK
    /\ PoolTypeOK
    /\ buf.pc \in {"launch", "rec", "evict", "release"} =>
          buf.p \in Pool /\ buf.base \in PoolStatus /\ buf.copy \in PoolStatus
    /\ hea.pc \in {"drain", "release", "store", "finish"} => hea.n \in Name /\ hea.node \in Node
    /\ hea.pc = "store" => hea.base \in PoolStatus /\ hea.copy \in PoolStatus

\* The records of a status as entries of the abstract ledger: the states and
\* the counters are left out.
Entries(s) == [i \in 1..Len(s.recs) |-> <<s.recs[i].name, s.recs[i].origin>>]

Book == INSTANCE NodeLedger WITH book <- [p \in Pool |-> Entries(pool[p])]

\* The controllers keep one ledger per pool: whatever they read and however
\* their updates collide, what reaches the API extends the records that are
\* there, in their order, with the provider id and launch time they have
\* (`origin'), one pool at a time (Status().Update in all three controllers).
KeepsLedger == Book!LedgerSpec

\* A pool has one record per node, although both the buffer controller (at
\* launch) and the pool controller (on discovery) write one.
OneRecordPerNode ==
    \A p \in Pool : \A i, j \in 1..Len(pool[p].recs) :
        pool[p].recs[i].name = pool[p].recs[j].name => i = j

\* A machine is released only behind a cordon: while its node is in the
\* cluster, no controller terminates it unless the node is unschedulable.
ReleasedBehindCordon ==
    [][\A n \in Name : machine[n] = "running" /\ machine'[n] = "gone" =>
          \/ UNCHANGED <<pctl, buf, hea>>   \* the cloud took it back
          \/ node[n].cordoned \/ ~ node[n].present]_vars

\* The counter of buffered nodes, which the buffer controller counts down
\* while the pool controller recounts, never goes below zero.
BufferedNotNegative == \A p \in Pool : pool[p].buffered >= 0

\* Every node still provisioning is counted in the counter the buffer
\* controller goes by, in every status that reaches the API.
ProvisioningCounted ==
    \A p \in Pool :
        Cardinality({i \in 1..Len(pool[p].recs) : pool[p].recs[i].state = "provisioning"})
            <= pool[p].provisioning

\* A demand the gateway has exported is not overwritten by the manager, which
\* writes the whole status back from a cached read that may be older, also
\* when the demand has changed and come back in between
\* (buffer_controller.go:81, k8s.go:169-185).
DemandKept == [][demand'.ewma # demand.ewma => UNCHANGED <<pctl, buf, hea>>]_vars

-----------------------------------------------------------------------------
(* Fairness.  The watches deliver, machines that run join, and a worker    *)
(* with something to do goes on: every controller requeues its objects.    *)
(* An update of the current version is not refused for ever: controllers   *)
(* retry, so it is tried again and again.                                  *)

Step(A) == A /\ UNCHANGED <<pctl, buf, hea>>

Fairness ==
    /\ \A n \in Name : WF_vars(Step(NodeJoin(n))) /\ WF_vars(Step(SyncNode(n)))
    /\ \A p \in Pool : /\ WF_vars(Step(SyncPool(p)))
                       /\ SF_vars(PoolRead(p) /\ UNCHANGED <<buf, hea>>)
    /\ WF_vars(PoolNext /\ UNCHANGED <<buf, hea>>)
    /\ \A p \in Pool : SF_vars(PoolWrite /\ pctl.p = p /\ UNCHANGED <<buf, hea>>)
    /\ WF_vars(HealthNext /\ UNCHANGED <<pctl, buf>>)
    /\ \A n \in Name : SF_vars(XidCordon(n) /\ UNCHANGED <<pctl, buf>>)
    /\ SF_vars(XidFinish /\ UNCHANGED <<pctl, buf>>)

FairSpec == Spec /\ Fairness

\* Every node of a pool gets a record: a machine that was launched but whose
\* record was dropped by a failed update, or never made because the answer of
\* the launch was lost, is found again once its node has joined
\* (reconcileNodeRecords).
JoinedIsRecorded ==
    \A n \in Name : node[n].present ~> n \in Names(pool[Home[n]]) \/ ~ node[n].present

\* A node with a critical Xid does not keep the annotation: the handler is
\* retried until its last update is accepted.
XidIsHandled == \A n \in Name : node[n].xid ~> ~ node[n].xid

-----------------------------------------------------------------------------
(* What the repository's documents say of the capacity plane.              *)

\* PRD.md:454: "provisioning counts toward `current` to prevent thundering-herd
\* double-provision": with nothing failing, no more machines run than the
\* largest target asks for.
NoDoubleProvision ==
    \E d \in Demand : Cardinality({n \in Name : machine[n] = "running"}) <= DesiredWarm(d)

\* PRD.md:454: "never release a node serving traffic".
NeverReleaseServing ==
    [][\A n \in busy : machine[n] = "running" /\ machine'[n] = "gone"
                          => UNCHANGED <<pctl, buf>>]_vars

=============================================================================
