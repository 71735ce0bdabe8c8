------------------------ MODULE CapacityPlaneProofs -------------------------
(***************************************************************************)
(* Proofs about the capacity plane, for every number of pools, names and   *)
(* demands and every set of events: no node record is lost or doubled, no  *)
(* controller terminates a machine whose node is not cordoned, and none    *)
(* overwrites the demand the gateway exports.                              *)
(*                                                                         *)
(* None is inductive as it stands.  The controllers hold copies of pool    *)
(* statuses, read from a cache that may be behind, so the invariant says   *)
(* the same of the cache and of every copy (Ledger), and of every copy     *)
(* that it continues the records of the status it was made from            *)
(* (Revision).  The version check of the update carries that over to the   *)
(* API, which is also why the plane implements NodeLedger.  Of a policy    *)
(* that was read it says that it is what its version stands for            *)
(* (DemandOK).                                                             *)
(***************************************************************************)
EXTENDS CapacityPlane, FiniteSetTheorems, TLAPS

MachineState == {"unused", "running", "gone", "placeholder"}

\* A pool status with one record per node, of machines m that were launched.
Ledger(m, s) ==
    /\ s \in PoolStatus
    /\ \A i, j \in 1..Len(s.recs) : s.recs[i].name = s.recs[j].name => i = j
    /\ \A i \in 1..Len(s.recs) : m[s.recs[i].name] # "unused"

\* The records of t begin with those of s: same nodes, same origins.
Continues(s, t) ==
    /\ Len(s.recs) <= Len(t.recs)
    /\ \A i \in 1..Len(s.recs) : /\ t.recs[i].name = s.recs[i].name
                                /\ t.recs[i].origin = s.recs[i].origin

\* A copy that continues the status it was made from.
Revision(m, base, copy) ==
    Ledger(m, base) /\ Ledger(m, copy) /\ Continues(base, copy)

\* The node is cordoned, or its machine is gone for good.
Behind(m, o, n) == (o[n].present /\ o[n].cordoned) \/ m[n] = "gone"

FleetOK ==
    /\ FleetTypeOK
    /\ \A n \in Name : node[n].present \/ cnode[n].present => machine[n] # "unused"
    /\ \A p \in Pool : Ledger(machine, pool[p]) /\ Ledger(machine, cpool[p])

PctlOK ==
    /\ PoolTypeOK
    /\ pctl.pc = "write" => Revision(machine, pctl.base, pctl.copy)

BufOK ==
    /\ buf.pc = "scale" =>
          /\ buf = [pc |-> "scale", read |-> buf.read, excess |-> buf.excess, i |-> buf.i]
          /\ buf.i \in Nat \ {0}
    /\ buf.pc = "launch" =>
          /\ buf = [pc |-> "launch", read |-> buf.read, todo |-> buf.todo, p |-> buf.p,
                    left |-> buf.left, base |-> buf.base, copy |-> buf.copy]
          /\ buf.p \in Pool
          /\ Revision(machine, buf.base, buf.copy)
    /\ buf.pc \in {"rec", "evict", "release"} =>
          /\ buf = [pc |-> buf.pc, read |-> buf.read, excess |-> buf.excess, i |-> buf.i,
                    p |-> buf.p, base |-> buf.base, copy |-> buf.copy, r |-> buf.r]
          /\ buf.i \in Nat \ {0} /\ buf.p \in Pool /\ buf.r \in Nat \ {0}
          /\ Revision(machine, buf.base, buf.copy)
    /\ buf.pc \in {"evict", "release"} =>
          /\ buf.r \in 1..Len(buf.copy.recs)
          /\ Behind(machine, node, buf.copy.recs[buf.r].name)

HeaOK ==
    /\ hea.pc \in {"drain", "release", "finish"} =>
          hea = [pc |-> hea.pc, n |-> hea.n, node |-> hea.node]
    /\ hea.pc \in {"drain", "release", "store", "finish"} =>
          /\ hea.n \in Name
          /\ hea.node \in Node /\ hea.node.present /\ hea.node.cordoned
          /\ Behind(machine, node, hea.n)
    /\ hea.pc = "store" => Revision(machine, hea.base, hea.copy)

StateOK == FleetOK /\ PctlOK /\ BufOK /\ HeaOK

\* A policy that was read has the contents of its version.
SameVersion(d) ==
    /\ d \in Policy /\ d.version <= demand.version
    /\ d.version = demand.version => d.ewma = demand.ewma

DemandOK ==
    /\ SameVersion(cdemand)
    /\ buf.pc # "idle" => SameVersion(buf.read)

Inv == StateOK /\ DemandOK

-----------------------------------------------------------------------------
(* Pool statuses.                                                          *)

\* A function on 1..k is a sequence of length k.
LEMMA FunctionIsSeq ==
    ASSUME NEW S, NEW k \in Nat, NEW f \in [1..k -> S]
    PROVE  f \in Seq(S) /\ Len(f) = k
  OBVIOUS

\* Two sequences one after the other.
LEMMA ConcatFacts ==
    ASSUME NEW S, NEW a \in Seq(S), NEW b \in Seq(S)
    PROVE  /\ a \o b \in Seq(S) /\ Len(a \o b) = Len(a) + Len(b)
           /\ \A i \in 1..Len(a) : (a \o b)[i] = a[i]
           /\ \A i \in (Len(a) + 1)..(Len(a) + Len(b)) : (a \o b)[i] = b[i - Len(a)]
  OBVIOUS

\* The counters are sizes of sets of indices of the records.
LEMMA IndexCount ==
    ASSUME NEW len \in Nat, NEW S, S \subseteq 1..len
    PROVE  Cardinality(S) \in Nat
<1>1. IsFiniteSet(1..len)
  BY FS_Interval
<1>2. IsFiniteSet(S)
  BY <1>1, FS_Subset
<1> QED
  BY <1>2, FS_CardinalityType

\* What a PoolStatus is made of.
LEMMA StatusFields ==
    ASSUME NEW s \in PoolStatus
    PROVE  /\ s.recs \in Seq(Record) /\ Len(s.recs) \in Nat
           /\ \A i \in 1..Len(s.recs) : s.recs[i] \in Record /\ s.recs[i].name \in Name
           /\ s.active \in Int /\ s.buffered \in Int /\ s.provisioning \in Int
           /\ s.available \in Nat /\ s.usd \in Nat /\ s.ice \in BOOLEAN
<1>1. s.recs \in Seq(Record)
  BY DEF PoolStatus
<1>2. Len(s.recs) \in Nat /\ \A i \in 1..Len(s.recs) : s.recs[i] \in Record
  BY <1>1
<1>3. \A i \in 1..Len(s.recs) : s.recs[i].name \in Name
  BY <1>2 DEF Record
<1> QED
  BY <1>1, <1>2, <1>3 DEF PoolStatus

\* A status whose records are rewritten one by one, each for the same node, is
\* a ledger of the same entries (reconcileNodeRecords, handleXidCritical).
LEMMA Rewritten ==
    ASSUME NEW m, NEW s, NEW t, Ledger(m, s), t \in PoolStatus,
           Len(t.recs) = Len(s.recs),
           \A i \in 1..Len(s.recs) : /\ t.recs[i].name = s.recs[i].name
                                    /\ t.recs[i].origin = s.recs[i].origin
    PROVE  Ledger(m, t) /\ Continues(s, t)
<1>1. Len(s.recs) \in Nat
  BY StatusFields DEF Ledger
<1> QED
  BY <1>1 DEF Ledger, Continues

\* Continuing is transitive.
LEMMA ContinuesTrans ==
    ASSUME NEW s \in PoolStatus, NEW t \in PoolStatus, NEW u \in PoolStatus,
           Continues(s, t), Continues(t, u)
    PROVE  Continues(s, u)
<1>1. Len(s.recs) \in Nat /\ Len(t.recs) \in Nat /\ Len(u.recs) \in Nat
  BY StatusFields
<1> QED
  BY <1>1 DEF Continues

\* A status continues itself.
LEMMA FreshRevision ==
    ASSUME NEW m, NEW s, Ledger(m, s)
    PROVE  Revision(m, s, s)
<1>1. Len(s.recs) \in Nat
  BY StatusFields DEF Ledger
<1> QED
  BY <1>1 DEF Revision, Continues

\* Machines only leave the pool of unused names: a ledger stays one.
LEMMA LedgerStays ==
    ASSUME NEW m, NEW m2, NEW s, Ledger(m, s),
           \A n \in Name : m[n] # "unused" => m2[n] # "unused"
    PROVE  Ledger(m2, s)
  BY StatusFields DEF Ledger

LEMMA RevisionStays ==
    ASSUME NEW m, NEW m2, NEW base, NEW copy, Revision(m, base, copy),
           \A n \in Name : m[n] # "unused" => m2[n] # "unused"
    PROVE  Revision(m2, base, copy)
  BY LedgerStays DEF Revision

\* Observed changes no record (Reconcile, pool_controller.go:47).
LEMMA ObservedLedger ==
    ASSUME FleetTypeOK, NEW p \in Pool, NEW s, Ledger(machine, s)
    PROVE  Ledger(machine, Observed(p, s)) /\ Continues(s, Observed(p, s))
<1>1. s \in PoolStatus
  BY DEF Ledger
<1>2. provider[p].usd \in Nat /\ provider[p].ice \in BOOLEAN /\ Available[p] \in Nat
  BY ProviderAssumption DEF FleetTypeOK
<1>3. /\ Observed(p, s) \in PoolStatus
      /\ Observed(p, s).recs = s.recs
  BY <1>1, <1>2, StatusFields DEF Observed, PoolStatus
<1> QED
  BY <1>3, Rewritten

\* Discovery appends one record for each listed node that has none
\* (reconcileNodeRecords, pool_controller.go:85).
LEMMA DiscoverLedger ==
    ASSUME FleetTypeOK, \A n \in Name : cnode[n].present => machine[n] # "unused",
           NEW p \in Pool, NEW s, Ledger(machine, s),
           NEW order \in SetToSeqs(Unknown(p, s))
    PROVE  Ledger(machine, [s EXCEPT !.recs = Discover(s, order)])
           /\ Continues(s, [s EXCEPT !.recs = Discover(s, order)])
<1> DEFINE U == Unknown(p, s)
           k == Cardinality(U)
           d == [i \in 1..Len(order) |->
                    [name |-> order[i], state |-> "discovered", origin |-> "discovered"]]
           r == Discover(s, order)
           t == [s EXCEPT !.recs = r]
<1>1. U \subseteq Name /\ U \cap Names(s) = {} /\ \A n \in U : machine[n] # "unused"
  BY DEF Unknown, Listed
<1>2. k \in Nat
  BY <1>1, FS_Subset, FS_CardinalityType, PoolAssumption
<1>3. /\ order \in [1..k -> U]
      /\ \A i, j \in 1..k : i # j => order[i] # order[j]
  BY DEF SetToSeqs
<1>4. Len(order) = k
  BY <1>2, <1>3
<1>5. d \in Seq(Record) /\ Len(d) = k
      /\ \A i \in 1..k : d[i].name = order[i]
  <2>1. d = [i \in 1..k |-> [name |-> order[i], state |-> "discovered",
                             origin |-> "discovered"]]
    BY <1>4
  <2>2. \A i \in 1..k : order[i] \in Name
    BY <1>1, <1>3
  <2> HIDE DEF d, k
  <2>3. d \in [1..k -> Record]
    BY <2>1, <2>2 DEF Record
  <2>4. d \in Seq(Record) /\ Len(d) = k
    BY <1>2, <2>3, FunctionIsSeq
  <2> QED
    BY <2>1, <2>4
<1>6. s \in PoolStatus /\ s.recs \in Seq(Record) /\ Len(s.recs) \in Nat
  BY StatusFields DEF Ledger
<1>7. /\ r = s.recs \o d
      /\ r \in Seq(Record) /\ Len(r) = Len(s.recs) + k
      /\ \A i \in 1..Len(s.recs) : r[i] = s.recs[i]
      /\ \A i \in (Len(s.recs) + 1)..Len(r) : r[i] = d[i - Len(s.recs)]
  <2>1. r = s.recs \o d
    BY DEF Discover
  <2> HIDE DEF d, r, k
  <2>2. /\ s.recs \o d \in Seq(Record) /\ Len(s.recs \o d) = Len(s.recs) + Len(d)
        /\ \A i \in 1..Len(s.recs) : (s.recs \o d)[i] = s.recs[i]
        /\ \A i \in (Len(s.recs) + 1)..(Len(s.recs) + Len(d)) :
              (s.recs \o d)[i] = d[i - Len(s.recs)]
    <3>1. s.recs \in Seq(Record) /\ d \in Seq(Record)
      BY <1>5, <1>6
    <3> QED
      BY <3>1, ConcatFacts, Zenon
  <2> QED
    BY <1>5, <2>1, <2>2
<1> HIDE DEF d, r, k, U
<1>8. t \in PoolStatus /\ t.recs = r
  BY <1>6, <1>7, StatusFields DEF PoolStatus
<1>9. \A i \in 1..Len(r) : /\ i <= Len(s.recs) => r[i].name \in Names(s)
                           /\ i > Len(s.recs) => r[i].name \in U
  <2> SUFFICES ASSUME NEW i \in 1..Len(r)
               PROVE  /\ i <= Len(s.recs) => r[i].name \in Names(s)
                      /\ i > Len(s.recs) => r[i].name \in U
    OBVIOUS
  <2>1. CASE i <= Len(s.recs)
    BY <2>1, <1>2, <1>6, <1>7 DEF Names
  <2>2. CASE i > Len(s.recs)
    <3>1. i - Len(s.recs) \in 1..k
      BY <2>2, <1>2, <1>6, <1>7
    <3>2. r[i].name = order[i - Len(s.recs)]
      BY <3>1, <2>2, <1>5, <1>7, <1>6
    <3> QED
      BY <3>1, <3>2, <2>2, <1>3, <1>6
  <2> QED
    BY <2>1, <2>2
<1>10. \A i \in 1..Len(r) : machine[r[i].name] # "unused"
  <2>1. \A n \in Names(s) : machine[n] # "unused"
    BY DEF Ledger, Names
  <2> QED
    BY <2>1, <1>1, <1>9, <1>6, <1>7, <1>2
<1>11. \A i, j \in 1..Len(r) : r[i].name = r[j].name => i = j
  <2> SUFFICES ASSUME NEW i \in 1..Len(r), NEW j \in 1..Len(r), r[i].name = r[j].name
               PROVE  i = j
    OBVIOUS
  <2>1. CASE i <= Len(s.recs) /\ j <= Len(s.recs)
    BY <2>1, <1>2, <1>6, <1>7 DEF Ledger
  <2>2. CASE i > Len(s.recs) /\ j > Len(s.recs)
    <3> DEFINE a == i - Len(s.recs)
               b == j - Len(s.recs)
    <3>1. a \in 1..k /\ b \in 1..k
      BY <2>2, <1>2, <1>6, <1>7
    <3>2. order[a] = order[b]
      BY <3>1, <2>2, <1>5, <1>6, <1>7
    <3>3. a = b
      BY <3>1, <3>2, <1>3
    <3> QED
      BY <3>3, <1>6, <1>7, <1>2
  <2>3. CASE (i <= Len(s.recs)) # (j <= Len(s.recs))
    BY <2>3, <1>1, <1>9
  <2> QED
    BY <2>1, <2>2, <2>3, <1>6, <1>7, <1>2
<1>12. Continues(s, t)
  BY <1>2, <1>6, <1>7, <1>8 DEF Continues
<1>13. Ledger(machine, t)
  BY <1>8, <1>10, <1>11 DEF Ledger
<1> QED
  BY <1>12, <1>13 DEF r

\* The states and the counters change, the names do not
\* (reconcileNodeRecords, pool_controller.go:97).
LEMMA RelabelledLedger ==
    ASSUME FleetTypeOK, NEW s, NEW recs, NEW listed,
           s \in PoolStatus, Ledger(machine, [s EXCEPT !.recs = recs])
    PROVE  /\ Ledger(machine, Relabelled(s, recs, listed))
           /\ Continues([s EXCEPT !.recs = recs], Relabelled(s, recs, listed))
<1> DEFINE b == [s EXCEPT !.recs = recs]
           new == [i \in 1..Len(recs) |->
                      IF recs[i].name \in listed
                      THEN [recs[i] EXCEPT !.state = StateOf(cnode[recs[i].name])]
                      ELSE recs[i]]
           Here(st) == {i \in 1..Len(new) : new[i].name \in listed /\ new[i].state = st}
           Prov == {i \in 1..Len(new) : new[i].name \notin listed
                                        /\ new[i].state = "provisioning"}
           t == Relabelled(s, recs, listed)
<1>1. b \in PoolStatus /\ b.recs = recs
  BY StatusFields DEF Ledger, PoolStatus
<1>2. recs \in Seq(Record) /\ Len(recs) \in Nat
      /\ \A i \in 1..Len(recs) : recs[i] \in Record /\ recs[i].name \in Name
  BY <1>1, StatusFields
<1>3. \A n \in Name : StateOf(cnode[n]) \in {"draining", "buffered", "active"}
  BY DEF StateOf
<1>4. \A i \in 1..Len(recs) : /\ new[i] \in Record /\ new[i].name = recs[i].name
                               /\ new[i].origin = recs[i].origin
  BY <1>2, <1>3 DEF Record
<1>5. new \in [1..Len(recs) -> Record]
  BY <1>4
<1>6. new \in Seq(Record) /\ Len(new) = Len(recs)
  BY <1>2, <1>5, FunctionIsSeq
<1>7. t = [s EXCEPT !.recs = new, !.active = Cardinality(Here("active")),
                    !.buffered = Cardinality(Here("buffered")),
                    !.provisioning = Cardinality(Prov)]
  BY DEF Relabelled
<1> HIDE DEF new, t
<1>8. /\ Cardinality(Here("active")) \in Nat /\ Cardinality(Here("buffered")) \in Nat
      /\ Cardinality(Prov) \in Nat
  <2>1. /\ Here("active") \subseteq 1..Len(new) /\ Here("buffered") \subseteq 1..Len(new)
        /\ Prov \subseteq 1..Len(new)
    OBVIOUS
  <2>2. Len(new) \in Nat
    BY <1>2, <1>6
  <2> HIDE DEF Here, Prov
  <2> QED
    BY <2>1, <2>2, IndexCount
<1> HIDE DEF Here, Prov
<1>9. t \in PoolStatus /\ t.recs = new
  <2> DEFINE x == Cardinality(Here("active"))
             y == Cardinality(Here("buffered"))
             z == Cardinality(Prov)
  <2>1. x \in Int /\ y \in Int /\ z \in Int
    BY <1>8
  <2>2. t = [s EXCEPT !.recs = new, !.active = x, !.buffered = y, !.provisioning = z]
    BY <1>7
  <2> HIDE DEF x, y, z
  <2> QED
    BY <1>6, <2>1, <2>2, StatusFields DEF PoolStatus
<1>10. Ledger(machine, t) /\ Continues(b, t)
  <2> HIDE DEF b
  <2>1. Ledger(machine, b)
    BY DEF b
  <2> QED
    BY <1>1, <1>4, <1>6, <1>9, <2>1, Rewritten
<1> QED
  BY <1>10 DEF t

\* reconcileNodeRecords makes a revision of the status that was read.
LEMMA ReconciledRevision ==
    ASSUME FleetTypeOK, \A n \in Name : cnode[n].present => machine[n] # "unused",
           NEW p \in Pool, NEW s, Ledger(machine, s),
           NEW copy \in Reconciled(p, Observed(p, s))
    PROVE  Revision(machine, s, copy)
<1> DEFINE o == Observed(p, s)
<1>1. Ledger(machine, o) /\ Continues(s, o)
  BY ObservedLedger
<1>2. PICK order \in SetToSeqs(Unknown(p, o)) :
          copy = Relabelled(o, Discover(o, order), Listed(p))
  BY DEF Reconciled
<1> HIDE DEF o
<1>3. /\ Ledger(machine, [o EXCEPT !.recs = Discover(o, order)])
      /\ Continues(o, [o EXCEPT !.recs = Discover(o, order)])
  BY <1>1, DiscoverLedger
<1> DEFINE d == [o EXCEPT !.recs = Discover(o, order)]
<1>4. o \in PoolStatus /\ s \in PoolStatus
  BY <1>1 DEF Ledger
<1>5. Ledger(machine, copy) /\ Continues(d, copy)
  BY <1>2, <1>3, <1>4, RelabelledLedger
<1>6. d \in PoolStatus /\ copy \in PoolStatus /\ Continues(o, d)
  BY <1>3, <1>5 DEF Ledger
<1> HIDE DEF d
<1>7. Continues(s, copy)
  BY <1>1, <1>4, <1>5, <1>6, ContinuesTrans
<1> QED
  BY <1>5, <1>7 DEF Revision

\* handleXidCritical marks the records of a node released and keeps the rest.
LEMMA ReleasedRevision ==
    ASSUME NEW n \in Name, NEW s, Ledger(machine, s)
    PROVE  Revision(machine, s, Released(n, s))
<1> DEFINE new == [i \in 1..Len(s.recs) |->
                      IF i \in RecordsOf(n, s) THEN [s.recs[i] EXCEPT !.state = "released"]
                      ELSE s.recs[i]]
           t == Released(n, s)
<1>1. s \in PoolStatus /\ Len(s.recs) \in Nat
      /\ \A i \in 1..Len(s.recs) : s.recs[i] \in Record
  BY StatusFields DEF Ledger
<1>2. \A i \in 1..Len(s.recs) : /\ new[i] \in Record /\ new[i].name = s.recs[i].name
                                 /\ new[i].origin = s.recs[i].origin
  BY <1>1 DEF Record
<1>3. new \in [1..Len(s.recs) -> Record]
  BY <1>2
<1>4. new \in Seq(Record) /\ Len(new) = Len(s.recs)
  BY <1>1, <1>3, FunctionIsSeq
<1>5. t = [s EXCEPT !.ice = TRUE, !.recs = new]
  BY DEF Released
<1> HIDE DEF new, t
<1>6. t \in PoolStatus /\ t.recs = new
  BY <1>1, <1>4, <1>5, StatusFields DEF PoolStatus
<1>7. Ledger(machine, t) /\ Continues(s, t)
  BY <1>2, <1>4, <1>6, Rewritten
<1> QED
  BY <1>7 DEF Revision, t

\* provisionPool appends a record for a machine that had none.
LEMMA LaunchedRevision ==
    ASSUME NEW m, NEW m2, NEW base, NEW copy, Revision(m, base, copy),
           NEW n \in Name, m[n] = "unused", m2[n] # "unused",
           \A x \in Name : m[x] # "unused" => m2[x] # "unused",
           NEW rec \in Record, rec.name = n, NEW t \in PoolStatus,
           t.recs = Append(copy.recs, rec)
    PROVE  Revision(m2, base, t)
<1>1. Ledger(m2, base) /\ Ledger(m2, copy)
  BY RevisionStays DEF Revision
<1>2. copy.recs \in Seq(Record) /\ Len(copy.recs) \in Nat
      /\ \A i \in 1..Len(copy.recs) : copy.recs[i].name \in Name
  BY <1>1, StatusFields DEF Ledger
<1>3. /\ Len(t.recs) = Len(copy.recs) + 1
      /\ \A i \in 1..Len(copy.recs) : t.recs[i] = copy.recs[i]
      /\ t.recs[Len(copy.recs) + 1] = rec
  BY <1>2
<1>4. \A i \in 1..Len(copy.recs) : copy.recs[i].name # n
  BY DEF Revision, Ledger
<1>5. \A i, j \in 1..Len(t.recs) : t.recs[i].name = t.recs[j].name => i = j
  BY <1>1, <1>2, <1>3, <1>4 DEF Ledger
<1>6. \A i \in 1..Len(t.recs) : m2[t.recs[i].name] # "unused"
  BY <1>1, <1>2, <1>3 DEF Ledger
<1>7. Continues(copy, t)
  BY <1>2, <1>3 DEF Continues
<1>8. Continues(base, t)
  BY <1>1, <1>7, ContinuesTrans DEF Revision, Ledger
<1> QED
  BY <1>1, <1>5, <1>6, <1>8 DEF Revision, Ledger

-----------------------------------------------------------------------------
(* What one step leaves to the others.                                     *)

\* A step that takes no machine back to unused and no cordon away from a
\* machine that is not gone, and that joins no node without a machine.
Advance ==
    /\ machine' \in [Name -> MachineState] /\ node' \in [Name -> Node]
    /\ \A n \in Name : /\ machine[n] # "unused" => machine'[n] # "unused"
                       /\ Behind(machine, node, n) => Behind(machine', node', n)
                       /\ node'[n].present => machine'[n] # "unused"

\* The copies of a controller that does not move stay revisions.
LEMMA PctlFrame ==
    ASSUME PctlOK, Advance, UNCHANGED pctl
    PROVE  PctlOK'
<1>1. \A n \in Name : machine[n] # "unused" => machine'[n] # "unused"
  BY DEF Advance
<1> QED
  BY <1>1, RevisionStays DEF PctlOK, PoolTypeOK

LEMMA BufFrame ==
    ASSUME BufOK, Advance, UNCHANGED buf
    PROVE  BufOK'
<1>1. \A n \in Name : machine[n] # "unused" => machine'[n] # "unused"
  BY DEF Advance
<1>2. buf.pc \in {"launch", "rec", "evict", "release"} =>
          Revision(machine', buf.base, buf.copy)
  BY <1>1, RevisionStays DEF BufOK
<1>3. buf.pc \in {"evict", "release"} =>
          /\ buf.copy.recs[buf.r].name \in Name
          /\ Behind(machine', node', buf.copy.recs[buf.r].name)
  <2> SUFFICES ASSUME buf.pc \in {"evict", "release"}
               PROVE  /\ buf.copy.recs[buf.r].name \in Name
                      /\ Behind(machine', node', buf.copy.recs[buf.r].name)
    OBVIOUS
  <2>1. buf.copy \in PoolStatus /\ buf.r \in 1..Len(buf.copy.recs)
    BY DEF BufOK, Revision, Ledger
  <2>2. buf.copy.recs[buf.r].name \in Name
    BY <2>1, StatusFields
  <2> QED
    BY <2>2 DEF BufOK, Advance
<1> QED
  BY <1>2, <1>3 DEF BufOK

LEMMA HeaFrame ==
    ASSUME HeaOK, Advance, UNCHANGED hea
    PROVE  HeaOK'
<1>1. \A n \in Name : machine[n] # "unused" => machine'[n] # "unused"
  BY DEF Advance
<1>2. hea.pc = "store" => Revision(machine', hea.base, hea.copy)
  BY <1>1, RevisionStays DEF HeaOK
<1> QED
  BY <1>2 DEF HeaOK, Advance

\* The statuses of the API and of the cache when no pool is written.
LEMMA StatusesFrame ==
    ASSUME FleetOK, Advance, UNCHANGED <<pool, cpool>>
    PROVE  \A p \in Pool : Ledger(machine', pool'[p]) /\ Ledger(machine', cpool'[p])
<1>1. \A n \in Name : machine[n] # "unused" => machine'[n] # "unused"
  BY DEF Advance
<1> QED
  BY <1>1, LedgerStays DEF FleetOK

\* A status update that is accepted puts a revision of the pool's status in
\* its place: it stays a ledger.
LEMMA UpdateKeepsLedger ==
    ASSUME FleetOK, NEW p, NEW base, NEW copy, Revision(machine, base, copy),
           StatusUpdate(p, base, copy), UNCHANGED <<machine, cpool>>
    PROVE  /\ pool' \in [Pool -> PoolStatus]
           /\ \A q \in Pool : Ledger(machine', pool'[q]) /\ Ledger(machine', cpool'[q])
<1>1. pool \in [Pool -> PoolStatus] /\ cpool \in [Pool -> PoolStatus]
  BY DEF FleetOK, FleetTypeOK
<1>2. \A q \in Pool : pool'[q] = IF q = p THEN copy ELSE pool[q]
  BY <1>1 DEF StatusUpdate
<1>3. pool' = [pool EXCEPT ![p] = copy] /\ copy \in PoolStatus /\ Ledger(machine, copy)
  BY DEF StatusUpdate, Revision, Ledger
<1>4. pool' \in [Pool -> PoolStatus]
  BY <1>1, <1>3
<1>5. \A q \in Pool : Ledger(machine', pool'[q]) /\ Ledger(machine', cpool'[q])
  BY <1>2, <1>3 DEF FleetOK
<1> QED
  BY <1>4, <1>5

\* A step that changes neither a machine nor a node.
LEMMA StillAdvance ==
    ASSUME FleetOK, UNCHANGED <<machine, node>>
    PROVE  Advance
  BY DEF FleetOK, FleetTypeOK, Advance, MachineState

\* The fleet when no pool is written and the cache stays as it is.
LEMMA FleetFrame ==
    ASSUME FleetOK, Advance, FleetTypeOK', UNCHANGED <<pool, cpool, cnode>>
    PROVE  FleetOK'
<1>1. \A p \in Pool : Ledger(machine', pool'[p]) /\ Ledger(machine', cpool'[p])
  BY StatusesFrame
<1>2. \A n \in Name : node'[n].present \/ cnode'[n].present => machine'[n] # "unused"
  BY DEF FleetOK, Advance
<1> QED
  BY <1>1, <1>2 DEF FleetOK

\* A step of a controller that leaves the fleet alone.
LEMMA FleetUntouched ==
    ASSUME FleetOK, UNCHANGED fleet
    PROVE  Advance /\ FleetOK'
<1>1. UNCHANGED <<machine, node, busy, pool, demand, cpool, cnode, cdemand, provider, settled>>
  BY DEF fleet
<1>2. Advance
  BY <1>1, StillAdvance
<1>3. FleetTypeOK'
  BY <1>1 DEF FleetOK, FleetTypeOK
<1> QED
  BY <1>1, <1>2, <1>3, FleetFrame

\* A step that only touches the provider cache, with an entry of its type.
LEMMA ProviderTouched ==
    ASSUME FleetOK, provider' \in [Pool -> [built : BOOLEAN, usd : Nat, ice : BOOLEAN]],
           UNCHANGED <<machine, node, busy, pool, demand, cpool, cnode, cdemand, settled>>
    PROVE  Advance /\ FleetOK'
<1>1. Advance
  BY StillAdvance
<1>2. FleetTypeOK'
  BY DEF FleetOK, FleetTypeOK
<1> QED
  BY <1>1, <1>2, FleetFrame

\* A step that only evicts pods.
LEMMA PodsTouched ==
    ASSUME FleetOK, busy' \subseteq busy,
           UNCHANGED <<machine, node, pool, demand, cpool, cnode, cdemand, provider, settled>>
    PROVE  Advance /\ FleetOK'
<1>1. Advance
  BY StillAdvance
<1>2. FleetTypeOK'
  BY DEF FleetOK, FleetTypeOK
<1> QED
  BY <1>1, <1>2, FleetFrame

\* A step that ends in an accepted status update.
LEMMA StatusWritten ==
    ASSUME FleetOK, NEW p, NEW base, NEW copy, Revision(machine, base, copy),
           StatusUpdate(p, base, copy),
           UNCHANGED <<machine, node, busy, demand, cpool, cnode, cdemand, provider, settled>>
    PROVE  Advance /\ FleetOK'
<1>1. Advance
  BY StillAdvance
<1>2. /\ pool' \in [Pool -> PoolStatus]
      /\ \A q \in Pool : Ledger(machine', pool'[q]) /\ Ledger(machine', cpool'[q])
  BY UpdateKeepsLedger
<1>3. FleetTypeOK'
  BY <1>2 DEF FleetOK, FleetTypeOK
<1>4. FleetOK'
  BY <1>2, <1>3 DEF FleetOK
<1> QED
  BY <1>1, <1>4

\* An accepted update of a node keeps the cordons: it is made from what the
\* API holds, and no controller uncordons.
LEMMA NodeWritten ==
    ASSUME FleetOK, NEW n \in Name, NEW base, NEW o \in Node,
           base.present => o.present, o.present => base.present,
           base.cordoned => o.cordoned, NodeUpdate(n, base, o),
           UNCHANGED <<machine, busy, pool, demand, cpool, cnode, cdemand, provider, settled>>
    PROVE  Advance /\ FleetOK' /\ node'[n] = o /\ node[n] = base
<1>1. node' = [node EXCEPT ![n] = o] /\ node[n] = base /\ node \in [Name -> Node]
  BY DEF NodeUpdate, FleetOK, FleetTypeOK
<1>2. Advance
  BY <1>1 DEF FleetOK, FleetTypeOK, Advance, Behind, MachineState
<1>3. FleetTypeOK'
  BY <1>1 DEF FleetOK, FleetTypeOK
<1> QED
  BY <1>1, <1>2, <1>3, FleetFrame

-----------------------------------------------------------------------------
(* The environment and the restart.                                        *)

LEMMA InitInv == PlaneInit => Inv
<1> SUFFICES ASSUME PlaneInit PROVE Inv
  OBVIOUS
<1> USE DEF PlaneInit
<1>1. EmptyStatus \in PoolStatus /\ Len(EmptyStatus.recs) = 0
  BY DEF EmptyStatus, PoolStatus
<1>2. Ledger(machine, EmptyStatus)
  BY <1>1 DEF Ledger
<1>3. FleetTypeOK
  BY <1>1, PreJoinedAssumption
  DEF Init, FleetTypeOK, Node, NoNode, NoProvider, Policy
<1>4. \A n \in Name : node[n].present \/ cnode[n].present => machine[n] # "unused"
  BY DEF Init, NoNode
<1>5. \A p \in Pool : Ledger(machine, pool[p]) /\ Ledger(machine, cpool[p])
  BY <1>2 DEF Init
<1>6. PctlOK
  BY DEF PoolInit, PoolIdle, PctlOK, PoolTypeOK
<1>7. BufOK
  BY DEF BufInit, BufIdle, BufOK
<1>8. HeaOK
  BY DEF HealthInit, HealthIdle, HeaOK
<1>9. DemandOK
  BY DEF Init, BufInit, BufIdle, DemandOK, SameVersion, Policy
<1> QED
  BY <1>3, <1>4, <1>5, <1>6, <1>7, <1>8, <1>9 DEF Inv, StateOK, FleetOK

\* Machines join, are lost and vanish, nodes are annotated and used, the
\* cache catches up: none of it takes a cordon off a machine that runs.
LEMMA EnvironmentInv ==
    ASSUME Inv, Environment, UNCHANGED <<pctl, buf, hea>>
    PROVE  StateOK'
<1>1. FleetOK /\ PctlOK /\ BufOK /\ HeaOK
  BY DEF Inv, StateOK
<1> SUFFICES Advance /\ FleetOK'
  BY <1>1, PctlFrame, BufFrame, HeaFrame DEF Inv, StateOK
<1> USE DEF FleetTypeOK
<1>2. ASSUME NEW n \in Name, NodeJoin(n)
      PROVE  Advance /\ FleetOK'
  <2>1. Advance
    BY <1>1, <1>2 DEF NodeJoin, FleetOK, Advance, Behind, Node, NoNode, MachineState
  <2>2. FleetTypeOK'
    BY <1>1, <1>2 DEF NodeJoin, FleetOK, Node, NoNode
  <2> QED
    BY <1>1, <1>2, FleetFrame, <2>1, <2>2 DEF NodeJoin
<1>3. ASSUME NEW n \in Name, MachineLost(n)
      PROVE  Advance /\ FleetOK'
  <2>1. Advance
    BY <1>1, <1>3 DEF MachineLost, FleetOK, Advance, Behind, MachineState
  <2>2. FleetTypeOK'
    BY <1>1, <1>3 DEF MachineLost, FleetOK
  <2> QED
    BY <1>1, <1>3, FleetFrame, <2>1, <2>2 DEF MachineLost
<1>4. ASSUME NEW n \in Name, NodeVanish(n)
      PROVE  Advance /\ FleetOK'
  <2>1. Advance
    BY <1>1, <1>4 DEF NodeVanish, FleetOK, Advance, Behind, Node, NoNode, MachineState
  <2>2. FleetTypeOK'
    BY <1>1, <1>4 DEF NodeVanish, FleetOK, Node, NoNode
  <2> QED
    BY <1>1, <1>4, FleetFrame, <2>1, <2>2 DEF NodeVanish
<1>5. ASSUME NEW n \in Name, XidEvent(n)
      PROVE  Advance /\ FleetOK'
  <2>1. Advance
    BY <1>1, <1>5 DEF XidEvent, FleetOK, Advance, Behind, Node, MachineState
  <2>2. FleetTypeOK'
    BY <1>1, <1>5 DEF XidEvent, FleetOK, Node
  <2> QED
    BY <1>1, <1>5, FleetFrame, <2>1, <2>2 DEF XidEvent
<1>6. ASSUME NEW n \in Name, PodScheduled(n) \/ PodLeaves(n) \/ Settle(n)
      PROVE  Advance /\ FleetOK'
  <2>1. Advance
    BY <1>1, <1>6, StillAdvance DEF PodScheduled, PodLeaves, Settle
  <2>2. FleetTypeOK'
    BY <1>1, <1>6 DEF PodScheduled, PodLeaves, Settle, FleetOK
  <2> QED
    BY <1>1, <1>6, FleetFrame, <2>1, <2>2 DEF PodScheduled, PodLeaves, Settle
<1>7. ASSUME NEW n \in Name, SyncNode(n)
      PROVE  Advance /\ FleetOK'
  BY <1>1, <1>7, StillAdvance DEF SyncNode, FleetOK
<1>8. ASSUME NEW p \in Pool, SyncPool(p)
      PROVE  Advance /\ FleetOK'
  BY <1>1, <1>8, StillAdvance DEF SyncPool, FleetOK
<1>9. ASSUME NEW d \in Demand, SetDemand(d)
      PROVE  Advance /\ FleetOK'
  <2>1. Advance
    BY <1>1, <1>9, StillAdvance DEF SetDemand
  <2>2. FleetTypeOK'
    BY <1>1, <1>9, DemandAssumption DEF SetDemand, FleetOK, Policy
  <2> QED
    BY <1>1, <1>9, FleetFrame, <2>1, <2>2 DEF SetDemand
<1>10. ASSUME SyncDemand
       PROVE  Advance /\ FleetOK'
  <2>1. Advance
    BY <1>1, <1>10, StillAdvance DEF SyncDemand
  <2>2. FleetTypeOK'
    BY <1>1, <1>10 DEF SyncDemand, FleetOK
  <2> QED
    BY <1>1, <1>10, FleetFrame, <2>1, <2>2 DEF SyncDemand
<1> QED
  BY <1>2, <1>3, <1>4, <1>5, <1>6, <1>7, <1>8, <1>9, <1>10 DEF Environment

\* After a crash the cache is what the API holds and no copy is left.
LEMMA CrashInv ==
    ASSUME Inv, Crash
    PROVE  StateOK'
<1>1. FleetOK /\ FleetTypeOK
  BY DEF Inv, StateOK, FleetOK
<1>2. FleetTypeOK'
  BY <1>1 DEF Crash, Restart, FleetTypeOK, NoProvider
<1>3. FleetOK'
  BY <1>1, <1>2 DEF Crash, Restart, FleetOK
<1>4. PctlOK'
  BY DEF Crash, PoolIdle, PctlOK, PoolTypeOK
<1>5. BufOK'
  BY DEF Crash, BufIdle, BufOK
<1>6. HeaOK'
  BY DEF Crash, HealthIdle, HeaOK
<1> QED
  BY <1>3, <1>4, <1>5, <1>6 DEF Inv, StateOK

-----------------------------------------------------------------------------
(* The controllers.                                                        *)

LEMMA PoolStepInv ==
    ASSUME Inv, PoolNext, UNCHANGED <<buf, hea>>
    PROVE  StateOK'
<1>1. FleetOK /\ FleetTypeOK /\ PctlOK /\ BufOK /\ HeaOK
  BY DEF Inv, StateOK, FleetOK
<1> SUFFICES Advance /\ FleetOK' /\ PctlOK'
  BY <1>1, BufFrame, HeaFrame DEF Inv, StateOK
<1>2. ASSUME NEW p \in Pool, PoolRead(p)
      PROVE  Advance /\ FleetOK' /\ PctlOK'
  <2>1. PICK copy \in Reconciled(p, Observed(p, cpool[p])) :
            pctl' = [pc |-> "write", p |-> p, base |-> cpool[p], copy |-> copy]
    BY <1>2 DEF PoolRead
  <2>2. Revision(machine, cpool[p], copy)
    BY <1>1, ReconciledRevision DEF FleetOK
  <2>3. Advance /\ FleetOK'
    BY <1>1, <1>2, ProviderTouched DEF PoolRead, FleetTypeOK
  <2>4. cpool[p] \in PoolStatus /\ copy \in PoolStatus
    BY <2>2 DEF Revision, Ledger
  <2>5. PctlOK'
    BY <1>2, <2>1, <2>2, <2>4 DEF PctlOK, PoolTypeOK, PoolRead
  <2> QED
    BY <2>3, <2>5
<1>3. ASSUME PoolWrite
      PROVE  Advance /\ FleetOK' /\ PctlOK'
  <2>1. Revision(machine, pctl.base, pctl.copy)
    BY <1>1, <1>3 DEF PctlOK, PoolWrite
  <2>2. Advance /\ FleetOK'
    BY <1>1, <1>3, <2>1, StatusWritten DEF PoolWrite
  <2> QED
    BY <1>3, <2>2 DEF PoolWrite, PoolIdle, PctlOK, PoolTypeOK
<1>4. ASSUME PoolConflict
      PROVE  Advance /\ FleetOK' /\ PctlOK'
  <2>1. Advance /\ FleetOK'
    BY <1>1, <1>4, FleetUntouched DEF PoolConflict
  <2> QED
    BY <1>4, <2>1 DEF PoolConflict, PoolIdle, PctlOK, PoolTypeOK
<1> QED
  BY <1>2, <1>3, <1>4 DEF PoolNext

LEMMA HealthStepInv ==
    ASSUME Inv, HealthNext, UNCHANGED <<pctl, buf>>
    PROVE  StateOK'
<1>1. FleetOK /\ FleetTypeOK /\ PctlOK /\ BufOK /\ HeaOK
  BY DEF Inv, StateOK, FleetOK
<1> SUFFICES Advance /\ FleetOK' /\ HeaOK'
  BY <1>1, PctlFrame, BufFrame DEF Inv, StateOK
<1>2. ASSUME NEW n \in Name, BootCheck(n)
      PROVE  Advance /\ FleetOK' /\ HeaOK'
  <2>1. PICK result \in {"true", "false"} :
            NodeUpdate(n, cnode[n], [cnode[n] EXCEPT !.eligible = result])
    BY <1>2 DEF BootCheck
  <2>2. cnode[n] \in Node
    BY <1>1 DEF FleetTypeOK
  <2> DEFINE o == [cnode[n] EXCEPT !.eligible = result]
  <2>3. o \in Node /\ o.present = cnode[n].present /\ o.cordoned = cnode[n].cordoned
    BY <2>2 DEF Node
  <2> HIDE DEF o
  <2>4. NodeUpdate(n, cnode[n], o)
    BY <2>1 DEF o
  <2>5. Advance /\ FleetOK'
    BY <1>1, <1>2, <2>3, <2>4, NodeWritten DEF BootCheck
  <2> QED
    BY <1>1, <1>2, <2>5, HeaFrame DEF BootCheck
<1>3. ASSUME NEW n \in Name, XidCordon(n)
      PROVE  Advance /\ FleetOK' /\ HeaOK'
  <2> DEFINE o == [cnode[n] EXCEPT !.cordoned = TRUE]
  <2>1. cnode[n] \in Node /\ cnode[n].present
    BY <1>1, <1>3 DEF FleetTypeOK, XidCordon
  <2>2. o \in Node /\ o.present /\ o.cordoned
    BY <2>1 DEF Node
  <2>3. NodeUpdate(n, cnode[n], o) /\ hea' = [pc |-> "drain", n |-> n, node |-> o]
    BY <1>3 DEF XidCordon
  <2> HIDE DEF o
  <2>4. Advance /\ FleetOK' /\ node'[n] = o
    BY <1>1, <1>3, <2>1, <2>2, <2>3, NodeWritten DEF XidCordon
  <2> QED
    BY <2>2, <2>3, <2>4 DEF HeaOK, Behind
<1>4. ASSUME XidDrain
      PROVE  Advance /\ FleetOK' /\ HeaOK'
  <2>1. Advance /\ FleetOK'
    BY <1>1, <1>4, PodsTouched DEF XidDrain
  <2>2. hea.pc = "drain" /\ hea = [pc |-> "drain", n |-> hea.n, node |-> hea.node]
        /\ hea' = [hea EXCEPT !.pc = "release"]
    BY <1>1, <1>4 DEF XidDrain, HeaOK
  <2>3. hea' = [pc |-> "release", n |-> hea.n, node |-> hea.node]
    BY <2>2
  <2> QED
    BY <1>1, <2>1, <2>2, <2>3 DEF HeaOK, Advance
<1>5. ASSUME XidRelease
      PROVE  Advance /\ FleetOK' /\ HeaOK'
  <2> DEFINE p == Home[hea.n]
             s == cpool[p]
  <2>1. hea.pc = "release" /\ hea.n \in Name /\ p \in Pool /\ Behind(machine, node, hea.n)
        /\ hea.node \in Node /\ hea.node.present /\ hea.node.cordoned
    BY <1>1, <1>5, PoolAssumption DEF XidRelease, HeaOK
  <2>2. Ledger(machine, s)
    BY <1>1, <2>1 DEF FleetOK
  <2>3. machine' = machine \/ machine' = [machine EXCEPT ![hea.n] = "gone"]
    BY <1>5 DEF XidRelease, ReleaseSucceeds, ReleaseFails, RecordsOf
  <2>4. UNCHANGED <<node, busy, pool, demand, cpool, cnode, cdemand, settled>>
        /\ provider' = [provider EXCEPT ![p].built = TRUE]
        /\ hea' = [pc |-> "store", n |-> hea.n, node |-> hea.node,
                   base |-> s, copy |-> Released(hea.n, s)]
    BY <1>5 DEF XidRelease
  <2>5. Advance
    BY <1>1, <2>1, <2>3, <2>4 DEF Advance, Behind, FleetOK, FleetTypeOK, MachineState
  <2>6. FleetTypeOK'
    BY <1>1, <2>3, <2>4 DEF FleetTypeOK
  <2>7. FleetOK'
    BY <1>1, <2>4, <2>5, <2>6, FleetFrame
  <2>8. Revision(machine', s, Released(hea.n, s))
    BY <2>1, <2>2, <2>5, ReleasedRevision, RevisionStays DEF Advance
  <2> HIDE DEF s, p
  <2> QED
    BY <2>1, <2>4, <2>5, <2>7, <2>8 DEF HeaOK, Advance
<1>6. ASSUME hea.pc \in {"release", "store"}, ToFinish, Advance
      PROVE  HeaOK'
  BY <1>1, <1>6 DEF ToFinish, HeaOK, Advance
<1>7. ASSUME XidNoProvider \/ XidDropped
      PROVE  Advance /\ FleetOK' /\ HeaOK'
  BY <1>1, <1>6, <1>7, FleetUntouched DEF XidNoProvider, XidDropped
<1>8. ASSUME XidStored
      PROVE  Advance /\ FleetOK' /\ HeaOK'
  <2>1. Revision(machine, hea.base, hea.copy)
    BY <1>1, <1>8 DEF XidStored, HeaOK
  <2>2. Advance /\ FleetOK'
    BY <1>1, <1>8, <2>1, StatusWritten DEF XidStored
  <2> QED
    BY <1>6, <1>8, <2>2 DEF XidStored
<1>9. ASSUME XidFinish
      PROVE  Advance /\ FleetOK' /\ HeaOK'
  <2> DEFINE o == [hea.node EXCEPT !.xid = FALSE, !.eligible = "false"]
  <2>1. hea.n \in Name /\ hea.node \in Node /\ hea.node.present /\ hea.node.cordoned
    BY <1>1, <1>9 DEF XidFinish, HeaOK
  <2>2. o \in Node /\ o.present /\ o.cordoned
    BY <2>1 DEF Node
  <2>3. NodeUpdate(hea.n, hea.node, o)
    BY <1>9 DEF XidFinish
  <2> HIDE DEF o
  <2>4. Advance /\ FleetOK'
    BY <1>1, <1>9, <2>1, <2>2, <2>3, NodeWritten DEF XidFinish
  <2> QED
    BY <1>9, <2>4 DEF XidFinish, HealthIdle, HeaOK
<1>10. ASSUME XidRetry
       PROVE  Advance /\ FleetOK' /\ HeaOK'
  <2>1. Advance /\ FleetOK'
    BY <1>1, <1>10, FleetUntouched DEF XidRetry
  <2> QED
    BY <1>10, <2>1 DEF XidRetry, HealthIdle, HeaOK
<1> QED
  BY <1>2, <1>3, <1>4, <1>5, <1>7, <1>8, <1>9, <1>10 DEF HealthNext

\* A status update of the policy that is accepted writes the demand back that
\* is there: what was read has that version (BufStatus).
LEMMA AcceptedIsNoChange ==
    ASSUME demand \in Policy, DemandOK, BufStatus
    PROVE  demand' = demand
<1>1. /\ SameVersion(buf.read) /\ demand.version = buf.read.version
      /\ demand' = [demand EXCEPT !.ewma = buf.read.ewma]
  BY DEF BufStatus, DemandOK
<1>2. demand.ewma = buf.read.ewma
  BY <1>1 DEF SameVersion
<1> QED
  BY <1>1, <1>2 DEF Policy

LEMMA BufferStepInv ==
    ASSUME Inv, BufNext, UNCHANGED <<pctl, hea>>
    PROVE  StateOK'
<1>1. FleetOK /\ FleetTypeOK /\ PctlOK /\ BufOK /\ HeaOK
  BY DEF Inv, StateOK, FleetOK
<1> SUFFICES Advance /\ FleetOK' /\ BufOK'
  BY <1>1, PctlFrame, HeaFrame DEF Inv, StateOK
<1>2. ASSUME buf'.pc \in {"idle", "plan", "entry", "status"}
      PROVE  BufOK'
  BY <1>2 DEF BufOK
<1>3. ASSUME NEW todo, ToEntries(todo)
      PROVE  BufOK'
  BY <1>2, <1>3 DEF ToEntries
<1>4. ASSUME ToStatus
      PROVE  BufOK'
  BY <1>2, <1>4 DEF ToStatus
\* Steps that leave the fleet alone and drop the copy.
<1>5. CASE EntryRefused \/ LaunchesDropped \/ DrainCordonFails \/ ScaleDropped
  <2>1. UNCHANGED fleet /\ BufOK'
    BY <1>3, <1>4, <1>5
    DEF EntryRefused, LaunchesDropped, DrainCordonFails, ScaleDropped
  <2> QED
    BY <1>1, <2>1, FleetUntouched
<1>6. CASE BufCount
  <2>1. UNCHANGED fleet
    BY <1>6 DEF BufCount
  <2> DEFINE excess == CountWarm - DesiredWarm(cdemand.ewma)
  <2>2. \/ buf'.pc \in {"plan", "status"}
        \/ buf' = [pc |-> "scale", read |-> cdemand, excess |-> excess, i |-> 1]
    <3> HIDE DEF excess
    <3> QED
      BY <1>6 DEF BufCount, excess
  <2> HIDE DEF excess
  <2>3. BufOK'
    BY <1>2, <2>2 DEF BufOK
  <2> QED
    BY <1>1, <2>1, <2>3, FleetUntouched
<1>7. CASE BufPlan
  <2>1. UNCHANGED fleet /\ BufOK'
    BY <1>3, <1>7 DEF BufPlan
  <2> QED
    BY <1>1, <2>1, FleetUntouched
<1>8. CASE BufStatusFails
  <2>1. UNCHANGED fleet /\ BufOK'
    BY <1>2, <1>8 DEF BufStatusFails, BufIdle
  <2> QED
    BY <1>1, <2>1, FleetUntouched
<1>9. CASE BufStatus
  <2>1. demand' = demand
    BY <1>1, <1>9, AcceptedIsNoChange DEF Inv, FleetTypeOK
  <2>2. UNCHANGED fleet /\ BufOK'
    BY <1>2, <1>9, <2>1 DEF BufStatus, BufIdle, fleet
  <2> QED
    BY <1>1, <2>2, FleetUntouched
<1>10. CASE EntryQuoted
  <2> DEFINE p == Head(buf.todo).pool
  <2>0. p \in Pool
    BY <1>10 DEF EntryQuoted
  <2>1. PICK usd \in {0, Price[p], provider[p].usd} :
          /\ provider' = [provider EXCEPT ![p].built = TRUE, ![p].usd = usd]
          /\ buf' = [pc |-> "launch", read |-> buf.read, todo |-> Tail(buf.todo), p |-> p,
                     left |-> Head(buf.todo).count, base |-> cpool[p], copy |-> cpool[p]]
    BY <1>10 DEF EntryQuoted
  <2> HIDE DEF p
  <2>2. usd \in Nat
    BY <1>1, <2>0, ProviderAssumption DEF FleetTypeOK
  <2>3. provider' \in [Pool -> [built : BOOLEAN, usd : Nat, ice : BOOLEAN]]
    BY <1>1, <2>1, <2>2 DEF FleetTypeOK
  <2>4. Advance /\ FleetOK'
    BY <1>1, <1>10, <2>3, ProviderTouched DEF EntryQuoted
  <2>5. machine' = machine
    BY <1>10 DEF EntryQuoted
  <2>6. Revision(machine, cpool[p], cpool[p])
    BY <1>1, <2>0, FreshRevision DEF FleetOK
  <2>7. BufOK'
    BY <2>0, <2>1, <2>5, <2>6 DEF BufOK
  <2> QED
    BY <2>4, <2>7
<1>11. ASSUME NEW n \in Name, Launch(n)
       PROVE  Advance /\ FleetOK' /\ BufOK'
  <2> DEFINE rec == [name |-> n, state |-> "provisioning", origin |-> "provisioned"]
             t == [buf.copy EXCEPT !.provisioning = @ + 1, !.recs = Append(@, rec)]
  <2>1. /\ buf = [pc |-> "launch", read |-> buf.read, todo |-> buf.todo, p |-> buf.p,
                  left |-> buf.left, base |-> buf.base, copy |-> buf.copy]
        /\ buf.p \in Pool
        /\ Revision(machine, buf.base, buf.copy)
    BY <1>1, <1>11 DEF Launch, BufOK
  <2>2. buf' = [pc |-> "launch", read |-> buf.read, todo |-> buf.todo, p |-> buf.p,
                left |-> buf.left - 1, base |-> buf.base, copy |-> t]
    BY <1>11, <2>1 DEF Launch
  <2>3. buf.copy \in PoolStatus
    BY <2>1 DEF Revision, Ledger
  <2>4. rec \in Record /\ rec.name = n
    BY DEF Record
  <2>5. t \in PoolStatus /\ t.recs = Append(buf.copy.recs, rec)
    <3> HIDE DEF rec
    <3>1. Append(buf.copy.recs, rec) \in Seq(Record) /\ buf.copy.provisioning + 1 \in Int
      BY <2>3, <2>4, StatusFields
    <3> QED
      BY <2>3, <3>1, StatusFields DEF PoolStatus
  <2> HIDE DEF rec, t
  <2>6. PICK st \in {"running", "placeholder"} : machine' = [machine EXCEPT ![n] = st]
    BY <1>11 DEF Launch
  <2>7. machine[n] = "unused" /\ UNCHANGED <<node, busy, pool, demand, cpool, cnode, cdemand,
                                             provider, settled>>
    BY <1>11 DEF Launch
  <2>8. Advance
    BY <1>1, <2>6, <2>7 DEF Advance, Behind, FleetOK, FleetTypeOK, MachineState
  <2>9. FleetTypeOK'
    BY <1>1, <2>6, <2>7 DEF FleetTypeOK
  <2>10. FleetOK'
    BY <1>1, <2>7, <2>8, <2>9, FleetFrame
  <2>11. machine'[n] # "unused"
    BY <1>1, <2>6 DEF FleetTypeOK
  <2>12. Revision(machine', buf.base, t)
    <3>1. \A x \in Name : machine[x] # "unused" => machine'[x] # "unused"
      BY <2>8 DEF Advance
    <3> QED
      BY <2>1, <2>4, <2>5, <2>7, <2>11, <3>1, LaunchedRevision
  <2>13. BufOK'
    BY <2>1, <2>2, <2>12 DEF BufOK
  <2> QED
    BY <2>8, <2>10, <2>13
<1>12. CASE LaunchFails
  <2>1. provider' \in [Pool -> [built : BOOLEAN, usd : Nat, ice : BOOLEAN]]
    <3>1. PICK ice \in BOOLEAN : provider' = [provider EXCEPT ![buf.p].ice = ice]
      <4>1. buf.p \in Pool
        BY <1>1, <1>12 DEF LaunchFails, BufOK
      <4>2. provider[buf.p].ice \in BOOLEAN
        BY <1>1, <4>1 DEF FleetTypeOK
      <4> QED
        BY <1>12, <4>2 DEF LaunchFails
    <3> QED
      BY <1>1, <3>1 DEF FleetTypeOK
  <2>2. Advance /\ FleetOK'
    BY <1>1, <1>12, <2>1, ProviderTouched DEF LaunchFails
  <2> QED
    BY <1>3, <1>12, <2>2 DEF LaunchFails
<1>13. CASE LaunchesStored
  <2>1. Revision(machine, buf.base, buf.copy)
    BY <1>1, <1>13 DEF LaunchesStored, BufOK
  <2>2. Advance /\ FleetOK'
    BY <1>1, <1>13, <2>1, StatusWritten DEF LaunchesStored
  <2> QED
    BY <1>3, <1>13, <2>2 DEF LaunchesStored
<1>14. CASE ScalePool
  <2>1. UNCHANGED fleet /\ UNCHANGED machine /\ buf.pc = "scale" /\ buf.i \in Nat \ {0}
    BY <1>1, <1>14 DEF ScalePool, BufOK, fleet
  <2>2. CASE buf.i > Len(PolicyPools)
    BY <1>1, <1>4, <1>14, <2>1, <2>2, FleetUntouched DEF ScalePool
  <2>3. CASE ~ (buf.i > Len(PolicyPools))
    <3> DEFINE p == PolicyPools[buf.i]
    <3>1. p \in Pool
      BY <2>1, <2>3, PolicyAssumption
    <3>2. buf' = [pc |-> "rec", read |-> buf.read, excess |-> buf.excess, i |-> buf.i,
                  p |-> p, base |-> cpool[p], copy |-> cpool[p], r |-> 1]
      BY <1>14, <2>3 DEF ScalePool
    <3> HIDE DEF p
    <3>3. Revision(machine, cpool[p], cpool[p])
      BY <1>1, <3>1, FreshRevision DEF FleetOK
    <3>4. BufOK'
      BY <2>1, <3>1, <3>2, <3>3 DEF BufOK
    <3> QED
      BY <1>1, <2>1, <3>4, FleetUntouched
  <2> QED
    BY <2>2, <2>3
\* What scaleDown knows while it goes through the records of a pool.
<1>15. ASSUME buf.pc \in {"rec", "evict", "release"}
       PROVE  /\ buf = [pc |-> buf.pc, read |-> buf.read, excess |-> buf.excess,
                        i |-> buf.i, p |-> buf.p, base |-> buf.base, copy |-> buf.copy,
                        r |-> buf.r]
              /\ buf.i \in Nat \ {0} /\ buf.p \in Pool /\ buf.r \in Nat \ {0}
              /\ Revision(machine, buf.base, buf.copy)
              /\ buf.copy \in PoolStatus
  BY <1>1, <1>15 DEF BufOK, Revision, Ledger
<1>16. ASSUME NEW r \in 1..Len(buf.copy.recs), buf.pc = "rec", DrainAbsent(r)
       PROVE  Advance /\ FleetOK' /\ BufOK'
  <2>1. UNCHANGED fleet /\ UNCHANGED machine
    BY <1>16 DEF DrainAbsent, fleet
  <2>2. r + 1 \in Nat \ {0}
    OBVIOUS
  <2>3. buf' = [pc |-> "rec", read |-> buf.read, excess |-> buf.excess - 1, i |-> buf.i,
                p |-> buf.p, base |-> buf.base, copy |-> buf.copy, r |-> r + 1]
    BY <1>15, <1>16 DEF DrainAbsent
  <2>4. BufOK'
    BY <1>15, <1>16, <2>1, <2>2, <2>3 DEF BufOK
  <2> QED
    BY <1>1, <2>1, <2>4, FleetUntouched
<1>17. ASSUME NEW r \in 1..Len(buf.copy.recs), buf.pc = "rec", DrainCordon(r)
       PROVE  Advance /\ FleetOK' /\ BufOK'
  <2> DEFINE n == buf.copy.recs[r].name
             o == [cnode[n] EXCEPT !.cordoned = TRUE]
  <2>1. n \in Name
    BY <1>15, <1>17, StatusFields
  <2>2. cnode[n] \in Node /\ cnode[n].present /\ NodeUpdate(n, cnode[n], o)
    BY <1>1, <1>17, <2>1 DEF DrainCordon, FleetTypeOK
  <2>3. o \in Node /\ o.present /\ o.cordoned
    BY <2>2 DEF Node
  <2>4. buf' = [pc |-> "evict", read |-> buf.read, excess |-> buf.excess, i |-> buf.i,
                p |-> buf.p, base |-> buf.base, copy |-> buf.copy, r |-> r]
    BY <1>15, <1>17 DEF DrainCordon
  <2>5. UNCHANGED <<machine, busy, pool, demand, cpool, cnode, cdemand, provider, settled>>
    BY <1>17 DEF DrainCordon
  <2> HIDE DEF o
  <2>6. Advance /\ FleetOK' /\ node'[n] = o
    BY <1>1, <2>1, <2>2, <2>3, <2>5, NodeWritten
  <2>7. Behind(machine', node', n)
    BY <2>3, <2>6 DEF Behind
  <2>8. BufOK'
    BY <1>15, <1>17, <2>4, <2>5, <2>7 DEF BufOK
  <2> QED
    BY <2>6, <2>8
<1>18. CASE DrainEvict
  <2>1. Advance /\ FleetOK'
    BY <1>1, <1>18, PodsTouched DEF DrainEvict
  <2>2. buf.pc = "evict" /\ UNCHANGED <<machine, node>>
    BY <1>18 DEF DrainEvict
  <2>3. buf' = [pc |-> "release", read |-> buf.read, excess |-> buf.excess, i |-> buf.i,
                p |-> buf.p, base |-> buf.base, copy |-> buf.copy, r |-> buf.r]
    BY <1>15, <1>18, <2>2 DEF DrainEvict
  <2>4. buf.r \in 1..Len(buf.copy.recs) /\ Behind(machine, node, buf.copy.recs[buf.r].name)
    BY <1>1, <2>2 DEF BufOK
  <2>5. BufOK'
    BY <1>15, <2>2, <2>3, <2>4 DEF BufOK
  <2> QED
    BY <2>1, <2>5
<1>19. CASE DrainRelease
  <2> DEFINE n == buf.copy.recs[buf.r].name
             rec == [buf.copy.recs[buf.r] EXCEPT !.state = "released"]
             recs == [buf.copy.recs EXCEPT ![buf.r] = rec]
             t == [buf.copy EXCEPT !.buffered = @ - 1, !.recs = recs]
  <2>1. buf.pc = "release" /\ buf.r \in 1..Len(buf.copy.recs) /\ Behind(machine, node, n)
    BY <1>1, <1>19 DEF DrainRelease, BufOK
  <2>2. n \in Name /\ buf.copy.recs \in Seq(Record) /\ buf.copy.recs[buf.r] \in Record
    BY <1>15, <2>1, StatusFields
  <2>3. machine' = machine \/ machine' = [machine EXCEPT ![n] = "gone"]
    BY <1>19 DEF DrainRelease, ReleaseSucceeds
  <2>4. UNCHANGED <<node, busy, pool, demand, cpool, cnode, cdemand, settled>>
        /\ provider' = [provider EXCEPT ![buf.p].built = TRUE]
    BY <1>19 DEF DrainRelease
  <2>5. buf' = [pc |-> "rec", read |-> buf.read, excess |-> buf.excess - 1, i |-> buf.i,
                p |-> buf.p, base |-> buf.base, copy |-> t, r |-> buf.r + 1]
    BY <1>15, <1>19, <2>1 DEF DrainRelease
  <2>6. Advance
    BY <1>1, <2>1, <2>2, <2>3, <2>4 DEF Advance, Behind, FleetOK, FleetTypeOK, MachineState
  <2>7. FleetTypeOK'
    BY <1>1, <2>2, <2>3, <2>4 DEF FleetTypeOK
  <2>8. FleetOK'
    BY <1>1, <2>4, <2>6, <2>7, FleetFrame
  <2>9. rec \in Record /\ rec.name = n /\ rec.origin = buf.copy.recs[buf.r].origin
    BY <2>2 DEF Record
  <2>10. recs \in Seq(Record) /\ Len(recs) = Len(buf.copy.recs)
         /\ \A i \in 1..Len(recs) : /\ recs[i].name = buf.copy.recs[i].name
                                     /\ recs[i].origin = buf.copy.recs[i].origin
    <3> HIDE DEF rec
    <3> QED
      BY <2>1, <2>2, <2>9
  <2> HIDE DEF rec, recs
  <2>11. t \in PoolStatus /\ t.recs = recs
    <3>1. buf.copy \in PoolStatus /\ buf.copy.buffered - 1 \in Int
      BY <1>15, <2>1, StatusFields
    <3> QED
      BY <2>10, <3>1, StatusFields DEF PoolStatus
  <2> HIDE DEF t, n
  <2>12. Ledger(machine, t) /\ Continues(buf.copy, t)
    BY <1>15, <2>1, <2>10, <2>11, Rewritten DEF Revision
  <2>13. Revision(machine, buf.base, t)
    BY <1>15, <2>1, <2>12, ContinuesTrans DEF Revision, Ledger
  <2>14. Revision(machine', buf.base, t)
    BY <2>6, <2>13, RevisionStays DEF Advance
  <2>15. BufOK'
    BY <1>15, <2>1, <2>5, <2>14 DEF BufOK
  <2> QED
    BY <2>6, <2>8, <2>15
<1>20. CASE ScaleStored
  <2>1. buf.pc = "rec" /\ StatusUpdate(buf.p, buf.base, buf.copy)
        /\ buf' = [pc |-> "scale", read |-> buf.read, excess |-> buf.excess, i |-> buf.i + 1]
    BY <1>20 DEF ScaleStored
  <2>2. Advance /\ FleetOK'
    BY <1>1, <1>15, <1>20, <2>1, StatusWritten DEF ScaleStored
  <2>3. BufOK'
    BY <1>15, <2>1 DEF BufOK
  <2> QED
    BY <2>2, <2>3
<1>21. ASSUME NEW n \in Name, LaunchUnanswered(n)
       PROVE  Advance /\ FleetOK' /\ BufOK'
  <2>1. machine' = [machine EXCEPT ![n] = "running"] /\ machine[n] = "unused"
        /\ UNCHANGED <<node, busy, pool, demand, cpool, cnode, cdemand, provider, settled>>
    BY <1>21 DEF LaunchUnanswered
  <2>2. Advance
    BY <1>1, <2>1 DEF Advance, Behind, FleetOK, FleetTypeOK, MachineState
  <2>3. FleetTypeOK'
    BY <1>1, <2>1 DEF FleetTypeOK
  <2>4. FleetOK'
    BY <1>1, <2>1, <2>2, <2>3, FleetFrame
  <2> QED
    BY <1>3, <1>21, <2>2, <2>4 DEF LaunchUnanswered
<1>22. CASE DrainReleaseFails
  <2> DEFINE n == buf.copy.recs[buf.r].name
  <2>1. buf.pc = "release" /\ buf.r \in 1..Len(buf.copy.recs) /\ Behind(machine, node, n)
    BY <1>1, <1>22 DEF DrainReleaseFails, BufOK
  <2>2. n \in Name
    BY <1>15, <2>1, StatusFields
  <2>3. machine' = machine \/ machine' = [machine EXCEPT ![n] = "gone"]
    BY <1>22 DEF DrainReleaseFails, ReleaseFails
  <2>4. UNCHANGED <<node, busy, pool, demand, cpool, cnode, cdemand, settled>>
        /\ (provider' = provider \/ provider' = [provider EXCEPT ![buf.p].built = TRUE])
    BY <1>22 DEF DrainReleaseFails
  <2>5. Advance
    BY <1>1, <2>1, <2>2, <2>3, <2>4 DEF Advance, Behind, FleetOK, FleetTypeOK, MachineState
  <2>6. FleetTypeOK'
    <3>1. provider' \in [Pool -> [built : BOOLEAN, usd : Nat, ice : BOOLEAN]]
      BY <1>1, <2>4 DEF FleetTypeOK
    <3>2. machine' \in [Name -> {"unused", "running", "gone", "placeholder"}]
      BY <1>1, <2>2, <2>3 DEF FleetTypeOK
    <3> QED
      BY <1>1, <2>4, <3>1, <3>2 DEF FleetTypeOK
  <2>7. FleetOK'
    BY <1>1, <2>4, <2>5, <2>6, FleetFrame
  <2> QED
    BY <1>4, <1>22, <2>5, <2>7 DEF DrainReleaseFails
<1>23. ASSUME NEW r \in (IF buf.pc = "rec" THEN 1..Len(buf.copy.recs) ELSE {}),
              DrainAbsent(r) \/ DrainCordon(r)
       PROVE  Advance /\ FleetOK' /\ BufOK'
  BY <1>16, <1>17, <1>23
<1> QED
  BY <1>5, <1>6, <1>7, <1>8, <1>9, <1>10, <1>11, <1>12, <1>13, <1>14, <1>18, <1>19,
     <1>20, <1>21, <1>22, <1>23 DEF BufNext

-----------------------------------------------------------------------------
(* The theorems.                                                           *)

\* What a step of the buffer controller does to the policy it has read: it
\* reads it anew when it starts, and keeps it until it is done.
LEMMA BufferReads ==
    ASSUME BufOK, BufNext
    PROVE  \/ buf'.pc = "idle"
           \/ buf'.read = cdemand
           \/ buf.pc # "idle" /\ buf'.read = buf.read
<1> DEFINE Keeps == buf.pc # "idle" /\ buf'.read = buf.read
<1>1. ASSUME buf.pc # "idle", NEW todo, ToEntries(todo)
      PROVE  Keeps
  BY <1>1 DEF ToEntries
<1>2. ASSUME buf.pc # "idle", ToStatus
      PROVE  Keeps
  BY <1>2 DEF ToStatus
<1>3. CASE BufCount
  <2> DEFINE excess == CountWarm - DesiredWarm(cdemand.ewma)
  <2>1. buf' \in {[pc |-> "plan", read |-> cdemand, need |-> 0 - excess],
                  [pc |-> "scale", read |-> cdemand, excess |-> excess, i |-> 1],
                  [pc |-> "status", read |-> cdemand]}
    <3> HIDE DEF excess
    <3> QED
      BY <1>3 DEF BufCount, excess
  <2> HIDE DEF excess
  <2> QED
    BY <2>1
<1>4. CASE BufPlan \/ EntryRefused \/ LaunchFails \/ LaunchesStored \/ LaunchesDropped
           \/ \E n \in Name : LaunchUnanswered(n)
  BY <1>1, <1>4 DEF BufPlan, EntryRefused, LaunchFails, LaunchesStored, LaunchesDropped,
                    LaunchUnanswered
<1>5. CASE DrainCordonFails \/ DrainReleaseFails \/ ScaleDropped
  BY <1>2, <1>5 DEF DrainCordonFails, DrainReleaseFails, ScaleDropped
<1>6. CASE EntryQuoted
  BY <1>6 DEF EntryQuoted
<1>7. ASSUME NEW n \in Name, Launch(n)
      PROVE  Keeps
  <2>1. buf.pc = "launch" /\ buf = [pc |-> "launch", read |-> buf.read, todo |-> buf.todo,
                   p |-> buf.p, left |-> buf.left, base |-> buf.base, copy |-> buf.copy]
    BY <1>7 DEF Launch, BufOK
  <2> QED
    BY <1>7, <2>1 DEF Launch
<1>8. CASE ScalePool
  BY <1>2, <1>8 DEF ScalePool
<1>9. ASSUME buf.pc \in {"rec", "evict", "release"}
      PROVE  buf = [pc |-> buf.pc, read |-> buf.read, excess |-> buf.excess, i |-> buf.i,
                    p |-> buf.p, base |-> buf.base, copy |-> buf.copy, r |-> buf.r]
  BY <1>9 DEF BufOK
<1>10. ASSUME NEW r, DrainAbsent(r) \/ DrainCordon(r)
       PROVE  Keeps
  BY <1>9, <1>10 DEF DrainAbsent, DrainCordon
<1>11. CASE DrainEvict
  BY <1>9, <1>11 DEF DrainEvict
<1>12. CASE DrainRelease
  BY <1>9, <1>12 DEF DrainRelease
<1>13. CASE ScaleStored
  BY <1>13 DEF ScaleStored
<1>14. CASE BufStatus \/ BufStatusFails
  BY <1>14 DEF BufStatus, BufStatusFails, BufIdle
<1> QED
  BY <1>3, <1>4, <1>5, <1>6, <1>7, <1>8, <1>10, <1>11, <1>12, <1>13, <1>14 DEF BufNext

\* No controller changes the policy, and none the cache.
LEMMA DemandUnchanged ==
    ASSUME Inv, PoolNext \/ BufNext \/ HealthNext
    PROVE  UNCHANGED <<demand, cdemand>>
<1>1. CASE PoolNext
  BY <1>1 DEF PoolNext, PoolRead, PoolWrite, PoolConflict, fleet
<1>2. CASE HealthNext
  BY <1>2 DEF HealthNext, BootCheck, XidCordon, XidDrain, XidRelease, XidNoProvider,
              XidStored, XidDropped, XidFinish, XidRetry, fleet
<1>3. CASE BufStatus
  <2>1. demand' = demand
    BY <1>3, AcceptedIsNoChange DEF Inv, StateOK, FleetOK, FleetTypeOK
  <2> QED
    BY <1>3, <2>1 DEF BufStatus
<1>4. CASE BufNext /\ ~ BufStatus
  BY <1>4 DEF BufNext, BufCount, BufPlan, EntryRefused, EntryQuoted, Launch, LaunchUnanswered,
              LaunchFails, LaunchesStored, LaunchesDropped, ScalePool, DrainAbsent, DrainCordon,
              DrainCordonFails, DrainEvict, DrainRelease, DrainReleaseFails, ScaleStored,
              ScaleDropped, BufStatusFails, fleet
<1> QED
  BY <1>1, <1>2, <1>3, <1>4

\* Neither does the environment, but for the gateway's export and the cache's
\* catching up.
LEMMA EnvironmentDemand ==
    ASSUME Environment
    PROVE  \/ UNCHANGED <<demand, cdemand>>
           \/ \E d \in Demand : SetDemand(d)
           \/ SyncDemand
  BY DEF Environment, NodeJoin, MachineLost, NodeVanish, XidEvent, PodScheduled, PodLeaves,
         Settle, SyncNode, SyncPool

\* What was read of the policy stays the contents of its version.
LEMMA DemandStep == Inv /\ [PlaneNext]_vars => DemandOK'
<1> SUFFICES ASSUME Inv, [PlaneNext]_vars PROVE DemandOK'
  OBVIOUS
<1>1. BufOK /\ DemandOK /\ demand \in Policy
  BY DEF Inv, StateOK, FleetOK, FleetTypeOK
<1>2. CASE UNCHANGED <<demand, cdemand, buf>>
  BY <1>1, <1>2 DEF DemandOK, SameVersion
<1>3. CASE Environment /\ UNCHANGED <<pctl, buf, hea>>
  <2>1. ASSUME NEW d \in Demand, SetDemand(d)
        PROVE  DemandOK'
    <3>1. PICK v \in Nat : demand.version = v
      BY <1>1 DEF Policy
    <3>2. demand'.version = v + 1 /\ UNCHANGED cdemand
      BY <2>1, <3>1 DEF SetDemand
    <3>3. ASSUME NEW r, SameVersion(r)
          PROVE  SameVersion(r)'
      <4>1. PICK w \in Nat : r.version = w
        BY <3>3 DEF SameVersion, Policy
      <4> QED
        BY <3>1, <3>2, <3>3, <4>1 DEF SameVersion
    <3> QED
      BY <1>1, <1>3, <3>2, <3>3 DEF DemandOK
  <2>2. CASE SyncDemand
    BY <1>1, <1>3, <2>2 DEF SyncDemand, DemandOK, SameVersion, Policy
  <2> QED
    BY <1>2, <1>3, <2>1, <2>2, EnvironmentDemand
<1>4. CASE (PoolNext \/ HealthNext) /\ UNCHANGED buf
  BY <1>2, <1>4, DemandUnchanged
<1>5. CASE BufNext
  <2>1. UNCHANGED <<demand, cdemand>>
    BY <1>5, DemandUnchanged
  <2> QED
    BY <1>1, <1>5, <2>1, BufferReads DEF DemandOK, SameVersion
<1>6. CASE Crash
  BY <1>1, <1>6 DEF Crash, Restart, BufIdle, DemandOK, SameVersion, Policy
<1> QED
  BY <1>2, <1>3, <1>4, <1>5, <1>6 DEF PlaneNext, vars, fleet

\* Inv is inductive.
LEMMA StepInv == Inv /\ [PlaneNext]_vars => Inv'
<1> SUFFICES ASSUME Inv, [PlaneNext]_vars PROVE StateOK'
  BY DemandStep DEF Inv
<1>1. CASE UNCHANGED vars
  <2>1. UNCHANGED fleet /\ UNCHANGED <<pctl, buf, hea>>
    BY <1>1 DEF vars
  <2>2. Advance /\ FleetOK'
    BY <2>1, FleetUntouched DEF Inv, StateOK
  <2> QED
    BY <2>1, <2>2, PctlFrame, BufFrame, HeaFrame DEF Inv, StateOK
<1> QED
  BY <1>1, EnvironmentInv, PoolStepInv, BufferStepInv, HealthStepInv, CrashInv DEF PlaneNext

\* The shared state and the workers' locals keep their types, whatever the
\* controllers, the cloud and the crashes do.
THEOREM PlaneTypeCorrect == Spec => []TypeOK
<1>1. Inv => TypeOK
  <2> SUFFICES ASSUME Inv PROVE TypeOK
    OBVIOUS
  <2>1. FleetTypeOK /\ PoolTypeOK
    BY DEF Inv, StateOK, FleetOK, PctlOK
  <2>2. buf.pc \in {"launch", "rec", "evict", "release"} =>
            buf.p \in Pool /\ buf.base \in PoolStatus /\ buf.copy \in PoolStatus
    BY DEF Inv, StateOK, BufOK, Revision, Ledger
  <2>3. /\ hea.pc \in {"drain", "release", "store", "finish"} =>
              hea.n \in Name /\ hea.node \in Node
        /\ hea.pc = "store" => hea.base \in PoolStatus /\ hea.copy \in PoolStatus
    BY DEF Inv, StateOK, HeaOK, Revision, Ledger
  <2> QED
    BY <2>1, <2>2, <2>3 DEF TypeOK
<1> QED
  BY <1>1, InitInv, StepInv, PTL DEF Spec

\* A pool never has two records of one node, although the buffer controller
\* (provisionPool) and the pool controller (reconcileNodeRecords) both write
\* them, from reads that may be stale.
THEOREM PlaneOneRecord == Spec => []OneRecordPerNode
<1>1. Inv => OneRecordPerNode
  BY DEF Inv, StateOK, FleetOK, Ledger, OneRecordPerNode
<1> QED
  BY <1>1, InitInv, StepInv, PTL DEF Spec

\* A step puts a continuation in the place of one pool's status and leaves
\* the others alone, or changes no status.
OneContinues ==
    \/ UNCHANGED pool
    \/ \E p \in Pool, base, copy \in PoolStatus :
          Revision(machine, base, copy) /\ StatusUpdate(p, base, copy)

\* Every step of the plane is of that kind: all three controllers write
\* revisions, and nobody else writes.
LEMMA StepContinues == Inv /\ [PlaneNext]_vars => OneContinues
<1> SUFFICES ASSUME Inv, [PlaneNext]_vars PROVE OneContinues
  OBVIOUS
<1>1. FleetOK /\ PctlOK /\ BufOK /\ HeaOK
  BY DEF Inv, StateOK
<1>2. ASSUME NEW p \in Pool, NEW base, NEW copy, Revision(machine, base, copy),
             StatusUpdate(p, base, copy)
      PROVE  OneContinues
  BY <1>2 DEF OneContinues, Revision, Ledger
<1>3. CASE UNCHANGED vars
  BY <1>3 DEF vars, fleet, OneContinues
<1>4. CASE Environment \/ Crash
  BY <1>4 DEF Environment, Crash, Restart, NodeJoin, MachineLost, NodeVanish, XidEvent,
              PodScheduled, PodLeaves, Settle, SyncNode, SyncPool, SetDemand, SyncDemand,
              OneContinues
<1>5. CASE PoolNext
  <2>1. CASE PoolWrite
    BY <1>1, <1>2, <2>1 DEF PoolWrite, PctlOK, PoolTypeOK, PoolIdle
  <2>2. CASE ~ PoolWrite
    BY <1>5, <2>2 DEF PoolNext, PoolRead, PoolConflict, fleet, OneContinues
  <2> QED
    BY <2>1, <2>2
<1>6. CASE BufNext
  <2>1. CASE LaunchesStored \/ ScaleStored
    BY <1>1, <1>2, <2>1 DEF LaunchesStored, ScaleStored, BufOK
  <2>2. CASE ~ (LaunchesStored \/ ScaleStored)
    <3>1. pool' = pool
      BY <1>6, <2>2
      DEF BufNext, BufCount, BufPlan, EntryRefused, EntryQuoted, Launch, LaunchFails,
          LaunchUnanswered, LaunchesDropped, ScalePool, DrainAbsent, DrainCordon, DrainCordonFails, DrainEvict,
          DrainRelease, DrainReleaseFails, ScaleDropped, BufStatus, BufStatusFails, fleet
    <3> QED
      BY <3>1 DEF OneContinues
  <2> QED
    BY <2>1, <2>2
<1>7. CASE HealthNext
  <2>1. CASE XidStored
    <3>1. hea.n \in Name /\ Home[hea.n] \in Pool
      BY <1>1, <2>1, PoolAssumption DEF XidStored, HeaOK
    <3> QED
      BY <1>1, <1>2, <2>1, <3>1 DEF XidStored, HeaOK
  <2>2. CASE ~ XidStored
    <3>1. pool' = pool
      BY <1>7, <2>2
      DEF HealthNext, BootCheck, XidCordon, XidDrain, XidRelease, XidNoProvider, XidDropped,
          XidFinish, XidRetry, fleet
    <3> QED
      BY <3>1 DEF OneContinues
  <2> QED
    BY <2>1, <2>2
<1> QED
  BY <1>3, <1>4, <1>5, <1>6, <1>7 DEF PlaneNext

\* The entries of a continuation extend those of the status before it.
LEMMA EntriesExtend ==
    ASSUME NEW s, NEW t, Revision(machine, s, t)
    PROVE  Book!Extends(Entries(s), Entries(t))
<1>1. /\ s \in PoolStatus /\ t \in PoolStatus
      /\ Len(s.recs) \in Nat /\ Len(t.recs) \in Nat
      /\ \A i \in 1..Len(t.recs) : t.recs[i] \in Record
  BY StatusFields DEF Revision, Ledger
<1>2. /\ Len(Entries(s)) = Len(s.recs) /\ Len(Entries(t)) = Len(t.recs)
      /\ \A i \in 1..Len(s.recs) : Entries(s)[i] = <<s.recs[i].name, s.recs[i].origin>>
      /\ \A i \in 1..Len(t.recs) : Entries(t)[i] = <<t.recs[i].name, t.recs[i].origin>>
  BY <1>1 DEF Entries
<1>3. \A i \in 1..Len(t.recs) : Entries(t)[i] \in Name \X {"provisioned", "discovered"}
  <2> SUFFICES ASSUME NEW i \in 1..Len(t.recs)
               PROVE  Entries(t)[i] \in Name \X {"provisioned", "discovered"}
    OBVIOUS
  <2>1. t.recs[i] \in Record
    BY <1>1
  <2>2. t.recs[i].name \in Name /\ t.recs[i].origin \in {"provisioned", "discovered"}
    BY <2>1 DEF Record
  <2>3. Entries(t)[i] = <<t.recs[i].name, t.recs[i].origin>>
    BY <1>2
  <2> QED
    BY <2>2, <2>3
<1>4. Len(s.recs) <= Len(t.recs) /\ \A i \in 1..Len(s.recs) : Entries(t)[i] = Entries(s)[i]
  <2>1. Continues(s, t)
    BY DEF Revision
  <2>2. ASSUME NEW i \in 1..Len(s.recs)
        PROVE  Entries(t)[i] = Entries(s)[i]
    <3>1. /\ i \in 1..Len(t.recs) /\ t.recs[i].name = s.recs[i].name
          /\ t.recs[i].origin = s.recs[i].origin
      BY <1>1, <2>1 DEF Continues
    <3> QED
      BY <1>2, <3>1
  <2> QED
    BY <2>1, <2>2 DEF Continues
<1>5. \A i, j \in 1..Len(t.recs) : Entries(t)[i][1] = Entries(t)[j][1] => i = j
  BY <1>2 DEF Revision, Ledger
<1> HIDE DEF Entries
<1> QED
  BY <1>2, <1>3, <1>4, <1>5 DEF Book!Extends, Book!Entry

\* The capacity plane implements NodeLedger: read through Entries, its
\* controllers, stale copies, retries and restarts only ever add to the end
\* of one pool's book.
THEOREM PlaneKeepsLedger == Spec => KeepsLedger
<1> DEFINE book == [p \in Pool |-> Entries(pool[p])]
<1>1. PlaneInit => Book!LedgerInit
  <2> SUFFICES ASSUME PlaneInit PROVE book = [p \in Pool |-> <<>>]
    BY DEF Book!LedgerInit
  <2>1. \A p \in Pool : pool[p].recs = <<>>
    BY DEF PlaneInit, Init, EmptyStatus
  <2>2. \A p \in Pool : Entries(pool[p]) = <<>>
    BY <2>1 DEF Entries
  <2> QED
    BY <2>2
<1>2. Inv /\ OneContinues => [Book!LedgerNext]_book
  <2> SUFFICES ASSUME Inv, OneContinues PROVE [Book!LedgerNext]_book
    OBVIOUS
  <2>1. CASE UNCHANGED pool
    BY <2>1
  <2>2. ASSUME NEW p \in Pool, NEW base \in PoolStatus, NEW copy \in PoolStatus,
               Revision(machine, base, copy), StatusUpdate(p, base, copy)
        PROVE  Book!LedgerNext
    <3>1. pool \in [Pool -> PoolStatus]
      BY DEF Inv, StateOK, FleetOK, FleetTypeOK
    <3>2. /\ pool[p] = base /\ pool'[p] = copy
          /\ \A q \in Pool \ {p} : pool'[q] = pool[q]
      BY <2>2, <3>1 DEF StatusUpdate
    <3>3. Book!Extends(Entries(pool[p]), Entries(pool'[p]))
      BY <2>2, <3>2, EntriesExtend
    <3>4. \A q \in Pool \ {p} : Entries(pool'[q]) = Entries(pool[q])
      BY <3>2
    <3> HIDE DEF Entries
    <3>5. Book!Enter(p)
      BY <3>3, <3>4 DEF Book!Enter
    <3> QED
      BY <3>5 DEF Book!LedgerNext
  <2> QED
    BY <2>1, <2>2 DEF OneContinues
<1>3. Inv /\ [PlaneNext]_vars => [Book!LedgerNext]_book
  BY <1>2, StepContinues
<1> QED
  BY <1>1, <1>3, InitInv, StepInv, PTL DEF Spec, KeepsLedger, Book!LedgerSpec

\* Only a machine whose node is cordoned, or has left the cluster, is ever
\* terminated by a controller (drainAndRelease, handleXidCritical), however
\* old the copy is that the controller works from.
THEOREM PlaneReleasedBehindCordon == Spec => ReleasedBehindCordon
<1> DEFINE Safe == \A n \in Name : machine[n] = "running" /\ machine'[n] = "gone" =>
                       \/ UNCHANGED <<pctl, buf, hea>>
                       \/ node[n].cordoned \/ ~ node[n].present
<1>1. Inv /\ [PlaneNext]_vars => Safe
  <2> SUFFICES ASSUME Inv, [PlaneNext]_vars PROVE Safe
    OBVIOUS
  <2>1. FleetTypeOK /\ BufOK /\ HeaOK /\ machine \in [Name -> MachineState]
    BY DEF Inv, StateOK, FleetOK, FleetTypeOK, MachineState
  <2>2. ASSUME machine' = machine
        PROVE  Safe
    BY <2>2
  <2>3. ASSUME NEW n, machine' = [machine EXCEPT ![n] = "gone"], Behind(machine, node, n)
        PROVE  Safe
    BY <2>1, <2>3 DEF Behind
  <2>4. CASE UNCHANGED vars
    BY <2>2, <2>4 DEF vars, fleet
  <2>5. CASE Environment /\ UNCHANGED <<pctl, buf, hea>>
    BY <2>5
  <2>6. CASE Crash \/ PoolNext
    <3>1. machine' = machine
      BY <2>6 DEF Crash, Restart, PoolNext, PoolRead, PoolWrite, PoolConflict, fleet
    <3> QED
      BY <2>2, <3>1
  <2>7. CASE BufNext
    <3>1. CASE DrainRelease \/ DrainReleaseFails
      BY <2>1, <2>2, <2>3, <3>1
      DEF DrainRelease, DrainReleaseFails, ReleaseSucceeds, ReleaseFails, BufOK
    <3>2. ASSUME NEW n \in Name, Launch(n) \/ LaunchUnanswered(n)
          PROVE  Safe
      BY <2>1, <3>2 DEF Launch, LaunchUnanswered
    <3>3. CASE ~ (\/ DrainRelease \/ DrainReleaseFails
                  \/ \E n \in Name : Launch(n) \/ LaunchUnanswered(n))
      <4>1. machine' = machine
        BY <2>7, <3>3
        DEF BufNext, BufCount, BufPlan, EntryRefused, EntryQuoted, LaunchFails, LaunchesStored,
            LaunchesDropped, ScalePool, DrainAbsent, DrainCordon, DrainCordonFails, DrainEvict,
            ScaleStored, ScaleDropped, BufStatus, BufStatusFails, fleet
      <4> QED
        BY <2>2, <4>1
    <3> QED
      BY <3>1, <3>2, <3>3
  <2>8. CASE HealthNext
    <3>1. CASE XidRelease
      <4>1. Behind(machine, node, hea.n)
        BY <2>1, <3>1 DEF XidRelease, HeaOK
      <4>2. machine' = machine \/ machine' = [machine EXCEPT ![hea.n] = "gone"]
        BY <3>1 DEF XidRelease, ReleaseSucceeds, ReleaseFails, RecordsOf
      <4> QED
        BY <2>2, <2>3, <4>1, <4>2
    <3>2. CASE ~ XidRelease
      <4>1. machine' = machine
        BY <2>8, <3>2
        DEF HealthNext, BootCheck, XidCordon, XidDrain, XidNoProvider, XidStored, XidDropped,
            XidFinish, XidRetry, fleet
      <4> QED
        BY <2>2, <4>1
    <3> QED
      BY <3>1, <3>2
  <2> QED
    BY <2>4, <2>5, <2>6, <2>7, <2>8 DEF PlaneNext
<1>2. Inv /\ [PlaneNext]_vars => [Safe]_vars
  BY <1>1
<1> QED
  BY <1>2, InitInv, StepInv, PTL DEF Spec, ReleasedBehindCordon

\* Only the gateway changes DemandEWMA: what the buffer controller writes back
\* was read before, perhaps long before, but under the version the API holds,
\* so it is the demand that is there (Status().Update of the BufferPolicy).
THEOREM PlaneDemandKept == Spec => DemandKept
<1>1. Inv /\ [PlaneNext]_vars =>
          [demand'.ewma # demand.ewma => UNCHANGED <<pctl, buf, hea>>]_vars
  <2> SUFFICES ASSUME Inv, PlaneNext
               PROVE  demand'.ewma # demand.ewma => UNCHANGED <<pctl, buf, hea>>
    OBVIOUS
  <2>1. CASE Environment /\ UNCHANGED <<pctl, buf, hea>>
    BY <2>1
  <2>2. CASE Crash
    BY <2>2 DEF Crash, Restart
  <2>3. CASE PoolNext \/ BufNext \/ HealthNext
    BY <2>3, DemandUnchanged
  <2> QED
    BY <2>1, <2>2, <2>3 DEF PlaneNext
<1> QED
  BY <1>1, InitInv, StepInv, PTL DEF Spec, DemandKept
=============================================================================
