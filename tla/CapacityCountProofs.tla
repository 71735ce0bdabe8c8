------------------------ MODULE CapacityCountProofs -------------------------
(***************************************************************************)
(* Proofs about the counters of a pool's status, which the buffer          *)
(* controller goes by: every node still provisioning is counted, and the   *)
(* count of buffered nodes never goes below zero, although scaleDown       *)
(* counts it down from a copy while the pool controller recounts.          *)
(*                                                                         *)
(* The recount leaves out the buffered records of nodes that are not in    *)
(* the cache, so a record may say buffered and not be counted, and the     *)
(* count is not a bound on those records.  It is one on those whose node   *)
(* has not left for good: a record says buffered only once its node has    *)
(* been in the cache, a node leaves the cache only after its machine is    *)
(* gone, and neither comes back.  scaleDown counts down only for a node    *)
(* that is in the cache when it is cordoned, and it may be lost between    *)
(* that and the release: from the cordon on the count holds one more.      *)
(***************************************************************************)
EXTENDS CapacityPlaneProofs

\* The nodes that left the cluster and the cache, with their machine, and
\* the nodes that have been in the cache.
Lost == {n \in Name : machine[n] = "gone" /\ ~ node[n].present /\ ~ cnode[n].present}
Seen == Lost \cup {n \in Name : cnode[n].present}

\* A node that the cache has and the API does not has lost its machine.
CacheFollows == \A n \in Name : cnode[n].present => node[n].present \/ machine[n] = "gone"

Provisioning(s) == {i \in 1..Len(s.recs) : s.recs[i].state = "provisioning"}
Warm(lost, s) == {i \in 1..Len(s.recs) : s.recs[i].state = "buffered"
                                         /\ s.recs[i].name \notin lost}

\* What holds of every copy of the status of pool p.
Counted(seen, lost, p, s) ==
    /\ \A i \in 1..Len(s.recs) : Home[s.recs[i].name] = p
    /\ \A i \in 1..Len(s.recs) : s.recs[i].state = "buffered" => s.recs[i].name \in seen
    /\ Cardinality(Provisioning(s)) <= s.provisioning
    /\ Cardinality(Warm(lost, s)) <= s.buffered

StatusesCounted ==
    \A p \in Pool : Counted(Seen, Lost, p, pool[p]) /\ Counted(Seen, Lost, p, cpool[p])

PctlCounted == pctl.pc = "write" => Counted(Seen, Lost, pctl.p, pctl.copy)

BufCounted ==
    /\ buf.pc \in {"launch", "rec", "evict", "release"} =>
          Counted(Seen, Lost, buf.p, buf.copy)
    /\ buf.pc \in {"evict", "release"} =>
          Cardinality(Warm(Lost, buf.copy) \ {buf.r}) + 1 <= buf.copy.buffered

HeaCounted == hea.pc = "store" => Counted(Seen, Lost, Home[hea.n], hea.copy)

CountInv == CacheFollows /\ StatusesCounted /\ PctlCounted /\ BufCounted /\ HeaCounted

-----------------------------------------------------------------------------
(* Sets of indices, and counted statuses.                                  *)

\* A set of indices is finite.
LEMMA IndicesFinite ==
    ASSUME NEW len \in Nat, NEW S, S \subseteq 1..len
    PROVE  IsFiniteSet(S)
<1>1. IsFiniteSet(1..len)
  BY FS_Interval
<1> QED
  BY <1>1, FS_Subset

\* A subset of the indices is no larger.
LEMMA FewerIndices ==
    ASSUME NEW len \in Nat, NEW S, S \subseteq 1..len, NEW T, T \subseteq S
    PROVE  /\ Cardinality(S) \in Nat /\ Cardinality(T) \in Nat
           /\ Cardinality(T) <= Cardinality(S)
<1>1. IsFiniteSet(S)
  BY IndicesFinite
<1>2. Cardinality(T) <= Cardinality(S)
  BY <1>1, FS_Subset
<1> QED
  BY <1>2, IndexCount

\* One index more, and one less.
LEMMA OneIndexMore ==
    ASSUME NEW len \in Nat, NEW S, S \subseteq 1..len, NEW x
    PROVE  Cardinality(S \cup {x}) <= Cardinality(S) + 1
<1>1. IsFiniteSet(S)
  BY IndicesFinite
<1>2. Cardinality(S \cup {x}) = IF x \in S THEN Cardinality(S) ELSE Cardinality(S) + 1
  BY <1>1, FS_AddElement
<1>3. Cardinality(S) \in Nat
  BY IndexCount
<1> QED
  BY <1>2, <1>3

LEMMA OneIndexLess ==
    ASSUME NEW len \in Nat, NEW S, S \subseteq 1..len, NEW x \in S
    PROVE  Cardinality(S \ {x}) = Cardinality(S) - 1
<1>1. IsFiniteSet(S)
  BY IndicesFinite
<1> QED
  BY <1>1, FS_RemoveElement

\* A status stays counted as more nodes are seen and lost.
LEMMA CountedStays ==
    ASSUME NEW s \in PoolStatus, NEW p, NEW seen, NEW lost, NEW seen2, NEW lost2,
           Counted(seen, lost, p, s), seen \subseteq seen2, lost \subseteq lost2
    PROVE  Counted(seen2, lost2, p, s)
<1>1. Len(s.recs) \in Nat /\ s.buffered \in Int
  BY StatusFields
<1>2. Warm(lost2, s) \subseteq Warm(lost, s) /\ Warm(lost, s) \subseteq 1..Len(s.recs)
  BY DEF Warm
<1>3. /\ Cardinality(Warm(lost, s)) \in Nat /\ Cardinality(Warm(lost2, s)) \in Nat
      /\ Cardinality(Warm(lost2, s)) <= Cardinality(Warm(lost, s))
  BY <1>1, <1>2, FewerIndices
<1>4. Cardinality(Warm(lost2, s)) <= s.buffered
  BY <1>1, <1>3 DEF Counted
<1> QED
  BY <1>4 DEF Counted

\* A status whose records keep their names, and whose states are kept or
\* become released, stays counted by the same counters.
LEMMA ReleasingCounted ==
    ASSUME NEW s \in PoolStatus, NEW t \in PoolStatus, NEW p, NEW seen, NEW lost,
           Counted(seen, lost, p, s), Len(t.recs) = Len(s.recs),
           \A i \in 1..Len(s.recs) : t.recs[i].name = s.recs[i].name
                                     /\ t.recs[i].state \in {s.recs[i].state, "released"},
           t.provisioning = s.provisioning, Cardinality(Warm(lost, t)) <= t.buffered
    PROVE  Counted(seen, lost, p, t)
<1>1. Len(s.recs) \in Nat /\ s.provisioning \in Int
  BY StatusFields
<1>2. Provisioning(t) \subseteq Provisioning(s) /\ Provisioning(s) \subseteq 1..Len(s.recs)
  BY DEF Provisioning
<1>3. /\ Cardinality(Provisioning(s)) \in Nat /\ Cardinality(Provisioning(t)) \in Nat
      /\ Cardinality(Provisioning(t)) <= Cardinality(Provisioning(s))
  BY <1>1, <1>2, FewerIndices
<1>4. Cardinality(Provisioning(t)) <= t.provisioning
  BY <1>1, <1>3 DEF Counted
<1> QED
  BY <1>4 DEF Counted

\* handleXidCritical releases the records of a node and leaves the counters.
LEMMA ReleasedCounted ==
    ASSUME NEW n \in Name, NEW s, Ledger(machine, s), NEW p, NEW seen, NEW lost,
           Counted(seen, lost, p, s)
    PROVE  Counted(seen, lost, p, Released(n, s))
<1> DEFINE new == [i \in 1..Len(s.recs) |->
                      IF i \in RecordsOf(n, s) THEN [s.recs[i] EXCEPT !.state = "released"]
                      ELSE s.recs[i]]
           t == Released(n, s)
<1>1. s \in PoolStatus /\ t \in PoolStatus /\ Len(s.recs) \in Nat
      /\ \A i \in 1..Len(s.recs) : s.recs[i] \in Record
  BY ReleasedRevision, StatusFields DEF Revision, Ledger
<1>2. t.recs = new /\ t.provisioning = s.provisioning /\ t.buffered = s.buffered
  BY <1>1 DEF Released, PoolStatus
<1>3. Len(t.recs) = Len(s.recs)
  BY <1>1, <1>2
<1>4. \A i \in 1..Len(s.recs) : t.recs[i].name = s.recs[i].name
                                /\ t.recs[i].state \in {s.recs[i].state, "released"}
  BY <1>1, <1>2 DEF Record
<1> HIDE DEF new, t
<1>5. Warm(lost, t) \subseteq Warm(lost, s) /\ Warm(lost, s) \subseteq 1..Len(s.recs)
  BY <1>3, <1>4 DEF Warm
<1>6. /\ Cardinality(Warm(lost, s)) \in Nat /\ Cardinality(Warm(lost, t)) \in Nat
      /\ Cardinality(Warm(lost, t)) <= Cardinality(Warm(lost, s))
  BY <1>1, <1>5, FewerIndices
<1>7. Cardinality(Warm(lost, t)) <= t.buffered
  BY <1>1, <1>2, <1>6, StatusFields DEF Counted
<1>8. Counted(seen, lost, p, t)
  BY <1>1, <1>2, <1>3, <1>4, <1>7, ReleasingCounted
<1> QED
  BY <1>8 DEF t

\* provisionPool appends a record and counts it.
LEMMA LaunchedCounted ==
    ASSUME NEW s \in PoolStatus, NEW t \in PoolStatus, NEW p, NEW seen, NEW lost,
           Counted(seen, lost, p, s), NEW n \in Name, Home[n] = p,
           t.recs = Append(s.recs, [name |-> n, state |-> "provisioning",
                                    origin |-> "provisioned"]),
           t.provisioning = s.provisioning + 1, t.buffered = s.buffered
    PROVE  Counted(seen, lost, p, t)
<1> DEFINE k == Len(s.recs)
<1>1. k \in Nat /\ s.recs \in Seq(Record) /\ s.provisioning \in Int /\ s.buffered \in Int
  BY StatusFields
<1>2. /\ Len(t.recs) = k + 1
      /\ \A i \in 1..k : t.recs[i] = s.recs[i]
      /\ t.recs[k + 1].name = n /\ t.recs[k + 1].state = "provisioning"
  BY <1>1
<1> HIDE DEF k
<1>3. \A i \in 1..Len(t.recs) : i \in 1..k \/ i = k + 1
  BY <1>1, <1>2
<1>4. Provisioning(t) \subseteq Provisioning(s) \cup {k + 1} /\ Provisioning(s) \subseteq 1..k
  BY <1>2, <1>3 DEF Provisioning, k
<1>5. Warm(lost, t) \subseteq Warm(lost, s) /\ Warm(lost, s) \subseteq 1..k
  BY <1>2, <1>3 DEF Warm, k
<1>6. Cardinality(Provisioning(t)) <= t.provisioning
  <2>1. Provisioning(s) \cup {k + 1} \subseteq 1..(k + 1) /\ k + 1 \in Nat
    BY <1>1, <1>4
  <2>2. /\ Cardinality(Provisioning(t)) \in Nat
        /\ Cardinality(Provisioning(s) \cup {k + 1}) \in Nat
        /\ Cardinality(Provisioning(t)) <= Cardinality(Provisioning(s) \cup {k + 1})
    BY <1>4, <2>1, FewerIndices
  <2>3. Cardinality(Provisioning(s) \cup {k + 1}) <= Cardinality(Provisioning(s)) + 1
    BY <1>1, <1>4, OneIndexMore
  <2>4. Cardinality(Provisioning(s)) \in Nat /\ Cardinality(Provisioning(s)) <= s.provisioning
    BY <1>1, <1>4, IndexCount DEF Counted
  <2> QED
    BY <1>1, <2>2, <2>3, <2>4
<1>7. Cardinality(Warm(lost, t)) <= t.buffered
  <2>1. /\ Cardinality(Warm(lost, s)) \in Nat /\ Cardinality(Warm(lost, t)) \in Nat
        /\ Cardinality(Warm(lost, t)) <= Cardinality(Warm(lost, s))
    BY <1>1, <1>5, FewerIndices
  <2> QED
    BY <1>1, <2>1 DEF Counted
<1>8. \A i \in 1..Len(t.recs) : Home[t.recs[i].name] = p
  BY <1>2, <1>3 DEF Counted, k
<1>9. \A i \in 1..Len(t.recs) : t.recs[i].state = "buffered" => t.recs[i].name \in seen
  BY <1>2, <1>3 DEF Counted, k
<1> QED
  BY <1>6, <1>7, <1>8, <1>9 DEF Counted

\* The records after discovery: those there were, and one in state discovered
\* for each listed node that had none.
LEMMA DiscoveredRecords ==
    ASSUME NEW p \in Pool, NEW s \in PoolStatus, NEW order \in SetToSeqs(Unknown(p, s))
    PROVE  \A i \in 1..Len(Discover(s, order)) :
               \/ i \in 1..Len(s.recs) /\ Discover(s, order)[i] = s.recs[i]
               \/ /\ Discover(s, order)[i].state = "discovered"
                  /\ Discover(s, order)[i].name \in Listed(p)
<1> DEFINE U == Unknown(p, s)
           k == Cardinality(U)
           d == [i \in 1..Len(order) |->
                    [name |-> order[i], state |-> "discovered", origin |-> "discovered"]]
           r == Discover(s, order)
<1>1. U \subseteq Listed(p) /\ U \subseteq Name
  BY DEF Unknown, Listed
<1>2. k \in Nat
  BY <1>1, FS_Subset, FS_CardinalityType, PoolAssumption
<1>3. order \in [1..k -> U]
  BY DEF SetToSeqs
<1>4. Len(order) = k
  BY <1>2, <1>3
<1>5. d \in Seq(Record) /\ Len(d) = k
      /\ \A i \in 1..k : d[i].name \in Listed(p) /\ d[i].state = "discovered"
  <2>1. d = [i \in 1..k |-> [name |-> order[i], state |-> "discovered",
                             origin |-> "discovered"]]
    BY <1>4
  <2>2. \A i \in 1..k : order[i] \in Name /\ order[i] \in Listed(p)
    BY <1>1, <1>3
  <2> HIDE DEF d, k
  <2>3. d \in [1..k -> Record]
    BY <2>1, <2>2 DEF Record
  <2>4. d \in Seq(Record) /\ Len(d) = k
    BY <1>2, <2>3, FunctionIsSeq
  <2> QED
    BY <2>1, <2>2, <2>4
<1>6. s.recs \in Seq(Record) /\ Len(s.recs) \in Nat
  BY StatusFields
<1>7. /\ Len(r) = Len(s.recs) + k
      /\ \A i \in 1..Len(s.recs) : r[i] = s.recs[i]
      /\ \A i \in (Len(s.recs) + 1)..(Len(s.recs) + k) : r[i] = d[i - Len(s.recs)]
  <2>1. r = s.recs \o d
    BY DEF Discover
  <2> HIDE DEF d, r, k
  <2>2. /\ s.recs \o d \in Seq(Record) /\ Len(s.recs \o d) = Len(s.recs) + Len(d)
        /\ \A i \in 1..Len(s.recs) : (s.recs \o d)[i] = s.recs[i]
        /\ \A i \in (Len(s.recs) + 1)..(Len(s.recs) + Len(d)) :
              (s.recs \o d)[i] = d[i - Len(s.recs)]
    <3>1. s.recs \in Seq(Record) /\ d \in Seq(Record)
      BY <1>5, <1>6
    <3> QED
      BY <3>1, ConcatFacts, Zenon
  <2> QED
    BY <1>5, <2>1, <2>2
<1> HIDE DEF d, r, k, U
<1> SUFFICES ASSUME NEW i \in 1..Len(r)
             PROVE  \/ i \in 1..Len(s.recs) /\ r[i] = s.recs[i]
                    \/ r[i].state = "discovered" /\ r[i].name \in Listed(p)
  BY DEF r
<1>8. CASE i <= Len(s.recs)
  BY <1>8, <1>2, <1>6, <1>7
<1>9. CASE i > Len(s.recs)
  <2>1. i - Len(s.recs) \in 1..k /\ i \in (Len(s.recs) + 1)..(Len(s.recs) + k)
    BY <1>9, <1>2, <1>6, <1>7
  <2> QED
    BY <2>1, <1>5, <1>7
<1> QED
  BY <1>8, <1>9, <1>2, <1>6, <1>7

\* The recount of reconcileNodeRecords covers the provisioning records and the
\* buffered ones whose node is not lost.
LEMMA RelabelledCounted ==
    ASSUME FleetTypeOK, NEW p \in Pool, NEW s \in PoolStatus, NEW recs \in Seq(Record),
           \A i \in 1..Len(recs) : Home[recs[i].name] = p,
           \A i \in 1..Len(recs) : recs[i].state = "buffered" => recs[i].name \in Seen
    PROVE  Counted(Seen, Lost, p, Relabelled(s, recs, Listed(p)))
<1> DEFINE L == Listed(p)
           new == [i \in 1..Len(recs) |->
                      IF recs[i].name \in L
                      THEN [recs[i] EXCEPT !.state = StateOf(cnode[recs[i].name])]
                      ELSE recs[i]]
           Here(st) == {i \in 1..Len(new) : new[i].name \in L /\ new[i].state = st}
           Prov == {i \in 1..Len(new) : new[i].name \notin L /\ new[i].state = "provisioning"}
           t == Relabelled(s, recs, Listed(p))
<1>1. Len(recs) \in Nat /\ \A i \in 1..Len(recs) : recs[i] \in Record /\ recs[i].name \in Name
  <2>1. Len(recs) \in Nat /\ \A i \in 1..Len(recs) : recs[i] \in Record
    OBVIOUS
  <2> QED
    BY <2>1 DEF Record
<1>2. \A n \in Name : StateOf(cnode[n]) \in {"draining", "buffered", "active"}
  BY DEF StateOf
<1>3. ASSUME NEW i \in 1..Len(recs)
      PROVE  /\ new[i].name = recs[i].name
             /\ recs[i].name \in L => new[i].state \in {"draining", "buffered", "active"}
             /\ recs[i].name \notin L => new[i].state = recs[i].state
  BY <1>1, <1>2 DEF Record
<1>4. Len(new) = Len(recs)
  BY <1>1
<1>5. /\ t.recs = new /\ t.buffered = Cardinality(Here("buffered"))
      /\ t.provisioning = Cardinality(Prov)
  <2> DEFINE x == Cardinality(Here("active"))
             y == Cardinality(Here("buffered"))
             z == Cardinality(Prov)
  <2>1. t = [s EXCEPT !.recs = new, !.active = x, !.buffered = y, !.provisioning = z]
    BY DEF Relabelled
  <2> HIDE DEF x, y, z, t, new
  <2>2. t.recs = new /\ t.buffered = y /\ t.provisioning = z
    BY <2>1 DEF PoolStatus
  <2> QED
    BY <2>2 DEF y, z
<1> HIDE DEF new, t, L
<1>6. \A n \in Name : n \in L <=> cnode[n].present /\ Home[n] = p
  BY DEF Listed, L
<1>7. \A i \in 1..Len(t.recs) : Home[t.recs[i].name] = p
  BY <1>3, <1>4, <1>5
<1>8. \A i \in 1..Len(t.recs) : t.recs[i].state = "buffered" => t.recs[i].name \in Seen
  BY <1>1, <1>3, <1>4, <1>5, <1>6 DEF Seen
<1>9. Provisioning(t) \subseteq Prov
  BY <1>3, <1>4, <1>5 DEF Provisioning
<1>10. Warm(Lost, t) \subseteq Here("buffered")
  <2> SUFFICES ASSUME NEW i \in 1..Len(recs), new[i].state = "buffered", new[i].name \notin Lost
               PROVE  new[i].name \in L
    BY <1>4, <1>5 DEF Warm
  <2>1. new[i].name \in Seen /\ new[i].name \in Name /\ Home[new[i].name] = p
    BY <1>1, <1>3, <1>4, <1>5, <1>7, <1>8
  <2> QED
    BY <2>1, <1>6 DEF Seen
<1>11. Prov \subseteq 1..Len(new) /\ Here("buffered") \subseteq 1..Len(new) /\ Len(new) \in Nat
  BY <1>1, <1>4
<1> HIDE DEF Prov, Here
<1>12. Cardinality(Provisioning(t)) <= t.provisioning
  BY <1>5, <1>9, <1>11, FewerIndices
<1>13. Cardinality(Warm(Lost, t)) <= t.buffered
  BY <1>5, <1>10, <1>11, FewerIndices
<1>14. Counted(Seen, Lost, p, t)
  BY <1>7, <1>8, <1>12, <1>13 DEF Counted
<1> QED
  BY <1>14 DEF t

\* So the status that the pool controller writes is counted.
LEMMA ReconciledCounted ==
    ASSUME FleetTypeOK, \A n \in Name : cnode[n].present => machine[n] # "unused",
           NEW p \in Pool, NEW s, Ledger(machine, s), Counted(Seen, Lost, p, s),
           NEW copy \in Reconciled(p, Observed(p, s))
    PROVE  Counted(Seen, Lost, p, copy)
<1> DEFINE o == Observed(p, s)
<1>1. Ledger(machine, o) /\ s \in PoolStatus
  BY ObservedLedger DEF Ledger
<1>2. PICK order \in SetToSeqs(Unknown(p, o)) :
          copy = Relabelled(o, Discover(o, order), Listed(p))
  BY DEF Reconciled
<1>3. o.recs = s.recs /\ o \in PoolStatus
  BY <1>1 DEF Observed, PoolStatus, Ledger
<1> HIDE DEF o
<1>4. Ledger(machine, [o EXCEPT !.recs = Discover(o, order)])
  BY <1>1, DiscoverLedger
<1> DEFINE recs == Discover(o, order)
<1>5. recs \in Seq(Record)
  <2>1. [o EXCEPT !.recs = recs] \in PoolStatus
    BY <1>4 DEF Ledger
  <2>2. [o EXCEPT !.recs = recs].recs = recs
    BY <1>3 DEF PoolStatus
  <2> HIDE DEF recs
  <2> QED
    BY <2>1, <2>2, StatusFields
<1>6. \A i \in 1..Len(recs) : \/ i \in 1..Len(s.recs) /\ recs[i] = s.recs[i]
                              \/ recs[i].state = "discovered" /\ recs[i].name \in Listed(p)
  BY <1>3, DiscoveredRecords
<1> HIDE DEF recs
<1>7. \A i \in 1..Len(recs) : Home[recs[i].name] = p
  BY <1>6 DEF Counted, Listed
<1>8. \A i \in 1..Len(recs) : recs[i].state = "buffered" => recs[i].name \in Seen
  BY <1>6 DEF Counted
<1> QED
  BY <1>2, <1>3, <1>5, <1>7, <1>8, RelabelledCounted DEF recs

-----------------------------------------------------------------------------
(* Nodes and machines go one way.                                          *)

\* A machine that is gone stays gone and its node does not come back, a node
\* leaves after its machine, and the cache only ever takes what the API has.
Onward ==
    \A n \in Name :
        /\ machine[n] = "gone" => machine'[n] = "gone"
        /\ machine[n] = "gone" /\ ~ node[n].present => ~ node'[n].present
        /\ node[n].present /\ ~ node'[n].present => machine'[n] = "gone"
        /\ cnode'[n] \in {cnode[n], node'[n]}

LEMMA OnwardSeen ==
    ASSUME CacheFollows, Onward
    PROVE  CacheFollows' /\ Seen \subseteq Seen' /\ Lost \subseteq Lost'
<1>1. CacheFollows'
  BY DEF CacheFollows, Onward
<1>2. Lost \subseteq Lost'
  BY DEF Lost, Onward
<1>3. \A n \in Name : cnode[n].present => n \in Seen'
  BY DEF CacheFollows, Onward, Seen, Lost
<1>4. Seen \subseteq Seen'
  BY <1>2, <1>3 DEF Seen
<1> QED
  BY <1>1, <1>2, <1>4

LEMMA StillOnward ==
    ASSUME UNCHANGED <<machine, node, cnode>>
    PROVE  Onward
  BY DEF Onward

\* An accepted update of a node that is there keeps it there.
LEMMA NodeWrittenOnward ==
    ASSUME FleetTypeOK, NEW n \in Name, NEW base, NEW o, base.present, o.present,
           NodeUpdate(n, base, o), UNCHANGED <<machine, cnode>>
    PROVE  Onward
<1>1. node' = [node EXCEPT ![n] = o] /\ node[n] = base /\ DOMAIN node = Name
  BY DEF NodeUpdate, FleetTypeOK
<1> QED
  BY <1>1 DEF Onward

LEMMA EnvironmentOnward ==
    ASSUME FleetTypeOK, Environment
    PROVE  Onward
<1> USE DEF Onward
<1>1. machine \in [Name -> MachineState] /\ node \in [Name -> Node] /\ cnode \in [Name -> Node]
  BY DEF FleetTypeOK, MachineState
<1>2. ASSUME NEW n \in Name, NodeJoin(n) PROVE Onward
  BY <1>1, <1>2 DEF NodeJoin, NoNode
<1>3. ASSUME NEW n \in Name, MachineLost(n) PROVE Onward
  BY <1>1, <1>3 DEF MachineLost
<1>4. ASSUME NEW n \in Name, NodeVanish(n) PROVE Onward
  BY <1>1, <1>4 DEF NodeVanish, NoNode
<1>5. ASSUME NEW n \in Name, XidEvent(n) PROVE Onward
  BY <1>1, <1>5 DEF XidEvent, Node
<1>6. ASSUME NEW n \in Name, SyncNode(n) PROVE Onward
  BY <1>1, <1>6 DEF SyncNode
<1>7. ASSUME NEW n \in Name, PodScheduled(n) \/ PodLeaves(n) \/ Settle(n) PROVE Onward
  BY <1>7, StillOnward DEF PodScheduled, PodLeaves, Settle
<1>8. ASSUME (\E p \in Pool : SyncPool(p)) \/ (\E d \in Demand : SetDemand(d)) \/ SyncDemand
      PROVE  Onward
  BY <1>8, StillOnward DEF SyncPool, SetDemand, SyncDemand
<1> QED
  BY <1>2, <1>3, <1>4, <1>5, <1>6, <1>7, <1>8 DEF Environment

LEMMA StepOnward ==
    ASSUME Inv, [PlaneNext]_vars
    PROVE  Onward
<1>1. /\ FleetTypeOK /\ BufOK /\ HeaOK
      /\ machine \in [Name -> MachineState] /\ node \in [Name -> Node] /\ cnode \in [Name -> Node]
  BY DEF Inv, StateOK, FleetOK, FleetTypeOK, MachineState
<1>2. CASE UNCHANGED vars
  BY <1>2, StillOnward DEF vars, fleet
<1>3. CASE Crash
  BY <1>1, <1>3 DEF Crash, Restart, Onward
<1>4. CASE PoolNext
  BY <1>4, StillOnward DEF PoolNext, PoolRead, PoolWrite, PoolConflict, fleet
<1>5. ASSUME NEW n, machine' = machine \/ machine' = [machine EXCEPT ![n] = "gone"],
             UNCHANGED <<node, cnode>>
      PROVE  Onward
  BY <1>1, <1>5 DEF Onward
<1>6. CASE BufNext
  <2>1. ASSUME NEW n \in Name, Launch(n) \/ LaunchUnanswered(n) PROVE Onward
    BY <1>1, <2>1 DEF Launch, LaunchUnanswered, Onward
  <2>2. CASE DrainRelease \/ DrainReleaseFails
    BY <1>5, <2>2 DEF DrainRelease, DrainReleaseFails, ReleaseSucceeds, ReleaseFails
  <2>3. ASSUME NEW r \in (IF buf.pc = "rec" THEN 1..Len(buf.copy.recs) ELSE {}), DrainCordon(r)
        PROVE  Onward
    <3> DEFINE n == buf.copy.recs[r].name
               o == [cnode[n] EXCEPT !.cordoned = TRUE]
    <3>1. buf.copy \in PoolStatus /\ r \in 1..Len(buf.copy.recs)
      BY <1>1, <2>3 DEF BufOK, Revision, Ledger, DrainCordon
    <3>2. n \in Name
      BY <3>1, StatusFields
    <3>3. cnode[n] \in Node /\ cnode[n].present /\ NodeUpdate(n, cnode[n], o)
          /\ UNCHANGED <<machine, cnode>>
      BY <1>1, <2>3, <3>2 DEF DrainCordon
    <3>4. o.present
      BY <3>3 DEF Node
    <3> HIDE DEF o, n
    <3> QED
      BY <1>1, <3>2, <3>3, <3>4, NodeWrittenOnward
  <2>4. CASE ~ \/ DrainRelease \/ DrainReleaseFails
               \/ \E n \in Name : Launch(n) \/ LaunchUnanswered(n)
               \/ \E r \in (IF buf.pc = "rec" THEN 1..Len(buf.copy.recs) ELSE {}) : DrainCordon(r)
    <3>1. UNCHANGED <<machine, node, cnode>>
      BY <1>6, <2>4
      DEF BufNext, BufCount, BufPlan, EntryRefused, EntryQuoted, LaunchFails, LaunchesStored,
          LaunchesDropped, ScalePool, DrainAbsent, DrainCordonFails, DrainEvict,
          ScaleStored, ScaleDropped, BufStatus, BufStatusFails, fleet
    <3> QED
      BY <3>1, StillOnward
  <2> QED
    BY <2>1, <2>2, <2>3, <2>4
<1>7. CASE HealthNext
  <2>1. ASSUME NEW n \in Name, BootCheck(n) PROVE Onward
    <3>1. PICK result : NodeUpdate(n, cnode[n], [cnode[n] EXCEPT !.eligible = result])
      BY <2>1 DEF BootCheck
    <3>2. cnode[n] \in Node /\ cnode[n].present /\ UNCHANGED <<machine, cnode>>
      BY <1>1, <2>1 DEF BootCheck
    <3>3. [cnode[n] EXCEPT !.eligible = result].present
      BY <3>2 DEF Node
    <3> QED
      BY <1>1, <3>1, <3>2, <3>3, NodeWrittenOnward
  <2>2. ASSUME NEW n \in Name, XidCordon(n) PROVE Onward
    <3>1. cnode[n] \in Node /\ cnode[n].present /\ UNCHANGED <<machine, cnode>>
          /\ NodeUpdate(n, cnode[n], [cnode[n] EXCEPT !.cordoned = TRUE])
      BY <1>1, <2>2 DEF XidCordon
    <3>2. [cnode[n] EXCEPT !.cordoned = TRUE].present
      BY <3>1 DEF Node
    <3> QED
      BY <1>1, <3>1, <3>2, NodeWrittenOnward
  <2>3. CASE XidRelease
    BY <1>5, <2>3 DEF XidRelease, ReleaseSucceeds, ReleaseFails
  <2>4. CASE XidFinish
    <3> DEFINE o == [hea.node EXCEPT !.xid = FALSE, !.eligible = "false"]
    <3>1. hea.n \in Name /\ hea.node \in Node /\ hea.node.present
          /\ NodeUpdate(hea.n, hea.node, o) /\ UNCHANGED <<machine, cnode>>
      BY <1>1, <2>4 DEF XidFinish, HeaOK
    <3>2. o.present
      BY <3>1 DEF Node
    <3> HIDE DEF o
    <3> QED
      BY <1>1, <3>1, <3>2, NodeWrittenOnward
  <2>5. CASE ~ (XidRelease \/ XidFinish \/ \E n \in Name : BootCheck(n) \/ XidCordon(n))
    <3>1. UNCHANGED <<machine, node, cnode>>
      BY <1>7, <2>5 DEF HealthNext, XidDrain, XidNoProvider, XidStored, XidDropped, XidRetry, fleet
    <3> QED
      BY <3>1, StillOnward
  <2> QED
    BY <2>1, <2>2, <2>3, <2>4, <2>5
<1> QED
  BY <1>1, <1>2, <1>3, <1>4, <1>6, <1>7, EnvironmentOnward DEF PlaneNext

-----------------------------------------------------------------------------
(* Every step keeps every copy counted.                                    *)

Forward == Seen \subseteq Seen' /\ Lost \subseteq Lost'

\* A worker that does not move.
LEMMA PctlCountFrame ==
    ASSUME PctlOK, PctlCounted, Forward, UNCHANGED pctl
    PROVE  PctlCounted'
<1>1. pctl.pc = "write" => pctl.copy \in PoolStatus
  BY DEF PctlOK, Revision, Ledger
<1>2. pctl.pc = "write" => Counted(Seen', Lost', pctl.p, pctl.copy)
  BY <1>1, CountedStays DEF PctlCounted, Forward
<1> QED
  BY <1>2 DEF PctlCounted

\* The copy of scaleDown, with the record that is being drained set apart.
LEMMA ReservedStays ==
    ASSUME NEW s \in PoolStatus, NEW lost, NEW lost2, lost \subseteq lost2, NEW r,
           Cardinality(Warm(lost, s) \ {r}) + 1 <= s.buffered
    PROVE  Cardinality(Warm(lost2, s) \ {r}) + 1 <= s.buffered
<1>1. Len(s.recs) \in Nat /\ s.buffered \in Int
  BY StatusFields
<1>2. /\ Warm(lost2, s) \ {r} \subseteq Warm(lost, s) \ {r}
      /\ Warm(lost, s) \ {r} \subseteq 1..Len(s.recs)
  BY DEF Warm
<1> DEFINE A == Warm(lost, s) \ {r}
           B == Warm(lost2, s) \ {r}
<1>3. A \subseteq 1..Len(s.recs) /\ B \subseteq A /\ Cardinality(A) + 1 <= s.buffered
  BY <1>2
<1> HIDE DEF A, B
<1>4. /\ Cardinality(A) \in Nat /\ Cardinality(B) \in Nat /\ Cardinality(B) <= Cardinality(A)
  BY <1>1, <1>3, FewerIndices
<1>5. Cardinality(B) + 1 <= s.buffered
  BY <1>1, <1>3, <1>4
<1> QED
  BY <1>5 DEF B

LEMMA BufCountFrame ==
    ASSUME BufOK, BufCounted, Forward, UNCHANGED buf
    PROVE  BufCounted'
<1>1. buf.pc \in {"launch", "rec", "evict", "release"} => buf.copy \in PoolStatus
  BY DEF BufOK, Revision, Ledger
<1>2. buf.pc \in {"launch", "rec", "evict", "release"} =>
          Counted(Seen', Lost', buf.p, buf.copy)
  BY <1>1, CountedStays DEF BufCounted, Forward
<1>3. buf.pc \in {"evict", "release"} =>
          Cardinality(Warm(Lost', buf.copy) \ {buf.r}) + 1 <= buf.copy.buffered
  BY <1>1, ReservedStays DEF BufCounted, Forward
<1> QED
  BY <1>2, <1>3 DEF BufCounted

LEMMA HeaCountFrame ==
    ASSUME HeaOK, HeaCounted, Forward, UNCHANGED hea
    PROVE  HeaCounted'
<1>1. hea.pc = "store" => hea.copy \in PoolStatus
  BY DEF HeaOK, Revision, Ledger
<1>2. hea.pc = "store" => Counted(Seen', Lost', Home[hea.n], hea.copy)
  BY <1>1, CountedStays DEF HeaCounted, Forward
<1> QED
  BY <1>2 DEF HeaCounted

\* The statuses of the API and of the cache, as long as each of them is one
\* that was there, or a counted copy that an update put in its place.
LEMMA StatusesCountFrame ==
    ASSUME FleetOK, StatusesCounted, Forward,
           \A p \in Pool :
               /\ pool'[p] = pool[p] \/ (pool'[p] \in PoolStatus
                                         /\ Counted(Seen, Lost, p, pool'[p]))
               /\ cpool'[p] \in {cpool[p], pool[p]}
    PROVE  StatusesCounted'
<1> SUFFICES ASSUME NEW p \in Pool
             PROVE  Counted(Seen', Lost', p, pool'[p]) /\ Counted(Seen', Lost', p, cpool'[p])
  BY DEF StatusesCounted
<1>1. /\ pool[p] \in PoolStatus /\ cpool[p] \in PoolStatus
      /\ Counted(Seen, Lost, p, pool[p]) /\ Counted(Seen, Lost, p, cpool[p])
  BY DEF FleetOK, FleetTypeOK, StatusesCounted
<1>2. /\ pool'[p] \in PoolStatus /\ Counted(Seen, Lost, p, pool'[p])
      /\ cpool'[p] \in PoolStatus /\ Counted(Seen, Lost, p, cpool'[p])
  BY <1>1
<1> QED
  BY <1>2, CountedStays DEF Forward

LEMMA UpdateCounted ==
    ASSUME FleetOK, StatusesCounted, Forward, NEW p \in Pool, NEW base, NEW copy \in PoolStatus,
           Counted(Seen, Lost, p, copy), StatusUpdate(p, base, copy), UNCHANGED cpool
    PROVE  StatusesCounted'
<1>1. pool' = [pool EXCEPT ![p] = copy] /\ DOMAIN pool = Pool
  BY DEF StatusUpdate, FleetOK, FleetTypeOK
<1>2. \A q \in Pool : pool'[q] = IF q = p THEN copy ELSE pool[q]
  BY <1>1
<1> QED
  BY <1>2, StatusesCountFrame

LEMMA StepStatuses ==
    ASSUME Inv, CountInv, Forward, [PlaneNext]_vars
    PROVE  StatusesCounted'
<1>1. FleetOK /\ PctlOK /\ BufOK /\ HeaOK /\ StatusesCounted /\ DOMAIN cpool = Pool
  BY DEF Inv, StateOK, CountInv, FleetOK, FleetTypeOK
<1>2. ASSUME UNCHANGED <<pool, cpool>> PROVE StatusesCounted'
  BY <1>1, <1>2, StatusesCountFrame
<1>3. CASE UNCHANGED vars
  BY <1>2, <1>3 DEF vars, fleet
<1>4. CASE Environment
  <2>1. ASSUME NEW p \in Pool, SyncPool(p) PROVE StatusesCounted'
    <3>1. pool' = pool /\ cpool' = [cpool EXCEPT ![p] = pool[p]]
      BY <2>1 DEF SyncPool
    <3>2. \A q \in Pool : cpool'[q] \in {cpool[q], pool[q]} /\ pool'[q] = pool[q]
      BY <1>1, <3>1
    <3> QED
      BY <1>1, <3>2, StatusesCountFrame
  <2>2. CASE ~ \E p \in Pool : SyncPool(p)
    BY <1>2, <1>4, <2>2
    DEF Environment, NodeJoin, MachineLost, NodeVanish, XidEvent, PodScheduled, PodLeaves,
        Settle, SyncNode, SetDemand, SyncDemand
  <2> QED
    BY <2>1, <2>2
<1>5. CASE Crash
  BY <1>1, <1>5, StatusesCountFrame DEF Crash, Restart
<1>6. CASE PoolNext
  <2>1. CASE PoolWrite
    <3>1. /\ pctl.p \in Pool /\ pctl.copy \in PoolStatus
          /\ Counted(Seen, Lost, pctl.p, pctl.copy)
          /\ StatusUpdate(pctl.p, pctl.base, pctl.copy) /\ UNCHANGED cpool
      BY <1>1, <2>1 DEF PoolWrite, PctlOK, PoolTypeOK, PoolIdle, CountInv, PctlCounted
    <3> QED
      BY <1>1, <3>1, UpdateCounted
  <2>2. CASE ~ PoolWrite
    BY <1>2, <1>6, <2>2 DEF PoolNext, PoolRead, PoolConflict, fleet
  <2> QED
    BY <2>1, <2>2
<1>7. CASE BufNext
  <2>1. CASE LaunchesStored \/ ScaleStored
    <3>1. /\ buf.p \in Pool /\ buf.copy \in PoolStatus
          /\ Counted(Seen, Lost, buf.p, buf.copy)
          /\ StatusUpdate(buf.p, buf.base, buf.copy) /\ UNCHANGED cpool
      BY <1>1, <2>1
      DEF LaunchesStored, ScaleStored, BufOK, Revision, Ledger, CountInv, BufCounted
    <3> QED
      BY <1>1, <3>1, UpdateCounted
  <2>2. CASE ~ (LaunchesStored \/ ScaleStored)
    <3>1. pool' = pool /\ cpool' = cpool
      BY <1>7, <2>2
      DEF BufNext, BufCount, BufPlan, EntryRefused, EntryQuoted, Launch, LaunchFails,
          LaunchUnanswered, LaunchesDropped, ScalePool, DrainAbsent, DrainCordon, DrainCordonFails, DrainEvict,
          DrainRelease, DrainReleaseFails, ScaleDropped, BufStatus, BufStatusFails, fleet
    <3> QED
      BY <1>2, <3>1
  <2> QED
    BY <2>1, <2>2
<1>8. CASE HealthNext
  <2>1. CASE XidStored
    <3>1. /\ Home[hea.n] \in Pool /\ hea.copy \in PoolStatus
          /\ Counted(Seen, Lost, Home[hea.n], hea.copy)
          /\ StatusUpdate(Home[hea.n], hea.base, hea.copy) /\ UNCHANGED cpool
      BY <1>1, <2>1, PoolAssumption
      DEF XidStored, HeaOK, Revision, Ledger, CountInv, HeaCounted
    <3> QED
      BY <1>1, <3>1, UpdateCounted
  <2>2. CASE ~ XidStored
    <3>1. pool' = pool /\ cpool' = cpool
      BY <1>8, <2>2
      DEF HealthNext, BootCheck, XidCordon, XidDrain, XidRelease, XidNoProvider, XidDropped,
          XidFinish, XidRetry, fleet
    <3> QED
      BY <1>2, <3>1
  <2> QED
    BY <2>1, <2>2
<1> QED
  BY <1>3, <1>4, <1>5, <1>6, <1>7, <1>8 DEF PlaneNext

LEMMA StepPctl ==
    ASSUME Inv, CountInv, Forward, PoolNext
    PROVE  PctlCounted'
<1>1. ASSUME NEW p \in Pool, PoolRead(p) PROVE PctlCounted'
  <2>1. PICK copy \in Reconciled(p, Observed(p, cpool[p])) :
            pctl' = [pc |-> "write", p |-> p, base |-> cpool[p], copy |-> copy]
    BY <1>1 DEF PoolRead
  <2>2. /\ FleetTypeOK /\ Ledger(machine, cpool[p]) /\ Counted(Seen, Lost, p, cpool[p])
        /\ \A n \in Name : cnode[n].present => machine[n] # "unused"
    BY DEF Inv, StateOK, FleetOK, CountInv, StatusesCounted
  <2>3. Counted(Seen, Lost, p, copy)
    BY <2>2, ReconciledCounted
  <2>4. copy \in PoolStatus
    BY <2>2, ReconciledRevision DEF Revision, Ledger
  <2>5. Counted(Seen', Lost', p, copy)
    BY <2>3, <2>4, CountedStays DEF Forward
  <2> QED
    BY <2>1, <2>5 DEF PctlCounted
<1>2. ASSUME PoolWrite \/ PoolConflict PROVE PctlCounted'
  BY <1>2 DEF PoolWrite, PoolConflict, PoolIdle, PctlCounted
<1> QED
  BY <1>1, <1>2 DEF PoolNext

LEMMA StepHea ==
    ASSUME Inv, CountInv, Forward, HealthNext
    PROVE  HeaCounted'
<1>1. CASE XidRelease
  <2> DEFINE p == Home[hea.n]
             s == cpool[p]
  <2>1. hea.n \in Name /\ p \in Pool
    BY <1>1, PoolAssumption DEF XidRelease, Inv, StateOK, HeaOK
  <2>2. Ledger(machine, s) /\ Counted(Seen, Lost, p, s)
    BY <2>1 DEF Inv, StateOK, FleetOK, CountInv, StatusesCounted
  <2>3. hea'.n = hea.n /\ hea'.copy = Released(hea.n, s)
    BY <1>1 DEF XidRelease
  <2> HIDE DEF s, p
  <2>4. Counted(Seen, Lost, p, Released(hea.n, s)) /\ Released(hea.n, s) \in PoolStatus
    BY <2>1, <2>2, ReleasedCounted, ReleasedRevision DEF Revision, Ledger
  <2>5. Counted(Seen', Lost', p, Released(hea.n, s))
    BY <2>4, CountedStays DEF Forward
  <2> QED
    BY <2>3, <2>5 DEF HeaCounted, p
<1>2. ASSUME NEW n \in Name, BootCheck(n) PROVE HeaCounted'
  BY <1>2, HeaCountFrame DEF BootCheck, Inv, StateOK, CountInv
<1>3. CASE ~ (XidRelease \/ \E n \in Name : BootCheck(n))
  <2>1. hea'.pc # "store"
    <3>1. CASE XidDrain
      <4>1. hea' = [hea EXCEPT !.pc = "release"]
            /\ hea = [pc |-> "drain", n |-> hea.n, node |-> hea.node]
        BY <3>1 DEF XidDrain, Inv, StateOK, HeaOK
      <4> QED
        BY <4>1
    <3>2. ASSUME NEW n \in Name, XidCordon(n) PROVE hea'.pc # "store"
      BY <3>2 DEF XidCordon
    <3>3. CASE XidNoProvider \/ XidStored \/ XidDropped
      BY <3>3 DEF XidNoProvider, XidStored, XidDropped, ToFinish
    <3>4. CASE XidFinish \/ XidRetry
      BY <3>4 DEF XidFinish, XidRetry, HealthIdle
    <3> QED
      BY <1>3, <3>1, <3>2, <3>3, <3>4 DEF HealthNext
  <2> QED
    BY <2>1 DEF HeaCounted
<1> QED
  BY <1>1, <1>2, <1>3

\* scaleDown releases a record that was set apart, and counts it down.
LEMMA DrainedCounted ==
    ASSUME NEW s \in PoolStatus, NEW t \in PoolStatus, NEW p, NEW seen, NEW lost,
           Counted(seen, lost, p, s), NEW r \in 1..Len(s.recs),
           Cardinality(Warm(lost, s) \ {r}) + 1 <= s.buffered,
           Len(t.recs) = Len(s.recs),
           \A i \in 1..Len(s.recs) :
               /\ t.recs[i].name = s.recs[i].name
               /\ t.recs[i].state = IF i = r THEN "released" ELSE s.recs[i].state,
           t.provisioning = s.provisioning, t.buffered = s.buffered - 1
    PROVE  Counted(seen, lost, p, t)
<1>1. Len(s.recs) \in Nat /\ s.buffered \in Int
  BY StatusFields
<1> DEFINE A == Warm(lost, s) \ {r}
<1>2. Warm(lost, t) \subseteq A /\ A \subseteq 1..Len(s.recs) /\ Cardinality(A) + 1 <= s.buffered
  BY DEF Warm
<1> HIDE DEF A
<1>3. /\ Cardinality(A) \in Nat /\ Cardinality(Warm(lost, t)) \in Nat
      /\ Cardinality(Warm(lost, t)) <= Cardinality(A)
  BY <1>1, <1>2, FewerIndices
<1>4. Cardinality(Warm(lost, t)) <= t.buffered
  BY <1>1, <1>2, <1>3
<1> QED
  BY <1>4, ReleasingCounted

LEMMA StepBuf ==
    ASSUME Inv, CountInv, Forward, BufNext
    PROVE  BufCounted'
<1>1. FleetOK /\ FleetTypeOK /\ BufOK /\ BufCounted /\ StatusesCounted
  BY DEF Inv, StateOK, CountInv, FleetOK
<1>2. ASSUME buf'.pc \in {"idle", "plan", "entry", "status", "scale"} PROVE BufCounted'
  BY <1>2 DEF BufCounted
<1>3. ASSUME NEW todo, ToEntries(todo) PROVE BufCounted'
  BY <1>2, <1>3 DEF ToEntries
<1>4. ASSUME ToStatus PROVE BufCounted'
  BY <1>2, <1>4 DEF ToStatus
\* A copy fresh from the cache.
<1>5. ASSUME NEW p \in Pool, buf'.pc \in {"launch", "rec"}, buf'.p = p, buf'.copy = cpool[p]
      PROVE  BufCounted'
  <2>1. Counted(Seen, Lost, p, cpool[p]) /\ cpool[p] \in PoolStatus
    BY <1>1 DEF StatusesCounted, FleetTypeOK
  <2>2. Counted(Seen', Lost', p, cpool[p])
    BY <2>1, CountedStays DEF Forward
  <2> QED
    BY <1>5, <2>2 DEF BufCounted
\* What is known of the copy that a worker has.
<1>6. ASSUME buf.pc \in {"launch", "rec", "evict", "release"}
      PROVE  buf.copy \in PoolStatus /\ buf.p \in Pool /\ Counted(Seen, Lost, buf.p, buf.copy)
  BY <1>1, <1>6 DEF BufOK, Revision, Ledger, BufCounted
<1>7. CASE EntryRefused \/ LaunchFails \/ LaunchesStored \/ LaunchesDropped
           \/ \E n \in Name : LaunchUnanswered(n)
  BY <1>3, <1>7
  DEF EntryRefused, LaunchFails, LaunchesStored, LaunchesDropped, LaunchUnanswered
<1>8. CASE DrainCordonFails \/ DrainReleaseFails \/ ScaleDropped
  BY <1>4, <1>8 DEF DrainCordonFails, DrainReleaseFails, ScaleDropped
<1>9. CASE BufStatus \/ BufStatusFails
  BY <1>2, <1>9 DEF BufStatus, BufStatusFails, BufIdle
<1>10. CASE BufPlan
  BY <1>3, <1>10 DEF BufPlan
<1>11. CASE BufCount
  <2> DEFINE excess == CountWarm - DesiredWarm(cdemand.ewma)
  <2>1. buf'.pc \in {"plan", "status", "scale"}
    <3> HIDE DEF excess
    <3> QED
      BY <1>11 DEF BufCount, excess
  <2> QED
    BY <1>2, <2>1
<1>12. CASE ScaleStored
  BY <1>2, <1>12 DEF ScaleStored
<1>13. CASE EntryQuoted
  BY <1>5, <1>13 DEF EntryQuoted
<1>14. CASE ScalePool
  <2>1. CASE buf.i > Len(PolicyPools)
    BY <1>4, <1>14, <2>1 DEF ScalePool
  <2>2. CASE ~ (buf.i > Len(PolicyPools))
    <3>1. PolicyPools[buf.i] \in Pool
      BY <1>1, <1>14, <2>2, PolicyAssumption DEF ScalePool, BufOK
    <3> QED
      BY <1>5, <1>14, <2>2, <3>1 DEF ScalePool
  <2> QED
    BY <2>1, <2>2
<1>15. ASSUME NEW n \in Name, Launch(n) PROVE BufCounted'
  <2> DEFINE rec == [name |-> n, state |-> "provisioning", origin |-> "provisioned"]
             t == [buf.copy EXCEPT !.provisioning = @ + 1, !.recs = Append(@, rec)]
  <2>1. buf = [pc |-> "launch", read |-> buf.read, todo |-> buf.todo, p |-> buf.p,
               left |-> buf.left, base |-> buf.base, copy |-> buf.copy]
        /\ Home[n] = buf.p /\ buf.pc = "launch"
    BY <1>1, <1>15 DEF Launch, BufOK
  <2>2. buf' = [pc |-> "launch", read |-> buf.read, todo |-> buf.todo, p |-> buf.p,
                left |-> buf.left - 1, base |-> buf.base, copy |-> t]
    BY <1>15, <2>1 DEF Launch
  <2>3. buf.copy \in PoolStatus /\ buf.p \in Pool /\ Counted(Seen, Lost, buf.p, buf.copy)
    BY <1>6, <2>1
  <2>4. t \in PoolStatus /\ t.recs = Append(buf.copy.recs, rec)
        /\ t.provisioning = buf.copy.provisioning + 1 /\ t.buffered = buf.copy.buffered
    <3>1. rec \in Record
      BY DEF Record
    <3> HIDE DEF rec
    <3>2. Append(buf.copy.recs, rec) \in Seq(Record) /\ buf.copy.provisioning + 1 \in Int
      BY <2>3, <3>1, StatusFields
    <3> QED
      BY <2>3, <3>2, StatusFields DEF PoolStatus
  <2> HIDE DEF t
  <2>5. Counted(Seen, Lost, buf.p, t)
    BY <2>1, <2>3, <2>4, LaunchedCounted
  <2>6. Counted(Seen', Lost', buf.p, t)
    BY <2>4, <2>5, CountedStays DEF Forward
  <2> QED
    BY <2>2, <2>6 DEF BufCounted
\* scaleDown, from record to record.
<1>16. ASSUME buf.pc \in {"rec", "evict", "release"}
       PROVE  buf = [pc |-> buf.pc, read |-> buf.read, excess |-> buf.excess,
                     i |-> buf.i, p |-> buf.p, base |-> buf.base, copy |-> buf.copy,
                     r |-> buf.r]
  BY <1>1, <1>16 DEF BufOK
<1>17. ASSUME NEW r \in 1..Len(buf.copy.recs), buf.pc = "rec", DrainAbsent(r)
       PROVE  BufCounted'
  <2>1. buf' = [pc |-> "rec", read |-> buf.read, excess |-> buf.excess - 1, i |-> buf.i,
                p |-> buf.p, base |-> buf.base, copy |-> buf.copy, r |-> r + 1]
    BY <1>16, <1>17 DEF DrainAbsent
  <2>2. Counted(Seen', Lost', buf.p, buf.copy)
    BY <1>6, <1>17, CountedStays DEF Forward
  <2> QED
    BY <2>1, <2>2 DEF BufCounted
<1>18. ASSUME NEW r \in 1..Len(buf.copy.recs), buf.pc = "rec", DrainCordon(r)
       PROVE  BufCounted'
  <2> DEFINE s == buf.copy
             W == Warm(Lost, s)
  <2>1. buf' = [pc |-> "evict", read |-> buf.read, excess |-> buf.excess, i |-> buf.i,
                p |-> buf.p, base |-> buf.base, copy |-> buf.copy, r |-> r]
    BY <1>16, <1>18 DEF DrainCordon
  <2>2. s \in PoolStatus /\ Counted(Seen, Lost, buf.p, s)
    BY <1>6, <1>18
  <2>3. Counted(Seen', Lost', buf.p, s)
    BY <2>2, CountedStays DEF Forward
  <2>4. r \in W
    BY <1>18 DEF DrainCordon, NextToDrain, Drainable, Warm, Lost
  <2>5. Len(s.recs) \in Nat /\ s.buffered \in Int /\ W \subseteq 1..Len(s.recs)
    BY <2>2, StatusFields DEF Warm
  <2> HIDE DEF W
  <2>6. Cardinality(W \ {r}) = Cardinality(W) - 1 /\ Cardinality(W) \in Nat
    BY <2>4, <2>5, OneIndexLess, IndexCount
  <2>7. Cardinality(W) <= s.buffered
    BY <2>2 DEF Counted, W
  <2>8. Cardinality(W \ {r}) + 1 <= s.buffered
    BY <2>5, <2>6, <2>7
  <2>9. Cardinality(Warm(Lost', s) \ {r}) + 1 <= s.buffered
    BY <2>2, <2>8, ReservedStays DEF W, Forward
  <2> QED
    BY <2>1, <2>3, <2>9 DEF BufCounted
<1>19. CASE DrainEvict
  <2>1. buf.pc = "evict"
        /\ buf' = [pc |-> "release", read |-> buf.read, excess |-> buf.excess, i |-> buf.i,
                   p |-> buf.p, base |-> buf.base, copy |-> buf.copy, r |-> buf.r]
    BY <1>16, <1>19 DEF DrainEvict
  <2>2. Counted(Seen', Lost', buf.p, buf.copy)
    BY <1>6, <2>1, CountedStays DEF Forward
  <2>3. Cardinality(Warm(Lost', buf.copy) \ {buf.r}) + 1 <= buf.copy.buffered
    BY <1>1, <1>6, <2>1, ReservedStays DEF Forward, BufCounted
  <2> QED
    BY <2>1, <2>2, <2>3 DEF BufCounted
<1>20. CASE DrainRelease
  <2> DEFINE s == buf.copy
             rec == [s.recs[buf.r] EXCEPT !.state = "released"]
             recs == [s.recs EXCEPT ![buf.r] = rec]
             t == [s EXCEPT !.buffered = @ - 1, !.recs = recs]
  <2>1. buf.pc = "release" /\ buf.r \in 1..Len(s.recs)
    BY <1>1, <1>20 DEF DrainRelease, BufOK
  <2>2. s \in PoolStatus /\ buf.p \in Pool /\ Counted(Seen, Lost, buf.p, s)
    BY <1>6, <2>1
  <2>3. s.recs \in Seq(Record) /\ s.recs[buf.r] \in Record /\ Len(s.recs) \in Nat
    BY <2>1, <2>2, StatusFields
  <2>4. buf' = [pc |-> "rec", read |-> buf.read, excess |-> buf.excess - 1, i |-> buf.i,
                p |-> buf.p, base |-> buf.base, copy |-> t, r |-> buf.r + 1]
    BY <1>16, <1>20, <2>1 DEF DrainRelease
  <2>5. rec \in Record /\ rec.name = s.recs[buf.r].name /\ rec.state = "released"
    BY <2>3 DEF Record
  <2>6. recs \in Seq(Record) /\ Len(recs) = Len(s.recs)
        /\ \A i \in 1..Len(s.recs) :
              /\ recs[i].name = s.recs[i].name
              /\ recs[i].state = IF i = buf.r THEN "released" ELSE s.recs[i].state
    <3> HIDE DEF rec
    <3> QED
      BY <2>1, <2>3, <2>5
  <2> HIDE DEF recs, rec
  <2>7. t \in PoolStatus /\ t.recs = recs /\ t.provisioning = s.provisioning
        /\ t.buffered = s.buffered - 1
    <3>1. s.buffered - 1 \in Int
      BY <2>2, StatusFields
    <3> QED
      BY <2>2, <2>6, <3>1, StatusFields DEF PoolStatus
  <2>8. Cardinality(Warm(Lost, s) \ {buf.r}) + 1 <= s.buffered
    BY <1>1, <2>1 DEF BufCounted
  <2> HIDE DEF t, s
  <2>9. Counted(Seen, Lost, buf.p, t)
    BY <2>1, <2>2, <2>6, <2>7, <2>8, DrainedCounted
  <2>10. Counted(Seen', Lost', buf.p, t)
    BY <2>7, <2>9, CountedStays DEF Forward
  <2> QED
    BY <2>4, <2>10 DEF BufCounted
<1>21. ASSUME NEW r \in (IF buf.pc = "rec" THEN 1..Len(buf.copy.recs) ELSE {}),
              DrainAbsent(r) \/ DrainCordon(r)
       PROVE  BufCounted'
  BY <1>17, <1>18, <1>21
<1> QED
  BY <1>7, <1>8, <1>9, <1>10, <1>11, <1>12, <1>13, <1>14, <1>15, <1>19, <1>20, <1>21 DEF BufNext

-----------------------------------------------------------------------------
(* The theorems.                                                           *)

LEMMA InitCounted == PlaneInit => CountInv
<1> SUFFICES ASSUME PlaneInit PROVE CountInv
  OBVIOUS
<1>1. CacheFollows
  BY DEF PlaneInit, Init, CacheFollows
<1>2. \A p : Counted(Seen, Lost, p, EmptyStatus)
  <2>1. Provisioning(EmptyStatus) = {} /\ Warm(Lost, EmptyStatus) = {}
        /\ Len(EmptyStatus.recs) = 0
    BY DEF Provisioning, Warm, EmptyStatus
  <2>2. EmptyStatus.provisioning = 0 /\ EmptyStatus.buffered = 0
    BY DEF EmptyStatus
  <2> QED
    BY <2>1, <2>2, FS_EmptySet DEF Counted
<1>3. StatusesCounted
  BY <1>2 DEF PlaneInit, Init, StatusesCounted
<1>4. PctlCounted /\ BufCounted /\ HeaCounted
  BY DEF PlaneInit, PoolInit, PoolIdle, BufInit, BufIdle, HealthInit, HealthIdle,
         PctlCounted, BufCounted, HeaCounted
<1> QED
  BY <1>1, <1>3, <1>4 DEF CountInv

LEMMA StepCounted == Inv /\ CountInv /\ [PlaneNext]_vars => CountInv'
<1> SUFFICES ASSUME Inv, CountInv, [PlaneNext]_vars PROVE CountInv'
  OBVIOUS
<1>1. CacheFollows' /\ Forward
  BY StepOnward, OnwardSeen DEF CountInv, Forward
<1>2. StatusesCounted'
  BY <1>1, StepStatuses
<1>3. /\ PctlOK /\ PctlCounted /\ BufOK /\ BufCounted /\ HeaOK /\ HeaCounted
  BY DEF Inv, StateOK, CountInv
<1>4. PctlCounted' /\ BufCounted' /\ HeaCounted'
  <2>1. CASE UNCHANGED <<pctl, buf, hea>>
    BY <1>1, <1>3, <2>1, PctlCountFrame, BufCountFrame, HeaCountFrame
  <2>2. CASE Crash
    BY <2>2 DEF Crash, PoolIdle, BufIdle, HealthIdle, PctlCounted, BufCounted, HeaCounted
  <2>3. CASE PoolNext /\ UNCHANGED <<buf, hea>>
    BY <1>1, <1>3, <2>3, StepPctl, BufCountFrame, HeaCountFrame
  <2>4. CASE BufNext /\ UNCHANGED <<pctl, hea>>
    BY <1>1, <1>3, <2>4, StepBuf, PctlCountFrame, HeaCountFrame
  <2>5. CASE HealthNext /\ UNCHANGED <<pctl, buf>>
    BY <1>1, <1>3, <2>5, StepHea, PctlCountFrame, BufCountFrame
  <2> QED
    BY <2>1, <2>2, <2>3, <2>4, <2>5 DEF PlaneNext, vars
<1> QED
  BY <1>1, <1>2, <1>4 DEF CountInv

LEMMA SpecCounted == Spec => [](Inv /\ CountInv)
  BY InitInv, StepInv, InitCounted, StepCounted, PTL DEF Spec

\* Every node still provisioning is in the count that the buffer controller
\* adds to the warm nodes (countWarmGPUs), in every status that reaches the
\* API: launches, recounts and releases from stale copies never lose one.
THEOREM PlaneProvisioningCounted == Spec => []ProvisioningCounted
<1>1. Inv /\ CountInv => ProvisioningCounted
  BY DEF CountInv, StatusesCounted, Counted, Provisioning, ProvisioningCounted
<1> QED
  BY <1>1, SpecCounted, PTL

\* The count of buffered nodes is never negative: scaleDown counts down from
\* its copy only for nodes that the copy counts, also when the node is lost
\* between the cordon and the release.
THEOREM PlaneBufferedNotNegative == Spec => []BufferedNotNegative
<1>1. Inv /\ CountInv => BufferedNotNegative
  <2> SUFFICES ASSUME Inv, CountInv, NEW p \in Pool PROVE pool[p].buffered >= 0
    BY DEF BufferedNotNegative
  <2>1. pool[p] \in PoolStatus /\ Cardinality(Warm(Lost, pool[p])) <= pool[p].buffered
    BY DEF Inv, StateOK, FleetOK, FleetTypeOK, CountInv, StatusesCounted, Counted
  <2>2. /\ Len(pool[p].recs) \in Nat /\ pool[p].buffered \in Int
        /\ Warm(Lost, pool[p]) \subseteq 1..Len(pool[p].recs)
    BY <2>1, StatusFields DEF Warm
  <2>3. Cardinality(Warm(Lost, pool[p])) \in Nat
    BY <2>2, IndexCount
  <2> QED
    BY <2>1, <2>2, <2>3
<1> QED
  BY <1>1, SpecCounted, PTL
=============================================================================
