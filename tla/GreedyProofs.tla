---------------------------- MODULE GreedyProofs ----------------------------
(***************************************************************************)
(* Proofs about Fill for every set of pool views, every need and every     *)
(* length of the list.  The inductive invariant is the conjunction of the  *)
(* type invariant, PlanFits and Exhaustive: the last two speak of the      *)
(* pools already passed, which is what the loop knows.  DominantFirst      *)
(* speaks of the caller's list and not of the sorted copy; it follows from *)
(* OrderInv, the order of the entries among the sorted pools, because a    *)
(* dominant pool costs less and the sort is a permutation: no pool of the  *)
(* caller's list is lost.                                                  *)
(* PlanIsMaximal follows from SizeInv, which compares the sum of the       *)
(* counts with what the pools passed can take; that the caller's list      *)
(* has the same sum as the sorted one is again the permutation.  RunInv    *)
(* follows the fold of PlansOf along the loop.                             *)
(***************************************************************************)
EXTENDS Greedy, SchedulingProofs

\* Every list of views is a sequence, and so is every sort of it.
LEMMA PoolListFacts ==
    ASSUME NEW ps \in PoolLists
    PROVE  /\ ps \in Seq(PoolView)
           /\ Len(ps) \in Nat
           /\ DOMAIN ps = 1..Len(ps)
           /\ \A i \in 1..Len(ps) : ps[i] \in PoolView
  BY MaxPoolsAssumption DEF PoolLists

\* Sorting a list of views gives a list of views (sort.Slice, greedy.go:20).
LEMMA SortIsPoolList ==
    ASSUME NEW ps \in PoolLists, NEW s \in SortsOf(ps)
    PROVE  s \in PoolLists
<1>1. PICK n \in 0..MaxPools : ps \in [1..n -> PoolView]
  BY DEF PoolLists
<1>2. s \in [1..n -> PoolView]
  BY <1>1 DEF SortsOf
<1> QED
  BY <1>2 DEF PoolLists

\* One iteration appends at most one entry, for the pool it looks at, of a
\* size between 1 and the capacity, and counts it off what remains.
LEMMA FillStepFacts ==
    ASSUME NEW a, NEW v, IsPoolView(v),
           a = [remaining |-> a.remaining, entries |-> a.entries],
           a.remaining \in Int, a.remaining > 0
    PROVE  \/ /\ FillStep(a, v) = a
              /\ Capacity(v) <= 0
           \/ \E n \in Int :
                /\ 1 <= n /\ n <= Capacity(v) /\ n <= a.remaining
                /\ FillStep(a, v).remaining = a.remaining - n
                /\ FillStep(a, v).remaining > 0 => n = Capacity(v)
                /\ FillStep(a, v).entries
                     = Append(a.entries, [pool |-> v.name, count |-> n])
                /\ FillStep(a, v)
                     = [remaining |-> FillStep(a, v).remaining,
                        entries   |-> FillStep(a, v).entries]
<1> DEFINE n == IF a.remaining > Capacity(v) THEN Capacity(v) ELSE a.remaining
<1>1. Capacity(v) \in Int
  BY DEF Capacity, IsPoolView
<1>2. n \in Int
  BY <1>1
<1>3. CASE n <= 0
  BY <1>1, <1>3 DEF FillStep
<1>4. CASE n > 0
  <2>1. FillStep(a, v) = [remaining |-> a.remaining - n,
                          entries   |-> Append(a.entries, [pool |-> v.name, count |-> n])]
    BY <1>2, <1>4 DEF FillStep
  <2>2. n <= Capacity(v) /\ n <= a.remaining /\ (a.remaining - n > 0 => n = Capacity(v))
    BY <1>1
  <2> QED
    BY <1>2, <1>4, <2>1, <2>2
<1>5. n <= 0 \/ n > 0
  BY <1>2
<1> QED
  BY <1>3, <1>4, <1>5

\* A capacity that is used keeps the pool within MaxNodes and Available.
LEMMA CapacityFits ==
    ASSUME NEW v, IsPoolView(v), NEW n \in Int, n <= Capacity(v)
    PROVE  /\ v.current + n <= v.max
           /\ v.available > 0 => n <= v.available
  BY DEF Capacity, IsPoolView

-----------------------------------------------------------------------------
\* acc is a record of the two local variables of Fill.
AccIsRecord == acc = [remaining |-> acc.remaining, entries |-> acc.entries]

\* Before the sort the loop has not begun.
NotBegun == pc = "start" => next = 1 /\ acc.entries = <<>>

\* The inductive invariant.
IInv == TypeOK /\ AccIsRecord /\ NotBegun /\ PlanFits /\ Exhaustive

LEMMA InitInv == Init => IInv
<1> SUFFICES ASSUME Init PROVE IInv
  OBVIOUS
<1>1. <<>> \in PoolLists
  BY MaxPoolsAssumption DEF PoolLists
<1>2. acc.entries = <<>> /\ acc.remaining = need /\ AccIsRecord /\ NotBegun
  BY DEF Init, EmptyPlan, AccIsRecord, NotBegun
<1>3. TypeOK
  BY <1>1, <1>2, NeedAssumption DEF Init, TypeOK
<1>4. PlanFits /\ Exhaustive
  BY <1>2 DEF Init, PlanFits, Exhaustive
<1> QED
  BY <1>2, <1>3, <1>4 DEF IInv

LEMMA NextInv == IInv /\ [Next]_vars => IInv'
<1> SUFFICES ASSUME IInv, [Next]_vars PROVE IInv'
  OBVIOUS
<1>1. CASE FillNothing
  BY <1>1 DEF FillNothing, IInv, TypeOK, AccIsRecord, NotBegun, PlanFits, Exhaustive
<1>2. CASE ReturnPlan
  BY <1>2 DEF ReturnPlan, IInv, TypeOK, AccIsRecord, NotBegun, PlanFits, Exhaustive
<1>3. CASE SortPools
  <2>1. sorted' \in PoolLists
    BY <1>3, SortIsPoolList DEF SortPools, IInv, TypeOK
  <2>2. next' = 1 /\ acc'.entries = <<>> /\ acc' = acc /\ pc' = "fill"
    BY <1>3 DEF SortPools, IInv, NotBegun
  <2>3. Len(sorted') \in Nat
    BY <2>1, PoolListFacts
  <2>4. TypeOK'
    BY <1>3, <2>1, <2>2, <2>3 DEF SortPools, IInv, TypeOK
  <2>5. PlanFits' /\ Exhaustive'
    BY <2>2 DEF PlanFits, Exhaustive
  <2> QED
    BY <2>2, <2>4, <2>5 DEF IInv, AccIsRecord, NotBegun
<1>4. CASE FillPool
  <2> DEFINE v == sorted[next]
  <2>1. Len(sorted) \in Nat /\ next \in 1..Len(sorted) /\ v \in PoolView
    BY <1>4, PoolListFacts DEF FillPool, IInv, TypeOK
  <2>2. IsPoolView(v)
    BY <2>1, PoolViewAssumption
  <2>3. /\ next' = next + 1 /\ acc' = FillStep(acc, v) /\ pc' = "fill"
        /\ UNCHANGED <<need, pools, sorted>>
        /\ acc.remaining \in Int /\ acc.remaining > 0 /\ acc.entries \in Seq(Entry)
    BY <1>4 DEF FillPool, IInv, TypeOK
  <2>4. CASE acc' = acc /\ Capacity(v) <= 0
    <3>1. TypeOK' /\ AccIsRecord' /\ NotBegun'
      BY <2>1, <2>3, <2>4 DEF IInv, TypeOK, AccIsRecord, NotBegun
    <3>2. PlanFits'
      BY <2>1, <2>3, <2>4 DEF IInv, PlanFits
    <3>3. Exhaustive'
      <4> SUFFICES ASSUME NEW j \in 1..next, Capacity(sorted[j]) > 0
                   PROVE  \E k \in 1..Len(acc.entries) :
                             acc.entries[k] = [pool  |-> sorted[j].name,
                                               count |-> Capacity(sorted[j])]
        BY <2>1, <2>3, <2>4 DEF Exhaustive
      <4>1. Capacity(v) \in Int
        BY <2>2 DEF Capacity, IsPoolView
      <4>2. j \in 1..(next - 1)
        BY <2>1, <2>4, <4>1
      <4> QED
        BY <2>3, <4>2 DEF IInv, Exhaustive
    <3> QED
      BY <3>1, <3>2, <3>3 DEF IInv
  <2>5. CASE \E n \in Int :
                /\ 1 <= n /\ n <= Capacity(v)
                /\ acc'.remaining = acc.remaining - n
                /\ acc'.remaining > 0 => n = Capacity(v)
                /\ acc'.entries = Append(acc.entries, [pool |-> v.name, count |-> n])
                /\ acc' = [remaining |-> acc'.remaining, entries |-> acc'.entries]
    <3>1. PICK n \in Int :
                /\ 1 <= n /\ n <= Capacity(v)
                /\ acc'.remaining = acc.remaining - n
                /\ acc'.remaining > 0 => n = Capacity(v)
                /\ acc'.entries = Append(acc.entries, [pool |-> v.name, count |-> n])
                /\ acc' = [remaining |-> acc'.remaining, entries |-> acc'.entries]
      BY <2>5
    <3> DEFINE e == [pool |-> v.name, count |-> n]
               L == Len(acc.entries)
    <3>2. e \in Entry
      BY <2>1 DEF Entry
    <3>3. /\ L \in Nat
          /\ acc'.entries \in Seq(Entry)
          /\ Len(acc'.entries) = L + 1
          /\ acc'.entries[L + 1] = e
          /\ \A k \in 1..L : acc'.entries[k] = acc.entries[k]
      BY <2>3, <3>1, <3>2
    <3>3a. 1..Len(acc'.entries) = 1..(L + 1) /\ 1..(next' - 1) = 1..next
      BY <2>1, <2>3, <3>3
    <3>4. TypeOK' /\ AccIsRecord' /\ NotBegun'
      BY <2>1, <2>3, <3>1, <3>3 DEF IInv, TypeOK, AccIsRecord, NotBegun
    <3>5. PlanFits'
      <4> DEFINE Fits(k, j) ==
                    /\ acc'.entries[k].pool = sorted[j].name
                    /\ 1 <= acc'.entries[k].count
                    /\ sorted[j].current + acc'.entries[k].count <= sorted[j].max
                    /\ sorted[j].available > 0 => acc'.entries[k].count <= sorted[j].available
      <4>1. Fits(L + 1, next)
        BY <2>2, <3>1, <3>3, CapacityFits
      <4>2. ASSUME NEW k \in 1..L PROVE \E j \in 1..(next - 1) : Fits(k, j)
        BY <3>3 DEF IInv, PlanFits
      <4>3. ASSUME NEW k \in 1..(L + 1) PROVE \E j \in 1..next : Fits(k, j)
        <5>1. CASE k = L + 1
          BY <2>1, <4>1, <5>1
        <5>2. CASE k # L + 1
          <6>1. k \in 1..L
            BY <3>3, <5>2
          <6>2. PICK j \in 1..(next - 1) : Fits(k, j)
            BY <4>2, <6>1
          <6> QED
            BY <2>1, <6>2
        <5> QED
          BY <5>1, <5>2
      <4>4. \A k \in 1..Len(acc'.entries) : \E j \in 1..(next' - 1) : Fits(k, j)
        <5> HIDE DEF Fits, L
        <5> QED
          BY <3>3a, <4>3
      <4> QED
        BY <2>3, <4>4 DEF PlanFits
    <3>6. Exhaustive'
      <4> DEFINE Filled(j, k) == acc'.entries[k] = [pool  |-> sorted[j].name,
                                                    count |-> Capacity(sorted[j])]
      <4> SUFFICES ASSUME acc'.remaining > 0,
                          NEW j \in 1..next, Capacity(sorted[j]) > 0
                   PROVE  \E k \in 1..(L + 1) : Filled(j, k)
        BY <2>3, <3>3a DEF Exhaustive
      <4>1. CASE j = next
        BY <3>1, <3>3, <4>1
      <4>2. CASE j # next
        <5>1. j \in 1..(next - 1)
          BY <2>1, <4>2
        <5>2. PICK k \in 1..L : acc.entries[k] = [pool  |-> sorted[j].name,
                                                   count |-> Capacity(sorted[j])]
          BY <2>3, <5>1 DEF IInv, Exhaustive
        <5> QED
          BY <3>3, <5>2
      <4> QED
        BY <4>1, <4>2
    <3> QED
      BY <3>4, <3>5, <3>6 DEF IInv
  <2> QED
    BY <2>2, <2>3, <2>4, <2>5, FillStepFacts DEF IInv, AccIsRecord
<1>5. CASE UNCHANGED vars
  BY <1>5 DEF vars, IInv, TypeOK, AccIsRecord, NotBegun, PlanFits, Exhaustive
<1> QED
  BY <1>1, <1>2, <1>3, <1>4, <1>5 DEF Next

\* Fill keeps its types and never runs past the end of the sorted copy.
THEOREM FillTypeCorrect == Spec => []TypeOK
<1>1. IInv => TypeOK
  BY DEF IInv
<1> QED
  BY InitInv, NextInv, <1>1, PTL DEF Spec

\* Whatever pools, need and length: the plan keeps every pool it uses within
\* MaxNodes and within the availability the provider reported.
THEOREM FillFits == Spec => []PlanFits
<1>1. IInv => PlanFits
  BY DEF IInv
<1> QED
  BY InitInv, NextInv, <1>1, PTL DEF Spec

\* Whatever pools, need and length: Fill leaves need unmet only after it has
\* planned every pool at its full capacity.
THEOREM FillExhausts == Spec => []Exhaustive
<1>1. IInv => Exhaustive
  BY DEF IInv
<1> QED
  BY InitInv, NextInv, <1>1, PTL DEF Spec

-----------------------------------------------------------------------------
\* The entry that plans a pool at its full capacity.
FullEntry(v) == [pool |-> v.name, count |-> Capacity(v)]

\* Entry k of the plan es is for the pool at place j of the sorted copy s, and
\* the pools before j were planned at their full capacity by earlier entries.
InOrder(es, s, k, j) ==
    /\ es[k].pool = s[j].name
    /\ \A i \in 1..(j - 1) :
          Capacity(s[i]) > 0 =>
              \E l \in 1..(k - 1) : es[l] = FullEntry(s[i])

\* What the loop knows of the order: the copy it walks is a sort of the
\* caller's list, and the entries are in the order of the copy.
OrderInv ==
    /\ pc = "fill" => IsSortOf(sorted, pools)
    /\ acc.entries # <<>> => IsSortOf(sorted, pools)
    /\ \A k \in 1..Len(acc.entries) :
        \E j \in 1..(next - 1) : InOrder(acc.entries, sorted, k, j)

\* No entry is planned before the loop, so none is out of order.
LEMMA InitOrder == Init => OrderInv
  BY DEF Init, OrderInv, EmptyPlan

\* An iteration plans a node only while something remains, and then every
\* pool it has passed is full (Exhaustive): the new entry is in order.
LEMMA NextOrder == IInv /\ OrderInv /\ [Next]_vars => OrderInv'
<1> SUFFICES ASSUME IInv, OrderInv, [Next]_vars PROVE OrderInv'
  OBVIOUS
<1>1. CASE FillNothing
  BY <1>1 DEF FillNothing, OrderInv
<1>2. CASE ReturnPlan
  BY <1>2 DEF ReturnPlan, OrderInv
<1>3. CASE SortPools
  <2>1. acc'.entries = <<>>
    BY <1>3 DEF SortPools, IInv, NotBegun
  <2>2. IsSortOf(sorted', pools')
    BY <1>3 DEF SortPools, SortsOf
  <2> QED
    BY <2>1, <2>2 DEF OrderInv
<1>4. CASE FillPool
  <2> DEFINE v == sorted[next]
  <2>1. Len(sorted) \in Nat /\ next \in 1..Len(sorted) /\ v \in PoolView
    BY <1>4, PoolListFacts DEF FillPool, IInv, TypeOK
  <2>2. IsPoolView(v)
    BY <2>1, PoolViewAssumption
  <2>3. /\ next' = next + 1 /\ acc' = FillStep(acc, v) /\ pc' = "fill"
        /\ sorted' = sorted /\ pools' = pools
        /\ acc.remaining \in Int /\ acc.remaining > 0 /\ acc.entries \in Seq(Entry)
    BY <1>4 DEF FillPool, IInv, TypeOK
  <2>4. IsSortOf(sorted', pools')
    BY <1>4, <2>3 DEF FillPool, OrderInv
  <2>5. CASE acc' = acc
    BY <2>1, <2>3, <2>4, <2>5 DEF OrderInv
  <2>6. CASE \E n \in Int :
                acc'.entries = Append(acc.entries, [pool |-> v.name, count |-> n])
    <3> DEFINE L == Len(acc.entries)
    <3>1. PICK n \in Int :
                acc'.entries = Append(acc.entries, [pool |-> v.name, count |-> n])
      BY <2>6
    <3>2. [pool |-> v.name, count |-> n] \in Entry
      BY <2>1 DEF Entry
    <3>3. /\ L \in Nat
          /\ Len(acc'.entries) = L + 1
          /\ acc'.entries[L + 1].pool = v.name
          /\ \A k \in 1..L : acc'.entries[k] = acc.entries[k]
      BY <2>3, <3>1, <3>2
    <3>4. InOrder(acc'.entries, sorted, L + 1, next)
      <4>1. ASSUME NEW i \in 1..(next - 1), Capacity(sorted[i]) > 0
            PROVE  \E l \in 1..L : acc'.entries[l] = FullEntry(sorted[i])
        BY <2>3, <3>3, <4>1 DEF IInv, Exhaustive, FullEntry
      <4>2. (L + 1) - 1 = L
        BY <3>3
      <4> HIDE DEF L
      <4> QED
        BY <3>3, <4>1, <4>2 DEF InOrder
    <3>5. ASSUME NEW k \in 1..L
          PROVE  \E j \in 1..(next - 1) : InOrder(acc'.entries, sorted, k, j)
      <4>1. PICK j \in 1..(next - 1) : InOrder(acc.entries, sorted, k, j)
        BY DEF OrderInv
      <4>2. \A l \in 1..(k - 1) : acc'.entries[l] = acc.entries[l]
        BY <3>3
      <4>3. acc'.entries[k] = acc.entries[k]
        BY <3>3
      <4> QED
        BY <4>1, <4>2, <4>3 DEF InOrder
    <3>6. ASSUME NEW k \in 1..(L + 1)
          PROVE  \E j \in 1..next : InOrder(acc'.entries, sorted, k, j)
      <4>1. CASE k = L + 1
        BY <2>1, <3>4, <4>1
      <4>2. CASE k # L + 1
        <5>1. k \in 1..L
          BY <3>3, <4>2
        <5> QED
          BY <2>1, <3>5, <5>1
      <4> QED
        BY <4>1, <4>2
    <3>7. next' - 1 = next
      BY <2>1, <2>3
    <3> HIDE DEF L
    <3>8. \A k \in 1..Len(acc'.entries) :
             \E j \in 1..(next' - 1) : InOrder(acc'.entries, sorted', k, j)
      BY <2>3, <3>3, <3>6, <3>7
    <3> QED
      BY <2>4, <3>8 DEF OrderInv
  <2> QED
    BY <2>2, <2>3, <2>5, <2>6, FillStepFacts DEF IInv, AccIsRecord
<1>5. CASE UNCHANGED vars
  BY <1>5 DEF vars, OrderInv
<1> QED
  BY <1>1, <1>2, <1>3, <1>4, <1>5 DEF Next

\* A sort loses no pool: what is at any place of the caller's list is at some
\* place of the sorted copy (sort.Slice permutes; an injection of a finite set
\* into itself is onto).
LEMMA SortLosesNothing ==
    ASSUME NEW ps \in PoolLists, NEW s, IsSortOf(s, ps), NEW i \in 1..Len(ps)
    PROVE  \E j \in 1..Len(ps) : s[j] = ps[i]
<1> DEFINE D == 1..Len(ps)
<1>1. Len(ps) \in Nat /\ DOMAIN ps = D
  BY PoolListFacts
<1>2. PICK f \in [D -> D] :
         /\ \A a, b \in D : f[a] = f[b] => a = b
         /\ \A a \in D : s[a] = ps[f[a]]
  BY <1>1 DEF IsSortOf
<1>3. f \in Injection(D, D)
  BY <1>2 DEF Injection, IsInjective
<1>4. IsFiniteSet(D)
  BY <1>1, FS_Interval
<1>5. f \in Surjection(D, D)
  <2> HIDE DEF D
  <2> QED
    BY <1>3, <1>4, FS_Injection
<1>6. PICK j \in D : f[j] = i
  BY <1>5 DEF Surjection
<1> QED
  BY <1>2, <1>6

\* The sort key of a view is a number.
LEMMA CostIsInt ==
    ASSUME NEW v, IsPoolView(v)
    PROVE  Cost(v) \in Int
<1>1. v.priority \in Int /\ v.usd \in Int /\ v.penalty \in Int
  BY DEF IsPoolView
<1>2. \A a, b, c \in Int : a + b * c \in Int
  OBVIOUS
<1> QED
  BY <1>1, <1>2 DEF Cost

\* A view that dominates another one has the smaller sort key.
LEMMA DominantCostsLess ==
    ASSUME NEW v, NEW w, IsPoolView(v), IsPoolView(w), Dominates(v, w)
    PROVE  Cost(v) < Cost(w)
<1>1. PICK a, b, c, d, e, f \in Int :
         /\ a = v.priority /\ b = v.usd /\ c = v.penalty
         /\ d = w.priority /\ e = w.usd /\ f = w.penalty
  BY DEF IsPoolView
<1>2. PICK x, y \in Int : x = b * c /\ y = e * f
  BY <1>1
<1>3. /\ a <= d /\ x <= y
      /\ a < d \/ x < y
  BY <1>1, <1>2 DEF Dominates, PenalisedPrice
<1>4. a + x < d + y
  BY <1>1, <1>2, <1>3
<1> QED
  BY <1>1, <1>2, <1>4 DEF Cost

\* The order of the entries among the sorted pools is their order by cost
\* among the caller's, which every domination agrees with.
LEMMA OrderIsDominantFirst == IInv /\ OrderInv => DominantFirst
<1> SUFFICES ASSUME IInv, OrderInv, NEW k \in 1..Len(acc.entries)
             PROVE  \E i \in 1..Len(pools) :
                      /\ pools[i].name = acc.entries[k].pool
                      /\ \A j \in 1..Len(pools) :
                            Dominates(pools[j], pools[i]) /\ Capacity(pools[j]) > 0 =>
                                \E l \in 1..(k - 1) :
                                    acc.entries[l] = [pool  |-> pools[j].name,
                                                      count |-> Capacity(pools[j])]
  BY DEF DominantFirst
<1>1. /\ pools \in PoolLists /\ sorted \in PoolLists
      /\ next \in 1..(Len(sorted) + 1) /\ acc.entries \in Seq(Entry)
  BY DEF IInv, TypeOK
<1>2. IsSortOf(sorted, pools)
  <2>1. acc.entries # <<>>
    BY <1>1
  <2> QED
    BY <2>1 DEF OrderInv
<1>3. /\ Len(pools) \in Nat /\ Len(sorted) \in Nat
      /\ DOMAIN pools = 1..Len(pools) /\ DOMAIN sorted = 1..Len(sorted)
      /\ \A i \in 1..Len(sorted) : sorted[i] \in PoolView
  BY <1>1, PoolListFacts
<1>4. 1..Len(sorted) = 1..Len(pools)
  BY <1>2, <1>3 DEF IsSortOf
<1>5. PICK m \in 1..(next - 1) : InOrder(acc.entries, sorted, k, m)
  BY DEF OrderInv
<1>6. m \in 1..Len(sorted)
  BY <1>1, <1>3, <1>5
<1>7. PICK i \in 1..Len(pools) : sorted[m] = pools[i]
  BY <1>2, <1>3, <1>4, <1>6 DEF IsSortOf
<1>8. ASSUME NEW j \in 1..Len(pools), Dominates(pools[j], pools[i]), Capacity(pools[j]) > 0
      PROVE  \E l \in 1..(k - 1) : acc.entries[l] = FullEntry(pools[j])
  <2>1. PICK h \in 1..Len(pools) : sorted[h] = pools[j]
    BY <1>1, <1>2, SortLosesNothing
  <2>2. IsPoolView(sorted[h]) /\ IsPoolView(sorted[m])
    BY <1>3, <1>4, <1>6, PoolViewAssumption
  <2>3. /\ Cost(sorted[h]) < Cost(sorted[m])
        /\ Cost(sorted[h]) \in Int /\ Cost(sorted[m]) \in Int
    <3>1. Dominates(sorted[h], sorted[m])
      BY <1>7, <1>8, <2>1
    <3> QED
      BY <2>2, <3>1, CostIsInt, DominantCostsLess
  <2>4. m < h => Cost(sorted[m]) <= Cost(sorted[h])
    BY <1>2, <1>3, <1>4, <1>6 DEF IsSortOf
  <2>5. h < m
    <3>1. h # m
      BY <2>3
    <3>2. ~ (m < h)
      BY <2>3, <2>4
    <3> QED
      BY <1>3, <1>6, <3>1, <3>2
  <2>6. h \in 1..(m - 1)
    BY <1>3, <1>6, <2>5
  <2> QED
    BY <1>5, <1>8, <2>1, <2>6 DEF InOrder
<1>9. pools[i].name = acc.entries[k].pool
  BY <1>5, <1>7 DEF InOrder
<1> QED
  BY <1>8, <1>9 DEF FullEntry

\* Whatever pools, need and length, and however sort.Slice orders pools of
\* equal cost: a node is planned in a pool only after every pool of the
\* caller's list that is better by either of the two keys was planned at its
\* full capacity.
THEOREM FillDominantFirst == Spec => []DominantFirst
<1>1. Init => IInv /\ OrderInv
  BY InitInv, InitOrder
<1>2. IInv /\ OrderInv /\ [Next]_vars => (IInv /\ OrderInv)'
  BY NextInv, NextOrder
<1> QED
  BY <1>1, <1>2, OrderIsDominantFirst, PTL DEF Spec

-----------------------------------------------------------------------------
(* The size of the plan.                                                   *)

Counts(es) == [k \in DOMAIN es |-> es[k].count]
Rooms(s) == [i \in DOMAIN s |-> Max({0, Capacity(s[i])})]

\* What Max and Min are of two numbers.
LEMMA MaxMinOfTwo ==
    ASSUME NEW a \in Int, NEW b \in Int
    PROVE  /\ Max({a, b}) = IF a >= b THEN a ELSE b
           /\ Min({a, b}) = IF a <= b THEN a ELSE b
<1>1. \E x \in {a, b} : \A y \in {a, b} : x >= y
  OBVIOUS
<1>2. \E x \in {a, b} : \A y \in {a, b} : x =< y
  OBVIOUS
<1>3. Max({a, b}) \in {a, b} /\ \A y \in {a, b} : Max({a, b}) >= y
  BY <1>1 DEF Max
<1>4. Min({a, b}) \in {a, b} /\ \A y \in {a, b} : Min({a, b}) =< y
  BY <1>2 DEF Min
<1> QED
  BY <1>3, <1>4

\* A new entry adds its count to the size of the plan.
LEMMA CountsAppend ==
    ASSUME NEW es \in Seq(Entry), NEW e \in Entry
    PROVE  /\ SumFunction(Counts(es)) \in Int
           /\ SumFunction(Counts(Append(es, e))) = e.count + SumFunction(Counts(es))
<1> DEFINE L == Len(es)
           D == 1..L
           E == 1..(L + 1)
           f == Counts(es)
           h == Counts(Append(es, e))
<1>1. /\ L \in Nat /\ DOMAIN es = D /\ DOMAIN Append(es, e) = E
      /\ Append(es, e)[L + 1] = e /\ \A k \in D : Append(es, e)[k] = es[k]
  OBVIOUS
<1>2. IsFiniteSet(D) /\ IsFiniteSet(E)
  <2>1. L + 1 \in Int /\ L \in Int /\ 1 \in Int
    BY <1>1
  <2> QED
    BY <2>1, FS_Interval
<1>3. \A k \in D : es[k] \in Entry
  BY <1>1
<1>4. \A x \in Entry : x.count \in Int
  BY DEF Entry
<1>5. DOMAIN f = D /\ \A k \in D : f[k] = es[k].count /\ f[k] \in Int
  BY <1>1, <1>3, <1>4 DEF Counts
<1>6. /\ DOMAIN h = E /\ h[L + 1] = e.count /\ h[L + 1] \in Int
      /\ \A k \in D : h[k] = f[k]
  <2>1. L + 1 \in E /\ D \subseteq E
    BY <1>1
  <2> QED
    BY <1>1, <1>4, <1>5, <2>1 DEF Counts
<1>7. E \ {L + 1} = D /\ L + 1 \in E
  BY <1>1
<1>8. \A k \in E : h[k] \in Int
  BY <1>5, <1>6, <1>7
<1> HIDE DEF D, E, f, h, L
<1>9. SumFunctionOnSet(h, E) = h[L + 1] + SumFunctionOnSet(h, D)
  <2>1. E \in SUBSET E
    OBVIOUS
  <2>2. SumFunctionOnSet(h, E) = h[L + 1] + SumFunctionOnSet(h, E \ {L + 1})
    BY <1>2, <1>7, <1>8, <2>1, SumTakesOut
  <2> QED
    BY <1>7, <2>2
<1>10. SumFunctionOnSet(h, D) = SumFunctionOnSet(f, D)
  <2> DEFINE p == [k \in D |-> k]
  <2>1. /\ p \in [D -> D] /\ \A x, y \in D : p[x] = p[y] => x = y
        /\ \A x \in D : f[x] = h[p[x]]
    BY <1>6
  <2>2. {p[x] : x \in D} = D
    OBVIOUS
  <2>3. \A k \in D : h[k] \in Int /\ f[k] \in Int
    BY <1>5, <1>6
  <2> HIDE DEF p
  <2>4. SumFunctionOnSet(f, D) = SumFunctionOnSet(h, {p[x] : x \in D})
    BY <1>2, <2>1, <2>3, SumRenames
  <2> QED
    BY <2>2, <2>4
<1>11. SumFunctionOnSet(f, D) \in Int
  <2>1. D \in SUBSET D /\ \A k \in D : f[k] \in Int
    BY <1>5
  <2> QED
    BY <1>2, <2>1, SumTakesOut
<1>12. SumFunction(f) = SumFunctionOnSet(f, D) /\ SumFunction(h) = SumFunctionOnSet(h, E)
  BY <1>5, <1>6 DEF SumFunction
<1> QED
  BY <1>6, <1>9, <1>10, <1>11, <1>12 DEF f, h

\* What a list of pools can take: the values, and the sum over one pool more.
LEMMA RoomsFacts ==
    ASSUME NEW s \in PoolLists
    PROVE  /\ IsFiniteSet(1..Len(s)) /\ DOMAIN Rooms(s) = 1..Len(s)
           /\ \A i \in 1..Len(s) :
                 /\ Capacity(s[i]) \in Int
                 /\ Rooms(s)[i] = IF Capacity(s[i]) > 0 THEN Capacity(s[i]) ELSE 0
                 /\ Rooms(s)[i] \in Int /\ Rooms(s)[i] >= 0
<1>1. /\ Len(s) \in Nat /\ DOMAIN s = 1..Len(s)
      /\ \A i \in 1..Len(s) : s[i] \in PoolView
  BY PoolListFacts
<1>2. IsFiniteSet(1..Len(s))
  BY <1>1, FS_Interval
<1>3. ASSUME NEW i \in 1..Len(s)
      PROVE  /\ Capacity(s[i]) \in Int
             /\ Rooms(s)[i] = IF Capacity(s[i]) > 0 THEN Capacity(s[i]) ELSE 0
  <2>1. IsPoolView(s[i])
    BY <1>1, PoolViewAssumption
  <2>2. Capacity(s[i]) \in Int
    BY <2>1 DEF Capacity, IsPoolView
  <2>3. PICK c \in Int : c = Capacity(s[i])
    BY <2>2
  <2>4. Rooms(s)[i] = Max({0, c})
    BY <1>1, <2>3 DEF Rooms
  <2>5. Max({0, c}) = IF 0 >= c THEN 0 ELSE c
    BY MaxMinOfTwo
  <2> QED
    BY <2>2, <2>3, <2>4, <2>5
<1>4. DOMAIN Rooms(s) = 1..Len(s)
  BY <1>1 DEF Rooms
<1> QED
  BY <1>2, <1>3, <1>4

\* One pool more adds what it can take.
LEMMA RoomsStep ==
    ASSUME NEW s \in PoolLists, NEW j \in 1..Len(s)
    PROVE  /\ SumFunctionOnSet(Rooms(s), 1..(j - 1)) \in Int
           /\ SumFunctionOnSet(Rooms(s), 1..j)
                = Rooms(s)[j] + SumFunctionOnSet(Rooms(s), 1..(j - 1))
<1> DEFINE U == 1..Len(s)
           f == Rooms(s)
<1>1. IsFiniteSet(U) /\ \A i \in U : f[i] \in Int
  BY RoomsFacts
<1>2. Len(s) \in Nat
  BY PoolListFacts
<1>3. /\ 1..j \in SUBSET U /\ 1..(j - 1) \in SUBSET U
      /\ j \in 1..j /\ (1..j) \ {j} = 1..(j - 1)
  BY <1>2
<1>4. PICK A, B : A = 1..j /\ B = 1..(j - 1)
  OBVIOUS
<1>5. A \in SUBSET U /\ B \in SUBSET U /\ j \in A /\ A \ {j} = B
  BY <1>3, <1>4
<1> HIDE DEF U, f
<1>6. /\ SumFunctionOnSet(f, B) \in Int
      /\ SumFunctionOnSet(f, A) = f[j] + SumFunctionOnSet(f, B)
  <2>1. SumFunctionOnSet(f, A) = f[j] + SumFunctionOnSet(f, A \ {j})
    <3>1. PICK V, g : V = U /\ g = f
      OBVIOUS
    <3>2. IsFiniteSet(V) /\ A \in SUBSET V /\ \A i \in V : g[i] \in Int
      BY <1>1, <1>5, <3>1
    <3>3. \A x \in A : SumFunctionOnSet(g, A) = g[x] + SumFunctionOnSet(g, A \ {x})
      BY <3>2, SumTakesOut
    <3> QED
      BY <1>5, <3>1, <3>3
  <2>2. SumFunctionOnSet(f, B) \in Int
    BY <1>1, <1>5, SumTakesOut
  <2> QED
    BY <1>5, <2>1, <2>2
<1> QED
  BY <1>4, <1>6 DEF f

\* The order of the pools does not change what they can take.
LEMMA RoomsSorted ==
    ASSUME NEW ps \in PoolLists, NEW s \in PoolLists, IsSortOf(s, ps)
    PROVE  SumFunction(Rooms(ps)) = SumFunctionOnSet(Rooms(s), 1..Len(s))
<1> DEFINE D == 1..Len(ps)
           f == Rooms(s)
           h == Rooms(ps)
<1>1. DOMAIN ps = D /\ DOMAIN s = 1..Len(s)
  BY PoolListFacts
<1>2. 1..Len(s) = D
  BY <1>1 DEF IsSortOf
<1>3. /\ IsFiniteSet(D) /\ DOMAIN h = D
      /\ \A i \in D : f[i] \in Int /\ h[i] \in Int
  BY <1>2, RoomsFacts
<1>4. PICK p \in [D -> D] :
         /\ \A a, b \in D : p[a] = p[b] => a = b
         /\ \A a \in D : s[a] = ps[p[a]]
  BY <1>1 DEF IsSortOf
<1>5. \A a \in D : f[a] = h[p[a]]
  BY <1>1, <1>2, <1>4 DEF Rooms
<1>6. {p[a] : a \in D} = D
  <2>1. p \in Injection(D, D)
    BY <1>4 DEF Injection, IsInjective
  <2> HIDE DEF D
  <2>2. p \in Surjection(D, D)
    BY <1>3, <2>1, FS_Injection
  <2> QED
    BY <2>2 DEF Surjection
<1> HIDE DEF D, f, h
<1>7. SumFunctionOnSet(f, D) = SumFunctionOnSet(h, {p[a] : a \in D})
  BY <1>3, <1>4, <1>5, SumRenames
<1>8. SumFunctionOnSet(f, D) = SumFunction(h)
  BY <1>3, <1>6, <1>7 DEF SumFunction
<1> QED
  BY <1>2, <1>8 DEF f, h, D

\* The nodes planned, and the room of the pools already passed.
Planned == SumFunction(Counts(acc.entries))
Passed == SumFunctionOnSet(Rooms(sorted), 1..(next - 1))

\* What the loop knows of the size of the plan: it is what does not remain,
\* and it is all the pools passed can take as long as something remains.
SizeInv ==
    /\ Planned = need - acc.remaining
    /\ need <= 0 => acc.entries = <<>> /\ pc # "fill"
    /\ need > 0 =>
          /\ acc.remaining >= 0 /\ Planned <= Passed
          /\ acc.remaining > 0 => Planned = Passed
          /\ pc # "start" => IsSortOf(sorted, pools)
          /\ pc = "done" => acc.remaining <= 0 \/ next = Len(sorted) + 1

\* Sums over nothing.
LEMMA NothingPlanned ==
    /\ SumFunction(Counts(<<>>)) = 0
    /\ \A f : SumFunctionOnSet(f, {}) = 0
<1>1. ASSUME NEW f PROVE SumFunctionOnSet(f, {}) = 0
  <2>1. IsFiniteSet({}) /\ \A x \in {} : f[x] \in Int
    BY FS_EmptySet
  <2> QED
    BY <2>1, SumTakesOut
<1>2. DOMAIN Counts(<<>>) = {}
  BY DEF Counts
<1> QED
  BY <1>1, <1>2 DEF SumFunction

\* Nothing is planned and no pool passed at the start.
LEMMA InitSize == Init => SizeInv
<1> SUFFICES ASSUME Init PROVE SizeInv
  OBVIOUS
<1>1. /\ acc.entries = <<>> /\ acc.remaining = need /\ pc = "start" /\ next = 1
      /\ need \in Int
  BY NeedAssumption DEF Init, EmptyPlan
<1>2. Planned = 0
  BY <1>1, NothingPlanned DEF Planned
<1>3. Passed = 0
  <2>1. 1..(next - 1) = {}
    BY <1>1
  <2> QED
    BY <2>1, NothingPlanned DEF Passed
<1> QED
  BY <1>1, <1>2, <1>3 DEF SizeInv

\* An iteration adds to the plan what it takes off what remains.
LEMMA NextSize == IInv /\ SizeInv /\ [Next]_vars => SizeInv'
<1> SUFFICES ASSUME IInv, SizeInv, [Next]_vars PROVE SizeInv'
  OBVIOUS
<1>0. /\ need \in Int /\ acc.remaining \in Int /\ sorted \in PoolLists /\ pools \in PoolLists
      /\ next \in 1..(Len(sorted) + 1) /\ Len(sorted) \in Nat
      /\ pc \in {"start", "fill", "done"}
  BY NeedAssumption, PoolListFacts DEF IInv, TypeOK
<1>1. CASE FillNothing
  <2>1. need <= 0 /\ pc' = "done" /\ UNCHANGED <<need, pools, sorted, next, acc>>
    BY <1>1 DEF FillNothing
  <2>2. Planned' = Planned
    BY <2>1 DEF Planned
  <2> QED
    BY <1>0, <2>1, <2>2 DEF SizeInv
<1>2. CASE ReturnPlan
  <2>1. /\ pc = "fill" /\ (next > Len(sorted) \/ acc.remaining <= 0)
        /\ pc' = "done" /\ UNCHANGED <<need, pools, sorted, next, acc>>
    BY <1>2 DEF ReturnPlan
  <2>2. Planned' = Planned /\ Passed' = Passed
    BY <2>1 DEF Planned, Passed
  <2>3. next > Len(sorted) => next = Len(sorted) + 1
    BY <1>0
  <2> QED
    BY <1>0, <2>1, <2>2, <2>3 DEF SizeInv
<1>3. CASE SortPools
  <2>1. /\ pc = "start" /\ need > 0 /\ IsSortOf(sorted', pools')
        /\ pc' = "fill" /\ UNCHANGED <<need, pools, next, acc>>
    BY <1>3 DEF SortPools, SortsOf
  <2>2. next = 1 /\ 1..(next - 1) = {}
    BY <2>1 DEF IInv, NotBegun
  <2>3. Planned' = Planned
    BY <2>1 DEF Planned
  <2>4. Passed' = 0 /\ Passed = 0
    BY <2>1, <2>2, NothingPlanned DEF Passed
  <2> QED
    BY <1>0, <2>1, <2>3, <2>4 DEF SizeInv
<1>4. CASE FillPool
  <2> DEFINE v == sorted[next]
             room == Rooms(sorted)[next]
  <2>1. next \in 1..Len(sorted) /\ v \in PoolView
    BY <1>0, <1>4, PoolListFacts DEF FillPool
  <2>2. IsPoolView(v)
    BY <2>1, PoolViewAssumption
  <2>3. /\ next' = next + 1 /\ acc' = FillStep(acc, v) /\ pc = "fill" /\ pc' = "fill"
        /\ UNCHANGED <<need, pools, sorted>>
        /\ acc.remaining > 0 /\ acc.entries \in Seq(Entry)
    BY <1>4 DEF FillPool, IInv, TypeOK
  <2>4. /\ need > 0 /\ Planned = need - acc.remaining /\ Planned = Passed
        /\ IsSortOf(sorted', pools')
    BY <1>0, <2>3 DEF SizeInv
  <2>5. Passed \in Int /\ Passed' = room + Passed
    <3>1. next' - 1 = next
      BY <1>0, <2>3
    <3> QED
      BY <1>0, <2>1, <2>3, <3>1, RoomsStep DEF Passed
  <2>6. /\ room = IF Capacity(v) > 0 THEN Capacity(v) ELSE 0
        /\ Capacity(v) \in Int /\ room \in Int
    BY <1>0, <2>1, RoomsFacts
  <2> HIDE DEF room
  <2>7. CASE acc' = acc /\ Capacity(v) <= 0
    <3>1. Planned' = Planned
      BY <2>7 DEF Planned
    <3>2. Passed' = Passed
      BY <2>5, <2>6, <2>7
    <3> QED
      BY <1>0, <2>3, <2>4, <2>7, <3>1, <3>2 DEF SizeInv
  <2>8. ASSUME NEW n \in Int, 1 <= n, n <= Capacity(v), n <= acc.remaining,
               acc'.remaining = acc.remaining - n,
               acc'.remaining > 0 => n = Capacity(v),
               acc'.entries = Append(acc.entries, [pool |-> v.name, count |-> n])
        PROVE  SizeInv'
    <3>1. [pool |-> v.name, count |-> n] \in Entry
      BY <2>1 DEF Entry
    <3>2. PICK e \in Entry : e = [pool |-> v.name, count |-> n]
      BY <3>1
    <3>3. e.count = n
      BY <3>2
    <3>4. Planned' = n + Planned
      <4>1. Planned' = SumFunction(Counts(Append(acc.entries, e)))
        BY <2>8, <3>2 DEF Planned
      <4> QED
        BY <2>3, <3>3, <4>1, CountsAppend DEF Planned
    <3>5. acc'.remaining >= 0
      BY <1>0, <2>8
    <3>6. n <= room /\ (acc'.remaining > 0 => n = room)
      BY <2>6, <2>8
    <3>7. /\ Planned' = need - acc'.remaining /\ Planned' <= Passed'
          /\ acc'.remaining > 0 => Planned' = Passed'
      <4>1. PICK a \in Int, b \in Int, c \in Int, r \in Int :
                need = a /\ acc.remaining = b /\ Passed = c /\ room = r
        BY <1>0, <2>5, <2>6
      <4>2. /\ Planned' = n + (a - b) /\ c = a - b /\ Passed' = r + c
            /\ acc'.remaining = b - n /\ n <= r /\ (b - n > 0 => n = r)
        BY <2>4, <2>5, <2>8, <3>4, <3>6, <4>1
      <4> QED
        BY <4>1, <4>2
    <3> QED
      BY <2>3, <2>4, <3>5, <3>7 DEF SizeInv
  <2> QED
    BY <1>0, <2>2, <2>3, <2>7, <2>8, FillStepFacts DEF IInv, AccIsRecord
<1>5. CASE UNCHANGED vars
  <2>1. UNCHANGED <<need, pools, sorted, next, acc, pc>>
    BY <1>5 DEF vars
  <2>2. Planned' = Planned /\ Passed' = Passed
    BY <2>1 DEF Planned, Passed
  <2> QED
    BY <2>1, <2>2 DEF SizeInv
<1> QED
  BY <1>1, <1>2, <1>3, <1>4, <1>5 DEF Next

\* The size of the plan when Fill returns.
LEMMA SizeIsMaximal == IInv /\ SizeInv => PlanIsMaximal
<1> SUFFICES ASSUME IInv, SizeInv, pc = "done"
             PROVE  SumFunction(Counts(acc.entries))
                      = Max({0, Min({need, SumFunction(Rooms(pools))})})
  BY DEF PlanIsMaximal, Counts, Rooms
<1> DEFINE room == SumFunction(Rooms(pools))
<1>1. /\ need \in Int /\ acc.remaining \in Int /\ sorted \in PoolLists /\ pools \in PoolLists
      /\ next \in 1..(Len(sorted) + 1) /\ Len(sorted) \in Nat /\ Len(pools) \in Nat
  BY NeedAssumption, PoolListFacts DEF IInv, TypeOK
<1>2. room \in Int
  <2> DEFINE D == 1..Len(pools)
             f == Rooms(pools)
  <2>1. /\ IsFiniteSet(D) /\ DOMAIN f = D /\ D \in SUBSET D
        /\ \A i \in D : f[i] \in Int
    BY <1>1, RoomsFacts
  <2> HIDE DEF D, f
  <2>2. SumFunctionOnSet(f, D) \in Int
    BY <2>1, SumTakesOut
  <2> QED
    BY <2>1, <2>2 DEF SumFunction, f
<1> HIDE DEF room
<1>3. PICK low \in Int : low = Min({need, room}) /\ low = IF need <= room THEN need ELSE room
  BY <1>1, <1>2, MaxMinOfTwo
<1>4. Max({0, Min({need, room})}) = IF 0 >= low THEN 0 ELSE low
  BY <1>3, MaxMinOfTwo
<1>5. Planned = need - acc.remaining
  BY DEF SizeInv
<1>6. CASE need <= 0
  <2>1. Planned = 0
    BY <1>6, NothingPlanned DEF SizeInv, Planned
  <2> QED
    BY <1>1, <1>2, <1>3, <1>4, <1>6, <2>1 DEF Planned, room
<1>7. CASE need > 0
  <2> DEFINE D == 1..Len(sorted)
             f == Rooms(sorted)
  <2>1. /\ IsSortOf(sorted, pools) /\ acc.remaining >= 0 /\ Planned <= Passed
        /\ acc.remaining > 0 => Planned = Passed
        /\ acc.remaining <= 0 \/ next = Len(sorted) + 1
    BY <1>7 DEF SizeInv
  <2>2. room = SumFunctionOnSet(f, D)
    BY <1>1, <2>1, RoomsSorted DEF room
  <2>3. Passed \in Int /\ Passed <= room /\ room >= 0
    <3>1. PICK A : A = 1..(next - 1)
      OBVIOUS
    <3>2. A \in SUBSET D /\ {} \in SUBSET D
      BY <1>1, <3>1
    <3>3. IsFiniteSet(D) /\ \A i \in D : f[i] \in Int /\ f[i] >= 0
      BY <1>1, RoomsFacts
    <3> HIDE DEF D, f
    <3>4. SumFunctionOnSet(f, A) <= SumFunctionOnSet(f, D)
      BY <3>2, <3>3, SumGrows
    <3>5. SumFunctionOnSet(f, {}) <= SumFunctionOnSet(f, D)
      BY <3>2, <3>3, SumGrows
    <3>6. SumFunctionOnSet(f, A) \in Int
      <4>1. \A i \in D : f[i] \in Int
        BY <3>3
      <4> QED
        BY <3>2, <3>3, <4>1, SumTakesOut
    <3>7. SumFunctionOnSet(f, {}) = 0
      BY NothingPlanned
    <3>8. Passed = SumFunctionOnSet(f, A)
      BY <3>1 DEF Passed, f
    <3> QED
      BY <1>2, <2>2, <3>4, <3>5, <3>6, <3>7, <3>8
  <2>4. next = Len(sorted) + 1 => Passed = room
    <3> SUFFICES ASSUME next = Len(sorted) + 1 PROVE Passed = room
      OBVIOUS
    <3>1. next - 1 = Len(sorted)
      BY <1>1
    <3> QED
      BY <2>2, <3>1 DEF Passed
  <2> HIDE DEF D, f
  <2>5. Planned = IF 0 >= low THEN 0 ELSE low
    BY <1>1, <1>2, <1>3, <1>5, <1>7, <2>1, <2>3, <2>4
  <2> QED
    BY <1>4, <2>5 DEF Planned, room
<1> QED
  BY <1>1, <1>6, <1>7

\* Whatever pools, need and length: the plan adds up to the need or to all
\* that the pools can take, whichever is less.
THEOREM FillMaximal == Spec => []PlanIsMaximal
<1>1. Init => IInv /\ SizeInv
  BY InitInv, InitSize
<1>2. IInv /\ SizeInv /\ [Next]_vars => (IInv /\ SizeInv)'
  BY NextInv, NextSize
<1> QED
  BY <1>1, <1>2, SizeIsMaximal, PTL DEF Spec

-----------------------------------------------------------------------------
(* The loop and the operator that the buffer controller's model takes.     *)

\* Where the loop is, of the progress that the fold makes over the sorted
\* pools.  It may stop early, once nothing remains.
RunInv ==
    /\ pc = "start" => next = 1 /\ acc = EmptyPlan(need)
    /\ pc # "start" /\ need > 0 =>
          /\ sorted \in SortsOf(pools)
          /\ \A g : FillRun(g, need, sorted) => g[next - 1] = acc
    /\ pc = "done" /\ need > 0 => next > Len(sorted) \/ acc.remaining <= 0

\* The plan that Fill returns is one that PlansOf has.
IsPlan == pc = "done" /\ need > 0 => acc.entries \in PlansOf(need, pools)

\* The loop starts where the fold starts.
LEMMA InitRun == Init => RunInv
  BY DEF Init, RunInv

\* Each iteration is a step of the fold.
LEMMA NextRun == IInv /\ RunInv /\ [Next]_vars => RunInv'
<1> SUFFICES ASSUME IInv, RunInv, [Next]_vars PROVE RunInv'
  OBVIOUS
<1>1. need \in Int /\ next \in 1..(Len(sorted) + 1) /\ Len(sorted) \in Nat
  BY PoolListFacts, NeedAssumption DEF IInv, TypeOK
<1>2. CASE FillNothing
  BY <1>1, <1>2 DEF FillNothing, RunInv
<1>3. CASE SortPools
  <2>1. /\ need' = need /\ pools' = pools /\ next' = next /\ acc' = acc
        /\ pc' = "fill" /\ sorted' \in SortsOf(pools) /\ next = 1 /\ acc = EmptyPlan(need)
    BY <1>3 DEF SortPools, RunInv
  <2>2. ASSUME NEW g, FillRun(g, need, sorted') PROVE g[next' - 1] = acc'
    <3>1. next' - 1 = 0
      BY <2>1
    <3> QED
      BY <2>1, <2>2, <3>1 DEF FillRun
  <2> QED
    BY <2>1, <2>2 DEF RunInv
<1>4. CASE FillPool
  <2>1. /\ need' = need /\ pools' = pools /\ sorted' = sorted /\ pc' = "fill" /\ pc = "fill"
        /\ next' = next + 1 /\ acc' = FillStep(acc, sorted[next]) /\ next <= Len(sorted)
    BY <1>4 DEF FillPool
  <2>2. ASSUME need > 0, NEW g, FillRun(g, need, sorted) PROVE g[next' - 1] = acc'
    <3>1. next' - 1 = next /\ next \in 1..Len(sorted)
      BY <1>1, <2>1
    <3>2. g[next - 1] = acc
      BY <2>1, <2>2 DEF RunInv
    <3>3. g[next] = FillStep(g[next - 1], sorted[next])
      BY <2>2, <3>1 DEF FillRun
    <3> QED
      BY <2>1, <3>1, <3>2, <3>3
  <2> QED
    BY <2>1, <2>2 DEF RunInv
<1>5. CASE ReturnPlan
  BY <1>5 DEF ReturnPlan, RunInv
<1>6. CASE UNCHANGED vars
  BY <1>6 DEF vars, RunInv
<1> QED
  BY <1>2, <1>3, <1>4, <1>5, <1>6 DEF Next

\* Once nothing remains, the pools that are left change nothing.
LEMMA RunIsPlan == IInv /\ RunInv => IsPlan
<1> SUFFICES ASSUME IInv, RunInv, pc = "done", need > 0
             PROVE  acc.entries \in PlansOf(need, pools)
  BY DEF IsPlan
<1> DEFINE L == Len(sorted)
<1>1. /\ need \in Int /\ next \in 1..(L + 1) /\ L \in Nat
      /\ sorted = [i \in 1..L |-> sorted[i]] /\ \A i \in 1..L : IsPoolView(sorted[i])
      /\ acc.remaining \in Int
  BY PoolListFacts, NeedAssumption, PoolViewAssumption DEF IInv, TypeOK
<1>2. /\ sorted \in SortsOf(pools)
      /\ next > L \/ acc.remaining <= 0
      /\ \A g : FillRun(g, need, sorted) => g[next - 1] = acc
  BY DEF RunInv
<1>3. PICK g : FillRun(g, need, sorted)
  <2> HIDE DEF L
  <2> QED
    BY <1>1, FillRuns
<1>4. g[next - 1] = acc
  BY <1>2, <1>3
<1>5. g[L] = acc
  <2>1. CASE next > L
    <3>1. next - 1 = L
      BY <1>1, <2>1
    <3> QED
      BY <1>4, <3>1
  <2>2. CASE acc.remaining <= 0
    <3> DEFINE P == {k \in 0..L : g[k] = acc}
               m == next - 1
    <3>1. m \in Int /\ L \in Int /\ m \in 0..L /\ m \in P
      BY <1>1, <1>4
    <3>2. ASSUME NEW k \in m..(L - 1), k \in P PROVE k + 1 \in P
      <4>1. k + 1 \in 1..L /\ k + 1 \in 0..L /\ (k + 1) - 1 = k
        BY <3>1
      <4>2. g[k + 1] = FillStep(acc, sorted[k + 1])
        BY <1>3, <3>2, <4>1 DEF FillRun
      <4>3. Capacity(sorted[k + 1]) \in Int
        BY <1>1, <4>1 DEF Capacity, IsPoolView
      <4>4. FillStep(acc, sorted[k + 1]) = acc
        BY <1>1, <2>2, <4>3 DEF FillStep
      <4> QED
        BY <4>1, <4>2, <4>4
    <3>3. \A k \in m..L : k \in P
      <4> HIDE DEF P, m, L
      <4> QED
        BY <3>1, <3>2, IntervalInduction
    <3>4. L \in m..L
      BY <3>1
    <3> QED
      BY <3>3, <3>4
  <2> QED
    BY <1>2, <2>1, <2>2
<1>6. FoldLeft(FillStep, EmptyPlan(need), sorted) = acc
  BY <1>3, <1>5 DEF FillRun
<1>7. acc.entries = FoldLeft(FillStep, EmptyPlan(need), sorted).entries
  BY <1>6
<1> QED
  BY <1>2, <1>7 DEF PlansOf

\* Fill's loop, with its early return, returns a plan of PlansOf, the operator
\* that stands for the call of Fill in the model of the buffer controller
\* (buffer_controller.go:60): what is proved of the loop holds there too.
THEOREM FillIsPlan == Spec => []IsPlan
<1>1. Init => IInv /\ RunInv
  BY InitInv, InitRun
<1>2. IInv /\ RunInv /\ [Next]_vars => IInv' /\ RunInv'
  BY NextInv, NextRun
<1> QED
  BY <1>1, <1>2, RunIsPlan, PTL DEF Spec
=============================================================================
