----------------------------- MODULE Scheduling -----------------------------
(***************************************************************************)
(* The scheduler of the buffer controller as operators: Scheduler.Fill of  *)
(* pkg/scheduler/greedy sources `need' nodes from a list of pool views.    *)
(* The views are sorted by cost and filled one after the other, each up to *)
(* its capacity.                                                           *)
(***************************************************************************)
EXTENDS Integers, Sequences, SequencesExt

\* A PoolView: the ICE penalty is 1 or 2, every other number is what the
\* GPUPool's spec and status hold.
IsPoolView(v) ==
    /\ DOMAIN v = {"name", "priority", "usd", "penalty", "max", "current", "available"}
    /\ v.priority \in Int /\ v.usd \in Int /\ v.penalty \in Int
    /\ v.max \in Int /\ v.current \in Int /\ v.available \in Int

\* The sort key of the code: the priority and the penalised price are added.
Cost(v) == v.priority + v.usd * v.penalty

\* Mutant of Capacity: the provider's availability is ignored.
CapacityIgnoringAvailable(v) == v.max - v.current

\* How many nodes a pool may still take: the room under MaxNodes, cut to what
\* the provider says is available.  An availability of 0 does not cut.
Capacity(v) ==
    LET room == v.max - v.current
    IN  IF v.available > 0 /\ v.available < room THEN v.available ELSE room

\* Mutant of FillStep: the nodes planned are not taken off what remains.
FillStepNotSubtracting(a, v) ==
    LET n == IF a.remaining > Capacity(v) THEN Capacity(v) ELSE a.remaining
    IN  IF n <= 0 THEN a
        ELSE [remaining |-> a.remaining,
              entries   |-> Append(a.entries, [pool |-> v.name, count |-> n])]

\* Mutant of FillStep: a pool that cannot take all that remains is skipped.
FillStepAllOrNothing(a, v) ==
    IF a.remaining <= 0 \/ Capacity(v) < a.remaining THEN a
    ELSE [remaining |-> 0,
          entries   |-> Append(a.entries, [pool |-> v.name, count |-> a.remaining])]

\* One iteration of the loop: plan as many nodes in v as remain and fit.
FillStep(a, v) ==
    LET n == IF a.remaining > Capacity(v) THEN Capacity(v) ELSE a.remaining
    IN  IF n <= 0 THEN a
        ELSE [remaining |-> a.remaining - n,
              entries   |-> Append(a.entries, [pool |-> v.name, count |-> n])]

\* Mutant of IsSortOf: the penalty is not in the sort key.
IsSortOfUnpenalised(s, ps) ==
    /\ DOMAIN s = DOMAIN ps
    /\ \E f \in [DOMAIN ps -> DOMAIN ps] :
          /\ \A i, j \in DOMAIN ps : f[i] = f[j] => i = j
          /\ \A i \in DOMAIN ps : s[i] = ps[f[i]]
    /\ \A i, j \in DOMAIN s : i < j => s[i].priority + s[i].usd <= s[j].priority + s[j].usd

\* s is a result of sort.Slice on ps: a permutation with ascending cost.
\* The sort is not stable: pools of equal cost end up in any order.
IsSortOf(s, ps) ==
    /\ DOMAIN s = DOMAIN ps
    /\ \E f \in [DOMAIN ps -> DOMAIN ps] :
          /\ \A i, j \in DOMAIN ps : f[i] = f[j] => i = j
          /\ \A i \in DOMAIN ps : s[i] = ps[f[i]]
    /\ \A i, j \in DOMAIN s : i < j => Cost(s[i]) <= Cost(s[j])

SortsOf(ps) == {s \in [DOMAIN ps -> {ps[i] : i \in DOMAIN ps}] : IsSortOf(s, ps)}

EmptyPlan(n) == [remaining |-> n, entries |-> <<>>]

\* The plans Fill may return: one for each order the sort may leave.
PlansOf(n, ps) ==
    {FoldLeft(FillStep, EmptyPlan(n), s).entries : s \in SortsOf(ps)}
=============================================================================
