------------------------------- MODULE Greedy -------------------------------
(***************************************************************************)
(* Scheduler.Fill of pkg/scheduler/greedy as a state machine: one step per *)
(* iteration of its loop, so that the loop's invariant can be checked and  *)
(* proved.  The buffer controller takes the same iteration, FillStep of    *)
(* module Scheduling, as one step (PlansOf).                               *)
(***************************************************************************)
EXTENDS Scheduling, FiniteSets, FiniteSetsExt, Functions

CONSTANTS
    PoolView,    \* the pool views a caller may pass (scheduler.PoolView)
    Need,        \* the numbers of nodes a caller may ask for
    MaxPools     \* bound: the length of the list of views

ASSUME PoolViewAssumption == \A v \in PoolView : IsPoolView(v)
ASSUME NeedAssumption == Need \subseteq Int
ASSUME MaxPoolsAssumption == MaxPools \in Nat

VARIABLES
    need,        \* the first argument of Fill
    pools,       \* the second: the views, in the caller's order
    sorted,      \* the copy that Fill sorts
    next,        \* the iteration: sorted[next] is the pool looked at
    acc,         \* remaining and plan.Entries
    pc

vars == <<need, pools, sorted, next, acc, pc>>

-----------------------------------------------------------------------------
PoolLists == UNION {[1..n -> PoolView] : n \in 0..MaxPools}

Init ==
    /\ need \in Need
    /\ pools \in PoolLists
    /\ sorted = <<>>
    /\ next = 1
    /\ acc = EmptyPlan(need)
    /\ pc = "start"

\* Nothing is needed: the empty plan.
FillNothing ==
    /\ pc = "start" /\ need <= 0
    /\ pc' = "done"
    /\ UNCHANGED <<need, pools, sorted, next, acc>>

SortPools ==
    /\ pc = "start" /\ need > 0
    /\ sorted' \in SortsOf(pools)
    /\ pc' = "fill"
    /\ UNCHANGED <<need, pools, next, acc>>

\* Mutant of FillPool: the loop steps over a pool.
FillPoolSkipping ==
    /\ pc = "fill" /\ next <= Len(sorted) /\ acc.remaining > 0
    /\ acc' = FillStep(acc, sorted[next])
    /\ next' = next + 2
    /\ UNCHANGED <<need, pools, sorted, pc>>

\* An iteration; the loop also ends early, once nothing remains.
FillPool ==
    /\ pc = "fill" /\ next <= Len(sorted) /\ acc.remaining > 0
    /\ acc' = FillStep(acc, sorted[next])
    /\ next' = next + 1
    /\ UNCHANGED <<need, pools, sorted, pc>>

ReturnPlan ==
    /\ pc = "fill" /\ (next > Len(sorted) \/ acc.remaining <= 0)
    /\ pc' = "done"
    /\ UNCHANGED <<need, pools, sorted, next, acc>>

Next == FillNothing \/ SortPools \/ FillPool \/ ReturnPlan

Spec == Init /\ [][Next]_vars

-----------------------------------------------------------------------------
Entry == [pool : {v.name : v \in PoolView}, count : Int]

\* The variables of Fill have their types, and the loop never gets past the
\* end of the sorted copy (greedy.go, Fill).
TypeOK ==
    /\ need \in Need
    /\ pools \in PoolLists
    /\ sorted \in PoolLists
    /\ next \in 1..(Len(sorted) + 1)
    /\ acc.remaining \in Int
    /\ acc.entries \in Seq(Entry)
    /\ pc \in {"start", "fill", "done"}

\* Every entry of the plan is for a pool of the list, is at least one node,
\* and keeps the pool within MaxNodes and within a positive Available.
PlanFits ==
    \A k \in 1..Len(acc.entries) :
        \E j \in 1..(next - 1) :
            LET v == sorted[j]
                n == acc.entries[k].count
            IN  /\ acc.entries[k].pool = v.name
                /\ 1 <= n /\ v.current + n <= v.max
                /\ v.available > 0 => n <= v.available

\* Need is left unmet only when the pools are exhausted: while something
\* remains, every pool already passed was planned at its full capacity.
Exhaustive ==
    acc.remaining > 0 =>
        \A j \in 1..(next - 1) :
            Capacity(sorted[j]) > 0 =>
                \E k \in 1..Len(acc.entries) :
                    acc.entries[k] = [pool  |-> sorted[j].name,
                                      count |-> Capacity(sorted[j])]

\* The observed price of a node, times the penalty of a recent ICE.
PenalisedPrice(v) == v.usd * v.penalty

\* v is the better choice by either sort key the repository names: the sum
\* the code compares (greedy.go:21) and the pair (priority, penalised price)
\* of its comment (greedy.go:9) and of PRD.md:465.
Dominates(v, w) ==
    /\ v.priority <= w.priority /\ PenalisedPrice(v) <= PenalisedPrice(w)
    /\ v.priority < w.priority \/ PenalisedPrice(v) < PenalisedPrice(w)

\* A pool that is better by either key goes first: a node is planned in a pool
\* only when every pool of the caller's list that dominates it is planned to
\* its capacity before.  The code's key and the documented one disagree on
\* the pools of which neither dominates the other; nothing is said of those.
DominantFirst ==
    \A k \in 1..Len(acc.entries) :
        \E i \in 1..Len(pools) :
            /\ pools[i].name = acc.entries[k].pool
            /\ \A j \in 1..Len(pools) :
                  Dominates(pools[j], pools[i]) /\ Capacity(pools[j]) > 0 =>
                      \E l \in 1..(k - 1) :
                          acc.entries[l] = [pool  |-> pools[j].name,
                                            count |-> Capacity(pools[j])]

\* The reference definition of Fill's answer: whatever the order of the pools,
\* the plan adds up to the need or to all that the pools can take, whichever
\* is less; a need of zero or below plans nothing.
PlanIsMaximal ==
    pc = "done" =>
        LET planned == SumFunction([k \in DOMAIN acc.entries |-> acc.entries[k].count])
            room    == SumFunction([i \in DOMAIN pools |-> Max({0, Capacity(pools[i])})])
        IN  planned = Max({0, Min({need, room})})
=============================================================================
