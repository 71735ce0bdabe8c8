----------------------------- MODULE NodeLedger -----------------------------
(***************************************************************************)
(* What the three capacity controllers promise together about the node     *)
(* records of the pools: each pool has one book of entries, entries are    *)
(* only ever added at its end, and no name is entered twice.  Who writes,  *)
(* from which read and how often it is retried is left to CapacityPlane.   *)
(***************************************************************************)
EXTENDS Naturals, Sequences

CONSTANTS Pool, Name

VARIABLE book    \* book[p]: the entries of pool p, oldest first

\* Whose entry it is, and whether it came from a launch or from discovery.
Entry == Name \X {"provisioned", "discovered"}

LedgerInit == book = [p \in Pool |-> <<>>]

\* b is a with entries added, and names nobody twice.
Extends(a, b) ==
    /\ Len(a) <= Len(b) /\ \A i \in 1..Len(a) : b[i] = a[i]
    /\ \A i \in 1..Len(b) : b[i] \in Entry
    /\ \A i, j \in 1..Len(b) : b[i][1] = b[j][1] => i = j

\* One pool's book is extended; the others stay as they are.
Enter(p) ==
    /\ Extends(book[p], book'[p])
    /\ \A q \in Pool \ {p} : book'[q] = book[q]

LedgerNext == \E p \in Pool : Enter(p)

LedgerSpec == LedgerInit /\ [][LedgerNext]_book
=============================================================================
