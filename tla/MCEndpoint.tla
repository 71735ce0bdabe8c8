----------------------------- MODULE MCEndpoint -----------------------------
(***************************************************************************)
(* Instances of EndpointController: one or two replicas, and a spec that   *)
(* is upgraded or whose limit is lowered.                                  *)
(***************************************************************************)
EXTENDS EndpointController

CONSTANTS v1, v2

Specs == {v1, v2}

One == [min |-> 1, max |-> 1]
UpToOne == [min |-> 0, max |-> 1]
UpToTwo == [min |-> 0, max |-> 2]
OnlyOne == {One}
Lowered == {UpToOne, UpToTwo}

\* One edit: to the next spec, or to a lower limit.
Upgrade ==
    {<<[gen |-> v1, scaling |-> sc], [gen |-> v2, scaling |-> sc]>> : sc \in Scalings \ {UpToOne}}
Edit == Upgrade \cup {<<[gen |-> v1, scaling |-> UpToTwo], [gen |-> v1, scaling |-> UpToOne]>>}
=============================================================================
