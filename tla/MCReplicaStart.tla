--------------------------- MODULE MCReplicaStart ---------------------------
(***************************************************************************)
(* One replica and specs that differ from the first in one respect each.   *)
(***************************************************************************)
EXTENDS ReplicaStart

First ==
    [model |-> <<"m1">>, quantization |-> <<>>, type |-> "vllm", version |-> <<"1">>,
     args |-> << <<"a", ",", "b">> >>, gpu |-> 2, class |-> "gvisor", snapshot |-> FALSE,
     lmcache |-> "off", remote |-> ""]

\* Another model, with a snapshot; the same hash, but the arguments split at
\* their comma, LMCache and one GPU; a type that Reconcile lets pass and the
\* webhook and buildPod do not.
Edited ==
    {First,
     [First EXCEPT !.model = <<"m2">>, !.snapshot = TRUE, !.class = "runc"],
     [First EXCEPT !.args = << <<"a">>, <<"b">> >>, !.lmcache = "on", !.gpu = 1],
     [First EXCEPT !.type = "VLLM"]}

Hashes == {ComputeSpecHash(s) : s \in Edited}
OneReplica == [min |-> 1, max |-> 1]
OnlyOne == {OneReplica}
AnyEdit == Wanted \X Wanted
FirstHash == ComputeSpecHash(First)

\* As the end-to-end tests deploy it, and with the webhook and real vLLM.
TestAndReal == {[webhook |-> FALSE, image |-> "fakevllm"],
                [webhook |-> TRUE, image |-> "vllm-openai"]}
=============================================================================
