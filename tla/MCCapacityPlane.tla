-------------------------- MODULE MCCapacityPlane ---------------------------
(***************************************************************************)
(* Instances of CapacityPlane: one AWS pool, one static pool, or both.     *)
(***************************************************************************)
EXTENDS CapacityPlane, TLC

CONSTANTS aws, byo, a1, a2, s1, s2, s3

NoNames == {}

\* An AWS pool with one or two machines to launch.
AwsPool == {aws}
OneAws == {a1}
TwoAws == {a1, a2}
OneAwsHome == [n \in OneAws |-> aws]
TwoAwsHome == [n \in TwoAws |-> aws]
AwsProvider == [p \in AwsPool |-> "aws"]
AwsPolicy == <<aws>>
AwsZero == [p \in AwsPool |-> 0]
AwsTwo == [p \in AwsPool |-> 2]

\* An AWS pool with a machine to launch, and a static pool with one node and
\* two placeholders to come.
MixedPool == {aws, byo}
Mixed == {a1, s1, s2, s3}
MixedPreJoined == {s1}
MixedHome == [n \in Mixed |-> IF n = a1 THEN aws ELSE byo]
MixedProvider == [p \in MixedPool |-> IF p = aws THEN "aws" ELSE "static"]
MixedPolicy == <<aws, byo>>
MixedZero == [p \in MixedPool |-> 0]
MixedOne == [p \in MixedPool |-> IF p = aws THEN 1 ELSE 0]
MixedTwo == [p \in MixedPool |-> 2]
MixedRoom == [p \in MixedPool |-> IF p = aws THEN 1 ELSE 3]
SwapPlaceholders == Permutations({s2, s3})

\* The values DemandEWMA takes, and targets.
Zero == {0}
ZeroOne == {0, 1}
FixedOne == [mode |-> "static", min |-> 1, max |-> 1, k |-> 0]
FixedThree == [mode |-> "static", min |-> 3, max |-> 3, k |-> 0]
DynamicOne == [mode |-> "dynamic", min |-> 0, max |-> 1, k |-> 3]
=============================================================================
