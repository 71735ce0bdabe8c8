SPECIFICATION Spec
CONSTANTS
    aws = aws
    byo = byo
    a1 = a1
    a2 = a2
    s1 = s1
    s2 = s2
    s3 = s3
    Pool <- MixedPool
    Name <- Mixed
    Home <- MixedHome
    PreJoined <- MixedPreJoined
    Provider <- MixedProvider
    Price <- MixedOne
    Available <- MixedZero
    Demand <- Zero
    MaxExports = 0
    Events = {"crash", "unanswered"}
    PolicyPools <- MixedPolicy
    Priority <- MixedTwo
    MaxNodes <- MixedRoom
    MaxHourlyUSD <- MixedTwo
    Target <- FixedThree
SYMMETRY SwapPlaceholders
INVARIANTS
    TypeOK
    OneRecordPerNode
    ProvisioningCounted
PROPERTIES
    KeepsLedger
