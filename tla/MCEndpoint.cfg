SPECIFICATION EpSpec
CONSTANTS
    v1 = v1
    v2 = v2
    Gen <- Specs
    FirstGen = v1
    Scalings <- Lowered
    FirstScaling <- UpToTwo
    MostReplicas = 2
    Edits <- Edit
    Annotation = {1, 3}
    Events = {"crash", "lost", "kv"}
INVARIANTS
    EndpointTypeOK
PROPERTIES
    KVHitKept
    CreatesAccepted
    CreatesWithinLimits
