SPECIFICATION EpFairSpec
CONSTANTS
    v1 = v1
    v2 = v2
    Gen <- Specs
    FirstGen = v1
    Scalings <- OnlyOne
    FirstScaling <- One
    MostReplicas = 1
    Edits <- Upgrade
    Annotation = {}
    Events = {}
PROPERTIES
    RolloutCompletes
