SPECIFICATION MCSpec
CONSTANTS
    PoolView <- MCPoolView
    Need <- MCNeed
    MaxPools = 2
INVARIANTS
    TypeOK
    PlanFits
    Exhaustive
    DominantFirst
    PlanIsMaximal
CHECK_DEADLOCK FALSE
