SPECIFICATION FairSpec
CONSTANTS
    gpus = gpus
    m1 = m1
    Pool = {gpus}
    WithSecret = {gpus}
    Machine = {m1}
    SpotPrice = 3
    MaxICE = 1
INVARIANTS
    ProvidersTypeOK
    OneProviderPerPool
    ICEsKept
    ReleasedIsGone
PROPERTIES
    ForPoolReturns
    ICEReported
