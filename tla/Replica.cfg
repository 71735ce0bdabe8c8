SPECIFICATION ReplicaSpec
CONSTANTS
    Specs <- Edited
    FirstSpec <- First
    Deployments <- TestAndReal
    Gen <- Hashes
    FirstGen <- FirstHash
    Scalings <- OnlyOne
    FirstScaling <- OneReplica
    MostReplicas = 1
    Edits <- AnyEdit
    Annotation = {}
    Events = {"crash", "lost"}
INVARIANTS
    ReplicaTypeOK
    AdmittedBuilds
    ContainersFit
PROPERTIES
    RenderedFromAccepted
