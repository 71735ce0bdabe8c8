SPECIFICATION GatewayFairSpec
CONSTANTS
    chat = chat
    llama = llama
    pod1 = pod1
    get1 = get1
    get2 = get2
    Endpoint <- Endpoints
    Model <- Models
    ModelOf <- Serves
    Replica <- Replicas
    Request <- OneRequest
    MinReplicas = 0
    MaxReplicas = 1
    TargetValue = 2
    MaxInFlight = 2
    Events = {}
PROPERTIES
    WakesUp
