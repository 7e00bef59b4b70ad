CONSTANTS
    Chunk = 50
    Cap = 100
    Port <- OnePort
    Flow <- OneFlow
    Client = {1}
    Traffic <- OneTraffic
    ReqSize = 2
SPECIFICATION FairSpec
PROPERTIES
    AllServed
