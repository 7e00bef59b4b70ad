CONSTANTS
    Chunk = 50
    Cap = 200
    Port = {5001}
    Flow <- Crowded
SPECIFICATION AllocSpec
INVARIANT PodTotal
