SPECIFICATION Spec
CHECK_DEADLOCK FALSE
CONSTANTS
    Ids = {0, 8, 1}
    batch_size = 1
    fanout <- Fanout1
    scale = 2
    TileSize = 2
    AllNeighbours = TRUE
    MaxItems = 3
    MaxBatches = 1
INVARIANT N2OInBounds
