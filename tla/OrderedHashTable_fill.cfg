SPECIFICATION Spec
\* the bound on batches ends a behaviour
CHECK_DEADLOCK FALSE
CONSTANTS
    Ids = {0, 32, 1}
    batch_size = 1
    fanout <- Fanout31
    scale = 2
    TileSize = 2
    AllNeighbours = FALSE
    MaxItems = 3
    MaxBatches = 2
INVARIANT TypeOK
INVARIANT KeyOnce
INVARIANT TablesAgree
PROPERTY ImplementsNumbering
