SPECIFICATION Spec
\* every sampler runs out of epochs
CHECK_DEADLOCK FALSE
CONSTANTS
    num_data = 9
    batch_size = 2
    num_sample_worker = 3
    num_epoch = 2
    Shuffle <- RotateThenSwap
INVARIANT TypeOK
INVARIANT WithinShare
INVARIANT EpochPartition
