SPECIFICATION FairSpec
CONSTANT
    Configurations <- AllRuns
INVARIANT TypeOK
INVARIANT InOrder
INVARIANT WholeBatches
INVARIANT BarrierHolds
INVARIANT Bounded
INVARIANT EpochTimes
PROPERTY RunEnds
