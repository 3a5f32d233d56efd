SPECIFICATION FairSpec
CONSTANTS
    s1 = s1
    s2 = s2
    s3 = s3
    r1 = r1
    r2 = r2
    NoMsg = NoMsg
    Senders <- ThreeSenders
    Receivers <- TwoReceivers
    max_size = 2
    Total = 5
INVARIANT TypeOK
INVARIANT BucketExclusive
INVARIANT ReadyIsFresh
PROPERTY ImplementsChannel
PROPERTY AllReceived
