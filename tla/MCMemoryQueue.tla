---------------------------- MODULE MCMemoryQueue ----------------------------
(* MemoryQueue on small instances: max_size buckets and Total messages,    *)
(* with Total > max_size so that tickets wrap around the ring.             *)
EXTENDS MemoryQueueProofs

CONSTANTS s1, s2, s3, r1, r2

ThreeSenders == {s1, s2, s3}
TwoReceivers == {r1, r2}
==============================================================================
