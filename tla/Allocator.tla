----------------------------- MODULE Allocator -----------------------------
(* What every stage of the pipeline expects of AllocWorkspace and              *)
(* FreeWorkspace: a buffer belongs to whoever asked for it until it is freed.   *)
CONSTANTS Devices,   \* devices (and host memories) with a pool each
          Buffers,   \* the buffers a device can ever be asked for
          Requests   \* numbers of bytes asked for

VARIABLE held   \* buffer |-> [dev, nbytes]: what is in use, and for how much

AInit == held = <<>>

Alloc(b, d, n) == /\ b \notin DOMAIN held
                  /\ held' = [c \in DOMAIN held \cup {b} |->
                                 IF c = b THEN [dev |-> d, nbytes |-> n] ELSE held[c]]

Free(b) == /\ b \in DOMAIN held
           /\ held' = [c \in DOMAIN held \ {b} |-> held[c]]

ANext == \E b \in Buffers : \/ Free(b)
                            \/ \E d \in Devices, n \in Requests : Alloc(b, d, n)

ASpec == AInit /\ [][ANext]_held
=============================================================================
