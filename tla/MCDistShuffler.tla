--------------------------- MODULE MCDistShuffler ---------------------------
(* Three samplers on a train set that neither batches nor samplers divide. *)
EXTENDS DistShuffler

(* Two shuffles that do not commute: a rotation and a swap. *)
RotateThenSwap ==
    [e \in 0 .. num_epoch - 1 |->
        [p \in 0 .. num_data - 1 |->
            IF e % 2 = 0 THEN (p + 2) % num_data
            ELSE IF p = 0 THEN num_data - 1 ELSE IF p = num_data - 1 THEN 0 ELSE p]]
==============================================================================
