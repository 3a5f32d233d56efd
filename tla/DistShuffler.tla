---------------------------- MODULE DistShuffler ----------------------------
(***************************************************************************)
(* The shufflers of all samplers side by side.  Every sampler shuffles its *)
(* own copy of the train set in place, an epoch upon the other, with the   *)
(* epoch as the seed; it copies its share to the GPU and hands it out in   *)
(* batches.  That the shares fit together rests on the copies being equal  *)
(* in every epoch, although no sampler knows where the others are.         *)
(***************************************************************************)
EXTENDS EpochSplit, FiniteSets

CONSTANT Shuffle        \* the permutation default_random_engine(seed) makes

Position == 0 .. num_data - 1

ASSUME ShuffleAssumption ==
    /\ Shuffle \in [0 .. num_epoch - 1 -> [Position -> Position]]
    /\ \A e \in 0 .. num_epoch - 1 :
        /\ \A p, q \in Position : Shuffle[e][p] = Shuffle[e][q] => p = q
        /\ \A q \in Position : \E p \in Position : Shuffle[e][p] = q

VARIABLES
    shuffler,   \* epoch, step and whether it is initialized
    train_set,  \* _data: the sampler's copy, by position
    gpu_data,   \* _gpu_data: its share of the copy
    batches     \* history: every batch handed out

vars == <<shuffler, train_set, gpu_data, batches>>

Init ==
    /\ shuffler = [i \in Sampler |-> NewShuffler(i)]
    /\ train_set = [i \in Sampler |-> [p \in Position |-> p]]
    /\ gpu_data = [i \in Sampler |-> << >>]
    /\ batches = {}

(* Mutant of Shuffled: the seed is another one in every process. *)
Shuffled_OwnSeed(i, e) ==
    [p \in Position |-> train_set[i][Shuffle[(e + i) % num_epoch][p]]]

(* ReShuffle permutes what the last epoch left. *)
Shuffled(i, e) == [p \in Position |-> train_set[i][Shuffle[e][p]]]

(* The share of sampler i, from _dataset_offset on. *)
Share(i, data) ==
    [p \in 0 .. SamplerDataSize(i) - 1 |-> data[StepOffset(i) * batch_size + p]]

(* GetBatch, which the script of a sampler calls if it has steps at all.   *)
GetBatch(i) ==
    LET sh == NextBatch(shuffler[i], i)
        reshuffle == sh.step = 0 /\ sh.epoch < num_epoch
        data == IF reshuffle THEN Shuffled(i, sh.epoch) ELSE train_set[i]
        share == IF reshuffle THEN Share(i, data) ELSE gpu_data[i]
        taken == {BatchOffset(sh.step) + n : n \in 0 .. BatchSize(i, sh.step) - 1}
    IN  /\ ShufflerSteps(i) > 0
        /\ shuffler[i].epoch < num_epoch
        /\ shuffler' = [shuffler EXCEPT ![i] = sh]
        /\ train_set' = [train_set EXCEPT ![i] = data]
        /\ gpu_data' = [gpu_data EXCEPT ![i] = share]
        /\ batches' = IF sh.epoch >= num_epoch THEN batches
                      ELSE batches \cup
                           {[by |-> i, key |-> BatchKey(sh, i), in_share |-> taken \subseteq DOMAIN share,
                             nodes |-> {share[p] : p \in taken \cap DOMAIN share}]}

Next == \E i \in Sampler : GetBatch(i)

Spec == Init /\ [][Next]_vars

------------------------------------------------------------------------------
EpochOf(b) == b.key \div NumStep

TypeOK ==
    /\ \A i \in Sampler :
        /\ shuffler[i].epoch \in 0 .. num_epoch
        /\ shuffler[i].step \in 0 .. ShufflerSteps(i)
        /\ train_set[i] \in [Position -> Position]
    /\ \A b \in batches : b.by \in Sampler /\ b.key \in 0 .. num_epoch * NumStep - 1 /\ b.nodes \subseteq Position

(* Copy1D never reads beyond the share, and no batch is empty. *)
WithinShare == \A b \in batches : b.in_share /\ b.nodes # {}

(* In every epoch the batches partition the train set: no node is trained  *)
(* twice, whatever sampler it comes from and however far the samplers are  *)
(* apart, and when all have left the epoch its NumStep batches have        *)
(* covered the train set.                                                  *)
EpochPartition ==
    \A e \in 0 .. num_epoch - 1 :
        LET handed == {b \in batches : EpochOf(b) = e}
        IN  /\ \A b, c \in handed : b # c => b.nodes \cap c.nodes = {}
            /\ (\A i \in Sampler : ShufflerSteps(i) > 0 => shuffler[i].epoch > e) =>
                    Cardinality(handed) = NumStep /\ UNION {b.nodes : b \in handed} = Position
==============================================================================
