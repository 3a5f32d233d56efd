----------------------------- MODULE EpochSplit -----------------------------
(***************************************************************************)
(* How an epoch is split into mini-batches and the mini-batches among the  *)
(* samplers: the arithmetic of DistEngine::Init, of DistShuffler and of    *)
(* Engine::GetBatchKey, and the position of one shuffler in its epochs.    *)
(***************************************************************************)
EXTENDS Integers

CONSTANTS
    num_data,           \* nodes of the train set
    batch_size,
    num_sample_worker,
    num_epoch

ASSUME SplitAssumption ==
    /\ num_data \in Nat \ {0}
    /\ batch_size \in Nat \ {0}
    /\ num_sample_worker \in Nat \ {0}
    /\ num_epoch \in Nat \ {0}

Sampler == 0 .. num_sample_worker - 1

(* Mini-batches of an epoch; drop_last is false. *)
NumStep == (num_data + batch_size - 1) \div batch_size

(* The first step of sampler i, _dataset_offset / _batch_size. *)
StepOffset(i) == (NumStep \div num_sample_worker) * i

(* Mutant of ShufflerSteps: the last sampler has the steps of the others.  *)
ShufflerSteps_Floor(i) == NumStep \div num_sample_worker

(* The steps of sampler i, _num_step: the last one takes what is left.     *)
ShufflerSteps(i) ==
    IF i = num_sample_worker - 1 THEN NumStep - StepOffset(i)
    ELSE NumStep \div num_sample_worker

(* Mutant of LastBatchSize: no batch is short. *)
LastBatchSize_Full(i) == batch_size

(* Only the last sampler's last batch may be short. *)
LastBatchSize(i) ==
    IF i < num_sample_worker - 1 \/ num_data % batch_size = 0
    THEN batch_size ELSE num_data % batch_size

(* The nodes of the train set that sampler i copies to its GPU. *)
SamplerDataSize(i) ==
    IF i = num_sample_worker - 1 THEN num_data - StepOffset(i) * batch_size
    ELSE ShufflerSteps(i) * batch_size

(* Where a batch starts and how long it is, in the sampler's own data.     *)
BatchOffset(step) == step * batch_size
BatchSize(i, step) == IF step = ShufflerSteps(i) - 1 THEN LastBatchSize(i) ELSE batch_size

(* Positions of the (shuffled) train set that make up a batch. *)
BatchRange(i, step) ==
    LET first == StepOffset(i) * batch_size + BatchOffset(step)
    IN  first .. first + BatchSize(i, step) - 1

(* The position of a shuffler.  A new one stands behind the last step, so  *)
(* that its first GetBatch starts epoch 0.                                 *)
NewShuffler(i) == [epoch |-> 0, step |-> ShufflerSteps(i), initialized |-> FALSE]

(* Mutant of NextBatch: one step too many before the reshuffle. *)
NextBatch_OneMore(sh, i) ==
    IF sh.step + 1 <= ShufflerSteps(i) /\ sh.initialized THEN [sh EXCEPT !.step = @ + 1]
    ELSE [epoch |-> IF sh.initialized THEN sh.epoch + 1 ELSE 0, step |-> 0, initialized |-> TRUE]

(* GetBatch moves on by a step; behind the last one it reshuffles and      *)
(* starts the next epoch.                                                  *)
NextBatch(sh, i) ==
    IF sh.step + 1 < ShufflerSteps(i) THEN [sh EXCEPT !.step = @ + 1]
    ELSE [epoch |-> IF sh.initialized THEN sh.epoch + 1 ELSE 0, step |-> 0, initialized |-> TRUE]

(* Mutant of BatchKey: without the offset of the sampler. *)
BatchKey_NoOffset(sh, i) == sh.epoch * NumStep + sh.step

(* GetBatchKey(Epoch(), Step()): unique in the whole run. *)
BatchKey(sh, i) == sh.epoch * NumStep + StepOffset(i) + sh.step
==============================================================================
