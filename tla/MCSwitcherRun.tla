---------------------------- MODULE MCSwitcherRun ----------------------------
(* SwitcherRun on small instances: the ways to start a run.                *)
EXTENDS SwitcherRun

Start(samplers, trainers, epochs, data, mode) ==
    [num_sample_worker |-> samplers, num_train_worker |-> trainers, num_epoch |-> epochs,
     num_data |-> data, batch_size |-> 2, pipeline |-> mode = "pipeline"]

(* Two samplers that share three steps unevenly, two switchers and a       *)
(* trainer; one sampler and two trainers in turns.                         *)
EvenAndOdd == {Start(2, 1, 2, 5, "pipeline"), Start(1, 2, 3, 4, "serial"), Start(2, 1, 2, 4, "serial")}

(* Five steps and three samplers. *)
ThreeSamplers == {Start(3, 1, 1, 10, "pipeline")}

(* The least run in which workers of two epochs have something to share.   *)
TwoEpochs == {Start(1, 1, 2, 4, "pipeline")}
==============================================================================
