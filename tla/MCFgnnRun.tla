------------------------------ MODULE MCFgnnRun ------------------------------
(* FgnnRun on small instances: the ways to start a run.                    *)
EXTENDS FgnnRun

Start(samplers, trainers, epochs, data, mode) ==
    [num_sample_worker |-> samplers, num_train_worker |-> trainers, num_epoch |-> epochs,
     num_data |-> data, batch_size |-> 2,
     pipeline |-> mode = "pipeline", single_gpu |-> mode = "single_gpu", crash_kinds |-> {}]

(* Three steps an epoch divide neither among two samplers nor among two    *)
(* trainers; one GPU is a sampler and a trainer that take turns; a queue   *)
(* smaller than the epoch; fewer steps than trainers; than samplers.       *)
WorkAndRefuse ==
    {Start(2, 2, 2, 5, "pipeline"), Start(2, 2, 2, 5, "serial"), Start(1, 1, 2, 5, "single_gpu"),
     Start(3, 2, 1, 7, "serial"), Start(1, 2, 1, 1, "pipeline"), Start(2, 1, 2, 1, "pipeline")}

(* Smaller runs in which any process may die at any point, either way.     *)
Crashing ==
    {[c EXCEPT !.crash_kinds = {"failed", "signalled"}] :
        c \in {Start(1, 2, 1, 5, "pipeline"), Start(1, 1, 2, 3, "pipeline"),
               Start(2, 1, 1, 4, "serial")}}

AllStarts == WorkAndRefuse \cup Crashing

Padding == {Start(1, 2, 1, 5, "pipeline")}
==============================================================================
