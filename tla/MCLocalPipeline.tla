--------------------------- MODULE MCLocalPipeline ---------------------------
(* LocalPipeline on small instances: the ways to start a run.              *)
EXTENDS LocalPipeline

Run(arch, mode, barrier, epochs, data, sampling_jobs, copying_jobs) ==
    [arch |-> arch, pipeline |-> mode = "pipeline", barriered_epoch |-> barrier,
     num_epoch |-> epochs, num_data |-> data, batch_size |-> 2,
     max_sampling_jobs |-> sampling_jobs, max_copying_jobs |-> copying_jobs]

(* Every arch called by the script; threads that may run ahead of it by    *)
(* more or less than an epoch; arch4 with the barrier in every epoch, in   *)
(* the first, where it does nothing, and in the second only.               *)
AllRuns ==
    {Run(a, "serial", 0, 2, 3, 1, 1) : a \in Arch} \cup
    {Run("arch0", "pipeline", 0, 2, 5, 1, 2),
     Run("arch3", "pipeline", 0, 2, 5, 2, 2), Run("arch3", "pipeline", 0, 3, 4, 1, 1)} \cup
    {Run("arch4", "pipeline", b, 3, 4, 2, 2) : b \in {-1, 0, 1}}
==============================================================================
