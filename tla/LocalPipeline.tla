---------------------------- MODULE LocalPipeline ----------------------------
(***************************************************************************)
(* A run in one process (example/samgraph/train_gcn.py): the script and    *)
(* the loops of arch0 to arch4, either called by the script before every   *)
(* get_next_batch or run by background threads, with the task queue, the   *)
(* graph pool, the barrier of arch4 and Shutdown.  A mini-batch is its     *)
(* key; what the stages compute is left out.                               *)
(***************************************************************************)
EXTENDS Integers, Sequences

CONSTANT Configurations     \* ways to start the run

Arch == {"arch0", "arch1", "arch2", "arch3", "arch4"}

(* Start aborts for arch1 and arch2.  Sampling has two layers or more.  In *)
(* a pipelined arch0 run there is a cache: without one, SampleCopySubLoop  *)
(* uses a cache manager that does not exist and the run has no first       *)
(* batch.                                                                  *)
ASSUME PipelineAssumption ==
    /\ Configurations \subseteq
        [arch : Arch, pipeline : BOOLEAN, barriered_epoch : Int, num_epoch : Nat \ {0},
         num_data : Nat \ {0}, batch_size : Nat \ {0}, max_sampling_jobs : Nat \ {0},
         max_copying_jobs : Nat \ {0}]
    /\ \A c \in Configurations : c.pipeline => c.arch \notin {"arch1", "arch2"}

VARIABLES
    conf,               \* how this run was started
    script, step,       \* where the script is, how many steps it has done
    pc,                 \* where the sampling and the copying loop are
    loop,               \* cur_epoch and cur_step of arch4's SampleSubLoop
    shuffler,
    sampling, copying,  \* the task of either loop
    remapped,           \* tasks with graph_remapped
    queue, graph_pool,
    graph_batch,        \* the engine's current batch
    inner_counter, outer_counter,
    sample_log, copy_log,   \* tasks in the profiler's times of their epoch
    should_shutdown, joined

scriptVars == <<script, step, graph_batch>>
samplerVars == <<shuffler, sampling, sample_log>>
copierVars == <<copying, copy_log>>
batchVars == <<remapped, queue, graph_pool>>
barrierVars == <<loop, inner_counter, outer_counter>>
endVars == <<should_shutdown, joined>>
vars == <<conf, pc, scriptVars, samplerVars, copierVars, batchVars, barrierVars, endVars>>

num_epoch == conf.num_epoch

INSTANCE EpochSplit WITH
    num_data <- conf.num_data, batch_size <- conf.batch_size, num_sample_worker <- 1

NoTask == -1

(* arch0 and arch1 have one loop, RunSampleCopySubLoopOnce, from the       *)
(* shuffler to the pool; the others one on each side of the task queue.    *)
OneLoop == conf.arch \in {"arch0", "arch1"}

(* arch4 waits for room where the other loops return and try again. *)
Arch4 == conf.arch = "arch4"

Loops == IF OneLoop THEN {"sampler"} ELSE {"sampler", "copier"}
NumThreads == IF ~conf.pipeline THEN 0 ELSE IF OneLoop THEN 1 ELSE 2

Init ==
    /\ conf \in Configurations
    /\ script = "step" /\ step = 0
    /\ pc = [t \in {"sampler", "copier"} |-> "idle"]
    /\ loop = [epoch |-> 0, step |-> 0]
    /\ shuffler = NewShuffler(0)
    /\ sampling = NoTask /\ copying = NoTask
    /\ remapped = {}
    /\ queue = << >> /\ graph_pool = << >>
    /\ graph_batch = NoTask
    /\ inner_counter = 0 /\ outer_counter = 0
    /\ sample_log = {} /\ copy_log = {}
    /\ should_shutdown = FALSE /\ joined = 0

Goto(t, from, to) ==
    /\ pc[t] = from
    /\ pc' = [pc EXCEPT ![t] = to]
    /\ UNCHANGED conf

------------------------------------------------------------------------------
(* TaskQueue::Full and GraphPool::Full.                                    *)
(* Mutant of QueueFull: one task too many. *)
QueueFull_OneMore == Len(queue) > conf.max_sampling_jobs

QueueFull == Len(queue) >= conf.max_sampling_jobs
PoolFull == Len(graph_pool) >= conf.max_copying_jobs

------------------------------------------------------------------------------
(* RunSampleSubLoopOnce, and RunSampleCopySubLoopOnce of arch0 and arch1.  *)
BeginSample ==
    LET full == IF OneLoop THEN PoolFull ELSE QueueFull
    IN  /\ Goto("sampler", "begin", IF full THEN "return" ELSE "shuffle")
        /\ Arch4 => ~full
        /\ UNCHANGED <<scriptVars, samplerVars, copierVars, batchVars, barrierVars, endVars>>

(* Mutant of DoShuffle: the shuffler does not end. *)
DoShuffle_NoEnd ==
    /\ Goto("sampler", "shuffle", IF Arch4 THEN "add" ELSE "sample")
    /\ shuffler' = IF shuffler.epoch < num_epoch THEN NextBatch(shuffler, 0) ELSE shuffler
    /\ sampling' = BatchKey(shuffler', 0)
    /\ UNCHANGED <<scriptVars, sample_log, copierVars, batchVars, barrierVars, endVars>>

(* Behind the last epoch GetBatch has nothing; how far a shuffler goes     *)
(* there makes no difference and is cut off.                               *)
DoShuffle ==
    LET next == IF shuffler.epoch < num_epoch THEN NextBatch(shuffler, 0) ELSE shuffler
        task == IF next.epoch < num_epoch THEN BatchKey(next, 0) ELSE NoTask
    IN  /\ Goto("sampler", "shuffle",
                IF task = NoTask THEN "return" ELSE IF Arch4 THEN "add" ELSE "sample")
        /\ shuffler' = next
        /\ sampling' = task
        /\ UNCHANGED <<scriptVars, sample_log, copierVars, batchVars, barrierVars, endVars>>

(* AddTask follows DoGPUSample, but DoGPUSampleDyCache of arch4 calls it   *)
(* as nbr_cb as soon as the input nodes are known.                         *)
AddTask ==
    /\ Goto("sampler", "add", IF Arch4 THEN "sample" ELSE "log")
    /\ queue' = Append(queue, sampling)
    /\ UNCHANGED <<scriptVars, samplerVars, copierVars, remapped, graph_pool, barrierVars, endVars>>

(* The sampled graph is complete and its edges renumbered. *)
Sample ==
    /\ Goto("sampler", "sample",
            IF Arch4 THEN "log" ELSE IF OneLoop THEN "submit" ELSE "add")
    /\ remapped' = remapped \cup {sampling}
    /\ UNCHANGED <<scriptVars, samplerVars, copierVars, queue, graph_pool, barrierVars, endVars>>

(* The one loop extracts, copies and submits by itself. *)
SubmitSampled ==
    /\ OneLoop
    /\ Goto("sampler", "submit", "log")
    /\ graph_pool' = Append(graph_pool, sampling)
    /\ UNCHANGED <<scriptVars, samplerVars, copierVars, remapped, queue, barrierVars, endVars>>

(* LogEpochAdd of the sampling time; the one loop logs the copy time, too. *)
LogSample ==
    /\ Goto("sampler", "log", "return")
    /\ sample_log' = sample_log \cup {sampling}
    /\ copy_log' = IF OneLoop THEN copy_log \cup {sampling} ELSE copy_log
    /\ sampling' = NoTask
    /\ UNCHANGED <<scriptVars, shuffler, copying, batchVars, barrierVars, endVars>>

------------------------------------------------------------------------------
(* RunDataCopySubLoopOnce and RunCacheDataCopySubLoopOnce.                 *)
BeginCopy ==
    /\ Goto("copier", "begin", IF PoolFull THEN "return" ELSE "get")
    /\ Arch4 => ~PoolFull
    /\ UNCHANGED <<scriptVars, samplerVars, copierVars, batchVars, barrierVars, endVars>>

GetNoTask ==
    /\ queue = << >>
    /\ Goto("copier", "get", "return")
    /\ UNCHANGED <<scriptVars, samplerVars, copierVars, batchVars, barrierVars, endVars>>

(* Mutant of GetTask: the newest task. *)
GetTask_Newest ==
    /\ queue # << >>
    /\ Goto("copier", "get", "copy")
    /\ copying' = queue[Len(queue)]
    /\ queue' = SubSeq(queue, 1, Len(queue) - 1)
    /\ UNCHANGED <<scriptVars, samplerVars, copy_log, remapped, graph_pool, barrierVars, endVars>>

GetTask ==
    /\ queue # << >>
    /\ Goto("copier", "get", "copy")
    /\ copying' = Head(queue)
    /\ queue' = Tail(queue)
    /\ UNCHANGED <<scriptVars, samplerVars, copy_log, remapped, graph_pool, barrierVars, endVars>>

(* Mutant of Copy: it does not wait. *)
Copy_NoWait ==
    /\ Goto("copier", "copy", "submit")
    /\ UNCHANGED <<scriptVars, samplerVars, copierVars, batchVars, barrierVars, endVars>>

(* DoGraphCopy comes first in arch3; arch4 copies the features first and   *)
(* waits for graph_remapped.                                               *)
Copy ==
    /\ Arch4 => copying \in remapped
    /\ Goto("copier", "copy", "submit")
    /\ UNCHANGED <<scriptVars, samplerVars, copierVars, batchVars, barrierVars, endVars>>

Submit ==
    /\ Goto("copier", "submit", "log")
    /\ graph_pool' = Append(graph_pool, copying)
    /\ UNCHANGED <<scriptVars, samplerVars, copierVars, remapped, queue, barrierVars, endVars>>

(* Mutant of LogCopy: the time of the step only. *)
LogCopy_StepOnly ==
    /\ Goto("copier", "log", "return")
    /\ copying' = NoTask
    /\ UNCHANGED <<copy_log, scriptVars, samplerVars, batchVars, barrierVars, endVars>>

LogCopy ==
    /\ Goto("copier", "log", "return")
    /\ copy_log' = copy_log \cup {copying}
    /\ copying' = NoTask
    /\ UNCHANGED <<scriptVars, samplerVars, batchVars, barrierVars, endVars>>

------------------------------------------------------------------------------
(* The loops of the threads.                                               *)
Counts(t) == Arch4 /\ t = "sampler"

(* func() && !ShouldShutdown(), or else ReportThreadFinish. *)
Again(t) ==
    /\ conf.pipeline /\ ~Counts(t)
    /\ Goto(t, "return", IF should_shutdown THEN "finished" ELSE "begin")
    /\ joined' = IF should_shutdown THEN joined + 1 ELSE joined
    /\ UNCHANGED <<scriptVars, samplerVars, copierVars, batchVars, barrierVars,
                   should_shutdown>>

Barriered(e) == conf.barriered_epoch \in {-1, e}

(* Mutant of BeginEpoch: the counters are compared the other way. *)
BeginEpoch_Reversed ==
    /\ Goto("sampler", "epoch", "begin")
    /\ Barriered(loop.epoch) => inner_counter >= outer_counter
    /\ UNCHANGED <<scriptVars, samplerVars, copierVars, batchVars, barrierVars, endVars>>

(* WaitBarrier at the start of an epoch of arch4's SampleSubLoop. *)
BeginEpoch ==
    /\ Goto("sampler", "epoch", "begin")
    /\ Barriered(loop.epoch) => inner_counter <= outer_counter
    /\ UNCHANGED <<scriptVars, samplerVars, copierVars, batchVars, barrierVars, endVars>>

NextStep ==
    /\ conf.pipeline /\ Counts("sampler")
    /\ loop.step + 1 < NumStep
    /\ Goto("sampler", "return", "begin")
    /\ loop' = [loop EXCEPT !.step = @ + 1]
    /\ UNCHANGED <<scriptVars, samplerVars, copierVars, batchVars, inner_counter, outer_counter,
                   endVars>>

(* ForwardInnerBarrier. *)
EndEpoch ==
    /\ conf.pipeline /\ Counts("sampler")
    /\ loop.step + 1 = NumStep
    /\ Goto("sampler", "return", IF loop.epoch + 1 < num_epoch THEN "epoch" ELSE "drain")
    /\ loop' = [epoch |-> loop.epoch + 1, step |-> 0]
    /\ inner_counter' = inner_counter + 1
    /\ UNCHANGED <<scriptVars, samplerVars, copierVars, batchVars, outer_counter, endVars>>

Drain ==
    /\ should_shutdown
    /\ Goto("sampler", "drain", "finished")
    /\ joined' = joined + 1
    /\ UNCHANGED <<scriptVars, samplerVars, copierVars, batchVars, barrierVars,
                   should_shutdown>>

------------------------------------------------------------------------------
(* The script. *)
ScriptGoto(from, to) == script = from /\ script' = to /\ UNCHANGED conf

(* sam.start() in the first step. *)
Start ==
    /\ conf.pipeline
    /\ ScriptGoto("step", "fetch")
    /\ pc' = IF step > 0 THEN pc
             ELSE [t \in {"sampler", "copier"} |->
                    IF t \notin Loops THEN "idle" ELSE IF Counts(t) THEN "epoch" ELSE "begin"]
    /\ UNCHANGED <<step, graph_batch, samplerVars, copierVars, batchVars, barrierVars, endVars>>

(* sample_once: the script calls one loop, then the other. *)
SampleOnce ==
    /\ ~conf.pipeline
    /\ ScriptGoto("step", "sampling")
    /\ pc' = [pc EXCEPT !["sampler"] = "begin"]
    /\ UNCHANGED <<step, graph_batch, samplerVars, copierVars, batchVars, barrierVars, endVars>>

CopyOnce ==
    /\ pc["sampler"] = "return"
    /\ ScriptGoto("sampling", IF OneLoop THEN "fetch" ELSE "copying")
    /\ pc' = [pc EXCEPT !["sampler"] = "idle", !["copier"] = IF OneLoop THEN "idle" ELSE "begin"]
    /\ UNCHANGED <<step, graph_batch, samplerVars, copierVars, batchVars, barrierVars, endVars>>

OnceReturn ==
    /\ pc["copier"] = "return"
    /\ ScriptGoto("copying", "fetch")
    /\ pc' = [pc EXCEPT !["copier"] = "idle"]
    /\ UNCHANGED <<step, graph_batch, samplerVars, copierVars, batchVars, barrierVars, endVars>>

GetNextBatch ==
    /\ graph_pool # << >>
    /\ ScriptGoto("fetch", "train")
    /\ graph_batch' = Head(graph_pool)
    /\ graph_pool' = Tail(graph_pool)
    /\ UNCHANGED <<step, pc, samplerVars, copierVars, remapped, queue, barrierVars, endVars>>

Train ==
    /\ ScriptGoto("train", IF (step + 1) % NumStep = 0 THEN "report" ELSE "step")
    /\ step' = step + 1
    /\ UNCHANGED <<graph_batch, pc, samplerVars, copierVars, batchVars, barrierVars, endVars>>

(* Mutant of EpochReport: the barrier is not forwarded. *)
EpochReport_NoForward ==
    /\ ScriptGoto("report", IF step = num_epoch * NumStep THEN "shutdown" ELSE "step")
    /\ UNCHANGED <<step, graph_batch, pc, samplerVars, copierVars, batchVars, barrierVars, endVars>>

(* The times of the epoch are read, and forward_barrier. *)
EpochReport ==
    /\ ScriptGoto("report", IF step = num_epoch * NumStep THEN "shutdown" ELSE "step")
    /\ outer_counter' = outer_counter + 1
    /\ UNCHANGED <<step, graph_batch, pc, samplerVars, copierVars, batchVars, loop, inner_counter,
                   endVars>>

Shutdown ==
    /\ ScriptGoto("shutdown", "join")
    /\ should_shutdown' = TRUE
    /\ UNCHANGED <<step, graph_batch, pc, samplerVars, copierVars, batchVars, barrierVars, joined>>

(* IsAllThreadFinish, join, delete what the threads used. *)
JoinAndFree ==
    /\ joined = NumThreads
    /\ ScriptGoto("join", "done")
    /\ queue' = << >> /\ graph_pool' = << >>
    /\ should_shutdown' = FALSE /\ joined' = 0
    /\ UNCHANGED <<step, graph_batch, pc, samplerVars, copierVars, remapped, barrierVars>>

------------------------------------------------------------------------------
SamplerStep ==
    \/ BeginSample \/ DoShuffle \/ AddTask \/ Sample \/ SubmitSampled \/ LogSample
    \/ Again("sampler") \/ BeginEpoch \/ NextStep \/ EndEpoch \/ Drain

CopierStep ==
    BeginCopy \/ GetNoTask \/ GetTask \/ Copy \/ Submit \/ LogCopy \/ Again("copier")

ScriptStep ==
    \/ Start \/ SampleOnce \/ CopyOnce \/ OnceReturn \/ GetNextBatch \/ Train
    \/ EpochReport \/ Shutdown \/ JoinAndFree

Ended == script = "done" /\ UNCHANGED vars

Next == SamplerStep \/ CopierStep \/ ScriptStep \/ Ended

Spec == Init /\ [][Next]_vars

(* Every thread runs. *)
FairSpec == Spec /\ WF_vars(SamplerStep) /\ WF_vars(CopierStep) /\ WF_vars(ScriptStep)

------------------------------------------------------------------------------
Key == 0 .. num_epoch * NumStep - 1

(* The type invariant: in particular no task has a key behind the last     *)
(* epoch.                                                                  *)
TypeOK ==
    /\ conf \in Configurations
    /\ script \in {"step", "sampling", "copying", "fetch", "train", "report", "shutdown", "join", "done"}
    /\ step \in 0 .. num_epoch * NumStep
    /\ pc["sampler"] \in {"idle", "epoch", "begin", "shuffle", "add", "sample", "submit", "log",
                          "return", "drain", "finished"}
    /\ pc["copier"] \in {"idle", "begin", "get", "copy", "submit", "log", "return", "finished"}
    /\ loop \in [epoch : 0 .. num_epoch, step : 0 .. NumStep - 1]
    /\ sampling \in Key \cup {NoTask} /\ copying \in Key \cup {NoTask}
    /\ graph_batch \in Key \cup {NoTask}
    /\ remapped \subseteq Key /\ sample_log \subseteq Key /\ copy_log \subseteq Key
    /\ queue \in Seq(Key) /\ graph_pool \in Seq(Key)
    /\ inner_counter \in 0 .. num_epoch /\ outer_counter \in 0 .. num_epoch
    /\ should_shutdown \in BOOLEAN /\ joined \in 0 .. NumThreads

(* The mini-batches between the shuffler and the script, the next one to   *)
(* be trained first.                                                       *)
InFlight ==
    LET If(cond, key) == IF cond THEN <<key>> ELSE << >>
        unsent == pc["sampler"] \in {"add", "submit"} \/ (pc["sampler"] = "sample" /\ ~Arch4)
    IN  If(script = "train", graph_batch) \o graph_pool \o
        If(pc["copier"] \in {"copy", "submit"}, copying) \o queue \o If(unsent, sampling)

(* The script files its times under the step it counts itself, the loops   *)
(* theirs under the key of the task.  They agree: the batch of step n is   *)
(* the n-th of the shuffler, whichever thread is ahead, and none is lost   *)
(* on the way (train_gcn.py, TaskQueue, GraphPool).                        *)
InOrder ==
    /\ \A n \in 1 .. Len(InFlight) : InFlight[n] = step + n - 1
    /\ shuffler.initialized =>
        step + Len(InFlight) =
            IF shuffler.epoch < num_epoch THEN BatchKey(shuffler, 0) + 1 ELSE num_epoch * NumStep

(* No graph is copied and handed to the script before its edges are        *)
(* renumbered, though arch4 queues the task long before                    *)
(* (RunDataCopySubLoopOnce).                                               *)
WholeBatches ==
    /\ \A n \in 1 .. Len(graph_pool) : graph_pool[n] \in remapped
    /\ pc["copier"] = "submit" => copying \in remapped

(* Nothing of a barriered epoch is sampled before the script has trained   *)
(* all of the epochs before (WaitBarrier, ForwardBarrier,                  *)
(* ForwardInnerBarrier).                                                   *)
BarrierHolds ==
    conf.pipeline /\ Arch4 /\ sampling # NoTask =>
        LET e == sampling \div NumStep IN Barriered(e) => step >= e * NumStep

(* max_sampling_jobs and max_copying_jobs bound the device memory that     *)
(* waiting mini-batches take, though Full is asked long before the task is *)
(* added.                                                                  *)
Bounded == Len(queue) <= conf.max_sampling_jobs /\ Len(graph_pool) <= conf.max_copying_jobs

(* What the script reads as the sampling and copying time of an epoch is   *)
(* of all its mini-batches; threads that log after they hand over may lack *)
(* the last one, but no other (LogEpochAdd, get_log_epoch_value).          *)
EpochTimes ==
    script = "report" =>
        \A k \in 0 .. (IF conf.pipeline THEN step - 2 ELSE step - 1) :
            k \in sample_log \cap copy_log

(* The run comes to its end: no wait of the threads for room, tasks,       *)
(* graph_remapped or the barrier, none of the script for a batch, and none *)
(* of Shutdown for the threads is for ever.                                *)
RunEnds == <>(script = "done")
==============================================================================
