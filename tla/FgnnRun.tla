------------------------------- MODULE FgnnRun -------------------------------
(***************************************************************************)
(* A whole arch5 run: the sampler and trainer processes of                 *)
(* example/samgraph/multi_gpu/train_gcn.py, what they call in DistEngine,  *)
(* the channel between them (TaskChannel, implemented by MemoryQueue), the *)
(* extraction thread and graph pool of each trainer, and the parent that   *)
(* waits for them.  A mini-batch is its key; sampling, feature extraction  *)
(* and training are single steps on keys.                                  *)
(***************************************************************************)
EXTENDS Integers, Sequences, FiniteSets

CONSTANTS
    Configurations,     \* ways to start the run: scripts, arguments, data, how a process may die
    mq_size,            \* buckets of the memory queue
    max_copying_jobs,   \* mini-batches a graph pool may hold
    MaxCrashes          \* bound: processes that crash in a run

ASSUME RunAssumption ==
    /\ Configurations \subseteq
        [num_sample_worker : Nat \ {0}, num_train_worker : Nat \ {0}, num_epoch : Nat \ {0},
         num_data : Nat \ {0}, batch_size : Nat \ {0},
         pipeline : BOOLEAN, single_gpu : BOOLEAN,
         crash_kinds : SUBSET {"failed", "signalled"}]  \* "failed": abort or exit code # 0
    /\ mq_size \in Nat \ {0}
    /\ max_copying_jobs \in Nat \ {0}
    /\ MaxCrashes \in Nat

VARIABLES
    conf,               \* how this run was started
    pc, epoch, status,  \* of every process
    ranking,            \* has sampler 0 written ranking_nodes?
    shuffler, todo, task,   \* of every sampler
    step, has_batch,    \* of every trainer: its loop, is there a batch to train on?
    extract, pool, threads, joined,     \* of every trainer's engine
    channel, received,  \* the memory queue
    fetched,            \* history: which trainer got which message in which epoch
    logged,             \* the step keys every trainer has logged in its profiler
    parent, crashes

procVars == <<pc, epoch, status>>
samplerVars == <<shuffler, todo, task>>
engineVars == <<extract, pool, threads, joined>>
trainerVars == <<step, has_batch, fetched, logged>>
queueVars == <<channel, received>>
parentVars == <<parent, crashes>>
vars == <<conf, procVars, ranking, samplerVars, trainerVars, engineVars, queueVars, parentVars>>

num_sample_worker == conf.num_sample_worker
num_train_worker == conf.num_train_worker
num_epoch == conf.num_epoch
pipeline == conf.pipeline
single_gpu == conf.single_gpu

INSTANCE EpochSplit WITH num_data <- conf.num_data, batch_size <- conf.batch_size

Trainer == 0 .. num_train_worker - 1
S(i) == <<"sampler", i>>
T(j) == <<"trainer", j>>
Proc == {S(i) : i \in Sampler} \cup {T(j) : j \in Trainer}

Message == [from : Nat, epoch : Nat, nth : Nat, key : Nat]

Channel == INSTANCE TaskChannel WITH Messages <- Message, Capacity <- mq_size

------------------------------------------------------------------------------
(* Mutant of LocalSteps, the steps a script gives its sampler: the last    *)
(* one takes too many.                                                     *)
LocalSteps_WholeEpoch(i) ==
    IF i = num_sample_worker - 1 THEN NumStep + 1 ELSE NumStep \div num_sample_worker

(* Work is split by worker: the last sampler takes what integer division   *)
(* leaves, the first trainers one step more.                               *)
LocalSteps(i) ==
    IF i = num_sample_worker - 1
    THEN NumStep - (NumStep \div num_sample_worker) * i
    ELSE NumStep \div num_sample_worker

(* Mutant of NeedSteps: every thread rounds up. *)
NeedSteps_RoundUp(j) == (NumStep + num_train_worker - 1) \div num_train_worker

NeedSteps(j) ==
    NumStep \div num_train_worker + (IF j < NumStep % num_train_worker THEN 1 ELSE 0)

AlignUpStep ==
    ((NumStep + num_train_worker - 1) \div num_train_worker) * num_train_worker

(* A trainer that starts an extraction thread, or else calls sample_once   *)
(* itself before every get_next_batch.                                     *)
Background == pipeline \/ single_gpu

NoMessage == [from |-> 0, epoch |-> 0, nth |-> 0, key |-> -1]
Idle == [left |-> 0, at |-> "none", task |-> NoMessage]

Init ==
    /\ conf \in Configurations
    /\ pc = [p \in Proc |-> IF p[1] = "sampler" THEN "sample_init" ELSE "ready"]
    /\ epoch = [p \in Proc |-> 0]
    /\ status = [p \in Proc |-> "running"]
    /\ ranking = FALSE
    /\ shuffler = [i \in Sampler |-> NewShuffler(i)]
    /\ todo = [i \in Sampler |-> LocalSteps(i)]
    /\ task = [i \in Sampler |-> -1]
    /\ step = [j \in Trainer |-> j]
    /\ has_batch = [j \in Trainer |-> FALSE]
    /\ extract = [j \in Trainer |-> Idle]
    /\ pool = [j \in Trainer |-> << >>]
    /\ threads = [j \in Trainer |-> 0]
    /\ joined = [j \in Trainer |-> 0]
    /\ Channel!ChannelInit
    /\ fetched = {}
    /\ logged = [j \in Trainer |-> {}]
    /\ parent = "wait"
    /\ crashes = 0

Goto(p, from, to) ==
    /\ status[p] = "running"
    /\ pc[p] = from
    /\ pc' = [pc EXCEPT ![p] = to]
    /\ UNCHANGED <<epoch, status>>

(* LOG(FATAL), CHECK and uncaught exceptions end a process. *)
Fail(p, from) ==
    /\ status[p] = "running"
    /\ pc[p] = from
    /\ status' = [status EXCEPT ![p] = "failed"]
    /\ UNCHANGED <<pc, epoch>>

------------------------------------------------------------------------------
(* DistEngine::SampleInit: the first sampler presamples and writes the     *)
(* shared ranking, all meet at _sampler_barrier and build the cache table. *)
QueueTooSmall == NumStep > mq_size

SampleInit(i) ==
    /\ ~QueueTooSmall
    /\ Goto(S(i), "sample_init", "sampler_barrier")
    /\ ranking' = (ranking \/ i = 0)
    /\ UNCHANGED <<conf, samplerVars, trainerVars, engineVars, queueVars, parentVars>>

SampleInitFatal(i) ==
    /\ QueueTooSmall
    /\ Fail(S(i), "sample_init")
    /\ UNCHANGED <<conf, ranking, samplerVars, trainerVars, engineVars, queueVars, parentVars>>

(* Mutant of SamplerBarrier: a sampler goes on alone. *)
SamplerBarrier_Private ==
    /\ \E i \in Sampler :
        /\ status[S(i)] = "running" /\ pc[S(i)] = "sampler_barrier"
        /\ pc' = [pc EXCEPT ![S(i)] = "cache_table"]
    /\ UNCHANGED <<epoch, status, conf, ranking, samplerVars, trainerVars, engineVars, queueVars, parentVars>>

SamplerBarrier ==
    /\ \A i \in Sampler : status[S(i)] = "running" /\ pc[S(i)] = "sampler_barrier"
    /\ pc' = [p \in Proc |-> IF p[1] = "sampler" THEN "cache_table" ELSE pc[p]]
    /\ UNCHANGED <<epoch, status, conf, ranking, samplerVars, trainerVars, engineVars, queueVars, parentVars>>

SampleCacheTableInit(i) ==
    /\ Goto(S(i), "cache_table", "ready")
    /\ UNCHANGED <<conf, ranking, samplerVars, trainerVars, engineVars, queueVars, parentVars>>

(* DistEngine::TrainInit, which reads the ranking. *)
TrainInit(j) ==
    /\ Goto(T(j), "train_init", "run")
    /\ UNCHANGED <<conf, ranking, samplerVars, trainerVars, engineVars, queueVars, parentVars>>

------------------------------------------------------------------------------
(***************************************************************************)
(* global_barrier: every process waits there under a name of its own; when *)
(* all have arrived, all go on.                                            *)
(***************************************************************************)
GlobalWaits == {"ready", "run", "start", "sampled", "end", "run_end", "print"}

EpochStart(p) == IF p[1] = "trainer" \/ pipeline THEN "start" ELSE "sample"

AfterBarrier(p) ==
    CASE pc[p] = "ready"   -> IF p[1] = "sampler" THEN "run" ELSE "train_init"
      [] pc[p] = "run"     -> EpochStart(p)
      [] pc[p] = "start"   -> IF p[1] = "sampler" THEN "sample" ELSE "extract"
      [] pc[p] = "sampled" -> "end"
      [] pc[p] = "end"     -> IF epoch[p] + 1 < num_epoch THEN EpochStart(p)
                              ELSE IF p[1] = "sampler" THEN "report" ELSE "last_sync"
      [] pc[p] = "run_end" -> "print"
      [] pc[p] = "print"   -> "shutdown"

GlobalBarrier ==
    /\ \A p \in Proc : status[p] = "running" /\ pc[p] \in GlobalWaits
    /\ pc' = [p \in Proc |-> AfterBarrier(p)]
    /\ epoch' = [p \in Proc |-> IF pc[p] = "end" THEN epoch[p] + 1 ELSE epoch[p]]
    /\ step' = [j \in Trainer |-> IF pc[T(j)] = "start" THEN j ELSE step[j]]
    /\ todo' = [i \in Sampler |-> IF pc[S(i)] = "end" THEN LocalSteps(i) ELSE todo[i]]
    /\ UNCHANGED <<status, conf, ranking, shuffler, task, has_batch, fetched, logged,
                   engineVars, queueVars, parentVars>>

(* A process that waits for one that is gone times out and raises.         *)
BarrierTimeout(p) ==
    /\ pc[p] \in GlobalWaits
    /\ \E q \in Proc : status[q] # "running"
    /\ Fail(p, pc[p])
    /\ UNCHANGED <<conf, ranking, samplerVars, trainerVars, engineVars, queueVars, parentVars>>

------------------------------------------------------------------------------
(* sample_once of a sampler: DoShuffle takes the next batch of             *)
(* DistShuffler::GetBatch and gives it a key ...                           *)
SampleOnce(i) ==
    LET sh == NextBatch(shuffler[i], i)
        ok == sh.epoch < num_epoch      \* a null task is LOG(FATAL)
    IN  /\ todo[i] > 0
        /\ IF ok THEN Goto(S(i), "sample", "send") ELSE Fail(S(i), "sample")
        /\ shuffler' = [shuffler EXCEPT ![i] = sh]
        /\ task' = [task EXCEPT ![i] = IF ok THEN BatchKey(sh, i) ELSE -1]
        /\ UNCHANGED <<conf, ranking, todo, trainerVars, engineVars, queueVars, parentVars>>

(* ... and Send waits for room in the queue. *)
Send(i) ==
    /\ Goto(S(i), "send", "sample")
    /\ Channel!Send([from |-> i, epoch |-> epoch[S(i)], nth |-> LocalSteps(i) - todo[i],
                     key |-> task[i]])
    /\ todo' = [todo EXCEPT ![i] = @ - 1]
    /\ task' = [task EXCEPT ![i] = -1]
    /\ UNCHANGED <<conf, ranking, shuffler, trainerVars, engineVars, parentVars>>

(* Mutant of Sampled: the second barrier of a serial epoch is missing. *)
Sampled_NoBarrier(i) ==
    /\ todo[i] = 0
    /\ Goto(S(i), "sample", "end")
    /\ UNCHANGED <<conf, ranking, samplerVars, trainerVars, engineVars, queueVars, parentVars>>

Sampled(i) ==
    /\ todo[i] = 0
    /\ Goto(S(i), "sample", IF pipeline THEN "end" ELSE "sampled")
    /\ UNCHANGED <<conf, ranking, samplerVars, trainerVars, engineVars, queueVars, parentVars>>

(* After the last epoch sampler 0 reports on the loop variable step, which *)
(* is unbound if the sampler had no step.                                  *)
NothingToReport(i) == i = 0 /\ LocalSteps(i) = 0

Report(i) ==
    /\ ~NothingToReport(i)
    /\ Goto(S(i), "report", "run_end")
    /\ UNCHANGED <<conf, ranking, samplerVars, trainerVars, engineVars, queueVars, parentVars>>

ReportUnbound(i) ==
    /\ NothingToReport(i)
    /\ Fail(S(i), "report")
    /\ UNCHANGED <<conf, ranking, samplerVars, trainerVars, engineVars, queueVars, parentVars>>

------------------------------------------------------------------------------
(***************************************************************************)
(* The engine of a trainer.  extract is the thread that is in              *)
(* DataCopySubLoop, or the trainer itself inside sample_once; a thread     *)
(* that has left the loop only has to report that it is finished.          *)
(***************************************************************************)
Looping(n) == IF n = 0 THEN Idle ELSE [Idle EXCEPT !.left = n - 1, !.at = "full"]

ExtractGoto(j, from, to) ==
    /\ status[T(j)] = "running"
    /\ extract[j].at = from
    /\ extract' = [extract EXCEPT ![j].at = to]
    /\ UNCHANGED <<procVars, conf, ranking, samplerVars, trainerVars, threads, joined, parentVars>>

(* Mutant of ExtractFull: the thread does not wait for room. *)
ExtractFull_NoWait(j) ==
    /\ ExtractGoto(j, "full", "recv")
    /\ UNCHANGED <<pool, queueVars>>

(* while (graph_pool->Full()) ends. *)
ExtractFull(j) ==
    /\ Len(pool[j]) < max_copying_jobs
    /\ ExtractGoto(j, "full", "recv")
    /\ UNCHANGED <<pool, queueVars>>

ExtractRecv(j) ==
    /\ status[T(j)] = "running"
    /\ extract[j].at = "recv"
    /\ \E m \in channel :
        /\ Channel!Recv(m)
        /\ extract' = [extract EXCEPT ![j].at = "submit", ![j].task = m]
    /\ UNCHANGED <<procVars, conf, ranking, samplerVars, trainerVars, pool, threads, joined, parentVars>>

(* Copy the graph and the features, Submit, and loop while count-- # 0.    *)
ExtractSubmit(j) ==
    /\ status[T(j)] = "running"
    /\ extract[j].at = "submit"
    /\ pool' = [pool EXCEPT ![j] = Append(@, extract[j].task)]
    /\ extract' = [extract EXCEPT ![j] =
                    IF @.left = 0 THEN Idle ELSE Looping(@.left)]
    /\ UNCHANGED <<procVars, conf, ranking, samplerVars, trainerVars, threads, joined, queueVars, parentVars>>

Working(j) == IF Background /\ extract[j].at # "none" THEN 1 ELSE 0

ReportThreadFinish(j) ==
    /\ status[T(j)] = "running"
    /\ joined[j] + Working(j) < threads[j]
    /\ joined' = [joined EXCEPT ![j] = @ + 1]
    /\ UNCHANGED <<procVars, conf, ranking, samplerVars, trainerVars, extract, pool, threads, queueVars, parentVars>>

------------------------------------------------------------------------------
(* An epoch of run_train. *)
(* extract_start(need_steps) starts a thread, if the run has one. *)
ExtractStart(j) ==
    /\ Goto(T(j), "extract", "next")
    /\ IF Background
       THEN /\ extract' = [extract EXCEPT ![j] = Looping(NeedSteps(j))]
            /\ threads' = [threads EXCEPT ![j] = @ + 1]
       ELSE UNCHANGED <<extract, threads>>
    /\ UNCHANGED <<conf, ranking, samplerVars, trainerVars, pool, joined, queueVars, parentVars>>

(* A step that has a batch of its own: sample_once if there is no thread.  *)
NextStep(j) ==
    /\ step[j] < NumStep
    /\ Goto(T(j), "next", "get")
    /\ extract' = IF Background THEN extract ELSE [extract EXCEPT ![j] = Looping(1)]
    /\ UNCHANGED <<conf, ranking, samplerVars, trainerVars, pool, threads, joined, queueVars, parentVars>>

(* get_next_batch: GraphPool::GetGraphBatch waits for a batch. *)
GetNextBatch(j) ==
    /\ extract[j].at = "none" \/ Background
    /\ pool[j] # << >>
    /\ Goto(T(j), "get", "backward")
    /\ fetched' = fetched \cup {[by |-> j, epoch |-> epoch[T(j)], message |-> Head(pool[j])]}
    /\ pool' = [pool EXCEPT ![j] = Tail(@)]
    /\ has_batch' = [has_batch EXCEPT ![j] = TRUE]
    /\ UNCHANGED <<conf, ranking, samplerVars, step, logged, extract, threads, joined, queueVars, parentVars>>

(* A padding step trains on the batch of the step before; without one the  *)
(* names blocks and batch_input are unbound.                               *)
PadStep(j) ==
    /\ step[j] >= NumStep /\ step[j] < AlignUpStep
    /\ has_batch[j]
    /\ Goto(T(j), "next", "backward")
    /\ UNCHANGED <<conf, ranking, samplerVars, trainerVars, engineVars, queueVars, parentVars>>

PadStepUnbound(j) ==
    /\ step[j] >= NumStep /\ step[j] < AlignUpStep
    /\ ~has_batch[j]
    /\ Fail(T(j), "next")
    /\ UNCHANGED <<conf, ranking, samplerVars, trainerVars, engineVars, queueVars, parentVars>>

EndSteps(j) ==
    /\ step[j] >= AlignUpStep
    /\ Goto(T(j), "next", "sync")
    /\ UNCHANGED <<conf, ranking, samplerVars, trainerVars, engineVars, queueVars, parentVars>>

TrainersAt(at) == \A j \in Trainer : status[T(j)] = "running" /\ pc[T(j)] = at
TrainersGoto(at) == pc' = [p \in Proc |-> IF p[1] = "trainer" THEN at ELSE pc[p]]

(* loss.backward() of DistributedDataParallel: the trainers average their  *)
(* gradients together; a batch is dropped if another one follows.  Then    *)
(* every trainer logs the step, a padding step too.                        *)
StepKey(j) == epoch[T(j)] * NumStep + step[j]

Backward ==
    /\ TrainersAt("backward")
    /\ TrainersGoto("next")
    /\ step' = [j \in Trainer |-> step[j] + num_train_worker]
    /\ has_batch' = [j \in Trainer |-> has_batch[j] /\ step[j] + num_train_worker >= NumStep]
    /\ logged' = [j \in Trainer |-> logged[j] \cup {StepKey(j)}]
    /\ UNCHANGED <<epoch, status, conf, ranking, samplerVars, fetched, engineVars, queueVars, parentVars>>

(* torch.distributed.barrier(), after every epoch and after the last one.  *)
TrainBarrier(at, to) ==
    /\ TrainersAt(at)
    /\ TrainersGoto(to)
    /\ UNCHANGED <<epoch, status, conf, ranking, samplerVars, trainerVars, engineVars, queueVars, parentVars>>

(* DistEngine::Shutdown waits for every extraction thread; the process     *)
(* exits.                                                                  *)
Shutdown(p) ==
    /\ status[p] = "running" /\ pc[p] = "shutdown"
    /\ p[1] = "trainer" => joined[p[2]] = threads[p[2]]
    /\ status' = [status EXCEPT ![p] = "exited"]
    /\ UNCHANGED <<pc, epoch, conf, ranking, samplerVars, trainerVars, engineVars, queueVars, parentVars>>

------------------------------------------------------------------------------
(* A process dies: by abort or an exception, or by another signal. *)
Crash(p) ==
    /\ crashes < MaxCrashes
    /\ status[p] = "running"
    /\ \E how \in conf.crash_kinds : status' = [status EXCEPT ![p] = how]
    /\ crashes' = crashes + 1
    /\ UNCHANGED <<pc, epoch, conf, ranking, samplerVars, trainerVars, engineVars, queueVars, parent>>

(* Mutant of WaitOneChild: the exit status is not looked at. *)
WaitOneChild_IgnoreStatus ==
    /\ parent = "wait"
    /\ ~ \A p \in Proc : status[p] = "running"
    /\ parent' = "join"
    /\ UNCHANGED <<procVars, conf, ranking, samplerVars, trainerVars, engineVars, queueVars, crashes>>

(* The parent: wait_one_child reports a child that ended, and calls it a   *)
(* failure when it aborted or exited with an error, but not when another   *)
(* signal ended it; then kill and join.                                    *)
WaitOneChild ==
    /\ parent = "wait"
    /\ \E p \in Proc :
        /\ status[p] # "running"
        /\ parent' = IF status[p] = "failed" THEN "kill" ELSE "join"
    /\ UNCHANGED <<procVars, conf, ranking, samplerVars, trainerVars, engineVars, queueVars, crashes>>

KillAll ==
    /\ parent = "kill"
    /\ parent' = "join_failed"
    /\ status' = [p \in Proc |-> IF status[p] = "running" THEN "killed" ELSE status[p]]
    /\ UNCHANGED <<pc, epoch, conf, ranking, samplerVars, trainerVars, engineVars, queueVars, crashes>>

AllGone == \A p \in Proc : status[p] # "running"

Join ==
    /\ parent \in {"join", "join_failed"}
    /\ AllGone
    /\ parent' = IF parent = "join" THEN "exit 0" ELSE "exit 1"
    /\ UNCHANGED <<procVars, conf, ranking, samplerVars, trainerVars, engineVars, queueVars, crashes>>

------------------------------------------------------------------------------
SamplerStep(i) ==
    \/ SampleInit(i) \/ SampleInitFatal(i) \/ SampleCacheTableInit(i)
    \/ SampleOnce(i) \/ Send(i) \/ Sampled(i) \/ Report(i) \/ ReportUnbound(i)
    \/ BarrierTimeout(S(i)) \/ Shutdown(S(i))

TrainerStep(j) ==
    \/ TrainInit(j) \/ ExtractStart(j) \/ NextStep(j) \/ GetNextBatch(j)
    \/ PadStep(j) \/ PadStepUnbound(j) \/ EndSteps(j)
    \/ BarrierTimeout(T(j)) \/ Shutdown(T(j))

ExtractStep(j) == ExtractFull(j) \/ ExtractRecv(j) \/ ExtractSubmit(j)

Together ==
    \/ SamplerBarrier \/ GlobalBarrier \/ Backward
    \/ TrainBarrier("sync", "end") \/ TrainBarrier("last_sync", "run_end")

ParentStep == WaitOneChild \/ KillAll \/ Join

Next ==
    \/ \E i \in Sampler : SamplerStep(i)
    \/ \E j \in Trainer : TrainerStep(j) \/ ExtractStep(j) \/ ReportThreadFinish(j)
    \/ Together
    \/ ParentStep
    \/ \E p \in Proc : Crash(p)

Spec == Init /\ [][Next]_vars

AnySampler == UNION {0 .. c.num_sample_worker - 1 : c \in Configurations}
AnyTrainer == UNION {0 .. c.num_train_worker - 1 : c \in Configurations}

(* Every process and thread is scheduled, and a wait whose condition holds *)
(* ends.  Nothing makes a process crash.                                   *)
FairSpec ==
    /\ Spec
    /\ \A i \in AnySampler : WF_vars(i \in Sampler /\ SamplerStep(i))
    /\ \A j \in AnyTrainer :
        /\ WF_vars(j \in Trainer /\ TrainerStep(j))
        /\ WF_vars(j \in Trainer /\ ExtractStep(j))
        /\ WF_vars(j \in Trainer /\ ReportThreadFinish(j))
    /\ WF_vars(Together)
    /\ WF_vars(ParentStep)

------------------------------------------------------------------------------
Statuses == {"running", "exited", "failed", "signalled", "killed"}

SamplerPc == {"sample_init", "sampler_barrier", "cache_table", "sample", "send", "report",
               "shutdown"}
TrainerPc == {"train_init", "extract", "next", "get", "backward", "sync", "last_sync", "shutdown"}

TypeOK ==
    /\ conf \in Configurations
    /\ \A i \in Sampler : pc[S(i)] \in SamplerPc \cup GlobalWaits
    /\ \A j \in Trainer : pc[T(j)] \in TrainerPc \cup (GlobalWaits \ {"sampled"})
    /\ epoch \in [Proc -> 0 .. num_epoch]
    /\ status \in [Proc -> Statuses]
    /\ ranking \in BOOLEAN
    /\ shuffler \in [Sampler -> [epoch : 0 .. num_epoch, step : 0 .. NumStep, initialized : BOOLEAN]]
    /\ todo \in [Sampler -> 0 .. NumStep]
    /\ task \in [Sampler -> -1 .. num_epoch * NumStep - 1]
    /\ step \in [Trainer -> 0 .. AlignUpStep + num_train_worker - 1]
    /\ has_batch \in [Trainer -> BOOLEAN]
    /\ logged \in [Trainer -> SUBSET (0 .. num_epoch * AlignUpStep)]
    /\ \A j \in Trainer :
        /\ extract[j].left \in 0 .. NumStep
        /\ extract[j].at \in {"none", "full", "recv", "submit"}
        /\ extract[j].task \in Message \cup {NoMessage}
        /\ pool[j] \in Seq(Message)
        /\ threads[j] \in 0 .. num_epoch /\ joined[j] \in 0 .. threads[j]
    /\ channel \subseteq Message /\ received \subseteq Message
    /\ fetched \subseteq [by : Trainer, epoch : 0 .. num_epoch - 1, message : Message]
    /\ parent \in {"wait", "kill", "join", "join_failed", "exit 0", "exit 1"}
    /\ crashes \in 0 .. MaxCrashes

(* A process reads the shared ranking only after sampler 0 has written it: *)
(* samplers after _sampler_barrier, trainers after wait_for_sampler_ready. *)
RankingReadReady ==
    \A p \in Proc : pc[p] \in {"cache_table", "train_init"} => ranking

(* When a trainer leaves an epoch every mini-batch of it has been trained, *)
(* in that epoch, by one trainer and once: the keys the samplers give out  *)
(* are distinct, none is lost or handed out twice on the way, and none is  *)
(* left in the queue, a pool or a thread for the next epoch.               *)
EpochComplete ==
    \A j \in Trainer : \A e \in 0 .. epoch[T(j)] - 1 :
        LET done == {f \in fetched : f.epoch = e}
        IN  /\ {f.message.key : f \in done} = e * NumStep .. (e + 1) * NumStep - 1
            /\ Cardinality(done) = NumStep

(* The profiler is given num_epoch * NumStep steps of space: no trainer    *)
(* logs a step beyond it.  The padding steps of the last epoch do.         *)
LogsInSpace == \A j \in Trainer : logged[j] \subseteq 0 .. num_epoch * NumStep - 1

(* A graph pool never holds more than max_copying_jobs batches, although   *)
(* Full() is asked long before Submit and threads of two epochs overlap.   *)
PoolBounded == \A j \in Trainer : Len(pool[j]) <= max_copying_jobs

(* At most one thread of an engine is in the extraction loop: the next     *)
(* extract_start finds the last one done but for its report.               *)
OneExtractor ==
    [][\A j \in Trainer : threads'[j] > threads[j] => extract[j].at = "none"]_vars

(* Can the run work?  Every sampler and trainer has a step of its own, and *)
(* the queue holds an epoch.                                               *)
Workable ==
    NumStep \in num_sample_worker .. mq_size /\ num_train_worker <= NumStep

NoSignals == [](\A p \in Proc : status[p] # "signalled")

(* Without crashes a run that can work ends, all processes return, and the *)
(* parent reports success; nobody blocks in the queue, a barrier, a pool   *)
(* or a gradient exchange.                                                 *)
RunSucceeds ==
    [](crashes = 0) /\ Workable => <>(parent = "exit 0" /\ \A p \in Proc : status[p] = "exited")

(* A run that goes wrong ends.  One process that aborts or raises ends all *)
(* of them, wherever the others are blocked, for the parent kills them;    *)
(* and a run that cannot work ends with an error.                          *)
FailureEndsRun ==
    NoSignals =>
        /\ (\E p \in Proc : status[p] = "failed") ~> (parent \in {"exit 0", "exit 1"} /\ AllGone)
        /\ ~Workable => <>(parent = "exit 1" /\ AllGone)
==============================================================================
