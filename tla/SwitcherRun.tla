----------------------------- MODULE SwitcherRun -----------------------------
(***************************************************************************)
(* A run with dynamic switching (balance_switcher/train_pinsage.py).  On   *)
(* the GPU of every sampler a second process, the switcher, starts to      *)
(* train when the sampler has done its part of the epoch.  Switchers and   *)
(* trainers share the mini-batches without a plan: a semaphore counts      *)
(* those of the epoch, and who takes one takes a message from the queue.   *)
(* The run is followed from the run start barrier on; SampleInit, the      *)
(* ready barrier and the parent are those of FgnnRun.                      *)
(***************************************************************************)
EXTENDS Integers, FiniteSets

CONSTANTS
    Configurations,     \* ways to start the run
    mq_size             \* buckets of the memory queue

Steps(c) == (c.num_data + c.batch_size - 1) \div c.batch_size

(* SampleInit has refused a queue that is smaller than the epoch; every    *)
(* sampler has a step.                                                     *)
ASSUME SwitcherAssumption ==
    /\ Configurations \subseteq
        [num_sample_worker : Nat \ {0}, num_train_worker : Nat \ {0}, num_epoch : Nat \ {0},
         num_data : Nat \ {0}, batch_size : Nat \ {0}, pipeline : BOOLEAN]
    /\ mq_size \in Nat
    /\ \A c \in Configurations : Steps(c) \in c.num_sample_worker .. mq_size

VARIABLES
    conf,               \* how this run was started
    pc, epoch,          \* of every process
    shuffler, todo, task,   \* of every sampler
    sampler_stop_event, \* one for each sampler and its switcher
    mq_sem,             \* mini-batches of the epoch nobody has taken yet
    channel, received,  \* the memory queue
    batch,              \* of every worker: what it trains on
    trained,            \* history: who trained which message in which epoch
    cpu_model           \* of every worker: the updates in its global_cpu_model

procVars == <<pc, epoch>>
samplerVars == <<shuffler, todo, task>>
signalVars == <<sampler_stop_event, mq_sem>>
queueVars == <<channel, received>>
workerVars == <<batch, trained, cpu_model>>
vars == <<conf, procVars, samplerVars, signalVars, queueVars, workerVars>>

num_sample_worker == conf.num_sample_worker
num_epoch == conf.num_epoch

INSTANCE EpochSplit WITH num_data <- conf.num_data, batch_size <- conf.batch_size

S(i) == <<"sampler", i>>
Worker ==
    {<<"switcher", i>> : i \in Sampler} \cup {<<"trainer", j>> : j \in 0 .. conf.num_train_worker - 1}
Proc == {S(i) : i \in Sampler} \cup Worker

Message == [from : Nat, epoch : Nat, nth : Nat, key : Nat]
NoMessage == [from |-> 0, epoch |-> 0, nth |-> 0, key |-> -1]

Channel == INSTANCE TaskChannel WITH Messages <- Message, Capacity <- mq_size

(* The steps the script gives a sampler, in floats: the others take        *)
(* int(num_step / num_worker) each, but the last one what is left of       *)
(* int(num_step / num_worker * worker_id), which may be more than theirs.  *)
LocalSteps(i) ==
    IF i = num_sample_worker - 1 THEN NumStep - (NumStep * i) \div num_sample_worker
    ELSE NumStep \div num_sample_worker

Init ==
    /\ conf \in Configurations
    /\ pc = [p \in Proc |-> "run"]
    /\ epoch = [p \in Proc |-> 0]
    /\ shuffler = [i \in Sampler |-> NewShuffler(i)]
    /\ todo = [i \in Sampler |-> LocalSteps(i)]
    /\ task = [i \in Sampler |-> -1]
    /\ sampler_stop_event = [i \in Sampler |-> FALSE]
    /\ mq_sem = 0
    /\ Channel!ChannelInit
    /\ batch = [w \in Worker |-> NoMessage]
    /\ trained = {}
    /\ cpu_model = [w \in Worker |-> {}]

Goto(p, from, to) ==
    /\ pc[p] = from
    /\ pc' = [pc EXCEPT ![p] = to]
    /\ UNCHANGED <<conf, epoch>>

------------------------------------------------------------------------------
(***************************************************************************)
(* global_barrier.                                                         *)
(***************************************************************************)
GlobalWaits == {"run", "start", "sampled", "end", "run_end"}

EpochStart(p) == IF p[1] = "sampler" THEN "begin" ELSE "start"

AfterBarrier(p) ==
    CASE pc[p] = "run"     -> EpochStart(p)
      [] pc[p] = "start"   -> IF p[1] = "sampler" THEN "sample"
                              ELSE IF p[1] = "switcher" THEN "wait" ELSE "acquire"
      [] pc[p] = "sampled" -> "set"
      [] pc[p] = "end"     -> IF epoch[p] + 1 < num_epoch THEN EpochStart(p) ELSE "run_end"
      [] pc[p] = "run_end" -> "exited"

GlobalBarrier ==
    /\ \A p \in Proc : pc[p] \in GlobalWaits
    /\ pc' = [p \in Proc |-> AfterBarrier(p)]
    /\ epoch' = [p \in Proc |-> IF pc[p] = "end" THEN epoch[p] + 1 ELSE epoch[p]]
    /\ todo' = [i \in Sampler |-> IF pc[S(i)] = "end" THEN LocalSteps(i) ELSE todo[i]]
    /\ UNCHANGED <<conf, shuffler, task, signalVars, queueVars, workerVars>>

------------------------------------------------------------------------------
(* An epoch of run_sample. *)
(* Mutants of BeginEpoch: the event of the last epoch stays set; every     *)
(* sampler announces the whole epoch; one mini-batch is not announced.     *)
BeginEpoch_NoClear(i) ==
    /\ Goto(S(i), "begin", IF conf.pipeline THEN "start" ELSE "sample")
    /\ mq_sem' = mq_sem + LocalSteps(i)
    /\ UNCHANGED <<sampler_stop_event, samplerVars, queueVars, workerVars>>

BeginEpoch_All(i) ==
    /\ Goto(S(i), "begin", IF conf.pipeline THEN "start" ELSE "sample")
    /\ sampler_stop_event' = [sampler_stop_event EXCEPT ![i] = FALSE]
    /\ mq_sem' = mq_sem + NumStep
    /\ UNCHANGED <<samplerVars, queueVars, workerVars>>

BeginEpoch_OneLess(i) ==
    /\ Goto(S(i), "begin", IF conf.pipeline THEN "start" ELSE "sample")
    /\ sampler_stop_event' = [sampler_stop_event EXCEPT ![i] = FALSE]
    /\ mq_sem' = mq_sem + LocalSteps(i) - (IF i = 0 THEN 1 ELSE 0)
    /\ UNCHANGED <<samplerVars, queueVars, workerVars>>

(* Clear the event and release mq_sem once for every mini-batch to come.   *)
(* No worker acquires it before the next barrier.                          *)
BeginEpoch(i) ==
    /\ Goto(S(i), "begin", IF conf.pipeline THEN "start" ELSE "sample")
    /\ sampler_stop_event' = [sampler_stop_event EXCEPT ![i] = FALSE]
    /\ mq_sem' = mq_sem + LocalSteps(i)
    /\ UNCHANGED <<samplerVars, queueVars, workerVars>>

(* sample_once: the next batch of the shuffler, which has a split of its   *)
(* own ...                                                                 *)
SampleOnce(i) ==
    /\ todo[i] > 0
    /\ Goto(S(i), "sample", "send")
    /\ shuffler' = [shuffler EXCEPT ![i] = NextBatch(@, i)]
    /\ task' = [task EXCEPT ![i] = BatchKey(NextBatch(shuffler[i], i), i)]
    /\ UNCHANGED <<todo, signalVars, queueVars, workerVars>>

(* ... goes into the queue. *)
Send(i) ==
    /\ Goto(S(i), "send", "sample")
    /\ Channel!Send([from |-> i, epoch |-> epoch[S(i)], nth |-> LocalSteps(i) - todo[i],
                     key |-> task[i]])
    /\ todo' = [todo EXCEPT ![i] = @ - 1]
    /\ task' = [task EXCEPT ![i] = -1]
    /\ UNCHANGED <<shuffler, signalVars, workerVars>>

Sampled(i) ==
    /\ todo[i] = 0
    /\ Goto(S(i), "sample", IF conf.pipeline THEN "set" ELSE "sampled")
    /\ UNCHANGED <<samplerVars, signalVars, queueVars, workerVars>>

(* Mutant of SetStopEvent: the switcher is not notified. *)
SetStopEvent_Not(i) ==
    /\ Goto(S(i), "set", "end")
    /\ UNCHANGED <<samplerVars, signalVars, queueVars, workerVars>>

SetStopEvent(i) ==
    /\ Goto(S(i), "set", "end")
    /\ sampler_stop_event' = [sampler_stop_event EXCEPT ![i] = TRUE]
    /\ UNCHANGED <<mq_sem, samplerVars, queueVars, workerVars>>

------------------------------------------------------------------------------
(* An epoch of run_train. *)
WaitStopEvent(w) ==
    /\ Goto(w, "wait", "acquire")
    /\ sampler_stop_event[w[2]]
    /\ UNCHANGED <<samplerVars, signalVars, queueVars, workerVars>>

Acquire(w) ==
    /\ mq_sem > 0
    /\ Goto(w, "acquire", "recv")
    /\ mq_sem' = mq_sem - 1
    /\ UNCHANGED <<sampler_stop_event, samplerVars, queueVars, workerVars>>

(* acquire(timeout=0.01) fails when the count is 0. *)
AcquireTimeout(w) ==
    /\ mq_sem = 0
    /\ Goto(w, "acquire", "end")
    /\ UNCHANGED <<samplerVars, signalVars, queueVars, workerVars>>

(* sample_once receives, copies and submits to a pool that is empty, and   *)
(* get_next_batch takes it from there.                                     *)
RecvBatch(w) ==
    /\ Goto(w, "recv", "train")
    /\ \E m \in channel :
        /\ Channel!Recv(m)
        /\ batch' = [batch EXCEPT ![w] = m]
    /\ UNCHANGED <<samplerVars, signalVars, trained, cpu_model>>

(* Train and merge: param = cpu_param + delta; cpu_param.data =            *)
(* param.data.to('cpu').  That assignment gives the worker's own Parameter *)
(* new memory and leaves the shared memory as it was: nobody else sees the *)
(* update, and global_lock, a lock of this process, guards nothing shared. *)
Train(w) ==
    /\ Goto(w, "train", "acquire")
    /\ trained' = trained \cup {[by |-> w, epoch |-> epoch[w], message |-> batch[w]]}
    /\ cpu_model' = [cpu_model EXCEPT ![w] = @ \cup {batch[w].key}]
    /\ batch' = [batch EXCEPT ![w] = NoMessage]
    /\ UNCHANGED <<samplerVars, signalVars, queueVars>>

------------------------------------------------------------------------------
SamplerStep(i) ==
    BeginEpoch(i) \/ SampleOnce(i) \/ Send(i) \/ Sampled(i) \/ SetStopEvent(i)

WorkerStep(w) ==
    WaitStopEvent(w) \/ Acquire(w) \/ AcquireTimeout(w) \/ RecvBatch(w) \/ Train(w)

Ended == (\A p \in Proc : pc[p] = "exited") /\ UNCHANGED vars

Next ==
    \/ GlobalBarrier
    \/ \E i \in Sampler : SamplerStep(i)
    \/ \E w \in Worker : WorkerStep(w)
    \/ Ended

Spec == Init /\ [][Next]_vars

AnyProc == {"sampler", "switcher", "trainer"} \X
    UNION {0 .. c.num_sample_worker + c.num_train_worker - 1 : c \in Configurations}

(* Every process runs, and a wait whose condition holds ends. *)
FairSpec ==
    /\ Spec
    /\ WF_vars(GlobalBarrier)
    /\ \A p \in AnyProc :
        /\ WF_vars(p \in Proc \ Worker /\ SamplerStep(p[2]))
        /\ WF_vars(p \in Worker /\ WorkerStep(p))

------------------------------------------------------------------------------
TypeOK ==
    /\ conf \in Configurations
    /\ \A i \in Sampler :
        pc[S(i)] \in GlobalWaits \cup {"begin", "sample", "send", "set", "exited"}
    /\ \A w \in Worker :
        pc[w] \in (GlobalWaits \ {"sampled"}) \cup {"wait", "acquire", "recv", "train", "exited"}
    /\ epoch \in [Proc -> 0 .. num_epoch]
    /\ todo \in [Sampler -> 0 .. NumStep]
    /\ task \in [Sampler -> -1 .. num_epoch * NumStep - 1]
    /\ sampler_stop_event \in [Sampler -> BOOLEAN]
    /\ mq_sem \in 0 .. NumStep
    /\ channel \subseteq Message /\ received \subseteq Message
    /\ batch \in [Worker -> Message \cup {NoMessage}]
    /\ trained \subseteq [by : Worker, epoch : 0 .. num_epoch - 1, message : Message]
    /\ cpu_model \in [Worker -> SUBSET Nat]

(* A switcher uses the GPU only while the sampler there does not: not in   *)
(* this epoch, and not when the sampler is already in the next.            *)
SwitchAfterSampler ==
    \A i \in Sampler :
        pc[<<"switcher", i>>] \in {"acquire", "recv", "train"} =>
            /\ pc[S(i)] \notin {"begin", "sample", "send"}
            /\ epoch[S(i)] = epoch[<<"switcher", i>>]

(* When a worker leaves an epoch, every mini-batch of the epoch has been   *)
(* trained, by one worker and once, and none of another epoch, whichever   *)
(* worker took it.  "Number of steps per epoch" is NumStep.                *)
EpochComplete ==
    \A w \in Worker : \A e \in 0 .. epoch[w] - 1 :
        LET done == {f \in trained : f.epoch = e}
        IN  /\ {f.message.key : f \in done} = e * NumStep .. (e + 1) * NumStep - 1
            /\ Cardinality(done) = NumStep

(* The count of mq_sem, with those who have taken a mini-batch and wait    *)
(* for its message, is what is in the queue and what is still to be sent.  *)
Announced == {i \in Sampler : pc[S(i)] \notin {"run", "begin", "run_end", "exited"}}

Pending == {p \in Announced \X (1 .. NumStep) : p[2] <= todo[p[1]]}

TokensMatch ==
    mq_sem + Cardinality({w \in Worker : pc[w] = "recv"}) =
        Cardinality(channel) + Cardinality(Pending)

(* The workers exchange parameters: who has trained in an epoch has every  *)
(* update of the epochs before in its model.                               *)
ParametersExchanged ==
    \A f, g \in trained : f.epoch < g.epoch => f.message.key \in cpu_model[g.by]

(* All processes return. *)
RunEnds == <>(\A p \in Proc : pc[p] = "exited")
==============================================================================
