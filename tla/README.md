# FGNN: a verification project

FGNN trains graph neural networks on several GPUs. It factors a training step
into *sample*, *extract* and *train* and gives sampling and training to processes
and GPUs of their own. `samgraph/common` holds the engine (C++ and CUDA),
`samgraph/torch` its Python face, `example/samgraph` the training scripts; `exp` and
`example/auto_runner` start the scripts and collect what they print.
This directory models what must go right between these processes and threads,
and in the data structures they share. TLC checks the models on small instances,
TLAPS proves the central invariants for every instance.

## 1. The system

An *architecture* (`RunConfig::run_arch`) decides who does what:

* **arch0** samples on the CPU, **arch1**, **arch2** and **arch7** call all stages one
  after the other from the script; **arch3** and **arch4** run sampling and copying in
  two threads beside the script. All of these live in one process for each GPU.
* **arch5** is FGNN proper: sampler processes and trainer processes that share a
  ring of mini-batches in memory (`MemoryQueue`), ranking data in shared memory, and
  barriers. **arch6** samples and trains in every process, without the queue.
* The *balance switcher* adds to arch5 a second trainer on each sampler's GPU that
  trains while its sampler has nothing to do.

| component | state it keeps | operations | interacts with | what is hard |
|---|---|---|---|---|
| memory queue (`memory_queue.{h,cc}`, `task_queue.cc`) | tickets `send_cnt`, `recv_cnt`; `max_size` buckets, two semaphores each | Send (ticket, gate, release semaphore, fill, announce), Recv (look, ticket, wait, parse, release) | all samplers and trainers, through shared memory | check and claim apart; the gate looks at another counter than the semaphores; tickets overtake each other |
| arch5 scripts (`example/samgraph/multi_gpu`) | epoch, step, barrier of each process | `run_sample`, `run_train`, the parent | engine calls, barriers, DDP, `waitpid` | matching waits under different names; padding steps; uneven splits; a process that dies |
| distributed engine (`dist_engine.cc`) | shared ranking, sampler barrier, threads, joined counter | SampleInit, SampleCacheTableInit, TrainInit, StartExtract, RunSampleOnce, Shutdown | called by scripts, starts the extraction threads | shared data read before it is written; threads of two epochs |
| arch5 loops, graph pool (`dist_loops_arch5.cc`, `graph_pool.cc`) | ready batches, their keys | RunSampleSubLoopOnce, RunDataCopySubLoopOnce, DataCopySubLoop; Submit, GetGraphBatch, Full | queue to pool, pool to script | capacity asked long before it is used; counts that must add up over processes |
| shuffler (`dist_shuffler.cc`) | epoch, step, the permuted train set | ReShuffle, GetBatch | one in each sampler, never in contact | copies that must stay equal without any exchange; shares, last batches |
| GPU hash table (`cuda_hashtable.cu`) | O2N and N2O tables, version, number of items | Reset, FillWithUnique, FillWithDuplicates, FillWithDupRevised, FillWithDupMutable, MapEdges | sampling kernels | threads inserting one node at a time; fields written apart; bounds |
| balance switcher (`balance_switcher/train_pinsage.py`) | `mq_sem`, `sampler_stop_event`, the shared model | run_sample, run_train of trainers and switchers | as arch5, and a semaphore with timeout | who may use a GPU; workers that leave an epoch on a timeout; lock and shared memory |
| single-process pipeline (`cuda_engine.cc`, `cuda_loops*.cc`) | task queue, pool, `graph_remapped`, epoch counters | two loops, Start, RunSampleOnce, Shutdown | threads of one process | batches queued before they are finished; spinning threads at shutdown |
| presampler, caches | node frequencies, ranking, hit and miss lists | DoPreSample, GetRankNode; extraction of hits and misses | used at initialisation and by extraction | increments without atomics |
| workspace pool (`workspace_pool.cc`) | for each device a sorted free list and a list of buffers in use | AllocWorkspace, FreeWorkspace | every stage on every thread | a pool looked up without the lock; list order, guard entries, two searches that run backwards |
| experiment drivers (`exp/*/run.py`, `runner_helper2.py`, `auto_runner/run_*.py`, `common.py`) | lists of configurations and their statuses, logs, `run_status.txt`, tables | a session runs, saves, parses, prints; later sessions rerun what failed | start scripts, read their output | killed sessions, half-written logs, an exit status of zero without results, results kept by position, tables that must find one run for each cell |
| CPU hash tables, frequency map | as the GPU table | Populate, MapNodes, MapEdges, Reset | CPU sampling; random walks | OMP schedule, atomics |
| samplers' kernels, profiler, adapter, configuration, baselines, tools | | | | not about coordination |

`PROJECT.json` lists every component with its files and status, and every hazard
at the line where it bites.

### What correct means

* Queue: no two processes use a bucket at once; a message is received whole and once,
  none is lost, the ring never holds more than it has room for, and nobody waits for ever.
* arch5 run: in every epoch every mini-batch is trained exactly once and by somebody in
  that epoch; whatever goes wrong, either all processes return or the parent ends them.
* Shuffler: the samplers' batches partition the train set in each epoch.
* Hash table: a node has one bucket and one number; numbers have no gaps; the two tables
  are inverse to each other.
* Switcher: as arch5, with mini-batches taken by whoever is free; a GPU has one user.
* Workspace pool: a buffer has one owner until it is freed, is as large as asked for and not
  more than twice that, and none is lost between the lists.
* Experiment drivers: what a session says of a run is what the run did, whatever happened to the
  sessions before; a result that is there is not run again nor written over.

## 2. Modules

| module | models | abstraction it implements or uses |
|---|---|---|
| `MemoryQueue` | `MemoryQueue`, `MQ_MetaData`, `MessageTaskQueue` | implements `TaskChannel` |
| `TaskChannel` | what samplers and trainers expect of the queue | used by `FgnnRun` and `SwitcherRun` |
| `MemoryQueueProofs` | proofs about `MemoryQueue` | |
| `FgnnRun` | `train_gcn.py` with the engine, loops and pools behind it | composes `TaskChannel`, `EpochSplit` |
| `FgnnRunProofs` | proofs about `FgnnRun` | |
| `EpochSplit` | the arithmetic of steps, shares, batches and keys | used by four modules |
| `DistShuffler` | the shufflers of all samplers with their data | extends `EpochSplit` |
| `DistShufflerProofs` | proofs about `DistShuffler` and `EpochSplit` | |
| `OrderedHashTable` | the GPU hash table, thread by thread | implements `NodeNumbering` |
| `NodeNumbering` | what sampling expects of the table | |
| `OrderedHashTableProofs` | proofs about `OrderedHashTable` | |
| `SwitcherRun` | the balance switcher's processes | composes `TaskChannel`, `EpochSplit` |
| `SwitcherRunProofs` | proofs about `SwitcherRun` | |
| `LocalPipeline` | `train_gcn.py` in one process, the engines and loops of arch0 to arch4 behind it | uses `EpochSplit` |
| `LocalPipelineProofs` | proofs about `LocalPipeline` | |
| `WorkspacePool` | `workspace_pool.cc`: both lists, both searches, creation by racing threads | implements `Allocator` |
| `Allocator` | what the stages expect of AllocWorkspace and FreeWorkspace | |
| `WorkspacePoolProofs` | proofs about `WorkspacePool` | |
| `ConfigList` | the lists of configurations and the tables of `common.py` / `runner_helper2.py`, as functions | used by the three below |
| `ExpTables` | the lists, tables and output lines of `exp/*/run.py` | |
| `AutoRunnerTables` | the lists and tables of `example/auto_runner/run_*.py` | |
| `ScriptInterface` | options, checks and printed results of the training scripts | |
| `ExperimentDriver` | a driver's sessions, with failing scripts and kills | |
| `ExperimentDriverProofs` | proofs about `ExperimentDriver` | |
| `MC...` | the instances TLC checks | |

A definition whose name ends in `_Something` right before one of the same name is a
*mutant*: the code with a plausible bug. `PROJECT.json` says which property notices it.
The `map` there names the source lines of every definition.

### MemoryQueue

Senders go through `Put` (ticket), `PassGate` (`while (recv_cnt + max_size <= key)`),
`ReleaseWait`, `FillStart`/`FillEnd` (`ToData` and the stream synchronisation),
`SimpleSend` (announce); receivers through `RecvCall`, `SeeMessage`
(`while (recv_cnt == send_cnt)`), `Get` (ticket), `SemWait`, `ParseStart`/`ParseEnd`,
`ReleasePost` (`~SharedData`). Each of these is one atomic operation of the code or an
access to the bucket's bytes; filling and parsing take a begin and an end, so that a
bucket used by two is a state of the model. A message is its ticket, which is unique;
bytes that were only partly written are `NoMsg`.

The comparison in `Recv` and the claim that follows are apart, so several receivers can
claim tickets for a single message, `recv_cnt` may pass `send_cnt`, and both the `==`
of `Recv` and the gate of `GetPtr` then compare numbers that do not mean what they seem to.
The model has all of this. The check shows that the two semaphores of a bucket carry the
whole protocol: with the gate alone (mutant `ReleaseWait_GateOnly`) buckets are shared. They are
binary in effect: `TypeOK` bounds each by 1, which a second post of the same bucket (mutant
`ReleasePost_Twice`: a `SharedData` copied out and destroyed twice) would break.

`TaskChannel` promises no order, and the queue keeps none: semaphores are not queues, and
a sender or receiver that wraps around may overtake one that waits for the same bucket.

### FgnnRun, EpochSplit

One state machine for a whole run of `train_gcn.py` (`train_graphsage.py` and
`train_pinsage.py` share its structure): samplers, trainers, a trainer's extraction thread
and pool, and the parent. `pc` names the place in the script; the values in `GlobalWaits` are
waits at the one `global_barrier`, which the scripts call under several names. An action is a
handler from one wait to the next. `conf` is chosen by `Init`: the number of workers,
epochs, nodes, and the script's mode (pipelined; serial, where trainers wait until the epoch
is sampled; single GPU, a sampler and a trainer taking turns). `Fail` is `LOG(FATAL)`, a
failed `CHECK` or an uncaught exception; `Crash` is a process that dies for reasons outside
the code. The gradient exchange of DDP is a step all trainers take together.

`EpochSplit` is the arithmetic the scripts, `DistShuffler` and `Engine::GetBatchKey` do
separately. The Python scripts compute a sampler's steps with floats: `int(num_step /
num_worker * worker_id)` for the last one. `train_gcn.py` writes `int(num_step /
num_worker) * worker_id`, the integer division of `LocalSteps`.

### DistShuffler

The samplers' shufflers next to each other with their data. `Shuffle` is a constant, the
permutation that the swaps of `ReShuffle` make with `default_random_engine(epoch)`. Every sampler permutes what the last epoch
left in its own copy, so the copies agree only if all go through the same sequence.

### OrderedHashTable, NodeNumbering

Fills as sequences of kernels; in the insert kernel each thread has an item and
the steps `AttemptInsert` (one `atomicCAS`), `WriteField` (index and version, in any order,
since the code has no fence between them), `ReadField` (the others' look at both) and `Place`.
The later kernels only read what the first one wrote, or write fields of their own item, so
`Count` and `Compact` are one step each. `Number` is the block prefix sum plus the exclusive sum
in a block. `FillWithSampled` takes any sequence of nodes up to what `PredictNumNodes` allows,
which is what the sampling kernels may return.

`NodeNumbering` is the abstract promise: a fill adds its nodes behind those that are there,
each once, without gaps. The refinement maps `nodes` to the first `num_items` entries of N2O
between fills.

### SwitcherRun

The epoch loops of the samplers, trainers and switchers from the run barrier on: the count of
mini-batches `mq_sem` that is released before the samplers start, the workers' `acquire` with
timeout, `sampler_stop_event`, the two barriers of a serial epoch, and what each worker has of
the others' updates (`cpu_model`).

### LocalPipeline

One action for each call that another thread could see: asking a queue or the pool whether it is
full, `GetBatch`, `AddTask`, the end of sampling (`remapped`), `GetTask`, `Submit`, `LogEpochAdd`. The
loops of the five architectures differ in the order of these and in what they do when there
is no room, and both are conditions on `conf.arch`: arch0 and arch1 have one loop, arch4 queues the task
before it is sampled to the end and waits where the others return. Either the script calls the
loops (`SampleOnce`, `CopyOnce`, `OnceReturn`) or two threads repeat them (`Again`; `BeginEpoch`,
`NextStep`, `EndEpoch`, `Drain` for arch4, which counts epochs and steps). The script is `step`,
`fetch`, `train`, and `report` at the end of an epoch. `InFlight` is the sequence of mini-batches
between the shuffler and the script.

### WorkspacePool, Allocator

`AllocWorkspace` looks at `_array` without the mutex and creates the pool under it (`CreatePool`,
`AllocCreated`); `Alloc` and `Free` are one critical section of a pool each, with both searches as
`SmallestFit`, `Insert` and `Position` on the lists with their guard entries. Buffers are numbered as the
device hands them out, sizes are counted in quarters of a page. `Allocator` is the promise: whoever gets a
buffer has it alone until it is freed.

### ConfigList, ExpTables, AutoRunnerTables, ScriptInterface, ExperimentDriver

`ConfigList` has the operations with which an experiment makes its list (`select`, `override`,
`combo`, `multi_combo` ...) as conversions that `Chain` applies in turn, and the tables it fills.
`ExpTables` and `AutoRunnerTables` are written with these, experiment by experiment, as the Python files
are. `ScriptInterface` says for each script which options it takes, which combinations its
assertions refuse, which results a complete run prints, and whether it may return zero although a worker
failed: `Accepts`, `Prints` and `HidesFailures`.

`ExperimentDriver` is a session as a state machine: `StartSession` (a new directory, the latest, or one
named with `-l`), and for each group `LoadRunStatus`, one of `RunSucceeds`, `RunSilently`, `RunFails`, `MockRun`,
`SkipOk` for each configuration, `WriteRunStatus`, `ParseLogs`. A script is one step; it may fail, before or after
it printed its results. All that the driver learns is the exit status, and `RunSilently` is the script that
returns zero without its results: `samgraph_wait_one_child` (`operation.cc:374-385`) passes over a child killed by a
signal other than SIGABRT, the scripts ask it once and then only join, and `wait_and_join` of `example/dgl` kills the
other workers and returns. The configurations whose scripts can do this are `silent`. `Kill` may end the session
between scripts, in one, or while `write_run_status` has emptied the old status file and not yet written the new
one. Programs marked `parseOnly` are the tests whose `log_folder` sets `mock`. `MCExperimentDriver`
composes these: a program of the driver is the groups of an experiment with what
`ScriptInterface` says of each configuration, so that a table that asks for a result the script does
not print, an option the script does not know, or a row no configuration matches is a violation.

## 3. Runs

| run | instance | shows |
|---|---|---|
| `mq` | 3 senders, 2 receivers, 2 buckets, 5 messages | buckets exclusive, announced buckets fresh; refines `TaskChannel`; every message is received, under fairness |
| `fgnn_run` | nine configurations, up to 3 samplers, 2 trainers, 2 epochs; in three of them any process crashes anywhere | every mini-batch of an epoch trained once and in it, pools bounded, one extraction thread at a time; runs that can work end with success, the others with an error; an abort or exception ends the whole run, and no crash makes the others break an epoch |
| `fgnn_profile` | 3 steps, 2 trainers | **finding**: a padding step is logged outside the profiler's space |
| `shuffler_split` | 3 samplers, 9 nodes, batches of 2, 2 epochs | batches partition the train set whatever the samplers' relative speed |
| `hashtable_fill` | 3 colliding nodes, 2 layers, up to 3 threads in 2 blocks, 2 mini-batches | a node has one bucket and one number, no gaps; refines `NodeNumbering` |
| `hashtable_neighbours` | all-neighbour sampling, fanout 1 | **finding**: more nodes than the tables were sized for |
| `switcher_run` | three configurations, up to 2 samplers, 2 switchers, 3 epochs | as `fgnn_run`; GPU never shared; counts and messages match |
| `switcher_split` | 3 samplers, 5 steps | **finding**: the script's split loses a step of the epoch |
| `switcher_exchange` | 2 workers, 2 epochs | **finding**: workers never see each other's updates |
| `local_run` | eleven ways to start: every architecture called by the script; arch0, arch3, arch4 with threads, with barriers in no, one or every epoch | batches in order, whole and none lost; epochs held apart; an epoch's times lack at most its last batch; the run ends |
| `pool_lists` | 2 threads, 2 devices, requests of three sizes with and without scaling, 3 buffers | lists sorted and exact, buffers fit, devices asked only when needed; refines `Allocator` |
| `experiments` | the six programs of `exp/` and 25 tests of `auto_runner` with their real lists and tables; up to 3 sessions and 2 faults | a saved Ok is the log of a script that returned zero, whole unless that script may hide a failure; saved results kept; every cell of a clean session read from the run it names and filled, with the same exception; every output line about the run it shows |

### Bounds

* Queue: tickets must wrap around the ring at least once with all senders in flight, and there
  must be more receivers than messages left. `Total` = 5 on two buckets gives every bucket to
  three tickets; the proofs cover all other sizes. `Total` bounds `Put`, as an epoch bounds `Send`.
* Runs: five nodes in batches of two make three steps, with a short last batch, and three
  divides neither by two samplers nor by two trainers, so shares are uneven, padding steps occur
  and an epoch follows another. `max_copying_jobs` = 1 is the smallest pool, where threads wait
  most; `mq_size` = 3 is just the epoch. `MaxCrashes` = 1: after the first failure the
  parent is already ending the run.
* Shuffler: three samplers, five steps (1, 1 and 3 of them), the last batch short; the two
  shuffles do not commute, so a copy that missed one would be seen.
* Hash table: `MaxItems` threads at once; `{0, 32, 1}` in 32 buckets makes two nodes share a
  bucket and sends one of them to the third's. Blocks of two items give a block prefix. Two
  layers make versions matter, two mini-batches make what `Reset` leaves matter. 
* Switcher: three configurations make uneven shares, more workers than mini-batches, three epochs.
* One process: two steps an epoch, or three; queue and pool of one or two, so that a thread can be
  ahead of the script by less or by more than an epoch. In the pipelined runs the
  script really does read times without the last batch, and a task really waits for renumbering.

* Workspace pool: three buffers are enough for a free list with an order, a buffer that is too large to
  be reused and one that is not; a request of 0, one that scaling moves off the page grid, and one of
  four pages are in classes of their own. Devices are interchangeable, and so are threads (symmetry).
* Experiments: the lists and tables are the real ones, of every test. All programs have the same
  actions, so that faults and further sessions are given to short ones: three sessions and two
  faults to `table1` and three tests of the auto runner (`Short`), two and one to six others (`Middle`), one
  session to the rest. Among the first two are programs of several groups, `parseOnly` ones, refused
  configurations, and scripts that hide failures and that do not. Three sessions: one that is hurt, one that repairs, one that must
  find nothing to do. The proofs cover other numbers and programs.

### Fairness

`FairSpec` states weak fairness for each process and thread: the operating system schedules all
of them, and a wait (semaphore, barrier, spin loop, `get_next_batch`) whose condition holds and
stays so ends. Several
processes may wait for one semaphore; it is not assumed that a certain one gets it, and
`AllReceived` holds whoever does. Nothing is assumed of crashes. `WorkspacePool`,
`ExperimentDriver`, `DistShuffler` and `OrderedHashTable` have no fairness: their properties are safety.

## 4. Proofs

`MemoryQueueProofs`, for any finite or infinite sets of senders and receivers, any ring size and any
number of messages (assumption `QueueAssumption`):

* `TypeCorrect`, `Invariance`: `TypeOK` and `IInv` always hold.
* `Exclusive`, `Fresh`, `Once`: the safety properties of the run, from `IInv`.
* `Implements`: the refinement of `TaskChannel`, step by step.

`BucketExclusive` alone is not inductive: it says nothing of why a bucket is free. It is about a
token that goes around in each bucket, from the release semaphore to a sender, the announcement, a
receiver and back: at most one of these has it. `IInv` adds that tickets in use are
distinct (`TicketsDistinct`), that what a token-holder finds in the bucket is whole and is
a sent, undelivered message of its own residue class (`FilledWhole`, `LiveFresh`,
`ParsedWhole`), and that each sent message is still somewhere (`NothingLost`), which the
capacity of the channel needs.

`OrderedHashTableProofs`, for any graph, fanouts, batch, block and table size and number of threads (assumptions
`HashTableAssumption`, `BucketAssumption`):

* `NodeOnce`, a node never gets two buckets. `PInv` is about paths: each node stands in the first bucket of
  its probe sequence which no other node has (`NodePath`), and each thread has passed only buckets of other
  nodes (`ThreadPath`). A thread that wins an empty bucket therefore is at the end of its node's path, where
  any other thread with this node will look.
* `TypeCorrect`, `NumbersInBounds`, `TablesAlwaysAgree` and `NumberingImplemented` suppose `~AllNeighbours`, since
  with all neighbours sampled the table does overrun (run `hashtable_neighbours`). `HInv`, above `PInv`, is:
  * `Progress`, `Filling`: a layer adds at most `fanout` nodes for each node there was, so the count stays below
    `Predicted` of its layer, and no more threads run than `MaxItems`. `Predicted` is a recursive function;
    what holds of all its values is shown by a least counterexample (the library's `WFMin`);
  * `Tables`, `Numbered`: the buckets of the fills before (`Old`, a smaller version) and the N2O table are inverse
    to each other, with the numbers below `num_items`;
  * `Threads`, `OneWriter`: who won a bucket is the only one to write its fields (`Winner`), and a
    thread that reads them before they are written cannot take an `Old` bucket for its own (`Mine`);
  * `NewOwned`, `Counted`: each bucket of this fill has a thread that owns it, and those that are
    counted own theirs. A prefix sum of counts is then the rank of the
    thread in a set, so that `Compact` numbers from `num_items` on without gaps.

  A search ends because a probe sequence of `o2n_size` attempts meets every bucket it will ever meet
  (`ProbeRepeats`), whatever the size; the proof does not need the size to be a power of two.
* `NumberingImplemented`: `Reset` is `Clear`, a launch is `Begin`, `Compact` and `FillWithUniqueEnd` are `Finish`,
  and every step of a thread is a stutter.

`ExperimentDriverProofs`, for any programs (assumption `ProgramAssumption`), any number of sessions and faults:
`SavedStatusTrue`, `ResultsKept`, `TypeCorrect`, `TablesFilled`, `LinesTrue`. `SavedStatusTrue` says what an Ok is worth: the script returned
zero, and the log is whole unless the script may hide a failure (`Truthful`). This is not inductive: what is saved
is what the session has in `status`, and that was loaded from what was saved before, perhaps by a session
of other faults. The invariant adds that the statuses in memory are true (`RunningTruth`) and that an
Ok in the file is an Ok in memory from the loading on (`SavedIsLoaded`), so that the script
whose log it speaks of is not started. For the tables, `TableInv` adds who wrote what: a log has been written
by the configuration that it is named after (`LogsNamed`, which needs the groups to have folders of their own,
`FoldersApart`), each cell shown is of one configuration (`ShownInv`), and in a session that nothing has
made a script return an error all configurations passed are Ok, then all logs of the group are truthful (`CleanInv`).
`LinesTrue` needs neither whole logs nor exit statuses: it holds of every log that has the number.
`TablesFit` and `LinesFit` are about the programs alone, without any session: a cell fits one
configuration, whose script prints the cell's result; a line speaks of its row's configurations.
TLC evaluates `FoldersApart` and `TablesFit` on the real tables (`TablesAssumption` in
`MCExperimentDriver`); what the real lines say is checked by `LinesMatchRuns` itself.

`FgnnRunProofs`, for every configuration that the scripts accept, any queue and pool size and any number
of crashes (assumption `RunAssumption`), in two invariants:

* `RankingFirst` from `RankInv`: who is past its first wait has the ranking behind it. The two barriers
  are what carries this: it is inductive because a barrier needs sampler 0, too, to be past writing.
* `PoolsKept` and `OneThreadAtATime` from `EngineInv`. That a pool is bounded does not follow from
  `Full()`, which is asked long before `Submit`, but from there being one producer; that there is one
  follows from counting. `Ahead` = `Expected`: the batches in the pool and those the thread
  still has to bring are those the trainer will still take in this epoch, `Count` of its steps
  from `step` on. At `extract_start` this is zero, so the last thread has left its loop. `CountShare`
  is the lemma that `need_steps` of the script is the number of its loop's steps below `num_step`.
* `EveryBatchOnce`, the `EpochComplete` of the run, from `RunInv`, which adds to `EngineInv`:
  * `Lockstep`: the barriers keep all living processes in one phase (`Phases`) and one epoch, `Now`;
  * `SamplersInv`: where each shuffler stands follows from the epoch and from what its sampler has still to
    send (`PositionAfter`), so that what it sends next has the key `KeyOf` of that place;
  * `OnePlace`: a message is in the queue, in one thread's hand, in one pool, or has been taken by one trainer;
  * `MessagesInv`: whatever is anywhere was sent by a sampler in its turn (`Genuine`), and keys tell
    messages apart (`KeyUnique`);
  * `StepsInv`, `DoneInv`: the trainers' `step`s tell how many mini-batches of the epoch they have trained.
    Each step of the epoch belongs to one trainer, `Taken` is the set of the steps behind
    the trainers, and the trained messages are as many. No sum over the trainers is needed.

  At the end barrier `Taken` is all of `0 .. NumStep - 1`: there are `NumStep` trained messages with distinct
  keys in a range of `NumStep` keys, so the keys are that range. That nobody is left with a message of the epoch
  follows from the same count, and the next epoch begins with an empty queue. A process that dies only
  stops: the barrier does not open again, and no epoch is left after that.
* `TypeCorrect` from `TypeInv`, `RunInv` with the ranges. The count of joined threads is in its range because
  at most one thread is started for every epoch begun (`Started`).

`DistShufflerProofs`, for every train set, batch size, number of samplers and of epochs (assumptions
`SplitAssumption`, `ShuffleAssumption`: a shuffle is a permutation):

* `CopiesWithinShare` from `ShareInv` and the arithmetic of shares (`Steps`, `Shares`, `BatchInShare`).
* `BatchesPartition`. The lemmas `RangeIsBlock`, `OneOwner`, `SomeOwner` say that the ranges of
  all samplers are the blocks of the train set, each once. For the rest the copies have to agree, and
  two copies can only be compared while their samplers are in the same epoch. `HistoryInv`
  therefore says that there is an order `F[e]` for each epoch that somebody has come to, made from the one before,
  that every copy is the `F` of its epoch, and that the batches handed out are cut from it. Who comes to an
  epoch first extends `F`; whoever comes later makes the same (`NextOrder`).
* `TypeCorrect`: shufflers stop in the epoch behind the last, copies keep all their nodes, keys are of the run.

`SwitcherRunProofs`, for every configuration (assumption `SwitcherAssumption`), each invariant on the one before:

* `TakeTurns` from `TurnsInv`, which adds to the property the stretch of the run in which all processes are
  (`Opening`, `Working` ...) and that an event that is set is of this epoch: a sampler clears it
  before the barrier at which its switcher starts to wait.
* `SemaphoreCounts`, the `TokensMatch` of the run, from `TokensInv`: the equation is about sets whose members move
  one at a time (a mini-batch still to be sent, a message in the queue, a worker that waits for
  one), except at `BeginEpoch` and at the barriers. There `TodoInv` says what a sampler has still to
  send by where it is: all of its share before it begins, nothing when it waits at the end.
* `TypeCorrect` from `TypeInv`. That the count never passes `NumStep` needs that it is 0 when an epoch
  ends (`EpochInv`: a worker has left, and nothing is announced before the next epoch), and that the samplers'
  shares have room next to each other in the epoch (`PromisedBound`). Keys stay in the run because a shuffler is
  never ahead of its sampler (`ShufflerInv`); with the script's float split it may be behind.
* `EveryBatchOnce`, the `EpochComplete` of the run, from `EpochsInv` for configurations in which
  `SameSplit` holds: an epoch's mini-batches divided by the samplers leave no remainder, or one
  (as in all of `switcher_run`; any run of one or two samplers has it). In these, `LastPart`
  shows, the float split gives each sampler the steps its shuffler has; with a greater remainder it does not
  (run `switcher_split`). `PositionInv`, `SentInv`: where a shuffler stands and which keys have been sent follow from
  the epoch and from what its sampler has still to send; `PlaceInv`: a message is in the queue, with one worker, or
  trained once; `MessagesInv`: it was sent by a sampler in its turn (`Genuine`), and keys tell messages apart.
  At the barrier that ends an epoch nothing is to be sent, the count of `TokensMatch` is zero, so the
  queue is empty and no worker holds a message: whatever was sent has been trained, and each key was sent
  (`SomeOwner`), once (`GenuineUnique`).

`LocalPipelineProofs`, for every way to start a run (assumption `PipelineAssumption`): `TypeCorrect` and all five
safety properties of the run, `BatchesStayInOrder`, `WholeGraphs`, `SamplerWaits`, `NeverTooMany`, `TimesComplete`.
The keys the shuffler has given are a row 0, 1, 2, ..., and every place of a mini-batch is a
stretch of it: what the script has fetched, the pool, what the copier holds, the queue, what the sampler holds. `IInv`
has the lengths of these stretches by where each thread is (`Places`, `Order`) and derives the rest from
them: a loop that has seen room is the only one that fills it (`Rooms`), a batch that leaves the sampling
loop is remapped, or in arch4 is the one the loop still works on (`Remaps`), what is logged is the row up to
a place (`Logs`), and a sampler is ahead of the script by no more than the barriers allow (`Barriers`).
None of the properties is inductive alone: all of them go by who is where.

`WorkspacePoolProofs`, for any devices, threads, requests, page size and number of buffers (assumptions
`PageAssumption`, `RequestAssumption`, `BufferAssumption`, `ThreadAssumption`, and `ScaleAssumption`: a scale is
between 1 and 2, where the code has 1.25 and 1.0, `constant.h:78-79`):

* `ListsAreExact`, `RequestsFit` from `IInv`. The searches of `Alloc` and `Free` and the insertion work on sequences;
  lemmas say what they find in a list without duplicates behind its guard, and what the set of
  buffers of the list is afterwards. The invariant is about these sets: the lists of a device are apart, those of
  two devices too, the used ones are what the program holds, and all together are what the devices have given.
  The searches stop at the greatest index of a set; that there is one is `MaxFacts`, from the library's `WFMin`.
* `GrowsWhenNeeded`, the action property: a device is asked only when no free buffer fits.
* `RefinesAllocator`: each step implements one of `Allocator` or a stutter.

Model-checked only:

* everything about liveness (`AllReceived`, `RunSucceeds`, `FailureEndsRun`, `RunEnds`): the backends have no
  rule for fairness;
* that the output lines of the real programs fit their tables (`LinesFit`): a fact about data, which the run
  `experiments` covers in full.

Two properties are false for some configurations and are proved for the others: `EpochComplete` of the
switcher outside `SameSplit` (run `switcher_split`), and `N2OInBounds`, with what rests on it, when
all neighbours are sampled (run `hashtable_neighbours`).

## 5. Findings

* `fgnn_profile`: trainers log padding steps. In the last epoch their key is
  `num_epoch * num_step` or more, outside the vectors the profiler sized by `NumStep()`; in the others it
  overwrites steps of the next epoch.
* `hashtable_neighbours`: presampling of all neighbours (`kCacheByPreSampleStatic`) uses a hash table
  sized by the fanout.
* `switcher_split`: the float split of `balance_switcher/train_pinsage.py` gives fewer steps than
  the epoch has for three samplers or more.
* `switcher_exchange`: `cpu_param.data = ...` replaces the worker's own tensor instead of writing
  into the shared one; the models never meet.

Met while modelling, not the subject of a run:

* A script that returns zero without its results (see `RunSilently`; for instance a worker of a multi-GPU DGL script
  that runs out of memory) is saved as Ok (`runner_helper2.py:441-443`). Its cell shows an X, and no rerun
  repeats it, although `exp/table4/README.md:34` promises reruns of failed cases, out-of-memory ones by name.
  `StatusTellsTruth` and `CleanSessionFillsTables` name the exception (`Hidden`), and hold outside it.
* A session of `exp` that is killed before its group ends saves no status: the next `--rerun-tests` starts
  again the scripts that had succeeded, although `exp/table4/README.md:34` says it 'only reruns those
  failed test cases'. With another `--num-epoch` it keeps results of the old number, since statuses are
  matched by position. A mock session's directory becomes the latest one.
* `run_sgnn.py`'s scalability tests of GCN and PinSAGE ask for `epoch_time:sample_time`, which the SGNN scripts
  do not print; `parse_log` of `auto_runner/common.py` gives None for it, and the cell shows None after every run.
  (Only a missing log ends the session there.) `SgnnGcnScalability` and
  `SgnnPinsageScalability` are in `AutoRunnerTables` and not in the run.
* The comment above the tests of `run_*.py` says that a log directory is only parsed. So it is where
  `log_folder` sets `mock` (`motivation_test`, `breakdown_test`, `overall_perf_test` and `cpu_overall_perf_test` of
  `run_dgl.py`, `breakdown_test` of `run_sgnn_dgl.py`: `parseOnly`); the other tests run what is not Ok. `run_pyg.py -l` uses one folder for both of its groups (mutant `LoadRunStatus_OneFolder`).
* `SampleCopySubLoop` of arch0 has its branches the wrong way round (`cpu_loops_arch0.cc:148`).
* Random walk drops `graph->data` before the stream is synchronised (`cuda_loops.cc`, `dist_loops.cc`).

## 6. Left out, and why

* Inside modelled components: the byte layout of a message, streams, pinning and memory reports; the
  sanity check kernel; `MemoryQueue::Send(data, size)`, `FillNeighbours` (no callers) and the table
  compiled with `SXN_NAIVE_HASHMAP` (not set by `setup.py`). The values trained, printed results.
* `wait_one_child` takes a child ended by a signal other than SIGABRT for a success. The models
  contain this (`crash_kinds`), safety is checked under it, and termination is not claimed for it. The driver
  meets it as `RunSilently`.
* `SwitcherRun` starts at the run barrier; initialisation, the parent and crashes are those of `FgnnRun`.
* `LocalPipeline` starts after `Init`. It has no arch0 thread without a cache, where a cache manager
  that is null would be used. It has no model with a single layer, for which arch4 never queues a task.
* The presampling itself: `RankingReadReady` is about when the ranking is published.
* Kernels that sample: each thread works alone, and their promise is a distribution.
* Of the drivers: plots and wording, the tests of `exp/table5` that nothing calls, the values in a log
  beyond their presence, and a script that outlives its killed driver and writes on into its log. A script is a single step there; inside, the arch5, switcher and local
  scripts are `FgnnRun`, `SwitcherRun`, `LocalPipeline`.
* Inside the baselines' scripts (DGL, PyG) and SGNN's there is no queue, only synchronous training over
  ready-made libraries; of these the options and results are modelled (`ScriptInterface`), the loops are not.
  Data preparation, device tests.

## 7. Plan

Written in this order: `TaskChannel` and `MemoryQueue` with proofs, `FgnnRun`, `DistShuffler`,
`OrderedHashTable` with the path proof, `SwitcherRun`, `LocalPipeline`, `WorkspacePool`, `ConfigList` with the
experiments' tables, `ScriptInterface`, `ExperimentDriver` with proofs, then the proofs about `FgnnRun`,
`DistShuffler`, `SwitcherRun`, `LocalPipeline` and `WorkspacePool`, last the hash table's numbering, the switcher's
epochs and the experiments' tables. All safety properties of the passing runs are proved. Next:

1. `AlignedShuffler` (repeated nodes and `FillWithUnique`) with the loops of the SGNN scripts, the
   arch6 loops, the presampler's ranking, and the caches' split of hits and misses.
2. `CPUHashTable`, implementing `NodeNumbering`, and the frequency map.
