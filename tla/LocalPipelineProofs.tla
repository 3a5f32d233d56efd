-------------------------- MODULE LocalPipelineProofs --------------------------
(***************************************************************************)
(* Proofs about LocalPipeline: its safety invariants, for every way to     *)
(* start a run.                                                            *)
(*                                                                         *)
(* The argument counts mini-batches.  What the shuffler has Given lies     *)
(* between the script and the sampling loop in one unbroken row of keys,   *)
(* and each place a batch can be in is a stretch of that row; the lengths  *)
(* of the stretches say which key is where (Order), which batches have     *)
(* been logged (Logs) and how far ahead of the script the sampler is       *)
(* (Barriers).                                                             *)
(***************************************************************************)
EXTENDS LocalPipeline, SequenceTheorems, TLAPS

SamplerStates == {"idle", "epoch", "begin", "shuffle", "add", "sample", "submit", "log",
                  "return", "drain", "finished"}
CopierStates == {"idle", "begin", "get", "copy", "submit", "log", "return", "finished"}
ScriptStates == {"step", "sampling", "copying", "fetch", "train", "report", "shutdown",
                 "join", "done"}

Total == num_epoch * NumStep

(* Mini-batches the shuffler has given to the sampling loop. *)
Given ==
    IF ~shuffler.initialized THEN 0
    ELSE IF shuffler.epoch < num_epoch THEN BatchKey(shuffler, 0) + 1 ELSE Total

(* The loops have a task in these states. *)
Sampling == pc["sampler"] \in {"add", "sample", "submit", "log"}
Copying == pc["copier"] \in {"copy", "submit", "log"}

(* The task is not in the queue or the pool yet. *)
Unsent == pc["sampler"] \in {"add", "submit"} \/ (pc["sampler"] = "sample" /\ ~Arch4)
Uncopied == pc["copier"] \in {"copy", "submit"}

(* Consecutive keys from a on.                                             *)
Consecutive(s, a) == \A n \in 1 .. Len(s) : s[n] = a + n - 1

(* Mini-batches that have come as far as the script, the graph pool, the   *)
(* copying loop and the task queue.                                        *)
Fetched == IF script = "train" THEN step + 1 ELSE step
Submitted == Fetched + Len(graph_pool)
Taken == IF Uncopied THEN Submitted + 1 ELSE Submitted
Queued == Taken + Len(queue)

------------------------------------------------------------------------------
(* The parts of the inductive invariant.                                   *)

Types ==
    /\ conf \in Configurations
    /\ script \in ScriptStates
    /\ step \in Nat
    /\ pc \in [{"sampler", "copier"} -> SamplerStates \cup CopierStates]
    /\ pc["sampler"] \in SamplerStates /\ pc["copier"] \in CopierStates
    /\ loop \in [epoch : Nat, step : Nat]
    /\ shuffler \in [epoch : Nat, step : Nat, initialized : BOOLEAN]
    /\ sampling \in Int /\ copying \in Int
    /\ queue \in Seq(Int) /\ graph_pool \in Seq(Int)
    /\ inner_counter \in Nat /\ outer_counter \in Nat
    /\ should_shutdown \in BOOLEAN

(* Where the threads can be in each kind of run, and while the script      *)
(* calls the loops itself.                                                 *)
Places ==
    /\ OneLoop => /\ pc["copier"] = "idle" /\ queue = << >>
                  /\ pc["sampler"] # "add"
    /\ ~OneLoop => pc["sampler"] # "submit"
    /\ conf.pipeline => /\ script \notin {"sampling", "copying"}
                        /\ pc["sampler"] = "idle" => step = 0 /\ script = "step"
                        /\ step = 0 /\ script = "step" =>
                                pc["sampler"] = "idle" /\ pc["copier"] = "idle"
    /\ ~conf.pipeline => /\ pc["sampler"] \notin {"epoch", "drain", "finished"}
                         /\ pc["copier"] # "finished"
                         /\ pc["sampler"] # "idle" <=> script = "sampling"
                         /\ pc["copier"] # "idle" <=> script = "copying"

(* A thread that has finished is counted once, and all have when the       *)
(* script is done.                                                         *)
Joins ==
    /\ script # "done" =>
        joined = (IF pc["sampler"] = "finished" THEN 1 ELSE 0) +
                 (IF pc["copier"] = "finished" THEN 1 ELSE 0)
    /\ script = "done" =>
        /\ joined = 0 /\ queue = << >> /\ graph_pool = << >>
        /\ conf.pipeline => /\ pc["sampler"] = "finished"
                            /\ ~OneLoop => pc["copier"] = "finished"

(* The script's steps, the epochs it has reported and the end of the run.  *)
Epochs ==
    /\ script = "report" => step = outer_counter * NumStep + NumStep
    /\ script # "report" => /\ outer_counter * NumStep <= step
                            /\ step < outer_counter * NumStep + NumStep
    /\ script \notin {"shutdown", "join", "done"} => outer_counter < num_epoch
    /\ script \in {"shutdown", "join", "done"} => outer_counter = num_epoch /\ step = Total

ShufflerStands ==
    /\ shuffler.epoch <= num_epoch
    /\ shuffler.initialized => shuffler.step < NumStep
    /\ ~shuffler.initialized => shuffler.epoch = 0 /\ shuffler.step = NumStep

(* The row of keys. *)
Order ==
    /\ Given = IF Unsent THEN Queued + 1 ELSE Queued
    /\ graph_batch = Fetched - 1
    /\ Consecutive(graph_pool, Fetched) /\ Consecutive(queue, Taken)
    /\ copying = IF Copying THEN Taken - 1 ELSE NoTask
    /\ sampling = IF Sampling THEN Given - 1 ELSE NoTask
    /\ Sampling => Given >= 1
    /\ Copying => Taken >= 1

Logs ==
    /\ sample_log = 0 .. (IF Sampling THEN Given - 2 ELSE Given - 1)
    /\ copy_log = IF OneLoop THEN sample_log
                  ELSE 0 .. (IF Copying THEN Taken - 2 ELSE Taken - 1)

(* Whole mini-batches from the place on where copying begins. *)
Remaps ==
    /\ remapped \subseteq 0 .. Given - 1
    /\ \A n \in 1 .. Len(graph_pool) : graph_pool[n] \in remapped
    /\ pc["copier"] = "submit" => copying \in remapped
    /\ ~Arch4 =>
        /\ \A n \in 1 .. Len(queue) : queue[n] \in remapped
        /\ pc["copier"] = "copy" => copying \in remapped
        /\ pc["sampler"] \in {"add", "submit"} => sampling \in remapped

(* Who has seen room in the queue or the pool still has it: nobody else    *)
(* adds there.                                                             *)
Rooms ==
    /\ Len(queue) <= conf.max_sampling_jobs
    /\ Len(graph_pool) <= conf.max_copying_jobs
    /\ ~OneLoop /\ (pc["sampler"] = "shuffle" \/ Unsent) => Len(queue) < conf.max_sampling_jobs
    /\ OneLoop /\ (pc["sampler"] = "shuffle" \/ Unsent) => Len(graph_pool) < conf.max_copying_jobs
    /\ pc["copier"] = "get" \/ Uncopied => Len(graph_pool) < conf.max_copying_jobs

(* The sampling thread of arch4 counts its steps as the shuffler does, and *)
(* is not past a barrier that the script has not opened.                   *)
Barriers ==
    /\ inner_counter = loop.epoch
    /\ loop.epoch <= num_epoch /\ loop.step < NumStep
    /\ conf.pipeline /\ Arch4 =>
        /\ pc["sampler"] \in {"idle", "epoch"} => loop.step = 0
        /\ pc["sampler"] \in {"idle", "epoch", "begin", "shuffle", "drain", "finished"} =>
                Given = loop.epoch * NumStep + loop.step
        /\ pc["sampler"] \in {"add", "sample", "log", "return"} =>
                Given = loop.epoch * NumStep + loop.step + 1
        /\ pc["sampler"] \notin {"drain", "finished"} => loop.epoch < num_epoch
        /\ pc["sampler"] \in {"begin", "shuffle", "add", "sample", "log", "return"}
            /\ Barriered(loop.epoch) => outer_counter >= loop.epoch

IInv ==
    /\ Types /\ Places /\ Joins /\ Epochs /\ ShufflerStands
    /\ Order /\ Logs /\ Remaps /\ Rooms /\ Barriers

------------------------------------------------------------------------------
(* Constants of a run.                                                     *)

LEMMA ConfFacts ==
    ASSUME conf \in Configurations
    PROVE  /\ num_epoch \in Nat \ {0}
           /\ conf.num_data \in Nat \ {0} /\ conf.batch_size \in Nat \ {0}
           /\ conf.max_sampling_jobs \in Nat \ {0} /\ conf.max_copying_jobs \in Nat \ {0}
           /\ conf.pipeline \in BOOLEAN /\ conf.barriered_epoch \in Int
           /\ conf.pipeline => conf.arch \notin {"arch1", "arch2"}
           /\ Arch4 => ~OneLoop
BY PipelineAssumption DEF num_epoch, Arch4, OneLoop

(* One sampler has all steps of an epoch, and there is one at least.       *)
LEMMA Steps ==
    ASSUME conf \in Configurations
    PROVE  /\ NumStep \in Nat \ {0}
           /\ ShufflerSteps(0) = NumStep /\ StepOffset(0) = 0
<1> DEFINE D == conf.num_data
           b == conf.batch_size
           q == (D + b - 1) \div b
           r == (D + b - 1) % b
<1>1. D \in Nat \ {0} /\ b \in Nat \ {0}
  BY ConfFacts
<1>2. NumStep = q
  BY DEF NumStep
<1> HIDE DEF D, b
<1>3. q \in Nat /\ r \in Nat /\ r < b /\ D + b - 1 = b * q + r
  BY <1>1
<1>4. ASSUME q = 0 PROVE FALSE
  BY <1>1, <1>3, <1>4
<1>5. NumStep \in Nat \ {0}
  BY <1>2, <1>3, <1>4
<1>6. NumStep \div 1 \in Nat
  BY <1>5
<1> HIDE DEF q
<1>7. StepOffset(0) = (NumStep \div 1) * 0
  BY DEF StepOffset
<1>8. StepOffset(0) = 0
  BY <1>6, <1>7
<1>9. ShufflerSteps(0) = NumStep - StepOffset(0)
  BY DEF ShufflerSteps
<1> QED BY <1>5, <1>8, <1>9

(* A run keeps its configuration and what is computed from it.             *)
LEMMA ConfKept ==
    ASSUME conf' = conf
    PROVE  /\ NumStep' = NumStep /\ num_epoch' = num_epoch /\ Total' = Total
           /\ Arch4' = Arch4 /\ OneLoop' = OneLoop
           /\ NumThreads' = NumThreads /\ Loops' = Loops
           /\ shuffler' = shuffler => Given' = Given
BY DEF NumStep, num_epoch, Total, Arch4, OneLoop, NumThreads, Loops, Given, BatchKey, StepOffset

LEMMA NextKeepsConf == Next => conf' = conf
BY DEF Next, SamplerStep, CopierStep, ScriptStep, Ended, vars, Goto, ScriptGoto,
       BeginSample, DoShuffle, AddTask, Sample, SubmitSampled, LogSample, Again,
       BeginEpoch, NextStep, EndEpoch, Drain, BeginCopy, GetNoTask, GetTask, Copy, Submit,
       LogCopy, Start, SampleOnce, CopyOnce, OnceReturn, GetNextBatch, Train, EpochReport,
       Shutdown, JoinAndFree

(* Multiples of the length of an epoch.                                    *)
LEMMA Multiples ==
    ASSUME NEW M \in Nat \ {0}, NEW a \in Nat, NEW b \in Nat
    PROVE  /\ a * M \in Nat /\ (a + 1) * M = a * M + M
           /\ a <= b => a * M <= b * M
           /\ a < b => a * M + M <= b * M
           /\ a * M < b * M => a < b
<1>1. a * M \in Nat /\ b * M \in Nat /\ (a + 1) * M = a * M + M
  OBVIOUS
<1>2. ASSUME a <= b PROVE a * M <= b * M
  BY <1>2
<1>3. ASSUME a < b PROVE a * M + M <= b * M
  <2>1. a + 1 <= b
    BY <1>3
  <2>2. (a + 1) * M <= b * M
    BY <2>1
  <2> QED BY <1>1, <2>2
<1>4. ASSUME a * M < b * M, ~(a < b) PROVE FALSE
  <2>1. b <= a
    BY <1>4
  <2>2. b * M <= a * M
    BY <2>1
  <2> QED BY <1>1, <1>4, <2>2
<1> QED BY <1>1, <1>2, <1>3, <1>4

(* The epoch and the step of a number between two multiples.               *)
LEMMA Division ==
    ASSUME NEW M \in Nat \ {0}, NEW x \in Nat, NEW a \in Nat, a * M <= x, x < a * M + M
    PROVE  x \div M = a /\ x % M = x - a * M
<1> DEFINE q == x \div M
           r == x % M
           aM == a * M
           qM == q * M
<1>1. q \in Nat /\ r \in Nat /\ r < M /\ x = qM + r /\ qM \in Nat /\ aM \in Nat
  OBVIOUS
<1>2. ASSUME a < q PROVE FALSE
  <2>1. aM + M <= qM
    BY <1>1, <1>2, Multiples
  <2> QED BY <1>1, <2>1
<1>3. ASSUME q < a PROVE FALSE
  <2>1. qM + M <= aM
    BY <1>1, <1>3, Multiples
  <2> HIDE DEF q, r, aM, qM
  <2>2. x < qM + M
    BY <1>1
  <2>3. aM <= x
    BY DEF aM
  <2> QED BY <1>1, <2>1, <2>2, <2>3
<1>4. q = a
  BY <1>1, <1>2, <1>3
<1>5. r = x - aM
  BY <1>1, <1>4
<1> QED BY <1>4, <1>5

(* What the shuffler gives is never more than the run has.                 *)
LEMMA GivenFacts ==
    ASSUME Types, ShufflerStands
    PROVE  /\ Given \in Nat /\ Total \in Nat /\ Given <= Total
           /\ NumStep \in Nat \ {0} /\ num_epoch \in Nat \ {0}
           /\ shuffler.initialized /\ shuffler.epoch < num_epoch =>
                Given = shuffler.epoch * NumStep + shuffler.step + 1
<1>1. NumStep \in Nat \ {0} /\ num_epoch \in Nat \ {0} /\ StepOffset(0) = 0
  BY ConfFacts, Steps DEF Types
<1>2. BatchKey(shuffler, 0) = shuffler.epoch * NumStep + 0 + shuffler.step
  BY <1>1 DEF BatchKey
<1>3. shuffler.epoch \in Nat /\ shuffler.step \in Nat /\ shuffler.initialized \in BOOLEAN
  BY DEF Types
<1>4. shuffler.epoch * NumStep \in Nat /\ Total \in Nat
  BY <1>1, <1>3 DEF Total
<1>5. CASE shuffler.initialized /\ shuffler.epoch < num_epoch
  <2>1. Given = shuffler.epoch * NumStep + shuffler.step + 1
    BY <1>2, <1>3, <1>4, <1>5 DEF Given
  <2>2. shuffler.epoch * NumStep + NumStep <= Total
    BY <1>1, <1>3, <1>5, Multiples DEF Total
  <2>3. shuffler.step < NumStep
    BY <1>5 DEF ShufflerStands
  <2> QED BY <1>1, <1>3, <1>4, <2>1, <2>2, <2>3
<1>6. CASE ~(shuffler.initialized /\ shuffler.epoch < num_epoch)
  BY <1>1, <1>4, <1>6 DEF Given
<1> QED BY <1>5, <1>6

(* The step after x begins an epoch only behind the last of this one.      *)
LEMMA EpochEnds ==
    ASSUME NEW M \in Nat \ {0}, NEW x \in Nat, NEW a \in Nat, a * M <= x, x < a * M + M
    PROVE  (x + 1) % M = 0 <=> x + 1 = a * M + M
<1> DEFINE y == x + 1
           b == a + 1
<1>1. y \in Nat /\ b \in Nat /\ a * M \in Nat /\ b * M = a * M + M
  BY Multiples
<1>2. CASE y < a * M + M
  <2>1. a * M <= y
    BY <1>1
  <2> HIDE DEF y
  <2>2. y % M = y - a * M
    BY <1>1, <1>2, <2>1, Division, Zenon
  <2>3. y >= a * M + 1
    BY DEF y
  <2>4. y % M # 0
    BY <1>1, <2>2, <2>3
  <2>5. y # a * M + M
    BY <1>1, <1>2
  <2> QED BY <2>4, <2>5 DEF y
<1>3. CASE y = a * M + M
  <2>1. b * M <= y /\ y < b * M + M
    BY <1>1, <1>3
  <2> HIDE DEF y, b
  <2>2. y % M = y - b * M
    BY <1>1, <2>1, Division, Zenon
  <2>3. y % M = 0
    BY <1>1, <1>3, <2>2
  <2> QED BY <1>3, <2>3 DEF y
<1> QED BY <1>1, <1>2, <1>3

(* DoShuffle draws the next key of the row, or ends behind the last epoch. *)
LEMMA Drawn ==
    ASSUME Types, ShufflerStands, DoShuffle
    PROVE  /\ shuffler' \in [epoch : Nat, step : Nat, initialized : BOOLEAN]
           /\ ShufflerStands'
           /\ \/ /\ Given < Total /\ Given' = Given + 1 /\ sampling' = Given
                 /\ pc'["sampler"] = IF Arch4 THEN "add" ELSE "sample"
              \/ /\ Given = Total /\ Given' = Given /\ sampling' = NoTask
                 /\ pc'["sampler"] = "return"
<1> DEFINE M == NumStep
           next == IF shuffler.epoch < num_epoch THEN NextBatch(shuffler, 0) ELSE shuffler
           task == IF next.epoch < num_epoch THEN BatchKey(next, 0) ELSE NoTask
           E == shuffler.epoch
           S == shuffler.step
<1>1. /\ M \in Nat \ {0} /\ num_epoch \in Nat \ {0}
      /\ StepOffset(0) = 0 /\ ShufflerSteps(0) = M
  BY ConfFacts, Steps DEF Types
<1>2. /\ conf' = conf /\ shuffler' = next /\ sampling' = task
      /\ pc' = [pc EXCEPT !["sampler"] =
                    IF task = NoTask THEN "return" ELSE IF Arch4 THEN "add" ELSE "sample"]
  BY DEF DoShuffle, Goto
<1>3. /\ shuffler \in [epoch : Nat, step : Nat, initialized : BOOLEAN]
      /\ E \in Nat /\ S \in Nat /\ E <= num_epoch
      /\ shuffler.initialized => S < M
      /\ ~shuffler.initialized => E = 0 /\ S = M
  BY DEF Types, ShufflerStands
<1>4. Given \in Nat /\ Total \in Nat /\ Given <= Total /\ NumStep' = M /\ num_epoch' = num_epoch
      /\ Total' = Total
  BY <1>2, GivenFacts, ConfKept
<1>5. ASSUME NEW s \in [epoch : Nat, step : Nat, initialized : BOOLEAN]
      PROVE  BatchKey(s, 0) \in Nat /\ BatchKey(s, 0) = s.epoch * M + s.step
  <2>1. s.epoch * M \in Nat /\ s.step \in Nat
    BY <1>1, <1>5
  <2>2. BatchKey(s, 0) = s.epoch * M + 0 + s.step
    BY <1>1 DEF BatchKey
  <2> QED BY <2>1, <2>2
<1>6. StepOffset(0)' = 0
  BY <1>1, <1>2 DEF StepOffset, NumStep
<1>7. BatchKey(shuffler, 0)' = next.epoch * M + 0 + next.step
  BY <1>2, <1>4, <1>6 DEF BatchKey
<1>8. /\ next \in [epoch : Nat, step : Nat, initialized : BOOLEAN]
      /\ next.initialized
      /\ \/ ~shuffler.initialized /\ next.epoch = 0 /\ next.step = 0
         \/ /\ shuffler.initialized /\ E < num_epoch
            /\ IF S + 1 < M THEN next.epoch = E /\ next.step = S + 1
                            ELSE next.epoch = E + 1 /\ next.step = 0
         \/ shuffler.initialized /\ E = num_epoch /\ next = shuffler
  <2>1. CASE E < num_epoch
    <3>1. CASE S + 1 < M
      <4>1. next = [shuffler EXCEPT !.step = @ + 1] /\ shuffler.initialized
        BY <1>1, <1>3, <2>1, <3>1 DEF NextBatch
      <4> QED BY <1>3, <2>1, <3>1, <4>1
    <3>2. CASE ~(S + 1 < M)
      <4> DEFINE e == IF shuffler.initialized THEN E + 1 ELSE 0
      <4>1. next = [epoch |-> e, step |-> 0, initialized |-> TRUE] /\ e \in Nat
        BY <1>1, <1>3, <2>1, <3>2 DEF NextBatch
      <4>2. shuffler.initialized => e = E + 1
        OBVIOUS
      <4>3. ~shuffler.initialized => e = 0
        OBVIOUS
      <4> HIDE DEF next, e
      <4> QED BY <1>3, <2>1, <3>2, <4>1, <4>2, <4>3
    <3> QED BY <3>1, <3>2
  <2>2. CASE E = num_epoch
    <3>1. next = shuffler /\ shuffler.initialized
      BY <1>1, <1>3, <2>2
    <3> QED BY <1>3, <2>2, <3>1
  <2> QED BY <1>1, <1>3, <2>1, <2>2
<1>9. E * M \in Nat /\ (E + 1) * M = E * M + M /\ 0 * M = 0
      /\ (E < num_epoch => E * M + M <= Total) /\ 0 < Total
  <2>1. 0 * M + M <= num_epoch * M /\ 0 * M = 0
    BY <1>1, Multiples
  <2> QED BY <1>1, <1>3, <2>1, Multiples DEF Total
<1>10. /\ ~shuffler.initialized => Given = 0
       /\ shuffler.initialized /\ E < num_epoch => Given = E * M + S + 1
       /\ E = num_epoch /\ shuffler.initialized => Given = Total
  BY <1>1, <1>3, GivenFacts DEF Given
<1>11. next.initialized /\ next.epoch \in Nat /\ next.step \in Nat
  BY <1>3, <1>8
<1>12. Given' = IF next.epoch < num_epoch THEN next.epoch * M + 0 + next.step + 1 ELSE Total
  BY <1>2, <1>4, <1>7, <1>11 DEF Given
<1>13. task = IF next.epoch < num_epoch THEN next.epoch * M + next.step ELSE NoTask
  BY <1>5, <1>3, <1>8
<1>14. pc'["sampler"] = IF task = NoTask THEN "return" ELSE IF Arch4 THEN "add" ELSE "sample"
  BY <1>2 DEF Types
<1> HIDE DEF M, next, task, E, S
<1>15. CASE ~shuffler.initialized
  <2>1. next.epoch = 0 /\ next.step = 0 /\ next.epoch < num_epoch
    BY <1>1, <1>8, <1>15
  <2>2. Given' = 1 /\ task = 0 /\ Given = 0
    BY <1>9, <1>10, <1>12, <1>13, <1>15, <2>1
  <2>3. ShufflerStands'
    BY <1>1, <1>2, <1>4, <1>11, <2>1 DEF ShufflerStands, M
  <2> QED BY <1>2, <1>8, <1>9, <1>14, <1>15, <2>2, <2>3 DEF NoTask
<1>16. CASE shuffler.initialized /\ E < num_epoch /\ S + 1 < M
  <2>1. next.epoch = E /\ next.step = S + 1
    BY <1>8, <1>16, <1>3
  <2>2. Given' = Given + 1 /\ task = Given /\ Given < Total
    <3>1. next.epoch * M = E * M /\ E * M \in Nat /\ E * M + M <= Total
      BY <1>9, <1>16, <2>1
    <3>2. Given' = E * M + next.step + 1 /\ task = E * M + next.step /\ Given = E * M + S + 1
      BY <1>10, <1>11, <1>12, <1>13, <1>16, <2>1, <3>1
    <3> QED BY <1>1, <1>3, <1>4, <1>16, <2>1, <3>1, <3>2
  <2>3. ShufflerStands'
    BY <1>1, <1>2, <1>3, <1>4, <1>11, <1>16, <2>1 DEF ShufflerStands, M
  <2>4. shuffler' \in [epoch : Nat, step : Nat, initialized : BOOLEAN]
    BY <1>2, <1>3, <1>8, <1>16
  <2> QED BY <1>2, <1>4, <1>14, <2>2, <2>3, <2>4 DEF NoTask
<1>17. CASE shuffler.initialized /\ E < num_epoch /\ S + 1 = M
  <2>1. next.epoch = E + 1 /\ next.step = 0
    BY <1>8, <1>17, <1>3
  <2>2. ShufflerStands'
    BY <1>1, <1>2, <1>3, <1>4, <1>11, <1>17, <2>1 DEF ShufflerStands, M
  <2>3. shuffler' \in [epoch : Nat, step : Nat, initialized : BOOLEAN]
    BY <1>2, <1>3, <1>8, <1>17
  <2>4. Given = (E + 1) * M
    BY <1>1, <1>3, <1>9, <1>10, <1>17
  <2>5. CASE E + 1 < num_epoch
    <3>1. (E + 1) * M + M <= Total
      BY <1>1, <1>3, <2>5, Multiples DEF Total, M
    <3>2. Given' = Given + 1 /\ task = Given /\ Given < Total
      BY <1>1, <1>4, <1>12, <1>13, <2>1, <2>4, <2>5, <3>1
    <3> QED BY <1>2, <1>4, <1>14, <2>2, <2>3, <3>2 DEF NoTask
  <2>6. CASE E + 1 = num_epoch
    <3>1. Given = Total
      BY <2>4, <2>6 DEF Total, M
    <3>2. Given' = Given /\ task = NoTask
      BY <1>1, <1>12, <1>13, <2>1, <2>6, <3>1
    <3> QED BY <1>2, <1>14, <2>2, <2>3, <3>1, <3>2
  <2> QED BY <1>1, <1>3, <1>17, <2>5, <2>6
<1>18. CASE shuffler.initialized /\ E = num_epoch
  <2>1. next = shuffler /\ next.epoch = num_epoch
    BY <1>8, <1>18, <1>1 DEF E
  <2>2. Given' = Given /\ task = NoTask /\ Given = Total
    BY <1>1, <1>10, <1>12, <1>13, <1>18, <2>1
  <2>3. ShufflerStands'
    BY <1>2, <1>4, <2>1 DEF ShufflerStands, M
  <2> QED BY <1>2, <1>3, <1>14, <2>1, <2>2, <2>3
<1> QED BY <1>1, <1>3, <1>8, <1>15, <1>16, <1>17, <1>18

(* What every step leaves alone, and the types a step needs.               *)
LEMMA StepFacts ==
    ASSUME Types, ShufflerStands, Next
    PROVE  /\ conf' = conf
           /\ NumStep \in Nat \ {0} /\ NumStep' = NumStep
           /\ num_epoch \in Nat \ {0} /\ num_epoch' = num_epoch
           /\ Total' = Total /\ Arch4' = Arch4 /\ OneLoop' = OneLoop
           /\ NumThreads' = NumThreads /\ Loops' = Loops
           /\ Arch4 => ~OneLoop
           /\ shuffler' = shuffler => Given' = Given
           /\ Given \in Nat /\ Total \in Nat /\ Given <= Total
           /\ Len(queue) \in Nat /\ Len(graph_pool) \in Nat
BY NextKeepsConf, ConfKept, GivenFacts, ConfFacts DEF Types

(* The two ends of a queue.                                                *)
LEMMA QueueOps ==
    ASSUME NEW s \in Seq(Int), NEW x \in Int
    PROVE  /\ Append(s, x) \in Seq(Int) /\ Len(Append(s, x)) = Len(s) + 1 /\ Len(s) \in Nat
           /\ \A n \in 1 .. Len(Append(s, x)) : Append(s, x)[n] = IF n = Len(s) + 1 THEN x ELSE s[n]
           /\ s # << >> => /\ Tail(s) \in Seq(Int) /\ Len(Tail(s)) = Len(s) - 1
                           /\ Len(s) >= 1
                           /\ Head(s) = s[1] /\ Head(s) \in Int
                           /\ \A n \in 1 .. Len(Tail(s)) : Tail(s)[n] = s[n + 1]
           /\ s = << >> <=> Len(s) = 0
<1>1. /\ s # << >> => Tail(s) \in Seq(Int) /\ Len(Tail(s)) = Len(s) - 1 /\ Len(s) \in Nat \ {0}
      /\ Head(s) = s[1]
  OBVIOUS
<1>2. s # << >> => Head(s) \in Int /\ \A n \in 1 .. Len(Tail(s)) : Tail(s)[n] = s[n + 1]
  BY HeadTailProperties
<1> QED BY <1>1, <1>2

(* What the two steps that count do.                                       *)
LEMMA Counted ==
    ASSUME Types, ShufflerStands, Next, NextStep \/ EndEpoch
    PROVE  /\ conf.pipeline /\ Arch4 /\ ~OneLoop /\ ~OneLoop' /\ pc["sampler"] = "return"
           /\ pc'["copier"] = pc["copier"]
           /\ pc' \in [{"sampler", "copier"} -> SamplerStates \cup CopierStates]
           /\ loop' \in [epoch : Nat, step : Nat]
           /\ \/ /\ loop.step + 1 < NumStep /\ pc'["sampler"] = "begin"
                 /\ loop'.epoch = loop.epoch /\ loop'.step = loop.step + 1
                 /\ inner_counter' = inner_counter
              \/ /\ loop.step + 1 = NumStep
                 /\ pc'["sampler"] = IF loop.epoch + 1 < num_epoch THEN "epoch" ELSE "drain"
                 /\ loop'.epoch = loop.epoch + 1 /\ loop'.step = 0
                 /\ inner_counter' = inner_counter + 1
           /\ UNCHANGED <<script, step, graph_batch, shuffler, sampling, sample_log, copying,
                          copy_log, remapped, queue, graph_pool, outer_counter, endVars>>
<1>1. /\ pc["sampler"] = "return" /\ pc' = [pc EXCEPT !["sampler"] = pc'["sampler"]]
      /\ conf.pipeline /\ Arch4
  BY DEF NextStep, EndEpoch, Types, Goto, Counts
<1>2. ~OneLoop /\ ~OneLoop'
  BY <1>1, StepFacts
<1>3. loop.epoch \in Nat /\ loop.step \in Nat
  BY DEF Types
<1>4. UNCHANGED <<script, step, graph_batch, shuffler, sampling, sample_log, copying,
                  copy_log, remapped, queue, graph_pool, outer_counter, endVars>>
  BY DEF NextStep, EndEpoch, scriptVars, samplerVars, copierVars, batchVars
<1>5. CASE NextStep
  <2>1. /\ loop' = [loop EXCEPT !.step = loop.step + 1] /\ loop.step + 1 < NumStep
        /\ pc'["sampler"] = "begin" /\ inner_counter' = inner_counter
    BY <1>5 DEF NextStep, Goto, Types
  <2>2. loop.step + 1 \in Nat
    BY <1>3
  <2>3. /\ loop' \in [epoch : Nat, step : Nat] /\ loop'.epoch = loop.epoch
        /\ loop'.step = loop.step + 1
    BY <1>3, <2>1, <2>2 DEF Types
  <2>4. pc' \in [{"sampler", "copier"} -> SamplerStates \cup CopierStates]
        /\ pc'["copier"] = pc["copier"]
    BY <1>1, <2>1 DEF Types, SamplerStates
  <2> QED BY <1>1, <1>2, <1>4, <2>1, <2>3, <2>4
<1>6. CASE EndEpoch
  <2>1. /\ loop' = [epoch |-> loop.epoch + 1, step |-> 0] /\ loop.step + 1 = NumStep
        /\ pc'["sampler"] = IF loop.epoch + 1 < num_epoch THEN "epoch" ELSE "drain"
        /\ inner_counter' = inner_counter + 1
    BY <1>6 DEF EndEpoch, Goto, Types
  <2>2. loop' \in [epoch : Nat, step : Nat] /\ loop'.epoch = loop.epoch + 1 /\ loop'.step = 0
    BY <1>3, <2>1
  <2>3. pc' \in [{"sampler", "copier"} -> SamplerStates \cup CopierStates]
        /\ pc'["copier"] = pc["copier"]
    BY <1>1, <2>1 DEF Types, SamplerStates
  <2> QED BY <1>1, <1>2, <1>4, <2>1, <2>2, <2>3
<1> QED BY <1>5, <1>6

(* Consecutive keys stay so at both ends of a queue.                       *)
LEMMA ConsecutiveOps ==
    ASSUME NEW s \in Seq(Int), NEW a \in Nat, Consecutive(s, a)
    PROVE  /\ Consecutive(Append(s, a + Len(s)), a)
           /\ s # << >> => Consecutive(Tail(s), a + 1) /\ Head(s) = a
<1>1. Len(s) \in Nat /\ a + Len(s) \in Int
  OBVIOUS
<1>2. Consecutive(Append(s, a + Len(s)), a)
  <2> DEFINE x == a + Len(s)
             t == Append(s, x)
  <2> SUFFICES ASSUME NEW n \in 1 .. Len(t) PROVE t[n] = a + n - 1
    BY DEF Consecutive
  <2>1. Len(t) = Len(s) + 1 /\ t[n] = IF n = Len(s) + 1 THEN x ELSE s[n]
    BY <1>1, QueueOps
  <2>2. CASE n = Len(s) + 1
    BY <1>1, <2>1, <2>2
  <2>3. CASE n # Len(s) + 1
    <3>1. n \in 1 .. Len(s)
      BY <1>1, <2>1, <2>3
    <3> QED BY <2>1, <2>3, <3>1 DEF Consecutive
  <2> QED BY <2>2, <2>3
<1>3. ASSUME s # << >> PROVE Consecutive(Tail(s), a + 1) /\ Head(s) = a
  <2>1. Len(Tail(s)) = Len(s) - 1 /\ Len(s) >= 1 /\ Head(s) = s[1]
    BY <1>3, QueueOps
  <2>2. Head(s) = a
    BY <1>1, <2>1 DEF Consecutive
  <2>3. ASSUME NEW n \in 1 .. Len(Tail(s)) PROVE Tail(s)[n] = (a + 1) + n - 1
    <3>1. Tail(s)[n] = s[n + 1] /\ n + 1 \in 1 .. Len(s)
      BY <1>1, <1>3, <2>1, QueueOps
    <3> QED BY <1>1, <3>1 DEF Consecutive
  <2> QED BY <2>2, <2>3 DEF Consecutive
<1> QED BY <1>2, <1>3

------------------------------------------------------------------------------
(* What the steps that move a mini-batch do to the row of keys.            *)

RowStays == /\ Fetched' = Fetched /\ Submitted' = Submitted
            /\ Taken' = Taken /\ Queued' = Queued /\ Given' = Given
Held == /\ (Sampling' <=> Sampling) /\ (Unsent' <=> Unsent)
        /\ (Copying' <=> Copying) /\ (Uncopied' <=> Uncopied)

(* What each of these steps does to the row and to the states of the       *)
(* loops.                                                                  *)
LEMMA DoShuffleMoves ==
    ASSUME Types, Places, ShufflerStands, Next, DoShuffle
    PROVE  /\ pc["sampler"] = "shuffle" /\ ~Sampling /\ ~Unsent
           /\ \/ /\ Given' = Given + 1 /\ sampling' = Given /\ Sampling' /\ Unsent'
                 /\ pc'["sampler"] = IF Arch4 THEN "add" ELSE "sample"
              \/ /\ Given' = Given /\ sampling' = NoTask /\ ~Sampling' /\ ~Unsent'
                 /\ Given = Total /\ pc'["sampler"] = "return"
           /\ pc'["copier"] = pc["copier"] /\ (Copying' <=> Copying) /\ (Uncopied' <=> Uncopied)
           /\ UNCHANGED <<Fetched, Submitted, Taken, Queued>>
          
           /\ UNCHANGED <<script, step, graph_batch, sample_log, copierVars, batchVars, barrierVars>>
<1>1. /\ pc["sampler"] = "shuffle" /\ pc'["copier"] = pc["copier"]
      /\ UNCHANGED <<script, step, graph_batch, sample_log, copierVars, batchVars, barrierVars>>
  BY DEF DoShuffle, Goto, Types, scriptVars
<1>2. ~Sampling /\ ~Unsent /\ (Copying' <=> Copying) /\ (Uncopied' <=> Uncopied)
  BY <1>1 DEF Sampling, Unsent, Copying, Uncopied
<1>3. UNCHANGED <<Fetched, Submitted, Taken, Queued>>
  BY <1>1, <1>2 DEF Fetched, Submitted, Taken, Queued, batchVars
<1>4. Arch4' = Arch4
  BY StepFacts
<1>5. pc'["sampler"] \in {"add", "sample"} => Sampling'
  BY DEF Sampling
<1>6. pc'["sampler"] = "return" => ~Sampling' /\ ~Unsent'
  BY DEF Sampling, Unsent
<1>7. pc'["sampler"] = (IF Arch4 THEN "add" ELSE "sample") => Unsent'
  BY <1>4 DEF Unsent
<1> QED BY <1>1, <1>2, <1>3, <1>5, <1>6, <1>7, Drawn

LEMMA AddTaskMoves ==
    ASSUME Types, Places, ShufflerStands, Next, AddTask
    PROVE  /\ Sampling /\ Unsent /\ Sampling' /\ ~Unsent' /\ ~OneLoop
           /\ pc["sampler"] = "add" /\ pc'["sampler"] = IF Arch4 THEN "sample" ELSE "log"
           /\ pc'["copier"] = pc["copier"] /\ (Copying' <=> Copying) /\ (Uncopied' <=> Uncopied)
           /\ queue' = Append(queue, sampling) /\ Queued' = Queued + 1
           /\ UNCHANGED <<Fetched, Submitted, Taken, Given>>
           /\ UNCHANGED <<script, step, graph_batch, samplerVars, copierVars, remapped, graph_pool,
                          barrierVars>>
<1>1. /\ pc["sampler"] = "add" /\ pc'["copier"] = pc["copier"]
      /\ pc'["sampler"] = IF Arch4 THEN "sample" ELSE "log"
      /\ queue' = Append(queue, sampling)
      /\ UNCHANGED <<script, step, graph_batch, samplerVars, copierVars, remapped, graph_pool,
                     barrierVars>>
  BY DEF AddTask, Goto, Types, scriptVars
<1>2. Arch4' = Arch4 /\ Given' = Given /\ ~OneLoop
  BY <1>1, StepFacts DEF samplerVars, Places
<1>3. /\ Sampling /\ Unsent /\ Sampling' /\ ~Unsent' /\ (Copying' <=> Copying)
      /\ (Uncopied' <=> Uncopied)
  BY <1>1, <1>2 DEF Sampling, Unsent, Copying, Uncopied
<1>4. UNCHANGED <<Fetched, Submitted, Taken>>
  BY <1>1, <1>3 DEF Fetched, Submitted, Taken
<1>5. Len(queue') = Len(queue) + 1 /\ Len(queue) \in Nat
  BY <1>1, QueueOps DEF Types
<1>6. Taken \in Nat
  BY StepFacts DEF Types, Taken, Submitted, Fetched
<1>7. Queued' = Queued + 1
  BY <1>4, <1>5, <1>6 DEF Queued
<1> QED BY <1>1, <1>2, <1>3, <1>4, <1>7

LEMMA SubmitSampledMoves ==
    ASSUME Types, Places, ShufflerStands, Next, SubmitSampled
    PROVE  /\ OneLoop /\ Sampling /\ Unsent /\ Sampling' /\ ~Unsent' /\ ~Uncopied /\ ~Copying
           /\ pc["sampler"] = "submit" /\ pc'["sampler"] = "log" /\ queue = << >>
           /\ pc'["copier"] = pc["copier"] /\ ~Uncopied' /\ ~Copying'
           /\ graph_pool' = Append(graph_pool, sampling)
           /\ Taken = Submitted /\ Queued = Submitted
           /\ Submitted' = Submitted + 1 /\ Taken' = Taken + 1 /\ Queued' = Queued + 1
           /\ UNCHANGED <<Fetched, Given>>
           /\ UNCHANGED <<script, step, graph_batch, samplerVars, copierVars, remapped, queue,
                          barrierVars>>
<1>1. /\ OneLoop /\ pc["sampler"] = "submit" /\ pc'["copier"] = pc["copier"]
      /\ pc'["sampler"] = "log" /\ graph_pool' = Append(graph_pool, sampling)
      /\ UNCHANGED <<script, step, graph_batch, samplerVars, copierVars, remapped, queue,
                     barrierVars>>
  BY DEF SubmitSampled, Goto, Types, scriptVars
<1>2. Given' = Given /\ pc["copier"] = "idle" /\ queue = << >> /\ Len(queue) = 0
  BY <1>1, StepFacts, QueueOps DEF samplerVars, Places, Types
<1>3. /\ Sampling /\ Unsent /\ Sampling' /\ ~Unsent' /\ ~Copying /\ ~Uncopied /\ ~Copying'
      /\ ~Uncopied'
  BY <1>1, <1>2 DEF Sampling, Unsent, Copying, Uncopied
<1>4. Len(graph_pool') = Len(graph_pool) + 1 /\ Len(graph_pool) \in Nat
  BY <1>1, QueueOps DEF Types
<1>5. Fetched' = Fetched /\ Fetched \in Nat
  BY <1>1 DEF Fetched, Types
<1>6. Submitted' = Submitted + 1 /\ Submitted \in Nat
  BY <1>4, <1>5 DEF Submitted
<1>7. Taken = Submitted /\ Taken' = Submitted'
  BY <1>3 DEF Taken
<1>8. Queued = Taken /\ Queued' = Taken'
  BY <1>1, <1>2, <1>6, <1>7 DEF Queued
<1> QED BY <1>1, <1>2, <1>3, <1>5, <1>6, <1>7, <1>8

LEMMA GetTaskMoves ==
    ASSUME Types, Places, ShufflerStands, Next, GetTask
    PROVE  /\ ~OneLoop /\ ~Copying /\ ~Uncopied /\ Copying' /\ Uncopied'
           /\ pc["copier"] = "get" /\ pc'["copier"] = "copy"
           /\ pc'["sampler"] = pc["sampler"] /\ (Sampling' <=> Sampling) /\ (Unsent' <=> Unsent)
           /\ queue # << >> /\ copying' = Head(queue) /\ queue' = Tail(queue)
           /\ Taken' = Taken + 1 /\ UNCHANGED <<Fetched, Submitted, Queued, Given>>
           /\ UNCHANGED <<script, step, graph_batch, samplerVars, copy_log, remapped, graph_pool,
                          barrierVars>>
<1>1. /\ pc["copier"] = "get" /\ pc'["copier"] = "copy" /\ pc'["sampler"] = pc["sampler"]
      /\ queue # << >> /\ copying' = Head(queue) /\ queue' = Tail(queue)
      /\ UNCHANGED <<script, step, graph_batch, samplerVars, copy_log, remapped, graph_pool,
                     barrierVars>>
  BY DEF GetTask, Goto, Types, scriptVars
<1>2. Arch4' = Arch4 /\ Given' = Given /\ ~OneLoop
  BY <1>1, StepFacts DEF samplerVars, Places
<1>3. /\ (Sampling' <=> Sampling) /\ (Unsent' <=> Unsent)
      /\ ~Copying /\ ~Uncopied /\ Copying' /\ Uncopied'
  BY <1>1, <1>2 DEF Sampling, Unsent, Copying, Uncopied
<1>4. Len(queue') = Len(queue) - 1 /\ Len(queue) \in Nat
  BY <1>1, QueueOps DEF Types
<1>5. UNCHANGED <<Fetched, Submitted>> /\ Submitted \in Nat
  BY <1>1, StepFacts DEF Fetched, Submitted, Types
<1>6. Taken = Submitted /\ Taken' = Taken + 1
  BY <1>3, <1>5 DEF Taken
<1>7. Queued' = Queued
  BY <1>4, <1>5, <1>6 DEF Queued
<1> QED BY <1>1, <1>2, <1>3, <1>5, <1>6, <1>7

LEMMA SubmitMoves ==
    ASSUME Types, Places, ShufflerStands, Next, Submit
    PROVE  /\ ~OneLoop /\ Copying /\ Uncopied /\ Copying' /\ ~Uncopied'
           /\ pc["copier"] = "submit" /\ pc'["copier"] = "log"
           /\ pc'["sampler"] = pc["sampler"] /\ (Sampling' <=> Sampling) /\ (Unsent' <=> Unsent)
           /\ graph_pool' = Append(graph_pool, copying)
           /\ Taken = Submitted + 1
           /\ Submitted' = Submitted + 1 /\ UNCHANGED <<Fetched, Taken, Queued, Given>>
           /\ UNCHANGED <<script, step, graph_batch, samplerVars, copierVars, remapped, queue,
                          barrierVars>>
<1>1. /\ pc["copier"] = "submit" /\ pc'["copier"] = "log" /\ pc'["sampler"] = pc["sampler"]
      /\ graph_pool' = Append(graph_pool, copying)
      /\ UNCHANGED <<script, step, graph_batch, samplerVars, copierVars, remapped, queue,
                     barrierVars>>
  BY DEF Submit, Goto, Types, scriptVars
<1>2. Arch4' = Arch4 /\ Given' = Given /\ ~OneLoop
  BY <1>1, StepFacts DEF samplerVars, Places
<1>3. /\ (Sampling' <=> Sampling) /\ (Unsent' <=> Unsent)
      /\ Copying /\ Uncopied /\ Copying' /\ ~Uncopied'
  BY <1>1, <1>2 DEF Sampling, Unsent, Copying, Uncopied
<1>4. Len(graph_pool') = Len(graph_pool) + 1 /\ Len(graph_pool) \in Nat
  BY <1>1, QueueOps DEF Types
<1>5. Fetched' = Fetched /\ Fetched \in Nat
  BY <1>1 DEF Fetched, Types
<1>6. Submitted' = Submitted + 1 /\ Submitted \in Nat
  BY <1>4, <1>5 DEF Submitted
<1>7. Taken = Submitted + 1 /\ Taken' = Taken
  BY <1>3, <1>6 DEF Taken
<1>8. Queued' = Queued
  BY <1>1, <1>7 DEF Queued
<1> QED BY <1>1, <1>2, <1>3, <1>5, <1>6, <1>7, <1>8

LEMMA GetNextBatchMoves ==
    ASSUME Types, Places, ShufflerStands, Next, GetNextBatch
    PROVE  /\ script = "fetch" /\ script' = "train" /\ Held
           /\ graph_pool # << >> /\ graph_batch' = Head(graph_pool)
           /\ graph_pool' = Tail(graph_pool)
           /\ Fetched = step /\ Fetched' = Fetched + 1
           /\ UNCHANGED <<Submitted, Taken, Queued, Given>>
           /\ UNCHANGED <<step, pc, samplerVars, copierVars, remapped, queue, barrierVars>>
<1>1. /\ script = "fetch" /\ script' = "train"
      /\ graph_pool # << >> /\ graph_batch' = Head(graph_pool) /\ graph_pool' = Tail(graph_pool)
      /\ UNCHANGED <<step, pc, samplerVars, copierVars, remapped, queue, barrierVars>>
  BY DEF GetNextBatch, ScriptGoto
<1>2. Arch4' = Arch4 /\ Given' = Given
  BY <1>1, StepFacts DEF samplerVars
<1>3. Held
  BY <1>1, <1>2 DEF Held, Sampling, Unsent, Copying, Uncopied
<1>4. Len(graph_pool') = Len(graph_pool) - 1 /\ Len(graph_pool) \in Nat
  BY <1>1, QueueOps DEF Types
<1>5. Fetched = step /\ Fetched' = Fetched + 1 /\ Fetched \in Nat
  BY <1>1 DEF Fetched, Types
<1>6. Submitted' = Submitted
  BY <1>4, <1>5 DEF Submitted
<1>7. UNCHANGED <<Taken, Queued>>
  BY <1>1, <1>3, <1>6 DEF Taken, Queued, Held
<1> QED BY <1>1, <1>2, <1>3, <1>5, <1>6, <1>7

LEMMA StartMoves ==
    ASSUME Types, Places, ShufflerStands, Next, Start
    PROVE  /\ Held /\ RowStays
           /\ script = "step" /\ script' = "fetch" /\ conf.pipeline
           /\ \/ pc'["sampler"] = pc["sampler"]
              \/ /\ pc["sampler"] = "idle"
                 /\ pc'["sampler"] = IF Arch4 THEN "epoch" ELSE "begin"
           /\ \/ pc'["copier"] = pc["copier"]
              \/ pc["copier"] = "idle" /\ pc'["copier"] \in {"idle", "begin"}
           /\ UNCHANGED <<step, graph_batch, samplerVars, copierVars, batchVars, barrierVars>>
<1>1. /\ script = "step" /\ script' = "fetch" /\ conf.pipeline
      /\ pc' = IF step > 0 THEN pc
               ELSE [t \in {"sampler", "copier"} |->
                      IF t \notin Loops THEN "idle" ELSE IF Counts(t) THEN "epoch" ELSE "begin"]
      /\ UNCHANGED <<step, graph_batch, samplerVars, copierVars, batchVars, barrierVars>>
  BY DEF Start, ScriptGoto
<1>2. /\ \/ pc'["sampler"] = pc["sampler"]
         \/ /\ pc["sampler"] = "idle"
            /\ pc'["sampler"] = IF Arch4 THEN "epoch" ELSE "begin"
      /\ \/ pc'["copier"] = pc["copier"]
         \/ pc["copier"] = "idle" /\ pc'["copier"] \in {"idle", "begin"}
  <2>1. CASE step > 0
    BY <1>1, <2>1
  <2>2. CASE ~(step > 0)
    BY <1>1, <2>2 DEF Types, Places, Loops, Counts
  <2> QED BY <2>1, <2>2
<1>3. Arch4' = Arch4 /\ Given' = Given
  BY <1>1, StepFacts DEF samplerVars
<1>4. Held
  BY <1>2, <1>3 DEF Held, Sampling, Unsent, Copying, Uncopied
<1>5. RowStays
  BY <1>1, <1>3, <1>4 DEF Held, RowStays, Fetched, Submitted, Taken, Queued, batchVars
<1> QED BY <1>1, <1>2, <1>3, <1>4, <1>5

(* When the script has all its batches there are none left on the way.     *)
LEMMA JoinAndFreeMoves ==
    ASSUME Types, Places, ShufflerStands, Epochs, Order, Next, JoinAndFree
    PROVE  /\ Held /\ RowStays
           /\ script = "join" /\ script' = "done" /\ queue = << >> /\ graph_pool = << >>
           /\ UNCHANGED <<step, graph_batch, pc, samplerVars, copierVars, batchVars, barrierVars>>
<1>1. /\ script = "join" /\ script' = "done" /\ queue' = << >> /\ graph_pool' = << >>
      /\ UNCHANGED <<step, graph_batch, pc, samplerVars, copierVars, remapped, barrierVars>>
  BY DEF JoinAndFree, ScriptGoto
<1>2. Arch4' = Arch4 /\ Given' = Given /\ Given <= Total /\ Given \in Nat /\ Total \in Nat
      /\ Len(queue) \in Nat /\ Len(graph_pool) \in Nat
  BY <1>1, StepFacts DEF samplerVars
<1>3. step = Total /\ Fetched = step
  BY <1>1 DEF Epochs, Fetched
<1>4. Queued <= Given
  BY <1>2, <1>3 DEF Order, Queued, Taken, Submitted
<1>5. Len(queue) = 0 /\ Len(graph_pool) = 0
  BY <1>2, <1>3, <1>4 DEF Queued, Taken, Submitted
<1>6. queue = << >> /\ graph_pool = << >>
  BY <1>5, QueueOps DEF Types
<1>7. Held
  BY <1>1, <1>2 DEF Held, Sampling, Unsent, Copying, Uncopied
<1>8. RowStays
  BY <1>1, <1>2, <1>6, <1>7 DEF Held, RowStays, Fetched, Submitted, Taken, Queued
<1> QED BY <1>1, <1>2, <1>6, <1>7, <1>8 DEF batchVars

(* The stretches of the row are numbers in order.                          *)
LEMMA RowFacts ==
    ASSUME Types, ShufflerStands
    PROVE  /\ Given \in Nat /\ Fetched \in Nat /\ Submitted \in Nat /\ Taken \in Nat
           /\ Queued \in Nat
           /\ step <= Fetched /\ Fetched <= Submitted /\ Submitted <= Taken /\ Taken <= Queued
           /\ Submitted = Fetched + Len(graph_pool) /\ Queued = Taken + Len(queue)
           /\ Len(graph_pool) \in Nat /\ Len(queue) \in Nat
           /\ Uncopied => Taken = Submitted + 1
           /\ ~Uncopied => Taken = Submitted
           /\ Unsent => Sampling
           /\ Uncopied => Copying
<1>1. Len(graph_pool) \in Nat /\ Len(queue) \in Nat /\ step \in Nat
  BY DEF Types
<1>2. Given \in Nat
  BY GivenFacts
<1>3. Unsent => Sampling
  BY DEF Unsent, Sampling
<1>4. Uncopied => Copying
  BY DEF Uncopied, Copying
<1> QED BY <1>1, <1>2, <1>3, <1>4 DEF Fetched, Submitted, Taken, Queued

(* The other steps but for the two that log move no mini-batch.            *)
QuietStep ==
    \/ BeginSample \/ Sample \/ Again("sampler") \/ BeginEpoch \/ NextStep \/ EndEpoch \/ Drain
    \/ BeginCopy \/ GetNoTask \/ Copy \/ Again("copier")
    \/ SampleOnce \/ CopyOnce \/ OnceReturn \/ Train \/ EpochReport \/ Shutdown \/ Ended

LEMMA QuietMoves ==
    ASSUME Types, Places, ShufflerStands, Next, QuietStep
    PROVE  /\ Held /\ RowStays
           /\ UNCHANGED <<graph_batch, queue, graph_pool, samplerVars, copierVars>>
<1> DEFINE Same == UNCHANGED <<graph_batch, queue, graph_pool, samplerVars, copierVars>>
<1>0. Arch4' = Arch4 /\ (shuffler' = shuffler => Given' = Given)
  BY StepFacts
<1>1. Same
  BY DEF QuietStep, BeginSample, Sample, Again, BeginEpoch, NextStep, EndEpoch, Drain, BeginCopy,
         GetNoTask, Copy, SampleOnce, CopyOnce, OnceReturn, Train, EpochReport, Shutdown, Ended,
         vars, scriptVars, batchVars
<1>2. Held
  <2> USE DEF Held, Sampling, Unsent, Copying, Uncopied, Goto, Types
  <2>1. CASE BeginSample
    BY <1>0, <2>1 DEF BeginSample
  <2>2. CASE Sample
    BY <1>0, <2>2 DEF Sample
  <2>3. CASE Again("sampler")
    BY <1>0, <2>3 DEF Again
  <2>4. CASE BeginEpoch
    BY <1>0, <2>4 DEF BeginEpoch
  <2>5. CASE NextStep
    BY <1>0, <2>5 DEF NextStep
  <2>6. CASE EndEpoch
    BY <1>0, <2>6 DEF EndEpoch
  <2>7. CASE Drain
    BY <1>0, <2>7 DEF Drain
  <2>8. CASE BeginCopy
    BY <1>0, <2>8 DEF BeginCopy
  <2>9. CASE GetNoTask
    BY <1>0, <2>9 DEF GetNoTask
  <2>10. CASE Copy
    BY <1>0, <2>10 DEF Copy
  <2>11. CASE Again("copier")
    BY <1>0, <2>11 DEF Again
  <2>12. CASE SampleOnce
    BY <1>0, <2>12 DEF SampleOnce, ScriptGoto, Places
  <2>13. CASE CopyOnce
    BY <1>0, <2>13 DEF CopyOnce, ScriptGoto, Places
  <2>14. CASE OnceReturn
    BY <1>0, <2>14 DEF OnceReturn, ScriptGoto, Places
  <2>15. CASE Train
    BY <1>0, <2>15 DEF Train
  <2>16. CASE EpochReport
    BY <1>0, <2>16 DEF EpochReport
  <2>17. CASE Shutdown
    BY <1>0, <2>17 DEF Shutdown
  <2>18. CASE Ended
    BY <1>0, <2>18 DEF Ended, vars
  <2> QED BY <2>1, <2>2, <2>3, <2>4, <2>5, <2>6, <2>7, <2>8, <2>9, <2>10, <2>11, <2>12, <2>13,
      <2>14, <2>15, <2>16, <2>17, <2>18
      DEF QuietStep
<1>3. Fetched' = Fetched
  BY DEF Fetched, QuietStep, BeginSample, Sample, Again, BeginEpoch, NextStep, EndEpoch, Drain,
         BeginCopy, GetNoTask, Copy, SampleOnce, CopyOnce, OnceReturn, Train, EpochReport, Shutdown,
         Ended, vars, scriptVars, ScriptGoto, Types
<1>4. RowStays
  BY <1>0, <1>1, <1>2, <1>3 DEF RowStays, Held, Submitted, Taken, Queued, samplerVars
<1> QED BY <1>1, <1>2, <1>4

(* The two steps that log.                                                 *)
LEMMA LogMoves ==
    ASSUME Types, Places, ShufflerStands, Next, LogSample \/ LogCopy
    PROVE  /\ RowStays /\ (Unsent' <=> Unsent) /\ (Uncopied' <=> Uncopied)
           /\ LogSample => /\ Sampling /\ ~Sampling' /\ sampling' = NoTask /\ (Copying' <=> Copying)
                           /\ copying' = copying /\ sample_log' = sample_log \cup {sampling}
                           /\ copy_log' = IF OneLoop THEN copy_log \cup {sampling} ELSE copy_log
                           /\ pc["sampler"] = "log" /\ pc'["sampler"] = "return"
                           /\ pc'["copier"] = pc["copier"]
           /\ LogCopy => /\ Copying /\ ~Copying' /\ copying' = NoTask /\ (Sampling' <=> Sampling)
                         /\ sampling' = sampling /\ copy_log' = copy_log \cup {copying}
                         /\ sample_log' = sample_log /\ ~OneLoop /\ ~Uncopied
                         /\ pc["copier"] = "log" /\ pc'["copier"] = "return"
                         /\ pc'["sampler"] = pc["sampler"]
           /\ UNCHANGED <<script, step, graph_batch, shuffler, batchVars, barrierVars>>
<1>1. UNCHANGED <<script, step, graph_batch, shuffler, batchVars, barrierVars>>
  BY DEF LogSample, LogCopy, scriptVars, samplerVars
<1>2. Arch4' = Arch4 /\ Given' = Given
  BY <1>1, StepFacts
<1>3. CASE LogSample
  <2>1. /\ pc["sampler"] = "log" /\ pc'["sampler"] = "return" /\ pc'["copier"] = pc["copier"]
        /\ sampling' = NoTask /\ copying' = copying /\ sample_log' = sample_log \cup {sampling}
        /\ copy_log' = IF OneLoop THEN copy_log \cup {sampling} ELSE copy_log
    BY <1>3 DEF LogSample, Goto, Types
  <2>2. ~LogCopy
    BY <2>1 DEF LogCopy, Goto, Types
  <2>3. /\ Sampling /\ ~Sampling' /\ ~Unsent /\ ~Unsent'
        /\ (Copying' <=> Copying) /\ (Uncopied' <=> Uncopied)
    BY <2>1 DEF Sampling, Unsent, Copying, Uncopied
  <2>4. RowStays
    BY <1>1, <1>2, <2>3 DEF RowStays, Fetched, Submitted, Taken, Queued, batchVars
  <2> QED BY <1>1, <2>1, <2>2, <2>3, <2>4
<1>4. CASE LogCopy
  <2>1. /\ pc["copier"] = "log" /\ pc'["copier"] = "return" /\ pc'["sampler"] = pc["sampler"]
        /\ copying' = NoTask /\ sampling' = sampling /\ copy_log' = copy_log \cup {copying}
        /\ sample_log' = sample_log
    BY <1>4 DEF LogCopy, Goto, Types, samplerVars
  <2>2. ~LogSample /\ ~OneLoop
    BY <2>1 DEF LogSample, Goto, Types, Places
  <2>3. /\ Copying /\ ~Copying' /\ ~Uncopied /\ ~Uncopied'
        /\ (Sampling' <=> Sampling) /\ (Unsent' <=> Unsent)
    BY <1>2, <2>1 DEF Sampling, Unsent, Copying, Uncopied
  <2>4. RowStays
    BY <1>1, <1>2, <2>3 DEF RowStays, Fetched, Submitted, Taken, Queued, batchVars
  <2> QED BY <1>1, <2>1, <2>2, <2>3, <2>4
<1> QED BY <1>3, <1>4

------------------------------------------------------------------------------
(* Each part of the invariant is kept by every step.                       *)
LEMMA TypesStep == ASSUME IInv, Next PROVE Types'
<1>0. /\ Types /\ Places /\ Joins /\ Epochs /\ ShufflerStands /\ Order /\ Logs /\ Remaps /\ Rooms
      /\ Barriers
  BY DEF IInv
<1> USE DEF Goto, ScriptGoto, scriptVars, samplerVars, copierVars, batchVars, barrierVars, endVars
<1>1. CASE BeginSample
  BY <1>0, <1>1, StepFacts DEF BeginSample, Types, SamplerStates, CopierStates, ScriptStates
<1>2. CASE DoShuffle
  BY <1>0, <1>2, StepFacts, Drawn
     DEF DoShuffle, Types, SamplerStates, CopierStates, ScriptStates, NoTask
<1>3. CASE AddTask
  BY <1>0, <1>3, QueueOps DEF AddTask, Types, SamplerStates, CopierStates, ScriptStates
<1>4. CASE Sample
  BY <1>0, <1>4, StepFacts DEF Sample, Types, SamplerStates, CopierStates, ScriptStates
<1>5. CASE SubmitSampled
  BY <1>0, <1>5, QueueOps DEF SubmitSampled, Types, SamplerStates, CopierStates, ScriptStates
<1>6. CASE LogSample
  BY <1>0, <1>6, StepFacts DEF LogSample, Types, SamplerStates, CopierStates, ScriptStates, NoTask
<1>7. CASE Again("sampler")
  BY <1>0, <1>7, StepFacts DEF Again, Types, SamplerStates, CopierStates, ScriptStates
<1>8. CASE BeginEpoch
  BY <1>0, <1>8, StepFacts DEF BeginEpoch, Types, SamplerStates, CopierStates, ScriptStates
<1>9. CASE NextStep
  <2>1. /\ pc'["sampler"] \in SamplerStates /\ pc'["copier"] \in CopierStates
        /\ pc' \in [{"sampler", "copier"} -> SamplerStates \cup CopierStates]
        /\ loop' \in [epoch : Nat, step : Nat] /\ inner_counter' \in Nat
    <3>1. /\ pc' \in [{"sampler", "copier"} -> SamplerStates \cup CopierStates]
          /\ loop' \in [epoch : Nat, step : Nat]
          /\ pc'["copier"] = pc["copier"]
          /\ pc'["sampler"] \in {"begin", "epoch", "drain"}
          /\ inner_counter' = inner_counter \/ inner_counter' = inner_counter + 1
      BY <1>0, <1>9, Counted
    <3>2. pc["copier"] \in CopierStates /\ inner_counter \in Nat
      BY <1>0 DEF Types
    <3> QED BY <3>1, <3>2 DEF SamplerStates
  <2>2. UNCHANGED <<conf, script, step, shuffler, sampling, copying, queue, graph_pool,
                    outer_counter, should_shutdown>>
    BY <1>0, <1>9, StepFacts, Counted DEF endVars
  <2> QED BY <1>0, <2>1, <2>2 DEF Types
<1>10. CASE EndEpoch
  <2>1. /\ pc'["sampler"] \in SamplerStates /\ pc'["copier"] \in CopierStates
        /\ pc' \in [{"sampler", "copier"} -> SamplerStates \cup CopierStates]
        /\ loop' \in [epoch : Nat, step : Nat] /\ inner_counter' \in Nat
    <3>1. /\ pc' \in [{"sampler", "copier"} -> SamplerStates \cup CopierStates]
          /\ loop' \in [epoch : Nat, step : Nat]
          /\ pc'["copier"] = pc["copier"]
          /\ pc'["sampler"] \in {"begin", "epoch", "drain"}
          /\ inner_counter' = inner_counter \/ inner_counter' = inner_counter + 1
      BY <1>0, <1>10, Counted
    <3>2. pc["copier"] \in CopierStates /\ inner_counter \in Nat
      BY <1>0 DEF Types
    <3> QED BY <3>1, <3>2 DEF SamplerStates
  <2>2. UNCHANGED <<conf, script, step, shuffler, sampling, copying, queue, graph_pool,
                    outer_counter, should_shutdown>>
    BY <1>0, <1>10, StepFacts, Counted DEF endVars
  <2> QED BY <1>0, <2>1, <2>2 DEF Types
<1>11. CASE Drain
  BY <1>0, <1>11, StepFacts DEF Drain, Types, SamplerStates, CopierStates, ScriptStates
<1>12. CASE BeginCopy
  BY <1>0, <1>12, StepFacts DEF BeginCopy, Types, SamplerStates, CopierStates, ScriptStates
<1>13. CASE GetNoTask
  BY <1>0, <1>13, StepFacts DEF GetNoTask, Types, SamplerStates, CopierStates, ScriptStates
<1>14. CASE GetTask
  BY <1>0, <1>14, QueueOps DEF GetTask, Types, SamplerStates, CopierStates, ScriptStates
<1>15. CASE Copy
  BY <1>0, <1>15, StepFacts DEF Copy, Types, SamplerStates, CopierStates, ScriptStates
<1>16. CASE Submit
  BY <1>0, <1>16, QueueOps DEF Submit, Types, SamplerStates, CopierStates, ScriptStates
<1>17. CASE LogCopy
  BY <1>0, <1>17, StepFacts DEF LogCopy, Types, SamplerStates, CopierStates, ScriptStates, NoTask
<1>18. CASE Again("copier")
  BY <1>0, <1>18, StepFacts DEF Again, Types, SamplerStates, CopierStates, ScriptStates
<1>19. CASE Start
  BY <1>0, <1>19, StepFacts
     DEF Start, Types, SamplerStates, CopierStates, ScriptStates, Loops, Counts
<1>20. CASE SampleOnce
  BY <1>0, <1>20, StepFacts DEF SampleOnce, Types, SamplerStates, CopierStates, ScriptStates
<1>21. CASE CopyOnce
  BY <1>0, <1>21, StepFacts DEF CopyOnce, Types, SamplerStates, CopierStates, ScriptStates
<1>22. CASE OnceReturn
  BY <1>0, <1>22, StepFacts DEF OnceReturn, Types, SamplerStates, CopierStates, ScriptStates
<1>23. CASE GetNextBatch
  BY <1>0, <1>23, QueueOps DEF GetNextBatch, Types, SamplerStates, CopierStates, ScriptStates
<1>24. CASE Train
  BY <1>0, <1>24, StepFacts DEF Train, Types, SamplerStates, CopierStates, ScriptStates
<1>25. CASE EpochReport
  BY <1>0, <1>25, StepFacts DEF EpochReport, Types, SamplerStates, CopierStates, ScriptStates
<1>26. CASE Shutdown
  BY <1>0, <1>26, StepFacts DEF Shutdown, Types, SamplerStates, CopierStates, ScriptStates
<1>27. CASE JoinAndFree
  BY <1>0, <1>27, StepFacts, QueueOps, EmptySeq
     DEF JoinAndFree, Types, SamplerStates, CopierStates, ScriptStates
<1>28. CASE Ended
  BY <1>0, <1>28, StepFacts DEF Ended, vars, Types, SamplerStates, CopierStates, ScriptStates
<1> QED BY <1>1, <1>2, <1>3, <1>4, <1>5, <1>6, <1>7, <1>8, <1>9, <1>10, <1>11, <1>12, <1>13, <1>14,
    <1>15, <1>16, <1>17, <1>18, <1>19, <1>20, <1>21, <1>22, <1>23, <1>24, <1>25, <1>26, <1>27, <1>28
    DEF Next, SamplerStep, CopierStep, ScriptStep

LEMMA PlacesStep == ASSUME IInv, Next PROVE Places'
<1>0. /\ Types /\ Places /\ Joins /\ Epochs /\ ShufflerStands /\ Order /\ Logs /\ Remaps /\ Rooms
      /\ Barriers
  BY DEF IInv
<1> USE DEF Goto, ScriptGoto, scriptVars, samplerVars, copierVars, batchVars, barrierVars, endVars
<1>1. CASE BeginSample
  BY <1>0, <1>1, StepFacts DEF BeginSample, Types, Places, Counts, Loops
<1>2. CASE DoShuffle
  BY <1>0, <1>2, StepFacts DEF DoShuffle, Types, Places, Counts, Loops
<1>3. CASE AddTask
  BY <1>0, <1>3, StepFacts DEF AddTask, Types, Places, Counts, Loops
<1>4. CASE Sample
  BY <1>0, <1>4, StepFacts DEF Sample, Types, Places, Counts, Loops
<1>5. CASE SubmitSampled
  BY <1>0, <1>5, StepFacts DEF SubmitSampled, Types, Places, Counts, Loops
<1>6. CASE LogSample
  BY <1>0, <1>6, StepFacts DEF LogSample, Types, Places, Counts, Loops
<1>7. CASE Again("sampler")
  BY <1>0, <1>7, StepFacts DEF Again, Types, Places, Counts, Loops
<1>8. CASE BeginEpoch
  BY <1>0, <1>8, StepFacts DEF BeginEpoch, Types, Places, Counts, Loops
<1>9. CASE NextStep
  BY <1>0, <1>9, StepFacts, Counted DEF Places
<1>10. CASE EndEpoch
  BY <1>0, <1>10, StepFacts, Counted DEF Places
<1>11. CASE Drain
  BY <1>0, <1>11, StepFacts DEF Drain, Types, Places, Counts, Loops
<1>12. CASE BeginCopy
  BY <1>0, <1>12, StepFacts DEF BeginCopy, Types, Places, Counts, Loops
<1>13. CASE GetNoTask
  BY <1>0, <1>13, StepFacts DEF GetNoTask, Types, Places, Counts, Loops
<1>14. CASE GetTask
  BY <1>0, <1>14, StepFacts DEF GetTask, Types, Places, Counts, Loops
<1>15. CASE Copy
  BY <1>0, <1>15, StepFacts DEF Copy, Types, Places, Counts, Loops
<1>16. CASE Submit
  BY <1>0, <1>16, StepFacts DEF Submit, Types, Places, Counts, Loops
<1>17. CASE LogCopy
  BY <1>0, <1>17, StepFacts DEF LogCopy, Types, Places, Counts, Loops
<1>18. CASE Again("copier")
  BY <1>0, <1>18, StepFacts DEF Again, Types, Places, Counts, Loops
<1>19. CASE Start
  BY <1>0, <1>19, StepFacts DEF Start, Types, Places, Counts, Loops
<1>20. CASE SampleOnce
  BY <1>0, <1>20, StepFacts DEF SampleOnce, Types, Places, Counts, Loops
<1>21. CASE CopyOnce
  BY <1>0, <1>21, StepFacts DEF CopyOnce, Types, Places, Counts, Loops
<1>22. CASE OnceReturn
  BY <1>0, <1>22, StepFacts DEF OnceReturn, Types, Places, Counts, Loops
<1>23. CASE GetNextBatch
  BY <1>0, <1>23, StepFacts DEF GetNextBatch, Types, Places, Counts, Loops
<1>24. CASE Train
  BY <1>0, <1>24, StepFacts DEF Train, Types, Places, Counts, Loops
<1>25. CASE EpochReport
  BY <1>0, <1>25, StepFacts DEF EpochReport, Types, Places, Counts, Loops, Epochs
<1>26. CASE Shutdown
  BY <1>0, <1>26, StepFacts DEF Shutdown, Types, Places, Counts, Loops
<1>27. CASE JoinAndFree
  BY <1>0, <1>27, StepFacts DEF JoinAndFree, Types, Places, Counts, Loops
<1>28. CASE Ended
  BY <1>0, <1>28, StepFacts DEF Ended, vars, Types, Places, Counts, Loops
<1> QED BY <1>1, <1>2, <1>3, <1>4, <1>5, <1>6, <1>7, <1>8, <1>9, <1>10, <1>11, <1>12, <1>13, <1>14,
    <1>15, <1>16, <1>17, <1>18, <1>19, <1>20, <1>21, <1>22, <1>23, <1>24, <1>25, <1>26, <1>27, <1>28
    DEF Next, SamplerStep, CopierStep, ScriptStep

LEMMA JoinsStep == ASSUME IInv, Next PROVE Joins'
<1>0. /\ Types /\ Places /\ Joins /\ Epochs /\ ShufflerStands /\ Order /\ Logs /\ Remaps /\ Rooms
      /\ Barriers
  BY DEF IInv
<1> USE DEF Goto, ScriptGoto, scriptVars, samplerVars, copierVars, batchVars, barrierVars, endVars
<1>1. CASE BeginSample
  BY <1>0, <1>1, StepFacts DEF BeginSample, Types, Places, Joins, Counts, Loops, NumThreads
<1>2. CASE DoShuffle
  BY <1>0, <1>2, StepFacts DEF DoShuffle, Types, Places, Joins, Counts, Loops, NumThreads
<1>3. CASE AddTask
  BY <1>0, <1>3, StepFacts DEF AddTask, Types, Places, Joins, Counts, Loops, NumThreads
<1>4. CASE Sample
  BY <1>0, <1>4, StepFacts DEF Sample, Types, Places, Joins, Counts, Loops, NumThreads
<1>5. CASE SubmitSampled
  BY <1>0, <1>5, StepFacts DEF SubmitSampled, Types, Places, Joins, Counts, Loops, NumThreads
<1>6. CASE LogSample
  BY <1>0, <1>6, StepFacts DEF LogSample, Types, Places, Joins, Counts, Loops, NumThreads
<1>7. CASE Again("sampler")
  BY <1>0, <1>7, StepFacts DEF Again, Types, Places, Joins, Counts, Loops, NumThreads
<1>8. CASE BeginEpoch
  BY <1>0, <1>8, StepFacts DEF BeginEpoch, Types, Places, Joins, Counts, Loops, NumThreads
<1>9. CASE NextStep
  BY <1>0, <1>9, StepFacts, Counted DEF Places, Joins, endVars
<1>10. CASE EndEpoch
  BY <1>0, <1>10, StepFacts, Counted DEF Places, Joins, endVars
<1>11. CASE Drain
  BY <1>0, <1>11, StepFacts DEF Drain, Types, Places, Joins, Counts, Loops, NumThreads
<1>12. CASE BeginCopy
  BY <1>0, <1>12, StepFacts DEF BeginCopy, Types, Places, Joins, Counts, Loops, NumThreads
<1>13. CASE GetNoTask
  BY <1>0, <1>13, StepFacts DEF GetNoTask, Types, Places, Joins, Counts, Loops, NumThreads
<1>14. CASE GetTask
  BY <1>0, <1>14, StepFacts DEF GetTask, Types, Places, Joins, Counts, Loops, NumThreads
<1>15. CASE Copy
  BY <1>0, <1>15, StepFacts DEF Copy, Types, Places, Joins, Counts, Loops, NumThreads
<1>16. CASE Submit
  BY <1>0, <1>16, StepFacts DEF Submit, Types, Places, Joins, Counts, Loops, NumThreads
<1>17. CASE LogCopy
  BY <1>0, <1>17, StepFacts DEF LogCopy, Types, Places, Joins, Counts, Loops, NumThreads
<1>18. CASE Again("copier")
  BY <1>0, <1>18, StepFacts DEF Again, Types, Places, Joins, Counts, Loops, NumThreads
<1>19. CASE Start
  BY <1>0, <1>19, StepFacts DEF Start, Types, Places, Joins, Counts, Loops, NumThreads
<1>20. CASE SampleOnce
  BY <1>0, <1>20, StepFacts DEF SampleOnce, Types, Places, Joins, Counts, Loops, NumThreads
<1>21. CASE CopyOnce
  BY <1>0, <1>21, StepFacts DEF CopyOnce, Types, Places, Joins, Counts, Loops, NumThreads
<1>22. CASE OnceReturn
  BY <1>0, <1>22, StepFacts DEF OnceReturn, Types, Places, Joins, Counts, Loops, NumThreads
<1>23. CASE GetNextBatch
  BY <1>0, <1>23, StepFacts DEF GetNextBatch, Types, Places, Joins, Counts, Loops, NumThreads
<1>24. CASE Train
  BY <1>0, <1>24, StepFacts DEF Train, Types, Places, Joins, Counts, Loops, NumThreads
<1>25. CASE EpochReport
  BY <1>0, <1>25, StepFacts DEF EpochReport, Types, Places, Joins, Counts, Loops, NumThreads
<1>26. CASE Shutdown
  BY <1>0, <1>26, StepFacts DEF Shutdown, Types, Places, Joins, Counts, Loops, NumThreads
<1>27. CASE JoinAndFree
  BY <1>0, <1>27, StepFacts DEF JoinAndFree, Types, Places, Joins, Counts, Loops, NumThreads
<1>28. CASE Ended
  BY <1>0, <1>28, StepFacts DEF Ended, vars, Types, Places, Joins, Counts, Loops, NumThreads
<1> QED BY <1>1, <1>2, <1>3, <1>4, <1>5, <1>6, <1>7, <1>8, <1>9, <1>10, <1>11, <1>12, <1>13, <1>14,
    <1>15, <1>16, <1>17, <1>18, <1>19, <1>20, <1>21, <1>22, <1>23, <1>24, <1>25, <1>26, <1>27, <1>28
    DEF Next, SamplerStep, CopierStep, ScriptStep

LEMMA EpochsStep == ASSUME IInv, Next PROVE Epochs'
<1>0. /\ Types /\ Places /\ Joins /\ Epochs /\ ShufflerStands /\ Order /\ Logs /\ Remaps /\ Rooms
      /\ Barriers
  BY DEF IInv
<1> USE DEF Goto, ScriptGoto, scriptVars, samplerVars, copierVars, batchVars, barrierVars, endVars
<1>1. CASE BeginSample
  BY <1>0, <1>1, StepFacts DEF BeginSample, Types, Epochs
<1>2. CASE DoShuffle
  BY <1>0, <1>2, StepFacts DEF DoShuffle, Types, Epochs
<1>3. CASE AddTask
  BY <1>0, <1>3, StepFacts DEF AddTask, Types, Epochs
<1>4. CASE Sample
  BY <1>0, <1>4, StepFacts DEF Sample, Types, Epochs
<1>5. CASE SubmitSampled
  BY <1>0, <1>5, StepFacts DEF SubmitSampled, Types, Epochs
<1>6. CASE LogSample
  BY <1>0, <1>6, StepFacts DEF LogSample, Types, Epochs
<1>7. CASE Again("sampler")
  BY <1>0, <1>7, StepFacts DEF Again, Types, Epochs
<1>8. CASE BeginEpoch
  BY <1>0, <1>8, StepFacts DEF BeginEpoch, Types, Epochs
<1>9. CASE NextStep
  BY <1>0, <1>9, StepFacts, Counted DEF Epochs
<1>10. CASE EndEpoch
  BY <1>0, <1>10, StepFacts, Counted DEF Epochs
<1>11. CASE Drain
  BY <1>0, <1>11, StepFacts DEF Drain, Types, Epochs
<1>12. CASE BeginCopy
  BY <1>0, <1>12, StepFacts DEF BeginCopy, Types, Epochs
<1>13. CASE GetNoTask
  BY <1>0, <1>13, StepFacts DEF GetNoTask, Types, Epochs
<1>14. CASE GetTask
  BY <1>0, <1>14, StepFacts DEF GetTask, Types, Epochs
<1>15. CASE Copy
  BY <1>0, <1>15, StepFacts DEF Copy, Types, Epochs
<1>16. CASE Submit
  BY <1>0, <1>16, StepFacts DEF Submit, Types, Epochs
<1>17. CASE LogCopy
  BY <1>0, <1>17, StepFacts DEF LogCopy, Types, Epochs
<1>18. CASE Again("copier")
  BY <1>0, <1>18, StepFacts DEF Again, Types, Epochs
<1>19. CASE Start
  BY <1>0, <1>19, StepFacts DEF Start, Types, Epochs
<1>20. CASE SampleOnce
  BY <1>0, <1>20, StepFacts DEF SampleOnce, Types, Epochs
<1>21. CASE CopyOnce
  BY <1>0, <1>21, StepFacts DEF CopyOnce, Types, Epochs
<1>22. CASE OnceReturn
  BY <1>0, <1>22, StepFacts DEF OnceReturn, Types, Epochs
<1>23. CASE GetNextBatch
  BY <1>0, <1>23, StepFacts DEF GetNextBatch, Types, Epochs
<1>24. CASE Train
  <2> DEFINE o == outer_counter
             M == NumStep
             oM == o * M
  <2>1. /\ M \in Nat \ {0} /\ o \in Nat /\ step \in Nat /\ oM \in Nat
        /\ oM <= step /\ step < oM + M /\ o < num_epoch /\ (o + 1) * M = oM + M
    BY <1>0, <1>24, StepFacts, Multiples DEF Train, Types, Epochs
  <2>2. /\ step' = step + 1 /\ o' = o /\ M' = M /\ num_epoch' = num_epoch
        /\ script' = IF (step + 1) % M = 0 THEN "report" ELSE "step"
    BY <1>24, <1>0, StepFacts DEF Train
  <2>3. (step + 1) % M = 0 <=> step + 1 = oM + M
    BY <2>1, EpochEnds, Zenon
  <2> HIDE DEF oM
  <2>4. CASE step + 1 < oM + M
    BY <2>1, <2>2, <2>3, <2>4 DEF Epochs, oM
  <2>5. CASE step + 1 = oM + M
    BY <2>1, <2>2, <2>3, <2>5 DEF Epochs, oM
  <2> QED BY <2>1, <2>4, <2>5
<1>25. CASE EpochReport
  <2> DEFINE o == outer_counter
             M == NumStep
             oM == o * M
  <2>1. /\ M \in Nat \ {0} /\ o \in Nat /\ step \in Nat /\ oM \in Nat
        /\ step = oM + M /\ o < num_epoch /\ (o + 1) * M = oM + M /\ num_epoch \in Nat
    BY <1>0, <1>25, StepFacts, Multiples DEF EpochReport, Types, Epochs
  <2>2. /\ step' = step /\ o' = o + 1 /\ M' = M /\ num_epoch' = num_epoch /\ Total' = Total
        /\ script' = IF step = Total THEN "shutdown" ELSE "step"
    BY <1>25, <1>0, StepFacts DEF EpochReport, Total
  <2>3. o' * M' = step
    BY <2>1, <2>2
  <2>4. CASE o + 1 = num_epoch
    <3>1. step = Total
      BY <2>1, <2>4 DEF Total
    <3> QED BY <2>1, <2>2, <2>3, <2>4, <3>1 DEF Epochs
  <2>5. CASE o + 1 < num_epoch
    <3>1. (o + 1) * M + M <= Total
      BY <2>1, <2>5, Multiples DEF Total
    <3>2. step # Total
      BY <2>1, <3>1
    <3> QED BY <2>1, <2>2, <2>3, <2>5, <3>2 DEF Epochs
  <2> QED BY <2>1, <2>4, <2>5
<1>26. CASE Shutdown
  BY <1>0, <1>26, StepFacts DEF Shutdown, Types, Epochs
<1>27. CASE JoinAndFree
  BY <1>0, <1>27, StepFacts DEF JoinAndFree, Types, Epochs
<1>28. CASE Ended
  BY <1>0, <1>28, StepFacts DEF Ended, vars, Types, Epochs
<1> QED BY <1>1, <1>2, <1>3, <1>4, <1>5, <1>6, <1>7, <1>8, <1>9, <1>10, <1>11, <1>12, <1>13, <1>14,
    <1>15, <1>16, <1>17, <1>18, <1>19, <1>20, <1>21, <1>22, <1>23, <1>24, <1>25, <1>26, <1>27, <1>28
    DEF Next, SamplerStep, CopierStep, ScriptStep

LEMMA ShufflerStep == ASSUME IInv, Next PROVE ShufflerStands'
<1>0. /\ Types /\ Places /\ Joins /\ Epochs /\ ShufflerStands /\ Order /\ Logs /\ Remaps /\ Rooms
      /\ Barriers
  BY DEF IInv
<1> USE DEF Goto, ScriptGoto, scriptVars, samplerVars, copierVars, batchVars, barrierVars, endVars
<1>1. CASE BeginSample
  BY <1>0, <1>1, StepFacts DEF BeginSample, ShufflerStands
<1>2. CASE DoShuffle
  BY <1>0, <1>2, Drawn
<1>3. CASE AddTask
  BY <1>0, <1>3, StepFacts DEF AddTask, ShufflerStands
<1>4. CASE Sample
  BY <1>0, <1>4, StepFacts DEF Sample, ShufflerStands
<1>5. CASE SubmitSampled
  BY <1>0, <1>5, StepFacts DEF SubmitSampled, ShufflerStands
<1>6. CASE LogSample
  BY <1>0, <1>6, StepFacts DEF LogSample, ShufflerStands
<1>7. CASE Again("sampler")
  BY <1>0, <1>7, StepFacts DEF Again, ShufflerStands
<1>8. CASE BeginEpoch
  BY <1>0, <1>8, StepFacts DEF BeginEpoch, ShufflerStands
<1>9. CASE NextStep
  BY <1>0, <1>9, StepFacts, Counted DEF ShufflerStands
<1>10. CASE EndEpoch
  BY <1>0, <1>10, StepFacts, Counted DEF ShufflerStands
<1>11. CASE Drain
  BY <1>0, <1>11, StepFacts DEF Drain, ShufflerStands
<1>12. CASE BeginCopy
  BY <1>0, <1>12, StepFacts DEF BeginCopy, ShufflerStands
<1>13. CASE GetNoTask
  BY <1>0, <1>13, StepFacts DEF GetNoTask, ShufflerStands
<1>14. CASE GetTask
  BY <1>0, <1>14, StepFacts DEF GetTask, ShufflerStands
<1>15. CASE Copy
  BY <1>0, <1>15, StepFacts DEF Copy, ShufflerStands
<1>16. CASE Submit
  BY <1>0, <1>16, StepFacts DEF Submit, ShufflerStands
<1>17. CASE LogCopy
  BY <1>0, <1>17, StepFacts DEF LogCopy, ShufflerStands
<1>18. CASE Again("copier")
  BY <1>0, <1>18, StepFacts DEF Again, ShufflerStands
<1>19. CASE Start
  BY <1>0, <1>19, StepFacts DEF Start, ShufflerStands
<1>20. CASE SampleOnce
  BY <1>0, <1>20, StepFacts DEF SampleOnce, ShufflerStands
<1>21. CASE CopyOnce
  BY <1>0, <1>21, StepFacts DEF CopyOnce, ShufflerStands
<1>22. CASE OnceReturn
  BY <1>0, <1>22, StepFacts DEF OnceReturn, ShufflerStands
<1>23. CASE GetNextBatch
  BY <1>0, <1>23, StepFacts DEF GetNextBatch, ShufflerStands
<1>24. CASE Train
  BY <1>0, <1>24, StepFacts DEF Train, ShufflerStands
<1>25. CASE EpochReport
  BY <1>0, <1>25, StepFacts DEF EpochReport, ShufflerStands
<1>26. CASE Shutdown
  BY <1>0, <1>26, StepFacts DEF Shutdown, ShufflerStands
<1>27. CASE JoinAndFree
  BY <1>0, <1>27, StepFacts DEF JoinAndFree, ShufflerStands
<1>28. CASE Ended
  BY <1>0, <1>28, StepFacts DEF Ended, vars, ShufflerStands
<1> QED BY <1>1, <1>2, <1>3, <1>4, <1>5, <1>6, <1>7, <1>8, <1>9, <1>10, <1>11, <1>12, <1>13, <1>14,
    <1>15, <1>16, <1>17, <1>18, <1>19, <1>20, <1>21, <1>22, <1>23, <1>24, <1>25, <1>26, <1>27, <1>28
    DEF Next, SamplerStep, CopierStep, ScriptStep

LEMMA OrderStep == ASSUME IInv, Next PROVE Order'
<1>0. Types /\ Places /\ ShufflerStands /\ Epochs /\ Order /\ Logs /\ Remaps /\ Barriers
  BY DEF IInv
<1>r. /\ Given \in Nat /\ Fetched \in Nat /\ Submitted \in Nat /\ Taken \in Nat /\ Queued \in Nat
      /\ step <= Fetched /\ Fetched <= Submitted /\ Submitted <= Taken /\ Taken <= Queued
      /\ Submitted = Fetched + Len(graph_pool) /\ Queued = Taken + Len(queue)
      /\ Len(graph_pool) \in Nat /\ Len(queue) \in Nat
      /\ (Uncopied => Taken = Submitted + 1) /\ (~Uncopied => Taken = Submitted)
  BY <1>0, RowFacts
<1>1. CASE DoShuffle
  <2>1. /\ Given' = IF Unsent' THEN Queued' + 1 ELSE Queued'
        /\ sampling' = IF Sampling' THEN Given' - 1 ELSE NoTask
    BY <1>0, <1>r, <1>1, DoShuffleMoves DEF Order
  <2>2. /\ UNCHANGED <<Fetched, Taken, graph_batch, graph_pool, queue, copying>>
        /\ Copying' <=> Copying
    BY <1>0, <1>1, DoShuffleMoves DEF copierVars, batchVars
  <2>3. Sampling' => Given' >= 1
    BY <1>0, <1>r, <1>1, DoShuffleMoves
  <2> QED BY <1>0, <2>1, <2>2, <2>3 DEF Order
<1>2. CASE AddTask
  <2>1. /\ Given' = IF Unsent' THEN Queued' + 1 ELSE Queued'
        /\ sampling' = IF Sampling' THEN Given' - 1 ELSE NoTask
        /\ sampling = Taken + Len(queue)
    BY <1>0, <1>r, <1>2, AddTaskMoves DEF Order, samplerVars
  <2>2. /\ UNCHANGED <<Fetched, Taken, graph_batch, graph_pool, copying>>
        /\ Copying' <=> Copying
    BY <1>0, <1>2, AddTaskMoves DEF copierVars
  <2>3. Consecutive(queue', Taken')
    <3>1. queue' = Append(queue, Taken + Len(queue)) /\ queue \in Seq(Int)
      BY <1>0, <1>2, <2>1, AddTaskMoves DEF Types
    <3> QED BY <1>0, <1>r, <2>2, <3>1, ConsecutiveOps DEF Order
  <2>4. Sampling' => Given' >= 1
    BY <1>0, <1>2, AddTaskMoves DEF Order, samplerVars
  <2> QED BY <1>0, <2>1, <2>2, <2>3, <2>4 DEF Order
<1>3. CASE SubmitSampled
  <2>1. /\ Given' = IF Unsent' THEN Queued' + 1 ELSE Queued'
        /\ sampling' = IF Sampling' THEN Given' - 1 ELSE NoTask
        /\ sampling = Fetched + Len(graph_pool)
    BY <1>0, <1>r, <1>3, SubmitSampledMoves DEF Order, samplerVars
  <2>2. /\ UNCHANGED <<Fetched, graph_batch, copying>> /\ ~Copying' /\ ~Copying /\ queue' = << >>
    BY <1>0, <1>3, SubmitSampledMoves DEF copierVars
  <2>3. Consecutive(graph_pool', Fetched')
    <3>1. graph_pool' = Append(graph_pool, Fetched + Len(graph_pool)) /\ graph_pool \in Seq(Int)
      BY <1>0, <1>3, <2>1, SubmitSampledMoves DEF Types
    <3> QED BY <1>0, <1>r, <2>2, <3>1, ConsecutiveOps DEF Order
  <2>4. Consecutive(queue', Taken')
    BY <2>2, EmptySeq DEF Consecutive
  <2>5. Sampling' => Given' >= 1
    BY <1>0, <1>3, SubmitSampledMoves DEF Order, samplerVars
  <2> QED BY <1>0, <2>1, <2>2, <2>3, <2>4, <2>5 DEF Order
<1>4. CASE LogSample
  <2>1. UNCHANGED <<Given, Queued, Fetched, graph_batch, queue, graph_pool, Taken, copying>>
        /\ ~Sampling' /\ (Unsent' <=> Unsent) /\ (Copying' <=> Copying) /\ sampling' = NoTask
    BY <1>0, <1>4, LogMoves DEF batchVars, RowStays
  <2> QED BY <1>0, <2>1 DEF Order
<1>5. CASE GetTask
  <2>1. UNCHANGED <<Given, Queued, sampling, Fetched, graph_batch, graph_pool>>
        /\ (Sampling' <=> Sampling) /\ (Unsent' <=> Unsent) /\ Copying' /\ Taken' = Taken + 1
    BY <1>0, <1>5, GetTaskMoves DEF samplerVars
  <2>2. queue' = Tail(queue) /\ queue \in Seq(Int) /\ queue # << >> /\ copying' = Head(queue)
    BY <1>0, <1>5, GetTaskMoves DEF Types
  <2>3. copying' = Taken' - 1 /\ Consecutive(queue', Taken')
    <3>1. Head(queue) = Taken /\ Consecutive(Tail(queue), Taken + 1)
      BY <1>0, <1>r, <2>2, ConsecutiveOps DEF Order
    <3> QED BY <1>r, <2>1, <2>2, <3>1
  <2>4. Taken' >= 1
    BY <1>r, <2>1
  <2> QED BY <1>0, <2>1, <2>3, <2>4 DEF Order
<1>6. CASE Submit
  <2>1. UNCHANGED <<Given, Queued, sampling, Fetched, graph_batch, queue, Taken, copying>>
        /\ (Sampling' <=> Sampling) /\ (Unsent' <=> Unsent) /\ Copying /\ Copying'
    BY <1>0, <1>6, SubmitMoves DEF samplerVars, copierVars
  <2>2. graph_pool' = Append(graph_pool, copying) /\ graph_pool \in Seq(Int) /\ copying \in Int
    BY <1>0, <1>6, SubmitMoves DEF Types
  <2>3. copying = Fetched + Len(graph_pool)
    BY <1>0, <1>r, <1>6, SubmitMoves DEF Order
  <2>4. Consecutive(graph_pool', Fetched')
    BY <1>0, <1>r, <2>1, <2>2, <2>3, ConsecutiveOps DEF Order
  <2> QED BY <1>0, <2>1, <2>4 DEF Order
<1>7. CASE LogCopy
  <2>1. UNCHANGED <<Given, Queued, Fetched, graph_batch, queue, graph_pool, Taken, sampling>>
        /\ ~Copying' /\ (Unsent' <=> Unsent) /\ (Sampling' <=> Sampling) /\ copying' = NoTask
    BY <1>0, <1>7, LogMoves DEF batchVars, RowStays
  <2> QED BY <1>0, <2>1 DEF Order
<1>8. CASE Start
  <2>1. UNCHANGED <<Given, Queued, sampling, Fetched, graph_batch, queue, graph_pool, Taken,
                    copying>>
        /\ (Sampling' <=> Sampling) /\ (Unsent' <=> Unsent) /\ (Copying' <=> Copying)
    BY <1>0, <1>8, StartMoves DEF samplerVars, copierVars, batchVars, Held, RowStays
  <2> QED BY <1>0, <2>1 DEF Order
<1>9. CASE GetNextBatch
  <2>1. UNCHANGED <<Given, Queued, sampling, queue, Taken, copying>>
        /\ (Sampling' <=> Sampling) /\ (Unsent' <=> Unsent) /\ (Copying' <=> Copying)
        /\ Fetched' = Fetched + 1
    BY <1>0, <1>9, GetNextBatchMoves DEF samplerVars, copierVars, Held
  <2>2. /\ graph_pool' = Tail(graph_pool) /\ graph_pool \in Seq(Int) /\ graph_pool # << >>
        /\ graph_batch' = Head(graph_pool)
    BY <1>0, <1>9, GetNextBatchMoves DEF Types
  <2>3. graph_batch' = Fetched' - 1 /\ Consecutive(graph_pool', Fetched')
    <3>1. Head(graph_pool) = Fetched /\ Consecutive(Tail(graph_pool), Fetched + 1)
      BY <1>0, <1>r, <2>2, ConsecutiveOps DEF Order
    <3> QED BY <1>r, <2>1, <2>2, <3>1
  <2> QED BY <1>0, <2>1, <2>3 DEF Order
<1>10. CASE JoinAndFree
  <2>1. UNCHANGED <<Given, Queued, sampling, Fetched, graph_batch, queue, graph_pool, Taken,
                    copying>>
        /\ (Sampling' <=> Sampling) /\ (Unsent' <=> Unsent) /\ (Copying' <=> Copying)
    BY <1>0, <1>10, JoinAndFreeMoves DEF samplerVars, copierVars, batchVars, Held, RowStays
  <2> QED BY <1>0, <2>1 DEF Order
<1>11. CASE QuietStep
  <2>1. UNCHANGED <<Given, Queued, sampling, Fetched, graph_batch, queue, graph_pool, Taken,
                    copying>>
        /\ (Sampling' <=> Sampling) /\ (Unsent' <=> Unsent) /\ (Copying' <=> Copying)
    BY <1>0, <1>11, QuietMoves DEF samplerVars, copierVars, Held, RowStays
  <2> QED BY <1>0, <2>1 DEF Order
<1> QED BY <1>1, <1>2, <1>3, <1>4, <1>5, <1>6, <1>7, <1>8, <1>9, <1>10, <1>11
    DEF Next, SamplerStep, CopierStep, ScriptStep, QuietStep

LEMMA LogsStep == ASSUME IInv, Next PROVE Logs'
<1>0. Types /\ Places /\ ShufflerStands /\ Epochs /\ Order /\ Logs /\ Remaps /\ Barriers
  BY DEF IInv
<1>r. /\ Given \in Nat /\ Fetched \in Nat /\ Submitted \in Nat /\ Taken \in Nat /\ Queued \in Nat
      /\ step <= Fetched /\ Fetched <= Submitted /\ Submitted <= Taken /\ Taken <= Queued
      /\ Submitted = Fetched + Len(graph_pool) /\ Queued = Taken + Len(queue)
      /\ Len(graph_pool) \in Nat /\ Len(queue) \in Nat
      /\ (Uncopied => Taken = Submitted + 1) /\ (~Uncopied => Taken = Submitted)
  BY <1>0, RowFacts
<1>1. CASE DoShuffle
  <2>1. /\ UNCHANGED <<Taken, sample_log, copy_log, OneLoop>> /\ ~Sampling
        /\ (Copying' <=> Copying)
        /\ \/ Sampling' /\ Given' = Given + 1
           \/ ~Sampling' /\ Given' = Given
    BY <1>0, <1>1, StepFacts, DoShuffleMoves DEF copierVars
  <2>2. sample_log' = 0 .. (IF Sampling' THEN Given' - 2 ELSE Given' - 1)
    BY <1>0, <1>r, <2>1 DEF Logs
  <2> QED BY <1>0, <2>1, <2>2 DEF Logs
<1>2. CASE AddTask
  <2>1. /\ UNCHANGED <<Given, Taken, sample_log, copy_log, OneLoop>>
        /\ (Sampling' <=> Sampling) /\ (Copying' <=> Copying)
    BY <1>0, <1>2, StepFacts, AddTaskMoves DEF samplerVars, copierVars
  <2> QED BY <1>0, <2>1 DEF Logs
<1>3. CASE SubmitSampled
  <2>1. /\ UNCHANGED <<Given, sample_log, copy_log, OneLoop>> /\ OneLoop
        /\ (Sampling' <=> Sampling) /\ (Copying' <=> Copying)
    BY <1>0, <1>3, StepFacts, SubmitSampledMoves DEF samplerVars, copierVars
  <2> QED BY <1>0, <2>1 DEF Logs
<1>4. CASE LogSample
  <2>1. /\ UNCHANGED <<Given, Taken, OneLoop>> /\ Sampling /\ ~Sampling' /\ (Copying' <=> Copying)
        /\ sample_log' = sample_log \cup {sampling}
        /\ copy_log' = IF OneLoop THEN copy_log \cup {sampling} ELSE copy_log
    BY <1>0, <1>4, StepFacts, LogMoves DEF RowStays
  <2>2. sample_log = 0 .. Given - 2 /\ sampling = Given - 1 /\ sampling >= 0
    BY <1>0, <1>r, <2>1 DEF Logs, Order
  <2>3. sample_log' = 0 .. Given - 1
    BY <1>r, <2>1, <2>2
  <2> QED BY <1>0, <2>1, <2>3 DEF Logs
<1>5. CASE GetTask
  <2>1. /\ UNCHANGED <<Given, sample_log, copy_log, OneLoop>> /\ ~OneLoop
        /\ (Sampling' <=> Sampling) /\ ~Copying /\ Copying' /\ Taken' = Taken + 1
    BY <1>0, <1>5, StepFacts, GetTaskMoves DEF samplerVars
  <2>2. copy_log' = 0 .. (IF Copying' THEN Taken' - 2 ELSE Taken' - 1)
    BY <1>0, <1>r, <2>1 DEF Logs
  <2> QED BY <1>0, <2>1, <2>2 DEF Logs
<1>6. CASE Submit
  <2>1. /\ UNCHANGED <<Given, Taken, sample_log, copy_log, OneLoop>>
        /\ (Sampling' <=> Sampling) /\ (Copying' <=> Copying)
    BY <1>0, <1>6, StepFacts, SubmitMoves DEF samplerVars, copierVars
  <2> QED BY <1>0, <2>1 DEF Logs
<1>7. CASE LogCopy
  <2>1. /\ UNCHANGED <<Given, Taken, OneLoop, sample_log>> /\ Copying /\ ~Copying'
        /\ (Sampling' <=> Sampling) /\ ~OneLoop
        /\ copy_log' = copy_log \cup {copying}
    BY <1>0, <1>7, StepFacts, LogMoves DEF RowStays
  <2>2. copy_log = 0 .. Taken - 2 /\ copying = Taken - 1 /\ copying >= 0
    BY <1>0, <1>r, <2>1 DEF Logs, Order
  <2>3. copy_log' = 0 .. Taken - 1
    BY <1>r, <2>1, <2>2
  <2> QED BY <1>0, <2>1, <2>3 DEF Logs
<1>8. CASE Start
  <2>1. /\ UNCHANGED <<Given, Taken, sample_log, copy_log, OneLoop>>
        /\ (Sampling' <=> Sampling) /\ (Copying' <=> Copying)
    BY <1>0, <1>8, StepFacts, StartMoves DEF samplerVars, copierVars, Held, RowStays
  <2> QED BY <1>0, <2>1 DEF Logs
<1>9. CASE GetNextBatch
  <2>1. /\ UNCHANGED <<Given, Taken, sample_log, copy_log, OneLoop>>
        /\ (Sampling' <=> Sampling) /\ (Copying' <=> Copying)
    BY <1>0, <1>9, StepFacts, GetNextBatchMoves DEF samplerVars, copierVars, Held
  <2> QED BY <1>0, <2>1 DEF Logs
<1>10. CASE JoinAndFree
  <2>1. /\ UNCHANGED <<Given, Taken, sample_log, copy_log, OneLoop>>
        /\ (Sampling' <=> Sampling) /\ (Copying' <=> Copying)
    BY <1>0, <1>10, StepFacts, JoinAndFreeMoves DEF samplerVars, copierVars, Held, RowStays
  <2> QED BY <1>0, <2>1 DEF Logs
<1>11. CASE QuietStep
  <2>1. /\ UNCHANGED <<Given, Taken, sample_log, copy_log, OneLoop>>
        /\ (Sampling' <=> Sampling) /\ (Copying' <=> Copying)
    BY <1>0, <1>11, StepFacts, QuietMoves DEF samplerVars, copierVars, Held, RowStays
  <2> QED BY <1>0, <2>1 DEF Logs
<1> QED BY <1>1, <1>2, <1>3, <1>4, <1>5, <1>6, <1>7, <1>8, <1>9, <1>10, <1>11
    DEF Next, SamplerStep, CopierStep, ScriptStep, QuietStep

LEMMA Upto ==
    ASSUME NEW a \in Nat, NEW b \in Nat, a <= b
    PROVE  0 .. a - 1 \subseteq 0 .. b - 1
OBVIOUS

LEMMA RemapsStep == ASSUME IInv, Next PROVE Remaps'
<1>0. /\ Types /\ Places /\ Joins /\ Epochs /\ ShufflerStands /\ Order /\ Logs /\ Remaps /\ Rooms
      /\ Barriers
  BY DEF IInv
<1>r. /\ Given \in Nat /\ sampling = (IF Sampling THEN Given - 1 ELSE NoTask)
      /\ (Sampling => Given >= 1)
  BY <1>0, RowFacts DEF Order
<1> USE DEF Goto, ScriptGoto, scriptVars, samplerVars, copierVars, batchVars, barrierVars, endVars
<1>1. CASE BeginSample
  BY <1>0, <1>1, StepFacts DEF BeginSample, Types, Places, Remaps
<1>2. CASE DoShuffle
  <2>1. UNCHANGED <<remapped, queue, graph_pool, copying>> /\ Arch4' = Arch4 /\ Given' >= Given
        /\ pc'["copier"] = pc["copier"] /\ pc'["sampler"] \in {"add", "sample", "return"}
        /\ (~Arch4 => pc'["sampler"] # "add") /\ pc'["sampler"] # "submit"
        /\ Given \in Nat /\ Given' \in Nat
    BY <1>0, <1>2, StepFacts, DoShuffleMoves DEF copierVars, batchVars
  <2>2. 0 .. Given - 1 \subseteq 0 .. Given' - 1
    BY <2>1, Upto
  <2>3. remapped \subseteq 0 .. Given - 1
    BY <1>0 DEF Remaps
  <2>4. remapped' \subseteq 0 .. Given' - 1
    BY <2>1, <2>2, <2>3
  <2> QED BY <1>0, <2>1, <2>4 DEF Remaps
<1>3. CASE AddTask
  <2>1. UNCHANGED <<remapped, graph_pool, copying, sampling, Given>> /\ Arch4' = Arch4
        /\ pc'["copier"] = pc["copier"] /\ pc'["sampler"] \in {"sample", "log"}
        /\ pc["sampler"] = "add" /\ queue' = Append(queue, sampling)
        /\ queue \in Seq(Int) /\ sampling \in Int
    BY <1>0, <1>3, StepFacts, AddTaskMoves DEF copierVars, samplerVars, Types
  <2>2. ~Arch4 => \A n \in 1 .. Len(queue') : queue'[n] \in remapped
    BY <1>0, <2>1, QueueOps DEF Remaps
  <2> QED BY <1>0, <2>1, <2>2 DEF Remaps
<1>4. CASE Sample
  <2>1. /\ remapped' = remapped \cup {sampling} /\ Sampling
        /\ UNCHANGED <<queue, graph_pool, copying, sampling, Given>> /\ Arch4' = Arch4
        /\ pc'["copier"] = pc["copier"]
    BY <1>0, <1>4, StepFacts DEF Sample, Sampling, Types
  <2>2. sampling \in 0 .. Given - 1
    BY <1>0, <1>r, <2>1 DEF Order
  <2>3. remapped' \subseteq 0 .. Given - 1
    BY <1>0, <2>1, <2>2 DEF Remaps
  <2> QED BY <1>0, <2>1, <2>3 DEF Remaps
<1>5. CASE SubmitSampled
  <2>1. UNCHANGED <<remapped, queue, copying, sampling, Given>> /\ Arch4' = Arch4
        /\ pc'["copier"] = pc["copier"] /\ pc'["sampler"] = "log" /\ ~Arch4
        /\ pc["sampler"] = "submit" /\ graph_pool' = Append(graph_pool, sampling)
        /\ graph_pool \in Seq(Int) /\ sampling \in Int
    BY <1>0, <1>5, StepFacts, SubmitSampledMoves DEF copierVars, samplerVars, Types
  <2>2. \A n \in 1 .. Len(graph_pool') : graph_pool'[n] \in remapped
    BY <1>0, <2>1, QueueOps DEF Remaps
  <2> QED BY <1>0, <2>1, <2>2 DEF Remaps
<1>6. CASE LogSample
  BY <1>0, <1>6, StepFacts DEF LogSample, Types, Places, Remaps
<1>7. CASE Again("sampler")
  BY <1>0, <1>7, StepFacts DEF Again, Types, Places, Remaps
<1>8. CASE BeginEpoch
  BY <1>0, <1>8, StepFacts DEF BeginEpoch, Types, Places, Remaps
<1>9. CASE NextStep
  <2>1. UNCHANGED <<Given, remapped, queue, graph_pool, copying, sampling>> /\ Arch4' = Arch4
    BY <1>0, <1>9, StepFacts, Counted
  <2>2. pc'["copier"] = pc["copier"] /\ pc'["sampler"] \in {"begin", "epoch", "drain"}
    BY <1>0, <1>9, Counted
  <2> QED BY <1>0, <2>1, <2>2 DEF Remaps
<1>10. CASE EndEpoch
  <2>1. UNCHANGED <<Given, remapped, queue, graph_pool, copying, sampling>> /\ Arch4' = Arch4
    BY <1>0, <1>10, StepFacts, Counted
  <2>2. pc'["copier"] = pc["copier"] /\ pc'["sampler"] \in {"begin", "epoch", "drain"}
    BY <1>0, <1>10, Counted
  <2> QED BY <1>0, <2>1, <2>2 DEF Remaps
<1>11. CASE Drain
  BY <1>0, <1>11, StepFacts DEF Drain, Types, Places, Remaps
<1>12. CASE BeginCopy
  BY <1>0, <1>12, StepFacts DEF BeginCopy, Types, Places, Remaps
<1>13. CASE GetNoTask
  BY <1>0, <1>13, StepFacts DEF GetNoTask, Types, Places, Remaps
<1>14. CASE GetTask
  <2>1. UNCHANGED <<remapped, graph_pool, sampling, Given>> /\ Arch4' = Arch4
        /\ pc'["sampler"] = pc["sampler"] /\ pc'["copier"] = "copy"
        /\ queue # << >> /\ queue' = Tail(queue) /\ copying' = Head(queue)
        /\ queue \in Seq(Int)
    BY <1>0, <1>14, StepFacts, GetTaskMoves DEF samplerVars, Types
  <2>2. ~Arch4 => /\ \A n \in 1 .. Len(queue') : queue'[n] \in remapped
                 /\ copying' \in remapped
    BY <1>0, <2>1, QueueOps DEF Remaps
  <2> QED BY <1>0, <2>1, <2>2 DEF Remaps
<1>15. CASE Copy
  BY <1>0, <1>15, StepFacts DEF Copy, Types, Places, Remaps
<1>16. CASE Submit
  <2>1. UNCHANGED <<remapped, queue, copying, sampling, Given>> /\ Arch4' = Arch4
        /\ pc'["sampler"] = pc["sampler"] /\ pc'["copier"] = "log"
        /\ pc["copier"] = "submit" /\ graph_pool' = Append(graph_pool, copying)
        /\ graph_pool \in Seq(Int) /\ copying \in Int
    BY <1>0, <1>16, StepFacts, SubmitMoves DEF copierVars, samplerVars, Types
  <2>2. \A n \in 1 .. Len(graph_pool') : graph_pool'[n] \in remapped
    BY <1>0, <2>1, QueueOps DEF Remaps
  <2> QED BY <1>0, <2>1, <2>2 DEF Remaps
<1>17. CASE LogCopy
  BY <1>0, <1>17, StepFacts DEF LogCopy, Types, Places, Remaps
<1>18. CASE Again("copier")
  BY <1>0, <1>18, StepFacts DEF Again, Types, Places, Remaps
<1>19. CASE Start
  <2>1. UNCHANGED <<Given, remapped, queue, graph_pool, copying, sampling>> /\ Arch4' = Arch4
    BY <1>0, <1>19, StepFacts, StartMoves DEF samplerVars, copierVars, batchVars, RowStays
  <2>2. /\ pc'["sampler"] = pc["sampler"] \/ pc'["sampler"] \in {"epoch", "begin"}
        /\ pc'["copier"] = pc["copier"] \/ pc'["copier"] \in {"idle", "begin"}
    BY <1>0, <1>19, StartMoves
  <2> QED BY <1>0, <2>1, <2>2 DEF Remaps
<1>20. CASE SampleOnce
  BY <1>0, <1>20, StepFacts DEF SampleOnce, Types, Places, Remaps
<1>21. CASE CopyOnce
  BY <1>0, <1>21, StepFacts DEF CopyOnce, Types, Places, Remaps
<1>22. CASE OnceReturn
  BY <1>0, <1>22, StepFacts DEF OnceReturn, Types, Places, Remaps
<1>23. CASE GetNextBatch
  <2>1. UNCHANGED <<remapped, queue, sampling, copying, Given, pc>> /\ Arch4' = Arch4
        /\ graph_pool # << >> /\ graph_pool' = Tail(graph_pool) /\ graph_pool \in Seq(Int)
    BY <1>0, <1>23, StepFacts, GetNextBatchMoves DEF samplerVars, copierVars, Types
  <2>2. \A n \in 1 .. Len(graph_pool') : graph_pool'[n] \in remapped
    BY <1>0, <2>1, QueueOps DEF Remaps
  <2> QED BY <1>0, <2>1, <2>2 DEF Remaps
<1>24. CASE Train
  BY <1>0, <1>24, StepFacts DEF Train, Types, Places, Remaps
<1>25. CASE EpochReport
  BY <1>0, <1>25, StepFacts DEF EpochReport, Types, Places, Remaps
<1>26. CASE Shutdown
  BY <1>0, <1>26, StepFacts DEF Shutdown, Types, Places, Remaps
<1>27. CASE JoinAndFree
  <2>1. UNCHANGED <<Given, remapped, queue, graph_pool, copying, sampling, pc>> /\ Arch4' = Arch4
    BY <1>0, <1>27, StepFacts, JoinAndFreeMoves DEF samplerVars, copierVars, batchVars, RowStays
  <2> QED BY <1>0, <2>1 DEF Remaps
<1>28. CASE Ended
  BY <1>0, <1>28, StepFacts DEF Ended, vars, Types, Places, Remaps
<1> QED BY <1>1, <1>2, <1>3, <1>4, <1>5, <1>6, <1>7, <1>8, <1>9, <1>10, <1>11, <1>12, <1>13, <1>14,
    <1>15, <1>16, <1>17, <1>18, <1>19, <1>20, <1>21, <1>22, <1>23, <1>24, <1>25, <1>26, <1>27, <1>28
    DEF Next, SamplerStep, CopierStep, ScriptStep

LEMMA RoomsStep == ASSUME IInv, Next PROVE Rooms'
<1>0. /\ Types /\ Places /\ Joins /\ Epochs /\ ShufflerStands /\ Order /\ Logs /\ Remaps /\ Rooms
      /\ Barriers
  BY DEF IInv
<1>c. conf.max_sampling_jobs \in Nat \ {0} /\ conf.max_copying_jobs \in Nat \ {0}
  BY <1>0, ConfFacts DEF Types
<1> USE DEF Goto, ScriptGoto, scriptVars, samplerVars, copierVars, batchVars, barrierVars, endVars
<1>1. CASE BeginSample
  BY <1>0, <1>1, StepFacts, ConfFacts
     DEF BeginSample, Types, Places, Rooms, Unsent, Uncopied, QueueFull, PoolFull
<1>2. CASE DoShuffle
  <2>1. /\ UNCHANGED <<queue, graph_pool, conf, OneLoop>> /\ pc["sampler"] = "shuffle"
        /\ pc'["copier"] = pc["copier"] /\ (Uncopied' <=> Uncopied)
    BY <1>0, <1>2, StepFacts, DoShuffleMoves DEF batchVars
  <2> QED BY <1>0, <2>1 DEF Rooms
<1>3. CASE AddTask
  <2>1. /\ UNCHANGED <<graph_pool, conf, OneLoop>> /\ ~OneLoop /\ Unsent /\ ~Unsent'
        /\ pc'["sampler"] # "shuffle" /\ pc'["copier"] = pc["copier"] /\ (Uncopied' <=> Uncopied)
        /\ queue' = Append(queue, sampling) /\ queue \in Seq(Int) /\ sampling \in Int
    BY <1>0, <1>3, StepFacts, AddTaskMoves DEF Types
  <2>2. Len(queue') = Len(queue) + 1 /\ Len(queue) \in Nat
    BY <2>1, QueueOps
  <2>3. Len(queue') <= conf.max_sampling_jobs
    BY <1>0, <2>1, <2>2, <1>c DEF Rooms
  <2> QED BY <1>0, <2>1, <2>3 DEF Rooms
<1>4. CASE Sample
  BY <1>0, <1>4, StepFacts, ConfFacts
     DEF Sample, Types, Places, Rooms, Unsent, Uncopied, QueueFull, PoolFull
<1>5. CASE SubmitSampled
  <2>1. /\ UNCHANGED <<queue, conf, OneLoop>> /\ OneLoop /\ Unsent /\ ~Unsent'
        /\ pc'["sampler"] # "shuffle" /\ pc'["copier"] # "get" /\ ~Uncopied'
        /\ graph_pool' = Append(graph_pool, sampling) /\ graph_pool \in Seq(Int) /\ sampling \in Int
    BY <1>0, <1>5, StepFacts, SubmitSampledMoves DEF Types, Places
  <2>2. Len(graph_pool') = Len(graph_pool) + 1 /\ Len(graph_pool) \in Nat
    BY <2>1, QueueOps
  <2>3. Len(graph_pool') <= conf.max_copying_jobs
    BY <1>0, <2>1, <2>2, <1>c DEF Rooms
  <2> QED BY <1>0, <2>1, <2>3 DEF Rooms
<1>6. CASE LogSample
  BY <1>0, <1>6, StepFacts, ConfFacts
     DEF LogSample, Types, Places, Rooms, Unsent, Uncopied, QueueFull, PoolFull
<1>7. CASE Again("sampler")
  BY <1>0, <1>7, StepFacts, ConfFacts
     DEF Again, Types, Places, Rooms, Unsent, Uncopied, QueueFull, PoolFull
<1>8. CASE BeginEpoch
  BY <1>0, <1>8, StepFacts, ConfFacts
     DEF BeginEpoch, Types, Places, Rooms, Unsent, Uncopied, QueueFull, PoolFull
<1>9. CASE NextStep
  BY <1>0, <1>9, StepFacts, Counted DEF Rooms, Unsent, Uncopied
<1>10. CASE EndEpoch
  BY <1>0, <1>10, StepFacts, Counted DEF Rooms, Unsent, Uncopied
<1>11. CASE Drain
  BY <1>0, <1>11, StepFacts, ConfFacts
     DEF Drain, Types, Places, Rooms, Unsent, Uncopied, QueueFull, PoolFull
<1>12. CASE BeginCopy
  BY <1>0, <1>12, StepFacts, ConfFacts
     DEF BeginCopy, Types, Places, Rooms, Unsent, Uncopied, QueueFull, PoolFull
<1>13. CASE GetNoTask
  BY <1>0, <1>13, StepFacts, ConfFacts
     DEF GetNoTask, Types, Places, Rooms, Unsent, Uncopied, QueueFull, PoolFull
<1>14. CASE GetTask
  <2>1. /\ UNCHANGED <<graph_pool, conf, OneLoop>> /\ pc["copier"] = "get"
        /\ pc'["sampler"] = pc["sampler"] /\ (Unsent' <=> Unsent)
        /\ queue # << >> /\ queue' = Tail(queue) /\ queue \in Seq(Int)
    BY <1>0, <1>14, StepFacts, GetTaskMoves DEF Types
  <2>2. Len(queue') = Len(queue) - 1 /\ Len(queue) \in Nat
    BY <2>1, QueueOps
  <2>3. /\ Len(queue') <= conf.max_sampling_jobs
        /\ Len(queue) < conf.max_sampling_jobs => Len(queue') < conf.max_sampling_jobs
    BY <1>0, <2>1, <2>2, <1>c DEF Rooms
  <2> QED BY <1>0, <2>1, <2>3 DEF Rooms
<1>15. CASE Copy
  BY <1>0, <1>15, StepFacts, ConfFacts
     DEF Copy, Types, Places, Rooms, Unsent, Uncopied, QueueFull, PoolFull
<1>16. CASE Submit
  <2>1. /\ UNCHANGED <<queue, conf, OneLoop>> /\ ~OneLoop /\ Uncopied /\ ~Uncopied'
        /\ pc'["copier"] # "get" /\ pc'["sampler"] = pc["sampler"] /\ (Unsent' <=> Unsent)
        /\ graph_pool' = Append(graph_pool, copying) /\ graph_pool \in Seq(Int) /\ copying \in Int
    BY <1>0, <1>16, StepFacts, SubmitMoves DEF Types
  <2>2. Len(graph_pool') = Len(graph_pool) + 1 /\ Len(graph_pool) \in Nat
    BY <2>1, QueueOps
  <2>3. Len(graph_pool') <= conf.max_copying_jobs
    BY <1>0, <2>1, <2>2, <1>c DEF Rooms
  <2> QED BY <1>0, <2>1, <2>3 DEF Rooms
<1>17. CASE LogCopy
  BY <1>0, <1>17, StepFacts, ConfFacts
     DEF LogCopy, Types, Places, Rooms, Unsent, Uncopied, QueueFull, PoolFull
<1>18. CASE Again("copier")
  BY <1>0, <1>18, StepFacts, ConfFacts
     DEF Again, Types, Places, Rooms, Unsent, Uncopied, QueueFull, PoolFull
<1>19. CASE Start
  <2>1. /\ UNCHANGED <<queue, graph_pool, conf, OneLoop>>
        /\ (Unsent' <=> Unsent) /\ (Uncopied' <=> Uncopied)
        /\ pc'["sampler"] = pc["sampler"] \/ pc'["sampler"] \in {"epoch", "begin"}
        /\ pc'["copier"] = pc["copier"] \/ pc'["copier"] \in {"idle", "begin"}
    BY <1>0, <1>19, StepFacts, StartMoves DEF Held, batchVars
  <2> QED BY <1>0, <2>1 DEF Rooms
<1>20. CASE SampleOnce
  BY <1>0, <1>20, StepFacts, ConfFacts
     DEF SampleOnce, Types, Places, Rooms, Unsent, Uncopied, QueueFull, PoolFull
<1>21. CASE CopyOnce
  BY <1>0, <1>21, StepFacts, ConfFacts
     DEF CopyOnce, Types, Places, Rooms, Unsent, Uncopied, QueueFull, PoolFull
<1>22. CASE OnceReturn
  BY <1>0, <1>22, StepFacts, ConfFacts
     DEF OnceReturn, Types, Places, Rooms, Unsent, Uncopied, QueueFull, PoolFull
<1>23. CASE GetNextBatch
  <2>1. /\ UNCHANGED <<queue, conf, OneLoop, pc>> /\ (Unsent' <=> Unsent)
        /\ (Uncopied' <=> Uncopied)
        /\ graph_pool # << >> /\ graph_pool' = Tail(graph_pool) /\ graph_pool \in Seq(Int)
    BY <1>0, <1>23, StepFacts, GetNextBatchMoves DEF Types, Held
  <2>2. Len(graph_pool') = Len(graph_pool) - 1 /\ Len(graph_pool) \in Nat
    BY <2>1, QueueOps
  <2>3. /\ Len(graph_pool') <= conf.max_copying_jobs
        /\ Len(graph_pool) < conf.max_copying_jobs => Len(graph_pool') < conf.max_copying_jobs
    BY <1>0, <2>1, <2>2, <1>c DEF Rooms
  <2> QED BY <1>0, <2>1, <2>3 DEF Rooms
<1>24. CASE Train
  BY <1>0, <1>24, StepFacts, ConfFacts
     DEF Train, Types, Places, Rooms, Unsent, Uncopied, QueueFull, PoolFull
<1>25. CASE EpochReport
  BY <1>0, <1>25, StepFacts, ConfFacts
     DEF EpochReport, Types, Places, Rooms, Unsent, Uncopied, QueueFull, PoolFull
<1>26. CASE Shutdown
  BY <1>0, <1>26, StepFacts, ConfFacts
     DEF Shutdown, Types, Places, Rooms, Unsent, Uncopied, QueueFull, PoolFull
<1>27. CASE JoinAndFree
  <2>1. /\ UNCHANGED <<queue, graph_pool, conf, OneLoop, pc>>
        /\ (Unsent' <=> Unsent) /\ (Uncopied' <=> Uncopied)
    BY <1>0, <1>27, StepFacts, JoinAndFreeMoves DEF Held, batchVars
  <2> QED BY <1>0, <2>1 DEF Rooms
<1>28. CASE Ended
  BY <1>0, <1>28, StepFacts, ConfFacts
     DEF Ended, vars, Types, Places, Rooms, Unsent, Uncopied, QueueFull, PoolFull
<1> QED BY <1>1, <1>2, <1>3, <1>4, <1>5, <1>6, <1>7, <1>8, <1>9, <1>10, <1>11, <1>12, <1>13, <1>14,
    <1>15, <1>16, <1>17, <1>18, <1>19, <1>20, <1>21, <1>22, <1>23, <1>24, <1>25, <1>26, <1>27, <1>28
    DEF Next, SamplerStep, CopierStep, ScriptStep

LEMMA BarriersStep == ASSUME IInv, Next PROVE Barriers'
<1>0. /\ Types /\ Places /\ Joins /\ Epochs /\ ShufflerStands /\ Order /\ Logs /\ Remaps /\ Rooms
      /\ Barriers
  BY DEF IInv
<1> USE DEF Goto, ScriptGoto, scriptVars, samplerVars, copierVars, batchVars, barrierVars, endVars
<1>1. CASE BeginSample
  BY <1>0, <1>1, StepFacts DEF BeginSample, Types, Places, Barriers, Barriered
<1>2. CASE DoShuffle
  <2> DEFINE X == loop.epoch * NumStep
  <2>1. /\ UNCHANGED <<loop, inner_counter, outer_counter, NumStep, num_epoch, conf, Arch4, Total>>
        /\ pc["sampler"] = "shuffle"
        /\ \/ Given' = Given + 1 /\ pc'["sampler"] = IF Arch4 THEN "add" ELSE "sample"
           \/ Given' = Given /\ Given = Total
    BY <1>0, <1>2, StepFacts, DoShuffleMoves DEF barrierVars
  <2>2. loop.epoch \in Nat /\ loop.step \in Nat /\ NumStep \in Nat \ {0} /\ num_epoch \in Nat
        /\ loop.step < NumStep
    BY <1>0, StepFacts DEF Types, Barriers
  <2>3. ASSUME conf.pipeline, Arch4
        PROVE  /\ Given = X + loop.step /\ loop.epoch < num_epoch
               /\ Barriered(loop.epoch) => outer_counter >= loop.epoch
    BY <1>0, <2>1, <2>3 DEF Barriers
  <2>4. X \in Nat /\ (loop.epoch < num_epoch => X + NumStep <= Total)
    BY <2>2, Multiples DEF Total
  <2> HIDE DEF X
  <2>5. conf.pipeline /\ Arch4 => Given < Total /\ Given' = Given + 1
    BY <2>1, <2>2, <2>3, <2>4, StepFacts, <1>0
  <2>6. conf.pipeline /\ Arch4 => pc'["sampler"] = "add" /\ Given' = X + loop.step + 1
    BY <2>1, <2>2, <2>3, <2>4, <2>5, StepFacts, <1>0
  <2> QED BY <1>0, <2>1, <2>3, <2>6 DEF Barriers, Barriered, X
<1>3. CASE AddTask
  <2>1. /\ UNCHANGED <<loop, inner_counter, outer_counter, NumStep, num_epoch, conf, Arch4, Given>>
        /\ pc["sampler"] = "add" /\ pc'["sampler"] \in {"sample", "log"}
    BY <1>0, <1>3, StepFacts, AddTaskMoves DEF barrierVars
  <2> QED BY <1>0, <2>1 DEF Barriers, Barriered
<1>4. CASE Sample
  BY <1>0, <1>4, StepFacts DEF Sample, Types, Places, Barriers, Barriered
<1>5. CASE SubmitSampled
  <2>1. /\ UNCHANGED <<loop, inner_counter, outer_counter, NumStep, num_epoch, conf, Arch4, Given>>
        /\ ~Arch4
    BY <1>0, <1>5, StepFacts, SubmitSampledMoves DEF barrierVars
  <2> QED BY <1>0, <2>1 DEF Barriers, Barriered
<1>6. CASE LogSample
  BY <1>0, <1>6, StepFacts DEF LogSample, Types, Places, Barriers, Barriered
<1>7. CASE Again("sampler")
  <2>1. /\ UNCHANGED <<loop, inner_counter, outer_counter, NumStep, num_epoch, conf, Arch4, Given>>
        /\ ~Arch4
    BY <1>0, <1>7, StepFacts DEF Again, Counts
  <2> QED BY <1>0, <2>1 DEF Barriers, Barriered
<1>8. CASE BeginEpoch
  <2>1. /\ UNCHANGED <<loop, inner_counter, outer_counter, NumStep, num_epoch, conf, Arch4, Given>>
        /\ pc["sampler"] = "epoch" /\ pc'["sampler"] = "begin"
        /\ Barriered(loop.epoch) => inner_counter <= outer_counter
        /\ inner_counter \in Nat /\ outer_counter \in Nat
    BY <1>0, <1>8, StepFacts DEF BeginEpoch, Types
  <2> QED BY <1>0, <2>1 DEF Barriers, Barriered
<1>9. CASE NextStep
  <2> DEFINE M == NumStep
             eM == loop.epoch * M
  <2>1. /\ pc["sampler"] = "return" /\ pc'["sampler"] = "begin" /\ loop.step + 1 < M
        /\ loop'.epoch = loop.epoch /\ loop'.step = loop.step + 1
        /\ UNCHANGED <<inner_counter, outer_counter, Given, conf, NumStep, num_epoch, Arch4>>
        /\ loop.epoch \in Nat /\ loop.step \in Nat /\ M \in Nat
    BY <1>0, <1>9, StepFacts, Counted DEF Types, NextStep
  <2>2. loop'.epoch * NumStep' = eM /\ eM \in Nat
    BY <2>1
  <2> HIDE DEF eM, M
  <2>3. loop'.step < NumStep' /\ inner_counter' = loop'.epoch /\ loop'.epoch <= num_epoch'
    BY <1>0, <2>1 DEF Barriers, M
  <2>4. ASSUME conf.pipeline, Arch4 PROVE Given' = loop'.epoch * NumStep' + loop'.step
    <3>1. Given = eM + loop.step + 1
      BY <1>0, <2>1, <2>4 DEF Barriers, eM, M
    <3> QED BY <2>1, <2>2, <3>1
  <2>5. ASSUME conf.pipeline, Arch4 PROVE loop'.epoch < num_epoch'
    BY <1>0, <2>1, <2>5 DEF Barriers
  <2>6. ASSUME conf.pipeline, Arch4, Barriered(loop.epoch) PROVE outer_counter' >= loop'.epoch
    BY <1>0, <2>1, <2>6 DEF Barriers
  <2>7. Barriered(loop.epoch)' <=> Barriered(loop.epoch)
    BY <2>1 DEF Barriered
  <2> QED BY <2>1, <2>3, <2>4, <2>5, <2>6, <2>7 DEF Barriers
<1>10. CASE EndEpoch
  <2> DEFINE M == NumStep
             eM == loop.epoch * M
  <2>1. /\ pc["sampler"] = "return" /\ loop.step + 1 = M
        /\ pc'["sampler"] = IF loop.epoch + 1 < num_epoch THEN "epoch" ELSE "drain"
        /\ loop'.epoch = loop.epoch + 1 /\ loop'.step = 0
        /\ inner_counter' = inner_counter + 1
        /\ UNCHANGED <<outer_counter, Given, conf, NumStep, num_epoch, Arch4>>
        /\ M \in Nat \ {0} /\ num_epoch \in Nat /\ conf.pipeline /\ Arch4
    BY <1>0, <1>10, StepFacts, Counted DEF EndEpoch
  <2>7. loop.epoch \in Nat /\ loop.step \in Nat
    BY <1>0 DEF Types
  <2>2. loop'.epoch * NumStep' = eM + M /\ eM \in Nat
    BY <2>7, <2>1, Multiples
  <2> HIDE DEF eM, M
  <2>3. Given = eM + loop.step + 1 /\ loop.epoch < num_epoch /\ inner_counter = loop.epoch
    BY <1>0, <2>1 DEF Barriers, eM, M
  <2>4. Given' = loop'.epoch * NumStep' + loop'.step
    BY <2>7, <2>1, <2>2, <2>3
  <2>5. loop'.step < NumStep' /\ inner_counter' = loop'.epoch /\ loop'.epoch <= num_epoch'
    BY <2>7, <2>1, <2>3 DEF M
  <2>6. /\ pc'["sampler"] \in {"epoch", "drain"}
        /\ (pc'["sampler"] # "drain" => loop'.epoch < num_epoch')
    BY <2>1
  <2> QED BY <2>1, <2>4, <2>5, <2>6 DEF Barriers
<1>11. CASE Drain
  BY <1>0, <1>11, StepFacts DEF Drain, Types, Places, Barriers, Barriered
<1>12. CASE BeginCopy
  BY <1>0, <1>12, StepFacts DEF BeginCopy, Types, Places, Barriers, Barriered
<1>13. CASE GetNoTask
  BY <1>0, <1>13, StepFacts DEF GetNoTask, Types, Places, Barriers, Barriered
<1>14. CASE GetTask
  <2>1. /\ UNCHANGED <<loop, inner_counter, outer_counter, NumStep, num_epoch, conf, Arch4, Given>>
        /\ pc'["sampler"] = pc["sampler"]
    BY <1>0, <1>14, StepFacts, GetTaskMoves DEF barrierVars
  <2> QED BY <1>0, <2>1 DEF Barriers, Barriered
<1>15. CASE Copy
  BY <1>0, <1>15, StepFacts DEF Copy, Types, Places, Barriers, Barriered
<1>16. CASE Submit
  BY <1>0, <1>16, StepFacts DEF Submit, Types, Places, Barriers, Barriered
<1>17. CASE LogCopy
  BY <1>0, <1>17, StepFacts DEF LogCopy, Types, Places, Barriers, Barriered
<1>18. CASE Again("copier")
  <2>1. /\ UNCHANGED <<loop, inner_counter, outer_counter, NumStep, num_epoch, conf, Arch4, Given>>
        /\ pc'["sampler"] = pc["sampler"]
    BY <1>0, <1>18, StepFacts DEF Again, Types
  <2> QED BY <1>0, <2>1 DEF Barriers, Barriered
<1>19. CASE Start
  <2>1. /\ UNCHANGED <<loop, inner_counter, outer_counter, NumStep, num_epoch, conf, Arch4, Given>>
        /\ \/ pc'["sampler"] = pc["sampler"]
           \/ pc["sampler"] = "idle" /\ pc'["sampler"] = IF Arch4 THEN "epoch" ELSE "begin"
    BY <1>0, <1>19, StepFacts, StartMoves DEF barrierVars, RowStays
  <2> QED BY <1>0, <2>1 DEF Barriers, Barriered
<1>20. CASE SampleOnce
  BY <1>0, <1>20, StepFacts DEF SampleOnce, Types, Places, Barriers, Barriered
<1>21. CASE CopyOnce
  BY <1>0, <1>21, StepFacts DEF CopyOnce, Types, Places, Barriers, Barriered
<1>22. CASE OnceReturn
  BY <1>0, <1>22, StepFacts DEF OnceReturn, Types, Places, Barriers, Barriered
<1>23. CASE GetNextBatch
  <2>1. UNCHANGED <<loop, inner_counter, outer_counter, NumStep, num_epoch, conf, Arch4, Given, pc>>
    BY <1>0, <1>23, StepFacts, GetNextBatchMoves DEF barrierVars
  <2> QED BY <1>0, <2>1 DEF Barriers, Barriered
<1>24. CASE Train
  BY <1>0, <1>24, StepFacts DEF Train, Types, Places, Barriers, Barriered
<1>25. CASE EpochReport
  <2>1. /\ UNCHANGED <<loop, inner_counter, NumStep, num_epoch, conf, Arch4, Given, pc>>
        /\ outer_counter' = outer_counter + 1 /\ outer_counter \in Nat /\ loop.epoch \in Nat
    BY <1>0, <1>25, StepFacts DEF EpochReport, Types
  <2> QED BY <1>0, <2>1 DEF Barriers, Barriered
<1>26. CASE Shutdown
  BY <1>0, <1>26, StepFacts DEF Shutdown, Types, Places, Barriers, Barriered
<1>27. CASE JoinAndFree
  BY <1>0, <1>27, StepFacts DEF JoinAndFree, Types, Places, Barriers, Barriered
<1>28. CASE Ended
  BY <1>0, <1>28, StepFacts DEF Ended, vars, Types, Places, Barriers, Barriered
<1> QED BY <1>1, <1>2, <1>3, <1>4, <1>5, <1>6, <1>7, <1>8, <1>9, <1>10, <1>11, <1>12, <1>13, <1>14,
    <1>15, <1>16, <1>17, <1>18, <1>19, <1>20, <1>21, <1>22, <1>23, <1>24, <1>25, <1>26, <1>27, <1>28
    DEF Next, SamplerStep, CopierStep, ScriptStep

------------------------------------------------------------------------------
(* The invariant.                                                          *)
LEMMA InitIInv == Init => IInv
<1> SUFFICES ASSUME Init PROVE IInv
  OBVIOUS
<1>1. /\ NumStep \in Nat \ {0} /\ num_epoch \in Nat \ {0} /\ ShufflerSteps(0) = NumStep
      /\ conf.max_sampling_jobs \in Nat \ {0} /\ conf.max_copying_jobs \in Nat \ {0}
      /\ conf.pipeline \in BOOLEAN
  BY Steps, ConfFacts DEF Init
<1>2. /\ conf \in Configurations /\ script = "step" /\ step = 0
      /\ pc = [t \in {"sampler", "copier"} |-> "idle"]
      /\ loop = [epoch |-> 0, step |-> 0]
      /\ shuffler = [epoch |-> 0, step |-> NumStep, initialized |-> FALSE]
      /\ sampling = -1 /\ copying = -1 /\ remapped = {}
      /\ queue = << >> /\ graph_pool = << >> /\ graph_batch = -1
      /\ inner_counter = 0 /\ outer_counter = 0
      /\ sample_log = {} /\ copy_log = {}
      /\ should_shutdown = FALSE /\ joined = 0
  BY <1>1 DEF Init, NewShuffler, NoTask
<1>3. Len(queue) = 0 /\ Len(graph_pool) = 0
  BY <1>2
<1>4. ~Sampling /\ ~Copying /\ ~Unsent /\ ~Uncopied
  BY <1>2 DEF Sampling, Copying, Unsent, Uncopied
<1>5. Given = 0 /\ Fetched = 0 /\ Taken = 0 /\ Queued = 0
  BY <1>2, <1>3, <1>4 DEF Given, Fetched, Submitted, Taken, Queued
<1>6. Types
  <2>1. pc \in [{"sampler", "copier"} -> SamplerStates \cup CopierStates]
        /\ pc["sampler"] = "idle" /\ pc["copier"] = "idle"
    BY <1>2 DEF SamplerStates, CopierStates
  <2>2. queue \in Seq(Int) /\ graph_pool \in Seq(Int)
    BY <1>2, EmptySeq
  <2>3. /\ shuffler \in [epoch : Nat, step : Nat, initialized : BOOLEAN]
        /\ loop \in [epoch : Nat, step : Nat]
    BY <1>1, <1>2
  <2>4. script \in ScriptStates /\ pc["sampler"] \in SamplerStates /\ pc["copier"] \in CopierStates
    BY <1>2, <2>1 DEF SamplerStates, CopierStates, ScriptStates
  <2>5. /\ conf \in Configurations /\ step \in Nat /\ sampling \in Int /\ copying \in Int
        /\ inner_counter \in Nat /\ outer_counter \in Nat /\ should_shutdown \in BOOLEAN
    <3>1. -1 \in Int /\ 0 \in Nat
      OBVIOUS
    <3> QED BY <3>1, Zenon DEF Init, NoTask
  <2> QED BY <2>1, <2>2, <2>3, <2>4, <2>5 DEF Types
<1>7. Places /\ Joins
  BY <1>2 DEF Places, Joins
<1>8. Epochs
  BY <1>1, <1>2 DEF Epochs
<1>9. ShufflerStands
  BY <1>1, <1>2 DEF ShufflerStands
<1>10. Order
  BY <1>2, <1>3, <1>4, <1>5 DEF Order, Consecutive, NoTask
<1>11. Logs
  <2>1. 0 .. 0 - 1 = {}
    OBVIOUS
  <2> QED BY <1>2, <1>4, <1>5, <2>1 DEF Logs
<1>12. Remaps
  BY <1>2, <1>3 DEF Remaps
<1>13. Rooms
  BY <1>1, <1>2, <1>3, <1>4 DEF Rooms
<1>14. Barriers
  BY <1>1, <1>2, <1>5 DEF Barriers
<1> QED BY <1>6, <1>7, <1>8, <1>9, <1>10, <1>11, <1>12, <1>13, <1>14 DEF IInv

LEMMA NextIInv == IInv /\ [Next]_vars => IInv'
<1> SUFFICES ASSUME IInv, [Next]_vars PROVE IInv'
  OBVIOUS
<1>1. CASE Next
  BY <1>1, TypesStep, PlacesStep, JoinsStep, EpochsStep, ShufflerStep, OrderStep, LogsStep,
     RemapsStep, RoomsStep, BarriersStep DEF IInv
<1>2. CASE UNCHANGED vars
  <2>1. Ended \/ script # "done"
    BY <1>2 DEF Ended
  <2>2. /\ UNCHANGED <<conf, pc, script, step, graph_batch, shuffler, sampling, sample_log,
                       copying, copy_log, remapped, queue, graph_pool, loop, inner_counter,
                       outer_counter, should_shutdown, joined>>
    BY <1>2 DEF vars, scriptVars, samplerVars, copierVars, batchVars, barrierVars, endVars
  <2>3. /\ NumStep' = NumStep /\ num_epoch' = num_epoch /\ Total' = Total
        /\ Arch4' = Arch4 /\ OneLoop' = OneLoop /\ Given' = Given
    BY <2>2, ConfKept
  <2>4. /\ (Sampling' <=> Sampling) /\ (Copying' <=> Copying)
        /\ (Unsent' <=> Unsent) /\ (Uncopied' <=> Uncopied)
    BY <2>2, <2>3 DEF Sampling, Copying, Unsent, Uncopied
  <2>5. UNCHANGED <<Fetched, Taken, Queued>>
    BY <2>2, <2>4 DEF Fetched, Submitted, Taken, Queued
  <2>6. Types' /\ Places' /\ Joins'
    BY <2>2, <2>3 DEF IInv, Types, Places, Joins
  <2>7. Epochs' /\ ShufflerStands'
    BY <2>2, <2>3 DEF IInv, Epochs, ShufflerStands
  <2>8. Order' /\ Logs'
    BY <2>2, <2>3, <2>4, <2>5 DEF IInv, Order, Logs
  <2>9. Remaps' /\ Rooms'
    BY <2>2, <2>3, <2>4 DEF IInv, Remaps, Rooms
  <2>10. Barriers'
    BY <2>2, <2>3 DEF IInv, Barriers, Barriered
  <2> QED BY <2>6, <2>7, <2>8, <2>9, <2>10 DEF IInv
<1> QED BY <1>1, <1>2

LEMMA Invariance == Spec => []IInv
<1> QED BY InitIInv, NextIInv, PTL DEF Spec

------------------------------------------------------------------------------
(* What the invariant says.                                                *)
(* Where the stretches of the row lie.                                     *)
LEMMA RowStands ==
    ASSUME IInv
    PROVE  /\ step \in Nat /\ step <= Fetched /\ Fetched <= Submitted /\ Submitted <= Taken
           /\ Taken <= Queued /\ Queued <= Given /\ Given <= Total
           /\ Fetched \in Nat /\ Submitted \in Nat /\ Taken \in Nat /\ Queued \in Nat
           /\ Given \in Nat /\ Total \in Nat
<1>1. Types /\ ShufflerStands /\ Order
  BY DEF IInv
<1>2. step \in Nat
  BY <1>1 DEF Types
<1>3. Given = IF Unsent THEN Queued + 1 ELSE Queued
  BY <1>1 DEF Order
<1>4. /\ Given \in Nat /\ Total \in Nat /\ Given <= Total
  BY <1>1, GivenFacts
<1>5. /\ Fetched \in Nat /\ Submitted \in Nat /\ Taken \in Nat /\ Queued \in Nat
      /\ step <= Fetched /\ Fetched <= Submitted /\ Submitted <= Taken /\ Taken <= Queued
  BY <1>1, RowFacts
<1>6. Queued <= Given
  BY <1>3, <1>5
<1> QED BY <1>2, <1>4, <1>5, <1>6

(* A row below T is a sequence of keys below T.                            *)
LEMMA SeqOfKeys ==
    ASSUME NEW s \in Seq(Int), NEW a \in Nat, NEW T \in Nat, Consecutive(s, a), a + Len(s) <= T
    PROVE  s \in Seq(0 .. T - 1)
<1>1. Len(s) \in Nat /\ s \in [1 .. Len(s) -> Int]
  OBVIOUS
<1>2. \A n \in 1 .. Len(s) : s[n] \in 0 .. T - 1
  BY <1>1 DEF Consecutive
<1> DEFINE K == 0 .. T - 1
<1> HIDE DEF K
<1>3. s \in [1 .. Len(s) -> K]
  BY <1>1, <1>2 DEF K
<1>4. s \in UNION {[1 .. n -> K] : n \in Nat}
  BY <1>1, <1>3
<1>5. s \in Seq(K)
  BY <1>4, SeqDef, Zenon
<1> QED BY <1>5 DEF K

LEMMA KeyIsTotal == Key = 0 .. Total - 1
BY DEF Key, Total

LEMMA TypesHold == IInv => TypeOK
<1> SUFFICES ASSUME IInv PROVE TypeOK
  OBVIOUS
<1> DEFINE K == 0 .. Total - 1
<1>1. /\ Types /\ Places /\ Joins /\ Epochs /\ Order /\ Logs /\ Remaps /\ Barriers
  BY DEF IInv
<1>2. /\ NumStep \in Nat \ {0} /\ num_epoch \in Nat \ {0} /\ conf.pipeline \in BOOLEAN
  BY <1>1, Steps, ConfFacts DEF Types
<1>3. queue \in Seq(K) /\ graph_pool \in Seq(K)
  <2>1. /\ queue \in Seq(Int) /\ Consecutive(queue, Taken)
        /\ graph_pool \in Seq(Int) /\ Consecutive(graph_pool, Fetched)
    BY <1>1 DEF Order, Types
  <2>2. Taken + Len(queue) = Queued /\ Fetched + Len(graph_pool) = Submitted
    BY DEF Queued, Submitted
  <2>3. Taken + Len(queue) <= Total /\ Fetched + Len(graph_pool) <= Total
    BY <2>2, RowStands
  <2> QED BY <2>1, <2>3, RowStands, SeqOfKeys
<1>4. /\ graph_batch \in K \cup {NoTask}
      /\ sampling \in K \cup {NoTask}
      /\ copying \in K \cup {NoTask}
  BY <1>1, RowStands DEF Order, NoTask
<1>5. remapped \subseteq K /\ sample_log \subseteq K /\ copy_log \subseteq K
  BY <1>1, RowStands DEF Remaps, Logs
<1>6. step \in 0 .. Total
  BY <1>1, RowStands DEF Types
<1>7. /\ loop \in [epoch : 0 .. num_epoch, step : 0 .. NumStep - 1]
      /\ inner_counter \in 0 .. num_epoch
  BY <1>1, <1>2 DEF Types, Barriers
<1>8. outer_counter \in 0 .. num_epoch
  BY <1>1, <1>2 DEF Types, Epochs, ScriptStates
<1>9. joined \in 0 .. NumThreads
  BY <1>1, <1>2 DEF Joins, Places, NumThreads
<1> HIDE DEF K
<1>10. Key = K /\ 0 .. num_epoch * NumStep = 0 .. Total
  BY KeyIsTotal DEF K, Total
<1> QED BY <1>1, <1>3, <1>4, <1>5, <1>6, <1>7, <1>8, <1>9, <1>10
    DEF TypeOK, Types, SamplerStates, CopierStates, ScriptStates

(* Rows that meet are one row.                                             *)
LEMMA RowsMeet ==
    ASSUME NEW s \in Seq(Int), NEW t \in Seq(Int), NEW a \in Nat,
           Consecutive(s, a), Consecutive(t, a + Len(s))
    PROVE  /\ Consecutive(s \o t, a) /\ s \o t \in Seq(Int) /\ Len(s \o t) = Len(s) + Len(t)
           /\ Len(s) \in Nat /\ Len(t) \in Nat
<1>1. /\ s \o t \in Seq(Int) /\ Len(s \o t) = Len(s) + Len(t)
      /\ Len(s) \in Nat /\ Len(t) \in Nat
  OBVIOUS
<1>2. ASSUME NEW n \in 1 .. Len(s) + Len(t)
      PROVE  (s \o t)[n] = a + n - 1
  <2>1. (s \o t)[n] = IF n <= Len(s) THEN s[n] ELSE t[n - Len(s)]
    BY ConcatProperties
  <2>2. CASE n <= Len(s)
    BY <1>1, <2>1, <2>2 DEF Consecutive
  <2>3. CASE ~(n <= Len(s))
    <3>1. n - Len(s) \in 1 .. Len(t)
      BY <1>1, <2>3
    <3>2. t[n - Len(s)] = a + Len(s) + (n - Len(s)) - 1
      BY <3>1 DEF Consecutive
    <3> QED BY <1>1, <2>1, <2>3, <3>2
  <2> QED BY <2>2, <2>3
<1> QED BY <1>1, <1>2 DEF Consecutive

(* A mini-batch alone, if it is there.                                     *)
LEMMA OneOrNone ==
    ASSUME NEW c \in BOOLEAN, NEW k, NEW a \in Nat, c => k = a
    PROVE  LET s == IF c THEN <<k>> ELSE << >>
           IN  s \in Seq(Int) /\ Consecutive(s, a) /\ Len(s) = IF c THEN 1 ELSE 0
<1>1. CASE c
  BY <1>1 DEF Consecutive
<1>2. CASE ~c
  BY <1>2 DEF Consecutive
<1> QED BY <1>1, <1>2

LEMMA RowHolds == IInv => InOrder
<1> SUFFICES ASSUME IInv PROVE InOrder
  OBVIOUS
<1> DEFINE A == IF script = "train" THEN <<graph_batch>> ELSE << >>
           B == IF Uncopied THEN <<copying>> ELSE << >>
           C == IF Unsent THEN <<sampling>> ELSE << >>
<1>1. /\ Types /\ Order
  BY DEF IInv
<1>2. InFlight = A \o graph_pool \o B \o queue \o C
  BY DEF InFlight, Uncopied, Unsent
<1>3. Uncopied \in BOOLEAN /\ Unsent \in BOOLEAN /\ (script = "train") \in BOOLEAN
  BY DEF Uncopied, Unsent
<1>4. A \in Seq(Int) /\ Consecutive(A, step) /\ step + Len(A) = Fetched
  <2>1. script = "train" => graph_batch = step
    BY <1>1 DEF Order, Fetched, Types
  <2>2. A \in Seq(Int) /\ Consecutive(A, step) /\ Len(A) = IF script = "train" THEN 1 ELSE 0
    BY <1>1, <1>3, <2>1, OneOrNone DEF Types
  <2> QED BY <1>1, <2>2 DEF Fetched, Types
<1>5. B \in Seq(Int) /\ Consecutive(B, Submitted) /\ Submitted + Len(B) = Taken
  <2>1. Uncopied => copying = Submitted
    BY <1>1, RowStands DEF Order, Taken, Uncopied, Copying
  <2>2. B \in Seq(Int) /\ Consecutive(B, Submitted) /\ Len(B) = IF Uncopied THEN 1 ELSE 0
    BY <1>3, <2>1, RowStands, OneOrNone
  <2> QED BY <2>2, RowStands DEF Taken
<1>6. C \in Seq(Int) /\ Consecutive(C, Queued) /\ Queued + Len(C) = Given
  <2>1. Unsent => sampling = Queued
    BY <1>1, RowStands DEF Order, Unsent, Sampling
  <2>2. C \in Seq(Int) /\ Consecutive(C, Queued) /\ Len(C) = IF Unsent THEN 1 ELSE 0
    BY <1>3, <2>1, RowStands, OneOrNone
  <2> QED BY <1>1, <2>2, RowStands DEF Order
<1> HIDE DEF A, B, C
<1> DEFINE R1 == A \o graph_pool
           R2 == R1 \o B
           R3 == R2 \o queue
           R4 == R3 \o C
<1>7. R1 \in Seq(Int) /\ Consecutive(R1, step) /\ step + Len(R1) = Submitted
  <2>1. /\ graph_pool \in Seq(Int) /\ Consecutive(graph_pool, step + Len(A)) /\ step \in Nat
        /\ Submitted = Fetched + Len(graph_pool)
    BY <1>1, <1>4 DEF Order, Submitted, Types
  <2>2. R1 \in Seq(Int) /\ Consecutive(R1, step) /\ Len(R1) = Len(A) + Len(graph_pool)
        /\ Len(A) \in Nat /\ Len(graph_pool) \in Nat
    BY <1>4, <2>1, RowsMeet
  <2> QED BY <1>4, <2>1, <2>2
<1> HIDE DEF R1
<1>8. R2 \in Seq(Int) /\ Consecutive(R2, step) /\ step + Len(R2) = Taken
  <2>1. step \in Nat /\ Consecutive(B, step + Len(R1))
    BY <1>5, <1>7, RowStands
  <2>2. R2 \in Seq(Int) /\ Consecutive(R2, step) /\ Len(R2) = Len(R1) + Len(B)
        /\ Len(R1) \in Nat /\ Len(B) \in Nat
    BY <1>5, <1>7, <2>1, RowsMeet
  <2> QED BY <1>5, <1>7, <2>1, <2>2
<1> HIDE DEF R2
<1>9. R3 \in Seq(Int) /\ Consecutive(R3, step) /\ step + Len(R3) = Queued
  <2>1. /\ queue \in Seq(Int) /\ Consecutive(queue, step + Len(R2)) /\ step \in Nat
        /\ Queued = Taken + Len(queue)
    BY <1>1, <1>8 DEF Order, Queued, Types
  <2>2. R3 \in Seq(Int) /\ Consecutive(R3, step) /\ Len(R3) = Len(R2) + Len(queue)
        /\ Len(R2) \in Nat /\ Len(queue) \in Nat
    BY <1>8, <2>1, RowsMeet
  <2> QED BY <1>8, <2>1, <2>2
<1> HIDE DEF R3
<1>10. R4 \in Seq(Int) /\ Consecutive(R4, step) /\ step + Len(R4) = Given
  <2>1. step \in Nat /\ Consecutive(C, step + Len(R3))
    BY <1>6, <1>9, RowStands
  <2>2. R4 \in Seq(Int) /\ Consecutive(R4, step) /\ Len(R4) = Len(R3) + Len(C)
        /\ Len(R3) \in Nat /\ Len(C) \in Nat
    BY <1>6, <1>9, <2>1, RowsMeet
  <2> QED BY <1>6, <1>9, <2>1, <2>2
<1>11. InFlight = R4
  BY <1>2 DEF R1, R2, R3
<1>12. shuffler.initialized =>
        Given = IF shuffler.epoch < num_epoch THEN BatchKey(shuffler, 0) + 1 ELSE num_epoch * NumStep
  BY DEF Given, Total
<1> HIDE DEF R4
<1> QED BY <1>10, <1>11, <1>12 DEF InOrder, Consecutive

LEMMA BarrierStands == IInv => BarrierHolds
<1> SUFFICES ASSUME IInv, conf.pipeline, Arch4, sampling # NoTask,
                    Barriered(sampling \div NumStep)
             PROVE  step >= (sampling \div NumStep) * NumStep
  BY DEF BarrierHolds
<1> DEFINE M == NumStep
           e == loop.epoch
           o == outer_counter
           eM == e * M
           oM == o * M
<1>1. /\ Types /\ Places /\ Epochs /\ Order /\ Barriers
  BY DEF IInv
<1>2. /\ M \in Nat \ {0} /\ e \in Nat /\ o \in Nat /\ loop.step \in Nat /\ loop.step < M
      /\ step \in Nat /\ ~OneLoop /\ Given \in Nat
  BY <1>1, Steps, ConfFacts, RowStands DEF Types, Barriers
<1>3. Sampling /\ sampling = Given - 1 /\ pc["sampler"] # "submit"
  BY <1>1, <1>2 DEF Order, Places
<1>4. pc["sampler"] \in {"add", "sample", "log"}
  BY <1>3 DEF Sampling
<1>5. Given = eM + loop.step + 1 /\ (Barriered(e) => o >= e)
  BY <1>1, <1>4 DEF Barriers
<1>6. eM \in Nat /\ oM \in Nat /\ (e <= o => eM <= oM)
  BY <1>2, Multiples
<1>7. oM <= step
  BY <1>1, <1>2 DEF Epochs
<1> HIDE DEF eM, oM
<1>8. sampling \in Nat /\ eM <= sampling /\ sampling < eM + M
  BY <1>2, <1>3, <1>5, <1>6
<1> HIDE DEF M, e
<1>9. sampling \div M = e
  BY <1>2, <1>8, Division, Zenon DEF eM
<1>10. o >= e
  BY <1>5, <1>9 DEF M
<1>11. step >= eM
  BY <1>2, <1>6, <1>7, <1>10
<1> QED BY <1>9, <1>11 DEF eM, M

LEMMA TimesStand == IInv => EpochTimes
<1> SUFFICES ASSUME IInv, script = "report",
                    NEW k \in 0 .. (IF conf.pipeline THEN step - 2 ELSE step - 1)
             PROVE  k \in sample_log /\ k \in copy_log
  BY DEF EpochTimes
<1>1. /\ Types /\ Places /\ Logs /\ conf.pipeline \in BOOLEAN
  BY ConfFacts DEF IInv, Types
<1>2. ~conf.pipeline => ~Sampling /\ ~Copying
  BY <1>1 DEF Places, Sampling, Copying
<1>3. k \in sample_log
  BY <1>1, <1>2, RowStands DEF Logs
<1>4. k \in copy_log
  BY <1>1, <1>2, <1>3, RowStands DEF Logs
<1> QED BY <1>3, <1>4

------------------------------------------------------------------------------
(* The theorems.                                                           *)

(* Every value stays in its type, and no key is behind the last epoch.     *)
THEOREM TypeCorrect == Spec => []TypeOK
<1> QED BY Invariance, TypesHold, PTL

(* The script, the pool, the queue and the loops hold the mini-batches in  *)
(* the order the shuffler gave them, none twice and none lost, in every    *)
(* arch, pipelined or not (TaskQueue, GraphPool, train_gcn.py).            *)
THEOREM BatchesStayInOrder == Spec => []InOrder
<1> QED BY Invariance, RowHolds, PTL

(* A graph is whole before the script can have it, in arch4, too, where it *)
(* is queued first (RunDataCopySubLoopOnce).                               *)
THEOREM WholeGraphs == Spec => []WholeBatches
<1>1. IInv => WholeBatches
  BY DEF IInv, Remaps, WholeBatches
<1> QED BY <1>1, Invariance, PTL

(* The barrier of arch4 holds the sampler back (WaitBarrier,               *)
(* ForwardBarrier, ForwardInnerBarrier).                                   *)
THEOREM SamplerWaits == Spec => []BarrierHolds
<1> QED BY Invariance, BarrierStands, PTL

(* Room seen in the queue or the pool is still there when it is used       *)
(* (TaskQueue::Full, GraphPool::Full).                                     *)
THEOREM NeverTooMany == Spec => []Bounded
<1>1. IInv => Bounded
  BY DEF IInv, Rooms, Bounded
<1> QED BY <1>1, Invariance, PTL

(* The script's times of an epoch are of all its mini-batches, but for the *)
(* last when threads run (LogEpochAdd, get_log_epoch_value).               *)
THEOREM TimesComplete == Spec => []EpochTimes
<1> QED BY Invariance, TimesStand, PTL
==============================================================================
