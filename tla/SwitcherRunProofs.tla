--------------------------- MODULE SwitcherRunProofs ---------------------------
(***************************************************************************)
(* Proofs about SwitcherRun, for any numbers of samplers, switchers,       *)
(* trainers, mini-batches and epochs: a GPU has one user at a time, the    *)
(* semaphore counts the mini-batches that are left, the types, and every   *)
(* mini-batch of an epoch is trained once.                                 *)
(*                                                                         *)
(* TurnsInv places the processes between two barriers.  TokensInv adds     *)
(* what each sampler has still to send, TypeInv the epochs, the position   *)
(* of every shuffler and what the workers hold, and EpochsInv where every  *)
(* message is.                                                             *)
(***************************************************************************)
EXTENDS SwitcherRun, FiniteSetTheorems, TLAPS

W(i) == <<"switcher", i>>

LEMMA Processes ==
    /\ \A i \in Sampler : S(i) \in Proc /\ W(i) \in Worker /\ W(i) \in Proc
    /\ \A w \in Worker : w \in Proc /\ w[1] # "sampler" /\ \A i : w # S(i)
    /\ \A p \in Proc : (\E i \in Sampler : p = S(i)) \/ p \in Worker
    /\ \A i : S(i)[1] = "sampler" /\ W(i)[1] = "switcher" /\ W(i)[2] = i
    /\ \A i, k : (S(i) = S(k) => i = k) /\ (W(i) = W(k) => i = k)
BY DEF Proc, Worker, S, W

LEMMA NoneChanges ==
    ASSUME conf' = conf
    PROVE  Sampler' = Sampler /\ Worker' = Worker /\ Proc' = Proc /\ num_epoch' = num_epoch
BY DEF Sampler, Worker, Proc, S, num_sample_worker, num_epoch

(* The four stretches of a run between its barriers. *)
Assembling(at) == \A p \in Proc : pc[p] = at

Opening ==
    /\ \A w \in Worker : pc[w] = "start"
    /\ \A i \in Sampler :
        pc[S(i)] \in IF conf.pipeline THEN {"begin", "start"} ELSE {"begin", "sample", "send", "sampled"}

Working ==
    /\ \A w \in Worker : pc[w] \in {"wait", "acquire", "recv", "train", "end"}
    /\ \A i \in Sampler :
        pc[S(i)] \in IF conf.pipeline THEN {"sample", "send", "set", "end"} ELSE {"set", "end"}

Stretch == Assembling("run") \/ Opening \/ Working \/ Assembling("run_end") \/ Assembling("exited")

(* The event is set only while its sampler has nothing to do; a switcher   *)
(* that trains has seen it set.                                            *)
EventTrue ==
    \A i \in Sampler :
        /\ pc[S(i)] \in {"start", "sample", "send", "sampled", "set"} => ~sampler_stop_event[i]
        /\ pc[W(i)] \in {"acquire", "recv", "train"} => sampler_stop_event[i]

SameEpoch == \A p, q \in Proc : epoch[p] = epoch[q]

TurnsInv ==
    /\ conf \in Configurations
    /\ DOMAIN pc = Proc /\ DOMAIN epoch = Proc /\ DOMAIN sampler_stop_event = Sampler
    /\ Stretch /\ EventTrue /\ SameEpoch

LEMMA TurnsInit == Init => TurnsInv
<1> SUFFICES ASSUME Init PROVE TurnsInv
  OBVIOUS
<1>1. \A p \in Proc : pc[p] = "run" /\ epoch[p] = 0
  BY DEF Init
<1>2. \A i \in Sampler : pc[S(i)] = "run" /\ pc[W(i)] = "run"
  BY <1>1, Processes
<1> QED BY <1>1, <1>2 DEF Init, TurnsInv, Stretch, Assembling, EventTrue, SameEpoch

(* Where a process is tells which stretch the run is in. *)
LEMMA WhichStretch ==
    ASSUME TurnsInv
    PROVE  /\ \A i \in Sampler :
                /\ pc[S(i)] = "begin" => Opening
                /\ pc[S(i)] \in {"sample", "send"} => IF conf.pipeline THEN Working ELSE Opening
                /\ pc[S(i)] = "set" => Working
           /\ \A w \in Worker : pc[w] \in {"wait", "acquire", "recv", "train"} => Working
BY Processes DEF TurnsInv, Stretch, Assembling, Opening, Working

LEMMA TurnsSampler ==
    ASSUME TurnsInv, NEW i \in Sampler, SamplerStep(i)
    PROVE  TurnsInv'
<1>1. PICK to : /\ pc' = [pc EXCEPT ![S(i)] = to]
                /\ \/ pc[S(i)] = "begin" /\ to = (IF conf.pipeline THEN "start" ELSE "sample")
                      /\ sampler_stop_event' = [sampler_stop_event EXCEPT ![i] = FALSE]
                   \/ pc[S(i)] = "sample" /\ to = "send" /\ UNCHANGED sampler_stop_event
                   \/ pc[S(i)] = "send" /\ to = "sample" /\ UNCHANGED sampler_stop_event
                   \/ pc[S(i)] = "sample" /\ to = (IF conf.pipeline THEN "set" ELSE "sampled")
                      /\ UNCHANGED sampler_stop_event
                   \/ pc[S(i)] = "set" /\ to = "end"
                      /\ sampler_stop_event' = [sampler_stop_event EXCEPT ![i] = TRUE]
  BY DEF SamplerStep, BeginEpoch, SampleOnce, Send, Sampled, SetStopEvent, Goto, signalVars
<1>2. conf' = conf /\ epoch' = epoch
  BY DEF SamplerStep, BeginEpoch, SampleOnce, Send, Sampled, SetStopEvent, Goto
<1>3. /\ DOMAIN pc' = Proc /\ pc'[S(i)] = to
      /\ \A k \in Sampler : k # i => pc'[S(k)] = pc[S(k)]
      /\ \A w \in Worker : pc'[w] = pc[w]
  BY <1>1, Processes DEF TurnsInv
<1>4. /\ DOMAIN sampler_stop_event' = Sampler
      /\ \A k \in Sampler : k # i => sampler_stop_event'[k] = sampler_stop_event[k]
  BY <1>1 DEF TurnsInv
<1>5. Stretch'
  <2>1. CASE Opening /\ pc[S(i)] # "set"
    <3>1. Opening'
      BY <1>1, <1>2, <1>3, <2>1, NoneChanges DEF Opening
    <3> QED BY <3>1 DEF Stretch
  <2>2. CASE Working /\ pc[S(i)] # "begin"
    <3>1. Working'
      BY <1>1, <1>2, <1>3, <2>2, NoneChanges DEF Working
    <3> QED BY <3>1 DEF Stretch
  <2>3. (Opening /\ pc[S(i)] # "set") \/ (Working /\ pc[S(i)] # "begin")
    BY <1>1, WhichStretch
  <2> QED BY <2>1, <2>2, <2>3
<1>6. EventTrue'
  <2>1. ASSUME NEW k \in Sampler, k # i
        PROVE 
               /\ pc'[S(k)] \in {"start", "sample", "send", "sampled", "set"} => ~sampler_stop_event'[k]
               /\ pc'[W(k)] \in {"acquire", "recv", "train"} => sampler_stop_event'[k]
    BY <1>3, <1>4, <2>1, Processes DEF TurnsInv, EventTrue
  <2>2. pc'[S(i)] \in {"start", "sample", "send", "sampled", "set"} => ~sampler_stop_event'[i]
    BY <1>1, <1>3 DEF TurnsInv, EventTrue
  <2>3. pc'[W(i)] \in {"acquire", "recv", "train"} => sampler_stop_event'[i]
    <3>1. pc'[W(i)] = pc[W(i)]
      BY <1>3, Processes
    <3>2. CASE pc[S(i)] = "begin"
      <4>1. pc[W(i)] = "start"
        BY <3>2, WhichStretch, Processes DEF Opening
      <4> QED BY <3>1, <4>1
    <3>3. CASE pc[S(i)] # "begin"
      BY <1>1, <3>1, <3>3 DEF TurnsInv, EventTrue
    <3> QED BY <3>2, <3>3
  <2> QED BY <1>2, <2>1, <2>2, <2>3, NoneChanges DEF EventTrue
<1> QED BY <1>2, <1>3, <1>4, <1>5, <1>6, NoneChanges DEF TurnsInv, SameEpoch

LEMMA TurnsWorker ==
    ASSUME TurnsInv, NEW w \in Worker, WorkerStep(w)
    PROVE  TurnsInv'
<1>1. PICK to : /\ pc' = [pc EXCEPT ![w] = to]
                /\ pc[w] \in {"wait", "acquire", "recv", "train"}
                /\ to \in {"acquire", "recv", "train", "end"}
                /\ pc[w] = "wait" => sampler_stop_event[w[2]]
  BY DEF WorkerStep, WaitStopEvent, Acquire, AcquireTimeout, RecvBatch, Train, Goto
<1>2. conf' = conf /\ epoch' = epoch /\ sampler_stop_event' = sampler_stop_event
  BY DEF WorkerStep, WaitStopEvent, Acquire, AcquireTimeout, RecvBatch, Train, Goto, signalVars
<1>3. /\ DOMAIN pc' = Proc /\ pc'[w] = to
      /\ \A i \in Sampler : pc'[S(i)] = pc[S(i)]
      /\ \A v \in Worker : v # w => pc'[v] = pc[v]
  BY <1>1, Processes DEF TurnsInv
<1>4. Working'
  BY <1>1, <1>2, <1>3, WhichStretch, NoneChanges DEF Working
<1>5. EventTrue'
  <2>1. ASSUME NEW i \in Sampler, pc'[W(i)] \in {"acquire", "recv", "train"}
        PROVE  sampler_stop_event[i]
    <3>1. CASE W(i) = w
      BY <1>1, <3>1, Processes DEF TurnsInv, EventTrue
    <3>2. CASE W(i) # w
      BY <1>3, <2>1, <3>2, Processes DEF TurnsInv, EventTrue
    <3> QED BY <3>1, <3>2
  <2> QED BY <1>2, <1>3, <2>1, NoneChanges DEF TurnsInv, EventTrue
<1> QED BY <1>2, <1>3, <1>4, <1>5, NoneChanges DEF TurnsInv, Stretch, SameEpoch

LEMMA TurnsBarrier ==
    ASSUME TurnsInv, GlobalBarrier
    PROVE  TurnsInv'
<1>1. /\ \A p \in Proc : pc[p] \in GlobalWaits
      /\ pc' = [p \in Proc |-> AfterBarrier(p)]
      /\ epoch' = [p \in Proc |-> IF pc[p] = "end" THEN epoch[p] + 1 ELSE epoch[p]]
      /\ conf' = conf /\ sampler_stop_event' = sampler_stop_event
  BY DEF GlobalBarrier, signalVars
<1>2. \A p \in Proc : pc'[p] = AfterBarrier(p)
  BY <1>1
<1>0. Proc # {}
  <2>1. num_sample_worker \in Nat \ {0}
    BY SwitcherAssumption DEF TurnsInv, num_sample_worker
  <2>2. 0 \in Sampler
    BY <2>1 DEF Sampler
  <2> QED BY <2>2, Processes
<1> SUFFICES Stretch' /\ EventTrue' /\ SameEpoch'
  BY <1>1, NoneChanges DEF TurnsInv
<1>3. CASE Assembling("run")
  <2>1. \A p \in Proc : pc'[p] = EpochStart(p) /\ epoch'[p] = epoch[p]
    BY <1>1, <1>2, <1>3 DEF Assembling, AfterBarrier
  <2>2. /\ \A i \in Sampler : pc'[S(i)] = "begin"
        /\ \A w \in Worker : pc'[w] = "start"
    BY <2>1, Processes DEF EpochStart
  <2>3. Opening' /\ EventTrue'
    BY <1>1, <2>2, Processes, NoneChanges DEF Opening, EventTrue
  <2> QED BY <1>1, <2>1, <2>3, NoneChanges DEF Stretch, SameEpoch, TurnsInv
<1>4. CASE Opening
  <2>1. /\ \A i \in Sampler : pc[S(i)] = IF conf.pipeline THEN "start" ELSE "sampled"
        /\ \A w \in Worker : pc[w] = "start"
    BY <1>1, <1>4, Processes DEF Opening, GlobalWaits
  <2>2. \A p \in Proc : epoch'[p] = epoch[p]
    BY <1>1, <2>1, Processes
  <2>3. /\ \A i \in Sampler : pc'[S(i)] = IF conf.pipeline THEN "sample" ELSE "set"
        /\ \A w \in Worker : pc'[w] \in {"wait", "acquire"}
        /\ \A i \in Sampler : pc'[W(i)] = "wait"
    BY <1>2, <2>1, Processes DEF AfterBarrier
  <2>4. Working'
    BY <1>1, <2>3, NoneChanges DEF Working
  <2>5. EventTrue'
    BY <1>1, <2>1, <2>3, NoneChanges DEF TurnsInv, EventTrue
  <2> QED BY <1>1, <2>2, <2>4, <2>5, NoneChanges DEF Stretch, SameEpoch, TurnsInv
<1>5. CASE Working
  <2>1. \A p \in Proc : pc[p] = "end"
    BY <1>1, <1>5, Processes DEF Working, GlobalWaits
  <2>2. /\ \A p \in Proc : epoch'[p] = epoch[p] + 1
        /\ \A p, q \in Proc : epoch[p] + 1 = epoch[q] + 1
    BY <1>1, <2>1 DEF TurnsInv, SameEpoch
  <2>3. \A p \in Proc : pc'[p] = IF epoch[p] + 1 < num_epoch THEN EpochStart(p) ELSE "run_end"
    BY <1>2, <2>1 DEF AfterBarrier
  <2>4. CASE \A p \in Proc : epoch[p] + 1 < num_epoch
    <3>1. /\ \A i \in Sampler : pc'[S(i)] = "begin"
          /\ \A w \in Worker : pc'[w] = "start"
      BY <2>3, <2>4, Processes DEF EpochStart
    <3>2. Opening'
      BY <1>1, <3>1, NoneChanges DEF Opening
    <3>3. EventTrue'
      BY <1>1, <3>1, Processes, NoneChanges DEF EventTrue
    <3> QED BY <1>1, <2>2, <3>2, <3>3, NoneChanges DEF Stretch, SameEpoch
  <2>5. CASE \A p \in Proc : ~ (epoch[p] + 1 < num_epoch)
    <3>1. \A p \in Proc : pc'[p] = "run_end"
      BY <2>3, <2>5
    <3> QED BY <1>1, <2>2, <3>1, Processes, NoneChanges
        DEF Stretch, Assembling, EventTrue, SameEpoch
  <2> QED BY <2>2, <2>4, <2>5
<1>6. CASE Assembling("run_end")
  <2>1. \A p \in Proc : pc'[p] = "exited" /\ epoch'[p] = epoch[p]
    BY <1>1, <1>2, <1>6 DEF Assembling, AfterBarrier
  <2> QED BY <1>1, <2>1, Processes, NoneChanges
      DEF Stretch, Assembling, EventTrue, SameEpoch, TurnsInv
<1>7. CASE Assembling("exited")
  BY <1>0, <1>1, <1>7 DEF Assembling, GlobalWaits
<1> QED BY <1>3, <1>4, <1>5, <1>6, <1>7 DEF TurnsInv, Stretch

LEMMA TurnsStep == TurnsInv /\ [Next]_vars => TurnsInv'
<1> SUFFICES ASSUME TurnsInv, [Next]_vars PROVE TurnsInv'
  OBVIOUS
<1>1. CASE Ended \/ UNCHANGED vars
  BY <1>1, NoneChanges DEF Ended, vars, procVars, signalVars, TurnsInv, Stretch, Assembling,
     Opening, Working, EventTrue, SameEpoch
<1> QED BY <1>1, TurnsSampler, TurnsWorker, TurnsBarrier DEF Next

(* A switcher never trains on a GPU while the sampler there samples, be it *)
(* in this epoch or already in the next: the event it has seen is of this  *)
(* epoch, since the sampler clears it before the barrier at which the      *)
(* switcher begins to wait.                                                *)
THEOREM TakeTurns == Spec => []SwitchAfterSampler
<1>1. TurnsInv => SwitchAfterSampler
  <2> SUFFICES ASSUME TurnsInv, NEW i \in Sampler, pc[W(i)] \in {"acquire", "recv", "train"}
               PROVE  /\ pc[S(i)] \notin {"begin", "sample", "send"}
                      /\ epoch[S(i)] = epoch[W(i)]
    BY DEF SwitchAfterSampler, W
  <2>1. Working
    BY WhichStretch, Processes
  <2>2. sampler_stop_event[i]
    BY DEF TurnsInv, EventTrue
  <2>3. pc[S(i)] \notin {"begin", "sample", "send"}
    BY <2>1, <2>2 DEF TurnsInv, EventTrue, Working
  <2> QED BY <2>3, Processes DEF TurnsInv, SameEpoch
<1> QED BY <1>1, TurnsInit, TurnsStep, PTL DEF Spec

------------------------------------------------------------------------------
(***************************************************************************)
(* The count of mq_sem.                                                    *)
(***************************************************************************)

(* What a sampler has still to send, by where it is in the epoch. *)
TodoInv ==
    /\ todo \in [Sampler -> 0 .. NumStep]
    /\ \A i \in Sampler :
        /\ todo[i] <= LocalSteps(i)
        /\ pc[S(i)] \in {"run", "begin"} => todo[i] = LocalSteps(i)
        /\ pc[S(i)] = "send" => todo[i] > 0
        /\ pc[S(i)] \in {"sampled", "set", "end"} => todo[i] = 0

TokensInv ==
    /\ TurnsInv /\ TodoInv
    /\ mq_sem \in Nat /\ IsFiniteSet(channel)
    /\ TokensMatch

LEMMA ConfNumbers ==
    ASSUME conf \in Configurations
    PROVE  /\ num_sample_worker \in Nat \ {0} /\ num_epoch \in Nat \ {0}
           /\ conf.num_train_worker \in Nat \ {0} /\ conf.pipeline \in BOOLEAN
           /\ NumStep \in Nat \ {0} /\ NumStep >= num_sample_worker
<1>1. /\ conf.num_sample_worker \in Nat \ {0} /\ conf.num_epoch \in Nat \ {0}
      /\ conf.num_train_worker \in Nat \ {0} /\ conf.pipeline \in BOOLEAN
      /\ conf.num_data \in Nat \ {0} /\ conf.batch_size \in Nat \ {0}
      /\ Steps(conf) \in conf.num_sample_worker .. mq_size
      /\ mq_size \in Nat
  BY SwitcherAssumption
<1>2. Steps(conf) = NumStep
  BY DEF Steps, NumStep
<1>3. NumStep \in Nat /\ NumStep >= conf.num_sample_worker
  BY <1>1, <1>2
<1> QED BY <1>1, <1>3 DEF num_sample_worker, num_epoch

(* A part of x smaller by a quotient. *)
LEMMA PartOf ==
    ASSUME NEW N \in Nat, NEW n \in Nat \ {0}, NEW i \in 0 .. n - 1
    PROVE  /\ (N * i) \div n \in Nat /\ (N * i) \div n <= N
           /\ N \div n \in Nat /\ N \div n <= N
           /\ (N \div n) * i \in Nat
           /\ (N \div n) * i <= (N * i) \div n
<1> DEFINE d == (N * i) \div n
           m == (N * i) % n
           q == N \div n
           r == N % n
<1>1. N * i \in Nat /\ N * i <= N * n /\ i \in Nat
  BY Z3
<1>2. d \in Nat /\ m \in Nat /\ m < n /\ N * i = d * n + m
  BY <1>1
<1>3. q \in Nat /\ r \in Nat /\ r < n /\ N = q * n + r
  OBVIOUS
<1> SUFFICES d \in Nat /\ d <= N /\ q \in Nat /\ q <= N /\ q * i \in Nat /\ q * i <= d
  OBVIOUS
<1> HIDE DEF d, m, q, r
<1>4. d <= N
  <2>1. SUFFICES ASSUME d >= N + 1 PROVE FALSE
    BY <1>2
  <2>2. d * n >= (N + 1) * n /\ (N + 1) * n = N * n + n
    BY <1>2, <2>1
  <2> QED BY <1>1, <1>2, <2>2
<1>5. q * n >= q /\ q * n \in Nat
  BY <1>3
<1>6. q * i \in Nat /\ q * i <= d
  <2>1. q * i \in Nat
    BY <1>1, <1>3
  <2>2. SUFFICES ASSUME q * i >= d + 1 PROVE FALSE
    BY <1>2, <2>1
  <2>3. (q * i) * n >= (d + 1) * n /\ (d + 1) * n = d * n + n
    BY <1>2, <2>1, <2>2
  <2>4. N * i = (q * n) * i + r * i /\ (q * n) * i = (q * i) * n /\ r * i \in Nat
    BY <1>1, <1>3
  <2>5. (q * i) * n \in Nat /\ d * n \in Nat
    BY <1>2, <2>1
  <2> QED BY <1>2, <2>3, <2>4, <2>5
<1> QED BY <1>2, <1>3, <1>4, <1>5, <1>6

LEMMA LocalFacts ==
    ASSUME conf \in Configurations, NEW i \in Sampler
    PROVE  /\ LocalSteps(i) \in 0 .. NumStep
           /\ StepOffset(i) \in Nat
           /\ LocalSteps(i) <= ShufflerSteps(i)
           /\ StepOffset(i) + ShufflerSteps(i) <= NumStep
<1> DEFINE n == num_sample_worker
           N == NumStep
           q == N \div n
<1>1. n \in Nat \ {0} /\ N \in Nat /\ i \in 0 .. n - 1 /\ n - 1 \in 0 .. n - 1
  BY ConfNumbers DEF Sampler
<1>2. /\ StepOffset(i) = q * i
      /\ ShufflerSteps(i) = IF i = n - 1 THEN N - q * i ELSE q
      /\ LocalSteps(i) = IF i = n - 1 THEN N - (N * i) \div n ELSE q
  BY DEF StepOffset, ShufflerSteps, LocalSteps
<1>3. /\ (N * i) \div n \in Nat /\ (N * i) \div n <= N
      /\ q \in Nat /\ q <= N /\ q * i \in Nat /\ q * i <= (N * i) \div n
  BY <1>1, PartOf
<1>4. i # n - 1 => q * i + q <= N
  <2> HAVE i # n - 1
  <2>1. i + 1 \in 0 .. n - 1
    BY <1>1
  <2>2. q * (i + 1) <= (N * (i + 1)) \div n /\ (N * (i + 1)) \div n <= N
        /\ q * (i + 1) \in Nat /\ (N * (i + 1)) \div n \in Nat
    BY <1>1, <2>1, PartOf
  <2>3. q * (i + 1) = q * i + q
    BY <1>1, <1>3
  <2> HIDE DEF q, N, n
  <2> QED BY <1>1, <1>3, <2>2, <2>3
<1> DEFINE d == (N * i) \div n
           o == q * i
<1>5. d \in Nat /\ d <= N /\ q \in Nat /\ q <= N /\ o \in Nat /\ o <= d
      /\ (i # n - 1 => o + q <= N)
  BY <1>3, <1>4
<1>6. /\ StepOffset(i) = o /\ ShufflerSteps(i) = IF i = n - 1 THEN N - o ELSE q
      /\ LocalSteps(i) = IF i = n - 1 THEN N - d ELSE q
  BY <1>2
<1> HIDE DEF d, o, q
<1> QED BY <1>1, <1>5, <1>6

LEMMA SplitSame ==
    ASSUME conf' = conf
    PROVE  /\ NumStep' = NumStep /\ \A i : LocalSteps(i)' = LocalSteps(i)
           /\ \A i : ShufflerSteps(i)' = ShufflerSteps(i)
BY DEF NumStep, LocalSteps, ShufflerSteps, StepOffset, num_sample_worker

LEMMA WorkersFinite ==
    ASSUME conf \in Configurations
    PROVE  IsFiniteSet(Worker)
<1> DEFINE Kinds == {"switcher", "trainer"}
           Numbers == 0 .. num_sample_worker + conf.num_train_worker
<1>1. num_sample_worker \in Nat /\ conf.num_train_worker \in Nat
  BY ConfNumbers
<1>2. IsFiniteSet(Numbers)
  BY <1>1, FS_Interval
<1>3. IsFiniteSet(Kinds)
  <2>1. Kinds = {"switcher"} \cup {"trainer"}
    OBVIOUS
  <2>2. IsFiniteSet({"switcher"}) /\ IsFiniteSet({"trainer"})
    BY FS_Singleton
  <2> QED BY <2>1, <2>2, FS_Union
<1>4. IsFiniteSet(Kinds \X Numbers)
  BY <1>2, <1>3, FS_Product
<1>5. Worker \subseteq Kinds \X Numbers
  BY <1>1 DEF Worker, Sampler
<1> QED BY <1>4, <1>5, FS_Subset

Receivers == {w \in Worker : pc[w] = "recv"}

(* The counted sets are finite. *)
LEMMA CountsFinite ==
    ASSUME conf \in Configurations
    PROVE  /\ IsFiniteSet(Receivers) /\ Cardinality(Receivers) \in Nat
           /\ IsFiniteSet(Announced \X (1 .. NumStep))
           /\ IsFiniteSet(Pending) /\ Cardinality(Pending) \in Nat
<1>1. num_sample_worker \in Nat /\ NumStep \in Nat
  BY ConfNumbers
<1>2. IsFiniteSet(Receivers)
  BY WorkersFinite, FS_Subset DEF Receivers
<1>3. IsFiniteSet(Announced)
  <2>1. IsFiniteSet(0 .. num_sample_worker - 1)
    BY <1>1, FS_Interval
  <2>2. Announced \subseteq 0 .. num_sample_worker - 1
    BY DEF Announced, Sampler
  <2> QED BY <2>1, <2>2, FS_Subset
<1>4. IsFiniteSet(Announced \X (1 .. NumStep))
  <2>1. IsFiniteSet(1 .. NumStep)
    BY <1>1, FS_Interval
  <2> QED BY <1>3, <2>1, FS_Product
<1>5. IsFiniteSet(Pending)
  BY <1>4, FS_Subset DEF Pending
<1> QED BY <1>2, <1>4, <1>5, FS_CardinalityType

(* What one sampler announces, one by one. *)
LEMMA OwnShare ==
    ASSUME NEW i, NEW n \in Nat
    PROVE  /\ IsFiniteSet({i} \X (1 .. n))
           /\ Cardinality({i} \X (1 .. n)) = n
<1>1. IsFiniteSet({i}) /\ Cardinality({i}) = 1
  BY FS_Singleton
<1>2. IsFiniteSet(1 .. n) /\ Cardinality(1 .. n) = n
  BY FS_Interval
<1>3. /\ IsFiniteSet({i} \X (1 .. n))
      /\ Cardinality({i} \X (1 .. n)) = Cardinality({i}) * Cardinality(1 .. n)
  BY <1>1, <1>2, FS_Product
<1> QED BY <1>1, <1>2, <1>3

(* A step that leaves the four counts alone. *)
LEMMA TokensSame ==
    ASSUME TokensMatch, mq_sem' = mq_sem, channel' = channel,
           Receivers' = Receivers, Pending' = Pending
    PROVE  TokensMatch'
BY DEF TokensMatch, Receivers

LEMMA TokensInit == Init => TokensInv
<1> SUFFICES ASSUME Init PROVE TokensInv
  OBVIOUS
<1>1. conf \in Configurations /\ NumStep \in Nat /\ TurnsInv
  BY TurnsInit, ConfNumbers DEF Init
<1>2. \A i \in Sampler : pc[S(i)] = "run" /\ todo[i] = LocalSteps(i)
  BY Processes DEF Init
<1>3. TodoInv
  <2>1. \A i \in Sampler : LocalSteps(i) \in 0 .. NumStep
    BY <1>1, LocalFacts
  <2>2. todo \in [Sampler -> 0 .. NumStep]
    BY <2>1 DEF Init
  <2> QED BY <1>1, <1>2, <2>1, <2>2 DEF TodoInv
<1>4. channel = {} /\ mq_sem = 0
  BY DEF Init, Channel!ChannelInit
<1>5. Pending = {}
  BY <1>2 DEF Pending, Announced
<1>6. Receivers = {}
  BY Processes DEF Receivers, Init
<1>7. IsFiniteSet({}) /\ Cardinality({}) = 0
  BY FS_EmptySet
<1>8. TokensMatch
  BY <1>4, <1>5, <1>6, <1>7 DEF TokensMatch, Receivers
<1> QED BY <1>1, <1>3, <1>4, <1>7, <1>8 DEF TokensInv

Outside == {"run", "begin", "run_end", "exited"}

LEMMA SamplerMoves ==
    ASSUME TurnsInv, NEW i \in Sampler, NEW from, NEW to, Goto(S(i), from, to)
    PROVE  /\ conf' = conf /\ Sampler' = Sampler /\ epoch' = epoch
           /\ pc[S(i)] = from /\ pc'[S(i)] = to
           /\ \A k \in Sampler : k # i => pc'[S(k)] = pc[S(k)]
           /\ \A w \in Worker : pc'[w] = pc[w]
           /\ Receivers' = Receivers
           /\ from \notin Outside /\ to \notin Outside => Announced' = Announced
           /\ from \in Outside /\ to \notin Outside =>
                i \notin Announced /\ Announced' = Announced \cup {i}
<1>1. /\ conf' = conf /\ Sampler' = Sampler /\ Worker' = Worker /\ epoch' = epoch
      /\ pc[S(i)] = from
  BY NoneChanges DEF Goto
<1>2. /\ pc'[S(i)] = to
      /\ \A k \in Sampler : k # i => pc'[S(k)] = pc[S(k)]
      /\ \A w \in Worker : pc'[w] = pc[w]
  BY Processes DEF TurnsInv, Goto
<1>3. Receivers' = Receivers
  BY <1>1, <1>2 DEF Receivers
<1>4. /\ Announced = {k \in Sampler : pc[S(k)] \notin Outside}
      /\ Announced' = {k \in Sampler : pc'[S(k)] \notin Outside}
  BY <1>1 DEF Announced, Outside
<1>5. from \notin Outside /\ to \notin Outside => Announced' = Announced
  BY <1>1, <1>2, <1>4
<1>6. from \in Outside /\ to \notin Outside =>
        i \notin Announced /\ Announced' = Announced \cup {i}
  BY <1>1, <1>2, <1>4
<1> QED BY <1>1, <1>2, <1>3, <1>5, <1>6

LEMMA TodoSampler ==
    ASSUME TokensInv, NEW i \in Sampler, SamplerStep(i)
    PROVE  TodoInv'
<1>1. conf \in Configurations /\ TurnsInv /\ TodoInv /\ NumStep \in Nat
  BY ConfNumbers DEF TokensInv, TurnsInv
<1>2. PICK from, to :
        /\ Goto(S(i), from, to)
        /\ \/ from = "begin" /\ to \in {"start", "sample"} /\ todo' = todo
           \/ from = "sample" /\ to = "send" /\ todo[i] > 0 /\ todo' = todo
           \/ from = "send" /\ to = "sample" /\ todo' = [todo EXCEPT ![i] = @ - 1]
           \/ from = "sample" /\ to \in {"set", "sampled"} /\ todo[i] = 0 /\ todo' = todo
           \/ from = "set" /\ to = "end" /\ todo' = todo
  BY DEF SamplerStep, BeginEpoch, SampleOnce, Send, Sampled, SetStopEvent, samplerVars
<1>3. /\ conf' = conf /\ Sampler' = Sampler
      /\ pc[S(i)] = from /\ pc'[S(i)] = to
      /\ \A k \in Sampler : k # i => pc'[S(k)] = pc[S(k)]
  BY <1>1, <1>2, SamplerMoves
<1>4. /\ NumStep' = NumStep /\ \A k : LocalSteps(k)' = LocalSteps(k)
  BY <1>3, SplitSame
<1>5. \A k \in Sampler : LocalSteps(k) \in 0 .. NumStep /\ todo[k] \in 0 .. NumStep
  BY <1>1, LocalFacts DEF TodoInv
<1>6. /\ todo[i] <= LocalSteps(i) /\ (from = "send" => todo[i] > 0)
      /\ (from = "set" => todo[i] = 0)
  BY <1>1, <1>3 DEF TodoInv
<1>7. /\ todo' \in [Sampler -> 0 .. NumStep]
      /\ \A k \in Sampler : k # i => todo'[k] = todo[k]
      /\ todo'[i] = IF from = "send" THEN todo[i] - 1 ELSE todo[i]
  <2>1. CASE todo' = todo /\ from # "send"
    BY <1>1, <2>1 DEF TodoInv
  <2>2. CASE from = "send" /\ todo' = [todo EXCEPT ![i] = @ - 1]
    <3>1. todo[i] - 1 \in 0 .. NumStep
      BY <1>1, <1>5, <1>6, <2>2
    <3> QED BY <1>1, <2>2, <3>1 DEF TodoInv
  <2> QED BY <1>2, <2>1, <2>2
<1>8. ASSUME NEW k \in Sampler
      PROVE  /\ todo'[k] <= LocalSteps(k)
             /\ pc'[S(k)] \in {"run", "begin"} => todo'[k] = LocalSteps(k)
             /\ pc'[S(k)] = "send" => todo'[k] > 0
             /\ pc'[S(k)] \in {"sampled", "set", "end"} => todo'[k] = 0
  <2>1. CASE k # i
    BY <1>1, <1>3, <1>7, <2>1 DEF TodoInv
  <2>2. CASE k = i
    BY <1>2, <1>3, <1>5, <1>6, <1>7, <2>2
  <2> QED BY <2>1, <2>2
<1> QED BY <1>3, <1>4, <1>7, <1>8 DEF TodoInv

(* A sampler that begins announces its share.                              *)
LEMMA TokensBegin ==
    ASSUME TokensInv, NEW i \in Sampler, BeginEpoch(i)
    PROVE  mq_sem' \in Nat /\ IsFiniteSet(channel') /\ TokensMatch'
<1>1. conf \in Configurations /\ TurnsInv /\ TodoInv /\ NumStep \in Nat
  BY ConfNumbers DEF TokensInv, TurnsInv
<1>2. PICK to \in {"start", "sample"} : Goto(S(i), "begin", to)
  BY DEF BeginEpoch
<1>3. /\ conf' = conf /\ Receivers' = Receivers /\ pc[S(i)] = "begin"
      /\ i \notin Announced /\ Announced' = Announced \cup {i}
  BY <1>1, <1>2, SamplerMoves DEF Outside
<1>4. /\ mq_sem' = mq_sem + LocalSteps(i) /\ todo' = todo /\ channel' = channel
      /\ todo[i] = LocalSteps(i) /\ LocalSteps(i) \in 0 .. NumStep
  BY <1>1, <1>3, LocalFacts DEF BeginEpoch, samplerVars, queueVars, TodoInv
<1>5. NumStep' = NumStep
  BY <1>3, SplitSame
<1> DEFINE own == {i} \X (1 .. LocalSteps(i))
<1>6. Pending' = Pending \cup own /\ Pending \cap own = {}
  <2>1. Pending' = {p \in (Announced \cup {i}) \X (1 .. NumStep) : p[2] <= todo[p[1]]}
    BY <1>3, <1>4, <1>5 DEF Pending
  <2>2. own = {p \in {i} \X (1 .. NumStep) : p[2] <= todo[p[1]]}
    <3>1. \A k : k \in 1 .. LocalSteps(i) <=> k \in 1 .. NumStep /\ k <= LocalSteps(i)
      BY <1>1, <1>4
    <3> QED BY <1>4, <3>1
  <2> QED BY <1>3, <2>1, <2>2 DEF Pending
<1>7. IsFiniteSet(own) /\ Cardinality(own) = LocalSteps(i)
  <2>1. LocalSteps(i) \in Nat
    BY <1>1, <1>4
  <2> QED BY <2>1, OwnShare
<1>8. /\ IsFiniteSet(Pending) /\ Cardinality(Pending) \in Nat
      /\ Cardinality(Receivers) \in Nat
  BY <1>1, CountsFinite
<1>9. Cardinality(Pending') = Cardinality(Pending) + LocalSteps(i)
  <2>1. Cardinality(Pending \cup own)
            = Cardinality(Pending) + Cardinality(own) - Cardinality(Pending \cap own)
    BY <1>7, <1>8, FS_Union
  <2>2. Cardinality(Pending \cap own) = 0
    BY <1>6, FS_EmptySet
  <2> QED BY <1>4, <1>6, <1>7, <1>8, <2>1, <2>2
<1>10. mq_sem \in Nat /\ IsFiniteSet(channel) /\ Cardinality(channel) \in Nat
       /\ mq_sem + Cardinality(Receivers) = Cardinality(channel) + Cardinality(Pending)
  BY FS_CardinalityType DEF TokensInv, TokensMatch, Receivers
<1>11. mq_sem' + Cardinality(Receivers') = Cardinality(channel') + Cardinality(Pending')
  <2> HIDE DEF own
  <2> QED BY <1>3, <1>4, <1>8, <1>9, <1>10
<1> QED BY <1>4, <1>10, <1>11 DEF TokensMatch, Receivers

(* A message moves from those to be sent to those in the queue.            *)
LEMMA TokensSend ==
    ASSUME TokensInv, NEW i \in Sampler, Send(i)
    PROVE  mq_sem' \in Nat /\ IsFiniteSet(channel') /\ TokensMatch'
<1>1. conf \in Configurations /\ TurnsInv /\ TodoInv /\ NumStep \in Nat
  BY ConfNumbers DEF TokensInv, TurnsInv
<1>2. Goto(S(i), "send", "sample")
  BY DEF Send
<1>3. /\ conf' = conf /\ Receivers' = Receivers /\ pc[S(i)] = "send"
      /\ Announced' = Announced /\ i \in Announced
  BY <1>1, <1>2, SamplerMoves DEF Outside, Announced
<1>4. /\ mq_sem' = mq_sem /\ todo' = [todo EXCEPT ![i] = @ - 1]
      /\ todo[i] \in 0 .. NumStep /\ todo[i] > 0
  BY <1>1, <1>3 DEF Send, signalVars, TodoInv
<1>5. PICK m : channel' = channel \cup {m} /\ m \notin channel
  BY DEF Send, Channel!Send
<1>6. NumStep' = NumStep
  BY <1>3, SplitSame
<1> DEFINE x == <<i, todo[i]>>
<1>7. Pending' = Pending \ {x} /\ x \in Pending
  <2>1. Pending' = {p \in Announced \X (1 .. NumStep) : p[2] <= todo'[p[1]]}
    BY <1>3, <1>6 DEF Pending
  <2>2. ASSUME NEW k \in Announced, NEW n \in 1 .. NumStep
        PROVE  n <= todo'[k] <=> n <= todo[k] /\ <<k, n>> # x
    <3>1. k \in Sampler /\ todo[k] \in 0 .. NumStep /\ n \in Nat
      BY <1>1 DEF Announced, TodoInv
    <3>2. CASE k # i
      <4>1. todo'[k] = todo[k]
        BY <1>1, <1>4, <3>1, <3>2 DEF TodoInv
      <4> QED BY <3>2, <4>1
    <3>3. CASE k = i
      <4>1. todo'[k] = todo[k] - 1
        BY <1>1, <1>4, <3>1, <3>3 DEF TodoInv
      <4>2. <<k, n>> # x <=> n # todo[k]
        BY <3>3
      <4>3. todo[k] \in Nat
        BY <3>1
      <4> HIDE DEF x
      <4> QED BY <3>1, <4>1, <4>2, <4>3
    <3> QED BY <3>2, <3>3
  <2>3. x \in Pending
    BY <1>1, <1>3, <1>4 DEF Pending
  <2> HIDE DEF x
  <2>4. \A p \in Announced \X (1 .. NumStep) :
            p[2] <= todo'[p[1]] <=> p[2] <= todo[p[1]] /\ p # x
    BY <2>2
  <2> QED BY <2>1, <2>3, <2>4 DEF Pending
<1> HIDE DEF x
<1>8. /\ IsFiniteSet(Pending) /\ Cardinality(Pending) \in Nat
      /\ Cardinality(Receivers) \in Nat
  BY <1>1, CountsFinite
<1>9. Cardinality(Pending') = Cardinality(Pending) - 1
  BY <1>7, <1>8, FS_RemoveElement
<1>10. mq_sem \in Nat /\ IsFiniteSet(channel) /\ Cardinality(channel) \in Nat
       /\ mq_sem + Cardinality(Receivers) = Cardinality(channel) + Cardinality(Pending)
  BY FS_CardinalityType DEF TokensInv, TokensMatch, Receivers
<1>11. IsFiniteSet(channel') /\ Cardinality(channel') = Cardinality(channel) + 1
  BY <1>5, <1>10, FS_AddElement
<1>12. mq_sem' + Cardinality(Receivers') = Cardinality(channel') + Cardinality(Pending')
  BY <1>3, <1>4, <1>8, <1>9, <1>10, <1>11
<1> QED BY <1>4, <1>10, <1>11, <1>12 DEF TokensMatch, Receivers

LEMMA TokensSampler ==
    ASSUME TokensInv, NEW i \in Sampler, SamplerStep(i)
    PROVE  TokensInv'
<1>1. TurnsInv' /\ TodoInv'
  BY TurnsSampler, TodoSampler DEF TokensInv
<1>2. ASSUME SampleOnce(i) \/ Sampled(i) \/ SetStopEvent(i)
      PROVE  mq_sem' \in Nat /\ IsFiniteSet(channel') /\ TokensMatch'
  <2>1. PICK from \in {"sample", "set"}, to \in {"send", "set", "sampled", "end"} :
            Goto(S(i), from, to)
    BY <1>2 DEF SampleOnce, Sampled, SetStopEvent
  <2>2. mq_sem' = mq_sem /\ channel' = channel /\ todo' = todo
    BY <1>2 DEF SampleOnce, Sampled, SetStopEvent, signalVars, samplerVars, queueVars
  <2>3. conf' = conf /\ Receivers' = Receivers /\ Announced' = Announced
    BY <2>1, SamplerMoves DEF TokensInv, Outside
  <2>4. Pending' = Pending
    BY <2>2, <2>3, SplitSame DEF Pending
  <2> QED BY <2>2, <2>3, <2>4, TokensSame DEF TokensInv
<1> QED BY <1>1, <1>2, TokensBegin, TokensSend DEF TokensInv, SamplerStep

LEMMA WorkerMoves ==
    ASSUME TurnsInv, NEW w \in Worker, NEW from, NEW to, Goto(w, from, to)
    PROVE  /\ conf' = conf /\ Sampler' = Sampler /\ Worker' = Worker /\ epoch' = epoch
           /\ pc[w] = from /\ pc'[w] = to
           /\ \A i \in Sampler : pc'[S(i)] = pc[S(i)]
           /\ \A v \in Worker : v # w => pc'[v] = pc[v]
           /\ Announced' = Announced
<1>1. /\ conf' = conf /\ Sampler' = Sampler /\ Worker' = Worker /\ epoch' = epoch
      /\ pc[w] = from
  BY NoneChanges DEF Goto
<1>2. /\ pc'[w] = to
      /\ \A i \in Sampler : pc'[S(i)] = pc[S(i)]
      /\ \A v \in Worker : v # w => pc'[v] = pc[v]
  BY Processes DEF TurnsInv, Goto
<1>3. Announced' = Announced
  BY <1>1, <1>2 DEF Announced
<1> QED BY <1>1, <1>2, <1>3

(* Who acquires waits for a message; who receives has taken it.            *)
LEMMA TokensWorker ==
    ASSUME TokensInv, NEW w \in Worker, WorkerStep(w)
    PROVE  TokensInv'
<1>1. conf \in Configurations /\ TurnsInv /\ TodoInv
  BY DEF TokensInv, TurnsInv
<1>2. PICK from \in {"wait", "acquire", "recv", "train"}, to \in {"acquire", "recv", "end", "train"} :
        Goto(w, from, to)
  BY DEF WorkerStep, WaitStopEvent, Acquire, AcquireTimeout, RecvBatch, Train
<1>3. /\ conf' = conf /\ Sampler' = Sampler /\ Worker' = Worker /\ Announced' = Announced
      /\ pc[w] = from /\ pc'[w] = to
      /\ \A i \in Sampler : pc'[S(i)] = pc[S(i)]
      /\ \A v \in Worker : v # w => pc'[v] = pc[v]
  BY <1>1, <1>2, WorkerMoves
<1>4. todo' = todo /\ NumStep' = NumStep /\ \A i : LocalSteps(i)' = LocalSteps(i)
  BY <1>3, SplitSame
     DEF WorkerStep, WaitStopEvent, Acquire, AcquireTimeout, RecvBatch, Train, samplerVars
<1>5. TodoInv' /\ Pending' = Pending
  BY <1>1, <1>3, <1>4 DEF TodoInv, Pending
<1>6. TurnsInv'
  BY <1>1, TurnsWorker
<1>7. /\ IsFiniteSet(Receivers) /\ Cardinality(Receivers) \in Nat
      /\ Cardinality(Pending) \in Nat
  BY <1>1, CountsFinite
<1>8. mq_sem \in Nat /\ IsFiniteSet(channel) /\ Cardinality(channel) \in Nat
      /\ mq_sem + Cardinality(Receivers) = Cardinality(channel) + Cardinality(Pending)
  BY FS_CardinalityType DEF TokensInv, TokensMatch, Receivers
<1>9. ASSUME Acquire(w)
      PROVE  mq_sem' \in Nat /\ IsFiniteSet(channel') /\ TokensMatch'
  <2>1. Goto(w, "acquire", "recv") /\ mq_sem' = mq_sem - 1 /\ mq_sem > 0 /\ channel' = channel
    BY <1>9 DEF Acquire, queueVars
  <2>2. pc[w] = "acquire" /\ pc'[w] = "recv"
    BY <1>1, <2>1, WorkerMoves
  <2>3. Receivers' = Receivers \cup {w} /\ w \notin Receivers
    BY <1>3, <2>2 DEF Receivers
  <2>4. Cardinality(Receivers') = Cardinality(Receivers) + 1
    BY <1>7, <2>3, FS_AddElement
  <2>5. mq_sem' + Cardinality(Receivers') = Cardinality(channel') + Cardinality(Pending')
    BY <1>5, <1>7, <1>8, <2>1, <2>4
  <2> QED BY <1>8, <2>1, <2>5 DEF TokensMatch, Receivers
<1>10. ASSUME RecvBatch(w)
       PROVE  mq_sem' \in Nat /\ IsFiniteSet(channel') /\ TokensMatch'
  <2>1. Goto(w, "recv", "train") /\ mq_sem' = mq_sem
    BY <1>10 DEF RecvBatch, signalVars
  <2>2. PICK m \in channel : channel' = channel \ {m}
    BY <1>10 DEF RecvBatch, Channel!Recv
  <2>3. pc[w] = "recv" /\ pc'[w] = "train"
    BY <1>1, <2>1, WorkerMoves
  <2>4. Receivers' = Receivers \ {w} /\ w \in Receivers
    BY <1>3, <2>3 DEF Receivers
  <2>5. Cardinality(Receivers') = Cardinality(Receivers) - 1
    BY <1>7, <2>4, FS_RemoveElement
  <2>6. IsFiniteSet(channel') /\ Cardinality(channel') = Cardinality(channel) - 1
    BY <1>8, <2>2, FS_RemoveElement
  <2>7. mq_sem' + Cardinality(Receivers') = Cardinality(channel') + Cardinality(Pending')
    BY <1>5, <1>7, <1>8, <2>1, <2>5, <2>6
  <2> QED BY <1>8, <2>1, <2>6, <2>7 DEF TokensMatch, Receivers
<1>11. ASSUME WaitStopEvent(w) \/ AcquireTimeout(w) \/ Train(w)
       PROVE  mq_sem' \in Nat /\ IsFiniteSet(channel') /\ TokensMatch'
  <2>1. PICK a \in {"wait", "acquire", "train"}, b \in {"acquire", "end"} : Goto(w, a, b)
    BY <1>11 DEF WaitStopEvent, AcquireTimeout, Train
  <2>2. pc[w] # "recv" /\ pc'[w] # "recv"
    BY <1>1, <2>1, WorkerMoves
  <2>3. Receivers' = Receivers
    BY <1>3, <2>2 DEF Receivers
  <2>4. mq_sem' = mq_sem /\ channel' = channel
    BY <1>11 DEF WaitStopEvent, AcquireTimeout, Train, signalVars, queueVars
  <2> QED BY <1>5, <1>8, <2>3, <2>4, TokensSame DEF TokensInv
<1> QED BY <1>5, <1>6, <1>9, <1>10, <1>11 DEF TokensInv, WorkerStep

(* Where the samplers and workers are on the two sides of a barrier.       *)
LEMMA BarrierMoves ==
    ASSUME TurnsInv, GlobalBarrier
    PROVE  /\ conf' = conf /\ Sampler' = Sampler /\ Worker' = Worker /\ Proc' = Proc
           /\ pc' = [p \in Proc |-> AfterBarrier(p)]
           /\ \A w \in Worker : pc[w] # "recv" /\ pc'[w] \notin {"recv", "train", "end"}
           /\ \/ /\ \A p \in Proc : pc[p] = "run"
                 /\ \A i \in Sampler : pc'[S(i)] = "begin"
                 /\ \A p \in Proc : epoch'[p] = epoch[p]
                 /\ todo' = [i \in Sampler |-> todo[i]]
              \/ /\ \A i \in Sampler : \/ pc[S(i)] = "start" /\ pc'[S(i)] = "sample"
                                       \/ pc[S(i)] = "sampled" /\ pc'[S(i)] = "set"
                 /\ \A p \in Proc : epoch'[p] = epoch[p]
                 /\ Opening /\ Working'
                 /\ todo' = [i \in Sampler |-> todo[i]]
              \/ /\ \A p \in Proc : pc[p] = "end" /\ epoch'[p] = epoch[p] + 1
                 /\ \A i \in Sampler : \/ pc'[S(i)] = "begin" /\ epoch[S(i)] + 1 < num_epoch
                                       \/ pc'[S(i)] = "run_end"
                 /\ Working
                 /\ todo' = [i \in Sampler |-> LocalSteps(i)]
              \/ /\ \A p \in Proc : pc[p] = "run_end" /\ pc'[p] = "exited"
                 /\ \A p \in Proc : epoch'[p] = epoch[p]
                 /\ todo' = [i \in Sampler |-> todo[i]]
<1>1. /\ \A p \in Proc : pc[p] \in GlobalWaits
      /\ pc' = [p \in Proc |-> AfterBarrier(p)]
      /\ epoch' = [p \in Proc |-> IF pc[p] = "end" THEN epoch[p] + 1 ELSE epoch[p]]
      /\ todo' = [i \in Sampler |-> IF pc[S(i)] = "end" THEN LocalSteps(i) ELSE todo[i]]
      /\ conf' = conf
  BY DEF GlobalBarrier
<1>2. \A p \in Proc : pc'[p] = AfterBarrier(p)
  BY <1>1
<1>3. Sampler' = Sampler /\ Worker' = Worker /\ Proc' = Proc
  BY <1>1, NoneChanges
<1>0. Sampler # {}
  BY ConfNumbers DEF TurnsInv, Sampler
<1>4. \A w \in Worker : pc[w] # "recv" /\ pc'[w] \notin {"recv", "train", "end"}
  <2>1. \A w \in Worker : pc[w] \in GlobalWaits /\ pc'[w] = AfterBarrier(w) /\ pc[w] # "sampled"
    BY <1>1, <1>2, Processes DEF TurnsInv, Stretch, Assembling, Opening, Working
  <2> QED BY <2>1, Processes DEF AfterBarrier, GlobalWaits, EpochStart
<1>5. CASE Assembling("run")
  <2>1. \A p \in Proc : pc'[p] = EpochStart(p) /\ epoch'[p] = epoch[p] /\ pc[p] = "run"
    BY <1>1, <1>2, <1>5 DEF Assembling, AfterBarrier
  <2>2. \A i \in Sampler : pc'[S(i)] = "begin" /\ pc[S(i)] = "run"
    BY <2>1, Processes DEF EpochStart
  <2>3. todo' = [i \in Sampler |-> todo[i]]
    BY <1>1, <2>2
  <2> QED BY <1>1, <1>3, <1>4, <2>1, <2>2, <2>3
<1>6. CASE Opening
  <2>1. /\ \A i \in Sampler : pc[S(i)] = IF conf.pipeline THEN "start" ELSE "sampled"
        /\ \A w \in Worker : pc[w] = "start"
    BY <1>1, <1>6, Processes DEF Opening, GlobalWaits
  <2>2. \A p \in Proc : epoch'[p] = epoch[p]
    BY <1>1, <2>1, Processes
  <2>3. /\ \A i \in Sampler : pc'[S(i)] = IF conf.pipeline THEN "sample" ELSE "set"
        /\ \A w \in Worker : pc'[w] \in {"wait", "acquire"}
    BY <1>2, <2>1, Processes DEF AfterBarrier
  <2>4. Working'
    BY <1>1, <2>3, NoneChanges DEF Working
  <2>5. todo' = [i \in Sampler |-> todo[i]]
    BY <1>1, <2>1
  <2> QED BY <1>1, <1>3, <1>4, <1>6, <2>1, <2>2, <2>3, <2>4, <2>5
<1>7. CASE Working
  <2>1. \A p \in Proc : pc[p] = "end"
    BY <1>1, <1>7, Processes DEF Working, GlobalWaits
  <2>2. \A p \in Proc : epoch'[p] = epoch[p] + 1
    BY <1>1, <2>1
  <2>3. \A p \in Proc : pc'[p] = IF epoch[p] + 1 < num_epoch THEN EpochStart(p) ELSE "run_end"
    BY <1>2, <2>1 DEF AfterBarrier
  <2>4. \A i \in Sampler : \/ pc'[S(i)] = "begin" /\ epoch[S(i)] + 1 < num_epoch
                           \/ pc'[S(i)] = "run_end"
    BY <2>3, Processes DEF EpochStart
  <2>5. todo' = [i \in Sampler |-> LocalSteps(i)]
    BY <1>1, <2>1, Processes
  <2> QED BY <1>1, <1>3, <1>4, <1>7, <2>1, <2>2, <2>4, <2>5
<1>8. CASE Assembling("run_end")
  <2>1. \A p \in Proc : pc[p] = "run_end" /\ pc'[p] = "exited" /\ epoch'[p] = epoch[p]
    BY <1>1, <1>2, <1>8 DEF Assembling, AfterBarrier
  <2>2. todo' = [i \in Sampler |-> todo[i]]
    BY <1>1, <2>1, Processes
  <2> QED BY <1>1, <1>3, <1>4, <2>1, <2>2
<1>9. ~ Assembling("exited")
  BY <1>0, <1>1, Processes DEF Assembling, GlobalWaits
<1> QED BY <1>5, <1>6, <1>7, <1>8, <1>9 DEF TurnsInv, Stretch

LEMMA TokensBarrier ==
    ASSUME TokensInv, GlobalBarrier
    PROVE  TokensInv'
<1>1. conf \in Configurations /\ TurnsInv /\ TodoInv /\ TurnsInv'
  BY TurnsBarrier DEF TokensInv, TurnsInv
<1>2. /\ conf' = conf /\ Sampler' = Sampler /\ Worker' = Worker
      /\ \A w \in Worker : pc[w] # "recv" /\ pc'[w] # "recv"
  BY <1>1, BarrierMoves
<1>3. NumStep' = NumStep /\ \A i : LocalSteps(i)' = LocalSteps(i)
  BY <1>2, SplitSame
<1>4. mq_sem' = mq_sem /\ channel' = channel
  BY DEF GlobalBarrier, signalVars, queueVars
<1>5. Receivers' = Receivers
  BY <1>2 DEF Receivers
<1>6. \A i \in Sampler : LocalSteps(i) \in 0 .. NumStep /\ todo[i] \in 0 .. NumStep
  BY <1>1, LocalFacts DEF TodoInv
<1> SUFFICES TodoInv' /\ Pending' = Pending
  BY <1>1, <1>4, <1>5, TokensSame DEF TokensInv
<1>7. CASE /\ \A i \in Sampler : /\ pc[S(i)] \in {"run", "run_end"}
                                 /\ pc'[S(i)] \in {"begin", "exited"}
                                 /\ pc[S(i)] = "run_end" => pc'[S(i)] = "exited"
           /\ todo' = [i \in Sampler |-> todo[i]]
  <2>1. TodoInv'
    BY <1>1, <1>2, <1>3, <1>6, <1>7 DEF TodoInv
  <2>2. Announced = {} /\ Announced' = {}
    BY <1>2, <1>7 DEF Announced
  <2> QED BY <2>1, <2>2 DEF Pending
<1>8. CASE /\ \A i \in Sampler : \/ pc[S(i)] = "start" /\ pc'[S(i)] = "sample"
                                 \/ pc[S(i)] = "sampled" /\ pc'[S(i)] = "set"
           /\ todo' = [i \in Sampler |-> todo[i]]
  <2>1. TodoInv'
    BY <1>1, <1>2, <1>3, <1>6, <1>8 DEF TodoInv
  <2>2. Announced = Sampler /\ Announced' = Sampler
    BY <1>2, <1>8 DEF Announced
  <2>3. todo' = todo
    BY <1>1, <1>8 DEF TodoInv
  <2> QED BY <1>3, <2>1, <2>2, <2>3 DEF Pending
<1>9. CASE /\ \A i \in Sampler : pc[S(i)] = "end" /\ pc'[S(i)] \in {"begin", "run_end"}
           /\ todo' = [i \in Sampler |-> LocalSteps(i)]
  <2>1. TodoInv'
    BY <1>1, <1>2, <1>3, <1>6, <1>9 DEF TodoInv
  <2>2. Announced' = {} /\ \A i \in Sampler : todo[i] = 0
    BY <1>1, <1>2, <1>9 DEF Announced, TodoInv
  <2>3. Pending' = {}
    BY <2>2 DEF Pending
  <2>4. Pending = {}
    BY <2>2 DEF Pending, Announced
  <2> QED BY <2>1, <2>3, <2>4
<1> QED BY <1>1, <1>7, <1>8, <1>9, BarrierMoves, Processes

LEMMA TokensStep == TokensInv /\ [Next]_vars => TokensInv'
<1> SUFFICES ASSUME TokensInv, [Next]_vars PROVE TokensInv'
  OBVIOUS
<1>1. CASE Ended \/ UNCHANGED vars
  <2>1. TurnsInv' /\ UNCHANGED vars
    BY <1>1, TurnsStep DEF TokensInv, Ended
  <2>2. /\ conf' = conf /\ pc' = pc /\ todo' = todo /\ mq_sem' = mq_sem /\ channel' = channel
        /\ Sampler' = Sampler /\ Worker' = Worker
    BY <2>1, NoneChanges DEF vars, procVars, samplerVars, signalVars, queueVars
  <2>3. NumStep' = NumStep /\ \A i : LocalSteps(i)' = LocalSteps(i)
    BY <2>2, SplitSame
  <2>4. TodoInv' /\ Receivers' = Receivers /\ Pending' = Pending
    BY <2>2, <2>3 DEF TokensInv, TodoInv, Receivers, Pending, Announced
  <2> QED BY <2>1, <2>2, <2>4, TokensSame DEF TokensInv
<1> QED BY <1>1, TokensSampler, TokensWorker, TokensBarrier DEF Next

(* The semaphore counts what it stands for, whoever takes a mini-batch and *)
(* when: a worker that has acquired it finds a message in the queue or     *)
(* still to come, and none is left over when the count is 0.               *)
THEOREM SemaphoreCounts == Spec => []TokensMatch
<1>1. TokensInv => TokensMatch
  BY DEF TokensInv
<1> QED BY <1>1, TokensInit, TokensStep, PTL DEF Spec

------------------------------------------------------------------------------
(***************************************************************************)
(* Types.                                                                  *)
(***************************************************************************)

(* The mini-batches the samplers have announced in this epoch. *)
Promised == {p \in Announced \X (1 .. NumStep) : p[2] <= LocalSteps(p[1])}

(* The epoch the run is in; and who leaves an epoch has seen that nothing  *)
(* is left, and nothing is announced before the next one.                  *)
EpochInv ==
    /\ epoch \in [Proc -> 0 .. num_epoch]
    /\ Assembling("run") \/ Opening \/ Working => \A p \in Proc : epoch[p] < num_epoch
    /\ Working /\ (\E w \in Worker : pc[w] = "end") => mq_sem = 0
    /\ mq_sem <= Cardinality(Promised)

Drawn(i) == LocalSteps(i) - todo[i] + (IF pc[S(i)] = "send" THEN 1 ELSE 0)

(* The shuffler of a sampler is never ahead of it: where the script gives  *)
(* the last sampler fewer steps than its shuffler has, it stays behind.    *)
ShufflerInv ==
    /\ shuffler \in [Sampler -> [epoch : Nat, step : Nat, initialized : BOOLEAN]]
    /\ task \in [Sampler -> -1 .. num_epoch * NumStep - 1]
    /\ \A i \in Sampler :
        /\ shuffler[i].epoch <= epoch[S(i)]
        /\ shuffler[i].initialized /\ shuffler[i].epoch = epoch[S(i)]
                => shuffler[i].step + 1 <= Drawn(i)
        /\ pc[S(i)] = "send" => task[i] # -1

WorkerInv ==
    /\ channel \subseteq Message /\ received \subseteq Message
    /\ batch \in [Worker -> Message \cup {NoMessage}]
    /\ \A w \in Worker : pc[w] = "train" => batch[w] \in Message
    /\ trained \subseteq [by : Worker, epoch : 0 .. num_epoch - 1, message : Message]
    /\ cpu_model \in [Worker -> SUBSET Nat]
    /\ sampler_stop_event \in [Sampler -> BOOLEAN]

TypeInv == TokensInv /\ EpochInv /\ ShufflerInv /\ WorkerInv
(* A key of an epoch of the run. *)
LEMMA KeyBound ==
    ASSUME NEW N \in Nat \ {0}, NEW M \in Nat \ {0}, NEW e \in Nat, e < M,
           NEW x \in Nat, x < N
    PROVE  e * N + x \in 0 .. M * N - 1
<1>1. e * N \in Nat /\ (e + 1) * N <= M * N /\ (e + 1) * N = e * N + N
  OBVIOUS
<1>2. M * N \in Nat
  OBVIOUS
<1> QED BY <1>1, <1>2

Position == [epoch : Nat, step : Nat, initialized : BOOLEAN]

(* GetBatch: a step further in the epoch, or the first of the next one.    *)
LEMMA NextFacts ==
    ASSUME conf \in Configurations, NEW i \in Sampler, NEW sh \in Position,
           ShufflerSteps(i) \in Nat \ {0}, NEW next, next = NextBatch(sh, i)
    PROVE  /\ next \in Position /\ next.step < ShufflerSteps(i)
           /\ \/ /\ sh.step + 1 < ShufflerSteps(i)
                 /\ next.epoch = sh.epoch /\ next.step = sh.step + 1
                 /\ next.initialized = sh.initialized
              \/ /\ sh.step + 1 >= ShufflerSteps(i)
                 /\ next.epoch = (IF sh.initialized THEN sh.epoch + 1 ELSE 0)
                 /\ next.step = 0
<1>1. sh.epoch \in Nat /\ sh.step \in Nat /\ sh.initialized \in BOOLEAN
  BY DEF Position
<1>2. CASE sh.step + 1 < ShufflerSteps(i)
  <2>1. next = [sh EXCEPT !.step = @ + 1]
    BY <1>2 DEF NextBatch
  <2>2. next \in Position /\ next.epoch = sh.epoch /\ next.step = sh.step + 1
        /\ next.initialized = sh.initialized
    BY <1>1, <2>1 DEF Position
  <2> QED BY <1>2, <2>2
<1>3. CASE ~ (sh.step + 1 < ShufflerSteps(i))
  <2> DEFINE e == IF sh.initialized THEN sh.epoch + 1 ELSE 0
  <2>1. next = [epoch |-> e, step |-> 0, initialized |-> TRUE]
    BY <1>3, Zenon DEF NextBatch
  <2>2. e \in Nat
    BY <1>1
  <2>3. sh.step + 1 >= ShufflerSteps(i)
    BY <1>1, <1>3
  <2> HIDE DEF e
  <2>4. PICK yes : yes = TRUE
    OBVIOUS
  <2>5. next = [epoch |-> e, step |-> 0, initialized |-> yes] /\ yes \in BOOLEAN
    BY <2>1, <2>4, Zenon
  <2>6. next \in Position /\ next.epoch = e /\ next.step = 0
    BY <2>2, <2>5 DEF Position
  <2> QED BY <2>3, <2>6 DEF e
<1> QED BY <1>2, <1>3

(* What is announced is no more than the epoch has. *)
LEMMA PromisedBound ==
    ASSUME conf \in Configurations
    PROVE  /\ IsFiniteSet(Promised) /\ Cardinality(Promised) \in Nat
           /\ Cardinality(Promised) <= NumStep
<1>1. NumStep \in Nat /\ num_sample_worker \in Nat \ {0}
  BY ConfNumbers
<1> DEFINE T == 0 .. NumStep - 1
           f == [p \in Promised |-> StepOffset(p[1]) + p[2] - 1]
<1>2. ASSUME NEW p \in Promised
      PROVE  /\ p[1] \in Sampler /\ p[2] \in 1 .. NumStep /\ p[2] <= LocalSteps(p[1])
             /\ StepOffset(p[1]) \in Nat /\ StepOffset(p[1]) + LocalSteps(p[1]) <= NumStep
             /\ f[p] = StepOffset(p[1]) + p[2] - 1
             /\ p = <<p[1], p[2]>>
  <2>1. p[1] \in Sampler /\ p[2] \in 1 .. NumStep /\ p[2] <= LocalSteps(p[1])
        /\ p = <<p[1], p[2]>>
    BY DEF Promised, Announced
  <2>2. /\ LocalSteps(p[1]) \in 0 .. NumStep /\ StepOffset(p[1]) \in Nat
        /\ LocalSteps(p[1]) <= ShufflerSteps(p[1])
        /\ StepOffset(p[1]) + ShufflerSteps(p[1]) <= NumStep
    BY <2>1, LocalFacts
  <2>3. ShufflerSteps(p[1]) \in Int
    BY <1>1, <2>1 DEF ShufflerSteps, StepOffset, Sampler
  <2> QED BY <1>1, <2>1, <2>2, <2>3
<1>3. ASSUME NEW p \in Promised
      PROVE  f[p] \in T
  <2>1. LocalSteps(p[1]) \in Nat
    BY <1>1, <1>2, LocalFacts
  <2>2. PICK o \in Nat, k \in Nat, l \in Nat :
            o = StepOffset(p[1]) /\ k = p[2] /\ l = LocalSteps(p[1])
    BY <1>1, <1>2, <2>1
  <2>3. f[p] = o + k - 1 /\ k >= 1 /\ k <= l /\ o + l <= NumStep
    BY <1>1, <1>2, <2>2
  <2> HIDE DEF f
  <2> QED BY <1>1, <2>3
<1>4. ASSUME NEW p \in Promised, NEW r \in Promised, p[1] < r[1]
      PROVE  f[p] # f[r]
  <2> DEFINE q == NumStep \div num_sample_worker
  <2>1. /\ p[1] \in Nat /\ r[1] \in Nat /\ p[1] + 1 <= r[1]
        /\ p[1] # num_sample_worker - 1 /\ q \in Nat
    BY <1>1, <1>2, <1>4 DEF Sampler
  <2>2. /\ StepOffset(p[1]) = q * p[1] /\ StepOffset(r[1]) = q * r[1]
        /\ LocalSteps(p[1]) = q
    BY <2>1 DEF StepOffset, LocalSteps
  <2>3. p[2] \in Nat /\ r[2] \in Nat /\ p[2] <= q /\ r[2] >= 1
    BY <1>1, <1>2, <2>2
  <2>4. f[p] = q * p[1] + p[2] - 1 /\ f[r] = q * r[1] + r[2] - 1
    BY <1>2, <2>2
  <2> HIDE DEF q, f
  <2>5. PICK x \in Nat, y \in Nat : x = p[1] /\ y = r[1]
    BY <2>1
  <2>6. q \in Nat /\ x + 1 <= y /\ f[p] = q * x + p[2] - 1 /\ f[r] = q * y + r[2] - 1
    BY <2>1, <2>4, <2>5
  <2>7. q * x + q = q * (x + 1) /\ q * x \in Nat
    BY <2>6
  <2>8. q * (x + 1) <= q * y /\ q * y \in Nat
    BY <2>6
  <2>9. PICK a \in Nat, b \in Nat : a = q * x /\ b = q * y
    BY <2>7, <2>8
  <2>10. a + q <= b /\ f[p] = a + p[2] - 1 /\ f[r] = b + r[2] - 1
    BY <2>6, <2>7, <2>8, <2>9
  <2> QED BY <2>3, <2>6, <2>10
<1>5. ASSUME NEW p \in Promised, NEW r \in Promised, f[p] = f[r]
      PROVE  p = r
  <2>1. p[1] \in Nat /\ r[1] \in Nat /\ ~ (p[1] < r[1]) /\ ~ (r[1] < p[1])
    BY <1>2, <1>4, <1>5 DEF Sampler
  <2>2. p[1] = r[1]
    BY <2>1
  <2>3. StepOffset(p[1]) + p[2] - 1 = StepOffset(r[1]) + r[2] - 1
        /\ StepOffset(p[1]) = StepOffset(r[1]) /\ StepOffset(p[1]) \in Nat
        /\ p[2] \in Nat /\ r[2] \in Nat
    BY <1>1, <1>2, <1>5, <2>2
  <2>4. p[2] = r[2]
    BY <2>3
  <2>5. p = <<p[1], p[2]>> /\ r = <<r[1], r[2]>>
    BY <1>2
  <2> QED BY <2>2, <2>4, <2>5, Zenon
<1>6. f \in Injection(Promised, T)
  <2>1. f \in [Promised -> T]
    BY <1>3
  <2> HIDE DEF f
  <2> QED BY <1>5, <2>1 DEF Injection, IsInjective
<1>7. IsFiniteSet(T) /\ Cardinality(T) = NumStep
  BY <1>1, FS_Interval
<1>8. IsFiniteSet(Promised) /\ Cardinality(Promised) <= Cardinality(T)
  BY <1>6, <1>7, FS_Injection
<1> QED BY <1>7, <1>8, FS_CardinalityType

LEMMA TypeInit == Init => TypeInv
<1> SUFFICES ASSUME Init PROVE TypeInv
  OBVIOUS
<1>1. conf \in Configurations /\ TokensInv
  BY TokensInit DEF Init
<1>2. /\ num_epoch \in Nat \ {0} /\ NumStep \in Nat \ {0}
  BY <1>1, ConfNumbers
<1>3. EpochInv
  <2>1. /\ epoch = [p \in Proc |-> 0] /\ mq_sem = 0 /\ \A p \in Proc : pc[p] = "run"
    BY DEF Init
  <2>2. ~ Working
    <3>1. 0 \in Sampler
      BY <1>1, ConfNumbers DEF Sampler
    <3> QED BY <2>1, <3>1, Processes DEF Working
  <2>3. mq_sem <= Cardinality(Promised)
    BY <1>1, <2>1, PromisedBound
  <2>4. epoch \in [Proc -> 0 .. num_epoch] /\ \A p \in Proc : epoch[p] < num_epoch
    BY <1>2, <2>1
  <2> QED BY <2>2, <2>3, <2>4 DEF EpochInv
<1>4. ShufflerInv
  <2>1. \A i \in Sampler : ShufflerSteps(i) \in Nat /\ StepOffset(i) \in Nat
    <3> TAKE i \in Sampler
    <3>1. ShufflerSteps(i) \in Int /\ LocalSteps(i) \in Nat /\ LocalSteps(i) <= ShufflerSteps(i)
          /\ StepOffset(i) \in Nat
      BY <1>1, <1>2, ConfNumbers, LocalFacts DEF ShufflerSteps, StepOffset, Sampler
    <3> QED BY <3>1
  <2>2. ASSUME NEW i \in Sampler
        PROVE  /\ shuffler[i] \in Position /\ shuffler[i].epoch = 0
               /\ shuffler[i].initialized = FALSE
    <3>1. shuffler[i] = [epoch |-> 0, step |-> ShufflerSteps(i), initialized |-> FALSE]
      BY Zenon DEF Init, NewShuffler
    <3>2. PICK no : no = FALSE
      OBVIOUS
    <3>3. shuffler[i] = [epoch |-> 0, step |-> ShufflerSteps(i), initialized |-> no]
          /\ no \in BOOLEAN
      BY <3>1, <3>2, Zenon
    <3>4. shuffler[i] \in Position /\ shuffler[i].epoch = 0 /\ shuffler[i].initialized = no
      BY <2>1, <3>3 DEF Position
    <3> QED BY <3>2, <3>4
  <2>3. DOMAIN shuffler = Sampler /\ shuffler = [i \in Sampler |-> shuffler[i]]
    BY DEF Init
  <2>4. shuffler \in [Sampler -> Position]
    BY <2>2, <2>3, Zenon
  <2>5. task = [i \in Sampler |-> -1] /\ num_epoch * NumStep \in Nat
    BY <1>2 DEF Init
  <2>6. task \in [Sampler -> -1 .. num_epoch * NumStep - 1]
    <3>1. PICK x \in Nat : x = num_epoch * NumStep
      BY <2>5
    <3> QED BY <2>5, <3>1
  <2>7. \A i \in Sampler : epoch[S(i)] = 0 /\ pc[S(i)] = "run"
    BY Processes DEF Init
  <2>8. ASSUME NEW i \in Sampler
        PROVE  /\ shuffler[i].epoch <= epoch[S(i)]
               /\ ~ shuffler[i].initialized
               /\ pc[S(i)] # "send"
    <3>0. shuffler[i].epoch = 0
      BY <2>2, Zenon
    <3>1. shuffler[i].epoch <= epoch[S(i)] /\ pc[S(i)] # "send"
      BY <2>7, <3>0
    <3>2. ~ shuffler[i].initialized
      BY <2>2, Zenon
    <3> QED BY <3>1, <3>2
  <2> QED BY <2>4, <2>6, <2>8 DEF ShufflerInv, Position
<1>5. WorkerInv
  <2>1. channel = {} /\ received = {}
    BY DEF Init, Channel!ChannelInit
  <2>2. \A w \in Worker : pc[w] # "train"
    BY Processes DEF Init
  <2>3. batch \in [Worker -> Message \cup {NoMessage}]
    BY DEF Init
  <2> QED BY <2>1, <2>2, <2>3 DEF Init, WorkerInv
<1> QED BY <1>1, <1>3, <1>4, <1>5 DEF TypeInv

------------------------------------------------------------------------------
(* Who takes a step is in Opening or Working, and the epoch of the run is  *)
(* one of its epochs.                                                      *)
LEMMA EpochNow ==
    ASSUME TurnsInv, EpochInv, Opening \/ Working, NEW p \in Proc
    PROVE  epoch[p] \in Nat /\ epoch[p] < num_epoch /\ epoch[p] \in 0 .. num_epoch - 1
<1>1. epoch[p] \in 0 .. num_epoch /\ epoch[p] < num_epoch /\ num_epoch \in Nat
  BY ConfNumbers DEF EpochInv, TurnsInv
<1> QED BY <1>1

LEMMA EpochSampler ==
    ASSUME TypeInv, NEW i \in Sampler, SamplerStep(i)
    PROVE  EpochInv'
<1>1. conf \in Configurations /\ TurnsInv /\ TodoInv /\ EpochInv /\ NumStep \in Nat
  BY ConfNumbers DEF TypeInv, TokensInv, TurnsInv
<1>2. PICK from, to :
        /\ Goto(S(i), from, to)
        /\ from \in {"begin", "sample", "send", "set"} /\ to \notin {"begin", "run"}
        /\ to \notin Outside
        /\ IF from = "begin" THEN mq_sem' = mq_sem + LocalSteps(i) ELSE mq_sem' = mq_sem
  BY DEF SamplerStep, BeginEpoch, SampleOnce, Send, Sampled, SetStopEvent, signalVars, Outside
<1>3. /\ conf' = conf /\ Sampler' = Sampler /\ epoch' = epoch
      /\ pc[S(i)] = from /\ pc'[S(i)] = to
      /\ \A w \in Worker : pc'[w] = pc[w]
      /\ from # "begin" => Announced' = Announced
      /\ from = "begin" => i \notin Announced /\ Announced' = Announced \cup {i}
  BY <1>1, <1>2, SamplerMoves DEF Outside
<1>4. /\ NumStep' = NumStep /\ num_epoch' = num_epoch /\ \A k : LocalSteps(k)' = LocalSteps(k)
      /\ Proc' = Proc /\ Worker' = Worker
  BY <1>3, SplitSame, NoneChanges
<1>5. Opening \/ Working
  BY <1>1, <1>2, <1>3, WhichStretch
<1>6. \A p \in Proc : epoch[p] < num_epoch
  BY <1>1, <1>5 DEF EpochInv
<1>7. ASSUME Working', NEW w \in Worker, pc'[w] = "end"
      PROVE  mq_sem' = 0
  <2>1. pc[w] = "end"
    BY <1>3, <1>7
  <2>2. ~ Opening
    BY <2>1 DEF Opening
  <2>3. Working /\ from # "begin"
    BY <1>1, <1>3, <1>5, <2>2, WhichStretch
  <2>4. mq_sem = 0
    BY <1>1, <2>1, <2>3 DEF EpochInv
  <2> QED BY <1>2, <2>3, <2>4
<1>8. mq_sem' <= Cardinality(Promised')
  <2>1. mq_sem \in Nat /\ mq_sem <= Cardinality(Promised)
    BY <1>1 DEF EpochInv, TypeInv, TokensInv
  <2>2. Promised' = {p \in Announced' \X (1 .. NumStep) : p[2] <= LocalSteps(p[1])}
    BY <1>4 DEF Promised
  <2>3. CASE from # "begin"
    <3>1. Promised' = Promised
      BY <1>3, <2>2, <2>3 DEF Promised
    <3> QED BY <1>2, <2>1, <2>3, <3>1
  <2>4. CASE from = "begin"
    <3> DEFINE own == {i} \X (1 .. LocalSteps(i))
    <3>1. LocalSteps(i) \in Nat /\ LocalSteps(i) <= NumStep
      BY <1>1, LocalFacts
    <3>2. \A k : k \in 1 .. LocalSteps(i) <=> k \in 1 .. NumStep /\ k <= LocalSteps(i)
      BY <1>1, <3>1
    <3>3. own = {p \in {i} \X (1 .. NumStep) : p[2] <= LocalSteps(p[1])}
      BY <3>2
    <3>4. Promised' = Promised \cup own /\ Promised \cap own = {}
      BY <1>3, <2>2, <2>4, <3>3 DEF Promised
    <3>5. IsFiniteSet(own) /\ Cardinality(own) = LocalSteps(i)
      BY <3>1, OwnShare
    <3>6. IsFiniteSet(Promised) /\ Cardinality(Promised) \in Nat
      BY <1>1, PromisedBound
    <3>7. Cardinality(Promised \cup own)
            = Cardinality(Promised) + Cardinality(own) - Cardinality(Promised \cap own)
      BY <3>5, <3>6, FS_Union
    <3>8. Cardinality(Promised \cap own) = 0
      BY <3>4, FS_EmptySet
    <3> HIDE DEF own
    <3>9. Cardinality(Promised') = Cardinality(Promised) + LocalSteps(i)
      BY <3>1, <3>4, <3>5, <3>6, <3>7, <3>8
    <3> QED BY <1>2, <2>1, <2>4, <3>1, <3>6, <3>9
  <2> QED BY <2>3, <2>4
<1> QED BY <1>1, <1>3, <1>4, <1>6, <1>7, <1>8 DEF EpochInv

LEMMA ShufflerSampler ==
    ASSUME TypeInv, NEW i \in Sampler, SamplerStep(i)
    PROVE  ShufflerInv'
<1>1. /\ conf \in Configurations /\ TurnsInv /\ TodoInv /\ EpochInv /\ ShufflerInv
      /\ NumStep \in Nat \ {0} /\ num_epoch \in Nat \ {0}
  BY ConfNumbers DEF TypeInv, TokensInv, TurnsInv
<1> DEFINE sh == shuffler[i]
           next == NextBatch(sh, i)
<1>2. PICK from, to :
        /\ Goto(S(i), from, to)
        /\ from \in {"begin", "sample", "send", "set"}
        /\ \/ /\ from = "sample" /\ to = "send" /\ todo[i] > 0 /\ todo' = todo
              /\ shuffler' = [shuffler EXCEPT ![i] = next]
              /\ task' = [task EXCEPT ![i] = BatchKey(next, i)]
           \/ /\ from = "send" /\ to # "send" /\ todo' = [todo EXCEPT ![i] = @ - 1]
              /\ shuffler' = shuffler /\ task' = [task EXCEPT ![i] = -1]
           \/ /\ from # "send" /\ to # "send"
              /\ todo' = todo /\ shuffler' = shuffler /\ task' = task
  <2>1. CASE BeginEpoch(i)
    BY <2>1 DEF BeginEpoch, samplerVars
  <2>2. CASE SampleOnce(i)
    BY <2>2 DEF SampleOnce
  <2>3. CASE Send(i)
    BY <2>3 DEF Send
  <2>4. CASE Sampled(i) \/ SetStopEvent(i)
    BY <2>4 DEF Sampled, SetStopEvent, samplerVars
  <2> QED BY <2>1, <2>2, <2>3, <2>4 DEF SamplerStep
<1>3. /\ conf' = conf /\ Sampler' = Sampler /\ epoch' = epoch
      /\ pc[S(i)] = from /\ pc'[S(i)] = to
      /\ \A k \in Sampler : k # i => pc'[S(k)] = pc[S(k)]
  BY <1>1, <1>2, SamplerMoves
<1>4. /\ NumStep' = NumStep /\ num_epoch' = num_epoch /\ \A k : LocalSteps(k)' = LocalSteps(k)
  BY <1>3, SplitSame, NoneChanges
<1>5. Opening \/ Working
  BY <1>1, <1>2, <1>3, WhichStretch
<1>6. epoch[S(i)] \in Nat /\ epoch[S(i)] < num_epoch
  BY <1>1, <1>5, EpochNow, Processes
<1>7. /\ LocalSteps(i) \in Nat /\ todo[i] \in Nat /\ todo[i] <= LocalSteps(i)
      /\ StepOffset(i) \in Nat /\ ShufflerSteps(i) \in Nat
      /\ LocalSteps(i) <= ShufflerSteps(i) /\ StepOffset(i) + ShufflerSteps(i) <= NumStep
  <2>1. /\ LocalSteps(i) \in 0 .. NumStep /\ todo[i] \in 0 .. NumStep /\ todo[i] <= LocalSteps(i)
        /\ StepOffset(i) \in Nat /\ LocalSteps(i) <= ShufflerSteps(i)
        /\ StepOffset(i) + ShufflerSteps(i) <= NumStep
    BY <1>1, LocalFacts DEF TodoInv
  <2>2. ShufflerSteps(i) \in Int
    BY <1>1, <2>1, ConfNumbers DEF ShufflerSteps, Sampler
  <2> QED BY <1>1, <2>1, <2>2
<1>8. /\ shuffler \in [Sampler -> Position] /\ sh \in Position
      /\ task \in [Sampler -> -1 .. num_epoch * NumStep - 1]
      /\ sh.epoch \in Nat /\ sh.step \in Nat
      /\ sh.epoch <= epoch[S(i)]
      /\ sh.initialized /\ sh.epoch = epoch[S(i)] => sh.step + 1 <= Drawn(i)
  BY <1>1 DEF ShufflerInv, Position
<1>9. PICK x \in Nat : x = num_epoch * NumStep
  BY <1>1
<1>10. CASE from = "sample" /\ to = "send"
  <2>1. /\ todo[i] > 0 /\ todo' = todo
        /\ shuffler' = [shuffler EXCEPT ![i] = next]
        /\ task' = [task EXCEPT ![i] = BatchKey(next, i)]
    BY <1>2, <1>10
  <2>2. Drawn(i) = LocalSteps(i) - todo[i]
    BY <1>3, <1>7, <1>10 DEF Drawn
  <2>3. Drawn(i)' = LocalSteps(i) - todo[i] + 1
    BY <1>3, <1>4, <1>10, <2>1 DEF Drawn
  <2>4. PICK nx : nx = next
    OBVIOUS
  <2>5. nx = NextBatch(shuffler[i], i)
    BY <2>4
  <2> HIDE DEF sh, next
  <2>6. /\ nx \in Position /\ nx.step < ShufflerSteps(i)
        /\ \/ /\ sh.step + 1 < ShufflerSteps(i)
              /\ nx.epoch = sh.epoch /\ nx.step = sh.step + 1
              /\ nx.initialized = sh.initialized
           \/ /\ sh.step + 1 >= ShufflerSteps(i)
              /\ nx.epoch = (IF sh.initialized THEN sh.epoch + 1 ELSE 0)
              /\ nx.step = 0
    <3>1. ShufflerSteps(i) \in Nat \ {0}
      BY <1>7, <2>1
    <3> QED BY <1>1, <1>8, <2>5, <3>1, NextFacts DEF sh
  <2>7. nx.epoch \in Nat /\ nx.step \in Nat
    BY <2>6 DEF Position
  <2>8. nx.epoch <= epoch[S(i)]
    BY <1>6, <1>7, <1>8, <2>1, <2>2, <2>6
  <2>9. nx.initialized /\ nx.epoch = epoch[S(i)] => nx.step + 1 <= Drawn(i)'
    <3>1. CASE sh.step + 1 < ShufflerSteps(i)
      <4>1. /\ nx.epoch = sh.epoch /\ nx.step = sh.step + 1
            /\ nx.initialized = sh.initialized
        BY <1>7, <1>8, <2>6, <3>1
      <4> QED BY <1>7, <1>8, <2>2, <2>3, <4>1
    <3>2. CASE ~ (sh.step + 1 < ShufflerSteps(i))
      <4>1. nx.step = 0
        BY <1>7, <1>8, <2>6, <3>2
      <4> QED BY <1>7, <2>3, <4>1
    <3> QED BY <3>1, <3>2
  <2>10. BatchKey(nx, i) \in 0 .. num_epoch * NumStep - 1
    <3>1. BatchKey(nx, i) = nx.epoch * NumStep + (StepOffset(i) + nx.step)
      <4>1. nx.epoch * NumStep \in Nat
        BY <1>1, <2>7
      <4>2. BatchKey(nx, i) = nx.epoch * NumStep + StepOffset(i) + nx.step
        BY DEF BatchKey
      <4> QED BY <1>7, <2>7, <4>1, <4>2
    <3>2. nx.epoch < num_epoch /\ StepOffset(i) + nx.step \in Nat
          /\ StepOffset(i) + nx.step < NumStep
      BY <1>1, <1>6, <1>7, <2>6, <2>7, <2>8
    <3> QED BY <1>1, <2>7, <3>1, <3>2, KeyBound
  <2>11. task'[i] = BatchKey(nx, i) /\ shuffler'[i] = nx
         /\ \A k \in Sampler : k # i => task'[k] = task[k] /\ shuffler'[k] = shuffler[k]
    BY <1>8, <2>1, <2>4
  <2>12. BatchKey(nx, i) \in -1 .. num_epoch * NumStep - 1 /\ BatchKey(nx, i) # -1
    BY <1>9, <2>10
  <2>13. task' \in [Sampler -> -1 .. num_epoch * NumStep - 1]
         /\ shuffler' \in [Sampler -> Position]
    <3>1. shuffler' = [shuffler EXCEPT ![i] = nx]
      BY <2>1, <2>4
    <3>2. task' = [task EXCEPT ![i] = BatchKey(nx, i)]
      BY <2>1, <2>4
    <3>3. shuffler' \in [Sampler -> Position]
      BY <1>8, <2>6, <3>1
    <3>4. task' \in [Sampler -> -1 .. num_epoch * NumStep - 1]
      BY <1>8, <2>12, <3>2
    <3> QED BY <3>3, <3>4
  <2>14. ASSUME NEW k \in Sampler
         PROVE  /\ shuffler'[k].epoch <= epoch[S(k)]
                /\ shuffler'[k].initialized /\ shuffler'[k].epoch = epoch[S(k)]
                        => shuffler'[k].step + 1 <= Drawn(k)'
                /\ pc'[S(k)] = "send" => task'[k] # -1
    <3>1. CASE k = i
      BY <2>8, <2>9, <2>11, <2>12, <3>1
    <3>2. CASE k # i
      <4>1. Drawn(k)' = Drawn(k)
        BY <1>3, <1>4, <2>1, <3>2 DEF Drawn
      <4> QED BY <1>1, <1>3, <2>11, <3>2, <4>1 DEF ShufflerInv
    <3> QED BY <3>1, <3>2
  <2> QED BY <1>3, <1>4, <2>13, <2>14 DEF ShufflerInv, Position
<1>11. CASE to # "send"
  <2>1. /\ shuffler' = shuffler
        /\ task' = IF from = "send" THEN [task EXCEPT ![i] = -1] ELSE task
        /\ todo' = IF from = "send" THEN [todo EXCEPT ![i] = @ - 1] ELSE todo
    BY <1>2, <1>11
  <2>2. task' \in [Sampler -> -1 .. num_epoch * NumStep - 1]
        /\ \A k \in Sampler : k # i => task'[k] = task[k]
    BY <1>8, <1>9, <2>1
  <2>3. todo'[i] = (IF from = "send" THEN todo[i] - 1 ELSE todo[i])
        /\ \A k \in Sampler : k # i => todo'[k] = todo[k]
    BY <1>1, <2>1 DEF TodoInv
  <2>4. Drawn(i)' = Drawn(i)
    BY <1>3, <1>4, <1>7, <1>11, <2>3 DEF Drawn
  <2>5. \A k \in Sampler : k # i => Drawn(k)' = Drawn(k)
    BY <1>3, <1>4, <2>3 DEF Drawn
  <2>6. ASSUME NEW k \in Sampler
        PROVE  /\ shuffler'[k].epoch <= epoch[S(k)]
               /\ shuffler'[k].initialized /\ shuffler'[k].epoch = epoch[S(k)]
                        => shuffler'[k].step + 1 <= Drawn(k)'
               /\ pc'[S(k)] = "send" => task'[k] # -1
    <3>1. Drawn(k)' = Drawn(k)
      BY <2>4, <2>5
    <3> QED BY <1>1, <1>3, <1>11, <2>1, <2>2, <3>1 DEF ShufflerInv
  <2> QED BY <1>3, <1>4, <1>8, <2>1, <2>2, <2>6 DEF ShufflerInv, Position
<1> QED BY <1>2, <1>10, <1>11

LEMMA WorkersSampler ==
    ASSUME TypeInv, NEW i \in Sampler, SamplerStep(i)
    PROVE  WorkerInv'
<1>1. /\ conf \in Configurations /\ TurnsInv /\ TodoInv /\ EpochInv /\ ShufflerInv /\ WorkerInv
      /\ NumStep \in Nat \ {0} /\ num_epoch \in Nat \ {0}
  BY ConfNumbers DEF TypeInv, TokensInv, TurnsInv
<1>2. PICK from, to : Goto(S(i), from, to)
  BY DEF SamplerStep, BeginEpoch, SampleOnce, Send, Sampled, SetStopEvent
<1>3. /\ conf' = conf /\ Sampler' = Sampler
      /\ \A w \in Worker : pc'[w] = pc[w]
  BY <1>1, <1>2, SamplerMoves
<1>4. /\ Worker' = Worker /\ num_epoch' = num_epoch
      /\ batch' = batch /\ trained' = trained /\ cpu_model' = cpu_model
  BY <1>3, NoneChanges
     DEF SamplerStep, BeginEpoch, SampleOnce, Send, Sampled, SetStopEvent, workerVars
<1>5. channel' \subseteq Message /\ received' \subseteq Message
  <2>1. CASE Send(i)
    <3> DEFINE m == [from |-> i, epoch |-> epoch[S(i)], nth |-> LocalSteps(i) - todo[i],
                     key |-> task[i]]
    <3>1. channel' = channel \cup {m} /\ received' = received
      BY <2>1 DEF Send, Channel!Send
    <3>2. pc[S(i)] = "send"
      BY <2>1 DEF Send, Goto
    <3>3. i \in Nat /\ epoch[S(i)] \in Nat
      <4>1. Opening \/ Working
        BY <1>1, <3>2, WhichStretch
      <4> QED BY <1>1, <4>1, EpochNow, Processes, ConfNumbers DEF Sampler
    <3>4. LocalSteps(i) - todo[i] \in Nat
      <4>1. /\ LocalSteps(i) \in 0 .. NumStep /\ todo[i] \in 0 .. NumStep
            /\ todo[i] <= LocalSteps(i)
        BY <1>1, LocalFacts DEF TodoInv
      <4> QED BY <1>1, <4>1
    <3>5. task[i] \in Nat
      <4>1. task[i] \in -1 .. num_epoch * NumStep - 1 /\ task[i] # -1
        BY <1>1, <3>2 DEF ShufflerInv
      <4>2. PICK x \in Nat : x = num_epoch * NumStep
        BY <1>1
      <4> QED BY <4>1, <4>2
    <3>6. m \in Message
      BY <3>3, <3>4, <3>5 DEF Message
    <3> QED BY <1>1, <3>1, <3>6 DEF WorkerInv
  <2>2. CASE ~ Send(i)
    <3>1. channel' = channel /\ received' = received
      BY <2>2 DEF SamplerStep, BeginEpoch, SampleOnce, Sampled, SetStopEvent, queueVars
    <3> QED BY <1>1, <3>1 DEF WorkerInv
  <2> QED BY <2>1, <2>2
<1>6. sampler_stop_event' \in [Sampler -> BOOLEAN]
  <2>1. \/ sampler_stop_event' = [sampler_stop_event EXCEPT ![i] = FALSE]
        \/ sampler_stop_event' = [sampler_stop_event EXCEPT ![i] = TRUE]
        \/ sampler_stop_event' = sampler_stop_event
    BY DEF SamplerStep, BeginEpoch, SampleOnce, Send, Sampled, SetStopEvent, signalVars
  <2> QED BY <1>1, <2>1, Zenon DEF WorkerInv
<1>7. \A w \in Worker : pc'[w] = "train" => batch'[w] \in Message
  BY <1>1, <1>3, <1>4 DEF WorkerInv
<1>8. Message' = Message /\ NoMessage' = NoMessage
  OBVIOUS
<1> QED BY <1>1, <1>3, <1>4, <1>5, <1>6, <1>7, <1>8 DEF WorkerInv

LEMMA TypesWorker ==
    ASSUME TypeInv, NEW w \in Worker, WorkerStep(w)
    PROVE  EpochInv' /\ ShufflerInv' /\ WorkerInv'
<1>1. /\ conf \in Configurations /\ TurnsInv /\ TodoInv /\ EpochInv /\ ShufflerInv /\ WorkerInv
      /\ mq_sem \in Nat
  BY DEF TypeInv, TokensInv, TurnsInv
<1>2. PICK from \in {"wait", "acquire", "recv", "train"}, to \in {"acquire", "recv", "end", "train"} :
        /\ Goto(w, from, to)
        /\ from = "recv" <=> to = "train"
  BY DEF WorkerStep, WaitStopEvent, Acquire, AcquireTimeout, RecvBatch, Train
<1>3. /\ conf' = conf /\ Sampler' = Sampler /\ Worker' = Worker /\ Announced' = Announced
      /\ epoch' = epoch /\ pc[w] = from /\ pc'[w] = to
      /\ \A i \in Sampler : pc'[S(i)] = pc[S(i)]
      /\ \A v \in Worker : v # w => pc'[v] = pc[v]
  BY <1>1, <1>2, WorkerMoves
<1>4. /\ todo' = todo /\ shuffler' = shuffler /\ task' = task
      /\ sampler_stop_event' = sampler_stop_event
  BY DEF WorkerStep, WaitStopEvent, Acquire, AcquireTimeout, RecvBatch, Train, samplerVars,
         signalVars
<1>5. /\ NumStep' = NumStep /\ num_epoch' = num_epoch /\ \A k : LocalSteps(k)' = LocalSteps(k)
      /\ Proc' = Proc
  BY <1>3, SplitSame, NoneChanges
<1>6. Working
  BY <1>1, <1>2, <1>3, WhichStretch
<1>7. w \in Proc /\ epoch[w] \in 0 .. num_epoch - 1 /\ \A p \in Proc : epoch[p] < num_epoch
  BY <1>1, <1>6, EpochNow, Processes DEF EpochInv
<1>8. EpochInv'
  <2>1. Promised' = Promised
    BY <1>3, <1>5 DEF Promised
  <2>2. /\ \/ mq_sem' = mq_sem /\ (to = "end" => mq_sem = 0)
           \/ mq_sem' = mq_sem - 1 /\ mq_sem > 0 /\ to = "recv"
    <3>1. CASE Acquire(w)
      BY <1>3, <3>1, Processes DEF Acquire, Goto, TurnsInv, TypeInv, TokensInv
    <3>2. CASE AcquireTimeout(w)
      BY <3>2 DEF AcquireTimeout, signalVars
    <3>3. CASE WaitStopEvent(w) \/ RecvBatch(w) \/ Train(w)
      <4>1. mq_sem' = mq_sem
        BY <3>3 DEF WaitStopEvent, RecvBatch, Train, signalVars
      <4>2. PICK a \in {"acquire", "train"} : Goto(w, pc[w], a)
        BY <3>3 DEF WaitStopEvent, RecvBatch, Train, Goto
      <4>3. pc'[w] = a
        BY <1>1, <4>2, WorkerMoves
      <4> QED BY <1>3, <4>1, <4>3
    <3> QED BY <3>1, <3>2, <3>3 DEF WorkerStep
  <2>3. ASSUME NEW v \in Worker, pc'[v] = "end"
        PROVE  mq_sem' = 0
    <3>1. CASE v = w
      BY <1>1, <1>3, <2>2, <2>3, <3>1
    <3>2. CASE v # w
      <4>1. mq_sem = 0
        BY <1>1, <1>3, <1>6, <2>3, <3>2 DEF EpochInv
      <4> QED BY <2>2, <4>1
    <3> QED BY <3>1, <3>2
  <2>4. Cardinality(Promised) \in Nat
    BY <1>1, PromisedBound
  <2>5. mq_sem' <= Cardinality(Promised')
    BY <1>1, <2>1, <2>2, <2>4 DEF EpochInv
  <2> QED BY <1>1, <1>3, <1>5, <1>7, <2>3, <2>5 DEF EpochInv
<1>9. ShufflerInv'
  <2>1. \A i \in Sampler : Drawn(i)' = Drawn(i)
    BY <1>3, <1>4, <1>5 DEF Drawn
  <2> QED BY <1>1, <1>3, <1>4, <1>5, <2>1 DEF ShufflerInv
<1>10. WorkerInv'
  <2>1. CASE RecvBatch(w)
    <3>1. PICK m \in channel : /\ channel' = channel \ {m} /\ received' = received \cup {m}
                               /\ batch' = [batch EXCEPT ![w] = m]
      BY <2>1 DEF RecvBatch, Channel!Recv
    <3>2. trained' = trained /\ cpu_model' = cpu_model
      BY <2>1 DEF RecvBatch
    <3>3. m \in Message
      BY <1>1, <3>1 DEF WorkerInv
    <3>4. channel' \subseteq Message /\ received' \subseteq Message
      BY <1>1, <3>1, <3>3 DEF WorkerInv
    <3>5. batch' \in [Worker -> Message \cup {NoMessage}] /\ batch'[w] = m
          /\ \A v \in Worker : v # w => batch'[v] = batch[v]
      BY <1>1, <3>1, <3>3 DEF WorkerInv
    <3>6. \A v \in Worker : pc'[v] = "train" => batch'[v] \in Message
      BY <1>1, <1>3, <3>3, <3>5 DEF WorkerInv
    <3> QED BY <1>1, <1>3, <1>4, <1>5, <3>2, <3>4, <3>5, <3>6 DEF WorkerInv
  <2>2. CASE Train(w)
    <3> DEFINE fact == [by |-> w, epoch |-> epoch[w], message |-> batch[w]]
    <3>1. /\ trained' = trained \cup {fact}
          /\ cpu_model' = [cpu_model EXCEPT ![w] = @ \cup {batch[w].key}]
          /\ batch' = [batch EXCEPT ![w] = NoMessage]
          /\ channel' = channel /\ received' = received
      BY <2>2 DEF Train, queueVars
    <3>2. pc[w] = "train" /\ Goto(w, "train", "acquire")
      BY <2>2 DEF Train, Goto
    <3>3. batch[w] \in Message /\ pc'[w] = "acquire"
      BY <1>1, <3>2, WorkerMoves DEF WorkerInv
    <3>4. fact \in [by : Worker, epoch : 0 .. num_epoch - 1, message : Message]
      BY <1>7, <3>3
    <3>5. trained' \subseteq [by : Worker, epoch : 0 .. num_epoch - 1, message : Message]
      BY <1>1, <3>1, <3>4 DEF WorkerInv
    <3>6. batch[w].key \in Nat
      BY <3>3 DEF Message
    <3>7. cpu_model' \in [Worker -> SUBSET Nat]
      BY <1>1, <3>1, <3>6 DEF WorkerInv
    <3>8. batch' \in [Worker -> Message \cup {NoMessage}]
          /\ \A v \in Worker : v # w => batch'[v] = batch[v]
      BY <1>1, <3>1 DEF WorkerInv
    <3>9. \A v \in Worker : pc'[v] = "train" => batch'[v] \in Message
      BY <1>1, <1>3, <3>3, <3>8 DEF WorkerInv
    <3> QED BY <1>1, <1>3, <1>4, <1>5, <3>1, <3>5, <3>7, <3>8, <3>9 DEF WorkerInv
  <2>3. CASE WaitStopEvent(w) \/ Acquire(w) \/ AcquireTimeout(w)
    <3>1. /\ channel' = channel /\ received' = received /\ batch' = batch /\ trained' = trained
          /\ cpu_model' = cpu_model
      BY <2>3 DEF WaitStopEvent, Acquire, AcquireTimeout, queueVars, workerVars
    <3>2. PICK a \in {"acquire", "recv", "end"} : Goto(w, pc[w], a)
      BY <2>3 DEF WaitStopEvent, Acquire, AcquireTimeout, Goto
    <3>3. pc'[w] # "train"
      BY <1>1, <3>2, WorkerMoves
    <3>4. \A v \in Worker : pc'[v] = "train" => batch'[v] \in Message
      BY <1>1, <1>3, <3>1, <3>3 DEF WorkerInv
    <3> QED BY <1>1, <1>3, <1>4, <1>5, <3>1, <3>4 DEF WorkerInv
  <2> QED BY <2>1, <2>2, <2>3 DEF WorkerStep
<1> QED BY <1>8, <1>9, <1>10

LEMMA TypesBarrier ==
    ASSUME TypeInv, GlobalBarrier
    PROVE  EpochInv' /\ ShufflerInv' /\ WorkerInv'
<1>1. /\ conf \in Configurations /\ TurnsInv /\ TodoInv /\ EpochInv /\ ShufflerInv /\ WorkerInv
      /\ mq_sem \in Nat /\ num_epoch \in Nat \ {0} /\ NumStep \in Nat /\ TurnsInv'
  BY ConfNumbers, TurnsBarrier DEF TypeInv, TokensInv, TurnsInv
<1>2. /\ conf' = conf /\ Sampler' = Sampler /\ Worker' = Worker /\ Proc' = Proc
      /\ \A w \in Worker : pc[w] # "recv" /\ pc'[w] \notin {"recv", "train", "end"}
  BY <1>1, BarrierMoves
<1>3. /\ NumStep' = NumStep /\ num_epoch' = num_epoch /\ \A i : LocalSteps(i)' = LocalSteps(i)
  BY <1>2, SplitSame, NoneChanges
<1>4. /\ mq_sem' = mq_sem /\ shuffler' = shuffler /\ task' = task
      /\ sampler_stop_event' = sampler_stop_event /\ channel' = channel /\ received' = received
      /\ batch' = batch /\ trained' = trained /\ cpu_model' = cpu_model
  BY DEF GlobalBarrier, signalVars, queueVars, workerVars
<1>5. WorkerInv'
  BY <1>1, <1>2, <1>3, <1>4 DEF WorkerInv
<1>6. \A p \in Proc : epoch[p] \in Nat /\ epoch[p] \in 0 .. num_epoch
  BY <1>1 DEF EpochInv
<1>7. /\ DOMAIN epoch' = Proc
      /\ epoch' = [p \in Proc |-> epoch'[p]]
  BY DEF GlobalBarrier
<1>8. PICK a \in Sampler : a = 0
  BY <1>1, ConfNumbers DEF Sampler
<1>9. Cardinality(Promised) \in Nat /\ Cardinality({}) = 0
  BY <1>1, PromisedBound, FS_EmptySet
<1>10. S(a) \in Proc /\ W(a) \in Worker
  BY <1>8, Processes
<1>11. \A i \in Sampler : S(i) \in Proc
  BY Processes
(* A barrier inside a stretch that keeps the epoch. *)
<1>12. ASSUME \A p \in Proc : epoch'[p] = epoch[p],
              todo' = [i \in Sampler |-> todo[i]],
              \A i \in Sampler : pc[S(i)] # "send" /\ pc'[S(i)] # "send"
       PROVE  epoch' = epoch /\ todo' = todo /\ ShufflerInv'
  <2>1. epoch' = epoch
    BY <1>1, <1>7, <1>12 DEF EpochInv
  <2>2. todo' = todo
    BY <1>1, <1>12 DEF TodoInv
  <2>3. \A i \in Sampler : Drawn(i)' = Drawn(i)
    BY <1>3, <1>12, <2>2 DEF Drawn
  <2> QED BY <1>1, <1>2, <1>3, <1>4, <1>12, <2>1, <2>2, <2>3 DEF ShufflerInv
<1>13. CASE /\ \A p \in Proc : pc[p] = "run"
            /\ \A i \in Sampler : pc'[S(i)] = "begin"
            /\ \A p \in Proc : epoch'[p] = epoch[p]
            /\ todo' = [i \in Sampler |-> todo[i]]
  <2>1. epoch' = epoch /\ ShufflerInv'
    BY <1>11, <1>12, <1>13
  <2>2. \A p \in Proc : epoch[p] < num_epoch
    BY <1>1, <1>13 DEF EpochInv, Assembling
  <2>3. Promised = {} /\ Promised' = {}
    BY <1>2, <1>11, <1>13 DEF Promised, Announced
  <2>4. mq_sem' <= Cardinality(Promised')
    BY <1>1, <1>4, <2>3 DEF EpochInv
  <2>5. ~ Working'
    BY <1>2, <1>8, <1>13 DEF Working
  <2>6. EpochInv'
    BY <1>1, <1>2, <1>3, <2>1, <2>2, <2>4, <2>5 DEF EpochInv
  <2> QED BY <1>5, <2>1, <2>6
<1>14. CASE /\ \A i \in Sampler : \/ pc[S(i)] = "start" /\ pc'[S(i)] = "sample"
                                  \/ pc[S(i)] = "sampled" /\ pc'[S(i)] = "set"
            /\ \A p \in Proc : epoch'[p] = epoch[p]
            /\ Opening /\ Working'
            /\ todo' = [i \in Sampler |-> todo[i]]
  <2>1. epoch' = epoch /\ ShufflerInv'
    BY <1>12, <1>14
  <2>2. \A p \in Proc : epoch[p] < num_epoch
    BY <1>1, <1>14 DEF EpochInv
  <2>3. Announced' = Announced
    BY <1>2, <1>14 DEF Announced
  <2>4. Promised' = Promised
    BY <1>3, <2>3 DEF Promised
  <2>5. mq_sem' <= Cardinality(Promised')
    BY <1>1, <1>4, <2>4 DEF EpochInv
  <2>6. \A w \in Worker' : pc'[w] # "end"
    BY <1>2
  <2>7. EpochInv'
    BY <1>1, <1>2, <1>3, <2>1, <2>2, <2>5, <2>6 DEF EpochInv
  <2> QED BY <1>5, <2>1, <2>7
<1>15. CASE /\ \A p \in Proc : pc[p] = "end" /\ epoch'[p] = epoch[p] + 1
            /\ \A i \in Sampler : \/ pc'[S(i)] = "begin" /\ epoch[S(i)] + 1 < num_epoch
                                  \/ pc'[S(i)] = "run_end"
            /\ Working
            /\ todo' = [i \in Sampler |-> LocalSteps(i)]
  <2>1. mq_sem = 0
    BY <1>1, <1>10, <1>15, Processes DEF EpochInv
  <2>2. ASSUME NEW p \in Proc
        PROVE  epoch[p] \in Nat /\ epoch[p] < num_epoch /\ epoch'[p] = epoch[p] + 1
               /\ epoch'[p] \in 0 .. num_epoch
    <3>1. epoch[p] < num_epoch /\ epoch[p] \in Nat
      BY <1>1, <1>6, <1>15 DEF EpochInv
    <3> QED BY <1>1, <1>15, <3>1
  <2>3. epoch' \in [Proc -> 0 .. num_epoch]
    BY <1>7, <2>2
  <2>4. Announced' = {}
    BY <1>2, <1>15 DEF Announced
  <2>5. Promised' = {}
    BY <2>4 DEF Promised
  <2>6. mq_sem' <= Cardinality(Promised')
    BY <1>4, <1>9, <2>1, <2>5
  <2>7. ASSUME Assembling("run")' \/ Opening' \/ Working', NEW p \in Proc
        PROVE  epoch'[p] < num_epoch
    <3>1. pc'[S(a)] # "run_end"
      BY <1>2, <1>8, <1>10, <2>7 DEF Assembling, Opening, Working
    <3>2. epoch[S(a)] + 1 < num_epoch
      BY <1>8, <1>15, <3>1
    <3>3. epoch'[S(a)] < num_epoch
      BY <1>10, <2>2, <3>2
    <3>4. epoch'[p] = epoch'[S(a)]
      BY <1>1, <1>2, <1>10 DEF TurnsInv, SameEpoch
    <3> QED BY <3>3, <3>4
  <2>8. EpochInv'
    BY <1>2, <1>3, <1>4, <2>1, <2>3, <2>6, <2>7 DEF EpochInv
  <2>9. ASSUME NEW i \in Sampler
        PROVE  /\ shuffler[i].epoch <= epoch'[S(i)]
               /\ shuffler[i].epoch # epoch'[S(i)]
               /\ pc'[S(i)] # "send"
    <3>1. shuffler[i].epoch \in Nat /\ shuffler[i].epoch <= epoch[S(i)]
      BY <1>1 DEF ShufflerInv
    <3>2. epoch'[S(i)] = epoch[S(i)] + 1 /\ epoch[S(i)] \in Nat
      BY <1>11, <2>2
    <3> QED BY <1>15, <3>1, <3>2
  <2>10. ShufflerInv'
    BY <1>1, <1>2, <1>3, <1>4, <2>9 DEF ShufflerInv
  <2> QED BY <1>5, <2>8, <2>10
<1>16. CASE /\ \A p \in Proc : pc[p] = "run_end" /\ pc'[p] = "exited"
            /\ \A p \in Proc : epoch'[p] = epoch[p]
            /\ todo' = [i \in Sampler |-> todo[i]]
  <2>1. epoch' = epoch /\ ShufflerInv'
    BY <1>11, <1>12, <1>16
  <2>2. Promised = {} /\ Promised' = {}
    BY <1>2, <1>11, <1>16 DEF Promised, Announced
  <2>3. mq_sem' <= Cardinality(Promised')
    BY <1>1, <1>4, <2>2 DEF EpochInv
  <2>4. ~ Assembling("run")' /\ ~ Opening' /\ ~ Working'
    BY <1>2, <1>8, <1>10, <1>16 DEF Assembling, Opening, Working
  <2>5. EpochInv'
    BY <1>1, <1>2, <1>3, <2>1, <2>3, <2>4 DEF EpochInv
  <2> QED BY <1>5, <2>1, <2>5
<1> QED BY <1>1, <1>13, <1>14, <1>15, <1>16, BarrierMoves

LEMMA TypeStep == TypeInv /\ [Next]_vars => TypeInv'
<1> SUFFICES ASSUME TypeInv, [Next]_vars PROVE TypeInv'
  OBVIOUS
<1>1. TokensInv'
  BY TokensStep DEF TypeInv
<1>2. CASE Ended \/ UNCHANGED vars
  <2>1. UNCHANGED vars
    BY <1>2 DEF Ended
  <2>2. EpochInv' /\ ShufflerInv' /\ WorkerInv'
    <3>1. conf' = conf /\ UNCHANGED <<pc, epoch, shuffler, todo, task, sampler_stop_event,
                                      mq_sem, channel, received, batch, trained, cpu_model>>
      BY <2>1 DEF vars, procVars, samplerVars, signalVars, queueVars, workerVars
    <3>2. /\ Sampler' = Sampler /\ Worker' = Worker /\ Proc' = Proc /\ num_epoch' = num_epoch
          /\ NumStep' = NumStep /\ \A k : LocalSteps(k)' = LocalSteps(k)
      BY <3>1, NoneChanges, SplitSame
    <3>3. EpochInv'
      BY <3>1, <3>2 DEF TypeInv, EpochInv, Assembling, Opening, Working, Promised, Announced
    <3>4. \A i \in Sampler : Drawn(i)' = Drawn(i)
      BY <3>1, <3>2 DEF Drawn
    <3>5. ShufflerInv'
      BY <3>1, <3>2, <3>4 DEF TypeInv, ShufflerInv
    <3>6. WorkerInv'
      BY <3>1, <3>2 DEF TypeInv, WorkerInv
    <3> QED BY <3>3, <3>5, <3>6
  <2> QED BY <1>1, <2>2 DEF TypeInv
<1>3. ASSUME NEW i \in Sampler, SamplerStep(i)
      PROVE  TypeInv'
  BY <1>1, <1>3, EpochSampler, ShufflerSampler, WorkersSampler DEF TypeInv
<1>4. ASSUME NEW w \in Worker, WorkerStep(w)
      PROVE  TypeInv'
  BY <1>1, <1>4, TypesWorker DEF TypeInv
<1>5. ASSUME GlobalBarrier
      PROVE  TypeInv'
  BY <1>1, <1>5, TypesBarrier DEF TypeInv
<1> QED BY <1>2, <1>3, <1>4, <1>5 DEF Next

(* Every variable keeps its type; the semaphore never counts more than an  *)
(* epoch has, and no key is behind the last epoch, though the shuffler of  *)
(* the last sampler may have more steps than the script lets it take.      *)
THEOREM TypeCorrect == Spec => []TypeOK
<1>1. TypeInv => TypeOK
  <2> SUFFICES ASSUME TypeInv PROVE TypeOK
    OBVIOUS
  <2>1. /\ conf \in Configurations /\ TurnsInv /\ TodoInv /\ EpochInv /\ ShufflerInv /\ WorkerInv
        /\ mq_sem \in Nat /\ NumStep \in Nat
    BY ConfNumbers DEF TypeInv, TokensInv, TurnsInv
  <2>2. mq_sem \in 0 .. NumStep
    BY <2>1, PromisedBound DEF EpochInv
  <2>3. /\ \A i \in Sampler :
            pc[S(i)] \in GlobalWaits \cup {"begin", "sample", "send", "set", "exited"}
        /\ \A w \in Worker :
            pc[w] \in (GlobalWaits \ {"sampled"})
                        \cup {"wait", "acquire", "recv", "train", "exited"}
    BY <2>1, Processes DEF TurnsInv, Stretch, Assembling, Opening, Working, GlobalWaits
  <2> QED BY <2>1, <2>2, <2>3 DEF TypeOK, EpochInv, ShufflerInv, WorkerInv, TodoInv
<1> QED BY <1>1, TypeInit, TypeStep, PTL DEF Spec

------------------------------------------------------------------------------
(***************************************************************************)
(* Every mini-batch once.  The script splits an epoch in floats and the    *)
(* shufflers in integers; the two give the last sampler the same steps     *)
(* when the division leaves no more than one.  EpochsInv follows every     *)
(* mini-batch from its shuffler to the worker that trains on it.           *)
(***************************************************************************)
SameSplit == \A c \in Configurations : Steps(c) % c.num_sample_worker <= 1

(* The epoch the processes are in. *)
Now == epoch[S(0)]

(* The k-th mini-batch of sampler i in epoch e, and the key it should have. *)
KeyOf(i, e, k) == e * NumStep + StepOffset(i) + k

MessageOf(i, e, k) == [from |-> i, epoch |-> e, nth |-> k, key |-> KeyOf(i, e, k)]

Genuine(m) ==
    \E i \in Sampler : \E e \in 0 .. num_epoch - 1 : \E k \in 0 .. LocalSteps(i) - 1 :
        m = MessageOf(i, e, k)

(* Where a shuffler stands that has given out n mini-batches of epoch e. *)
PositionAfter(i, e, n) ==
    IF n > 0 THEN [epoch |-> e, step |-> n - 1, initialized |-> TRUE]
    ELSE IF e = 0 THEN NewShuffler(i)
    ELSE [epoch |-> e - 1, step |-> LocalSteps(i) - 1, initialized |-> TRUE]

Sent(i) == LocalSteps(i) - todo[i]

(* The shufflers are at the mini-batch their samplers are at. *)
PositionInv ==
    \A i \in Sampler :
        /\ shuffler[i] = PositionAfter(i, Now, Drawn(i))
        /\ pc[S(i)] = "send" => task[i] = KeyOf(i, Now, Sent(i))

(* What has been sent of this epoch has not got lost in the queue. *)
SentInv ==
    \A i \in Sampler : \A k \in 0 .. Sent(i) - 1 :
        MessageOf(i, Now, k) \in channel \cup received

Training == {w \in Worker : pc[w] = "train"}
Got == {f.message : f \in trained}

(* A message is in the queue, with one worker, or trained; never in two    *)
(* of these places.                                                        *)
PlaceInv ==
    /\ channel \cap received = {}
    /\ Got \subseteq received
    /\ \A w \in Training : batch[w] \in received \ Got
    /\ \A v, w \in Training : batch[v] = batch[w] => v = w
    /\ \A f, g \in trained : f.message = g.message => f = g
    /\ \A m \in received \ Got : \E w \in Training : batch[w] = m

(* What waits is of this epoch, and is trained in it. *)
MessagesInv ==
    /\ \A m \in channel \cup received : Genuine(m)
    /\ \A m \in channel : m.epoch = Now
    /\ \A w \in Training : batch[w].epoch = Now
    /\ \A f \in trained : f.epoch = f.message.epoch

Done(e) == {f \in trained : f.epoch = e}

Complete(e) ==
    /\ {f.message.key : f \in Done(e)} = e * NumStep .. (e + 1) * NumStep - 1
    /\ Cardinality(Done(e)) = NumStep

CompleteInv == \A e \in 0 .. Now - 1 : Complete(e)

EpochsInv == TypeInv /\ PositionInv /\ SentInv /\ PlaceInv /\ MessagesInv /\ CompleteInv

(* The quotient is the only one that leaves a remainder below n. *)
LEMMA Quotient ==
    ASSUME NEW a \in Int, NEW n \in Nat \ {0}, NEW q \in Int, NEW r \in Int,
           a = q * n + r, 0 <= r, r < n
    PROVE  a \div n = q
<1> DEFINE d == a \div n
           m == a % n
<1>1. d \in Int /\ m \in Int /\ 0 <= m /\ m < n /\ a = d * n + m
  OBVIOUS
<1> HIDE DEF d, m
<1>2. d * n - q * n = r - m
  BY <1>1
<1>3. ASSUME d >= q + 1 PROVE FALSE
  <2>1. d * n >= (q + 1) * n
    BY <1>1, <1>3
  <2>2. (q + 1) * n = q * n + n
    OBVIOUS
  <2> QED BY <1>1, <1>2, <2>1, <2>2
<1>4. ASSUME q >= d + 1 PROVE FALSE
  <2>1. q * n >= (d + 1) * n
    BY <1>1, <1>4
  <2>2. (d + 1) * n = d * n + n
    BY <1>1
  <2> QED BY <1>1, <1>2, <2>1, <2>2
<1>5. d = q
  BY <1>1, <1>3, <1>4
<1> QED BY <1>5 DEF d

(* A remainder of one step at most is what the script rounds away before   *)
(* the last sampler and what the shuffler leaves for it.                   *)
LEMMA LastPart ==
    ASSUME NEW N \in Nat, NEW n \in Nat \ {0}, N % n <= 1
    PROVE  (N * (n - 1)) \div n = (N \div n) * (n - 1)
<1> DEFINE q == N \div n
           r == N % n
<1>1. q \in Nat /\ r \in Nat /\ r < n /\ N = q * n + r /\ r <= 1
  OBVIOUS
<1> SUFFICES (N * (n - 1)) \div n = q * (n - 1)
  OBVIOUS
<1> HIDE DEF q, r
<1>2. r * (n - 1) \in Nat /\ r * (n - 1) < n
  <2>1. r = 0 \/ r = 1
    BY <1>1
  <2> QED BY <2>1
<1>3. N * (n - 1) = (q * (n - 1)) * n + r * (n - 1)
  BY <1>1
<1>4. q * (n - 1) \in Int /\ N * (n - 1) \in Int
  BY <1>1
<1> QED BY <1>2, <1>3, <1>4, Quotient

LEMMA WholePart ==
    ASSUME NEW N \in Nat, NEW n \in Nat \ {0}, N >= n
    PROVE  N \div n \in Nat \ {0} /\ (N \div n) * n <= N
<1> DEFINE q == N \div n
           r == N % n
<1>1. q \in Nat /\ r \in Nat /\ r < n /\ N = q * n + r
  OBVIOUS
<1> SUFFICES q # 0 /\ q * n <= N
  BY <1>1
<1> HIDE DEF q, r
<1>2. q * n \in Nat /\ (q = 0 => q * n = 0)
  BY <1>1
<1> QED BY <1>1, <1>2

(* The samplers' shares of an epoch. *)
LEMMA ShareFacts ==
    ASSUME SameSplit, conf \in Configurations, NEW i \in Sampler
    PROVE  /\ NumStep \in Nat \ {0} /\ StepOffset(i) \in Nat /\ LocalSteps(i) \in Nat \ {0}
           /\ ShufflerSteps(i) = LocalSteps(i)
           /\ StepOffset(i) + LocalSteps(i) <= NumStep
<1> DEFINE n == num_sample_worker
           N == NumStep
           q == N \div n
<1>0. n \in Nat \ {0} /\ N \in Nat \ {0} /\ N >= n /\ i \in Nat /\ i <= n - 1
  BY ConfNumbers DEF Sampler
<1>1. N % n <= 1
  BY DEF SameSplit, Steps, NumStep, num_sample_worker
<1>2. (N * (n - 1)) \div n = q * (n - 1)
  BY <1>0, <1>1, LastPart
<1>3. /\ ShufflerSteps(i) = IF i = n - 1 THEN N - q * i ELSE q
      /\ LocalSteps(i) = IF i = n - 1 THEN N - (N * i) \div n ELSE q
  BY DEF StepOffset, ShufflerSteps, LocalSteps
<1>4. ShufflerSteps(i) = LocalSteps(i)
  BY <1>2, <1>3
<1>5. StepOffset(i) \in Nat /\ StepOffset(i) + LocalSteps(i) <= NumStep /\ LocalSteps(i) \in Nat
  BY <1>0, <1>4, LocalFacts
<1>6. q \in Nat \ {0} /\ q * n <= N
  BY <1>0, WholePart
<1>7. LocalSteps(i) # 0
  <2>1. CASE i = n - 1
    <3>1. ShufflerSteps(i) = N - q * (n - 1)
      BY <1>3, <2>1
    <3> HIDE DEF q, n, N
    <3>2. q * (n - 1) = q * n - q /\ q * n \in Nat
      BY <1>0, <1>6
    <3> QED BY <1>0, <1>4, <1>6, <3>1, <3>2
  <2>2. CASE i # n - 1
    BY <1>3, <1>6, <2>2
  <2> QED BY <2>1, <2>2
<1> QED BY <1>0, <1>4, <1>5, <1>7

LEMMA KeysSame ==
    ASSUME conf' = conf
    PROVE  /\ \A i, e, k : KeyOf(i, e, k)' = KeyOf(i, e, k)
           /\ \A i, e, k : MessageOf(i, e, k)' = MessageOf(i, e, k)
           /\ \A i, e, k : PositionAfter(i, e, k)' = PositionAfter(i, e, k)
           /\ \A m : Genuine(m)' <=> Genuine(m)
<1>1. /\ \A i, e, k : KeyOf(i, e, k)' = KeyOf(i, e, k)
      /\ \A i, e, k : PositionAfter(i, e, k)' = PositionAfter(i, e, k)
  BY DEF NumStep, LocalSteps, KeyOf, PositionAfter, num_sample_worker, StepOffset, NewShuffler,
         ShufflerSteps
<1>2. \A i, e, k : MessageOf(i, e, k)' = MessageOf(i, e, k)
  BY <1>1 DEF MessageOf
<1>3. \A m : Genuine(m)' <=> Genuine(m)
  BY <1>2, SplitSame, NoneChanges DEF Genuine
<1> QED BY <1>1, <1>2, <1>3

LEMMA StepOn ==
    ASSUME NEW e, NEW n
    PROVE  [[epoch |-> e, step |-> n, initialized |-> TRUE] EXCEPT !.step = @ + 1]
            = [epoch |-> e, step |-> n + 1, initialized |-> TRUE]
<1>1. PICK yes : /\ yes = TRUE
                 /\ [epoch |-> e, step |-> n, initialized |-> TRUE]
                        = [epoch |-> e, step |-> n, initialized |-> yes]
  BY Zenon
<1>2. [epoch |-> e, step |-> n + 1, initialized |-> TRUE]
        = [epoch |-> e, step |-> n + 1, initialized |-> yes]
  BY <1>1, Zenon
<1>3. [[epoch |-> e, step |-> n, initialized |-> yes] EXCEPT !.step = @ + 1]
        = [epoch |-> e, step |-> n + 1, initialized |-> yes]
  OBVIOUS
<1> QED BY <1>1, <1>2, <1>3, Zenon

(* GetBatch moves a shuffler on by one step, over the end of an epoch too. *)
LEMMA ShufflerMoves ==
    ASSUME SameSplit, conf \in Configurations, NEW i \in Sampler, NEW e \in Nat,
           NEW n \in 0 .. LocalSteps(i) - 1
    PROVE  /\ NextBatch(PositionAfter(i, e, n), i) = PositionAfter(i, e, n + 1)
           /\ PositionAfter(i, e, n + 1).epoch = e
           /\ BatchKey(PositionAfter(i, e, n + 1), i) = KeyOf(i, e, n)
<1>1. ShufflerSteps(i) = LocalSteps(i) /\ LocalSteps(i) \in Nat /\ n \in Nat /\ n < LocalSteps(i)
  BY ShareFacts
<1>2. PositionAfter(i, e, n + 1) = [epoch |-> e, step |-> n, initialized |-> TRUE]
  BY <1>1 DEF PositionAfter
<1>3. NextBatch(PositionAfter(i, e, n), i) = PositionAfter(i, e, n + 1)
  <2>1. CASE n > 0
    <3>1. PositionAfter(i, e, n) = [epoch |-> e, step |-> n - 1, initialized |-> TRUE]
      BY <2>1 DEF PositionAfter
    <3> DEFINE sh == [epoch |-> e, step |-> n - 1, initialized |-> TRUE]
    <3>2. sh.step + 1 = n /\ sh.step + 1 < ShufflerSteps(i)
      BY <1>1, <2>1
    <3>3. [sh EXCEPT !.step = @ + 1] = [epoch |-> e, step |-> n, initialized |-> TRUE]
      <4>1. (n - 1) + 1 = n
        BY <1>1
      <4>2. [sh EXCEPT !.step = @ + 1] = [epoch |-> e, step |-> (n - 1) + 1, initialized |-> TRUE]
        BY StepOn, Zenon
      <4> QED BY <4>1, <4>2
    <3>4. NextBatch(sh, i) = [epoch |-> e, step |-> n, initialized |-> TRUE]
      BY <3>2, <3>3 DEF NextBatch
    <3> QED BY <1>2, <3>1, <3>4
  <2>2. CASE n = 0 /\ e = 0
    <3>1. PositionAfter(i, e, n) = [epoch |-> 0, step |-> LocalSteps(i), initialized |-> FALSE]
      BY <1>1, <2>2 DEF PositionAfter, NewShuffler
    <3> QED BY <1>1, <1>2, <2>2, <3>1 DEF NextBatch
  <2>3. CASE n = 0 /\ e > 0
    <3>1. PositionAfter(i, e, n)
          = [epoch |-> e - 1, step |-> LocalSteps(i) - 1, initialized |-> TRUE]
      BY <2>3 DEF PositionAfter
    <3> DEFINE sh == [epoch |-> e - 1, step |-> LocalSteps(i) - 1, initialized |-> TRUE]
    <3>2. ~ (sh.step + 1 < ShufflerSteps(i)) /\ sh.initialized /\ sh.epoch + 1 = e
      BY <1>1, <2>3
    <3>3. NextBatch(sh, i) = [epoch |-> e, step |-> 0, initialized |-> TRUE]
      BY <3>2 DEF NextBatch
    <3> QED BY <1>2, <2>3, <3>1, <3>3
  <2> QED BY <1>1, <2>1, <2>2, <2>3
<1>4. BatchKey(PositionAfter(i, e, n + 1), i) = KeyOf(i, e, n)
  BY <1>2 DEF BatchKey, KeyOf
<1> QED BY <1>2, <1>3, <1>4

(* A key tells the mini-batch: its epoch, its sampler and its place there. *)
LEMMA KeyFacts ==
    ASSUME SameSplit, conf \in Configurations, NEW i \in Sampler, NEW e \in Nat,
           NEW k \in 0 .. LocalSteps(i) - 1
    PROVE  /\ StepOffset(i) + k \in 0 .. NumStep - 1
           /\ NumStep \in Nat \ {0}
           /\ KeyOf(i, e, k) = e * NumStep + (StepOffset(i) + k)
           /\ KeyOf(i, e, k) \in e * NumStep .. (e + 1) * NumStep - 1
<1> DEFINE N == NumStep
           o == StepOffset(i)
<1>1. /\ N \in Nat /\ o \in Nat /\ LocalSteps(i) \in Nat /\ o + LocalSteps(i) <= N
      /\ k \in Nat /\ k < LocalSteps(i)
  BY ShareFacts
<1>2. KeyOf(i, e, k) = e * N + o + k
  BY DEF KeyOf
<1> HIDE DEF N, o
<1>3. e * N \in Nat /\ (e + 1) * N = e * N + N
  BY <1>1
<1>4. o + k \in 0 .. N - 1 /\ N # 0
  BY <1>1
<1>5. e * N + o + k = e * N + (o + k) /\ e * N + (o + k) \in e * N .. (e + 1) * N - 1
  BY <1>1, <1>3, <1>4
<1> QED BY <1>1, <1>2, <1>4, <1>5 DEF N, o

LEMMA SamplerOrder ==
    ASSUME SameSplit, conf \in Configurations, NEW x \in Sampler, NEW y \in Sampler, x < y,
           NEW u \in 0 .. LocalSteps(x) - 1
    PROVE  StepOffset(x) + u < StepOffset(y)
<1> DEFINE q == NumStep \div num_sample_worker
<1>1. /\ num_sample_worker \in Nat \ {0} /\ NumStep \in Nat
      /\ x \in Nat /\ y \in Nat /\ x + 1 <= y /\ x # num_sample_worker - 1
  BY ConfNumbers DEF Sampler
<1>2. q \in Nat
  BY <1>1
<1>3. StepOffset(x) = q * x /\ StepOffset(y) = q * y /\ LocalSteps(x) = q
  BY <1>1 DEF StepOffset, LocalSteps
<1> HIDE DEF q
<1>4. u \in Nat /\ u < q
  BY <1>2, <1>3
<1>5. q * x + q = q * (x + 1) /\ q * (x + 1) <= q * y
  BY <1>1, <1>2
<1>6. q * x \in Nat /\ q * y \in Nat
  BY <1>1, <1>2
<1> QED BY <1>1, <1>2, <1>3, <1>4, <1>5, <1>6

LEMMA KeyUnique ==
    ASSUME SameSplit, conf \in Configurations,
           NEW i \in Sampler, NEW e \in Nat, NEW k \in 0 .. LocalSteps(i) - 1,
           NEW j \in Sampler, NEW d \in Nat, NEW l \in 0 .. LocalSteps(j) - 1,
           KeyOf(i, e, k) = KeyOf(j, d, l)
    PROVE  i = j /\ e = d /\ k = l
<1> DEFINE N == NumStep
           g == StepOffset(i) + k
           h == StepOffset(j) + l
<1>1. /\ N \in Nat \ {0} /\ g \in 0 .. N - 1 /\ h \in 0 .. N - 1
      /\ e * N + g = d * N + h
  BY KeyFacts
<1>t. /\ StepOffset(i) \in Nat /\ StepOffset(j) \in Nat /\ k \in Nat /\ l \in Nat
      /\ i \in Nat /\ j \in Nat
  BY ShareFacts, ConfNumbers DEF Sampler
<1> HIDE DEF N
<1>2. e = d /\ g = h
  <2> HIDE DEF g, h
  <2>1. (e * N + g) \div N = e
    BY <1>1, Quotient
  <2>2. (d * N + h) \div N = d
    BY <1>1, Quotient
  <2>3. e = d
    BY <1>1, <2>1, <2>2
  <2> QED BY <1>1, <2>3
<1>3. ~ (i < j)
  BY <1>2, <1>t, SamplerOrder
<1>4. ~ (j < i)
  BY <1>2, <1>t, SamplerOrder
<1>5. i = j
  BY <1>3, <1>4, <1>t
<1> QED BY <1>2, <1>5, <1>t

LEMMA GenuineFacts ==
    ASSUME SameSplit, conf \in Configurations, NEW m, Genuine(m)
    PROVE  m.epoch \in Nat /\ m.key \in m.epoch * NumStep .. (m.epoch + 1) * NumStep - 1
<1>1. PICK i \in Sampler, e \in 0 .. num_epoch - 1 :
        \E k \in 0 .. LocalSteps(i) - 1 : m = MessageOf(i, e, k)
  BY DEF Genuine
<1>2. PICK k \in 0 .. LocalSteps(i) - 1 : m = MessageOf(i, e, k)
  BY <1>1
<1>3. m.epoch = e /\ m.key = KeyOf(i, e, k) /\ e \in Nat
  BY <1>2 DEF MessageOf
<1> QED BY <1>3, KeyFacts

LEMMA GenuineUnique ==
    ASSUME SameSplit, conf \in Configurations, NEW m, NEW g, Genuine(m), Genuine(g), m.key = g.key
    PROVE  m = g
<1>1. PICK i \in Sampler, e \in 0 .. num_epoch - 1 :
        \E k \in 0 .. LocalSteps(i) - 1 : m = MessageOf(i, e, k)
  BY DEF Genuine
<1>2. PICK k \in 0 .. LocalSteps(i) - 1 : m = MessageOf(i, e, k)
  BY <1>1
<1>3. PICK j \in Sampler, d \in 0 .. num_epoch - 1 :
        \E l \in 0 .. LocalSteps(j) - 1 : g = MessageOf(j, d, l)
  BY DEF Genuine
<1>4. PICK l \in 0 .. LocalSteps(j) - 1 : g = MessageOf(j, d, l)
  BY <1>3
<1>5. KeyOf(i, e, k) = KeyOf(j, d, l) /\ e \in Nat /\ d \in Nat
  BY <1>2, <1>4 DEF MessageOf
<1>6. i = j /\ e = d /\ k = l
  BY <1>5, KeyUnique
<1> QED BY <1>2, <1>4, <1>6

(* Every mini-batch of an epoch belongs to a sampler. *)
LEMMA SomeOwner ==
    ASSUME SameSplit, conf \in Configurations, NEW g \in 0 .. NumStep - 1
    PROVE  \E i \in Sampler : \E k \in 0 .. LocalSteps(i) - 1 : g = StepOffset(i) + k
<1> DEFINE n == num_sample_worker
           N == NumStep
           q == N \div n
<1>0. n \in Nat \ {0} /\ N \in Nat /\ g \in Nat /\ g <= N - 1 /\ n - 1 \in Sampler /\ q \in Nat
  BY ConfNumbers DEF Sampler
<1>1. StepOffset(n - 1) = q * (n - 1) /\ LocalSteps(n - 1) = N - q * (n - 1)
  BY <1>0, ShareFacts DEF StepOffset, ShufflerSteps
<1>2. \A i : StepOffset(i) = q * i /\ (i # n - 1 => LocalSteps(i) = q)
  BY DEF StepOffset, LocalSteps
<1> HIDE DEF q, N
<1>3. CASE g >= q * (n - 1)
  <2> DEFINE o == q * (n - 1)
             s == g - o
  <2>1. o \in Nat /\ o <= g
    BY <1>0, <1>3
  <2>2. StepOffset(n - 1) = o /\ LocalSteps(n - 1) = N - o
    BY <1>1
  <2> HIDE DEF o
  <2>3. s \in 0 .. LocalSteps(n - 1) - 1 /\ g = StepOffset(n - 1) + s
    BY <1>0, <2>1, <2>2
  <2> QED BY <1>0, <2>3
<1>4. CASE g < q * (n - 1)
  <2>1. q # 0
    BY <1>0, <1>4
  <2> DEFINE i == g \div q
             s == g % q
  <2>2. i \in Nat /\ s \in Nat /\ s < q /\ g = i * q + s
    BY <1>0, <2>1
  <2> HIDE DEF i, s
  <2>3. i < n - 1
    <3>1. ASSUME i >= n - 1 PROVE FALSE
      <4>1. i * q >= (n - 1) * q /\ (n - 1) * q = q * (n - 1)
        BY <1>0, <2>2, <3>1
      <4> QED BY <1>0, <1>4, <2>2, <4>1
    <3> QED BY <1>0, <2>2, <3>1
  <2>4. i \in Sampler /\ StepOffset(i) = q * i /\ LocalSteps(i) = q
    BY <1>0, <1>2, <2>2, <2>3 DEF Sampler
  <2>5. s \in 0 .. LocalSteps(i) - 1 /\ g = StepOffset(i) + s
    BY <1>0, <2>2, <2>4
  <2> QED BY <2>4, <2>5
<1> QED BY <1>0, <1>3, <1>4

LEMMA NowFacts ==
    ASSUME TurnsInv, EpochInv
    PROVE  /\ 0 \in Sampler /\ S(0) \in Proc
           /\ Now \in Nat /\ \A p \in Proc : epoch[p] = Now
           /\ Opening \/ Working => Now \in 0 .. num_epoch - 1
<1>1. 0 \in Sampler /\ S(0) \in Proc
  <2>1. 0 \in Sampler
    BY ConfNumbers DEF TurnsInv, Sampler
  <2> QED BY <2>1, Processes
<1>2. \A p \in Proc : epoch[p] = Now
  BY <1>1 DEF TurnsInv, SameEpoch, Now
<1>3. Now \in Nat
  BY <1>1 DEF EpochInv, Now
<1>4. Opening \/ Working => Now \in 0 .. num_epoch - 1
  BY <1>1, EpochNow DEF Now
<1> QED BY <1>1, <1>2, <1>3, <1>4

(* How far a shuffler and its sampler are. *)
LEMMA DrawnFacts ==
    ASSUME SameSplit, TypeInv, NEW i \in Sampler
    PROVE  /\ conf \in Configurations /\ LocalSteps(i) \in Nat \ {0}
           /\ todo[i] \in Nat /\ todo[i] <= LocalSteps(i)
           /\ Sent(i) \in Nat /\ Sent(i) = LocalSteps(i) - todo[i]
           /\ Drawn(i) = IF pc[S(i)] = "send" THEN Sent(i) + 1 ELSE Sent(i)
           /\ pc[S(i)] = "send" => todo[i] > 0
<1>1. /\ conf \in Configurations /\ todo[i] \in 0 .. NumStep /\ todo[i] <= LocalSteps(i)
      /\ pc[S(i)] = "send" => todo[i] > 0
  BY DEF TypeInv, TokensInv, TurnsInv, TodoInv
<1>2. LocalSteps(i) \in Nat \ {0} /\ NumStep \in Nat
  BY <1>1, ShareFacts
<1> QED BY <1>1, <1>2 DEF Sent, Drawn

------------------------------------------------------------------------------
LEMMA EpochsInit == Init => EpochsInv
<1> SUFFICES ASSUME Init PROVE EpochsInv
  OBVIOUS
<1>1. TypeInv /\ conf \in Configurations
  BY TypeInit DEF Init
<1>2. 0 \in Sampler /\ S(0) \in Proc
  BY <1>1, NowFacts DEF TypeInv, TokensInv
<1>3. Now = 0
  BY <1>2 DEF Init, Now
<1>4. \A i \in Sampler : pc[S(i)] = "run" /\ todo[i] = LocalSteps(i) /\ shuffler[i] = NewShuffler(i)
  BY Processes DEF Init
<1>5. \A i \in Sampler : LocalSteps(i) \in Nat
  BY <1>1, LocalFacts, ConfNumbers
<1>6. PositionInv
  BY <1>3, <1>4, <1>5 DEF PositionInv, PositionAfter, Drawn
<1>7. SentInv
  BY <1>4, <1>5 DEF SentInv, Sent
<1>8. channel = {} /\ received = {} /\ trained = {} /\ Training = {}
  BY Processes DEF Init, Channel!ChannelInit, Training
<1>9. PlaceInv /\ MessagesInv
  BY <1>8 DEF PlaceInv, MessagesInv, Got
<1>10. CompleteInv
  BY <1>3 DEF CompleteInv
<1> QED BY <1>1, <1>6, <1>7, <1>9, <1>10 DEF EpochsInv

(* A step that moves no shuffler. *)
LEMMA PositionStays ==
    ASSUME PositionInv, conf' = conf, Now' = Now, shuffler' = shuffler,
           \A i \in Sampler :
                /\ Drawn(i)' = Drawn(i)
                /\ pc'[S(i)] = "send" =>
                        pc[S(i)] = "send" /\ todo'[i] = todo[i] /\ task'[i] = task[i]
    PROVE  PositionInv'
<1>1. Sampler' = Sampler
  BY NoneChanges
<1>2. /\ \A i, e, k : KeyOf(i, e, k)' = KeyOf(i, e, k)
      /\ \A i, e, k : PositionAfter(i, e, k)' = PositionAfter(i, e, k)
      /\ \A i : LocalSteps(i)' = LocalSteps(i)
  BY KeysSame, SplitSame
<1>3. ASSUME NEW i \in Sampler
      PROVE  /\ shuffler'[i] = PositionAfter(i, Now, Drawn(i))'
             /\ pc'[S(i)] = "send" => task'[i] = KeyOf(i, Now, Sent(i))'
  <2>1. PositionAfter(i, Now, Drawn(i))' = PositionAfter(i, Now, Drawn(i))
    BY <1>2 DEF PositionAfter, NewShuffler
  <2>2. pc'[S(i)] = "send" => KeyOf(i, Now, Sent(i))' = KeyOf(i, Now, Sent(i))
    BY <1>2 DEF KeyOf, Sent
  <2> QED BY <2>1, <2>2 DEF PositionInv
<1> QED BY <1>1, <1>3 DEF PositionInv

(* A step that moves no message. *)
LEMMA MessagesStay ==
    ASSUME EpochsInv, conf' = conf, Now' = Now, Training' = Training, todo' = todo,
           UNCHANGED <<channel, received, batch, trained>>
    PROVE  SentInv' /\ PlaceInv' /\ MessagesInv' /\ CompleteInv'
<1>1. /\ Sampler' = Sampler /\ NumStep' = NumStep
      /\ \A i : Sent(i)' = Sent(i)
      /\ \A i, e, k : MessageOf(i, e, k)' = MessageOf(i, e, k)
      /\ \A m : Genuine(m)' <=> Genuine(m)
  BY NoneChanges, SplitSame, KeysSame DEF Sent
<1>2. SentInv'
  <2> SUFFICES ASSUME NEW i \in Sampler, NEW k \in 0 .. Sent(i) - 1
               PROVE  MessageOf(i, Now, k)' \in channel \cup received
    BY <1>1 DEF SentInv
  <2>1. MessageOf(i, Now, k)' = MessageOf(i, Now, k)
    BY <1>1 DEF MessageOf, KeyOf
  <2> QED BY <2>1 DEF EpochsInv, SentInv
<1>3. PlaceInv'
  BY DEF EpochsInv, PlaceInv, Got
<1>4. MessagesInv'
  BY <1>1 DEF EpochsInv, MessagesInv
<1>5. CompleteInv'
  BY <1>1 DEF EpochsInv, CompleteInv, Complete, Done
<1> QED BY <1>2, <1>3, <1>4, <1>5

------------------------------------------------------------------------------
LEMMA PositionSampler ==
    ASSUME SameSplit, EpochsInv, NEW i \in Sampler, SamplerStep(i)
    PROVE  PositionInv' /\ Now' = Now
<1>1. /\ conf \in Configurations /\ TurnsInv /\ TodoInv /\ EpochInv /\ ShufflerInv /\ TypeInv
      /\ PositionInv
  BY DEF EpochsInv, TypeInv, TokensInv, TurnsInv
<1>2. PICK from, to :
        /\ Goto(S(i), from, to)
        /\ \/ /\ from = "sample" /\ to = "send" /\ todo[i] > 0 /\ todo' = todo
              /\ shuffler' = [shuffler EXCEPT ![i] = NextBatch(shuffler[i], i)]
              /\ task' = [task EXCEPT ![i] = BatchKey(NextBatch(shuffler[i], i), i)]
           \/ /\ from = "send" /\ to # "send" /\ todo' = [todo EXCEPT ![i] = @ - 1]
              /\ shuffler' = shuffler /\ task' = [task EXCEPT ![i] = -1]
           \/ /\ from # "send" /\ to # "send"
              /\ todo' = todo /\ shuffler' = shuffler /\ task' = task
  <2>1. CASE BeginEpoch(i)
    BY <2>1 DEF BeginEpoch, samplerVars
  <2>2. CASE SampleOnce(i)
    BY <2>2 DEF SampleOnce
  <2>3. CASE Send(i)
    BY <2>3 DEF Send
  <2>4. CASE Sampled(i) \/ SetStopEvent(i)
    BY <2>4 DEF Sampled, SetStopEvent, samplerVars
  <2> QED BY <2>1, <2>2, <2>3, <2>4 DEF SamplerStep
<1>3. /\ conf' = conf /\ Sampler' = Sampler /\ epoch' = epoch
      /\ pc[S(i)] = from /\ pc'[S(i)] = to
      /\ \A k \in Sampler : k # i => pc'[S(k)] = pc[S(k)]
  BY <1>1, <1>2, SamplerMoves
<1>4. Now' = Now /\ Now \in Nat
  BY <1>1, <1>3, NowFacts DEF Now
<1>5. /\ \A k : LocalSteps(k)' = LocalSteps(k)
      /\ \A k, e, n : KeyOf(k, e, n)' = KeyOf(k, e, n)
      /\ \A k, e, n : PositionAfter(k, e, n)' = PositionAfter(k, e, n)
  BY <1>3, SplitSame, KeysSame
<1>6. /\ LocalSteps(i) \in Nat \ {0} /\ todo[i] \in Nat /\ todo[i] <= LocalSteps(i)
      /\ Sent(i) \in Nat /\ Sent(i) = LocalSteps(i) - todo[i]
      /\ Drawn(i) = IF pc[S(i)] = "send" THEN Sent(i) + 1 ELSE Sent(i)
  BY <1>1, DrawnFacts
<1>7. CASE from = "sample" /\ to = "send"
  <2> DEFINE n == Sent(i)
             sh == PositionAfter(i, Now, n + 1)
  <2>1. /\ todo[i] > 0 /\ todo' = todo
        /\ shuffler' = [shuffler EXCEPT ![i] = NextBatch(shuffler[i], i)]
        /\ task' = [task EXCEPT ![i] = BatchKey(NextBatch(shuffler[i], i), i)]
    BY <1>2, <1>7
  <2>2. shuffler[i] = PositionAfter(i, Now, n) /\ n \in 0 .. LocalSteps(i) - 1
    BY <1>1, <1>3, <1>6, <1>7, <2>1 DEF PositionInv
  <2>3. NextBatch(shuffler[i], i) = sh /\ BatchKey(sh, i) = KeyOf(i, Now, n)
    BY <1>1, <1>4, <2>2, ShufflerMoves
  <2>4. /\ shuffler'[i] = sh /\ task'[i] = KeyOf(i, Now, n)
        /\ \A k \in Sampler : k # i => shuffler'[k] = shuffler[k] /\ task'[k] = task[k]
    BY <1>1, <2>1, <2>3 DEF ShufflerInv
  <2> HIDE DEF sh
  <2>5. \A k : Sent(k)' = Sent(k)
    BY <1>5, <2>1 DEF Sent
  <2>6. Drawn(i)' = n + 1
    BY <1>3, <1>5, <1>6, <1>7, <2>1 DEF Drawn
  <2>7. \A k \in Sampler : k # i => Drawn(k)' = Drawn(k)
    BY <1>3, <1>5, <2>1 DEF Drawn
  <2>8. ASSUME NEW k \in Sampler
        PROVE  /\ shuffler'[k] = PositionAfter(k, Now', Drawn(k)')
               /\ pc'[S(k)] = "send" => task'[k] = KeyOf(k, Now', Sent(k)')
    <3>1. CASE k = i
      BY <1>4, <2>4, <2>5, <2>6, <3>1 DEF sh
    <3>2. CASE k # i
      BY <1>1, <1>3, <1>4, <2>4, <2>5, <2>7, <3>2 DEF PositionInv
    <3> QED BY <3>1, <3>2
  <2>9. ASSUME NEW k \in Sampler
        PROVE  /\ shuffler'[k] = PositionAfter(k, Now, Drawn(k))'
               /\ pc'[S(k)] = "send" => task'[k] = KeyOf(k, Now, Sent(k))'
    <3>1. PositionAfter(k, Now, Drawn(k))' = PositionAfter(k, Now', Drawn(k)')
      BY <1>5 DEF PositionAfter, NewShuffler, ShufflerSteps, StepOffset, NumStep, num_sample_worker
    <3>2. KeyOf(k, Now, Sent(k))' = KeyOf(k, Now', Sent(k)')
      BY <1>3 DEF KeyOf, NumStep, StepOffset, num_sample_worker
    <3> QED BY <2>8, <3>1, <3>2
  <2> QED BY <1>3, <1>4, <2>9 DEF PositionInv
<1>8. CASE to # "send"
  <2>1. /\ shuffler' = shuffler
        /\ task' = IF from = "send" THEN [task EXCEPT ![i] = -1] ELSE task
        /\ todo' = IF from = "send" THEN [todo EXCEPT ![i] = @ - 1] ELSE todo
    BY <1>2, <1>8
  <2>2. \A k \in Sampler : k # i => task'[k] = task[k]
    BY <1>1, <2>1 DEF ShufflerInv
  <2>3. todo'[i] = (IF from = "send" THEN todo[i] - 1 ELSE todo[i])
        /\ \A k \in Sampler : k # i => todo'[k] = todo[k]
    BY <1>1, <2>1 DEF TodoInv
  <2>4. Drawn(i)' = Drawn(i)
    BY <1>3, <1>5, <1>6, <1>8, <2>3 DEF Drawn
  <2>5. \A k \in Sampler : k # i => Drawn(k)' = Drawn(k)
    BY <1>3, <1>5, <2>3 DEF Drawn
  <2> QED BY <1>1, <1>3, <1>4, <1>8, <2>1, <2>2, <2>3, <2>4, <2>5, PositionStays
<1> QED BY <1>2, <1>7, <1>8

(* What a sampler sends is the mini-batch it is at. *)
LEMMA SentMessage ==
    ASSUME SameSplit, EpochsInv, NEW i \in Sampler, Send(i)
    PROVE  /\ Channel!Send(MessageOf(i, Now, Sent(i)))
           /\ Genuine(MessageOf(i, Now, Sent(i)))
           /\ MessageOf(i, Now, Sent(i)).epoch = Now
<1>1. TurnsInv /\ EpochInv /\ TypeInv /\ PositionInv
  BY DEF EpochsInv, TypeInv, TokensInv
<1>2. pc[S(i)] = "send"
  BY DEF Send, Goto
<1>3. Now \in 0 .. num_epoch - 1 /\ epoch[S(i)] = Now
  BY <1>1, <1>2, NowFacts, WhichStretch, Processes
<1>4. Sent(i) \in 0 .. LocalSteps(i) - 1
  BY <1>1, <1>2, DrawnFacts
<1>5. task[i] = KeyOf(i, Now, Sent(i))
  BY <1>1, <1>2 DEF PositionInv
<1>6. MessageOf(i, Now, Sent(i)) = [from |-> i, epoch |-> epoch[S(i)],
                                    nth |-> LocalSteps(i) - todo[i], key |-> task[i]]
  BY <1>3, <1>5 DEF MessageOf, Sent
<1>7. Channel!Send(MessageOf(i, Now, Sent(i)))
  BY <1>6 DEF Send
<1>8. Genuine(MessageOf(i, Now, Sent(i)))
  BY <1>3, <1>4 DEF Genuine
<1>9. MessageOf(i, Now, Sent(i)).epoch = Now
  BY DEF MessageOf
<1> QED BY <1>7, <1>8, <1>9

LEMMA MessagesSend ==
    ASSUME SameSplit, EpochsInv, NEW i \in Sampler, Send(i)
    PROVE  SentInv' /\ PlaceInv' /\ MessagesInv' /\ CompleteInv'
<1> DEFINE m == MessageOf(i, Now, Sent(i))
<1>1. TurnsInv /\ EpochInv /\ TypeInv /\ TodoInv
  BY DEF EpochsInv, TypeInv, TokensInv
<1>2. /\ m \notin channel \cup received /\ channel' = channel \cup {m} /\ received' = received
      /\ Genuine(m) /\ m.epoch = Now
  BY SentMessage DEF Channel!Send
<1>3. Goto(S(i), "send", "sample") /\ todo' = [todo EXCEPT ![i] = @ - 1]
      /\ batch' = batch /\ trained' = trained
  BY DEF Send, workerVars
<1>4. /\ conf' = conf /\ Sampler' = Sampler /\ epoch' = epoch
      /\ \A w \in Worker : pc'[w] = pc[w]
  BY <1>1, <1>3, SamplerMoves
<1>5. Now' = Now /\ Training' = Training /\ NumStep' = NumStep
  BY <1>4, NoneChanges, SplitSame DEF Now, Training
<1>6. /\ \A k : LocalSteps(k)' = LocalSteps(k)
      /\ \A k, e, n : MessageOf(k, e, n)' = MessageOf(k, e, n)
      /\ \A g : Genuine(g)' <=> Genuine(g)
  BY <1>4, SplitSame, KeysSame
<1>7. Sent(i)' = Sent(i) + 1 /\ Sent(i) \in Nat
      /\ \A k \in Sampler : k # i => Sent(k)' = Sent(k)
  <2>1. /\ todo'[i] = todo[i] - 1
        /\ \A k \in Sampler : k # i => todo'[k] = todo[k]
    BY <1>1, <1>3 DEF TodoInv
  <2>2. LocalSteps(i) \in Nat /\ todo[i] \in Nat /\ Sent(i) \in Nat
    BY <1>1, DrawnFacts
  <2> QED BY <1>6, <2>1, <2>2 DEF Sent
<1> HIDE DEF m
<1>8. SentInv'
  <2> SUFFICES ASSUME NEW k \in Sampler, NEW n \in 0 .. Sent(k)' - 1
               PROVE  MessageOf(k, Now, n)' \in channel' \cup received'
    BY <1>4 DEF SentInv
  <2>1. MessageOf(k, Now, n)' = MessageOf(k, Now, n)
    BY <1>4, <1>5 DEF MessageOf, KeyOf, NumStep, StepOffset, num_sample_worker
  <2>2. CASE k = i /\ n = Sent(i)
    BY <1>2, <2>1, <2>2 DEF m
  <2>3. CASE ~ (k = i /\ n = Sent(i))
    <3>1. n \in 0 .. Sent(k) - 1
      BY <1>7, <2>3
    <3>2. MessageOf(k, Now, n) \in channel \cup received
      BY <3>1 DEF EpochsInv, SentInv
    <3> QED BY <1>2, <2>1, <3>2
  <2> QED BY <2>2, <2>3
<1>9. PlaceInv'
  BY <1>2, <1>3, <1>5 DEF EpochsInv, PlaceInv, Got
<1>10. MessagesInv'
  BY <1>2, <1>3, <1>5, <1>6 DEF EpochsInv, MessagesInv
<1>11. CompleteInv'
  BY <1>3, <1>5 DEF EpochsInv, CompleteInv, Complete, Done
<1> QED BY <1>8, <1>9, <1>10, <1>11

LEMMA EpochsSampler ==
    ASSUME SameSplit, EpochsInv, NEW i \in Sampler, SamplerStep(i)
    PROVE  EpochsInv'
<1>1. TypeInv' /\ PositionInv' /\ Now' = Now
  BY PositionSampler, TypeStep DEF EpochsInv, Next
<1>2. CASE Send(i)
  BY <1>1, <1>2, MessagesSend DEF EpochsInv
<1>3. CASE ~ Send(i)
  <2>1. PICK from, to : Goto(S(i), from, to)
    BY DEF SamplerStep, BeginEpoch, SampleOnce, Send, Sampled, SetStopEvent
  <2>2. conf' = conf /\ \A w \in Worker : pc'[w] = pc[w]
    BY <2>1, SamplerMoves DEF EpochsInv, TypeInv, TokensInv
  <2>3. Training' = Training
    BY <2>2, NoneChanges DEF Training
  <2>4. todo' = todo /\ UNCHANGED <<channel, received, batch, trained>>
    BY <1>3 DEF SamplerStep, BeginEpoch, SampleOnce, Sampled, SetStopEvent, queueVars,
           samplerVars, workerVars
  <2>5. SentInv' /\ PlaceInv' /\ MessagesInv' /\ CompleteInv'
    BY <1>1, <2>2, <2>3, <2>4, MessagesStay
  <2> QED BY <1>1, <2>5 DEF EpochsInv
<1> QED BY <1>2, <1>3

------------------------------------------------------------------------------
(* A worker that receives has the message alone. *)
LEMMA MessagesRecv ==
    ASSUME EpochsInv, NEW w \in Worker, RecvBatch(w), conf' = conf, Now' = Now, Worker' = Worker,
           pc[w] = "recv", pc'[w] = "train",
           \A v \in Worker : v # w => pc'[v] = pc[v]
    PROVE  SentInv' /\ PlaceInv' /\ MessagesInv' /\ CompleteInv'
<1>1. PICK m \in channel : /\ channel' = channel \ {m} /\ received' = received \cup {m}
                           /\ batch' = [batch EXCEPT ![w] = m]
  BY DEF RecvBatch, Channel!Recv
<1>2. trained' = trained /\ todo' = todo
  BY DEF RecvBatch, samplerVars
<1>3. /\ Training' = Training \cup {w} /\ w \notin Training
      /\ batch'[w] = m /\ \A v \in Training : batch'[v] = batch[v]
  BY <1>1 DEF Training, EpochsInv, TypeInv, WorkerInv
<1>4. /\ Sampler' = Sampler /\ NumStep' = NumStep
      /\ \A k : Sent(k)' = Sent(k)
      /\ \A g : Genuine(g)' <=> Genuine(g)
  BY <1>2, NoneChanges, SplitSame, KeysSame DEF Sent
<1>5. channel' \cup received' = channel \cup received
  BY <1>1
<1>6. m \notin received /\ m \notin Got /\ Got' = Got
  BY <1>1, <1>2 DEF EpochsInv, PlaceInv, Got
<1>7. SentInv'
  <2> SUFFICES ASSUME NEW k \in Sampler, NEW n \in 0 .. Sent(k) - 1
               PROVE  MessageOf(k, Now, n)' \in channel' \cup received'
    BY <1>4 DEF SentInv
  <2>1. MessageOf(k, Now, n)' = MessageOf(k, Now, n)
    BY DEF MessageOf, KeyOf, NumStep, StepOffset, num_sample_worker
  <2> QED BY <1>5, <2>1 DEF EpochsInv, SentInv
<1>8. PlaceInv'
  <2>1. channel' \cap received' = {} /\ Got' \subseteq received'
    BY <1>1, <1>6 DEF EpochsInv, PlaceInv
  <2>2. \A v \in Training' : batch'[v] \in received' \ Got'
    BY <1>1, <1>3, <1>6 DEF EpochsInv, PlaceInv
  <2>3. ASSUME NEW u \in Training', NEW v \in Training', batch'[u] = batch'[v] PROVE u = v
    BY <1>3, <1>6, <2>3 DEF EpochsInv, PlaceInv
  <2>4. \A f, g \in trained' : f.message = g.message => f = g
    BY <1>2 DEF EpochsInv, PlaceInv
  <2>5. ASSUME NEW g \in received' \ Got' PROVE \E v \in Training' : batch'[v] = g
    <3>1. CASE g = m
      BY <1>3, <3>1
    <3>2. CASE g # m
      <4>1. PICK v \in Training : batch[v] = g
        BY <1>1, <1>6, <2>5, <3>2 DEF EpochsInv, PlaceInv
      <4> QED BY <1>3, <4>1
    <3> QED BY <3>1, <3>2
  <2> QED BY <2>1, <2>2, <2>3, <2>4, <2>5 DEF PlaceInv
<1>9. MessagesInv'
  BY <1>1, <1>2, <1>3, <1>4 DEF EpochsInv, MessagesInv
<1>10. CompleteInv'
  BY <1>2, <1>4 DEF EpochsInv, CompleteInv, Complete, Done
<1> QED BY <1>7, <1>8, <1>9, <1>10

(* What is trained is of the epoch the worker is in, and was not trained   *)
(* before.                                                                 *)
LEMMA MessagesTrain ==
    ASSUME EpochsInv, NEW w \in Worker, Train(w), conf' = conf, Now' = Now, Worker' = Worker,
           pc[w] = "train", pc'[w] = "acquire", epoch[w] = Now, Now \in Nat,
           \A v \in Worker : v # w => pc'[v] = pc[v]
    PROVE  SentInv' /\ PlaceInv' /\ MessagesInv' /\ CompleteInv'
<1> DEFINE fact == [by |-> w, epoch |-> epoch[w], message |-> batch[w]]
<1>1. /\ trained' = trained \cup {fact} /\ batch' = [batch EXCEPT ![w] = NoMessage]
      /\ channel' = channel /\ received' = received /\ todo' = todo
  BY DEF Train, queueVars, samplerVars
<1>2. /\ fact.epoch = Now /\ fact.message = batch[w]
  OBVIOUS
<1> HIDE DEF fact
<1>3. /\ Training' = Training \ {w} /\ w \in Training
      /\ \A v \in Training' : batch'[v] = batch[v]
  BY <1>1 DEF Training, EpochsInv, TypeInv, WorkerInv
<1>4. /\ Sampler' = Sampler /\ NumStep' = NumStep
      /\ \A k : Sent(k)' = Sent(k)
      /\ \A g : Genuine(g)' <=> Genuine(g)
  BY <1>1, NoneChanges, SplitSame, KeysSame DEF Sent
<1>5. /\ batch[w] \in received /\ batch[w] \notin Got /\ batch[w].epoch = Now
      /\ Got' = Got \cup {batch[w]}
  BY <1>1, <1>2, <1>3 DEF EpochsInv, PlaceInv, MessagesInv, Got
<1>6. SentInv'
  <2> SUFFICES ASSUME NEW k \in Sampler, NEW n \in 0 .. Sent(k) - 1
               PROVE  MessageOf(k, Now, n)' \in channel' \cup received'
    BY <1>4 DEF SentInv
  <2>1. MessageOf(k, Now, n)' = MessageOf(k, Now, n)
    BY DEF MessageOf, KeyOf, NumStep, StepOffset, num_sample_worker
  <2> QED BY <1>1, <2>1 DEF EpochsInv, SentInv
<1>7. PlaceInv'
  <2>1. channel' \cap received' = {} /\ Got' \subseteq received'
    BY <1>1, <1>5 DEF EpochsInv, PlaceInv
  <2>2. ASSUME NEW v \in Training' PROVE batch'[v] \in received' \ Got'
    BY <1>1, <1>3, <1>5, <2>2 DEF EpochsInv, PlaceInv
  <2>3. \A u, v \in Training' : batch'[u] = batch'[v] => u = v
    BY <1>3 DEF EpochsInv, PlaceInv
  <2>4. ASSUME NEW f \in trained', NEW g \in trained', f.message = g.message PROVE f = g
    BY <1>1, <1>2, <1>5, <2>4 DEF EpochsInv, PlaceInv, Got
  <2>5. ASSUME NEW g \in received' \ Got' PROVE \E v \in Training' : batch'[v] = g
    <3>1. PICK v \in Training : batch[v] = g
      BY <1>1, <1>5, <2>5 DEF EpochsInv, PlaceInv
    <3>2. v # w
      BY <1>5, <2>5, <3>1
    <3> QED BY <1>3, <3>1, <3>2
  <2> QED BY <2>1, <2>2, <2>3, <2>4, <2>5 DEF PlaceInv
<1>8. MessagesInv'
  BY <1>1, <1>2, <1>3, <1>4, <1>5 DEF EpochsInv, MessagesInv
<1>9. CompleteInv'
  <2> SUFFICES ASSUME NEW e \in 0 .. Now - 1 PROVE Complete(e)'
    BY DEF CompleteInv
  <2>1. Done(e)' = Done(e)
    BY <1>1, <1>2 DEF Done
  <2> QED BY <1>4, <2>1 DEF EpochsInv, CompleteInv, Complete
<1> QED BY <1>6, <1>7, <1>8, <1>9

LEMMA EpochsWorker ==
    ASSUME SameSplit, EpochsInv, NEW w \in Worker, WorkerStep(w)
    PROVE  EpochsInv'
<1>0. TurnsInv /\ EpochInv /\ PositionInv
  BY DEF EpochsInv, TypeInv, TokensInv
<1>1. TypeInv'
  BY TypeStep DEF EpochsInv, Next
<1>2. PICK from, to :
        /\ Goto(w, from, to)
        /\ \/ RecvBatch(w) /\ from = "recv" /\ to = "train"
           \/ Train(w) /\ from = "train" /\ to = "acquire"
           \/ /\ from \in {"wait", "acquire"} /\ to \in {"acquire", "recv", "end"}
              /\ UNCHANGED <<channel, received, batch, trained>>
  <2>1. CASE WaitStopEvent(w) \/ Acquire(w) \/ AcquireTimeout(w)
    BY <2>1 DEF WaitStopEvent, Acquire, AcquireTimeout, queueVars, workerVars
  <2>2. CASE RecvBatch(w) \/ Train(w)
    BY <2>2 DEF RecvBatch, Train
  <2> QED BY <2>1, <2>2 DEF WorkerStep
<1>3. /\ conf' = conf /\ Worker' = Worker /\ epoch' = epoch
      /\ pc[w] = from /\ pc'[w] = to
      /\ \A i \in Sampler : pc'[S(i)] = pc[S(i)]
      /\ \A v \in Worker : v # w => pc'[v] = pc[v]
  BY <1>0, <1>2, WorkerMoves
<1>4. Now' = Now /\ Now \in Nat /\ epoch[w] = Now
  BY <1>0, <1>3, NowFacts, Processes DEF Now
<1>5. todo' = todo /\ shuffler' = shuffler /\ task' = task
  BY DEF WorkerStep, WaitStopEvent, Acquire, AcquireTimeout, RecvBatch, Train, samplerVars
<1>6. PositionInv'
  <2>1. \A i \in Sampler : Drawn(i)' = Drawn(i)
    BY <1>3, <1>5, SplitSame DEF Drawn
  <2> QED BY <1>0, <1>3, <1>4, <1>5, <2>1, PositionStays
<1>7. SentInv' /\ PlaceInv' /\ MessagesInv' /\ CompleteInv'
  <2>1. CASE RecvBatch(w) /\ from = "recv" /\ to = "train"
    BY <1>3, <1>4, <2>1, MessagesRecv
  <2>2. CASE Train(w) /\ from = "train" /\ to = "acquire"
    BY <1>3, <1>4, <2>2, MessagesTrain
  <2>3. CASE /\ from \in {"wait", "acquire"} /\ to \in {"acquire", "recv", "end"}
             /\ UNCHANGED <<channel, received, batch, trained>>
    <3>1. Training' = Training
      BY <1>3, <2>3 DEF Training
    <3> QED BY <1>3, <1>4, <1>5, <2>3, <3>1, MessagesStay
  <2> QED BY <1>2, <2>1, <2>2, <2>3
<1> QED BY <1>1, <1>6, <1>7 DEF EpochsInv

------------------------------------------------------------------------------
(* At the end of an epoch the semaphore is at 0 and nothing is to be sent, *)
(* so the queue is empty; nobody holds a message, so all is trained.       *)
LEMMA EpochEnds ==
    ASSUME SameSplit, EpochsInv, Working, \A p \in Proc : pc[p] = "end"
    PROVE  channel = {} /\ Complete(Now)
<1> DEFINE N == NumStep
           R == Now * N .. (Now + 1) * N - 1
           D == Done(Now)
           key == [f \in D |-> f.message.key]
<1>1. /\ conf \in Configurations /\ TurnsInv /\ EpochInv /\ TodoInv /\ TypeInv
      /\ TokensMatch /\ mq_sem \in Nat /\ IsFiniteSet(channel)
  BY DEF EpochsInv, TypeInv, TokensInv, TurnsInv
<1>2. Now \in Nat /\ N \in Nat \ {0} /\ 0 \in Sampler
  BY <1>1, NowFacts, ConfNumbers
<1>3. \A i \in Sampler : todo[i] = 0 /\ pc[W(i)] = "end" /\ W(i) \in Worker
  BY <1>1, Processes DEF TodoInv
<1>4. Training = {} /\ Receivers = {}
  BY Processes DEF Training, Receivers
<1>5. channel = {}
  <2>1. mq_sem = 0
    BY <1>1, <1>2, <1>3 DEF EpochInv
  <2>2. Pending = {}
    BY <1>3 DEF Pending, Announced
  <2>3. Cardinality(channel) \in Nat /\ Cardinality({}) = 0
    BY <1>1, FS_CardinalityType, FS_EmptySet
  <2>4. mq_sem + Cardinality(Receivers) = Cardinality(channel) + Cardinality(Pending)
    BY <1>1 DEF TokensMatch, Receivers
  <2>5. Cardinality(channel) = 0
    BY <1>4, <2>1, <2>2, <2>3, <2>4
  <2> QED BY <1>1, <2>5, FS_EmptySet
<1>6. \A i \in Sampler : Sent(i) = LocalSteps(i)
  BY <1>1, <1>3, DrawnFacts
<1>7. ASSUME NEW f \in D
      PROVE  Genuine(f.message) /\ f.message.epoch = Now /\ f.message.key \in R
  <2>1. f.message \in received /\ f.message.epoch = Now
    BY DEF EpochsInv, PlaceInv, MessagesInv, Done, Got
  <2>2. Genuine(f.message)
    BY <2>1 DEF EpochsInv, MessagesInv
  <2> QED BY <1>1, <2>1, <2>2, GenuineFacts
<1>8. ASSUME NEW x \in R PROVE \E f \in D : f.message.key = x
  <2> DEFINE g == x - Now * N
  <2>1. g \in 0 .. N - 1 /\ x = Now * N + g
    <3>1. Now * N \in Nat /\ (Now + 1) * N = Now * N + N
      BY <1>2
    <3> HIDE DEF N
    <3> QED BY <1>2, <3>1
  <2> HIDE DEF g
  <2>2. PICK i \in Sampler : \E k \in 0 .. LocalSteps(i) - 1 : g = StepOffset(i) + k
    BY <1>1, <2>1, SomeOwner
  <2>3. PICK k \in 0 .. LocalSteps(i) - 1 : g = StepOffset(i) + k
    BY <2>2
  <2>4. MessageOf(i, Now, k) \in received
    BY <1>5, <1>6, <2>3 DEF EpochsInv, SentInv
  <2>5. PICK f \in trained : f.message = MessageOf(i, Now, k)
    BY <1>4, <2>4 DEF EpochsInv, PlaceInv, Got
  <2>6. f.message.epoch = Now /\ f.message.key = KeyOf(i, Now, k)
    BY <2>5 DEF MessageOf
  <2>7. f \in D
    BY <2>5, <2>6 DEF EpochsInv, MessagesInv, Done
  <2>8. KeyOf(i, Now, k) = x
    BY <1>1, <1>2, <2>1, <2>3, KeyFacts
  <2> QED BY <2>6, <2>7, <2>8
<1>9. {f.message.key : f \in D} = R
  BY <1>7, <1>8
<1>10. IsFiniteSet(R) /\ Cardinality(R) = N
  <2>1. Now * N \in Nat /\ (Now + 1) * N = Now * N + N
    BY <1>2
  <2> DEFINE a == Now * N
  <2>2. a \in Nat /\ R = a .. a + N - 1
    <3>1. a \in Nat /\ (Now + 1) * N - 1 = a + N - 1
      BY <1>2, <2>1
    <3>2. R = a .. (Now + 1) * N - 1
      OBVIOUS
    <3> QED BY <3>1, <3>2, Zenon
  <2> HIDE DEF a, R, N
  <2>3. /\ IsFiniteSet(a .. a + N - 1)
        /\ Cardinality(a .. a + N - 1) = IF a > a + N - 1 THEN 0 ELSE (a + N - 1) - a + 1
    BY <1>2, <2>2, FS_Interval
  <2>4. Cardinality(a .. a + N - 1) = N
    BY <1>2, <2>2, <2>3
  <2> QED BY <2>2, <2>3, <2>4
<1> HIDE DEF R, N, D
<1>11. key \in [D -> R]
  BY <1>7
<1>12. ASSUME NEW f \in D, NEW g \in D, key[f] = key[g] PROVE f = g
  <2>1. f.message = g.message
    BY <1>1, <1>7, <1>12, GenuineUnique
  <2> QED BY <2>1 DEF D, Done, EpochsInv, PlaceInv
<1>13. key \in Bijection(D, R)
  BY <1>8, <1>11, <1>12 DEF Bijection, Injection, Surjection, IsInjective
<1>14. Cardinality(D) = N
  <2>1. key \in Injection(D, R)
    BY <1>13 DEF Bijection
  <2>2. IsFiniteSet(D)
    BY <1>10, <2>1, FS_Injection
  <2>3. ExistsBijection(D, R)
    BY <1>13 DEF ExistsBijection
  <2> QED BY <1>10, <2>2, <2>3, FS_Bijection
<1> QED BY <1>5, <1>9, <1>14 DEF Complete, D, R, N

LEMMA EpochsBarrier ==
    ASSUME SameSplit, EpochsInv, GlobalBarrier
    PROVE  EpochsInv'
<1>0. /\ conf \in Configurations /\ TurnsInv /\ EpochInv /\ TodoInv /\ TypeInv /\ PositionInv
  BY DEF EpochsInv, TypeInv, TokensInv, TurnsInv
<1>1. TypeInv'
  BY TypeStep DEF EpochsInv, Next
<1>2. /\ conf' = conf /\ Sampler' = Sampler /\ Worker' = Worker /\ Proc' = Proc
      /\ \A w \in Worker : pc[w] # "train" /\ pc'[w] # "train"
  <2>1. \A w \in Worker : pc[w] # "train"
    BY Processes DEF GlobalBarrier, GlobalWaits
  <2> QED BY <1>0, <2>1, BarrierMoves
<1>3. Training = {} /\ Training' = {}
  BY <1>2 DEF Training
<1>4. /\ shuffler' = shuffler /\ task' = task
      /\ UNCHANGED <<channel, received, batch, trained>>
  BY DEF GlobalBarrier, queueVars, workerVars
<1>5. /\ Now \in Nat /\ S(0) \in Proc /\ 0 \in Sampler /\ \A p \in Proc : epoch[p] = Now
      /\ \A i \in Sampler : S(i) \in Proc
  BY <1>0, NowFacts, Processes
<1>6. /\ \A i : LocalSteps(i)' = LocalSteps(i)
      /\ \A i, e, k : PositionAfter(i, e, k)' = PositionAfter(i, e, k)
      /\ \A m : Genuine(m)' <=> Genuine(m)
      /\ NumStep' = NumStep
  BY <1>2, SplitSame, KeysSame
(* A barrier inside an epoch. *)
<1>7. ASSUME \A p \in Proc : epoch'[p] = epoch[p],
             todo' = [i \in Sampler |-> todo[i]],
             \A i \in Sampler : pc[S(i)] # "send" /\ pc'[S(i)] # "send"
      PROVE  PositionInv' /\ SentInv' /\ PlaceInv' /\ MessagesInv' /\ CompleteInv'
  <2>1. Now' = Now
    BY <1>5, <1>7 DEF Now
  <2>2. todo' = todo
    BY <1>0, <1>7 DEF TodoInv
  <2>3. \A i \in Sampler : Drawn(i)' = Drawn(i)
    BY <1>6, <1>7, <2>2 DEF Drawn
  <2>4. PositionInv'
    BY <1>0, <1>2, <1>4, <1>7, <2>1, <2>3, PositionStays
  <2>5. SentInv' /\ PlaceInv' /\ MessagesInv' /\ CompleteInv'
    BY <1>2, <1>3, <1>4, <2>1, <2>2, MessagesStay
  <2> QED BY <2>4, <2>5
(* The barrier at its end: the shufflers turn to the next epoch. *)
<1>8. ASSUME \A p \in Proc : pc[p] = "end" /\ epoch'[p] = epoch[p] + 1,
             \A i \in Sampler : pc'[S(i)] \in {"begin", "run_end"},
             Working,
             todo' = [i \in Sampler |-> LocalSteps(i)]
      PROVE  PositionInv' /\ SentInv' /\ PlaceInv' /\ MessagesInv' /\ CompleteInv'
  <2>1. Now' = Now + 1
    BY <1>5, <1>8 DEF Now
  <2>2. channel = {} /\ Complete(Now)
    BY <1>8, EpochEnds
  <2>3. ASSUME NEW i \in Sampler
        PROVE  /\ LocalSteps(i) \in Nat \ {0}
               /\ Drawn(i) = LocalSteps(i) /\ Drawn(i)' = 0 /\ Sent(i)' = 0
               /\ pc'[S(i)] # "send"
    <3>1. LocalSteps(i) \in Nat \ {0} /\ Drawn(i) = Sent(i) /\ Sent(i) = LocalSteps(i) - todo[i]
      BY <1>0, <1>5, <1>8, DrawnFacts
    <3>2. todo[i] = 0
      BY <1>0, <1>5, <1>8 DEF TodoInv
    <3>3. todo'[i] = LocalSteps(i) /\ pc'[S(i)] # "send"
      BY <1>8
    <3> QED BY <1>6, <3>1, <3>2, <3>3 DEF Drawn, Sent
  <2>4. ASSUME NEW i \in Sampler
        PROVE  shuffler'[i] = PositionAfter(i, Now, Drawn(i))'
    <3>1. shuffler[i] = [epoch |-> Now, step |-> LocalSteps(i) - 1, initialized |-> TRUE]
      <4>1. shuffler[i] = PositionAfter(i, Now, LocalSteps(i)) /\ LocalSteps(i) > 0
        BY <1>0, <2>3 DEF PositionInv
      <4> QED BY <4>1, Zenon DEF PositionAfter
    <3>2. PositionAfter(i, Now + 1, 0)
            = [epoch |-> Now, step |-> LocalSteps(i) - 1, initialized |-> TRUE]
      <4>1. Now + 1 # 0 /\ (Now + 1) - 1 = Now /\ ~ (0 > 0)
        BY <1>5
      <4> QED BY <4>1, Zenon DEF PositionAfter
    <3>3. PositionAfter(i, Now, Drawn(i))' = PositionAfter(i, Now', Drawn(i)')
      BY <1>6 DEF PositionAfter, NewShuffler, ShufflerSteps, StepOffset, NumStep, num_sample_worker
    <3> QED BY <1>4, <2>1, <2>3, <3>1, <3>2, <3>3
  <2>5. PositionInv'
    BY <1>2, <2>3, <2>4 DEF PositionInv
  <2>6. SentInv'
    BY <1>2, <2>3 DEF SentInv
  <2>7. PlaceInv'
    BY <1>3, <1>4 DEF EpochsInv, PlaceInv, Got
  <2>8. MessagesInv'
    BY <1>3, <1>4, <1>6, <2>2 DEF EpochsInv, MessagesInv
  <2>9. CompleteInv'
    <3> SUFFICES ASSUME NEW e \in 0 .. Now PROVE Complete(e)'
      BY <1>5, <2>1 DEF CompleteInv
    <3>1. Done(e)' = Done(e)
      BY <1>4 DEF Done
    <3>2. Complete(e)
      BY <1>5, <2>2 DEF EpochsInv, CompleteInv
    <3> QED BY <1>6, <3>1, <3>2 DEF Complete
  <2> QED BY <2>5, <2>6, <2>7, <2>8, <2>9
<1>9. PositionInv' /\ SentInv' /\ PlaceInv' /\ MessagesInv' /\ CompleteInv'
  <2>1. CASE /\ \A p \in Proc : pc[p] = "run"
             /\ \A i \in Sampler : pc'[S(i)] = "begin"
             /\ \A p \in Proc : epoch'[p] = epoch[p]
             /\ todo' = [i \in Sampler |-> todo[i]]
    BY <1>5, <1>7, <2>1
  <2>2. CASE /\ \A i \in Sampler : \/ pc[S(i)] = "start" /\ pc'[S(i)] = "sample"
                                   \/ pc[S(i)] = "sampled" /\ pc'[S(i)] = "set"
             /\ \A p \in Proc : epoch'[p] = epoch[p]
             /\ todo' = [i \in Sampler |-> todo[i]]
    BY <1>7, <2>2
  <2>3. CASE /\ \A p \in Proc : pc[p] = "end" /\ epoch'[p] = epoch[p] + 1
             /\ \A i \in Sampler : pc'[S(i)] \in {"begin", "run_end"}
             /\ Working
             /\ todo' = [i \in Sampler |-> LocalSteps(i)]
    BY <1>8, <2>3
  <2>4. CASE /\ \A p \in Proc : pc[p] = "run_end" /\ pc'[p] = "exited"
             /\ \A p \in Proc : epoch'[p] = epoch[p]
             /\ todo' = [i \in Sampler |-> todo[i]]
    BY <1>5, <1>7, <2>4
  <2> QED BY <1>0, <2>1, <2>2, <2>3, <2>4, BarrierMoves
<1> QED BY <1>1, <1>9 DEF EpochsInv

LEMMA EpochsStep == ASSUME SameSplit PROVE EpochsInv /\ [Next]_vars => EpochsInv'
<1> SUFFICES ASSUME EpochsInv, [Next]_vars PROVE EpochsInv'
  OBVIOUS
<1>1. CASE Ended \/ UNCHANGED vars
  <2>1. TypeInv' /\ UNCHANGED vars
    BY <1>1, TypeStep DEF EpochsInv, Ended
  <2>2. conf' = conf /\ UNCHANGED <<pc, epoch, shuffler, todo, task, channel, received, batch,
                                    trained>>
    BY <2>1 DEF vars, procVars, samplerVars, queueVars, workerVars
  <2>3. Now' = Now /\ Training' = Training /\ \A i : Drawn(i)' = Drawn(i)
    BY <2>2, NoneChanges, SplitSame DEF Now, Training, Drawn
  <2>4. PositionInv'
    BY <2>2, <2>3, PositionStays DEF EpochsInv
  <2>5. SentInv' /\ PlaceInv' /\ MessagesInv' /\ CompleteInv'
    BY <2>2, <2>3, MessagesStay
  <2> QED BY <2>1, <2>4, <2>5 DEF EpochsInv
<1> QED BY <1>1, EpochsSampler, EpochsWorker, EpochsBarrier DEF Next

(* An epoch is left by all when each of its mini-batches has been trained, *)
(* once and in this epoch, whichever switcher or trainer took it and       *)
(* however they raced for the semaphore, if the script's float split gives *)
(* the samplers the steps that their shufflers have: five steps for three  *)
(* samplers, where it does not, really lose one (switcher_split).          *)
THEOREM EveryBatchOnce == ASSUME SameSplit PROVE Spec => []EpochComplete
<1>1. EpochsInv => EpochComplete
  <2> SUFFICES ASSUME EpochsInv, NEW w \in Worker, NEW e \in 0 .. epoch[w] - 1
               PROVE  Complete(e)
    BY DEF EpochComplete, Complete, Done
  <2>1. epoch[w] = Now
    BY NowFacts, Processes DEF EpochsInv, TypeInv, TokensInv
  <2> QED BY <2>1 DEF EpochsInv, CompleteInv
<1> QED BY <1>1, EpochsInit, EpochsStep, PTL DEF Spec
==============================================================================
