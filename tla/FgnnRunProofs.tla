---------------------------- MODULE FgnnRunProofs ----------------------------
(***************************************************************************)
(* Proofs about FgnnRun, for every way to start a run, every size of the   *)
(* queue and of the pools, and any number of crashes: when the shared      *)
(* ranking is read, that the pools keep their bound, that a trainer has    *)
(* one extraction thread at a time, that an epoch that is left is          *)
(* complete, and what each variable may hold.                              *)
(***************************************************************************)
EXTENDS FgnnRun, FiniteSetTheorems, TLAPS

(* What the configuration and the arithmetic on it are. *)
LEMMA ConfType ==
    ASSUME conf \in Configurations
    PROVE  /\ num_sample_worker \in Nat \ {0}
           /\ num_train_worker \in Nat \ {0}
           /\ 0 \in Sampler /\ 0 \in Trainer
           /\ Trainer \subseteq Nat
BY RunAssumption DEF num_sample_worker, num_train_worker, Sampler, Trainer

LEMMA ConfSame ==
    ASSUME conf' = conf
    PROVE  Sampler' = Sampler /\ Trainer' = Trainer /\ Proc' = Proc
BY DEF Sampler, Trainer, Proc, S, T, num_sample_worker, num_train_worker

LEMMA ProcKinds ==
    /\ \A i \in Sampler : S(i) \in Proc
    /\ \A j \in Trainer : T(j) \in Proc
    /\ \A p \in Proc : (\E i \in Sampler : p = S(i)) \/ (\E j \in Trainer : p = T(j))
    /\ \A i, j : S(i) # T(j)
    /\ \A i, k : S(i) = S(k) => i = k
    /\ \A j, k : T(j) = T(k) => j = k
    /\ \A i : S(i)[1] = "sampler" /\ S(i)[2] = i
    /\ \A j : T(j)[1] = "trainer" /\ T(j)[2] = j
BY DEF Proc, S, T

------------------------------------------------------------------------------
(***************************************************************************)
(* The ranking.                                                            *)
(***************************************************************************)
Places == conf \in Configurations /\ DOMAIN pc = Proc

RankingWritten ==
    /\ pc[S(0)] # "sample_init" => ranking
    /\ \A i \in Sampler : pc[S(i)] \notin {"sample_init", "sampler_barrier"} => ranking
    /\ \A j \in Trainer : pc[T(j)] # "ready" => ranking

RankInv == Places /\ RankingWritten

(* Once it is written nothing can go wrong. *)
LEMMA Written ==
    ASSUME Places, conf' = conf, DOMAIN pc' = Proc, ranking'
    PROVE  RankInv'
BY ConfSame DEF RankInv, Places, RankingWritten

LEMMA StayHere ==
    ASSUME RankInv, UNCHANGED <<conf, pc, ranking>>
    PROVE  RankInv'
BY ConfSame DEF RankInv, Places, RankingWritten

(* A process that is past its first wait has the ranking behind it. *)
LEMMA GoOn ==
    ASSUME RankInv, NEW p \in Proc, NEW from, NEW to, Goto(p, from, to),
           UNCHANGED <<conf, ranking>>,
           from \notin {"sample_init", "sampler_barrier", "ready"}
    PROVE  RankInv'
<1>1. ranking
  <2>1. CASE \E i \in Sampler : p = S(i)
    BY <2>1 DEF RankInv, RankingWritten, Goto
  <2>2. CASE \E j \in Trainer : p = T(j)
    BY <2>2 DEF RankInv, RankingWritten, Goto
  <2> QED BY <2>1, <2>2, ProcKinds
<1>2. DOMAIN pc' = Proc
  BY DEF RankInv, Places, Goto
<1> QED BY <1>1, <1>2, Written DEF RankInv

LEMMA RankInit == Init => RankInv
<1> SUFFICES ASSUME Init PROVE RankInv
  OBVIOUS
<1>1. Places
  BY DEF Init, Places
<1>2. \A i \in Sampler : pc[S(i)] = "sample_init"
  BY ProcKinds DEF Init
<1>3. \A j \in Trainer : pc[T(j)] = "ready"
  BY ProcKinds DEF Init
<1> QED BY <1>1, <1>2, <1>3, ConfType DEF RankInv, RankingWritten, Places

LEMMA RankSampler ==
    ASSUME RankInv, NEW i \in Sampler, SamplerStep(i)
    PROVE  RankInv'
<1>p. S(i) \in Proc
  BY ProcKinds
<1>1. CASE SampleInit(i)
  <2>1. DOMAIN pc' = Proc /\ conf' = conf
    BY <1>1 DEF SampleInit, Goto, RankInv, Places
  <2>2. CASE ranking \/ i = 0
    BY <1>1, <2>1, <2>2, Written DEF SampleInit, RankInv
  <2>3. CASE ~ranking /\ i # 0
    <3>1. ~ranking' /\ \A q \in Proc : q # S(i) => pc'[q] = pc[q]
      BY <1>1, <2>3 DEF SampleInit, Goto, RankInv, Places
    <3>2. pc'[S(i)] = "sampler_barrier"
      BY <1>1, <1>p DEF SampleInit, Goto, RankInv, Places
    <3>3. S(0) # S(i) /\ S(0) \in Proc
      BY <2>3, ProcKinds, ConfType DEF RankInv, Places
    <3>4. RankingWritten'
      BY <2>1, <2>3, <3>1, <3>2, <3>3, ConfSame, ProcKinds DEF RankInv, RankingWritten
    <3> QED BY <2>1, <3>4, ConfSame DEF RankInv, Places
  <2> QED BY <2>2, <2>3
<1>2. CASE SampleInitFatal(i)
  BY <1>2, StayHere DEF SampleInitFatal, Fail
<1>3. CASE SampleCacheTableInit(i)
  BY <1>3, <1>p, GoOn DEF SampleCacheTableInit
<1>4. CASE SampleOnce(i)
  <2>1. CASE Goto(S(i), "sample", "send")
    BY <1>4, <2>1, <1>p, GoOn DEF SampleOnce
  <2>2. CASE Fail(S(i), "sample")
    BY <1>4, <2>2, StayHere DEF SampleOnce, Fail
  <2> QED BY <1>4, <2>1, <2>2 DEF SampleOnce
<1>5. CASE Send(i)
  BY <1>5, <1>p, GoOn DEF Send
<1>6. CASE Sampled(i)
  BY <1>6, <1>p, GoOn DEF Sampled
<1>7. CASE Report(i)
  BY <1>7, <1>p, GoOn DEF Report
<1>8. CASE ReportUnbound(i)
  BY <1>8, StayHere DEF ReportUnbound, Fail
<1>9. CASE BarrierTimeout(S(i))
  BY <1>9, StayHere DEF BarrierTimeout, Fail
<1>10. CASE Shutdown(S(i))
  BY <1>10, StayHere DEF Shutdown
<1> QED BY <1>1, <1>2, <1>3, <1>4, <1>5, <1>6, <1>7, <1>8, <1>9, <1>10 DEF SamplerStep

LEMMA RankTrainer ==
    ASSUME RankInv, NEW j \in Trainer,
           TrainerStep(j) \/ ExtractStep(j) \/ ReportThreadFinish(j)
    PROVE  RankInv'
<1>p. T(j) \in Proc
  BY ProcKinds
<1>1. CASE TrainInit(j)
  BY <1>1, <1>p, GoOn DEF TrainInit
<1>2. CASE ExtractStart(j)
  BY <1>2, <1>p, GoOn DEF ExtractStart
<1>3. CASE NextStep(j)
  BY <1>3, <1>p, GoOn DEF NextStep
<1>4. CASE GetNextBatch(j)
  BY <1>4, <1>p, GoOn DEF GetNextBatch
<1>5. CASE PadStep(j)
  BY <1>5, <1>p, GoOn DEF PadStep
<1>6. CASE PadStepUnbound(j)
  BY <1>6, StayHere DEF PadStepUnbound, Fail
<1>7. CASE EndSteps(j)
  BY <1>7, <1>p, GoOn DEF EndSteps
<1>8. CASE BarrierTimeout(T(j))
  BY <1>8, StayHere DEF BarrierTimeout, Fail
<1>9. CASE Shutdown(T(j))
  BY <1>9, StayHere DEF Shutdown
<1>10. CASE ExtractStep(j)
  BY <1>10, StayHere DEF ExtractStep, ExtractFull, ExtractRecv, ExtractSubmit, ExtractGoto, procVars
<1>11. CASE ReportThreadFinish(j)
  BY <1>11, StayHere DEF ReportThreadFinish, procVars
<1> QED BY <1>1, <1>2, <1>3, <1>4, <1>5, <1>6, <1>7, <1>8, <1>9, <1>10, <1>11 DEF TrainerStep

LEMMA RankTogether ==
    ASSUME RankInv, Together
    PROVE  RankInv'
<1>0. 0 \in Sampler /\ 0 \in Trainer /\ S(0) \in Proc /\ T(0) \in Proc
  BY ConfType, ProcKinds DEF RankInv, Places
<1>1. CASE SamplerBarrier
  BY <1>0, <1>1, Written DEF SamplerBarrier, RankInv, RankingWritten
<1>2. CASE GlobalBarrier
  <2>1. pc[S(0)] # "sample_init"
    BY <1>0, <1>2 DEF GlobalBarrier, GlobalWaits
  <2> QED BY <1>2, <2>1, Written DEF GlobalBarrier, RankInv, RankingWritten
<1>3. CASE Backward
  BY <1>0, <1>3, Written DEF Backward, TrainersAt, TrainersGoto, RankInv, RankingWritten
<1>4. CASE TrainBarrier("sync", "end")
  BY <1>0, <1>4, Written DEF TrainBarrier, TrainersAt, TrainersGoto, RankInv, RankingWritten
<1>5. CASE TrainBarrier("last_sync", "run_end")
  BY <1>0, <1>5, Written DEF TrainBarrier, TrainersAt, TrainersGoto, RankInv, RankingWritten
<1> QED BY <1>1, <1>2, <1>3, <1>4, <1>5 DEF Together

LEMMA RankStep == RankInv /\ [Next]_vars => RankInv'
<1> SUFFICES ASSUME RankInv, [Next]_vars PROVE RankInv'
  OBVIOUS
<1>1. CASE UNCHANGED vars
  BY <1>1, StayHere DEF vars, procVars
<1>2. CASE ParentStep
  BY <1>2, StayHere DEF ParentStep, WaitOneChild, KillAll, Join, procVars
<1>3. ASSUME NEW p \in Proc, Crash(p) PROVE RankInv'
  BY <1>3, StayHere DEF Crash
<1> QED BY <1>1, <1>2, <1>3, RankSampler, RankTrainer, RankTogether DEF Next

(* Whatever the run, no process builds its cache from a ranking that       *)
(* sampler 0 has not written yet.                                          *)
THEOREM RankingFirst == Spec => []RankingReadReady
<1>1. RankInv => RankingReadReady
  <2> SUFFICES ASSUME RankInv, NEW p \in Proc, pc[p] \in {"cache_table", "train_init"}
               PROVE  ranking
    BY DEF RankingReadReady
  <2> QED BY ProcKinds DEF RankInv, RankingWritten
<1> QED BY <1>1, RankInit, RankStep, PTL DEF Spec

------------------------------------------------------------------------------
(***************************************************************************)
(* Arithmetic: how many of the steps s, s + n, s + 2 * n ... are below N.   *)
(***************************************************************************)
Count(s, N, n) == IF s >= N THEN 0 ELSE (N - 1 - s) \div n + 1

(* The quotient is the only one that leaves a remainder below n. *)
LEMMA Quotient ==
    ASSUME NEW a \in Int, NEW n \in Nat \ {0}, NEW q \in Int, NEW r \in Int,
           a = q * n + r, 0 <= r, r < n
    PROVE  a \div n = q
<1> DEFINE d == a \div n
           m == a % n
<1>1. d \in Int /\ m \in Int /\ 0 <= m /\ m < n /\ a = d * n + m
  OBVIOUS
<1> HIDE DEF d, m
<1>2. d * n - q * n = r - m
  BY <1>1
<1>3. ASSUME d >= q + 1 PROVE FALSE
  <2>1. d * n >= (q + 1) * n
    BY <1>1, <1>3
  <2>2. (q + 1) * n = q * n + n
    OBVIOUS
  <2> QED BY <1>1, <1>2, <2>1, <2>2
<1>4. ASSUME q >= d + 1 PROVE FALSE
  <2>1. q * n >= (d + 1) * n
    BY <1>1, <1>4
  <2>2. (d + 1) * n = d * n + n
    BY <1>1
  <2> QED BY <1>1, <1>2, <2>1, <2>2
<1>5. d = q
  BY <1>1, <1>3, <1>4
<1> QED BY <1>5 DEF d

LEMMA CountNat ==
    ASSUME NEW s \in Nat, NEW N \in Nat, NEW n \in Nat \ {0}
    PROVE  Count(s, N, n) \in Nat
<1>1. CASE s >= N
  BY <1>1 DEF Count
<1>2. CASE s < N
  <2>1. (N - 1 - s) \div n \in Nat
    BY <1>2
  <2> QED BY <2>1, <1>2 DEF Count
<1> QED BY <1>1, <1>2

LEMMA CountNext ==
    ASSUME NEW s \in Nat, NEW N \in Nat, NEW n \in Nat \ {0}, s < N
    PROVE  Count(s + n, N, n) = Count(s, N, n) - 1
<1> DEFINE a == N - 1 - s
           q == a \div n
           r == a % n
<1>1. a \in Nat /\ q \in Nat /\ r \in Nat /\ r < n /\ a = q * n + r
  OBVIOUS
<1>2. Count(s, N, n) = q + 1
  BY DEF Count
<1> HIDE DEF q, r
<1>3. CASE s + n >= N
  <2>1. a < n
    BY <1>3
  <2>2. q = 0
    BY <1>1, <2>1, Quotient, a = 0 * n + a DEF q
  <2> QED BY <1>2, <1>3, <2>2 DEF Count
<1>4. CASE s + n < N
  <2>1. a - n \in Int /\ a - n = (q - 1) * n + r
    BY <1>1
  <2>2. (a - n) \div n = q - 1
    BY <1>1, <2>1, Quotient
  <2>3. N - 1 - (s + n) = a - n
    OBVIOUS
  <2> QED BY <1>1, <1>2, <1>4, <2>2, <2>3 DEF Count
<1> QED BY <1>3, <1>4

(* Every thread has the steps j, j + n ... of its epoch. *)
LEMMA CountShare ==
    ASSUME NEW N \in Nat, NEW n \in Nat \ {0}, NEW j \in 0 .. n - 1
    PROVE  N \div n + (IF j < N % n THEN 1 ELSE 0) = Count(j, N, n)
<1> DEFINE q == N \div n
           r == N % n
<1>1. q \in Nat /\ r \in Nat /\ r < n /\ N = q * n + r
  OBVIOUS
<1> HIDE DEF q, r
<1>2. CASE j < r
  <2>1. N - 1 - j = q * n + (r - 1 - j) /\ r - 1 - j \in Nat
    BY <1>1, <1>2
  <2>2. (N - 1 - j) \div n = q
    BY <1>1, <1>2, <2>1, Quotient
  <2>3. q * n >= 0
    BY <1>1
  <2>4. j < N
    BY <1>1, <1>2, <2>3
  <2> QED BY <1>1, <1>2, <2>2, <2>4 DEF Count, q, r
<1>3. CASE j >= r /\ q = 0
  BY <1>1, <1>3 DEF Count, q, r
<1>4. CASE j >= r /\ q > 0
  <2>1. N - 1 - j = (q - 1) * n + (n + r - 1 - j)
    BY <1>1, <1>4
  <2>2. (N - 1 - j) \div n = q - 1
    BY <1>1, <1>4, <2>1, Quotient
  <2>3. q * n >= n
    BY <1>1, <1>4
  <2> QED BY <1>1, <1>4, <2>2, <2>3 DEF Count, q, r
<1> QED BY <1>1, <1>2, <1>3, <1>4

LEMMA RoundUp ==
    ASSUME NEW N \in Nat, NEW n \in Nat \ {0}
    PROVE  ((N + n - 1) \div n) * n >= N
<1> DEFINE q == (N + n - 1) \div n
           r == (N + n - 1) % n
<1>1. q \in Nat /\ r \in Nat /\ r < n /\ N + n - 1 = q * n + r
  OBVIOUS
<1> QED BY <1>1

------------------------------------------------------------------------------
(***************************************************************************)
(* The engine of a trainer.  Its invariant counts: the mini-batches that   *)
(* wait in the pool, with those that the thread has still to bring, are    *)
(* those that the trainer has still to take in this epoch.                 *)
(***************************************************************************)
IsSeq(s) == \E X : s \in Seq(X)

LEMMA SeqAppend ==
    ASSUME NEW s, NEW x, IsSeq(s)
    PROVE  IsSeq(Append(s, x)) /\ Len(Append(s, x)) = Len(s) + 1
<1> PICK X : s \in Seq(X)
  BY DEF IsSeq
<1>1. s \in Seq(X \cup {x}) /\ x \in X \cup {x}
  OBVIOUS
<1>2. Append(s, x) \in Seq(X \cup {x}) /\ Len(Append(s, x)) = Len(s) + 1
  BY <1>1
<1> QED BY <1>2 DEF IsSeq

LEMMA SeqTail ==
    ASSUME NEW s, IsSeq(s), s # << >>
    PROVE  IsSeq(Tail(s)) /\ Len(Tail(s)) = Len(s) - 1 /\ Len(s) \in Nat
<1> PICK X : s \in Seq(X)
  BY DEF IsSeq
<1>1. Tail(s) \in Seq(X) /\ Len(Tail(s)) = Len(s) - 1 /\ Len(s) \in Nat
  OBVIOUS
<1> QED BY <1>1 DEF IsSeq

LEMMA SeqLen ==
    ASSUME NEW s, IsSeq(s)
    PROVE  Len(s) \in Nat
BY DEF IsSeq

Remaining(s) == Count(s, NumStep, num_train_worker)

Ahead(j) == Len(pool[j]) + (IF extract[j].at = "none" THEN 0 ELSE extract[j].left + 1)

Expected(j) ==
    IF pc[T(j)] = "next" THEN IF Background THEN Remaining(step[j]) ELSE 0
    ELSE IF pc[T(j)] = "get" THEN IF Background THEN Remaining(step[j]) ELSE 1
    ELSE IF pc[T(j)] = "backward"
         THEN IF Background THEN Remaining(step[j] + num_train_worker) ELSE 0
    ELSE 0

EngineDomains ==
    /\ conf \in Configurations /\ DOMAIN pc = Proc
    /\ DOMAIN step = Trainer /\ DOMAIN threads = Trainer
    /\ DOMAIN extract = Trainer /\ DOMAIN pool = Trainer

EngineTypes(j) ==
    /\ step[j] \in Nat /\ threads[j] \in Nat
    /\ extract[j] \in [left : Nat, at : {"none", "full", "recv", "submit"},
                       task : {extract[j].task}]
    /\ IsSeq(pool[j])

RoomKept(j) ==
    Len(pool[j]) + (IF extract[j].at \in {"recv", "submit"} THEN 1 ELSE 0) <= max_copying_jobs

StepRight(j) ==
    /\ pc[T(j)] = "extract" => step[j] = j
    /\ pc[T(j)] = "get" => step[j] < NumStep

EngineOK(j) ==
    EngineTypes(j) /\ RoomKept(j) /\ StepRight(j) /\ Ahead(j) = Expected(j)

EngineInv == EngineDomains /\ \A j \in Trainer : EngineOK(j)

LEMMA StepNumbers ==
    ASSUME conf \in Configurations
    PROVE  /\ NumStep \in Nat /\ num_train_worker \in Nat \ {0}
           /\ Trainer = 0 .. num_train_worker - 1
           /\ AlignUpStep >= NumStep /\ AlignUpStep \in Int
           /\ \A s \in Nat : Remaining(s) \in Nat
<1>1. conf.num_data \in Nat \ {0} /\ conf.batch_size \in Nat \ {0}
  BY RunAssumption
<1>2. num_train_worker \in Nat \ {0}
  BY RunAssumption DEF num_train_worker
<1>3. NumStep \in Nat
  BY <1>1 DEF NumStep
<1>4. AlignUpStep >= NumStep /\ AlignUpStep \in Int
  <2>1. (NumStep + num_train_worker - 1) \div num_train_worker \in Int
    BY <1>2, <1>3
  <2> QED BY <1>2, <1>3, <2>1, RoundUp DEF AlignUpStep
<1> QED BY <1>2, <1>3, <1>4, CountNat DEF Remaining, Trainer

(* What an engine knows does not change with the others' steps. *)
LEMMA EngineSame ==
    ASSUME NEW j \in Trainer, EngineOK(j), conf' = conf, pc'[T(j)] = pc[T(j)],
           step'[j] = step[j], threads'[j] = threads[j], extract'[j] = extract[j],
           pool'[j] = pool[j]
    PROVE  EngineOK(j)'
BY DEF EngineOK, EngineTypes, RoomKept, StepRight, Ahead, Expected, Remaining, Count, NumStep,
       Background, pipeline, single_gpu, num_train_worker

LEMMA EngineConf ==
    ASSUME conf' = conf
    PROVE  /\ NumStep' = NumStep /\ num_train_worker' = num_train_worker
           /\ Background' = Background /\ Trainer' = Trainer /\ Proc' = Proc
           /\ \A s : Remaining(s)' = Remaining(s)
BY ConfSame DEF NumStep, num_train_worker, Background, pipeline, single_gpu, Remaining, Count

(* A step of one trainer, its thread or its engine. *)
OnlyTrainer(j) ==
    /\ conf' = conf /\ DOMAIN pc' = Proc
    /\ DOMAIN step' = Trainer /\ DOMAIN threads' = Trainer
    /\ DOMAIN extract' = Trainer /\ DOMAIN pool' = Trainer
    /\ \A k \in Trainer : k # j =>
        /\ pc'[T(k)] = pc[T(k)] /\ step'[k] = step[k] /\ threads'[k] = threads[k]
        /\ extract'[k] = extract[k] /\ pool'[k] = pool[k]

LEMMA EngineAlone ==
    ASSUME EngineInv, NEW j \in Trainer, OnlyTrainer(j), EngineOK(j)'
    PROVE  EngineInv'
<1>1. EngineDomains'
  BY EngineConf DEF EngineInv, EngineDomains, OnlyTrainer
<1>2. ASSUME NEW k \in Trainer PROVE EngineOK(k)'
  <2>1. CASE k = j
    BY <2>1
  <2>2. CASE k # j
    BY <2>2, EngineSame DEF EngineInv, OnlyTrainer
  <2> QED BY <2>1, <2>2
<1> QED BY <1>1, <1>2, EngineConf DEF EngineInv, OnlyTrainer

(* A step that leaves all engines alone. *)
LEMMA EngineStays ==
    ASSUME EngineInv, conf' = conf, DOMAIN pc' = Proc,
           \A j \in Trainer : pc'[T(j)] = pc[T(j)],
           UNCHANGED <<step, threads, extract, pool>>
    PROVE  EngineInv'
<1>1. EngineDomains'
  BY EngineConf DEF EngineInv, EngineDomains
<1>2. ASSUME NEW k \in Trainer PROVE EngineOK(k)'
  BY EngineSame DEF EngineInv
<1> QED BY <1>1, <1>2, EngineConf DEF EngineInv

LEMMA EngineInit == Init => EngineInv
<1> SUFFICES ASSUME Init PROVE EngineInv
  OBVIOUS
<1>1. EngineDomains
  BY DEF Init, EngineDomains
<1>2. ASSUME NEW j \in Trainer PROVE EngineOK(j)
  <2>1. /\ pc[T(j)] = "ready" /\ step[j] = j /\ threads[j] = 0
        /\ extract[j] = Idle /\ pool[j] = << >> /\ j \in Nat
    BY ProcKinds, ConfType DEF Init
  <2>2. IsSeq(pool[j]) /\ Len(pool[j]) = 0
    BY <2>1 DEF IsSeq
  <2>3. EngineTypes(j)
    BY <2>1, <2>2 DEF EngineTypes, Idle
  <2>4. RoomKept(j)
    BY <2>1, <2>2, RunAssumption DEF RoomKept, Idle
  <2>5. Ahead(j) = 0 /\ Expected(j) = 0
    BY <2>1, <2>2 DEF Ahead, Expected, Idle
  <2>6. StepRight(j)
    BY <2>1 DEF StepRight
  <2> QED BY <2>3, <2>4, <2>5, <2>6 DEF EngineOK
<1> QED BY <1>1, <1>2 DEF EngineInv

(* What a state of the invariant says of one trainer, spelled out. *)
LEMMA EngineFacts ==
    ASSUME EngineInv, NEW j \in Trainer
    PROVE  /\ EngineOK(j) /\ EngineTypes(j) /\ RoomKept(j) /\ StepRight(j)
           /\ Ahead(j) = Expected(j)
           /\ T(j) \in Proc /\ Len(pool[j]) \in Nat /\ step[j] \in Nat
           /\ conf \in Configurations
           /\ max_copying_jobs \in Nat \ {0}
BY ProcKinds, SeqLen, RunAssumption DEF EngineInv, EngineDomains, EngineOK, EngineTypes

(* A step in which only the trainer's place changes, between places with   *)
(* the same number of mini-batches to come.                                *)
LEMMA EngineGoto ==
    ASSUME EngineInv, NEW j \in Trainer, NEW from, NEW to, Goto(T(j), from, to), conf' = conf,
           UNCHANGED <<step, threads, extract, pool>>,
           to # "extract", to # "get", Expected(j)' = Expected(j)
    PROVE  EngineInv'
<1>0. T(j) \in Proc /\ EngineOK(j)
  BY EngineFacts
<1>1. /\ pc'[T(j)] = to
      /\ \A k \in Trainer : k # j => pc'[T(k)] = pc[T(k)]
      /\ DOMAIN pc' = Proc
  BY <1>0, ProcKinds DEF Goto, EngineInv, EngineDomains
<1>2. OnlyTrainer(j)
  BY <1>1 DEF OnlyTrainer, EngineInv, EngineDomains
<1>3. EngineTypes(j)' /\ RoomKept(j)'
  BY <1>0 DEF EngineOK, EngineTypes, RoomKept
<1>4. StepRight(j)'
  BY <1>1 DEF StepRight
<1>5. Ahead(j)' = Ahead(j)
  BY DEF Ahead
<1> QED BY <1>0, <1>2, <1>3, <1>4, <1>5, EngineAlone DEF EngineOK

LEMMA EngineTrainInit ==
    ASSUME EngineInv, NEW j \in Trainer, TrainInit(j) PROVE EngineInv'
<1>1. Goto(T(j), "train_init", "run") /\ conf' = conf
  BY DEF TrainInit
<1>2. Expected(j)' = 0 /\ Expected(j) = 0
  BY <1>1, EngineFacts DEF Expected, Goto, EngineInv, EngineDomains
<1> QED BY <1>1, <1>2, EngineGoto DEF TrainInit, trainerVars, engineVars

LEMMA EngineEndSteps ==
    ASSUME EngineInv, NEW j \in Trainer, EndSteps(j) PROVE EngineInv'
<1>1. Goto(T(j), "next", "sync") /\ conf' = conf /\ step[j] >= AlignUpStep
  BY DEF EndSteps
<1>2. Expected(j)' = 0
  BY <1>1, EngineFacts DEF Expected, Goto, EngineInv, EngineDomains
<1>3. Remaining(step[j]) = 0
  BY <1>1, EngineFacts, StepNumbers DEF Remaining, Count
<1>4. Expected(j) = 0
  BY <1>1, <1>3 DEF Expected, Goto
<1> QED BY <1>1, <1>2, <1>4, EngineGoto DEF EndSteps, trainerVars, engineVars

LEMMA EnginePadStep ==
    ASSUME EngineInv, NEW j \in Trainer, PadStep(j) PROVE EngineInv'
<1>1. Goto(T(j), "next", "backward") /\ conf' = conf /\ step[j] >= NumStep /\ step' = step
  BY DEF PadStep, trainerVars
<1>2. /\ Remaining(step[j]) = 0
      /\ Remaining(step[j] + num_train_worker) = 0
  BY <1>1, EngineFacts, StepNumbers DEF Remaining, Count
<1>3. pc'[T(j)] = "backward"
  BY <1>1, EngineFacts DEF Goto, EngineInv, EngineDomains
<1>4. Expected(j)' = 0
  BY <1>1, <1>2, <1>3, EngineConf DEF Expected
<1>5. Expected(j) = 0
  BY <1>1, <1>2 DEF Expected, Goto
<1> QED BY <1>1, <1>4, <1>5, EngineGoto DEF PadStep, trainerVars, engineVars


LEMMA LoopingFacts ==
    ASSUME NEW n \in Nat
    PROVE  /\ Looping(n) \in [left : Nat, at : {"none", "full"}, task : {Looping(n).task}]
           /\ Looping(n).at \notin {"recv", "submit"}
           /\ (IF Looping(n).at = "none" THEN 0 ELSE Looping(n).left + 1) = n
<1>1. CASE n = 0
  BY <1>1 DEF Looping, Idle
<1>2. CASE n # 0
  <2>1. Looping(n) = [left |-> n - 1, at |-> "full", task |-> NoMessage]
    BY <1>2 DEF Looping, Idle
  <2>2. n - 1 \in Nat
    BY <1>2
  <2> QED BY <2>1, <2>2
<1> QED BY <1>1, <1>2

(* A thread starts on all the steps of the epoch. *)
LEMMA EngineExtractStart ==
    ASSUME EngineInv, NEW j \in Trainer, ExtractStart(j) PROVE EngineInv'
<1>0. /\ EngineOK(j) /\ EngineTypes(j) /\ RoomKept(j) /\ StepRight(j) /\ Ahead(j) = Expected(j)
      /\ T(j) \in Proc /\ Len(pool[j]) \in Nat
  BY EngineFacts
<1>1. /\ pc[T(j)] = "extract" /\ pc'[T(j)] = "next"
      /\ \A k \in Trainer : k # j => pc'[T(k)] = pc[T(k)]
      /\ DOMAIN pc' = Proc
  BY <1>0, ProcKinds DEF ExtractStart, Goto, EngineInv, EngineDomains
<1>2. /\ conf' = conf /\ step' = step /\ pool' = pool
      /\ Background => /\ extract' = [extract EXCEPT ![j] = Looping(NeedSteps(j))]
                       /\ threads' = [threads EXCEPT ![j] = @ + 1]
      /\ ~Background => extract' = extract /\ threads' = threads
  BY DEF ExtractStart, trainerVars
<1>3. OnlyTrainer(j)
  BY <1>1, <1>2 DEF OnlyTrainer, EngineInv, EngineDomains
<1>4. Len(pool[j]) = 0 /\ extract[j].at = "none" /\ step[j] = j
  BY <1>0, <1>1 DEF Ahead, Expected, EngineTypes, StepRight
<1>5. StepRight(j)'
  BY <1>1 DEF StepRight
<1>6. CASE Background
  <2>1. NeedSteps(j) = Remaining(j) /\ Remaining(j) \in Nat
    <3>1. /\ NumStep \in Nat /\ num_train_worker \in Nat \ {0}
          /\ j \in 0 .. num_train_worker - 1 /\ j \in Nat
      BY EngineFacts, StepNumbers, ConfType
    <3> QED BY <3>1, CountShare, CountNat DEF NeedSteps, Remaining
  <2>2. extract'[j] = Looping(Remaining(j)) /\ threads'[j] = threads[j] + 1
    BY <1>2, <1>6, <2>1 DEF EngineInv, EngineDomains
  <2>3. EngineTypes(j)'
    BY <1>0, <1>2, <2>1, <2>2, LoopingFacts DEF EngineTypes
  <2>4. RoomKept(j)'
    BY <1>0, <1>2, <1>4, <2>1, <2>2, LoopingFacts DEF RoomKept
  <2>5. Ahead(j)' = Remaining(j)
    BY <1>2, <1>4, <2>1, <2>2, LoopingFacts DEF Ahead
  <2>6. Expected(j)' = Remaining(j)
    BY <1>1, <1>2, <1>4, <1>6, EngineConf DEF Expected
  <2> QED BY <1>3, <1>5, <2>3, <2>4, <2>5, <2>6, EngineAlone DEF EngineOK
<1>7. CASE ~Background
  <2>1. Expected(j)' = 0
    BY <1>1, <1>2, <1>7, EngineConf DEF Expected
  <2>2. EngineTypes(j)' /\ RoomKept(j)' /\ Ahead(j)' = 0
    BY <1>0, <1>1, <1>2, <1>7 DEF EngineTypes, RoomKept, Ahead, Expected
  <2> QED BY <1>3, <1>5, <2>1, <2>2, EngineAlone DEF EngineOK
<1> QED BY <1>6, <1>7

(* A step that has a batch of its own either waits for the thread or gets  *)
(* that one batch itself.                                                  *)
LEMMA EngineNextStep ==
    ASSUME EngineInv, NEW j \in Trainer, NextStep(j) PROVE EngineInv'
<1>0. /\ EngineTypes(j) /\ RoomKept(j) /\ Ahead(j) = Expected(j)
      /\ T(j) \in Proc /\ Len(pool[j]) \in Nat
  BY EngineFacts
<1>1. /\ pc[T(j)] = "next" /\ pc'[T(j)] = "get"
      /\ \A k \in Trainer : k # j => pc'[T(k)] = pc[T(k)]
      /\ DOMAIN pc' = Proc
  BY <1>0, ProcKinds DEF NextStep, Goto, EngineInv, EngineDomains
<1>2. /\ conf' = conf /\ step' = step /\ pool' = pool /\ threads' = threads
      /\ extract' = IF Background THEN extract ELSE [extract EXCEPT ![j] = Looping(1)]
      /\ step[j] < NumStep
  BY DEF NextStep, trainerVars
<1>3. OnlyTrainer(j)
  BY <1>1, <1>2 DEF OnlyTrainer, EngineInv, EngineDomains
<1>4. StepRight(j)'
  BY <1>1, <1>2, EngineConf DEF StepRight
<1>5. CASE Background
  <2>1. Expected(j)' = Expected(j)
    BY <1>1, <1>2, <1>5, EngineConf DEF Expected
  <2>2. EngineTypes(j)' /\ RoomKept(j)' /\ Ahead(j)' = Ahead(j)
    BY <1>0, <1>2, <1>5 DEF EngineTypes, RoomKept, Ahead
  <2> QED BY <1>0, <1>3, <1>4, <2>1, <2>2, EngineAlone DEF EngineOK
<1>6. CASE ~Background
  <2>1. extract'[j] = Looping(1)
    BY <1>2, <1>6 DEF EngineInv, EngineDomains
  <2>2. Len(pool[j]) = 0
    BY <1>0, <1>1, <1>6 DEF Ahead, Expected, EngineTypes
  <2>3. EngineTypes(j)'
    BY <1>0, <1>2, <2>1, LoopingFacts DEF EngineTypes
  <2>4. RoomKept(j)'
    <3>1. extract'[j].at \notin {"recv", "submit"} /\ Len(pool'[j]) = 0
      BY <1>2, <2>1, <2>2, LoopingFacts
    <3> QED BY <3>1, RunAssumption DEF RoomKept
  <2>5. Ahead(j)' = 1
    BY <1>2, <2>1, <2>2, LoopingFacts DEF Ahead
  <2>6. Expected(j)' = 1
    BY <1>1, <1>2, <1>6, EngineConf DEF Expected
  <2> QED BY <1>3, <1>4, <2>3, <2>4, <2>5, <2>6, EngineAlone DEF EngineOK
<1> QED BY <1>5, <1>6

(* One batch out of the pool is one fewer to come. *)
LEMMA EngineGetNextBatch ==
    ASSUME EngineInv, NEW j \in Trainer, GetNextBatch(j) PROVE EngineInv'
<1>0. /\ EngineTypes(j) /\ RoomKept(j) /\ StepRight(j) /\ Ahead(j) = Expected(j)
      /\ T(j) \in Proc /\ Len(pool[j]) \in Nat /\ step[j] \in Nat /\ max_copying_jobs \in Nat
  BY EngineFacts
<1>1. /\ pc[T(j)] = "get" /\ pc'[T(j)] = "backward"
      /\ \A k \in Trainer : k # j => pc'[T(k)] = pc[T(k)]
      /\ DOMAIN pc' = Proc
  BY <1>0, ProcKinds DEF GetNextBatch, Goto, EngineInv, EngineDomains
<1>2. /\ conf' = conf /\ step' = step /\ threads' = threads /\ extract' = extract
      /\ pool' = [pool EXCEPT ![j] = Tail(@)]
      /\ pool[j] # << >>
      /\ extract[j].at = "none" \/ Background
  BY DEF GetNextBatch
<1>3. OnlyTrainer(j)
  BY <1>1, <1>2 DEF OnlyTrainer, EngineInv, EngineDomains
<1>4. pool'[j] = Tail(pool[j])
  BY <1>2 DEF EngineInv, EngineDomains
<1>5. IsSeq(pool'[j]) /\ Len(pool'[j]) = Len(pool[j]) - 1
  BY <1>0, <1>2, <1>4, SeqTail DEF EngineTypes
<1>6. EngineTypes(j)' /\ StepRight(j)'
  BY <1>0, <1>1, <1>2, <1>5 DEF EngineTypes, StepRight
<1>n. extract[j].left \in Nat /\ extract'[j] = extract[j]
  BY <1>0, <1>2 DEF EngineTypes
<1>7. RoomKept(j)'
  <2>1. CASE extract[j].at \in {"recv", "submit"}
    BY <1>0, <1>5, <1>n, <2>1 DEF RoomKept
  <2>2. CASE extract[j].at \notin {"recv", "submit"}
    BY <1>0, <1>5, <1>n, <2>2 DEF RoomKept
  <2> QED BY <2>1, <2>2
<1>8. Ahead(j)' = Ahead(j) - 1
  BY <1>0, <1>5, <1>n DEF Ahead
<1>9. Expected(j)' = Expected(j) - 1
  <2>1. CASE Background
    <3>1. Remaining(step[j] + num_train_worker) = Remaining(step[j]) - 1
      BY <1>0, <1>1, StepNumbers, CountNext DEF Remaining, StepRight, EngineInv, EngineDomains
    <3>2. Expected(j)' = Remaining(step[j] + num_train_worker)
      BY <1>1, <1>2, <2>1, EngineConf DEF Expected
    <3>3. Expected(j) = Remaining(step[j])
      BY <1>1, <2>1 DEF Expected
    <3> QED BY <3>1, <3>2, <3>3
  <2>2. CASE ~Background
    BY <1>1, <1>2, <2>2, EngineConf DEF Expected
  <2> QED BY <2>1, <2>2
<1> QED BY <1>0, <1>3, <1>6, <1>7, <1>8, <1>9, EngineAlone DEF EngineOK

(* The thread moves mini-batches on and loses none. *)
LEMMA EngineExtract ==
    ASSUME EngineInv, NEW j \in Trainer, ExtractStep(j) PROVE EngineInv'
<1>0. /\ EngineTypes(j) /\ RoomKept(j) /\ StepRight(j) /\ Ahead(j) = Expected(j)
      /\ Len(pool[j]) \in Nat /\ max_copying_jobs \in Nat
  BY EngineFacts
<1>1. /\ conf' = conf /\ pc' = pc /\ step' = step /\ threads' = threads
      /\ DOMAIN extract' = Trainer /\ DOMAIN pool' = Trainer
      /\ \A k \in Trainer : k # j => extract'[k] = extract[k] /\ pool'[k] = pool[k]
  <2>1. CASE ExtractFull(j)
    BY <2>1 DEF ExtractFull, ExtractGoto, procVars, trainerVars, EngineInv, EngineDomains
  <2>2. CASE ExtractRecv(j)
    BY <2>2 DEF ExtractRecv, procVars, trainerVars, EngineInv, EngineDomains
  <2>3. CASE ExtractSubmit(j)
    BY <2>3 DEF ExtractSubmit, procVars, trainerVars, EngineInv, EngineDomains
  <2> QED BY <2>1, <2>2, <2>3 DEF ExtractStep
<1>2. OnlyTrainer(j)
  BY <1>1 DEF OnlyTrainer, EngineInv, EngineDomains
<1>3. Expected(j)' = Expected(j) /\ StepRight(j)'
  BY <1>0, <1>1, EngineConf DEF Expected, StepRight
<1>4. EngineTypes(j)' /\ RoomKept(j)' /\ Ahead(j)' = Ahead(j)
  <2>1. CASE ExtractFull(j)
    <3>1. /\ extract'[j] = [extract[j] EXCEPT !.at = "recv"] /\ pool'[j] = pool[j]
          /\ extract[j].at = "full" /\ Len(pool[j]) < max_copying_jobs
      BY <2>1 DEF ExtractFull, ExtractGoto, EngineInv, EngineDomains
    <3>2. /\ extract'[j] = [left |-> extract[j].left, at |-> "recv", task |-> extract[j].task]
          /\ extract[j].left \in Nat
      BY <1>0, <3>1 DEF EngineTypes
    <3>3. EngineTypes(j)'
      BY <1>0, <1>1, <3>1, <3>2 DEF EngineTypes
    <3>4. RoomKept(j)'
      BY <1>0, <3>1, <3>2 DEF RoomKept
    <3>5. Ahead(j)' = Ahead(j)
      BY <3>1, <3>2 DEF Ahead
    <3> QED BY <3>3, <3>4, <3>5
  <2>2. CASE ExtractRecv(j)
    <3>1. PICK m : extract' = [extract EXCEPT ![j].at = "submit", ![j].task = m]
      BY <2>2 DEF ExtractRecv
    <3>2. /\ extract'[j] = [extract[j] EXCEPT !.at = "submit", !.task = m]
          /\ extract[j].at = "recv" /\ pool'[j] = pool[j]
      BY <2>2, <3>1 DEF ExtractRecv, EngineInv, EngineDomains
    <3> QED BY <1>0, <1>1, <3>2 DEF EngineTypes, RoomKept, Ahead
  <2>3. CASE ExtractSubmit(j)
    <3>1. /\ extract'[j] = IF extract[j].left = 0 THEN Idle ELSE Looping(extract[j].left)
          /\ extract[j].at = "submit" /\ pool'[j] = Append(pool[j], extract[j].task)
      BY <2>3 DEF ExtractSubmit, EngineInv, EngineDomains
    <3>2. IsSeq(pool'[j]) /\ Len(pool'[j]) = Len(pool[j]) + 1
      BY <1>0, <3>1, SeqAppend DEF EngineTypes
    <3>n. extract[j].left \in Nat
      BY <1>0 DEF EngineTypes
    <3>3. extract'[j] = Looping(extract[j].left)
      BY <3>1 DEF Looping
    <3>l. /\ extract'[j].at \notin {"recv", "submit"}
          /\ (IF extract'[j].at = "none" THEN 0 ELSE extract'[j].left + 1) = extract[j].left
      BY <3>n, <3>3, LoopingFacts
    <3>4. EngineTypes(j)'
      BY <1>0, <1>1, <3>n, <3>2, <3>3, LoopingFacts DEF EngineTypes
    <3>5. RoomKept(j)'
      BY <1>0, <3>1, <3>2, <3>l DEF RoomKept
    <3>6. Ahead(j)' = Ahead(j)
      <4>1. Ahead(j) = Len(pool[j]) + (extract[j].left + 1)
        BY <3>1 DEF Ahead
      <4>2. Ahead(j)' = Len(pool'[j]) + extract[j].left
        BY <3>l DEF Ahead
      <4> QED BY <1>0, <3>n, <3>2, <4>1, <4>2
    <3> QED BY <3>4, <3>5, <3>6
  <2> QED BY <2>1, <2>2, <2>3 DEF ExtractStep
<1> QED BY <1>0, <1>2, <1>3, <1>4, EngineAlone DEF EngineOK


(* A step of all processes together: the trainers' places change, and with *)
(* them perhaps their steps.                                               *)
LEMMA EngineTogether ==
    ASSUME EngineInv, conf' = conf, DOMAIN pc' = Proc, DOMAIN step' = Trainer,
           UNCHANGED <<threads, extract, pool>>,
           \A j \in Trainer : step'[j] \in Nat /\ StepRight(j)' /\ Expected(j)' = Expected(j)
    PROVE  EngineInv'
<1>1. EngineDomains'
  BY EngineConf DEF EngineInv, EngineDomains
<1>2. ASSUME NEW j \in Trainer PROVE EngineOK(j)'
  <2>1. EngineTypes(j)' /\ RoomKept(j)' /\ Ahead(j)' = Ahead(j)
    BY EngineFacts DEF EngineTypes, RoomKept, Ahead
  <2> QED BY <2>1, EngineFacts DEF EngineOK
<1> QED BY <1>1, <1>2, EngineConf DEF EngineInv

LEMMA EngineGlobalBarrier ==
    ASSUME EngineInv, GlobalBarrier PROVE EngineInv'
<1>1. /\ conf' = conf /\ UNCHANGED <<threads, extract, pool>>
      /\ pc' = [p \in Proc |-> AfterBarrier(p)]
      /\ step' = [j \in Trainer |-> IF pc[T(j)] = "start" THEN j ELSE step[j]]
  BY DEF GlobalBarrier, engineVars
<1>2. ASSUME NEW j \in Trainer
      PROVE  step'[j] \in Nat /\ StepRight(j)' /\ Expected(j)' = Expected(j)
  <2>1. pc[T(j)] \in GlobalWaits /\ T(j) \in Proc /\ T(j)[1] = "trainer"
    BY ProcKinds DEF GlobalBarrier
  <2>2. step'[j] = IF pc[T(j)] = "start" THEN j ELSE step[j]
    BY <1>1
  <2>3. step'[j] \in Nat
    BY <2>2, EngineFacts, ConfType
  <2>4. pc'[T(j)] = AfterBarrier(T(j))
    BY <1>1, <2>1
  <2>5. /\ pc'[T(j)] \notin {"next", "get", "backward"}
        /\ pc'[T(j)] = "extract" => pc[T(j)] = "start"
    BY <2>1, <2>4 DEF AfterBarrier, EpochStart, GlobalWaits
  <2>6. StepRight(j)'
    BY <2>2, <2>5 DEF StepRight
  <2>7. Expected(j)' = 0
    BY <2>5 DEF Expected
  <2>8. Expected(j) = 0
    BY <2>1 DEF Expected, GlobalWaits
  <2> QED BY <2>3, <2>6, <2>7, <2>8
<1> QED BY <1>1, <1>2, EngineTogether

LEMMA EngineBackward ==
    ASSUME EngineInv, Backward PROVE EngineInv'
<1>1. /\ conf' = conf /\ UNCHANGED <<threads, extract, pool>>
      /\ pc' = [p \in Proc |-> IF p[1] = "trainer" THEN "next" ELSE pc[p]]
      /\ step' = [j \in Trainer |-> step[j] + num_train_worker]
  BY DEF Backward, TrainersGoto, engineVars
<1>2. ASSUME NEW j \in Trainer
      PROVE  step'[j] \in Nat /\ StepRight(j)' /\ Expected(j)' = Expected(j)
  <2>1. pc[T(j)] = "backward" /\ pc'[T(j)] = "next"
    BY <1>1, ProcKinds DEF Backward, TrainersAt
  <2>2. step'[j] = step[j] + num_train_worker
    BY <1>1
  <2>n. step[j] \in Nat /\ num_train_worker \in Nat
    BY EngineFacts, StepNumbers
  <2>3. step'[j] \in Nat
    BY <2>2, <2>n
  <2>4. Expected(j)' = IF Background THEN Remaining(step[j] + num_train_worker) ELSE 0
    BY <1>1, <2>1, <2>2, EngineConf DEF Expected
  <2>5. Expected(j)' = Expected(j)
    BY <2>1, <2>4 DEF Expected
  <2> QED BY <2>1, <2>3, <2>5 DEF StepRight
<1> QED BY <1>1, <1>2, EngineTogether

LEMMA EngineTrainBarrier ==
    ASSUME EngineInv, NEW at, NEW to, TrainBarrier(at, to),
           {at, to} \cap {"extract", "next", "get", "backward"} = {}
    PROVE  EngineInv'
<1>1. /\ conf' = conf /\ UNCHANGED <<step, threads, extract, pool>>
      /\ pc' = [p \in Proc |-> IF p[1] = "trainer" THEN to ELSE pc[p]]
  BY DEF TrainBarrier, TrainersGoto, engineVars, trainerVars
<1>2. ASSUME NEW j \in Trainer
      PROVE  step'[j] \in Nat /\ StepRight(j)' /\ Expected(j)' = Expected(j)
  <2>1. pc[T(j)] = at /\ pc'[T(j)] = to
    BY <1>1, ProcKinds DEF TrainBarrier, TrainersAt
  <2>2. Expected(j)' = 0 /\ Expected(j) = 0
    BY <2>1 DEF Expected
  <2> QED BY <1>1, <2>1, <2>2, EngineFacts DEF StepRight
<1> QED BY <1>1, <1>2, EngineTogether DEF EngineInv, EngineDomains

(* The samplers, the barriers of the samplers, the parent and the death of *)
(* a process leave the engines alone.                                      *)
LEMMA EngineSampler ==
    ASSUME EngineInv, NEW i \in Sampler, SamplerStep(i) PROVE EngineInv'
<1>p. S(i) \in Proc /\ DOMAIN pc = Proc /\ \A j : S(i) # T(j)
  BY ProcKinds DEF EngineInv, EngineDomains
<1>1. conf' = conf /\ UNCHANGED <<step, threads, extract, pool>>
  BY DEF SamplerStep, SampleInit, SampleInitFatal, SampleCacheTableInit, SampleOnce, Send,
         Sampled, Report, ReportUnbound, BarrierTimeout, Shutdown, trainerVars, engineVars
<1>2. pc' = pc \/ \E to : pc' = [pc EXCEPT ![S(i)] = to]
  BY DEF SamplerStep, SampleInit, SampleInitFatal, SampleCacheTableInit, SampleOnce, Send,
         Sampled, Report, ReportUnbound, BarrierTimeout, Shutdown, Goto, Fail
<1>3. DOMAIN pc' = Proc /\ \A j \in Trainer : pc'[T(j)] = pc[T(j)]
  BY <1>p, <1>2, ProcKinds
<1> QED BY <1>1, <1>3, EngineStays

LEMMA EngineQuiet ==
    ASSUME EngineInv,
           SamplerBarrier \/ ParentStep \/ (\E p \in Proc : Crash(p)) \/ UNCHANGED vars
           \/ (\E j \in Trainer : \/ PadStepUnbound(j) \/ BarrierTimeout(T(j))
                                  \/ Shutdown(T(j)) \/ ReportThreadFinish(j))
    PROVE  EngineInv'
<1>0. DOMAIN pc = Proc
  BY DEF EngineInv, EngineDomains
<1>1. CASE SamplerBarrier
  <2>1. DOMAIN pc' = Proc /\ \A j \in Trainer : pc'[T(j)] = pc[T(j)]
    BY <1>1, ProcKinds DEF SamplerBarrier
  <2> QED BY <1>1, <2>1, EngineStays DEF SamplerBarrier, trainerVars, engineVars
<1>2. CASE ParentStep
  BY <1>0, <1>2, EngineStays
     DEF ParentStep, WaitOneChild, KillAll, Join, procVars, trainerVars, engineVars
<1>3. CASE \E p \in Proc : Crash(p)
  BY <1>0, <1>3, EngineStays DEF Crash, trainerVars, engineVars
<1>4. CASE UNCHANGED vars
  BY <1>0, <1>4, EngineStays DEF vars, procVars, trainerVars, engineVars
<1>5. ASSUME NEW j \in Trainer,
             PadStepUnbound(j) \/ BarrierTimeout(T(j)) \/ Shutdown(T(j)) \/ ReportThreadFinish(j)
      PROVE  EngineInv'
  BY <1>0, <1>5, EngineStays
     DEF PadStepUnbound, BarrierTimeout, Shutdown, ReportThreadFinish, Fail, procVars,
         trainerVars, engineVars
<1> QED BY <1>1, <1>2, <1>3, <1>4, <1>5

LEMMA EngineStep == EngineInv /\ [Next]_vars => EngineInv'
<1> SUFFICES ASSUME EngineInv, [Next]_vars PROVE EngineInv'
  OBVIOUS
<1>1. ASSUME NEW j \in Trainer, TrainerStep(j) PROVE EngineInv'
  BY <1>1, EngineTrainInit, EngineExtractStart, EngineNextStep, EngineGetNextBatch,
     EnginePadStep, EngineEndSteps, EngineQuiet DEF TrainerStep
<1>2. ASSUME Together PROVE EngineInv'
  BY <1>2, EngineQuiet, EngineGlobalBarrier, EngineBackward, EngineTrainBarrier DEF Together
<1> QED BY <1>1, <1>2, EngineSampler, EngineExtract, EngineQuiet DEF Next

(* No pool ever holds more than max_copying_jobs mini-batches, although    *)
(* the thread asks Full() long before it submits and the trainer takes     *)
(* batches in between.                                                     *)
THEOREM PoolsKept == Spec => []PoolBounded
<1>1. EngineInv => PoolBounded
  <2> SUFFICES ASSUME EngineInv, NEW j \in Trainer PROVE Len(pool[j]) <= max_copying_jobs
    BY DEF PoolBounded
  <2>1. RoomKept(j) /\ Len(pool[j]) \in Nat /\ max_copying_jobs \in Nat
    BY EngineFacts
  <2>2. CASE extract[j].at \in {"recv", "submit"}
    BY <2>1, <2>2 DEF RoomKept
  <2>3. CASE extract[j].at \notin {"recv", "submit"}
    BY <2>1, <2>3 DEF RoomKept
  <2> QED BY <2>2, <2>3
<1> QED BY <1>1, EngineInit, EngineStep, PTL DEF Spec

(* extract_start never starts a second thread beside one that is still in  *)
(* DataCopySubLoop: a trainer has taken all batches of an epoch when it    *)
(* begins the next, so its thread has brought them all.                    *)
THEOREM OneThreadAtATime == Spec => OneExtractor
<1>1. EngineInv /\ [Next]_vars
      => [\A j \in Trainer : threads'[j] > threads[j] => extract[j].at = "none"]_vars
  <2> SUFFICES ASSUME EngineInv, Next, NEW j \in Trainer, threads'[j] > threads[j]
               PROVE  extract[j].at = "none"
    OBVIOUS
  <2>1. threads # threads'
    BY EngineFacts DEF EngineTypes
  <2>2. PICK k \in Trainer : ExtractStart(k)
    BY <2>1 DEF Next, SamplerStep, SampleInit, SampleInitFatal, SampleCacheTableInit, SampleOnce,
         Send, Sampled, Report, ReportUnbound, BarrierTimeout, Shutdown, TrainerStep, TrainInit,
         NextStep, GetNextBatch, PadStep, PadStepUnbound, EndSteps, ExtractStep, ExtractFull,
         ExtractRecv, ExtractSubmit, ExtractGoto, ReportThreadFinish, Together, SamplerBarrier,
         GlobalBarrier, Backward, TrainBarrier, ParentStep, WaitOneChild, KillAll, Join, Crash,
         engineVars
  <2>3. k = j
    BY <2>2, EngineFacts DEF ExtractStart, EngineInv, EngineDomains, EngineTypes
  <2>4. Ahead(j) = 0 /\ Len(pool[j]) \in Nat
    BY <2>2, <2>3, EngineFacts DEF ExtractStart, Goto, Expected
  <2>5. extract[j].left \in Nat
    BY EngineFacts DEF EngineTypes
  <2> QED BY <2>4, <2>5 DEF Ahead
<1> QED BY <1>1, EngineInit, EngineStep, PTL DEF Spec, OneExtractor

------------------------------------------------------------------------------
(***************************************************************************)
(* The epochs.  The processes are never in one lock step, but the barriers *)
(* keep them in one phase of the run, and one epoch: that is Lockstep.     *)
(***************************************************************************)
(* The epoch that all processes are in. *)
Now == epoch[T(0)]

(* The places of a phase.  A serial run samples before the trainers start  *)
(* (opening), a pipelined one while they train (working).                  *)
SamplerAt(phase) ==
    CASE phase = "initial" -> {"sample_init", "sampler_barrier", "cache_table", "ready"}
      [] phase = "meeting" -> {"run"}
      [] phase = "opening" -> IF pipeline THEN {"start"} ELSE {"sample", "send", "sampled"}
      [] phase = "working" -> IF pipeline THEN {"sample", "send", "end"} ELSE {"end"}
      [] phase = "closing" -> {"report", "run_end"}
      [] phase = "printing" -> {"print"}
      [] phase = "stopping" -> {"shutdown"}

TrainerAt(phase) ==
    CASE phase = "initial" -> {"ready"}
      [] phase = "meeting" -> {"train_init", "run"}
      [] phase = "opening" -> {"start"}
      [] phase = "working" -> {"extract", "next", "get", "backward", "sync", "end"}
      [] phase = "closing" -> {"last_sync", "run_end"}
      [] phase = "printing" -> {"print"}
      [] phase = "stopping" -> {"shutdown"}

(* The phases that lie before the end of the last epoch. *)
BeforeLastEnd == {"initial", "meeting", "opening", "working"}
Phases == BeforeLastEnd \cup {"closing", "printing", "stopping"}

InPhase(phase) ==
    /\ \A i \in Sampler : pc[S(i)] \in SamplerAt(phase)
    /\ \A j \in Trainer : pc[T(j)] \in TrainerAt(phase)
    /\ phase \in BeforeLastEnd => Now < num_epoch

Lockstep ==
    /\ conf \in Configurations /\ DOMAIN pc = Proc /\ DOMAIN epoch = Proc
    /\ Now \in 0 .. num_epoch
    /\ \A p \in Proc : epoch[p] = Now
    /\ \E phase \in Phases : InPhase(phase)

(* The trainers are in an epoch. *)
AtWork == pc[T(0)] \in TrainerAt("working")

LEMMA LockConf ==
    ASSUME conf' = conf
    PROVE  /\ num_epoch' = num_epoch /\ num_sample_worker' = num_sample_worker
           /\ pipeline' = pipeline
           /\ \A phase : SamplerAt(phase)' = SamplerAt(phase)
           /\ \A phase : TrainerAt(phase)' = TrainerAt(phase)
BY DEF num_epoch, num_sample_worker, pipeline, SamplerAt, TrainerAt

LEMMA LockFacts ==
    ASSUME Lockstep
    PROVE  /\ conf \in Configurations /\ 0 \in Trainer /\ T(0) \in Proc
           /\ num_epoch \in Nat \ {0} /\ Now \in Nat /\ Now <= num_epoch
           /\ \A i \in Sampler : S(i) \in Proc /\ epoch[S(i)] = Now
           /\ \A j \in Trainer : T(j) \in Proc /\ epoch[T(j)] = Now
<1>1. conf \in Configurations
  BY DEF Lockstep
<1>2. num_epoch \in Nat \ {0}
  BY <1>1, RunAssumption DEF num_epoch
<1> QED BY <1>1, <1>2, ConfType, ProcKinds DEF Lockstep

LEMMA WorkPhase ==
    ASSUME Lockstep, NEW phase \in Phases, InPhase(phase)
    PROVE  AtWork <=> phase = "working"
BY LockFacts DEF InPhase, AtWork, TrainerAt, Phases, BeforeLastEnd

(* The processes stay in a phase. *)
SamePhase ==
    /\ conf' = conf /\ epoch' = epoch
    /\ Lockstep' /\ Now' = Now /\ (AtWork' <=> AtWork)

LEMMA LockStays ==
    ASSUME Lockstep, NEW phase \in Phases, InPhase(phase), conf' = conf, epoch' = epoch,
           DOMAIN pc' = Proc,
           \A i \in Sampler : pc'[S(i)] \in SamplerAt(phase),
           \A j \in Trainer : pc'[T(j)] \in TrainerAt(phase)
    PROVE  SamePhase
<1>1. Now' = Now /\ Proc' = Proc /\ Sampler' = Sampler /\ Trainer' = Trainer
  BY ConfSame DEF Now
<1>2. InPhase(phase)'
  BY <1>1, LockConf DEF InPhase
<1>3. Lockstep'
  BY <1>1, <1>2, LockConf DEF Lockstep
<1>4. AtWork <=> phase = "working"
  BY WorkPhase
<1>5. AtWork' <=> phase = "working"
  BY <1>2, LockFacts, LockConf DEF InPhase, AtWork, TrainerAt, Phases, BeforeLastEnd
<1> QED BY <1>1, <1>3, <1>4, <1>5 DEF SamePhase

(* A step of one process between two places of a phase. *)
LEMMA LockSampler ==
    ASSUME Lockstep, NEW i \in Sampler, NEW to, conf' = conf, epoch' = epoch,
           pc' = [pc EXCEPT ![S(i)] = to],
           \A phase \in Phases : pc[S(i)] \in SamplerAt(phase) => to \in SamplerAt(phase)
    PROVE  SamePhase
<1>1. PICK phase \in Phases : InPhase(phase)
  BY DEF Lockstep
<1>2. DOMAIN pc = Proc /\ S(i) \in Proc
  BY ProcKinds DEF Lockstep
<1>3. /\ DOMAIN pc' = Proc /\ pc'[S(i)] = to
      /\ \A k \in Sampler : k # i => pc'[S(k)] = pc[S(k)]
      /\ \A j \in Trainer : pc'[T(j)] = pc[T(j)]
  BY <1>2, ProcKinds
<1>4. \A k \in Sampler : pc'[S(k)] \in SamplerAt(phase)
  BY <1>1, <1>3 DEF InPhase
<1>5. \A j \in Trainer : pc'[T(j)] \in TrainerAt(phase)
  BY <1>1, <1>3 DEF InPhase
<1> QED BY <1>1, <1>3, <1>4, <1>5, LockStays

LEMMA LockTrainer ==
    ASSUME Lockstep, NEW j \in Trainer, NEW to, conf' = conf, epoch' = epoch,
           pc' = [pc EXCEPT ![T(j)] = to],
           \A phase \in Phases : pc[T(j)] \in TrainerAt(phase) => to \in TrainerAt(phase)
    PROVE  SamePhase
<1>1. PICK phase \in Phases : InPhase(phase)
  BY DEF Lockstep
<1>2. DOMAIN pc = Proc /\ T(j) \in Proc
  BY ProcKinds DEF Lockstep
<1>3. /\ DOMAIN pc' = Proc /\ pc'[T(j)] = to
      /\ \A k \in Trainer : k # j => pc'[T(k)] = pc[T(k)]
      /\ \A i \in Sampler : pc'[S(i)] = pc[S(i)]
  BY <1>2, ProcKinds
<1>4. \A k \in Trainer : pc'[T(k)] \in TrainerAt(phase)
  BY <1>1, <1>3 DEF InPhase
<1>5. \A i \in Sampler : pc'[S(i)] \in SamplerAt(phase)
  BY <1>1, <1>3 DEF InPhase
<1> QED BY <1>1, <1>3, <1>4, <1>5, LockStays

(* All trainers go on together. *)
LEMMA LockTrainers ==
    ASSUME Lockstep, NEW from, NEW to, conf' = conf, epoch' = epoch,
           TrainersAt(from), TrainersGoto(to),
           \A phase \in Phases : from \in TrainerAt(phase) => to \in TrainerAt(phase)
    PROVE  SamePhase
<1>1. PICK phase \in Phases : InPhase(phase)
  BY DEF Lockstep
<1>2. /\ DOMAIN pc' = Proc
      /\ \A k \in Trainer : pc'[T(k)] = to
      /\ \A i \in Sampler : pc'[S(i)] = pc[S(i)]
  BY ProcKinds DEF TrainersGoto
<1>3. \A k \in Trainer : pc'[T(k)] \in TrainerAt(phase)
  BY <1>1, <1>2 DEF InPhase, TrainersAt
<1>4. \A i \in Sampler : pc'[S(i)] \in SamplerAt(phase)
  BY <1>1, <1>2 DEF InPhase
<1> QED BY <1>1, <1>2, <1>3, <1>4, LockStays

LEMMA LockInit == Init => Lockstep
<1> SUFFICES ASSUME Init PROVE Lockstep
  OBVIOUS
<1>1. conf \in Configurations /\ DOMAIN pc = Proc /\ DOMAIN epoch = Proc
  BY DEF Init
<1>2. 0 \in Trainer /\ T(0) \in Proc /\ num_epoch \in Nat \ {0}
  BY <1>1, ConfType, ProcKinds, RunAssumption DEF num_epoch
<1>3. \A p \in Proc : epoch[p] = 0
  BY DEF Init
<1>4. Now = 0
  BY <1>2, <1>3 DEF Now
<1>5. /\ \A i \in Sampler : pc[S(i)] = "sample_init"
      /\ \A j \in Trainer : pc[T(j)] = "ready"
  BY ProcKinds DEF Init
<1>6. InPhase("initial")
  BY <1>2, <1>4, <1>5 DEF InPhase, SamplerAt, TrainerAt
<1>7. Now \in 0 .. num_epoch
  BY <1>2, <1>4
<1> QED BY <1>1, <1>3, <1>4, <1>6, <1>7 DEF Lockstep, Phases, BeforeLastEnd

(* The barrier of all processes leads from one phase to the next. *)
PhaseAfter(phase) ==
    CASE phase = "initial" -> "meeting"
      [] phase = "meeting" -> "opening"
      [] phase = "opening" -> "working"
      [] phase = "working" -> IF Now + 1 < num_epoch THEN "opening" ELSE "closing"
      [] phase = "closing" -> "printing"
      [] phase = "printing" -> "stopping"

NowAfter(phase) == IF phase = "working" THEN Now + 1 ELSE Now

LEMMA LockBarrier ==
    ASSUME Lockstep, GlobalBarrier, NEW phase \in Phases, InPhase(phase)
    PROVE  /\ phase # "stopping" /\ Now' = NowAfter(phase)
           /\ \E after \in Phases : after = PhaseAfter(phase) /\ InPhase(after)'
           /\ Lockstep'
           /\ phase = "working" => /\ \A i \in Sampler : pc[S(i)] = "end"
                                   /\ \A j \in Trainer : pc[T(j)] = "end"
           /\ phase # "working" => /\ \A i \in Sampler : pc[S(i)] # "end"
                                   /\ \A j \in Trainer : pc[T(j)] # "end"
<1>0. /\ conf' = conf /\ 0 \in Trainer /\ 0 \in Sampler /\ T(0) \in Proc
      /\ num_epoch \in Nat \ {0} /\ Now \in Nat /\ Now <= num_epoch
      /\ phase \in BeforeLastEnd => Now < num_epoch
      /\ DOMAIN pc' = Proc /\ DOMAIN epoch' = Proc
  BY LockFacts, ConfType DEF GlobalBarrier, InPhase
<1>1. /\ \A i \in Sampler : pc[S(i)] \in SamplerAt(phase) /\ pc[S(i)] \in GlobalWaits
      /\ \A j \in Trainer : pc[T(j)] \in TrainerAt(phase) /\ pc[T(j)] \in GlobalWaits
  BY ProcKinds DEF GlobalBarrier, InPhase
<1>2. phase # "stopping"
  BY <1>0, <1>1 DEF TrainerAt, GlobalWaits
<1>3. phase = "working" => /\ \A i \in Sampler : pc[S(i)] = "end"
                           /\ \A j \in Trainer : pc[T(j)] = "end"
  BY <1>1 DEF TrainerAt, SamplerAt, GlobalWaits
<1>4. phase # "working" => /\ \A i \in Sampler : pc[S(i)] # "end"
                           /\ \A j \in Trainer : pc[T(j)] # "end"
  BY <1>1 DEF TrainerAt, SamplerAt, Phases, BeforeLastEnd
<1>5. \A p \in Proc : epoch[p] = Now /\ (pc[p] = "end" <=> phase = "working")
  BY <1>3, <1>4, ProcKinds DEF Lockstep
<1>6. \A p \in Proc : epoch'[p] = NowAfter(phase)
  BY <1>5 DEF GlobalBarrier, NowAfter
<1>7. Now' = NowAfter(phase)
  BY <1>0, <1>6 DEF Now
<1>8. PhaseAfter(phase) \in Phases
  BY <1>2 DEF PhaseAfter, Phases, BeforeLastEnd
<1>9. /\ \A i \in Sampler : S(i) \in Proc /\ pc'[S(i)] = AfterBarrier(S(i)) /\ S(i)[1] = "sampler"
      /\ \A j \in Trainer : T(j) \in Proc /\ pc'[T(j)] = AfterBarrier(T(j)) /\ T(j)[1] = "trainer"
  BY ProcKinds DEF GlobalBarrier
<1>10. ASSUME NEW i \in Sampler PROVE pc'[S(i)] \in SamplerAt(PhaseAfter(phase))
  <2>1. /\ pc[S(i)] \in SamplerAt(phase) /\ pc[S(i)] \in GlobalWaits
        /\ pc'[S(i)] = AfterBarrier(S(i)) /\ S(i)[1] = "sampler" /\ epoch[S(i)] = Now
    BY <1>1, <1>9, LockFacts
  <2>2. CASE phase \in {"initial", "meeting", "opening"}
    BY <2>1, <2>2 DEF SamplerAt, PhaseAfter, AfterBarrier, EpochStart, GlobalWaits
  <2>3. CASE phase = "working"
    BY <2>1, <2>3 DEF SamplerAt, PhaseAfter, AfterBarrier, EpochStart, GlobalWaits
  <2>4. CASE phase \in {"closing", "printing"}
    BY <2>1, <2>4 DEF SamplerAt, PhaseAfter, AfterBarrier, GlobalWaits
  <2> QED BY <1>2, <2>2, <2>3, <2>4 DEF Phases, BeforeLastEnd
<1>11. ASSUME NEW j \in Trainer PROVE pc'[T(j)] \in TrainerAt(PhaseAfter(phase))
  <2>1. /\ pc[T(j)] \in TrainerAt(phase) /\ pc[T(j)] \in GlobalWaits
        /\ pc'[T(j)] = AfterBarrier(T(j)) /\ T(j)[1] = "trainer" /\ epoch[T(j)] = Now
    BY <1>1, <1>9, LockFacts
  <2>2. CASE phase \in {"initial", "meeting", "opening"}
    BY <2>1, <2>2 DEF TrainerAt, PhaseAfter, AfterBarrier, EpochStart, GlobalWaits
  <2>3. CASE phase = "working"
    BY <2>1, <2>3 DEF TrainerAt, PhaseAfter, AfterBarrier, EpochStart, GlobalWaits
  <2>4. CASE phase \in {"closing", "printing"}
    BY <2>1, <2>4 DEF TrainerAt, PhaseAfter, AfterBarrier, GlobalWaits
  <2> QED BY <1>2, <2>2, <2>3, <2>4 DEF Phases, BeforeLastEnd
<1>12. /\ NowAfter(phase) \in 0 .. num_epoch
       /\ PhaseAfter(phase) \in BeforeLastEnd => NowAfter(phase) < num_epoch
  BY <1>0, <1>2 DEF NowAfter, PhaseAfter, BeforeLastEnd, Phases
<1>c. PICK after \in Phases : after = PhaseAfter(phase)
  BY <1>8
<1>13. InPhase(after)'
  <2>1. \A i \in Sampler' : pc'[S(i)] \in SamplerAt(after)'
    BY <1>0, <1>10, <1>c, ConfSame, LockConf
  <2>2. \A j \in Trainer' : pc'[T(j)] \in TrainerAt(after)'
    BY <1>0, <1>11, <1>c, ConfSame, LockConf
  <2>3. after \in BeforeLastEnd => Now' < num_epoch'
    BY <1>0, <1>7, <1>12, <1>c, LockConf
  <2> QED BY <2>1, <2>2, <2>3 DEF InPhase
<1>14. Lockstep'
  BY <1>0, <1>6, <1>7, <1>12, <1>13, ConfSame, LockConf, LockFacts DEF Lockstep
<1> QED BY <1>2, <1>3, <1>4, <1>7, <1>c, <1>13, <1>14

LEMMA LockSame ==
    ASSUME Lockstep, UNCHANGED <<conf, pc, epoch>>
    PROVE  SamePhase
<1>1. PICK phase \in Phases : InPhase(phase)
  BY DEF Lockstep
<1> QED BY <1>1, LockStays DEF Lockstep, InPhase

(* No step but that barrier leads out of a phase. *)
LEMMA LockSamplerStep ==
    ASSUME Lockstep, NEW i \in Sampler, SamplerStep(i)
    PROVE  SamePhase
<1>0. ASSUME NEW from, NEW to, Goto(S(i), from, to), conf' = conf,
             \A phase \in Phases : from \in SamplerAt(phase) => to \in SamplerAt(phase)
      PROVE  SamePhase
  BY <1>0, LockSampler DEF Goto
<1>1. CASE SampleInit(i)
  <2>1. \A phase \in Phases :
           "sample_init" \in SamplerAt(phase) => "sampler_barrier" \in SamplerAt(phase)
    BY DEF SamplerAt, Phases, BeforeLastEnd
  <2> QED BY <1>0, <1>1, <2>1 DEF SampleInit
<1>2. CASE SampleInitFatal(i)
  BY <1>2, LockSame DEF SampleInitFatal, Fail
<1>3. CASE SampleCacheTableInit(i)
  <2>1. \A phase \in Phases : "cache_table" \in SamplerAt(phase) => "ready" \in SamplerAt(phase)
    BY DEF SamplerAt, Phases, BeforeLastEnd
  <2> QED BY <1>0, <1>3, <2>1 DEF SampleCacheTableInit
<1>4. CASE SampleOnce(i)
  <2>1. \A phase \in Phases : "sample" \in SamplerAt(phase) => "send" \in SamplerAt(phase)
    BY DEF SamplerAt, Phases, BeforeLastEnd
  <2>2. CASE Goto(S(i), "sample", "send")
    BY <1>0, <1>4, <2>1, <2>2 DEF SampleOnce
  <2>3. CASE Fail(S(i), "sample")
    BY <1>4, <2>3, LockSame DEF SampleOnce, Fail
  <2> QED BY <1>4, <2>2, <2>3 DEF SampleOnce
<1>5. CASE Send(i)
  <2>1. \A phase \in Phases : "send" \in SamplerAt(phase) => "sample" \in SamplerAt(phase)
    BY DEF SamplerAt, Phases, BeforeLastEnd
  <2> QED BY <1>0, <1>5, <2>1 DEF Send
<1>6. CASE Sampled(i)
  <2>1. \A phase \in Phases : "sample" \in SamplerAt(phase)
            => (IF pipeline THEN "end" ELSE "sampled") \in SamplerAt(phase)
    BY DEF SamplerAt, Phases, BeforeLastEnd
  <2> QED BY <1>0, <1>6, <2>1 DEF Sampled
<1>7. CASE Report(i)
  <2>1. \A phase \in Phases : "report" \in SamplerAt(phase) => "run_end" \in SamplerAt(phase)
    BY DEF SamplerAt, Phases, BeforeLastEnd
  <2> QED BY <1>0, <1>7, <2>1 DEF Report
<1>8. CASE ReportUnbound(i) \/ BarrierTimeout(S(i)) \/ Shutdown(S(i))
  BY <1>8, LockSame DEF ReportUnbound, BarrierTimeout, Shutdown, Fail
<1> QED BY <1>1, <1>2, <1>3, <1>4, <1>5, <1>6, <1>7, <1>8 DEF SamplerStep

LEMMA LockTrainerStep ==
    ASSUME Lockstep, NEW j \in Trainer,
           TrainerStep(j) \/ ExtractStep(j) \/ ReportThreadFinish(j)
    PROVE  SamePhase
<1>0. ASSUME NEW from, NEW to, Goto(T(j), from, to), conf' = conf,
             \A phase \in Phases : from \in TrainerAt(phase) => to \in TrainerAt(phase)
      PROVE  SamePhase
  BY <1>0, LockTrainer DEF Goto
<1>1. CASE TrainInit(j)
  <2>1. \A phase \in Phases : "train_init" \in TrainerAt(phase) => "run" \in TrainerAt(phase)
    BY DEF TrainerAt, Phases, BeforeLastEnd
  <2> QED BY <1>0, <1>1, <2>1 DEF TrainInit
<1>w. \A from, to \in {"extract", "next", "get", "backward", "sync", "end"} :
        \A phase \in Phases : from \in TrainerAt(phase) => to \in TrainerAt(phase)
  BY DEF TrainerAt, Phases, BeforeLastEnd
<1>2. CASE ExtractStart(j)
  BY <1>0, <1>2, <1>w DEF ExtractStart
<1>3. CASE NextStep(j)
  BY <1>0, <1>3, <1>w DEF NextStep
<1>4. CASE GetNextBatch(j)
  BY <1>0, <1>4, <1>w DEF GetNextBatch
<1>5. CASE PadStep(j)
  BY <1>0, <1>5, <1>w DEF PadStep
<1>6. CASE EndSteps(j)
  BY <1>0, <1>6, <1>w DEF EndSteps
<1>7. CASE PadStepUnbound(j) \/ BarrierTimeout(T(j)) \/ Shutdown(T(j))
  BY <1>7, LockSame DEF PadStepUnbound, BarrierTimeout, Shutdown, Fail
<1>8. CASE ExtractStep(j)
  BY <1>8, LockSame DEF ExtractStep, ExtractFull, ExtractRecv, ExtractSubmit, ExtractGoto, procVars
<1>9. CASE ReportThreadFinish(j)
  BY <1>9, LockSame DEF ReportThreadFinish, procVars
<1> QED BY <1>1, <1>2, <1>3, <1>4, <1>5, <1>6, <1>7, <1>8, <1>9 DEF TrainerStep

LEMMA LockTogether ==
    ASSUME Lockstep, Together, ~GlobalBarrier
    PROVE  SamePhase
<1>1. CASE SamplerBarrier
  <2>1. PICK phase \in Phases : InPhase(phase)
    BY DEF Lockstep
  <2>2. /\ DOMAIN pc' = Proc /\ conf' = conf /\ epoch' = epoch
        /\ \A i \in Sampler : pc[S(i)] = "sampler_barrier" /\ pc'[S(i)] = "cache_table"
        /\ \A j \in Trainer : pc'[T(j)] = pc[T(j)]
    BY <1>1, ProcKinds DEF SamplerBarrier
  <2>3. \A i \in Sampler : pc'[S(i)] \in SamplerAt(phase)
    BY <2>1, <2>2 DEF InPhase, SamplerAt, Phases, BeforeLastEnd
  <2>4. \A j \in Trainer : pc'[T(j)] \in TrainerAt(phase)
    BY <2>1, <2>2 DEF InPhase
  <2> QED BY <2>1, <2>2, <2>3, <2>4, LockStays
<1>2. CASE Backward
  <2>1. \A phase \in Phases : "backward" \in TrainerAt(phase) => "next" \in TrainerAt(phase)
    BY DEF TrainerAt, Phases, BeforeLastEnd
  <2> QED BY <1>2, <2>1, LockTrainers DEF Backward
<1>3. CASE TrainBarrier("sync", "end")
  <2>1. \A phase \in Phases : "sync" \in TrainerAt(phase) => "end" \in TrainerAt(phase)
    BY DEF TrainerAt, Phases, BeforeLastEnd
  <2> QED BY <1>3, <2>1, LockTrainers DEF TrainBarrier
<1>4. CASE TrainBarrier("last_sync", "run_end")
  <2>1. \A phase \in Phases : "last_sync" \in TrainerAt(phase) => "run_end" \in TrainerAt(phase)
    BY DEF TrainerAt, Phases, BeforeLastEnd
  <2> QED BY <1>4, <2>1, LockTrainers DEF TrainBarrier
<1> QED BY <1>1, <1>2, <1>3, <1>4 DEF Together

LEMMA LockNext ==
    ASSUME Lockstep, [Next]_vars, ~GlobalBarrier
    PROVE  SamePhase
<1>1. CASE UNCHANGED vars
  BY <1>1, LockSame DEF vars, procVars
<1>2. CASE ParentStep
  BY <1>2, LockSame DEF ParentStep, WaitOneChild, KillAll, Join, procVars
<1>3. CASE \E p \in Proc : Crash(p)
  BY <1>3, LockSame DEF Crash
<1> QED BY <1>1, <1>2, <1>3, LockSamplerStep, LockTrainerStep, LockTogether DEF Next

------------------------------------------------------------------------------
(***************************************************************************)
(* The samplers.  SamplersInv says where a shuffler stands: as far in the  *)
(* epoch as its sampler has sent, or one batch further while it sends.     *)
(***************************************************************************)
(* The key of the k-th batch of sampler i in epoch e. *)
KeyOf(i, e, k) == e * NumStep + StepOffset(i) + k

(* A shuffler that has given out n batches of epoch e. *)
PositionAfter(i, e, n) ==
    IF n > 0 THEN [epoch |-> e, step |-> n - 1, initialized |-> TRUE]
    ELSE IF e = 0 THEN NewShuffler(i)
    ELSE [epoch |-> e - 1, step |-> LocalSteps(i) - 1, initialized |-> TRUE]

(* How many batches of this epoch sampler i has sent. *)
Sent(i) == LocalSteps(i) - todo[i]

SamplerOK(i) ==
    /\ todo[i] \in 0 .. LocalSteps(i)
    /\ pc[S(i)] \in {"sampled", "end"} => todo[i] = 0
    /\ pc[S(i)] = "send" =>
        /\ todo[i] > 0
        /\ shuffler[i] = PositionAfter(i, Now, Sent(i) + 1)
        /\ task[i] = KeyOf(i, Now, Sent(i))
    /\ pc[S(i)] # "send" /\ LocalSteps(i) > 0 => shuffler[i] = PositionAfter(i, Now, Sent(i))

SamplersInv ==
    /\ DOMAIN shuffler = Sampler /\ DOMAIN todo = Sampler /\ DOMAIN task = Sampler
    /\ \A i \in Sampler : SamplerOK(i)

(* The samplers' shares of an epoch. *)
LEMMA ShareFacts ==
    ASSUME conf \in Configurations, NEW i \in Sampler
    PROVE  /\ NumStep \in Nat /\ StepOffset(i) \in Nat /\ LocalSteps(i) \in Nat
           /\ ShufflerSteps(i) = LocalSteps(i)
           /\ StepOffset(i) + LocalSteps(i) <= NumStep
           /\ i # num_sample_worker - 1 => StepOffset(i) + LocalSteps(i) = StepOffset(i + 1)
<1> DEFINE n == num_sample_worker
           N == NumStep
           q == N \div n
           r == N % n
<1>0. n \in Nat \ {0} /\ N \in Nat /\ i \in Nat /\ i <= n - 1
  BY ConfType, StepNumbers DEF Sampler
<1>1. q \in Nat /\ r \in Nat /\ r < n /\ N = q * n + r
  BY <1>0
<1>2. StepOffset(i) = q * i /\ StepOffset(i + 1) = q * (i + 1)
  BY DEF StepOffset
<1>3. /\ ShufflerSteps(i) = IF i = n - 1 THEN N - q * i ELSE q
      /\ LocalSteps(i) = IF i = n - 1 THEN N - q * i ELSE q
  BY <1>2 DEF ShufflerSteps, LocalSteps
<1> HIDE DEF n, N, q, r
<1>4. /\ q * i \in Nat /\ q * (i + 1) = q * i + q
      /\ q * (i + 1) <= q * n
  BY <1>0, <1>1
<1>5. q * n \in Nat /\ q * i <= N /\ q * (i + 1) <= N
  BY <1>0, <1>1, <1>4
<1>6. CASE i = n - 1
  BY <1>0, <1>1, <1>2, <1>3, <1>4, <1>5, <1>6 DEF n, N
<1>7. CASE i # n - 1
  BY <1>0, <1>1, <1>2, <1>3, <1>4, <1>5, <1>7 DEF n, N
<1> QED BY <1>6, <1>7

LEMMA SplitConf ==
    ASSUME conf' = conf
    PROVE  /\ NumStep' = NumStep
           /\ \A i : LocalSteps(i)' = LocalSteps(i)
           /\ \A i, e, k : KeyOf(i, e, k)' = KeyOf(i, e, k)
           /\ \A i, e, k : PositionAfter(i, e, k)' = PositionAfter(i, e, k)
BY DEF NumStep, LocalSteps, KeyOf, PositionAfter, num_sample_worker, StepOffset, NewShuffler,
       ShufflerSteps

LEMMA StepOn ==
    ASSUME NEW e, NEW n
    PROVE  [[epoch |-> e, step |-> n, initialized |-> TRUE] EXCEPT !.step = @ + 1]
            = [epoch |-> e, step |-> n + 1, initialized |-> TRUE]
<1>1. PICK yes : /\ yes = TRUE
                 /\ [epoch |-> e, step |-> n, initialized |-> TRUE]
                        = [epoch |-> e, step |-> n, initialized |-> yes]
  BY Zenon
<1>2. [epoch |-> e, step |-> n + 1, initialized |-> TRUE]
        = [epoch |-> e, step |-> n + 1, initialized |-> yes]
  BY <1>1, Zenon
<1>3. [[epoch |-> e, step |-> n, initialized |-> yes] EXCEPT !.step = @ + 1]
        = [epoch |-> e, step |-> n + 1, initialized |-> yes]
  OBVIOUS
<1> QED BY <1>1, <1>2, <1>3, Zenon

(* GetBatch moves a shuffler on by one step, over the end of an epoch too. *)
LEMMA ShufflerMoves ==
    ASSUME conf \in Configurations, NEW i \in Sampler, NEW e \in Nat,
           NEW n \in 0 .. LocalSteps(i) - 1
    PROVE  /\ NextBatch(PositionAfter(i, e, n), i) = PositionAfter(i, e, n + 1)
           /\ PositionAfter(i, e, n + 1).epoch = e
           /\ BatchKey(PositionAfter(i, e, n + 1), i) = KeyOf(i, e, n)
<1>1. ShufflerSteps(i) = LocalSteps(i) /\ LocalSteps(i) \in Nat /\ n \in Nat /\ n < LocalSteps(i)
  BY ShareFacts
<1>2. PositionAfter(i, e, n + 1) = [epoch |-> e, step |-> n, initialized |-> TRUE]
  BY <1>1 DEF PositionAfter
<1>3. NextBatch(PositionAfter(i, e, n), i) = PositionAfter(i, e, n + 1)
  <2>1. CASE n > 0
    <3>1. PositionAfter(i, e, n) = [epoch |-> e, step |-> n - 1, initialized |-> TRUE]
      BY <2>1 DEF PositionAfter
    <3> DEFINE sh == [epoch |-> e, step |-> n - 1, initialized |-> TRUE]
    <3>2. sh.step + 1 = n /\ sh.step + 1 < ShufflerSteps(i)
      BY <1>1, <2>1
    <3>3. [sh EXCEPT !.step = @ + 1] = [epoch |-> e, step |-> n, initialized |-> TRUE]
      <4>1. (n - 1) + 1 = n
        BY <1>1
      <4>2. [sh EXCEPT !.step = @ + 1] = [epoch |-> e, step |-> (n - 1) + 1, initialized |-> TRUE]
        BY StepOn, Zenon
      <4> QED BY <4>1, <4>2
    <3>4. NextBatch(sh, i) = [epoch |-> e, step |-> n, initialized |-> TRUE]
      BY <3>2, <3>3 DEF NextBatch
    <3> QED BY <1>2, <3>1, <3>4
  <2>2. CASE n = 0 /\ e = 0
    <3>1. PositionAfter(i, e, n) = [epoch |-> 0, step |-> LocalSteps(i), initialized |-> FALSE]
      BY <1>1, <2>2 DEF PositionAfter, NewShuffler
    <3> QED BY <1>1, <1>2, <2>2, <3>1 DEF NextBatch
  <2>3. CASE n = 0 /\ e > 0
    <3>1. PositionAfter(i, e, n)
          = [epoch |-> e - 1, step |-> LocalSteps(i) - 1, initialized |-> TRUE]
      BY <2>3 DEF PositionAfter
    <3> DEFINE sh == [epoch |-> e - 1, step |-> LocalSteps(i) - 1, initialized |-> TRUE]
    <3>2. ~ (sh.step + 1 < ShufflerSteps(i)) /\ sh.initialized /\ sh.epoch + 1 = e
      BY <1>1, <2>3
    <3>3. NextBatch(sh, i) = [epoch |-> e, step |-> 0, initialized |-> TRUE]
      BY <3>2 DEF NextBatch
    <3> QED BY <1>2, <2>3, <3>1, <3>3
  <2> QED BY <1>1, <2>1, <2>2, <2>3
<1>4. BatchKey(PositionAfter(i, e, n + 1), i) = KeyOf(i, e, n)
  BY <1>2 DEF BatchKey, KeyOf
<1> QED BY <1>2, <1>3, <1>4

LEMMA SamplersInit == Init => SamplersInv
<1> SUFFICES ASSUME Init PROVE SamplersInv
  OBVIOUS
<1>1. conf \in Configurations
  BY DEF Init
<1>2. ASSUME NEW i \in Sampler PROVE SamplerOK(i)
  <2>1. /\ pc[S(i)] = "sample_init" /\ todo[i] = LocalSteps(i) /\ shuffler[i] = NewShuffler(i)
        /\ LocalSteps(i) \in Nat
    BY <1>1, ProcKinds, ShareFacts DEF Init
  <2>2. Now = 0
    BY <1>1, LockInit, LockFacts, ConfType, ProcKinds DEF Init
  <2>3. Sent(i) = 0
    BY <2>1 DEF Sent
  <2> QED BY <2>1, <2>2, <2>3 DEF SamplerOK, PositionAfter
<1> QED BY <1>2 DEF SamplersInv, Init

(* What a sampler knows does not change with the others' steps.            *)
LEMMA SamplerSame ==
    ASSUME NEW i \in Sampler, SamplerOK(i), conf' = conf, Now' = Now,
           pc'[S(i)] = pc[S(i)], shuffler'[i] = shuffler[i], todo'[i] = todo[i], task'[i] = task[i]
    PROVE  SamplerOK(i)'
BY SplitConf DEF SamplerOK, Sent

LEMMA SamplersStay ==
    ASSUME SamplersInv, SamePhase, UNCHANGED samplerVars,
           \A i \in Sampler : pc'[S(i)] = pc[S(i)]
    PROVE  SamplersInv'
<1>1. ASSUME NEW i \in Sampler PROVE SamplerOK(i)'
  BY SamplerSame DEF SamplersInv, SamePhase, samplerVars
<1> QED BY <1>1, ConfSame DEF SamplersInv, SamePhase, samplerVars

(* A step of sampler i. *)
LEMMA SamplerAlone ==
    ASSUME SamplersInv, SamePhase, NEW i \in Sampler, SamplerOK(i)',
           DOMAIN shuffler' = Sampler, DOMAIN todo' = Sampler, DOMAIN task' = Sampler,
           \A k \in Sampler : k # i =>
                /\ pc'[S(k)] = pc[S(k)] /\ shuffler'[k] = shuffler[k]
                /\ todo'[k] = todo[k] /\ task'[k] = task[k]
    PROVE  SamplersInv'
<1>1. ASSUME NEW k \in Sampler PROVE SamplerOK(k)'
  <2>1. CASE k = i
    BY <2>1
  <2>2. CASE k # i
    BY <2>2, SamplerSame DEF SamplersInv, SamePhase
  <2> QED BY <2>1, <2>2
<1> QED BY <1>1, ConfSame DEF SamplersInv, SamePhase

(* Places that say nothing of the steps. *)
LEMMA SamplerGoto ==
    ASSUME SamplersInv, SamePhase, Lockstep, NEW i \in Sampler, NEW from, NEW to,
           Goto(S(i), from, to), UNCHANGED samplerVars,
           from # "send", to \notin {"send", "sampled", "end"}
    PROVE  SamplersInv'
<1>1. /\ pc[S(i)] = from /\ pc'[S(i)] = to
      /\ \A k \in Sampler : k # i => pc'[S(k)] = pc[S(k)]
  BY ProcKinds DEF Goto, Lockstep
<1>2. SamplerOK(i)'
  BY <1>1, SplitConf DEF SamplersInv, SamplerOK, Sent, samplerVars, SamePhase
<1> QED BY <1>1, <1>2, SamplerAlone DEF SamplersInv, samplerVars

LEMMA SamplersSampleOnce ==
    ASSUME SamplersInv, SamePhase, Lockstep, NEW i \in Sampler, SampleOnce(i)
    PROVE  SamplersInv' /\ Goto(S(i), "sample", "send") /\ Now < num_epoch
<1> DEFINE sh == NextBatch(shuffler[i], i)
           n == Sent(i)
<1>0. /\ conf \in Configurations /\ S(i) \in Proc /\ Now \in Nat
  BY LockFacts
<1>1. pc[S(i)] = "sample" /\ todo[i] > 0
  BY DEF SampleOnce, Goto, Fail
<1>2. Now < num_epoch
  <2>1. PICK phase \in Phases : InPhase(phase)
    BY DEF Lockstep
  <2>2. phase \in BeforeLastEnd
    BY <1>1, <2>1 DEF InPhase, SamplerAt, Phases, BeforeLastEnd
  <2> QED BY <2>1, <2>2 DEF InPhase
<1>3. todo[i] \in 0 .. LocalSteps(i) /\ LocalSteps(i) \in Nat
  BY <1>0, ShareFacts DEF SamplersInv, SamplerOK
<1>4. n \in 0 .. LocalSteps(i) - 1
  BY <1>1, <1>3 DEF Sent
<1>5. shuffler[i] = PositionAfter(i, Now, n)
  BY <1>1, <1>3 DEF SamplersInv, SamplerOK
<1>6. sh = PositionAfter(i, Now, n + 1) /\ sh.epoch = Now /\ BatchKey(sh, i) = KeyOf(i, Now, n)
  BY <1>0, <1>4, <1>5, ShufflerMoves
<1> HIDE DEF n
<1>7. Goto(S(i), "sample", "send")
  BY <1>2, <1>6 DEF SampleOnce
<1>8. /\ shuffler' = [shuffler EXCEPT ![i] = sh]
      /\ task' = [task EXCEPT ![i] = KeyOf(i, Now, n)]
      /\ todo' = todo
  BY <1>2, <1>6 DEF SampleOnce
<1> HIDE DEF sh
<1>9. /\ pc'[S(i)] = "send" /\ \A k \in Sampler : k # i => pc'[S(k)] = pc[S(k)]
  BY <1>0, <1>7, ProcKinds DEF Goto, Lockstep
<1>10. /\ DOMAIN shuffler' = Sampler /\ DOMAIN todo' = Sampler /\ DOMAIN task' = Sampler
       /\ shuffler'[i] = sh /\ task'[i] = KeyOf(i, Now, n)
       /\ \A k \in Sampler : k # i => shuffler'[k] = shuffler[k] /\ task'[k] = task[k]
  BY <1>8 DEF SamplersInv
<1>11. Sent(i)' = n /\ todo'[i] = todo[i]
  BY <1>8, SplitConf DEF Sent, n, SamePhase
<1>12. SamplerOK(i)'
  BY <1>1, <1>3, <1>6, <1>9, <1>10, <1>11, SplitConf DEF SamplerOK, SamePhase
<1> QED BY <1>2, <1>7, <1>8, <1>9, <1>10, <1>12, SamplerAlone

LEMMA SamplersSend ==
    ASSUME SamplersInv, SamePhase, Lockstep, NEW i \in Sampler, Send(i)
    PROVE  SamplersInv'
<1>0. /\ conf \in Configurations /\ S(i) \in Proc
  BY LockFacts
<1>1. /\ pc[S(i)] = "send" /\ pc'[S(i)] = "sample"
      /\ \A k \in Sampler : k # i => pc'[S(k)] = pc[S(k)]
  BY <1>0, ProcKinds DEF Send, Goto, Lockstep
<1>2. /\ todo[i] \in 0 .. LocalSteps(i) /\ LocalSteps(i) \in Nat /\ todo[i] > 0
      /\ shuffler[i] = PositionAfter(i, Now, Sent(i) + 1)
  BY <1>0, <1>1, ShareFacts DEF SamplersInv, SamplerOK
<1>3. /\ DOMAIN shuffler' = Sampler /\ DOMAIN todo' = Sampler /\ DOMAIN task' = Sampler
      /\ shuffler' = shuffler /\ todo'[i] = todo[i] - 1
      /\ \A k \in Sampler : k # i => todo'[k] = todo[k] /\ task'[k] = task[k]
  BY DEF Send, SamplersInv
<1>4. Sent(i)' = Sent(i) + 1 /\ LocalSteps(i)' = LocalSteps(i)
  BY <1>2, <1>3, SplitConf DEF Sent, SamePhase
<1>5. SamplerOK(i)'
  <2>1. todo'[i] \in 0 .. LocalSteps(i)'
    BY <1>2, <1>3, <1>4
  <2>2. shuffler'[i] = PositionAfter(i, Now', Sent(i)')
    BY <1>2, <1>3, <1>4, SplitConf DEF SamePhase
  <2> QED BY <1>1, <1>4, <2>1, <2>2, SplitConf DEF SamplerOK, SamePhase
<1> QED BY <1>1, <1>3, <1>5, SamplerAlone

LEMMA SamplersSampled ==
    ASSUME SamplersInv, SamePhase, Lockstep, NEW i \in Sampler, Sampled(i)
    PROVE  SamplersInv'
<1>1. /\ pc[S(i)] = "sample" /\ pc'[S(i)] # "send" /\ todo[i] = 0
      /\ \A k \in Sampler : k # i => pc'[S(k)] = pc[S(k)]
      /\ UNCHANGED samplerVars
  BY LockFacts, ProcKinds DEF Sampled, Goto, Lockstep
<1>2. SamplerOK(i)'
  BY <1>1, SplitConf DEF SamplersInv, SamplerOK, Sent, samplerVars, SamePhase
<1> QED BY <1>1, <1>2, SamplerAlone DEF SamplersInv, samplerVars

LEMMA SamplersStep ==
    ASSUME SamplersInv, SamePhase, Lockstep, NEW i \in Sampler, SamplerStep(i)
    PROVE  SamplersInv'
<1>1. CASE SampleInit(i)
  BY <1>1, SamplerGoto DEF SampleInit
<1>2. CASE SampleInitFatal(i)
  BY <1>2, SamplersStay DEF SampleInitFatal, Fail
<1>3. CASE SampleCacheTableInit(i)
  BY <1>3, SamplerGoto DEF SampleCacheTableInit
<1>4. CASE Report(i)
  BY <1>4, SamplerGoto DEF Report
<1>5. CASE ReportUnbound(i) \/ BarrierTimeout(S(i)) \/ Shutdown(S(i))
  BY <1>5, SamplersStay DEF ReportUnbound, BarrierTimeout, Shutdown, Fail
<1> QED BY <1>1, <1>2, <1>3, <1>4, <1>5, SamplersSampleOnce, SamplersSend, SamplersSampled
    DEF SamplerStep

LEMMA SamplersBarrier ==
    ASSUME SamplersInv, Lockstep, GlobalBarrier
    PROVE  SamplersInv'
<1>0. PICK phase \in Phases : InPhase(phase)
  BY DEF Lockstep
<1>1. /\ conf \in Configurations /\ conf' = conf /\ Now \in Nat /\ Now' = NowAfter(phase)
      /\ shuffler' = shuffler /\ task' = task
      /\ DOMAIN todo' = Sampler
  BY <1>0, LockFacts, LockBarrier DEF GlobalBarrier
<1>2. ASSUME NEW i \in Sampler PROVE SamplerOK(i)'
  <2>1. /\ S(i) \in Proc /\ S(i)[1] = "sampler" /\ pc[S(i)] \in GlobalWaits
        /\ pc'[S(i)] = AfterBarrier(S(i))
        /\ todo'[i] = IF pc[S(i)] = "end" THEN LocalSteps(i) ELSE todo[i]
    BY ProcKinds DEF GlobalBarrier
  <2>2. /\ todo[i] \in 0 .. LocalSteps(i) /\ LocalSteps(i) \in Nat
        /\ LocalSteps(i) > 0 => shuffler[i] = PositionAfter(i, Now, Sent(i))
        /\ pc[S(i)] \in {"sampled", "end"} => todo[i] = 0
    BY <1>1, <2>1, ShareFacts DEF SamplersInv, SamplerOK, GlobalWaits
  <2>3. pc'[S(i)] # "send" /\ (pc'[S(i)] = "end" <=> pc[S(i)] = "sampled") /\ pc'[S(i)] # "sampled"
    BY <2>1 DEF AfterBarrier, EpochStart, GlobalWaits
  <2>4. CASE phase = "working"
    <3>1. pc[S(i)] = "end" /\ Now' = Now + 1
      BY <1>0, <1>1, <2>4, LockBarrier DEF NowAfter
    <3>2. todo'[i] = LocalSteps(i) /\ Sent(i) = LocalSteps(i)
      BY <2>1, <2>2, <3>1 DEF Sent
    <3>3. Sent(i)' = 0
      BY <1>1, <2>2, <3>2, SplitConf DEF Sent
    <3>4. LocalSteps(i) > 0 => PositionAfter(i, Now, LocalSteps(i)) = PositionAfter(i, Now + 1, 0)
      BY <1>1, <2>2 DEF PositionAfter
    <3>5. LocalSteps(i) > 0 => shuffler'[i] = PositionAfter(i, Now', Sent(i)')
      BY <1>1, <2>2, <3>1, <3>2, <3>3, <3>4
    <3> QED BY <1>1, <2>2, <2>3, <3>1, <3>2, <3>5, SplitConf DEF SamplerOK
  <2>5. CASE phase # "working"
    <3>1. pc[S(i)] # "end" /\ Now' = Now
      BY <1>0, <1>1, <2>5, LockBarrier DEF NowAfter
    <3>2. todo'[i] = todo[i] /\ Sent(i)' = Sent(i)
      BY <1>1, <2>1, <3>1, SplitConf DEF Sent
    <3> QED BY <1>1, <2>2, <2>3, <3>1, <3>2, SplitConf DEF SamplerOK
  <2> QED BY <2>4, <2>5
<1> QED BY <1>1, <1>2, ConfSame DEF SamplersInv

LEMMA SamplersNext ==
    ASSUME SamplersInv, Lockstep, [Next]_vars
    PROVE  SamplersInv'
<1>1. CASE GlobalBarrier
  BY <1>1, SamplersBarrier
<1>2. CASE ~GlobalBarrier
  <2>0. SamePhase
    BY <1>2, LockNext
  <2>1. CASE UNCHANGED vars
    BY <2>0, <2>1, SamplersStay DEF vars, procVars
  <2>2. CASE ParentStep
    BY <2>0, <2>2, SamplersStay DEF ParentStep, WaitOneChild, KillAll, Join, procVars
  <2>3. CASE \E p \in Proc : Crash(p)
    BY <2>0, <2>3, SamplersStay DEF Crash
  <2>4. CASE \E i \in Sampler : SamplerStep(i)
    BY <2>0, <2>4, SamplersStep
  <2>5. ASSUME NEW j \in Trainer, TrainerStep(j) \/ ExtractStep(j) \/ ReportThreadFinish(j)
        PROVE  SamplersInv'
    <3>1. UNCHANGED samplerVars
      BY <2>5 DEF TrainerStep, TrainInit, ExtractStart, NextStep, GetNextBatch, PadStep,
         PadStepUnbound, EndSteps, BarrierTimeout, Shutdown, ExtractStep, ExtractFull,
         ExtractRecv, ExtractSubmit, ExtractGoto, ReportThreadFinish
    <3>2. pc' = pc \/ \E to : pc' = [pc EXCEPT ![T(j)] = to]
      BY <2>5 DEF TrainerStep, TrainInit, ExtractStart, NextStep, GetNextBatch, PadStep,
         PadStepUnbound, EndSteps, BarrierTimeout, Shutdown, ExtractStep, ExtractFull,
         ExtractRecv, ExtractSubmit, ExtractGoto, ReportThreadFinish, Goto, Fail, procVars
    <3>3. \A i \in Sampler : pc'[S(i)] = pc[S(i)]
      BY <3>2, ProcKinds DEF Lockstep
    <3> QED BY <2>0, <3>1, <3>3, SamplersStay
  <2>6. CASE Together
    <3>1. CASE SamplerBarrier
      <4>1. /\ UNCHANGED samplerVars
            /\ \A i \in Sampler : pc[S(i)] = "sampler_barrier" /\ pc'[S(i)] = "cache_table"
        BY <3>1, ProcKinds DEF SamplerBarrier
      <4>2. ASSUME NEW i \in Sampler PROVE SamplerOK(i)'
        BY <2>0, <4>1, SplitConf DEF SamplersInv, SamplerOK, Sent, samplerVars, SamePhase
      <4> QED BY <2>0, <4>1, <4>2, ConfSame DEF SamplersInv, SamePhase, samplerVars
    <3>2. CASE Backward \/ TrainBarrier("sync", "end") \/ TrainBarrier("last_sync", "run_end")
      <4>1. UNCHANGED samplerVars /\ \A i \in Sampler : pc'[S(i)] = pc[S(i)]
        BY <3>2, ProcKinds DEF Backward, TrainBarrier, TrainersGoto
      <4> QED BY <2>0, <4>1, SamplersStay
    <3> QED BY <1>2, <2>6, <3>1, <3>2 DEF Together
  <2> QED BY <2>1, <2>2, <2>3, <2>4, <2>5, <2>6 DEF Next
<1> QED BY <1>1, <1>2

------------------------------------------------------------------------------
(***************************************************************************)
(* The messages.  Each is in one place (OnePlace), of the epoch that all   *)
(* are in, and has a key that no other message has (MessagesInv).          *)
(***************************************************************************)
(* Where the messages of trainer j are: with its thread or in its pool. *)
Hand(j) == IF extract[j].at = "submit" THEN {extract[j].task} ELSE {}
Elements(s) == {s[x] : x \in DOMAIN s}
Distinct(s) == \A x, y \in DOMAIN s : s[x] = s[y] => x = y
Own(j) == Hand(j) \cup Elements(pool[j])
Got == {f.message : f \in fetched}

(* A message is in one place, and no trainer has it twice. *)
OnePlace ==
    /\ \A j \in Trainer :
        /\ Distinct(pool[j])
        /\ Hand(j) \cap Elements(pool[j]) = {}
        /\ Own(j) \cap Got = {}
        /\ Own(j) \subseteq received
        /\ \A k \in Trainer : k # j => Own(j) \cap Own(k) = {}
    /\ Got \subseteq received
    /\ channel \cap received = {}
    /\ \A f, g \in fetched : f.message = g.message => f = g

LEMMA ElementsAppend ==
    ASSUME NEW s, NEW x, IsSeq(s), Distinct(s), x \notin Elements(s)
    PROVE  Elements(Append(s, x)) = Elements(s) \cup {x} /\ Distinct(Append(s, x))
<1> PICK X : s \in Seq(X)
  BY DEF IsSeq
<1>1. Len(s) \in Nat /\ DOMAIN s = 1 .. Len(s)
  OBVIOUS
<1>2. /\ DOMAIN Append(s, x) = 1 .. Len(s) + 1
      /\ Append(s, x)[Len(s) + 1] = x
      /\ \A k \in 1 .. Len(s) : Append(s, x)[k] = s[k]
  <2>1. s \in Seq(X \cup {x}) /\ x \in X \cup {x}
    OBVIOUS
  <2> QED BY <2>1
<1> DEFINE t == Append(s, x)
           n == Len(s)
<1>3. DOMAIN t = 1 .. n + 1 /\ t[n + 1] = x /\ n \in Nat /\ DOMAIN s = 1 .. n
      /\ \A k \in 1 .. n : t[k] = s[k]
  BY <1>1, <1>2
<1> HIDE DEF t, n
<1>4. \A k \in 1 .. n + 1 : k \in 1 .. n \/ k = n + 1
  BY <1>3
<1>5. n + 1 \in 1 .. n + 1 /\ \A k \in 1 .. n : k \in 1 .. n + 1
  BY <1>3
<1>6. Elements(t) = Elements(s) \cup {x}
  BY <1>3, <1>4, <1>5 DEF Elements
<1>7. \A k \in 1 .. n : t[k] # x
  BY <1>3 DEF Elements
<1>8. Distinct(t)
  BY <1>3, <1>4, <1>7 DEF Distinct
<1> QED BY <1>6, <1>8 DEF t

LEMMA ElementsTail ==
    ASSUME NEW s, IsSeq(s), Distinct(s), s # << >>
    PROVE  /\ Head(s) \in Elements(s)
           /\ Elements(Tail(s)) = Elements(s) \ {Head(s)}
           /\ Distinct(Tail(s))
<1> PICK X : s \in Seq(X)
  BY DEF IsSeq
<1> DEFINE n == Len(s)
           t == Tail(s)
<1>1. n \in Nat \ {0} /\ DOMAIN s = 1 .. n /\ Head(s) = s[1]
  OBVIOUS
<1>2. DOMAIN t = 1 .. n - 1 /\ \A k \in 1 .. n - 1 : t[k] = s[k + 1]
  <2>1. t \in Seq(X) /\ Len(t) = n - 1
    OBVIOUS
  <2> QED BY <2>1
<1> HIDE DEF t, n
<1>3. /\ 1 \in 1 .. n
      /\ \A k \in 1 .. n - 1 : k + 1 \in 1 .. n /\ k + 1 # 1
      /\ \A k \in 1 .. n : k # 1 => k - 1 \in 1 .. n - 1 /\ (k - 1) + 1 = k
  BY <1>1
<1>4. \A k \in 1 .. n - 1 : s[k + 1] # s[1]
  BY <1>1, <1>3 DEF Distinct
<1>5. Elements(t) \subseteq Elements(s) \ {s[1]}
  BY <1>1, <1>2, <1>3, <1>4 DEF Elements
<1>6. ASSUME NEW y \in Elements(s), y # s[1] PROVE y \in Elements(t)
  <2>1. PICK k \in 1 .. n : y = s[k]
    BY <1>1 DEF Elements
  <2>2. k # 1
    BY <1>6, <2>1
  <2>3. t[k - 1] = y /\ k - 1 \in DOMAIN t
    BY <1>2, <1>3, <2>1, <2>2
  <2> QED BY <2>3 DEF Elements
<1>7. ASSUME NEW x \in DOMAIN t, NEW y \in DOMAIN t, t[x] = t[y] PROVE x = y
  <2>1. x \in 1 .. n - 1 /\ y \in 1 .. n - 1 /\ s[x + 1] = s[y + 1]
    BY <1>2, <1>7
  <2>2. x + 1 = y + 1
    BY <1>1, <1>3, <2>1 DEF Distinct
  <2> QED BY <1>1, <2>1, <2>2
<1>8. Head(s) \in Elements(s)
  BY <1>1, <1>3 DEF Elements
<1> QED BY <1>1, <1>5, <1>6, <1>7, <1>8 DEF Distinct, t

LEMMA PlaceInit == Init => OnePlace
<1> SUFFICES ASSUME Init PROVE OnePlace
  OBVIOUS
<1>1. fetched = {} /\ channel = {} /\ received = {}
  BY DEF Init, Channel!ChannelInit
<1>2. ASSUME NEW j \in Trainer PROVE Hand(j) = {} /\ Elements(pool[j]) = {} /\ Distinct(pool[j])
  BY DEF Init, Idle, Hand, Elements, Distinct
<1> QED BY <1>1, <1>2 DEF OnePlace, Own, Got

(* Nothing moves, or a thread is set to work anew. *)
LEMMA PlacesStay ==
    ASSUME OnePlace, conf' = conf, UNCHANGED <<pool, channel, received, fetched>>,
           \A j \in Trainer : Hand(j)' \subseteq Hand(j)
    PROVE  OnePlace'
<1>1. \A j \in Trainer : Own(j)' \subseteq Own(j) /\ Elements(pool[j])' = Elements(pool[j])
  BY DEF Own
<1>2. Got' = Got
  BY DEF Got
<1> QED BY <1>1, <1>2, ConfSame DEF OnePlace

LEMMA PlacesSend ==
    ASSUME OnePlace, NEW m, Channel!Send(m), conf' = conf, UNCHANGED <<extract, pool, fetched>>
    PROVE  OnePlace'
<1>1. /\ m \notin channel \cup received /\ channel' = channel \cup {m} /\ received' = received
  BY DEF Channel!Send
<1>2. \A j : Own(j)' = Own(j) /\ Hand(j)' = Hand(j) /\ Elements(pool[j])' = Elements(pool[j])
  BY DEF Own, Hand
<1>3. Got' = Got
  BY DEF Got
<1> QED BY <1>1, <1>2, <1>3, ConfSame DEF OnePlace

(* A message that the thread receives was nowhere else. *)
LEMMA PlacesRecv ==
    ASSUME OnePlace, EngineInv, NEW j \in Trainer, ExtractRecv(j)
    PROVE  OnePlace'
<1>0. /\ conf' = conf /\ pool' = pool /\ fetched' = fetched
      /\ extract[j].at = "recv"
      /\ DOMAIN extract = Trainer
      /\ extract[j] \in [left : Nat, at : {"none", "full", "recv", "submit"},
                         task : {extract[j].task}]
  BY EngineFacts DEF ExtractRecv, trainerVars, EngineTypes, EngineInv, EngineDomains
<1>1. PICK m \in channel :
        /\ channel' = channel \ {m} /\ received' = received \cup {m}
        /\ extract' = [extract EXCEPT ![j].at = "submit", ![j].task = m]
  BY DEF ExtractRecv, Channel!Recv
<1>2. extract'[j].at = "submit" /\ extract'[j].task = m
  BY <1>0, <1>1
<1>3. Hand(j)' = {m} /\ Hand(j) = {} /\ Elements(pool[j])' = Elements(pool[j])
  BY <1>0, <1>2 DEF Hand
<1>4. \A k \in Trainer : k # j => Hand(k)' = Hand(k)
  BY <1>0, <1>1 DEF Hand
<1>5. m \notin received
  BY <1>1 DEF OnePlace
<1>6. Own(j)' = Own(j) \cup {m} /\ \A k \in Trainer : k # j => Own(k)' = Own(k)
  BY <1>0, <1>3, <1>4 DEF Own
<1>7. Got' = Got
  BY <1>0 DEF Got
<1>8. /\ m \notin Got /\ \A k \in Trainer : m \notin Own(k)
  BY <1>5 DEF OnePlace
<1>9. m \notin Elements(pool[j])
  BY <1>8 DEF Own
<1>10. ASSUME NEW k \in Trainer
       PROVE  /\ Distinct(pool'[k]) /\ Hand(k)' \cap Elements(pool'[k]) = {}
              /\ Own(k)' \cap Got' = {} /\ Own(k)' \subseteq received'
              /\ \A l \in Trainer : l # k => Own(k)' \cap Own(l)' = {}
  BY <1>0, <1>1, <1>3, <1>4, <1>6, <1>7, <1>8, <1>9 DEF OnePlace
<1> QED BY <1>0, <1>1, <1>7, <1>10, ConfSame DEF OnePlace

(* Submit moves the message from the thread to the pool. *)
LEMMA PlacesSubmit ==
    ASSUME OnePlace, EngineInv, NEW j \in Trainer, ExtractSubmit(j)
    PROVE  OnePlace' /\ \A k \in Trainer : Own(k)' = Own(k)
<1>0. /\ conf' = conf /\ UNCHANGED <<channel, received, fetched>>
      /\ extract[j].at = "submit" /\ IsSeq(pool[j])
      /\ DOMAIN extract = Trainer /\ DOMAIN pool = Trainer
  BY EngineFacts DEF ExtractSubmit, trainerVars, queueVars, EngineTypes, EngineInv, EngineDomains
<1>1. /\ pool'[j] = Append(pool[j], extract[j].task)
      /\ extract'[j] = Idle \/ extract'[j] = Looping(extract[j].left)
      /\ \A k \in Trainer : k # j => pool'[k] = pool[k] /\ extract'[k] = extract[k]
  BY <1>0 DEF ExtractSubmit
<1>2. extract'[j].at # "submit"
  <2>1. extract[j].left \in Nat
    BY EngineFacts DEF EngineTypes
  <2> QED BY <1>1, <2>1, LoopingFacts DEF Idle
<1>3. Hand(j) = {extract[j].task} /\ Hand(j)' = {}
  BY <1>0, <1>2 DEF Hand
<1>4. extract[j].task \notin Elements(pool[j]) /\ Distinct(pool[j])
  BY <1>3 DEF OnePlace
<1>5. Elements(pool'[j]) = Elements(pool[j]) \cup {extract[j].task} /\ Distinct(pool'[j])
  BY <1>0, <1>1, <1>4, ElementsAppend
<1>6. \A k \in Trainer : Own(k)' = Own(k)
  BY <1>1, <1>3, <1>5 DEF Own, Hand
<1>7. Got' = Got
  BY <1>0 DEF Got
<1>8. ASSUME NEW k \in Trainer PROVE Distinct(pool'[k]) /\ Hand(k)' \cap Elements(pool'[k]) = {}
  <2>1. CASE k = j
    BY <1>3, <1>5, <2>1
  <2>2. CASE k # j
    <3>1. Hand(k)' = Hand(k) /\ pool'[k] = pool[k]
      BY <1>1, <2>2 DEF Hand
    <3> QED BY <3>1 DEF OnePlace
  <2> QED BY <2>1, <2>2
<1>9. OnePlace'
  BY <1>0, <1>6, <1>7, <1>8, ConfSame DEF OnePlace
<1> QED BY <1>6, <1>9

(* What the trainer takes from its pool nobody has taken before. *)
LEMMA PlacesGet ==
    ASSUME OnePlace, EngineInv, NEW j \in Trainer, GetNextBatch(j)
    PROVE  /\ OnePlace' /\ \A k \in Trainer : Own(k)' \subseteq Own(k)
           /\ Head(pool[j]) \in Own(j) /\ Head(pool[j]) \notin Got
<1>0. /\ conf' = conf /\ UNCHANGED <<channel, received, extract>>
      /\ IsSeq(pool[j]) /\ pool[j] # << >> /\ DOMAIN pool = Trainer
  BY EngineFacts DEF GetNextBatch, queueVars, EngineTypes, EngineInv, EngineDomains
<1> DEFINE m == Head(pool[j])
           f == [by |-> j, epoch |-> epoch[T(j)], message |-> m]
<1>1. /\ fetched' = fetched \cup {f}
      /\ pool'[j] = Tail(pool[j])
      /\ \A k \in Trainer : k # j => pool'[k] = pool[k]
  BY <1>0 DEF GetNextBatch
<1>f. f.message = m
  OBVIOUS
<1>2. /\ m \in Elements(pool[j]) /\ Distinct(pool'[j])
      /\ Elements(pool'[j]) = Elements(pool[j]) \ {m}
  BY <1>0, <1>1, ElementsTail DEF OnePlace
<1> HIDE DEF m, f
<1>3. \A k \in Trainer : Hand(k)' = Hand(k)
  BY <1>0 DEF Hand
<1>4. m \in Own(j) /\ m \notin Hand(j)
  BY <1>2 DEF Own, OnePlace
<1>5. Own(j)' = Own(j) \ {m}
  BY <1>2, <1>3, <1>4 DEF Own
<1>6. \A k \in Trainer : k # j => Own(k)' = Own(k) /\ m \notin Own(k)
  BY <1>1, <1>3, <1>4 DEF Own, OnePlace
<1>7. Got' = Got \cup {m}
  BY <1>1, <1>f DEF Got
<1>8. m \notin Got /\ m \in received
  BY <1>4 DEF OnePlace
<1>9. ASSUME NEW k \in Trainer PROVE Distinct(pool'[k]) /\ Hand(k)' \cap Elements(pool'[k]) = {}
  <2>1. CASE k = j
    BY <1>2, <1>3, <2>1 DEF OnePlace
  <2>2. CASE k # j
    BY <1>1, <1>3, <2>2 DEF OnePlace
  <2> QED BY <2>1, <2>2
<1>10. \A g, h \in fetched' : g.message = h.message => g = h
  <2>1. \A g \in fetched : g.message # m
    BY <1>8 DEF Got
  <2> QED BY <1>1, <1>f, <2>1 DEF OnePlace
<1>11. ASSUME NEW k \in Trainer
       PROVE  /\ Own(k)' \cap Got' = {} /\ Own(k)' \subseteq received'
              /\ \A l \in Trainer : l # k => Own(k)' \cap Own(l)' = {}
  BY <1>0, <1>5, <1>6, <1>7 DEF OnePlace
<1>12. OnePlace'
  BY <1>0, <1>7, <1>8, <1>9, <1>10, <1>11, ConfSame DEF OnePlace
<1> QED BY <1>4, <1>5, <1>6, <1>8, <1>12 DEF m

(* How a step may move messages: not at all, or in one of these four ways. *)
LEMMA MoveKinds ==
    ASSUME EngineInv, [Next]_vars
    PROVE  \/ /\ conf' = conf /\ UNCHANGED <<pool, channel, received, fetched>>
              /\ \A j \in Trainer : Hand(j)' \subseteq Hand(j)
           \/ \E i \in Sampler : Send(i)
           \/ \E j \in Trainer : ExtractRecv(j) \/ ExtractSubmit(j) \/ GetNextBatch(j)
<1> DEFINE Rest == /\ conf' = conf /\ UNCHANGED <<pool, channel, received, fetched>>
                   /\ \A j \in Trainer : Hand(j)' \subseteq Hand(j)
<1>0. ASSUME conf' = conf, UNCHANGED <<extract, pool, channel, received, fetched>> PROVE Rest
  BY <1>0 DEF Hand
<1>1. ASSUME UNCHANGED vars PROVE Rest
  BY <1>0, <1>1 DEF vars, trainerVars, engineVars, queueVars
<1>2. ASSUME ParentStep PROVE Rest
  BY <1>0, <1>2 DEF ParentStep, WaitOneChild, KillAll, Join, trainerVars, engineVars, queueVars
<1>3. ASSUME \E p \in Proc : Crash(p) PROVE Rest
  BY <1>0, <1>3 DEF Crash, trainerVars, engineVars, queueVars
<1>4. ASSUME Together PROVE Rest
  BY <1>0, <1>4 DEF Together, SamplerBarrier, GlobalBarrier, Backward, TrainBarrier,
     trainerVars, engineVars, queueVars
<1>5. ASSUME NEW i \in Sampler, SamplerStep(i), ~Send(i) PROVE Rest
  BY <1>0, <1>5 DEF SamplerStep, SampleInit, SampleInitFatal, SampleCacheTableInit, SampleOnce,
     Sampled, Report, ReportUnbound, BarrierTimeout, Shutdown, trainerVars, engineVars, queueVars
<1>6. ASSUME NEW j \in Trainer,
             \/ TrainInit(j) \/ PadStep(j) \/ PadStepUnbound(j) \/ EndSteps(j)
             \/ BarrierTimeout(T(j)) \/ Shutdown(T(j)) \/ ReportThreadFinish(j)
      PROVE  Rest
  BY <1>0, <1>6 DEF TrainInit, PadStep, PadStepUnbound, EndSteps, BarrierTimeout, Shutdown,
     ReportThreadFinish, trainerVars, engineVars, queueVars
<1>7. ASSUME NEW j \in Trainer, ExtractStart(j) \/ NextStep(j) \/ ExtractFull(j) PROVE Rest
  <2>1. /\ conf' = conf /\ UNCHANGED <<pool, channel, received, fetched>>
    BY <1>7 DEF ExtractStart, NextStep, ExtractFull, ExtractGoto, trainerVars, engineVars, queueVars
  <2>2. \A k \in Trainer : k # j => extract'[k] = extract[k]
    BY <1>7 DEF ExtractStart, NextStep, ExtractFull, ExtractGoto, EngineInv, EngineDomains
  <2>3. /\ DOMAIN extract = Trainer
        /\ extract[j] \in [left : Nat, at : {"none", "full", "recv", "submit"},
                           task : {extract[j].task}]
    BY EngineFacts DEF EngineTypes, EngineInv, EngineDomains
  <2>4. extract'[j] = extract[j] \/ extract'[j].at # "submit"
    <3>1. CASE ExtractFull(j)
      BY <2>3, <3>1 DEF ExtractFull, ExtractGoto
    <3>2. CASE NextStep(j)
      BY <2>3, <3>2, LoopingFacts DEF NextStep
    <3>3. CASE ExtractStart(j)
      <4>1. NeedSteps(j) \in Nat
        <5>1. /\ NumStep \in Nat /\ num_train_worker \in Nat \ {0}
              /\ j \in 0 .. num_train_worker - 1 /\ j \in Nat
          BY EngineFacts, StepNumbers, ConfType
        <5> QED BY <5>1, CountShare, CountNat DEF NeedSteps
      <4>2. Looping(NeedSteps(j)).at # "submit"
        BY <4>1, LoopingFacts
      <4> QED BY <2>3, <3>3, <4>2 DEF ExtractStart
    <3> QED BY <1>7, <3>1, <3>2, <3>3
  <2>5. \A k \in Trainer : Hand(k)' \subseteq Hand(k)
    BY <2>2, <2>4 DEF Hand
  <2> QED BY <2>1, <2>5
<1> HIDE DEF Rest
<1>8. ASSUME NEW j \in Trainer, TrainerStep(j) \/ ExtractStep(j) \/ ReportThreadFinish(j)
      PROVE  Rest \/ ExtractRecv(j) \/ ExtractSubmit(j) \/ GetNextBatch(j)
  BY <1>6, <1>7, <1>8 DEF TrainerStep, ExtractStep
<1>9. Rest \/ (\E i \in Sampler : Send(i))
      \/ \E j \in Trainer : ExtractRecv(j) \/ ExtractSubmit(j) \/ GetNextBatch(j)
  <2>1. CASE \E i \in Sampler : SamplerStep(i)
    BY <1>5, <2>1
  <2>2. CASE \E j \in Trainer : TrainerStep(j) \/ ExtractStep(j) \/ ReportThreadFinish(j)
    BY <1>8, <2>2
  <2> QED BY <1>1, <1>2, <1>3, <1>4, <2>1, <2>2 DEF Next
<1> QED BY <1>9 DEF Rest

LEMMA PlacesNext ==
    ASSUME OnePlace, EngineInv, [Next]_vars
    PROVE  OnePlace'
<1>1. ASSUME NEW i \in Sampler, Send(i) PROVE OnePlace'
  BY <1>1, PlacesSend DEF Send, trainerVars, engineVars
<1> QED BY <1>1, MoveKinds, PlacesStay, PlacesRecv, PlacesSubmit, PlacesGet

------------------------------------------------------------------------------
MessageOf(i, e, k) == [from |-> i, epoch |-> e, nth |-> k, key |-> KeyOf(i, e, k)]

Genuine(m) ==
    \E i \in Sampler : \E e \in 0 .. num_epoch - 1 : \E k \in 0 .. LocalSteps(i) - 1 :
        m = MessageOf(i, e, k)

(* What waits is of the epoch that all are in. *)
MessagesInv ==
    /\ \A m \in channel \cup received : Genuine(m)
    /\ \A m \in channel : m.epoch = Now
    /\ \A j \in Trainer : \A m \in Own(j) : m.epoch = Now
    /\ \A f \in fetched : f.epoch = f.message.epoch /\ f.epoch \in 0 .. Now

(* A key tells the mini-batch: its epoch, its sampler and its place there. *)
LEMMA KeyFacts ==
    ASSUME conf \in Configurations, NEW i \in Sampler, NEW e \in Nat,
           NEW k \in 0 .. LocalSteps(i) - 1
    PROVE  /\ StepOffset(i) + k \in 0 .. NumStep - 1
           /\ NumStep \in Nat \ {0}
           /\ KeyOf(i, e, k) = e * NumStep + (StepOffset(i) + k)
           /\ KeyOf(i, e, k) \in e * NumStep .. (e + 1) * NumStep - 1
<1> DEFINE N == NumStep
           o == StepOffset(i)
<1>1. /\ N \in Nat /\ o \in Nat /\ LocalSteps(i) \in Nat /\ o + LocalSteps(i) <= N
      /\ k \in Nat /\ k < LocalSteps(i)
  BY ShareFacts
<1>2. KeyOf(i, e, k) = e * N + o + k
  BY DEF KeyOf
<1> HIDE DEF N, o
<1>3. e * N \in Nat /\ (e + 1) * N = e * N + N
  BY <1>1
<1>4. o + k \in 0 .. N - 1 /\ N # 0
  BY <1>1
<1>5. e * N + o + k = e * N + (o + k) /\ e * N + (o + k) \in e * N .. (e + 1) * N - 1
  BY <1>1, <1>3, <1>4
<1> QED BY <1>1, <1>2, <1>4, <1>5 DEF N, o

LEMMA SamplerOrder ==
    ASSUME conf \in Configurations, NEW x \in Sampler, NEW y \in Sampler, x < y,
           NEW u \in 0 .. LocalSteps(x) - 1
    PROVE  StepOffset(x) + u < StepOffset(y)
<1> DEFINE q == NumStep \div num_sample_worker
<1>1. /\ num_sample_worker \in Nat \ {0} /\ NumStep \in Nat
      /\ x \in Nat /\ y \in Nat /\ x + 1 <= y /\ x # num_sample_worker - 1
  BY ConfType, StepNumbers DEF Sampler
<1>2. q \in Nat
  BY <1>1
<1>3. StepOffset(x) = q * x /\ StepOffset(y) = q * y /\ LocalSteps(x) = q
  BY <1>1 DEF StepOffset, LocalSteps
<1> HIDE DEF q
<1>4. u \in Nat /\ u < q
  BY <1>2, <1>3
<1>5. q * x + q = q * (x + 1) /\ q * (x + 1) <= q * y
  BY <1>1, <1>2
<1>6. q * x \in Nat /\ q * y \in Nat
  BY <1>1, <1>2
<1> QED BY <1>1, <1>2, <1>3, <1>4, <1>5, <1>6

LEMMA KeyUnique ==
    ASSUME conf \in Configurations,
           NEW i \in Sampler, NEW e \in Nat, NEW k \in 0 .. LocalSteps(i) - 1,
           NEW j \in Sampler, NEW d \in Nat, NEW l \in 0 .. LocalSteps(j) - 1,
           KeyOf(i, e, k) = KeyOf(j, d, l)
    PROVE  i = j /\ e = d /\ k = l
<1> DEFINE N == NumStep
           g == StepOffset(i) + k
           h == StepOffset(j) + l
<1>1. /\ N \in Nat \ {0} /\ g \in 0 .. N - 1 /\ h \in 0 .. N - 1
      /\ e * N + g = d * N + h
  BY KeyFacts
<1>t. /\ StepOffset(i) \in Nat /\ StepOffset(j) \in Nat /\ k \in Nat /\ l \in Nat
      /\ i \in Nat /\ j \in Nat
  BY ShareFacts, ConfType DEF Sampler
<1> HIDE DEF N
<1>2. e = d /\ g = h
  <2> HIDE DEF g, h
  <2>1. (e * N + g) \div N = e
    BY <1>1, Quotient
  <2>2. (d * N + h) \div N = d
    BY <1>1, Quotient
  <2>3. e = d
    BY <1>1, <2>1, <2>2
  <2> QED BY <1>1, <2>3
<1>3. ~ (i < j)
  BY <1>2, <1>t, SamplerOrder
<1>4. ~ (j < i)
  BY <1>2, <1>t, SamplerOrder
<1>5. i = j
  BY <1>3, <1>4, <1>t
<1> QED BY <1>2, <1>5, <1>t

LEMMA GenuineFacts ==
    ASSUME conf \in Configurations, NEW m, Genuine(m)
    PROVE  m.epoch \in Nat /\ m.key \in m.epoch * NumStep .. (m.epoch + 1) * NumStep - 1
<1>1. PICK i \in Sampler, e \in 0 .. num_epoch - 1 :
        \E k \in 0 .. LocalSteps(i) - 1 : m = MessageOf(i, e, k)
  BY DEF Genuine
<1>2. PICK k \in 0 .. LocalSteps(i) - 1 : m = MessageOf(i, e, k)
  BY <1>1
<1>3. m.epoch = e /\ m.key = KeyOf(i, e, k) /\ e \in Nat
  BY <1>2 DEF MessageOf
<1> QED BY <1>3, KeyFacts

LEMMA GenuineUnique ==
    ASSUME conf \in Configurations, NEW m, NEW g, Genuine(m), Genuine(g), m.key = g.key
    PROVE  m = g
<1>1. PICK i \in Sampler, e \in 0 .. num_epoch - 1 :
        \E k \in 0 .. LocalSteps(i) - 1 : m = MessageOf(i, e, k)
  BY DEF Genuine
<1>2. PICK k \in 0 .. LocalSteps(i) - 1 : m = MessageOf(i, e, k)
  BY <1>1
<1>3. PICK j \in Sampler, d \in 0 .. num_epoch - 1 :
        \E l \in 0 .. LocalSteps(j) - 1 : g = MessageOf(j, d, l)
  BY DEF Genuine
<1>4. PICK l \in 0 .. LocalSteps(j) - 1 : g = MessageOf(j, d, l)
  BY <1>3
<1>5. KeyOf(i, e, k) = KeyOf(j, d, l) /\ e \in Nat /\ d \in Nat
  BY <1>2, <1>4 DEF MessageOf
<1>6. i = j /\ e = d /\ k = l
  BY <1>5, KeyUnique
<1> QED BY <1>2, <1>4, <1>6

LEMMA GenuineConf ==
    ASSUME conf' = conf
    PROVE  \A m : Genuine(m)' <=> Genuine(m)
BY SplitConf, LockConf, ConfSame DEF Genuine, MessageOf

LEMMA MessagesInit == Init => MessagesInv
BY DEF Init, Channel!ChannelInit, MessagesInv, Own, Hand, Elements, Idle

(* What a sampler sends. *)
LEMMA SentMessage ==
    ASSUME Lockstep, SamplersInv, NEW i \in Sampler, Send(i)
    PROVE  \E m : Channel!Send(m) /\ Genuine(m) /\ m.epoch = Now
<1> DEFINE n == Sent(i)
           m == [from |-> i, epoch |-> epoch[S(i)], nth |-> LocalSteps(i) - todo[i],
                 key |-> task[i]]
<1>0. /\ conf \in Configurations /\ Now \in Nat /\ epoch[S(i)] = Now
      /\ num_epoch \in Nat
  BY LockFacts
<1>1. pc[S(i)] = "send" /\ Channel!Send(m)
  BY DEF Send, Goto
<1>2. Now < num_epoch
  <2>1. PICK phase \in Phases : InPhase(phase)
    BY DEF Lockstep
  <2>2. phase \in BeforeLastEnd
    BY <1>1, <2>1 DEF InPhase, SamplerAt, Phases, BeforeLastEnd
  <2> QED BY <2>1, <2>2 DEF InPhase
<1>3. /\ todo[i] \in 0 .. LocalSteps(i) /\ LocalSteps(i) \in Nat /\ todo[i] > 0
      /\ task[i] = KeyOf(i, Now, n)
  BY <1>0, <1>1, ShareFacts DEF SamplersInv, SamplerOK
<1>4. n = LocalSteps(i) - todo[i] /\ n \in 0 .. LocalSteps(i) - 1
  BY <1>3 DEF Sent
<1> HIDE DEF n
<1>5. m = MessageOf(i, Now, n)
  BY <1>0, <1>3, <1>4 DEF MessageOf
<1>6. Now \in 0 .. num_epoch - 1
  BY <1>0, <1>2
<1>7. Genuine(m) /\ m.epoch = Now
  BY <1>0, <1>4, <1>5, <1>6 DEF Genuine
<1> QED BY <1>1, <1>7

(* Within an epoch messages keep their epoch, wherever they go. *)
LEMMA MessagesMove ==
    ASSUME MessagesInv, Lockstep, SamplersInv, OnePlace, EngineInv, [Next]_vars, SamePhase
    PROVE  MessagesInv'
<1>0. /\ conf' = conf /\ Now' = Now /\ Trainer' = Trainer
      /\ \A m : Genuine(m)' <=> Genuine(m)
  BY GenuineConf, ConfSame DEF SamePhase
<1>1. CASE /\ UNCHANGED <<pool, channel, received, fetched>>
           /\ \A j \in Trainer : Hand(j)' \subseteq Hand(j)
  <2>1. \A j \in Trainer : Own(j)' \subseteq Own(j)
    BY <1>1 DEF Own
  <2> QED BY <1>0, <1>1, <2>1 DEF MessagesInv
<1>2. ASSUME NEW i \in Sampler, Send(i) PROVE MessagesInv'
  <2>1. PICK m : Channel!Send(m) /\ Genuine(m) /\ m.epoch = Now
    BY <1>2, SentMessage
  <2>2. channel' = channel \cup {m} /\ received' = received /\ fetched' = fetched
    BY <1>2, <2>1 DEF Channel!Send, Send, trainerVars
  <2>3. \A j \in Trainer : Own(j)' = Own(j)
    BY <1>2 DEF Own, Hand, Send, engineVars
  <2> QED BY <1>0, <2>1, <2>2, <2>3 DEF MessagesInv
<1>3. ASSUME NEW j \in Trainer, ExtractRecv(j) PROVE MessagesInv'
  <2>1. PICK m \in channel :
          /\ channel' = channel \ {m} /\ received' = received \cup {m}
          /\ extract' = [extract EXCEPT ![j].at = "submit", ![j].task = m]
    BY <1>3 DEF ExtractRecv, Channel!Recv
  <2>2. /\ fetched' = fetched /\ pool' = pool /\ DOMAIN extract = Trainer
        /\ extract[j] \in [left : Nat, at : {"none", "full", "recv", "submit"},
                           task : {extract[j].task}]
    BY <1>3, EngineFacts DEF ExtractRecv, trainerVars, EngineTypes, EngineInv, EngineDomains
  <2>3. extract'[j].at = "submit" /\ extract'[j].task = m
    BY <2>1, <2>2
  <2>4. \A k \in Trainer : k # j => extract'[k] = extract[k]
    BY <2>1, <2>2
  <2>5. Hand(j)' = {m} /\ \A k \in Trainer : k # j => Hand(k)' = Hand(k)
    BY <2>3, <2>4 DEF Hand
  <2>6. \A k \in Trainer : Own(k)' \subseteq Own(k) \cup {m}
    BY <2>2, <2>5 DEF Own
  <2> QED BY <1>0, <2>1, <2>2, <2>6 DEF MessagesInv
<1>4. ASSUME NEW j \in Trainer, ExtractSubmit(j) PROVE MessagesInv'
  <2>1. \A k \in Trainer : Own(k)' = Own(k)
    BY <1>4, PlacesSubmit
  <2>2. UNCHANGED <<channel, received, fetched>>
    BY <1>4 DEF ExtractSubmit, trainerVars, queueVars
  <2> QED BY <1>0, <2>1, <2>2 DEF MessagesInv
<1>5. ASSUME NEW j \in Trainer, GetNextBatch(j) PROVE MessagesInv'
  <2> DEFINE f == [by |-> j, epoch |-> epoch[T(j)], message |-> Head(pool[j])]
  <2>1. /\ \A k \in Trainer : Own(k)' \subseteq Own(k)
        /\ Head(pool[j]) \in Own(j)
    BY <1>5, PlacesGet
  <2>2. fetched' = fetched \cup {f} /\ UNCHANGED <<channel, received>>
    BY <1>5 DEF GetNextBatch, queueVars
  <2>3. f.epoch = Now /\ f.message.epoch = Now /\ Now \in 0 .. Now
    BY <2>1, LockFacts DEF MessagesInv
  <2> HIDE DEF f
  <2> QED BY <1>0, <2>1, <2>2, <2>3 DEF MessagesInv
<1> QED BY <1>1, <1>2, <1>3, <1>4, <1>5, MoveKinds

------------------------------------------------------------------------------
(* Numbers with the same remainder are whole rounds apart. *)
LEMMA NextRound ==
    ASSUME NEW s \in Nat, NEW n \in Nat \ {0}
    PROVE  (s + n) % n = s % n
<1> DEFINE q == s \div n
           r == s % n
           d == (s + n) \div n
           m == (s + n) % n
<1>1. q \in Nat /\ r \in Nat /\ r < n /\ s = q * n + r
  OBVIOUS
<1>2. d \in Nat /\ m \in Nat /\ s + n = d * n + m
  OBVIOUS
<1> HIDE DEF q, r
<1>3. d = q + 1
  <2>1. s + n = (q + 1) * n + r
    BY <1>1
  <2>2. s + n \in Int /\ q + 1 \in Int /\ r \in Int /\ 0 <= r
    BY <1>1
  <2> QED BY <1>1, <2>1, <2>2, Quotient
<1> HIDE DEF d, m
<1>4. d * n = q * n + n
  BY <1>1, <1>3
<1>5. m = r
  BY <1>1, <1>2, <1>4
<1> QED BY <1>5 DEF m, r

LEMMA SameRound ==
    ASSUME NEW s \in Nat, NEW t \in Nat, NEW n \in Nat \ {0}, s % n = t % n, t <= s, s < t + n
    PROVE  s = t
<1> DEFINE p == s \div n
           q == t \div n
           r == s % n
<1>1. /\ p \in Nat /\ q \in Nat /\ r \in Nat /\ r < n
      /\ s = p * n + r /\ t = q * n + r
  OBVIOUS
<1> HIDE DEF p, q, r
<1>2. ASSUME p >= q + 1 PROVE FALSE
  <2>1. p * n >= (q + 1) * n /\ (q + 1) * n = q * n + n
    BY <1>1, <1>2
  <2> QED BY <1>1, <2>1
<1>3. ASSUME q >= p + 1 PROVE FALSE
  <2>1. q * n >= (p + 1) * n /\ (p + 1) * n = p * n + n
    BY <1>1, <1>3
  <2> QED BY <1>1, <2>1
<1>4. p = q
  BY <1>1, <1>2, <1>3
<1> QED BY <1>1, <1>4

LEMMA FirstRound ==
    ASSUME NEW n \in Nat \ {0}, NEW j \in 0 .. n - 1
    PROVE  j % n = j
<1>1. j = 0 * n + j /\ j \in Nat /\ j < n
  OBVIOUS
<1>2. j \div n = 0
  BY <1>1, Quotient
<1>3. j = (j \div n) * n + (j % n)
  BY <1>1
<1>4. j % n \in Nat
  BY <1>1
<1> QED BY <1>1, <1>2, <1>3, <1>4

LEMMA Remainder ==
    ASSUME NEW s \in Nat, NEW n \in Nat \ {0}
    PROVE  s % n \in 0 .. n - 1 /\ s % n <= s
<1> DEFINE q == s \div n
           r == s % n
<1>1. q \in Nat /\ r \in Nat /\ r < n /\ s = q * n + r
  OBVIOUS
<1> HIDE DEF q, r
<1>2. q * n \in Nat
  BY <1>1
<1>3. r \in 0 .. n - 1 /\ r <= s
  BY <1>1, <1>2
<1> QED BY <1>3 DEF r

------------------------------------------------------------------------------
(***************************************************************************)
(* The trainers' steps.  Instead of adding up what each trainer has taken, *)
(* Taken collects the steps of the epoch that have had their batch: step s *)
(* is of trainer s % num_train_worker.                                     *)
(***************************************************************************)
Done(e) == {f \in fetched : f.epoch = e}
(* The steps of trainer j below this one have had their batch. *)
Reached(j) == IF pc[T(j)] = "backward" THEN step[j] + num_train_worker ELSE step[j]
Taken == {s \in 0 .. NumStep - 1 : s < Reached(s % num_train_worker)}

StepOK(j) ==
    /\ step[j] \in Nat /\ step[j] % num_train_worker = j
    /\ pc[T(j)] \in {"sync", "end"} => step[j] >= NumStep

StepsInv == \A j \in Trainer : StepOK(j)

LEMMA TakenFinite ==
    ASSUME conf \in Configurations
    PROVE  IsFiniteSet(Taken) /\ Cardinality(Taken) \in Nat /\ Taken \subseteq 0 .. NumStep - 1
<1>1. NumStep \in Nat
  BY StepNumbers
<1>2. Taken \subseteq 0 .. NumStep - 1
  BY DEF Taken
<1>3. IsFiniteSet(0 .. NumStep - 1)
  BY <1>1, FS_Interval
<1> QED BY <1>2, <1>3, FS_Subset, FS_CardinalityType

LEMMA OwnerOfStep ==
    ASSUME conf \in Configurations, NEW s \in 0 .. NumStep - 1
    PROVE  s \in Nat /\ s % num_train_worker \in Trainer /\ s % num_train_worker <= s
<1>1. NumStep \in Nat /\ num_train_worker \in Nat \ {0} /\ Trainer = 0 .. num_train_worker - 1
  BY StepNumbers
<1>2. s \in Nat
  BY <1>1
<1>3. /\ s % num_train_worker \in 0 .. num_train_worker - 1
      /\ s % num_train_worker <= s
  BY <1>1, <1>2, Remainder
<1> QED BY <1>1, <1>2, <1>3

(* Steps that a trainer does not have do not count.                        *)
LEMMA TakenSame ==
    ASSUME conf \in Configurations, conf' = conf,
           \A j \in Trainer : \/ Reached(j)' = Reached(j)
                              \/ /\ Reached(j) \in Nat /\ Reached(j) >= NumStep
                                 /\ Reached(j)' \in Nat /\ Reached(j)' >= NumStep
    PROVE  Taken' = Taken
<1>1. NumStep' = NumStep /\ num_train_worker' = num_train_worker /\ NumStep \in Nat
  BY EngineConf, StepNumbers
<1>2. ASSUME NEW s \in 0 .. NumStep - 1
      PROVE  s < Reached(s % num_train_worker)' <=> s < Reached(s % num_train_worker)
  <2>1. s \in Nat /\ s % num_train_worker \in Trainer
    BY OwnerOfStep
  <2> DEFINE k == s % num_train_worker
  <2>2. PICK j \in Trainer : j = k
    BY <2>1
  <2>3. Reached(k)' = Reached(j)' /\ Reached(k) = Reached(j)
    BY <1>1, <2>2
  <2> QED BY <1>1, <2>1, <2>3
<1> QED BY <1>1, <1>2 DEF Taken

LEMMA StepConf ==
    ASSUME conf' = conf, NEW j \in Trainer, StepOK(j),
           step'[j] = step[j], pc'[T(j)] \in {"sync", "end"} => step[j] >= NumStep
    PROVE  StepOK(j)'
BY EngineConf DEF StepOK

LEMMA StepsQuiet ==
    ASSUME EngineInv, StepsInv, conf' = conf, step' = step, \A j \in Trainer : pc'[T(j)] = pc[T(j)]
    PROVE  StepsInv' /\ Taken' = Taken
<1>1. ASSUME NEW j \in Trainer PROVE StepOK(j)' /\ Reached(j)' = Reached(j)
  <2>1. StepOK(j)
    BY DEF StepsInv
  <2> QED BY <2>1, StepConf, EngineConf DEF Reached, StepOK
<1>2. StepsInv'
  BY <1>1, ConfSame DEF StepsInv
<1>3. conf \in Configurations
  BY DEF EngineInv, EngineDomains
<1> QED BY <1>1, <1>2, <1>3, TakenSame

(* A trainer goes on in its loop, but not past a batch of its own. *)
LEMMA StepsGoto ==
    ASSUME EngineInv, StepsInv, NEW j \in Trainer, NEW from, NEW to, Goto(T(j), from, to),
           conf' = conf, step' = step,
           \/ "backward" \notin {from, to} /\ to \notin {"sync", "end"}
           \/ step[j] >= NumStep
    PROVE  StepsInv' /\ Taken' = Taken
<1>0. /\ conf \in Configurations /\ T(j) \in Proc /\ DOMAIN pc = Proc
      /\ NumStep \in Nat /\ num_train_worker \in Nat \ {0} /\ step[j] \in Nat
  BY EngineFacts, StepNumbers DEF EngineInv, EngineDomains
<1>1. /\ pc[T(j)] = from /\ pc'[T(j)] = to
      /\ \A k \in Trainer : k # j => pc'[T(k)] = pc[T(k)]
  BY <1>0, ProcKinds DEF Goto
<1>2. ASSUME NEW k \in Trainer PROVE StepOK(k)'
  <2>1. StepOK(k)
    BY DEF StepsInv
  <2>2. pc'[T(k)] \in {"sync", "end"} => step[k] >= NumStep
    BY <1>1, <2>1 DEF StepOK
  <2> QED BY <2>1, <2>2, StepConf
<1>3. ASSUME NEW k \in Trainer, k # j PROVE Reached(k)' = Reached(k)
  BY <1>1, <1>3, EngineConf DEF Reached
<1>4. \/ Reached(j)' = Reached(j)
      \/ /\ Reached(j) \in Nat /\ Reached(j) >= NumStep
         /\ Reached(j)' \in Nat /\ Reached(j)' >= NumStep
  <2>1. Reached(j) = IF from = "backward" THEN step[j] + num_train_worker ELSE step[j]
    BY <1>1 DEF Reached
  <2>2. Reached(j)' = IF to = "backward" THEN step[j] + num_train_worker ELSE step[j]
    BY <1>1, EngineConf DEF Reached
  <2> QED BY <1>0, <2>1, <2>2
<1> QED BY <1>0, <1>2, <1>3, <1>4, ConfSame, TakenSame DEF StepsInv

LEMMA StepsTrainer ==
    ASSUME EngineInv, StepsInv, NEW j \in Trainer,
           TrainerStep(j) \/ ExtractStep(j) \/ ReportThreadFinish(j), ~GetNextBatch(j)
    PROVE  StepsInv' /\ Taken' = Taken
<1>1. CASE TrainInit(j)
  BY <1>1, StepsGoto DEF TrainInit, trainerVars
<1>2. CASE ExtractStart(j)
  BY <1>2, StepsGoto DEF ExtractStart, trainerVars
<1>3. CASE NextStep(j)
  BY <1>3, StepsGoto DEF NextStep, trainerVars
<1>4. CASE PadStep(j)
  BY <1>4, StepsGoto DEF PadStep, trainerVars
<1>5. CASE EndSteps(j)
  <2>0. /\ AlignUpStep >= NumStep /\ AlignUpStep \in Int /\ NumStep \in Nat
        /\ step[j] \in Nat
    BY EngineFacts, StepNumbers
  <2>1. step[j] >= NumStep
    BY <1>5, <2>0 DEF EndSteps
  <2> QED BY <1>5, <2>1, StepsGoto DEF EndSteps, trainerVars
<1>6. CASE PadStepUnbound(j) \/ BarrierTimeout(T(j)) \/ Shutdown(T(j)) \/ ReportThreadFinish(j)
  BY <1>6, StepsQuiet DEF PadStepUnbound, BarrierTimeout, Shutdown, ReportThreadFinish, Fail,
     procVars, trainerVars
<1>7. CASE ExtractStep(j)
  BY <1>7, StepsQuiet DEF ExtractStep, ExtractFull, ExtractRecv, ExtractSubmit, ExtractGoto,
     procVars, trainerVars
<1> QED BY <1>1, <1>2, <1>3, <1>4, <1>5, <1>6, <1>7 DEF TrainerStep

LEMMA StepsSampler ==
    ASSUME EngineInv, StepsInv, NEW i \in Sampler, SamplerStep(i)
    PROVE  StepsInv' /\ Taken' = Taken
<1>p. DOMAIN pc = Proc
  BY DEF EngineInv, EngineDomains
<1>1. conf' = conf /\ step' = step
  BY DEF SamplerStep, SampleInit, SampleInitFatal, SampleCacheTableInit, SampleOnce, Send,
         Sampled, Report, ReportUnbound, BarrierTimeout, Shutdown, trainerVars
<1>2. pc' = pc \/ \E to : pc' = [pc EXCEPT ![S(i)] = to]
  BY DEF SamplerStep, SampleInit, SampleInitFatal, SampleCacheTableInit, SampleOnce, Send,
         Sampled, Report, ReportUnbound, BarrierTimeout, Shutdown, Goto, Fail
<1>3. \A j \in Trainer : pc'[T(j)] = pc[T(j)]
  BY <1>p, <1>2, ProcKinds
<1> QED BY <1>1, <1>3, StepsQuiet

LEMMA StepsBackward ==
    ASSUME EngineInv, StepsInv, Backward
    PROVE  StepsInv' /\ Taken' = Taken
<1>0. /\ conf' = conf /\ conf \in Configurations /\ num_train_worker \in Nat \ {0}
      /\ num_train_worker' = num_train_worker
  BY StepNumbers, EngineConf DEF Backward, EngineInv, EngineDomains
<1>1. ASSUME NEW j \in Trainer PROVE StepOK(j)' /\ Reached(j)' = Reached(j)
  <2>1. pc[T(j)] = "backward" /\ pc'[T(j)] = "next" /\ step'[j] = step[j] + num_train_worker
    BY ProcKinds DEF Backward, TrainersAt, TrainersGoto
  <2>2. step[j] \in Nat /\ step[j] % num_train_worker = j
    BY DEF StepsInv, StepOK
  <2>3. step'[j] \in Nat /\ step'[j] % num_train_worker = j
    <3>1. (step[j] + num_train_worker) % num_train_worker = step[j] % num_train_worker
      BY <1>0, <2>2, NextRound
    <3>2. step[j] + num_train_worker \in Nat
      BY <1>0, <2>2
    <3> QED BY <2>1, <2>2, <3>1, <3>2
  <2> QED BY <1>0, <2>1, <2>3 DEF StepOK, Reached
<1> QED BY <1>0, <1>1, ConfSame, TakenSame DEF StepsInv

LEMMA StepsTrainBarrier ==
    ASSUME EngineInv, StepsInv,
           TrainBarrier("sync", "end") \/ TrainBarrier("last_sync", "run_end")
    PROVE  StepsInv' /\ Taken' = Taken
<1>0. conf' = conf /\ step' = step /\ conf \in Configurations
  BY DEF TrainBarrier, trainerVars, EngineInv, EngineDomains
<1>1. ASSUME NEW j \in Trainer PROVE StepOK(j)' /\ Reached(j)' = Reached(j)
  <2>1. \/ pc[T(j)] = "sync" /\ pc'[T(j)] = "end"
        \/ pc[T(j)] = "last_sync" /\ pc'[T(j)] = "run_end"
    BY ProcKinds DEF TrainBarrier, TrainersAt, TrainersGoto
  <2>2. StepOK(j)
    BY DEF StepsInv
  <2>3. StepOK(j)'
    BY <1>0, <2>1, <2>2, StepConf DEF StepOK
  <2> QED BY <1>0, <2>1, <2>3, EngineConf DEF Reached
<1> QED BY <1>0, <1>1, ConfSame, TakenSame DEF StepsInv

(* The barrier of all sets the steps back at most. *)
LEMMA StepsGlobalBarrier ==
    ASSUME EngineInv, StepsInv, Lockstep, GlobalBarrier
    PROVE  StepsInv'
<1>0. PICK phase \in Phases : InPhase(phase)
  BY DEF Lockstep
<1>1. /\ conf' = conf /\ num_train_worker' = num_train_worker /\ num_train_worker \in Nat \ {0}
      /\ Trainer = 0 .. num_train_worker - 1
  BY LockFacts, StepNumbers, EngineConf DEF GlobalBarrier
<1>2. ASSUME NEW j \in Trainer PROVE StepOK(j)'
  <2>1. /\ pc[T(j)] \in GlobalWaits /\ pc[T(j)] \in TrainerAt(phase)
        /\ pc'[T(j)] = AfterBarrier(T(j)) /\ T(j)[1] = "trainer"
        /\ step'[j] = IF pc[T(j)] = "start" THEN j ELSE step[j]
    BY <1>0, ProcKinds DEF GlobalBarrier, InPhase
  <2>2. pc[T(j)] # "sampled"
    BY <2>1 DEF TrainerAt, Phases, BeforeLastEnd
  <2>3. pc'[T(j)] \notin {"sync", "end"}
    BY <2>1, <2>2 DEF AfterBarrier, EpochStart, GlobalWaits
  <2>4. step[j] \in Nat /\ step[j] % num_train_worker = j
    BY DEF StepsInv, StepOK
  <2>5. j \in Nat /\ j % num_train_worker = j
    BY <1>1, FirstRound
  <2> QED BY <1>1, <2>1, <2>3, <2>4, <2>5 DEF StepOK
<1> QED BY <1>1, <1>2, ConfSame DEF StepsInv

(* A batch that a trainer takes is one step of the epoch more. *)
LEMMA StepsGet ==
    ASSUME EngineInv, StepsInv, NEW j \in Trainer, GetNextBatch(j)
    PROVE  /\ StepsInv'
           /\ Taken' = Taken \cup {step[j]} /\ step[j] \notin Taken
<1>0. /\ conf \in Configurations /\ T(j) \in Proc /\ DOMAIN pc = Proc
      /\ NumStep \in Nat /\ num_train_worker \in Nat \ {0} /\ step[j] \in Nat
      /\ step[j] % num_train_worker = j
      /\ pc[T(j)] = "get" => step[j] < NumStep
  BY EngineFacts, StepNumbers DEF EngineInv, EngineDomains, StepsInv, StepOK, StepRight
<1>1. /\ pc[T(j)] = "get" /\ pc'[T(j)] = "backward"
      /\ \A k \in Trainer : k # j => pc'[T(k)] = pc[T(k)]
      /\ conf' = conf /\ step' = step
  BY <1>0, ProcKinds DEF GetNextBatch, Goto
<1>2. ASSUME NEW k \in Trainer PROVE StepOK(k)'
  <2>1. StepOK(k)
    BY DEF StepsInv
  <2>2. pc'[T(k)] \in {"sync", "end"} => step[k] >= NumStep
    BY <1>1, <2>1 DEF StepOK
  <2> QED BY <1>1, <2>1, <2>2, StepConf
<1>3. /\ Reached(j) = step[j] /\ Reached(j)' = step[j] + num_train_worker
      /\ \A k \in Trainer : k # j => Reached(k)' = Reached(k)
  BY <1>1, EngineConf DEF Reached
<1>4. ASSUME NEW s \in 0 .. NumStep - 1
      PROVE  s < Reached(s % num_train_worker)'
                <=> s < Reached(s % num_train_worker) \/ s = step[j]
  <2>1. s \in Nat /\ s % num_train_worker \in Trainer
    BY <1>0, OwnerOfStep
  <2> DEFINE k == s % num_train_worker
  <2>2. PICK l \in Trainer : l = k
    BY <2>1
  <2>3. k' = l
    BY <1>1, <2>2, EngineConf
  <2>4. Reached(k)' = Reached(l)' /\ Reached(k) = Reached(l)
    BY <2>2, <2>3
  <2>5. CASE l # j
    <3>1. s # step[j]
      BY <1>0, <2>2, <2>5
    <3> QED BY <1>3, <2>4, <2>5, <3>1
  <2>6. CASE l = j
    <3>1. s % num_train_worker = step[j] % num_train_worker
      BY <1>0, <2>2, <2>6
    <3>2. step[j] <= s /\ s < step[j] + num_train_worker => s = step[j]
      BY <1>0, <2>1, <3>1, SameRound
    <3>3. Reached(k)' = step[j] + num_train_worker /\ Reached(k) = step[j]
      BY <1>3, <2>4, <2>6
    <3>4. s < step[j] + num_train_worker <=> s < step[j] \/ s = step[j]
      BY <1>0, <2>1, <3>2
    <3> QED BY <3>3, <3>4
  <2> QED BY <2>5, <2>6
<1>5. step[j] \in 0 .. NumStep - 1
  BY <1>0, <1>1
<1>6. Taken' = Taken \cup {step[j]}
  BY <1>1, <1>4, <1>5, EngineConf DEF Taken
<1>7. step[j] \notin Taken
  BY <1>0, <1>3 DEF Taken
<1> QED BY <1>1, <1>2, <1>6, <1>7, ConfSame DEF StepsInv

LEMMA StepsNext ==
    ASSUME EngineInv, StepsInv, Lockstep, [Next]_vars
    PROVE  /\ StepsInv'
           /\ \/ Taken' = Taken
              \/ GlobalBarrier
              \/ \E j \in Trainer : GetNextBatch(j)
<1>0. DOMAIN pc = Proc
  BY DEF EngineInv, EngineDomains
<1>1. ASSUME UNCHANGED vars PROVE StepsInv' /\ Taken' = Taken
  BY <1>1, StepsQuiet DEF vars, procVars, trainerVars
<1>2. ASSUME ParentStep PROVE StepsInv' /\ Taken' = Taken
  BY <1>2, StepsQuiet DEF ParentStep, WaitOneChild, KillAll, Join, procVars, trainerVars
<1>3. ASSUME NEW p \in Proc, Crash(p) PROVE StepsInv' /\ Taken' = Taken
  BY <1>3, StepsQuiet DEF Crash, trainerVars
<1>4. ASSUME SamplerBarrier PROVE StepsInv' /\ Taken' = Taken
  <2>1. \A j \in Trainer : pc'[T(j)] = pc[T(j)]
    BY <1>0, <1>4, ProcKinds DEF SamplerBarrier
  <2> QED BY <1>4, <2>1, StepsQuiet DEF SamplerBarrier, trainerVars
<1>5. ASSUME Together, ~GlobalBarrier PROVE StepsInv' /\ Taken' = Taken
  BY <1>4, <1>5, StepsBackward, StepsTrainBarrier DEF Together
<1> QED BY <1>1, <1>2, <1>3, <1>5, StepsSampler, StepsTrainer, StepsGet, StepsGlobalBarrier DEF Next

------------------------------------------------------------------------------
(***************************************************************************)
(* The end of an epoch.  While the trainers work there are as many batches *)
(* done as steps taken; when they meet at the end that is the whole epoch, *)
(* and because the keys differ nothing is left over for the next.          *)
(***************************************************************************)
Complete(e) ==
    /\ {f.message.key : f \in Done(e)} = e * NumStep .. (e + 1) * NumStep - 1
    /\ Cardinality(Done(e)) = NumStep

DoneInv ==
    /\ AtWork => IsFiniteSet(Done(Now)) /\ Cardinality(Done(Now)) = Cardinality(Taken)
    /\ ~AtWork => Done(Now) = {}
    /\ \A e \in 0 .. Now - 1 : Complete(e)

RunInv ==
    /\ EngineInv /\ Lockstep /\ SamplersInv /\ OnePlace /\ MessagesInv /\ StepsInv /\ DoneInv

LEMMA CompleteConf ==
    ASSUME conf' = conf, NEW e, Done(e)' = Done(e), Complete(e)
    PROVE  Complete(e)'
BY SplitConf DEF Complete

LEMMA RunInit == Init => RunInv
<1> SUFFICES ASSUME Init PROVE RunInv
  OBVIOUS
<1>1. EngineInv /\ Lockstep /\ SamplersInv /\ OnePlace /\ MessagesInv
  BY EngineInit, LockInit, SamplersInit, PlaceInit, MessagesInit
<1>2. /\ conf \in Configurations /\ NumStep \in Nat /\ num_train_worker \in Nat \ {0}
      /\ Trainer = 0 .. num_train_worker - 1 /\ 0 \in Trainer
  BY <1>1, LockFacts, StepNumbers
<1>3. \A j \in Trainer : step[j] = j /\ pc[T(j)] = "ready"
  BY ProcKinds DEF Init
<1>4. StepsInv
  BY <1>2, <1>3, FirstRound DEF StepsInv, StepOK
<1>5. ~AtWork
  BY <1>2, <1>3 DEF AtWork, TrainerAt
<1>6. Now = 0
  BY <1>2, ProcKinds DEF Init, Now
<1>7. Done(Now) = {}
  BY DEF Init, Done
<1> QED BY <1>1, <1>4, <1>5, <1>6, <1>7 DEF RunInv, DoneInv

(* When the trainers have taken as many mini-batches as the epoch has, they *)
(* have taken every one of them, and none waits anywhere.                   *)
LEMMA AllTaken ==
    ASSUME Lockstep, OnePlace, MessagesInv,
           IsFiniteSet(Done(Now)), Cardinality(Done(Now)) = NumStep
    PROVE  /\ Complete(Now)
           /\ channel = {} /\ \A j \in Trainer : Own(j) = {}
<1> DEFINE N == NumStep
           R == Now * N .. (Now + 1) * N - 1
           D == Done(Now)
           key == [f \in D |-> f.message.key]
<1>0. conf \in Configurations /\ Now \in Nat /\ N \in Nat
  BY LockFacts, StepNumbers
<1>1. IsFiniteSet(R) /\ Cardinality(R) = N
  <2> HIDE DEF N
  <2>1. Now * N \in Nat /\ (Now + 1) * N = Now * N + N
    BY <1>0
  <2> DEFINE a == Now * N
  <2>2. a \in Nat /\ R = a .. a + N - 1
    <3>1. a \in Nat /\ (Now + 1) * N - 1 = a + N - 1
      BY <1>0, <2>1
    <3>2. R = a .. (Now + 1) * N - 1
      OBVIOUS
    <3> QED BY <3>1, <3>2, Zenon
  <2> HIDE DEF a, R
  <2>3. /\ IsFiniteSet(a .. a + N - 1)
        /\ Cardinality(a .. a + N - 1) = IF a > a + N - 1 THEN 0 ELSE (a + N - 1) - a + 1
    BY <1>0, <2>2, FS_Interval
  <2>4. Cardinality(a .. a + N - 1) = N
    BY <1>0, <2>2, <2>3
  <2> QED BY <2>2, <2>3, <2>4
<1>2. \A f \in D : f.message \in received /\ Genuine(f.message) /\ f.message.epoch = Now
  BY DEF Done, MessagesInv, OnePlace, Got
<1>3. \A m : Genuine(m) /\ m.epoch = Now => m.key \in R
  BY <1>0, GenuineFacts
<1> HIDE DEF R, N
<1>4. key \in [D -> R]
  BY <1>2, <1>3
<1>5. ASSUME NEW f \in D, NEW g \in D, key[f] = key[g] PROVE f = g
  <2>1. f.message = g.message
    BY <1>0, <1>2, <1>5, GenuineUnique
  <2> QED BY <2>1 DEF Done, OnePlace
<1>6. key \in Injection(D, R)
  BY <1>4, <1>5 DEF Injection, IsInjective
<1>7. key \in Surjection(D, R)
  BY <1>1, <1>6, FS_Injection DEF N
<1>8. \A k \in R : \E f \in D : f.message.key = k
  BY <1>7 DEF Surjection
<1>9. {f.message.key : f \in D} = R
  BY <1>2, <1>3, <1>8
<1>10. ASSUME NEW m, Genuine(m), m.epoch = Now PROVE m \in Got
  <2>1. PICK f \in D : f.message.key = m.key
    BY <1>3, <1>8, <1>10
  <2>2. f.message = m
    BY <1>0, <1>2, <1>10, <2>1, GenuineUnique
  <2> QED BY <2>2 DEF Got, Done
<1>11. channel = {}
  <2>1. ASSUME NEW m \in channel PROVE FALSE
    <3>1. m \in Got
      BY <1>10 DEF MessagesInv
    <3> QED BY <3>1 DEF OnePlace
  <2> QED BY <2>1
<1>12. ASSUME NEW j \in Trainer PROVE Own(j) = {}
  <2>1. ASSUME NEW m \in Own(j) PROVE FALSE
    <3>1. m \in received /\ m.epoch = Now
      BY DEF OnePlace, MessagesInv
    <3>2. m \in Got
      BY <1>10, <3>1 DEF MessagesInv
    <3> QED BY <3>2 DEF OnePlace
  <2> QED BY <2>1
<1>13. Complete(Now)
  BY <1>9 DEF Complete, N, R
<1> QED BY <1>11, <1>12, <1>13

(* Within a phase what is done grows with the steps taken. *)
LEMMA DoneGrows ==
    ASSUME RunInv, [Next]_vars, ~GlobalBarrier
    PROVE  DoneInv'
<1>0. /\ SamePhase /\ conf' = conf /\ Now' = Now /\ (AtWork' <=> AtWork) /\ Now \in Nat
      /\ conf \in Configurations
  BY LockNext, LockFacts DEF RunInv, SamePhase
<1>1. CASE fetched' = fetched /\ Taken' = Taken
  <2>1. \A e : Done(e)' = Done(e)
    BY <1>1 DEF Done
  <2>2. Done(Now)' = Done(Now)
    BY <1>0, <1>1 DEF Done
  <2>3. \A e \in 0 .. Now - 1 : Complete(e)'
    BY <1>0, <2>1, CompleteConf DEF RunInv, DoneInv
  <2> QED BY <1>0, <1>1, <2>2, <2>3 DEF RunInv, DoneInv
<1>2. ASSUME NEW j \in Trainer, GetNextBatch(j) PROVE DoneInv'
  <2> DEFINE f == [by |-> j, epoch |-> epoch[T(j)], message |-> Head(pool[j])]
  <2>1. fetched' = fetched \cup {f} /\ f.epoch = Now /\ f.message = Head(pool[j])
    BY <1>2, LockFacts DEF GetNextBatch, RunInv
  <2>2. f \notin fetched
    BY <1>2, <2>1, PlacesGet DEF Got, RunInv
  <2>3. Taken' = Taken \cup {step[j]} /\ step[j] \notin Taken
    BY <1>2, StepsGet DEF RunInv
  <2>4. AtWork
    <3>1. PICK phase \in Phases : InPhase(phase)
      BY DEF RunInv, Lockstep
    <3>2. pc[T(j)] = "get" /\ pc[T(j)] \in TrainerAt(phase)
      BY <1>2, <3>1 DEF GetNextBatch, Goto, InPhase
    <3>3. phase = "working"
      BY <3>2 DEF TrainerAt, Phases, BeforeLastEnd
    <3> QED BY <3>1, <3>3, WorkPhase DEF RunInv
  <2> HIDE DEF f
  <2>5. Done(Now)' = Done(Now) \cup {f} /\ f \notin Done(Now)
    BY <1>0, <2>1, <2>2 DEF Done
  <2>6. ASSUME NEW e \in 0 .. Now - 1 PROVE Complete(e)'
    <3>1. e # Now
      BY <1>0
    <3>2. Done(e)' = Done(e)
      BY <2>1, <3>1 DEF Done
    <3> QED BY <1>0, <3>2, CompleteConf DEF RunInv, DoneInv
  <2>7. IsFiniteSet(Done(Now)) /\ Cardinality(Done(Now)) = Cardinality(Taken) /\ IsFiniteSet(Taken)
    BY <1>0, <2>4, TakenFinite DEF RunInv, DoneInv
  <2>8. IsFiniteSet(Done(Now)') /\ Cardinality(Done(Now)') = Cardinality(Done(Now)) + 1
    BY <2>5, <2>7, FS_AddElement
  <2>9. Cardinality(Taken') = Cardinality(Taken) + 1
    BY <2>3, <2>7, FS_AddElement
  <2> QED BY <1>0, <2>4, <2>6, <2>7, <2>8, <2>9 DEF DoneInv
<1>3. ASSUME ~ \E j \in Trainer : GetNextBatch(j) PROVE fetched' = fetched /\ Taken' = Taken
  <2>1. Taken' = Taken
    BY <1>3, StepsNext DEF RunInv
  <2>2. fetched' = fetched
    <3>1. ~ \E i \in Sampler : Send(i) /\ fetched' # fetched
      BY DEF Send, trainerVars
    <3>2. ~ \E j \in Trainer : (ExtractRecv(j) \/ ExtractSubmit(j)) /\ fetched' # fetched
      BY DEF ExtractRecv, ExtractSubmit, trainerVars
    <3> QED BY <1>3, <3>1, <3>2, MoveKinds DEF RunInv
  <2> QED BY <2>1, <2>2
<1> QED BY <1>1, <1>2, <1>3

(* The barrier at the end of an epoch closes it; the one at the start      *)
(* begins the next with nothing taken.                                     *)
LEMMA DoneBarrier ==
    ASSUME RunInv, GlobalBarrier
    PROVE  DoneInv' /\ MessagesInv'
<1>0. PICK phase \in Phases : InPhase(phase)
  BY DEF RunInv, Lockstep
<1>1. /\ conf' = conf /\ conf \in Configurations /\ Now \in Nat /\ Now' = NowAfter(phase)
      /\ fetched' = fetched /\ UNCHANGED <<extract, pool, channel, received>>
      /\ Lockstep' /\ phase # "stopping"
      /\ 0 \in Trainer
  BY <1>0, LockFacts, LockBarrier DEF GlobalBarrier, engineVars, queueVars, RunInv
<1>2. PICK after \in Phases : after = PhaseAfter(phase) /\ InPhase(after)'
  BY <1>0, <1>1, LockBarrier DEF RunInv
<1>3. AtWork <=> phase = "working"
  BY <1>0, WorkPhase DEF RunInv
<1>4. AtWork' <=> after = "working"
  BY <1>1, <1>2, ConfSame, LockConf DEF InPhase, AtWork, TrainerAt, Phases, BeforeLastEnd
<1>5. after = "working" <=> phase = "opening"
  BY <1>2, <1>1 DEF PhaseAfter, Phases, BeforeLastEnd
<1>6. \A e : Done(e)' = Done(e)
  BY <1>1 DEF Done
<1>7. \A m : Genuine(m)' <=> Genuine(m)
  BY <1>1, GenuineConf
<1>8. \A j \in Trainer : Own(j)' = Own(j)
  BY <1>1 DEF Own, Hand
<1>9. CASE phase = "working"
  <2>1. /\ \A j \in Trainer : pc[T(j)] = "end"
        /\ Now' = Now + 1 /\ ~AtWork'
    BY <1>0, <1>1, <1>4, <1>5, <1>9, LockBarrier DEF NowAfter, RunInv
  <2>2. NumStep \in Nat /\ num_train_worker \in Nat \ {0}
    BY <1>1, StepNumbers
  <2>3. Taken = 0 .. NumStep - 1
    <3>1. ASSUME NEW s \in 0 .. NumStep - 1 PROVE s < Reached(s % num_train_worker)
      <4>1. s \in Nat /\ s % num_train_worker \in Trainer
        BY <1>1, OwnerOfStep
      <4>2. PICK j \in Trainer : j = s % num_train_worker
        BY <4>1
      <4>3. step[j] \in Nat /\ step[j] >= NumStep /\ pc[T(j)] = "end"
        BY <2>1 DEF RunInv, StepsInv, StepOK
      <4>4. Reached(j) = step[j]
        BY <4>3 DEF Reached
      <4>5. s < Reached(j)
        BY <2>2, <4>1, <4>3, <4>4
      <4> QED BY <4>2, <4>5
    <3> QED BY <3>1 DEF Taken
  <2>4. Cardinality(Taken) = NumStep
    <3>1. Cardinality(0 .. NumStep - 1) = IF 0 > NumStep - 1 THEN 0 ELSE (NumStep - 1) - 0 + 1
      BY <2>2, FS_Interval
    <3> QED BY <2>2, <2>3, <3>1
  <2>5. IsFiniteSet(Done(Now)) /\ Cardinality(Done(Now)) = NumStep
    BY <1>3, <1>9, <2>4 DEF RunInv, DoneInv
  <2>6. Complete(Now) /\ channel = {} /\ \A j \in Trainer : Own(j) = {}
    BY <2>5, AllTaken DEF RunInv
  <2>7. ASSUME NEW e \in 0 .. Now PROVE Complete(e)'
    <3>1. Complete(e)
      <4>1. e = Now \/ e \in 0 .. Now - 1
        BY <1>1
      <4> QED BY <2>6, <4>1 DEF RunInv, DoneInv
    <3> QED BY <1>1, <1>6, <3>1, CompleteConf
  <2>8. \A f \in fetched : f.epoch \in 0 .. Now
    BY DEF RunInv, MessagesInv
  <2>9. Done(Now)' = {}
    <3>1. \A f \in fetched : f.epoch # Now + 1
      BY <1>1, <2>8
    <3> QED BY <1>1, <2>1, <3>1 DEF Done
  <2>10. DoneInv'
    <3>1. \A e \in 0 .. Now' - 1 : Complete(e)'
      BY <1>1, <2>1, <2>7
    <3> QED BY <2>1, <2>9, <3>1 DEF DoneInv
  <2>11. MessagesInv'
    <3>1. \A f \in fetched : f.epoch \in 0 .. Now'
      BY <1>1, <2>1, <2>8
    <3> QED BY <1>1, <1>7, <1>8, <2>6, <3>1, ConfSame DEF MessagesInv, RunInv
  <2> QED BY <2>10, <2>11
<1>10. CASE phase # "working"
  <2>1. Now' = Now /\ ~AtWork
    BY <1>1, <1>3, <1>10 DEF NowAfter
  <2>2. Done(Now) = {} /\ Done(Now)' = {}
    BY <1>1, <2>1 DEF RunInv, DoneInv, Done
  <2>3. \A e \in 0 .. Now - 1 : Complete(e)'
    BY <1>1, <1>6, CompleteConf DEF RunInv, DoneInv
  <2>4. MessagesInv'
    BY <1>1, <1>7, <1>8, <2>1, ConfSame DEF MessagesInv, RunInv
  <2>5. AtWork' => Taken' = {}
    <3> SUFFICES ASSUME AtWork' PROVE Taken' = {}
      OBVIOUS
    <3>1. phase = "opening"
      BY <1>4, <1>5
    <3>2. ASSUME NEW j \in Trainer PROVE pc[T(j)] = "start" /\ step'[j] = j /\ pc'[T(j)] = "extract"
      <4>1. pc[T(j)] = "start" /\ T(j)[1] = "trainer"
        BY <1>0, <3>1, ProcKinds DEF InPhase, TrainerAt
      <4> QED BY <4>1, ProcKinds DEF GlobalBarrier, AfterBarrier
    <3>3. ASSUME NEW s \in 0 .. NumStep - 1 PROVE ~ (s < Reached(s % num_train_worker)')
      <4>1. s \in Nat /\ s % num_train_worker \in Trainer /\ s % num_train_worker <= s
        BY <1>1, OwnerOfStep
      <4>2. PICK j \in Trainer : j = s % num_train_worker
        BY <4>1
      <4>3. Reached(j)' = j
        BY <3>2 DEF Reached
      <4>4. num_train_worker' = num_train_worker
        BY <1>1, EngineConf
      <4>5. j \in Nat /\ j <= s
        BY <1>1, <4>1, <4>2, ConfType
      <4>6. (s % num_train_worker)' = j
        BY <4>2, <4>4
      <4>7. Reached(s % num_train_worker)' = j
        BY <4>3, <4>6
      <4> QED BY <4>1, <4>5, <4>7
    <3>4. NumStep' = NumStep /\ num_train_worker' = num_train_worker
      BY <1>1, EngineConf
    <3> QED BY <3>3, <3>4 DEF Taken
  <2>6. AtWork' => IsFiniteSet(Done(Now)') /\ Cardinality(Done(Now)') = Cardinality(Taken')
    BY <2>2, <2>5, FS_EmptySet
  <2>7. DoneInv'
    BY <2>1, <2>2, <2>3, <2>6 DEF DoneInv
  <2> QED BY <2>4, <2>7
<1> QED BY <1>9, <1>10

LEMMA RunNext == RunInv /\ [Next]_vars => RunInv'
<1> SUFFICES ASSUME RunInv, [Next]_vars PROVE RunInv'
  OBVIOUS
<1>1. EngineInv' /\ SamplersInv' /\ OnePlace' /\ StepsInv'
  BY EngineStep, SamplersNext, PlacesNext, StepsNext DEF RunInv
<1>2. CASE GlobalBarrier
  <2>1. Lockstep'
    BY <1>2, LockBarrier DEF RunInv, Lockstep
  <2> QED BY <1>1, <1>2, <2>1, DoneBarrier DEF RunInv
<1>3. CASE ~GlobalBarrier
  <2>1. SamePhase /\ Lockstep'
    BY <1>3, LockNext DEF RunInv, SamePhase
  <2> QED BY <1>1, <1>3, <2>1, DoneGrows, MessagesMove DEF RunInv
<1> QED BY <1>2, <1>3

(* Whatever the run, the sizes, the relative speed of the processes and    *)
(* the deaths among them: the trainers leave an epoch together when each   *)
(* of its mini-batches has been trained, in that epoch, by one trainer and *)
(* once.                                                                   *)
THEOREM EveryBatchOnce == Spec => []EpochComplete
<1>1. RunInv => EpochComplete
  <2> SUFFICES ASSUME RunInv, NEW j \in Trainer, NEW e \in 0 .. epoch[T(j)] - 1
               PROVE  /\ {f.message.key : f \in Done(e)} = e * NumStep .. (e + 1) * NumStep - 1
                      /\ Cardinality(Done(e)) = NumStep
    BY DEF EpochComplete, Done
  <2>1. epoch[T(j)] = Now
    BY LockFacts DEF RunInv
  <2> QED BY <2>1 DEF RunInv, DoneInv, Complete
<1> QED BY <1>1, RunInit, RunNext, PTL DEF Spec

------------------------------------------------------------------------------
(***************************************************************************)
(* What every variable may hold.  The bounds follow from RunInv and from   *)
(* these: a trainer that trains is within the steps of its epoch, and has  *)
(* started at most one thread for each epoch it has begun.                 *)
(***************************************************************************)
Positions == [epoch : 0 .. num_epoch, step : 0 .. NumStep, initialized : BOOLEAN]

ProcTypes ==
    /\ epoch \in [Proc -> Nat] /\ status \in [Proc -> Statuses]
    /\ ranking \in BOOLEAN
    /\ parent \in {"wait", "kill", "join", "join_failed", "exit 0", "exit 1"}
    /\ crashes \in 0 .. MaxCrashes

SamplerTypes ==
    /\ shuffler \in [Sampler -> Positions]
    /\ todo \in [Sampler -> Int]
    /\ task \in [Sampler -> -1 .. num_epoch * NumStep - 1]

TrainerTypes ==
    /\ step \in [Trainer -> 0 .. AlignUpStep + num_train_worker - 1]
    /\ \A j \in Trainer : pc[T(j)] = "backward" => step[j] < AlignUpStep
    /\ has_batch \in [Trainer -> BOOLEAN]
    /\ logged \in [Trainer -> SUBSET (0 .. num_epoch * AlignUpStep)]
    /\ fetched \subseteq [by : Trainer, epoch : 0 .. num_epoch - 1, message : Message]

Started(j) == Now + (IF AtWork /\ pc[T(j)] # "extract" THEN 1 ELSE 0)

ThreadOK(j) ==
    /\ threads[j] <= Started(j)
    /\ joined[j] \in 0 .. threads[j]
    /\ extract[j].left <= NumStep
    /\ extract[j].task \in Message \cup {NoMessage}

ThreadTypes == joined \in [Trainer -> Nat] /\ \A j \in Trainer : ThreadOK(j)

TypeInv == RunInv /\ ProcTypes /\ SamplerTypes /\ TrainerTypes /\ ThreadTypes

LEMMA TypesInit == Init => ProcTypes /\ SamplerTypes /\ TrainerTypes /\ ThreadTypes
<1> SUFFICES ASSUME Init PROVE ProcTypes /\ SamplerTypes /\ TrainerTypes /\ ThreadTypes
  OBVIOUS
<1>0. RunInv
  BY RunInit
<1>1. /\ conf \in Configurations /\ num_epoch \in Nat \ {0} /\ NumStep \in Nat
      /\ num_train_worker \in Nat \ {0} /\ Trainer = 0 .. num_train_worker - 1
      /\ AlignUpStep \in Int /\ AlignUpStep >= NumStep /\ 0 \in Trainer /\ MaxCrashes \in Nat
  BY <1>0, LockFacts, StepNumbers, RunAssumption DEF RunInv
<1>2. num_epoch * NumStep \in Nat /\ num_epoch * AlignUpStep \in Nat
  BY <1>1
<1>3. ProcTypes
  <2>1. 0 \in 0 .. MaxCrashes
    BY <1>1
  <2>2. /\ epoch = [p \in Proc |-> 0] /\ status = [p \in Proc |-> "running"] /\ ranking = FALSE
        /\ parent = "wait" /\ crashes = 0
    BY DEF Init
  <2>3. epoch \in [Proc -> Nat] /\ status \in [Proc -> Statuses]
    BY <2>2 DEF Statuses
  <2>4. ranking \in BOOLEAN
    BY <2>2, Zenon
  <2> QED BY <2>1, <2>2, <2>3, <2>4 DEF ProcTypes
<1>4. SamplerTypes
  <2>1. ASSUME NEW i \in Sampler
        PROVE  NewShuffler(i) \in Positions /\ LocalSteps(i) \in Int
    <3>1. /\ LocalSteps(i) \in Nat /\ StepOffset(i) \in Nat /\ ShufflerSteps(i) = LocalSteps(i)
          /\ StepOffset(i) + LocalSteps(i) <= NumStep
      BY <1>1, ShareFacts
    <3>2. ShufflerSteps(i) \in 0 .. NumStep /\ 0 \in 0 .. num_epoch
      BY <1>1, <3>1
    <3> QED BY <3>1, <3>2 DEF NewShuffler, Positions
  <2>2. -1 \in -1 .. num_epoch * NumStep - 1
    <3> DEFINE K == num_epoch * NumStep
    <3>1. K \in Nat
      BY <1>2
    <3> HIDE DEF K
    <3>2. -1 \in -1 .. K - 1
      BY <3>1
    <3> QED BY <3>2 DEF K
  <2> QED BY <2>1, <2>2 DEF Init, SamplerTypes
<1>5. TrainerTypes
  <2>1. \A j \in Trainer : j \in 0 .. AlignUpStep + num_train_worker - 1 /\ pc[T(j)] = "ready"
    BY <1>1, ProcKinds DEF Init
  <2> QED BY <2>1 DEF Init, TrainerTypes
<1>6. ThreadTypes
  <2>1. Now = 0 /\ ~AtWork
    BY <1>1, ProcKinds DEF Init, Now, AtWork, TrainerAt
  <2> QED BY <1>1, <2>1 DEF Init, ThreadTypes, ThreadOK, Started, Idle
<1> QED BY <1>3, <1>4, <1>5, <1>6

(* Numbers that every step keeps. *)
LEMMA TypesConf ==
    ASSUME conf' = conf
    PROVE  /\ num_epoch' = num_epoch /\ AlignUpStep' = AlignUpStep /\ Positions' = Positions
           /\ NumStep' = NumStep /\ num_train_worker' = num_train_worker
BY EngineConf, SplitConf, LockConf DEF AlignUpStep, Positions

LEMMA ProcTypesNext ==
    ASSUME RunInv, ProcTypes, [Next]_vars
    PROVE  ProcTypes'
<1>0. conf' = conf /\ Proc' = Proc /\ conf \in Configurations
  <2>1. conf' = conf
    <3>1. CASE GlobalBarrier
      BY <3>1 DEF GlobalBarrier
    <3>2. CASE ~GlobalBarrier
      BY <3>2, LockNext DEF SamePhase, RunInv
    <3> QED BY <3>1, <3>2
  <2> QED BY <2>1, LockFacts, ConfSame DEF RunInv
<1>1. epoch' \in [Proc -> Nat]
  <2>1. CASE GlobalBarrier
    <3>1. epoch' = [p \in Proc |-> IF pc[p] = "end" THEN epoch[p] + 1 ELSE epoch[p]]
      BY <2>1 DEF GlobalBarrier
    <3>2. \A p \in Proc : epoch[p] \in Nat
      BY DEF ProcTypes
    <3> QED BY <3>1, <3>2
  <2>2. CASE ~GlobalBarrier
    BY <2>2, LockNext DEF SamePhase, RunInv, ProcTypes
  <2> QED BY <2>1, <2>2
<1>2. status' \in [Proc -> Statuses]
  <2> DEFINE Ends == \E p \in Proc : \E s \in Statuses : status' = [status EXCEPT ![p] = s]
  <2>1. ASSUME NEW i \in Sampler, SamplerStep(i) PROVE status' = status \/ Ends
    <3>1. S(i) \in Proc /\ "failed" \in Statuses /\ "exited" \in Statuses
      BY ProcKinds DEF Statuses
    <3> QED BY <2>1, <3>1 DEF SamplerStep, SampleInit, SampleInitFatal, SampleCacheTableInit,
         SampleOnce, Send, Sampled, Report, ReportUnbound, BarrierTimeout, Shutdown, Goto, Fail
  <2>2. ASSUME NEW j \in Trainer, TrainerStep(j) \/ ExtractStep(j) \/ ReportThreadFinish(j)
        PROVE  status' = status \/ Ends
    <3>1. T(j) \in Proc /\ "failed" \in Statuses /\ "exited" \in Statuses
      BY ProcKinds DEF Statuses
    <3> QED BY <2>2, <3>1 DEF TrainerStep, TrainInit, ExtractStart, NextStep, GetNextBatch,
         PadStep, PadStepUnbound, EndSteps, BarrierTimeout, Shutdown, ExtractStep, ExtractFull,
         ExtractRecv, ExtractSubmit, ExtractGoto, ReportThreadFinish, Goto, Fail, procVars
  <2>3. ASSUME NEW p \in Proc, Crash(p) PROVE Ends
    <3>1. conf.crash_kinds \subseteq Statuses
      BY <1>0, RunAssumption DEF Statuses
    <3> QED BY <2>3, <3>1 DEF Crash
  <2>4. Ends => status' \in [Proc -> Statuses]
    BY DEF ProcTypes
  <2> HIDE DEF Ends
  <2>5. CASE ParentStep
    BY <2>5 DEF ParentStep, WaitOneChild, KillAll, Join, procVars, ProcTypes, Statuses
  <2>6. CASE Together
    BY <2>6 DEF Together, SamplerBarrier, GlobalBarrier, Backward, TrainBarrier, ProcTypes
  <2>7. CASE UNCHANGED vars
    BY <2>7 DEF vars, procVars, ProcTypes
  <2>8. status' = status => status' \in [Proc -> Statuses]
    BY DEF ProcTypes
  <2> QED BY <2>1, <2>2, <2>3, <2>4, <2>5, <2>6, <2>7, <2>8 DEF Next
<1>3. ranking' \in BOOLEAN
  <2>1. CASE \E i \in Sampler : SamplerStep(i)
    BY <2>1 DEF SamplerStep, SampleInit, SampleInitFatal, SampleCacheTableInit, SampleOnce, Send,
       Sampled, Report, ReportUnbound, BarrierTimeout, Shutdown, ProcTypes
  <2>2. CASE \E j \in Trainer : TrainerStep(j) \/ ExtractStep(j) \/ ReportThreadFinish(j)
    BY <2>2 DEF TrainerStep, TrainInit, ExtractStart, NextStep, GetNextBatch, PadStep,
       PadStepUnbound, EndSteps, BarrierTimeout, Shutdown, ExtractStep, ExtractFull, ExtractRecv,
       ExtractSubmit, ExtractGoto, ReportThreadFinish, ProcTypes
  <2>3. CASE Together \/ ParentStep \/ (\E p \in Proc : Crash(p)) \/ UNCHANGED vars
    BY <2>3 DEF Together, SamplerBarrier, GlobalBarrier, Backward, TrainBarrier, ParentStep,
       WaitOneChild, KillAll, Join, Crash, vars, ProcTypes
  <2> QED BY <2>1, <2>2, <2>3 DEF Next
<1>4. /\ parent' \in {"wait", "kill", "join", "join_failed", "exit 0", "exit 1"}
      /\ crashes' \in 0 .. MaxCrashes
  <2>0. MaxCrashes \in Nat
    BY RunAssumption
  <2>1. CASE \E i \in Sampler : SamplerStep(i)
    BY <2>1 DEF SamplerStep, SampleInit, SampleInitFatal, SampleCacheTableInit, SampleOnce, Send,
       Sampled, Report, ReportUnbound, BarrierTimeout, Shutdown, ProcTypes, parentVars
  <2>2. CASE \E j \in Trainer : TrainerStep(j) \/ ExtractStep(j) \/ ReportThreadFinish(j)
    BY <2>2 DEF TrainerStep, TrainInit, ExtractStart, NextStep, GetNextBatch, PadStep,
       PadStepUnbound, EndSteps, BarrierTimeout, Shutdown, ExtractStep, ExtractFull, ExtractRecv,
       ExtractSubmit, ExtractGoto, ReportThreadFinish, ProcTypes, parentVars
  <2>3. CASE Together \/ UNCHANGED vars
    BY <2>3 DEF Together, SamplerBarrier, GlobalBarrier, Backward, TrainBarrier, vars, ProcTypes,
       parentVars
  <2>4. CASE ParentStep
    BY <2>4 DEF ParentStep, WaitOneChild, KillAll, Join, ProcTypes
  <2>5. CASE \E p \in Proc : Crash(p)
    <3>1. parent' = parent /\ crashes' = crashes + 1 /\ crashes < MaxCrashes
      BY <2>5 DEF Crash
    <3>2. crashes \in 0 .. MaxCrashes /\ parent' = parent
      BY <3>1 DEF ProcTypes
    <3>3. crashes' \in 0 .. MaxCrashes
      BY <2>0, <3>1, <3>2
    <3> QED BY <3>2, <3>3 DEF ProcTypes
  <2> QED BY <2>1, <2>2, <2>3, <2>4, <2>5 DEF Next
<1> QED BY <1>0, <1>1, <1>2, <1>3, <1>4 DEF ProcTypes

(* The keys of the epochs of the run. *)
LEMMA KeyInRun ==
    ASSUME conf \in Configurations, NEW i \in Sampler, NEW e \in 0 .. num_epoch - 1,
           NEW k \in 0 .. LocalSteps(i) - 1
    PROVE  KeyOf(i, e, k) \in 0 .. num_epoch * NumStep - 1
<1> DEFINE N == NumStep
           E == num_epoch
<1>1. N \in Nat /\ E \in Nat /\ e \in Nat /\ e + 1 <= E
  <2>1. num_epoch \in Nat
    BY RunAssumption DEF num_epoch
  <2> QED BY <2>1, StepNumbers
<1>2. KeyOf(i, e, k) \in e * N .. (e + 1) * N - 1
  BY <1>1, KeyFacts
<1> HIDE DEF N, E
<1>3. e * N \in Nat /\ (e + 1) * N \in Nat /\ E * N \in Nat /\ (e + 1) * N <= E * N
  BY <1>1
<1> DEFINE a == e * N
           b == (e + 1) * N
           c == E * N
<1>4. KeyOf(i, e, k) \in a .. b - 1 /\ a \in Nat /\ b \in Nat /\ c \in Nat /\ b <= c
  BY <1>2, <1>3
<1> HIDE DEF a, b, c
<1>5. KeyOf(i, e, k) \in 0 .. c - 1
  BY <1>4
<1> QED BY <1>5 DEF c, N, E

LEMMA SampleOnceTypes ==
    ASSUME RunInv, SamplerTypes, NEW i \in Sampler, SampleOnce(i)
    PROVE  SamplerTypes'
<1> DEFINE sh == NextBatch(shuffler[i], i)
           n == Sent(i)
<1>0. /\ conf \in Configurations /\ Now \in Nat /\ num_epoch \in Nat
      /\ Lockstep /\ SamplersInv /\ EngineInv
  BY LockFacts DEF RunInv
<1>1. ~GlobalBarrier
  <2>1. pc[S(i)] = "sample" /\ S(i) \in Proc
    BY ProcKinds DEF SampleOnce, Goto, Fail
  <2> QED BY <2>1 DEF GlobalBarrier, GlobalWaits
<1>2. SamePhase /\ conf' = conf /\ Next
  <2>1. Next
    BY DEF Next, SamplerStep
  <2> QED BY <1>0, <1>1, <2>1, LockNext DEF SamePhase
<1>3. Now < num_epoch /\ Goto(S(i), "sample", "send")
  BY <1>0, <1>2, SamplersSampleOnce
<1>4. pc[S(i)] = "sample" /\ todo[i] > 0
  BY <1>3 DEF Goto, SampleOnce
<1>5. /\ todo[i] \in 0 .. LocalSteps(i) /\ LocalSteps(i) \in Nat /\ NumStep \in Nat
      /\ StepOffset(i) + LocalSteps(i) <= NumStep /\ StepOffset(i) \in Nat
  BY <1>0, ShareFacts DEF SamplersInv, SamplerOK
<1>6. n \in 0 .. LocalSteps(i) - 1
  BY <1>4, <1>5 DEF Sent
<1>7. shuffler[i] = PositionAfter(i, Now, n)
  BY <1>0, <1>4, <1>5 DEF SamplersInv, SamplerOK
<1>8. sh = PositionAfter(i, Now, n + 1) /\ sh.epoch = Now /\ BatchKey(sh, i) = KeyOf(i, Now, n)
  BY <1>0, <1>6, <1>7, ShufflerMoves
<1> HIDE DEF n
<1>9. sh \in Positions
  <2>1. sh = [epoch |-> Now, step |-> n, initialized |-> TRUE]
    BY <1>6, <1>8 DEF PositionAfter
  <2>2. Now \in 0 .. num_epoch /\ n \in 0 .. NumStep
    BY <1>0, <1>3, <1>5, <1>6
  <2> HIDE DEF sh
  <2>3. PICK yes \in BOOLEAN : yes = TRUE
    OBVIOUS
  <2>4. sh = [epoch |-> Now, step |-> n, initialized |-> yes]
    BY <2>1, <2>3, Zenon
  <2> QED BY <2>2, <2>4 DEF Positions
<1>10. KeyOf(i, Now, n) \in 0 .. num_epoch * NumStep - 1
  <2>1. Now \in 0 .. num_epoch - 1
    BY <1>0, <1>3
  <2> QED BY <1>0, <1>6, <2>1, KeyInRun
<1>11. KeyOf(i, Now, n) \in -1 .. num_epoch * NumStep - 1
  <2> DEFINE c == num_epoch * NumStep
  <2>1. c \in Nat
    BY <1>0, <1>5
  <2> HIDE DEF c
  <2>2. KeyOf(i, Now, n) \in 0 .. c - 1
    BY <1>10 DEF c
  <2>3. KeyOf(i, Now, n) \in -1 .. c - 1
    BY <2>1, <2>2
  <2> QED BY <2>3 DEF c
<1>12. /\ shuffler' = [shuffler EXCEPT ![i] = sh]
       /\ task' = [task EXCEPT ![i] = KeyOf(i, Now, n)]
       /\ todo' = todo
  BY <1>3, <1>8 DEF SampleOnce
<1> HIDE DEF sh
<1>13. /\ Sampler' = Sampler /\ Positions' = Positions
       /\ (num_epoch * NumStep)' = num_epoch * NumStep
  BY <1>2, ConfSame, TypesConf
<1>14. shuffler' \in [Sampler -> Positions]
  BY <1>9, <1>12 DEF SamplerTypes
<1>15. task' \in [Sampler -> -1 .. num_epoch * NumStep - 1]
  BY <1>11, <1>12 DEF SamplerTypes
<1> QED BY <1>12, <1>13, <1>14, <1>15 DEF SamplerTypes

LEMMA SamplerTypesNext ==
    ASSUME RunInv, SamplerTypes, [Next]_vars
    PROVE  SamplerTypes'
<1>0. conf \in Configurations
  BY LockFacts DEF RunInv
<1>1. ASSUME conf' = conf, shuffler' = shuffler, todo' \in [Sampler -> Int], task' = task
      PROVE  SamplerTypes'
  BY <1>1, ConfSame, TypesConf DEF SamplerTypes
<1>2. todo \in [Sampler -> Int]
  BY DEF SamplerTypes
<1>3. ASSUME UNCHANGED <<conf, samplerVars>> PROVE SamplerTypes'
  BY <1>1, <1>2, <1>3 DEF samplerVars
<1>4. ASSUME NEW i \in Sampler, Send(i) PROVE SamplerTypes'
  <2>1. /\ conf' = conf /\ shuffler' = shuffler /\ todo' = [todo EXCEPT ![i] = @ - 1]
        /\ task' = [task EXCEPT ![i] = -1]
    BY <1>4 DEF Send
  <2>2. todo' \in [Sampler -> Int]
    BY <1>2, <2>1
  <2>3. -1 \in -1 .. num_epoch * NumStep - 1
    <3> DEFINE c == num_epoch * NumStep
    <3>1. c \in Nat
      <4>1. num_epoch \in Nat /\ NumStep \in Nat
        BY <1>0, StepNumbers, RunAssumption DEF num_epoch
      <4> QED BY <4>1
    <3> HIDE DEF c
    <3>2. -1 \in -1 .. c - 1
      BY <3>1
    <3> QED BY <3>2 DEF c
  <2>4. task' \in [Sampler -> -1 .. num_epoch * NumStep - 1]
    BY <2>1, <2>3 DEF SamplerTypes
  <2>5. Sampler' = Sampler /\ Positions' = Positions /\ (num_epoch * NumStep)' = num_epoch * NumStep
    BY <2>1, ConfSame, TypesConf
  <2> QED BY <2>1, <2>2, <2>4, <2>5 DEF SamplerTypes
<1>5. ASSUME GlobalBarrier PROVE SamplerTypes'
  <2>1. /\ conf' = conf /\ shuffler' = shuffler /\ task' = task
        /\ todo' = [i \in Sampler |-> IF pc[S(i)] = "end" THEN LocalSteps(i) ELSE todo[i]]
    BY <1>5 DEF GlobalBarrier
  <2>2. \A i \in Sampler : LocalSteps(i) \in Int /\ todo[i] \in Int
    BY <1>0, <1>2, ShareFacts
  <2> QED BY <1>1, <2>1, <2>2
<1>6. ASSUME NEW i \in Sampler, SamplerStep(i), ~SampleOnce(i), ~Send(i) PROVE SamplerTypes'
  BY <1>3, <1>6 DEF SamplerStep, SampleInit, SampleInitFatal, SampleCacheTableInit,
     Sampled, Report, ReportUnbound, BarrierTimeout, Shutdown
<1>7. ASSUME NEW j \in Trainer, TrainerStep(j) \/ ExtractStep(j) \/ ReportThreadFinish(j)
      PROVE  SamplerTypes'
  BY <1>3, <1>7 DEF TrainerStep, TrainInit, ExtractStart, NextStep, GetNextBatch, PadStep,
     PadStepUnbound, EndSteps, BarrierTimeout, Shutdown, ExtractStep, ExtractFull, ExtractRecv,
     ExtractSubmit, ExtractGoto, ReportThreadFinish
<1>8. ASSUME Together, ~GlobalBarrier PROVE SamplerTypes'
  BY <1>3, <1>8 DEF Together, SamplerBarrier, Backward, TrainBarrier
<1>9. CASE ParentStep \/ (\E p \in Proc : Crash(p)) \/ UNCHANGED vars
  BY <1>3, <1>9 DEF ParentStep, WaitOneChild, KillAll, Join, Crash, vars
<1> QED BY <1>4, <1>5, <1>6, <1>7, <1>8, <1>9, SampleOnceTypes DEF Next

LEMMA GenuineMessage ==
    ASSUME conf \in Configurations, NEW m, Genuine(m)
    PROVE  m \in Message
<1>1. PICK i \in Sampler, e \in 0 .. num_epoch - 1 :
        \E k \in 0 .. LocalSteps(i) - 1 : m = MessageOf(i, e, k)
  BY DEF Genuine
<1>2. PICK k \in 0 .. LocalSteps(i) - 1 : m = MessageOf(i, e, k)
  BY <1>1
<1>3. /\ num_epoch \in Nat /\ LocalSteps(i) \in Nat /\ i \in Nat /\ StepOffset(i) \in Nat
      /\ NumStep \in Nat
  BY ShareFacts, ConfType, RunAssumption DEF num_epoch, Sampler
<1>4. e \in Nat /\ k \in Nat
  BY <1>3
<1>5. KeyOf(i, e, k) \in Nat
  <2>1. e * NumStep \in Nat
    BY <1>3, <1>4
  <2> QED BY <1>3, <1>4, <2>1 DEF KeyOf
<1> QED BY <1>2, <1>3, <1>4, <1>5 DEF MessageOf, Message

(* The steps of an epoch, padding included, and the keys they are logged by. *)
LEMMA StepBounds ==
    ASSUME conf \in Configurations
    PROVE  /\ num_epoch \in Nat \ {0} /\ NumStep \in Nat /\ num_train_worker \in Nat \ {0}
           /\ AlignUpStep \in Nat /\ AlignUpStep >= NumStep
           /\ \A e \in 0 .. num_epoch - 1 : \A s \in 0 .. AlignUpStep - 1 :
                e * NumStep + s \in 0 .. num_epoch * AlignUpStep
<1> DEFINE N == NumStep
           E == num_epoch
           A == AlignUpStep
<1>1. /\ num_epoch \in Nat \ {0} /\ NumStep \in Nat /\ num_train_worker \in Nat \ {0}
      /\ AlignUpStep \in Int /\ AlignUpStep >= NumStep
  BY StepNumbers, RunAssumption DEF num_epoch
<1>2. E \in Nat \ {0} /\ N \in Nat /\ A \in Nat /\ A >= N
  BY <1>1
<1> HIDE DEF N, E, A
<1>3. ASSUME NEW e \in 0 .. E - 1, NEW s \in 0 .. A - 1
      PROVE  e * N + s \in 0 .. E * A
  <2>1. e \in Nat /\ e + 1 <= E /\ s \in Nat /\ s < A
    BY <1>2
  <2>2. e * N <= e * A /\ e * A + A = (e + 1) * A /\ (e + 1) * A <= E * A
    BY <1>2, <2>1
  <2> DEFINE p == e * N
             q == e * A
             r == E * A
  <2>3. p \in Nat /\ q \in Nat /\ r \in Nat /\ p <= q /\ q + A <= r
    BY <1>2, <2>1, <2>2
  <2> HIDE DEF p, q, r
  <2>4. p + s \in 0 .. r
    BY <1>2, <2>1, <2>3
  <2> QED BY <2>4 DEF p, r
<1> QED BY <1>1, <1>2, <1>3 DEF N, E, A

(* A trainer in its loop is in one of the epochs. *)
LEMMA InLoop ==
    ASSUME RunInv, NEW j \in Trainer, pc[T(j)] \in {"extract", "next", "get", "backward", "sync"}
    PROVE  AtWork /\ Now \in 0 .. num_epoch - 1 /\ epoch[T(j)] = Now
<1>1. PICK phase \in Phases : InPhase(phase)
  BY DEF RunInv, Lockstep
<1>2. pc[T(j)] \in TrainerAt(phase)
  BY <1>1 DEF InPhase
<1>3. phase = "working"
  BY <1>2 DEF TrainerAt, Phases, BeforeLastEnd
<1>4. AtWork
  BY <1>1, <1>3, WorkPhase DEF RunInv
<1>5. Now < num_epoch /\ num_epoch \in Nat /\ Now \in Nat /\ epoch[T(j)] = Now
  BY <1>1, <1>3, LockFacts DEF InPhase, BeforeLastEnd, RunInv
<1> QED BY <1>4, <1>5

(* The trainers' records stay, and nobody starts to train. *)
LEMMA TrainerTypesStay ==
    ASSUME TrainerTypes, conf' = conf, UNCHANGED <<step, has_batch, logged, fetched>>,
           \A j \in Trainer :
                pc'[T(j)] = "backward" => pc[T(j)] = "backward" \/ step[j] < AlignUpStep
    PROVE  TrainerTypes'
<1>1. /\ Trainer' = Trainer /\ num_epoch' = num_epoch /\ AlignUpStep' = AlignUpStep
      /\ num_train_worker' = num_train_worker
  BY ConfSame, TypesConf
<1>2. Message' = Message
  BY DEF Message
<1> QED BY <1>1, <1>2 DEF TrainerTypes

LEMMA TrainerTypesGoto ==
    ASSUME RunInv, TrainerTypes, NEW j \in Trainer, NEW from, NEW to, Goto(T(j), from, to),
           UNCHANGED <<conf, trainerVars>>, to = "backward" => step[j] < AlignUpStep
    PROVE  TrainerTypes'
<1>1. \A k \in Trainer : k # j => pc'[T(k)] = pc[T(k)]
  BY ProcKinds DEF Goto, RunInv, Lockstep
<1>2. pc'[T(j)] = to
  BY ProcKinds DEF Goto, RunInv, Lockstep
<1> QED BY <1>1, <1>2, TrainerTypesStay DEF trainerVars

LEMMA TrainerTypesGet ==
    ASSUME RunInv, TrainerTypes, NEW j \in Trainer, GetNextBatch(j)
    PROVE  TrainerTypes'
<1> DEFINE f == [by |-> j, epoch |-> epoch[T(j)], message |-> Head(pool[j])]
<1>1. /\ pc[T(j)] = "get" /\ conf' = conf /\ UNCHANGED <<step, logged>>
      /\ has_batch' = [has_batch EXCEPT ![j] = TRUE]
      /\ fetched' = fetched \cup {f}
  BY DEF GetNextBatch, Goto
<1>2. /\ pc'[T(j)] = "backward" /\ \A k \in Trainer : k # j => pc'[T(k)] = pc[T(k)]
  BY ProcKinds DEF GetNextBatch, Goto, RunInv, Lockstep
<1>3. conf \in Configurations /\ step[j] \in Nat /\ step[j] < NumStep
  BY <1>1, EngineFacts DEF StepRight, RunInv
<1>4. step[j] < AlignUpStep
  BY <1>3, StepBounds
<1>5. Head(pool[j]) \in Message
  <2>1. Head(pool[j]) \in Own(j)
    BY PlacesGet DEF RunInv
  <2>2. Genuine(Head(pool[j]))
    BY <2>1 DEF RunInv, OnePlace, MessagesInv
  <2> QED BY <1>3, <2>2, GenuineMessage
<1>6. f \in [by : Trainer, epoch : 0 .. num_epoch - 1, message : Message]
  BY <1>1, <1>5, InLoop
<1> HIDE DEF f
<1>7. fetched' \subseteq [by : Trainer, epoch : 0 .. num_epoch - 1, message : Message]
  BY <1>1, <1>6 DEF TrainerTypes
<1>8. has_batch' \in [Trainer -> BOOLEAN]
  <2>1. has_batch \in [Trainer -> BOOLEAN]
    BY DEF TrainerTypes
  <2> QED BY <1>1, <2>1
<1>9. /\ Trainer' = Trainer /\ num_epoch' = num_epoch /\ AlignUpStep' = AlignUpStep
      /\ num_train_worker' = num_train_worker /\ Message' = Message
  BY <1>1, ConfSame, TypesConf DEF Message
<1>10. \A k \in Trainer : pc'[T(k)] = "backward" => step[k] < AlignUpStep
  BY <1>2, <1>4 DEF TrainerTypes
<1> QED BY <1>1, <1>7, <1>8, <1>9, <1>10 DEF TrainerTypes

LEMMA TrainerTypesBackward ==
    ASSUME RunInv, TrainerTypes, Backward
    PROVE  TrainerTypes'
<1>0. /\ conf' = conf /\ conf \in Configurations /\ fetched' = fetched
      /\ Trainer' = Trainer /\ num_epoch' = num_epoch /\ AlignUpStep' = AlignUpStep
      /\ num_train_worker' = num_train_worker /\ Message' = Message
  BY LockFacts, ConfSame, TypesConf DEF Backward, RunInv, Message
<1>1. /\ \A j \in Trainer : pc[T(j)] = "backward" /\ pc'[T(j)] = "next"
      /\ step' = [j \in Trainer |-> step[j] + num_train_worker]
      /\ has_batch' = [j \in Trainer |-> has_batch[j] /\ step[j] + num_train_worker >= NumStep]
      /\ logged' = [j \in Trainer |-> logged[j] \cup {StepKey(j)}]
  BY ProcKinds DEF Backward, TrainersAt, TrainersGoto
<1>2. /\ AlignUpStep \in Nat /\ num_train_worker \in Nat \ {0}
      /\ \A e \in 0 .. num_epoch - 1 : \A s \in 0 .. AlignUpStep - 1 :
            e * NumStep + s \in 0 .. num_epoch * AlignUpStep
  BY <1>0, StepBounds
<1>3. \A j \in Trainer : step[j] \in 0 .. AlignUpStep - 1
  <2> SUFFICES ASSUME NEW j \in Trainer PROVE step[j] \in 0 .. AlignUpStep - 1
    OBVIOUS
  <2>1. step[j] < AlignUpStep /\ step[j] \in 0 .. AlignUpStep + num_train_worker - 1
    BY <1>1 DEF TrainerTypes
  <2> QED BY <1>2, <2>1
<1>4. step' \in [Trainer -> 0 .. AlignUpStep + num_train_worker - 1]
  BY <1>1, <1>2, <1>3
<1>5. has_batch' \in [Trainer -> BOOLEAN]
  BY <1>1, Zenon
<1>6. logged' \in [Trainer -> SUBSET (0 .. num_epoch * AlignUpStep)]
  <2>1. ASSUME NEW j \in Trainer PROVE StepKey(j) \in 0 .. num_epoch * AlignUpStep
    <3>1. Now \in 0 .. num_epoch - 1 /\ epoch[T(j)] = Now
      BY <1>1, InLoop
    <3> QED BY <1>2, <1>3, <3>1 DEF StepKey
  <2>2. \A j \in Trainer : logged[j] \subseteq 0 .. num_epoch * AlignUpStep
    BY DEF TrainerTypes
  <2> DEFINE K == 0 .. num_epoch * AlignUpStep
  <2>3. \A j \in Trainer : logged[j] \cup {StepKey(j)} \in SUBSET K
    BY <2>1, <2>2
  <2> HIDE DEF K
  <2>4. logged' \in [Trainer -> SUBSET K]
    BY <1>1, <2>3, Zenon
  <2> QED BY <2>4 DEF K
<1> QED BY <1>0, <1>1, <1>4, <1>5, <1>6 DEF TrainerTypes

LEMMA TrainerTypesBarrier ==
    ASSUME RunInv, TrainerTypes, GlobalBarrier
    PROVE  TrainerTypes'
<1>0. /\ conf' = conf /\ conf \in Configurations /\ UNCHANGED <<has_batch, logged, fetched>>
      /\ Trainer' = Trainer /\ num_epoch' = num_epoch /\ AlignUpStep' = AlignUpStep
      /\ num_train_worker' = num_train_worker /\ Message' = Message
      /\ Trainer = 0 .. num_train_worker - 1
  BY LockFacts, ConfSame, TypesConf, StepNumbers DEF GlobalBarrier, RunInv, Message
<1>1. /\ AlignUpStep \in Nat /\ num_train_worker \in Nat \ {0}
  BY <1>0, StepBounds
<1>2. step' \in [Trainer -> 0 .. AlignUpStep + num_train_worker - 1]
  <2>1. step' = [j \in Trainer |-> IF pc[T(j)] = "start" THEN j ELSE step[j]]
    BY DEF GlobalBarrier
  <2>2. \A j \in Trainer : step[j] \in 0 .. AlignUpStep + num_train_worker - 1
    BY DEF TrainerTypes
  <2>3. \A j \in Trainer : j \in 0 .. AlignUpStep + num_train_worker - 1
    BY <1>0, <1>1
  <2> QED BY <2>1, <2>2, <2>3
<1>3. \A j \in Trainer : pc'[T(j)] # "backward"
  <2> SUFFICES ASSUME NEW j \in Trainer PROVE pc'[T(j)] # "backward"
    OBVIOUS
  <2>1. /\ pc[T(j)] \in GlobalWaits /\ pc'[T(j)] = AfterBarrier(T(j)) /\ T(j)[1] = "trainer"
    BY ProcKinds DEF GlobalBarrier
  <2> QED BY <2>1 DEF AfterBarrier, EpochStart, GlobalWaits
<1> QED BY <1>0, <1>2, <1>3 DEF TrainerTypes

LEMMA TrainerTypesNext ==
    ASSUME RunInv, TrainerTypes, [Next]_vars
    PROVE  TrainerTypes'
<1>1. ASSUME UNCHANGED <<conf, trainerVars>>, \A j \in Trainer : pc'[T(j)] = pc[T(j)]
      PROVE  TrainerTypes'
  BY <1>1, TrainerTypesStay DEF trainerVars
<1>2. ASSUME NEW i \in Sampler, SamplerStep(i) PROVE TrainerTypes'
  <2>1. UNCHANGED <<conf, trainerVars>>
    BY <1>2 DEF SamplerStep, SampleInit, SampleInitFatal, SampleCacheTableInit, SampleOnce, Send,
       Sampled, Report, ReportUnbound, BarrierTimeout, Shutdown
  <2>2. pc' = pc \/ \E to : pc' = [pc EXCEPT ![S(i)] = to]
    BY <1>2 DEF SamplerStep, SampleInit, SampleInitFatal, SampleCacheTableInit, SampleOnce, Send,
       Sampled, Report, ReportUnbound, BarrierTimeout, Shutdown, Goto, Fail
  <2>3. \A j \in Trainer : pc'[T(j)] = pc[T(j)]
    BY <2>2, ProcKinds DEF RunInv, Lockstep
  <2> QED BY <1>1, <2>1, <2>3
<1>3. ASSUME NEW j \in Trainer, TrainerStep(j) \/ ExtractStep(j) \/ ReportThreadFinish(j)
      PROVE  TrainerTypes'
  <2>1. CASE TrainInit(j)
    BY <2>1, TrainerTypesGoto DEF TrainInit
  <2>2. CASE ExtractStart(j)
    BY <2>2, TrainerTypesGoto DEF ExtractStart
  <2>3. CASE NextStep(j)
    BY <2>3, TrainerTypesGoto DEF NextStep
  <2>4. CASE PadStep(j)
    BY <2>4, TrainerTypesGoto DEF PadStep
  <2>5. CASE EndSteps(j)
    BY <2>5, TrainerTypesGoto DEF EndSteps
  <2>6. CASE PadStepUnbound(j) \/ BarrierTimeout(T(j)) \/ Shutdown(T(j)) \/ ReportThreadFinish(j)
    BY <1>1, <2>6 DEF PadStepUnbound, BarrierTimeout, Shutdown, ReportThreadFinish, Fail, procVars
  <2>7. CASE ExtractStep(j)
    BY <1>1, <2>7 DEF ExtractStep, ExtractFull, ExtractRecv, ExtractSubmit, ExtractGoto, procVars,
       trainerVars
  <2> QED BY <1>3, <2>1, <2>2, <2>3, <2>4, <2>5, <2>6, <2>7, TrainerTypesGet DEF TrainerStep
<1>4. ASSUME Together PROVE TrainerTypes'
  <2>1. CASE SamplerBarrier
    <3>1. \A j \in Trainer : pc'[T(j)] = pc[T(j)]
      BY <2>1, ProcKinds DEF SamplerBarrier
    <3> QED BY <1>1, <2>1, <3>1 DEF SamplerBarrier
  <2>2. CASE TrainBarrier("sync", "end") \/ TrainBarrier("last_sync", "run_end")
    <3>1. \A j \in Trainer : pc'[T(j)] # "backward"
      BY <2>2, ProcKinds DEF TrainBarrier, TrainersGoto
    <3> QED BY <2>2, <3>1, TrainerTypesStay DEF TrainBarrier, trainerVars
  <2> QED BY <1>4, <2>1, <2>2, TrainerTypesBackward, TrainerTypesBarrier DEF Together
<1>5. CASE ParentStep \/ (\E p \in Proc : Crash(p)) \/ UNCHANGED vars
  BY <1>1, <1>5 DEF ParentStep, WaitOneChild, KillAll, Join, Crash, vars, procVars
<1> QED BY <1>2, <1>3, <1>4, <1>5 DEF Next

LEMMA StartedType ==
    ASSUME RunInv, NEW j \in Trainer
    PROVE  Started(j) \in Nat /\ Started(j) <= num_epoch /\ threads[j] \in Nat
<1>1. Now \in Nat /\ num_epoch \in Nat /\ Now <= num_epoch /\ threads[j] \in Nat
  BY LockFacts, EngineFacts DEF RunInv, EngineTypes
<1>2. AtWork => Now < num_epoch
  <2>1. PICK phase \in Phases : InPhase(phase)
    BY DEF RunInv, Lockstep
  <2> QED BY <2>1, WorkPhase DEF InPhase, BeforeLastEnd, RunInv
<1> QED BY <1>1, <1>2 DEF Started

(* Only the barrier of all sends a trainer into an epoch. *)
LEMMA IntoEpoch ==
    ASSUME RunInv, [Next]_vars, ~GlobalBarrier, NEW j \in Trainer, pc'[T(j)] = "extract"
    PROVE  pc[T(j)] = "extract"
<1>0. DOMAIN pc = Proc
  BY DEF RunInv, Lockstep
<1>1. CASE \E i \in Sampler : SamplerStep(i)
  <2>1. PICK i \in Sampler : SamplerStep(i)
    BY <1>1
  <2>2. pc' = pc \/ \E to : pc' = [pc EXCEPT ![S(i)] = to]
    BY <2>1 DEF SamplerStep, SampleInit, SampleInitFatal, SampleCacheTableInit, SampleOnce, Send,
       Sampled, Report, ReportUnbound, BarrierTimeout, Shutdown, Goto, Fail
  <2> QED BY <1>0, <2>2, ProcKinds
<1>2. CASE \E k \in Trainer : TrainerStep(k) \/ ExtractStep(k) \/ ReportThreadFinish(k)
  <2>1. PICK k \in Trainer : TrainerStep(k) \/ ExtractStep(k) \/ ReportThreadFinish(k)
    BY <1>2
  <2>2. pc' = pc \/ \E to : pc' = [pc EXCEPT ![T(k)] = to] /\ to # "extract"
    BY <2>1 DEF TrainerStep, TrainInit, ExtractStart, NextStep, GetNextBatch, PadStep,
       PadStepUnbound, EndSteps, BarrierTimeout, Shutdown, ExtractStep, ExtractFull, ExtractRecv,
       ExtractSubmit, ExtractGoto, ReportThreadFinish, Goto, Fail, procVars
  <2> QED BY <1>0, <2>2, ProcKinds
<1>3. CASE Together
  BY <1>0, <1>3, ProcKinds DEF Together, SamplerBarrier, Backward, TrainBarrier, TrainersGoto
<1>4. CASE ParentStep \/ (\E p \in Proc : Crash(p)) \/ UNCHANGED vars
  BY <1>4 DEF ParentStep, WaitOneChild, KillAll, Join, Crash, vars, procVars
<1> QED BY <1>1, <1>2, <1>3, <1>4 DEF Next

(* The epochs a trainer has begun do not become fewer. *)
LEMMA StartedGrows ==
    ASSUME RunInv, [Next]_vars, NEW j \in Trainer
    PROVE  Started(j)' \in Nat /\ Started(j) <= Started(j)'
<1>1. CASE GlobalBarrier
  <2>1. PICK phase \in Phases : InPhase(phase)
    BY DEF RunInv, Lockstep
  <2>2. Now \in Nat /\ Now' = NowAfter(phase) /\ (AtWork <=> phase = "working")
    BY <1>1, <2>1, LockFacts, LockBarrier, WorkPhase DEF RunInv
  <2> QED BY <2>2 DEF Started, NowAfter
<1>2. CASE ~GlobalBarrier
  <2>1. Now \in Nat /\ Now' = Now /\ (AtWork' <=> AtWork)
    BY <1>2, LockFacts, LockNext DEF SamePhase, RunInv
  <2> QED BY <1>2, <2>1, IntoEpoch DEF Started
<1> QED BY <1>1, <1>2

LEMMA ConfStays ==
    ASSUME RunInv, [Next]_vars
    PROVE  conf' = conf
<1>1. CASE GlobalBarrier
  BY <1>1 DEF GlobalBarrier
<1>2. CASE ~GlobalBarrier
  BY <1>2, LockNext DEF SamePhase, RunInv
<1> QED BY <1>1, <1>2

(* The engine of a trainer does nothing. *)
LEMMA ThreadSame ==
    ASSUME RunInv, [Next]_vars, NEW j \in Trainer, ThreadOK(j),
           threads'[j] = threads[j], joined'[j] = joined[j],
           extract'[j] = extract[j]
    PROVE  ThreadOK(j)'
<1>1. /\ Started(j) \in Nat /\ threads[j] \in Nat
      /\ Started(j)' \in Nat /\ Started(j) <= Started(j)'
  BY StartedType, StartedGrows
<1>2. NumStep' = NumStep /\ Message' = Message /\ NoMessage' = NoMessage
  BY TypesConf, ConfStays DEF Message, NoMessage
<1>3. threads'[j] <= Started(j)'
  BY <1>1 DEF ThreadOK
<1> QED BY <1>2, <1>3 DEF ThreadOK

LEMMA ThreadsStay ==
    ASSUME RunInv, ThreadTypes, [Next]_vars, UNCHANGED <<threads, joined, extract>>
    PROVE  ThreadTypes'
BY ThreadSame, ConfStays, ConfSame DEF ThreadTypes

LEMMA ThreadAlone ==
    ASSUME RunInv, ThreadTypes, [Next]_vars, NEW j \in Trainer, ThreadOK(j)',
           joined' \in [Trainer -> Nat],
           \A k \in Trainer : k # j => /\ threads'[k] = threads[k] /\ joined'[k] = joined[k]
                                       /\ extract'[k] = extract[k]
    PROVE  ThreadTypes'
<1>1. ASSUME NEW k \in Trainer PROVE ThreadOK(k)'
  <2>1. CASE k = j
    BY <2>1
  <2>2. CASE k # j
    BY <2>2, ThreadSame DEF ThreadTypes
  <2> QED BY <2>1, <2>2
<1> QED BY <1>1, ConfStays, ConfSame DEF ThreadTypes

(* The thread of a trainer goes on, with no more to do than an epoch has. *)
LEMMA ThreadMoves ==
    ASSUME RunInv, ThreadTypes, [Next]_vars, NEW j \in Trainer, NEW x,
           extract' = [extract EXCEPT ![j] = x],
           x.left <= NumStep, x.task \in Message \cup {NoMessage},
           UNCHANGED <<threads, joined>>
    PROVE  ThreadTypes'
<1>1. DOMAIN extract = Trainer
  BY DEF RunInv, EngineInv, EngineDomains
<1>2. extract'[j] = x /\ \A k \in Trainer : k # j => extract'[k] = extract[k]
  BY <1>1
<1>3. NumStep' = NumStep /\ Message' = Message /\ NoMessage' = NoMessage
  BY TypesConf, ConfStays DEF Message, NoMessage
<1>4. /\ Started(j) \in Nat /\ threads[j] \in Nat
      /\ Started(j)' \in Nat /\ Started(j) <= Started(j)'
  BY StartedType, StartedGrows
<1>5. threads[j] <= Started(j) /\ joined[j] \in 0 .. threads[j]
  BY DEF ThreadTypes, ThreadOK
<1>6. threads'[j] <= Started(j)'
  BY <1>4, <1>5
<1>7. ThreadOK(j)'
  BY <1>2, <1>3, <1>5, <1>6 DEF ThreadOK
<1> QED BY <1>2, <1>7, ThreadAlone DEF ThreadTypes

LEMMA LoopingTypes ==
    ASSUME NEW n \in Nat, NumStep \in Nat, n <= NumStep + 1
    PROVE  Looping(n).left <= NumStep /\ Looping(n).task = NoMessage
<1>1. CASE n = 0
  BY <1>1 DEF Looping, Idle
<1>2. CASE n # 0
  <2>1. Looping(n) = [left |-> n - 1, at |-> "full", task |-> NoMessage]
    BY <1>2 DEF Looping, Idle
  <2> QED BY <2>1
<1> QED BY <1>1, <1>2

LEMMA NeedBound ==
    ASSUME conf \in Configurations, NEW j \in Trainer
    PROVE  NeedSteps(j) \in Nat /\ NeedSteps(j) <= NumStep + 1
<1> DEFINE N == NumStep
           n == num_train_worker
           q == N \div n
           r == N % n
<1>1. N \in Nat /\ n \in Nat \ {0}
  BY StepNumbers
<1>2. q \in Nat /\ r \in Nat /\ N = q * n + r
  BY <1>1
<1>3. NeedSteps(j) = q + (IF j < r THEN 1 ELSE 0)
  BY DEF NeedSteps
<1> HIDE DEF N, n, q, r
<1>4. q <= q * n /\ q * n \in Nat
  BY <1>1, <1>2
<1>5. q <= N
  BY <1>1, <1>2, <1>4
<1>6. NeedSteps(j) \in Nat /\ NeedSteps(j) <= N + 1
  BY <1>1, <1>2, <1>3, <1>5
<1> QED BY <1>6 DEF N

LEMMA ThreadTypesStart ==
    ASSUME RunInv, ThreadTypes, [Next]_vars, NEW j \in Trainer, ExtractStart(j)
    PROVE  ThreadTypes'
<1>1. CASE ~Background
  BY <1>1, ThreadsStay DEF ExtractStart
<1>2. CASE Background
  <2>1. /\ extract' = [extract EXCEPT ![j] = Looping(NeedSteps(j))]
        /\ threads' = [threads EXCEPT ![j] = @ + 1] /\ joined' = joined
        /\ pc[T(j)] = "extract"
    BY <1>2 DEF ExtractStart, Goto
  <2>2. /\ conf \in Configurations /\ NumStep \in Nat /\ Now \in Nat
        /\ DOMAIN extract = Trainer /\ DOMAIN threads = Trainer /\ DOMAIN pc = Proc
        /\ T(j) \in Proc /\ threads[j] \in Nat
    BY LockFacts, StepNumbers, StartedType DEF RunInv, EngineInv, EngineDomains
  <2>3. /\ extract'[j] = Looping(NeedSteps(j)) /\ threads'[j] = threads[j] + 1
        /\ \A k \in Trainer : k # j => extract'[k] = extract[k] /\ threads'[k] = threads[k]
    BY <2>1, <2>2
  <2>4. Looping(NeedSteps(j)).left <= NumStep /\ Looping(NeedSteps(j)).task = NoMessage
    BY <2>2, NeedBound, LoopingTypes
  <2>5. AtWork
    BY <2>1, InLoop
  <2>6. pc'[T(j)] = "next"
    BY <2>2 DEF ExtractStart, Goto
  <2>7. Now' = Now /\ AtWork'
    <3>1. ~GlobalBarrier
      BY <2>1, <2>2 DEF GlobalBarrier, GlobalWaits
    <3> QED BY <2>5, <3>1, LockNext DEF SamePhase, RunInv
  <2>8. Started(j) = Now /\ Started(j)' = Now + 1
    BY <2>1, <2>2, <2>5, <2>6, <2>7 DEF Started
  <2>9. threads[j] <= Started(j) /\ joined[j] \in 0 .. threads[j]
    BY DEF ThreadTypes, ThreadOK
  <2>10. threads'[j] <= Started(j)' /\ joined'[j] \in 0 .. threads'[j]
    BY <2>1, <2>2, <2>3, <2>8, <2>9
  <2>11. NumStep' = NumStep /\ Message' = Message /\ NoMessage' = NoMessage
    BY TypesConf, ConfStays DEF Message, NoMessage
  <2>12. ThreadOK(j)'
    BY <2>3, <2>4, <2>10, <2>11 DEF ThreadOK
  <2> QED BY <2>1, <2>3, <2>12, ThreadAlone DEF ThreadTypes
<1> QED BY <1>1, <1>2

LEMMA ThreadTypesExtract ==
    ASSUME RunInv, ThreadTypes, [Next]_vars, NEW j \in Trainer, ExtractStep(j)
    PROVE  ThreadTypes'
<1>0. /\ conf \in Configurations /\ NumStep \in Nat /\ DOMAIN extract = Trainer
      /\ extract[j] \in [left : Nat, at : {"none", "full", "recv", "submit"},
                         task : {extract[j].task}]
      /\ extract[j].left <= NumStep /\ extract[j].task \in Message \cup {NoMessage}
  BY LockFacts, StepNumbers, EngineFacts
     DEF RunInv, EngineInv, EngineDomains, EngineTypes, ThreadTypes, ThreadOK
<1>1. CASE ExtractFull(j)
  <2>1. /\ extract' = [extract EXCEPT ![j] = [extract[j] EXCEPT !.at = "recv"]]
        /\ UNCHANGED <<threads, joined>>
    BY <1>0, <1>1 DEF ExtractFull, ExtractGoto
  <2> DEFINE x == [extract[j] EXCEPT !.at = "recv"]
  <2>2. x.left <= NumStep /\ x.task \in Message \cup {NoMessage}
    BY <1>0
  <2> HIDE DEF x
  <2> QED BY <2>1, <2>2, ThreadMoves DEF x
<1>2. CASE ExtractRecv(j)
  <2>1. PICK m \in channel :
          /\ extract' = [extract EXCEPT ![j].at = "submit", ![j].task = m]
          /\ UNCHANGED <<threads, joined>>
    BY <1>2 DEF ExtractRecv
  <2>2. m \in Message
    BY <1>0, GenuineMessage DEF RunInv, MessagesInv
  <2> DEFINE x == extract'[j]
  <2>3. extract' = [extract EXCEPT ![j] = x]
    BY <1>0, <2>1
  <2>4. x.left <= NumStep /\ x.task \in Message \cup {NoMessage}
    BY <1>0, <2>1, <2>2
  <2> HIDE DEF x
  <2> QED BY <2>1, <2>3, <2>4, ThreadMoves
<1>3. CASE ExtractSubmit(j)
  <2> DEFINE x == IF extract[j].left = 0 THEN Idle ELSE Looping(extract[j].left)
  <2>1. extract' = [extract EXCEPT ![j] = x] /\ UNCHANGED <<threads, joined>>
    BY <1>0, <1>3 DEF ExtractSubmit
  <2>2. x = Looping(extract[j].left)
    BY DEF Looping
  <2>3. x.left <= NumStep /\ x.task \in Message \cup {NoMessage}
    <3>1. extract[j].left \in Nat /\ extract[j].left <= NumStep + 1
      BY <1>0
    <3> HIDE DEF x
    <3> QED BY <1>0, <2>2, <3>1, LoopingTypes
  <2> HIDE DEF x
  <2> QED BY <2>1, <2>3, ThreadMoves
<1> QED BY <1>1, <1>2, <1>3 DEF ExtractStep

LEMMA ThreadTypesFinish ==
    ASSUME RunInv, ThreadTypes, [Next]_vars, NEW j \in Trainer, ReportThreadFinish(j)
    PROVE  ThreadTypes'
<1>1. /\ joined' = [joined EXCEPT ![j] = @ + 1] /\ UNCHANGED <<threads, extract>>
      /\ joined[j] + Working(j) < threads[j]
  BY DEF ReportThreadFinish
<1>2. /\ joined \in [Trainer -> Nat] /\ threads[j] \in Nat /\ joined[j] \in 0 .. threads[j]
      /\ threads[j] <= Started(j) /\ Started(j) \in Nat
      /\ Started(j)' \in Nat /\ Started(j) <= Started(j)'
      /\ extract[j].left <= NumStep /\ extract[j].task \in Message \cup {NoMessage}
  BY StartedType, StartedGrows DEF ThreadTypes, ThreadOK
<1>3. joined' \in [Trainer -> Nat] /\ joined'[j] = joined[j] + 1
      /\ \A k \in Trainer : k # j => joined'[k] = joined[k]
  BY <1>1, <1>2
<1>4. joined[j] < threads[j]
  BY <1>1, <1>2 DEF Working
<1>5. joined'[j] \in 0 .. threads'[j] /\ threads'[j] <= Started(j)'
  BY <1>1, <1>2, <1>3, <1>4
<1>6. NumStep' = NumStep /\ Message' = Message /\ NoMessage' = NoMessage
  BY TypesConf, ConfStays DEF Message, NoMessage
<1>7. ThreadOK(j)'
  BY <1>1, <1>2, <1>5, <1>6 DEF ThreadOK
<1> QED BY <1>1, <1>3, <1>7, ThreadAlone

LEMMA ThreadTypesNext ==
    ASSUME RunInv, ThreadTypes, [Next]_vars
    PROVE  ThreadTypes'
<1>1. ASSUME NEW i \in Sampler, SamplerStep(i) PROVE ThreadTypes'
  BY <1>1, ThreadsStay DEF SamplerStep, SampleInit, SampleInitFatal, SampleCacheTableInit,
     SampleOnce, Send, Sampled, Report, ReportUnbound, BarrierTimeout, Shutdown, engineVars
<1>2. ASSUME NEW j \in Trainer, NextStep(j) PROVE ThreadTypes'
  <2>1. CASE Background
    BY <1>2, <2>1, ThreadsStay DEF NextStep
  <2>2. CASE ~Background
    <3>1. NumStep \in Nat
      BY LockFacts, StepNumbers DEF RunInv
    <3>2. Looping(1).left <= NumStep /\ Looping(1).task = NoMessage
      BY <3>1, LoopingTypes
    <3> QED BY <1>2, <2>2, <3>2, ThreadMoves DEF NextStep
  <2> QED BY <2>1, <2>2
<1>3. ASSUME NEW j \in Trainer,
             \/ TrainInit(j) \/ GetNextBatch(j) \/ PadStep(j) \/ PadStepUnbound(j) \/ EndSteps(j)
             \/ BarrierTimeout(T(j)) \/ Shutdown(T(j))
      PROVE  ThreadTypes'
  BY <1>3, ThreadsStay DEF TrainInit, GetNextBatch, PadStep, PadStepUnbound, EndSteps,
     BarrierTimeout, Shutdown, engineVars
<1>4. CASE Together \/ ParentStep \/ (\E p \in Proc : Crash(p)) \/ UNCHANGED vars
  BY <1>4, ThreadsStay DEF Together, SamplerBarrier, GlobalBarrier, Backward, TrainBarrier,
     ParentStep, WaitOneChild, KillAll, Join, Crash, vars, engineVars
<1> QED BY <1>1, <1>2, <1>3, <1>4, ThreadTypesStart, ThreadTypesExtract, ThreadTypesFinish
    DEF Next, TrainerStep

LEMMA SeqOf ==
    ASSUME NEW s, NEW X, IsSeq(s), Elements(s) \subseteq X
    PROVE  s \in Seq(X)
<1> PICK Y : s \in Seq(Y)
  BY DEF IsSeq
<1>1. Len(s) \in Nat /\ DOMAIN s = 1 .. Len(s) /\ s = [k \in 1 .. Len(s) |-> s[k]]
  OBVIOUS
<1>2. \A k \in 1 .. Len(s) : s[k] \in X
  BY <1>1 DEF Elements
<1> QED BY <1>1, <1>2

LEMMA TypesHold ==
    ASSUME TypeInv
    PROVE  TypeOK
<1>1. /\ conf \in Configurations /\ num_epoch \in Nat /\ Now \in 0 .. num_epoch /\ NumStep \in Nat
      /\ \A p \in Proc : epoch[p] = Now
  BY LockFacts, StepNumbers DEF TypeInv, RunInv, Lockstep
<1>2. /\ \A i \in Sampler : pc[S(i)] \in SamplerPc \cup GlobalWaits
      /\ \A j \in Trainer : pc[T(j)] \in TrainerPc \cup (GlobalWaits \ {"sampled"})
  <2>1. PICK phase \in Phases : InPhase(phase)
    BY DEF TypeInv, RunInv, Lockstep
  <2>2. SamplerAt(phase) \subseteq SamplerPc \cup GlobalWaits
    BY DEF SamplerAt, SamplerPc, GlobalWaits, Phases, BeforeLastEnd
  <2>3. TrainerAt(phase) \subseteq TrainerPc \cup (GlobalWaits \ {"sampled"})
    BY DEF TrainerAt, TrainerPc, GlobalWaits, Phases, BeforeLastEnd
  <2> QED BY <2>1, <2>2, <2>3 DEF InPhase
<1>3. epoch \in [Proc -> 0 .. num_epoch]
  BY <1>1 DEF TypeInv, ProcTypes
<1>4. todo \in [Sampler -> 0 .. NumStep]
  <2>1. ASSUME NEW i \in Sampler PROVE todo[i] \in 0 .. NumStep
    <3>1. /\ todo[i] \in 0 .. LocalSteps(i) /\ LocalSteps(i) \in Nat /\ StepOffset(i) \in Nat
          /\ StepOffset(i) + LocalSteps(i) <= NumStep
      BY <1>1, ShareFacts DEF TypeInv, RunInv, SamplersInv, SamplerOK
    <3> QED BY <1>1, <3>1
  <2> QED BY <2>1 DEF TypeInv, SamplerTypes
<1>5. ASSUME NEW j \in Trainer
      PROVE  /\ extract[j].left \in 0 .. NumStep
             /\ extract[j].at \in {"none", "full", "recv", "submit"}
             /\ extract[j].task \in Message \cup {NoMessage}
             /\ pool[j] \in Seq(Message)
             /\ threads[j] \in 0 .. num_epoch /\ joined[j] \in 0 .. threads[j]
  <2>1. ThreadOK(j) /\ EngineTypes(j) /\ RunInv
    BY EngineFacts DEF TypeInv, RunInv, ThreadTypes
  <2>2. /\ extract[j].left \in Nat /\ extract[j].at \in {"none", "full", "recv", "submit"}
        /\ IsSeq(pool[j])
    BY <2>1 DEF EngineTypes
  <2>3. extract[j].left \in 0 .. NumStep
    BY <1>1, <2>1, <2>2 DEF ThreadOK
  <2>4. pool[j] \in Seq(Message)
    <3>1. \A m \in Elements(pool[j]) : m \in Message
      BY <1>1, <2>1, GenuineMessage DEF RunInv, OnePlace, MessagesInv, Own
    <3> QED BY <2>2, <3>1, SeqOf
  <2>5. threads[j] \in 0 .. num_epoch
    BY <1>1, <2>1, StartedType DEF ThreadOK
  <2> QED BY <2>1, <2>2, <2>3, <2>4, <2>5 DEF ThreadOK
<1>6. channel \subseteq Message /\ received \subseteq Message
  BY <1>1, GenuineMessage DEF TypeInv, RunInv, MessagesInv
<1>7. /\ shuffler \in [Sampler -> [epoch : 0 .. num_epoch, step : 0 .. NumStep,
                                   initialized : BOOLEAN]]
      /\ task \in [Sampler -> -1 .. num_epoch * NumStep - 1]
  BY DEF TypeInv, SamplerTypes, Positions
<1>8. /\ step \in [Trainer -> 0 .. AlignUpStep + num_train_worker - 1]
      /\ has_batch \in [Trainer -> BOOLEAN]
      /\ logged \in [Trainer -> SUBSET (0 .. num_epoch * AlignUpStep)]
      /\ fetched \subseteq [by : Trainer, epoch : 0 .. num_epoch - 1, message : Message]
  BY DEF TypeInv, TrainerTypes
<1>9. /\ status \in [Proc -> Statuses] /\ ranking \in BOOLEAN
      /\ parent \in {"wait", "kill", "join", "join_failed", "exit 0", "exit 1"}
      /\ crashes \in 0 .. MaxCrashes
  BY DEF TypeInv, ProcTypes
<1> QED BY <1>1, <1>2, <1>3, <1>4, <1>5, <1>6, <1>7, <1>8, <1>9 DEF TypeOK

(* The variables of a run keep their types, with the bounds that follow    *)
(* from the barriers: a key lies in the run, a trainer's step within the   *)
(* aligned epoch, and a trainer starts at most one thread per epoch.       *)
THEOREM TypeCorrect == Spec => []TypeOK
<1>1. Init => TypeInv
  BY RunInit, TypesInit DEF TypeInv
<1>2. TypeInv /\ [Next]_vars => TypeInv'
  BY RunNext, ProcTypesNext, SamplerTypesNext, TrainerTypesNext, ThreadTypesNext DEF TypeInv
<1> QED BY <1>1, <1>2, TypesHold, PTL DEF Spec

==============================================================================
