-------------------------- MODULE DistShufflerProofs --------------------------
(***************************************************************************)
(* Proofs about DistShuffler and the arithmetic of EpochSplit, for every   *)
(* train set, batch size, number of samplers and number of epochs.         *)
(***************************************************************************)
EXTENDS DistShuffler, FiniteSetTheorems, TLAPS

(* An epoch has as many steps as batches are needed: all are full but the  *)
(* last, which has the remainder.                                          *)
LEMMA Steps ==
    /\ NumStep \in Nat \ {0}
    /\ num_data % batch_size = 0 => num_data = NumStep * batch_size
    /\ num_data % batch_size # 0 =>
            num_data = (NumStep - 1) * batch_size + (num_data % batch_size)
    /\ num_data % batch_size \in 0 .. batch_size - 1
<1> DEFINE D == num_data
           b == batch_size
           q == D \div b
           r == D % b
           N == (D + b - 1) \div b
           m == (D + b - 1) % b
<1>0. D \in Nat \ {0} /\ b \in Nat \ {0}
  BY SplitAssumption
<1>1. q \in Nat /\ r \in Nat /\ r < b /\ D = q * b + r
  BY <1>0
<1>2. N \in Nat /\ m \in Nat /\ m < b /\ D + b - 1 = N * b + m
  BY <1>0
<1>n. NumStep = N /\ num_data = D /\ batch_size = b /\ num_data % batch_size = r
  BY DEF NumStep
<1>r. r \in 0 .. b - 1
  BY <1>0, <1>1
<1> HIDE DEF D, b, q, r, N, m
<1>3. CASE r = 0
  <2>1. N * b - q * b = b - 1 - m
    BY <1>0, <1>1, <1>2, <1>3
  <2>2. ASSUME N >= q + 1 PROVE FALSE
    <3>1. N * b >= (q + 1) * b /\ (q + 1) * b = q * b + b
      BY <1>0, <1>1, <1>2, <2>2
    <3> QED BY <1>0, <1>1, <1>2, <2>1, <3>1
  <2>3. ASSUME q >= N + 1 PROVE FALSE
    <3>1. q * b >= (N + 1) * b /\ (N + 1) * b = N * b + b
      BY <1>0, <1>1, <1>2, <2>3
    <3> QED BY <1>0, <1>1, <1>2, <2>1, <3>1
  <2>4. N = q
    BY <1>1, <1>2, <2>2, <2>3
  <2>5. D = N * b /\ N # 0
    BY <1>0, <1>1, <1>3, <2>4
  <2> QED BY <1>2, <1>3, <1>n, <1>r, <2>5
<1>4. CASE r # 0
  <2>1. N * b - (q + 1) * b = r - 1 - m
    BY <1>0, <1>1, <1>2
  <2>2. ASSUME N >= q + 2 PROVE FALSE
    <3>1. N * b >= (q + 2) * b /\ (q + 2) * b = (q + 1) * b + b
      BY <1>0, <1>1, <1>2, <2>2
    <3> QED BY <1>0, <1>1, <1>2, <2>1, <3>1
  <2>3. ASSUME q >= N PROVE FALSE
    <3>1. (q + 1) * b >= (N + 1) * b /\ (N + 1) * b = N * b + b
      BY <1>0, <1>1, <1>2, <2>3
    <3> QED BY <1>0, <1>1, <1>2, <1>4, <2>1, <3>1
  <2>4. N = q + 1
    BY <1>1, <1>2, <2>2, <2>3
  <2>5. D = (N - 1) * b + r /\ N # 0
    BY <1>0, <1>1, <2>4
  <2> QED BY <1>2, <1>4, <1>n, <1>r, <2>5
<1> QED BY <1>3, <1>4

(* The shares of the samplers: whole steps, and together no more than the  *)
(* epoch has.                                                              *)
LEMMA Shares ==
    ASSUME NEW i \in Sampler
    PROVE  /\ ShufflerSteps(i) \in Nat /\ StepOffset(i) \in Nat
           /\ StepOffset(i) + ShufflerSteps(i) <= NumStep
           /\ i = num_sample_worker - 1 => StepOffset(i) + ShufflerSteps(i) = NumStep
           /\ i # num_sample_worker - 1 =>
                    StepOffset(i) + ShufflerSteps(i) = StepOffset(i + 1)
<1> DEFINE n == num_sample_worker
           N == NumStep
           q == N \div n
           r == N % n
<1>0. n \in Nat \ {0} /\ N \in Nat /\ i \in Nat /\ i <= n - 1
  BY SplitAssumption, Steps DEF Sampler
<1>1. q \in Nat /\ r \in Nat /\ r < n /\ N = q * n + r
  BY <1>0
<1>2. StepOffset(i) = q * i /\ StepOffset(i + 1) = q * (i + 1)
  BY DEF StepOffset
<1>3. ShufflerSteps(i) = IF i = n - 1 THEN N - q * i ELSE q
  BY <1>2 DEF ShufflerSteps
<1> HIDE DEF n, N, q, r
<1>4. /\ q * i \in Nat /\ q * (i + 1) = q * i + q
      /\ q * (i + 1) <= q * n
  BY <1>0, <1>1
<1>5. q * n \in Nat /\ q * i <= N /\ q * (i + 1) <= N
  BY <1>0, <1>1, <1>4
<1>6. CASE i = n - 1
  BY <1>0, <1>1, <1>2, <1>3, <1>4, <1>5, <1>6 DEF n, N
<1>7. CASE i # n - 1
  BY <1>0, <1>1, <1>2, <1>3, <1>4, <1>5, <1>7 DEF n, N
<1> QED BY <1>6, <1>7

(* Only the last sampler ends where the epoch ends: every other one that   *)
(* has steps leaves some to it.                                            *)
LEMMA BeforeLast ==
    ASSUME NEW i \in Sampler, i # num_sample_worker - 1, ShufflerSteps(i) # 0
    PROVE  StepOffset(i) + ShufflerSteps(i) <= NumStep - 1
<1> DEFINE n == num_sample_worker
           N == NumStep
           q == N \div n
           r == N % n
<1>0. n \in Nat \ {0} /\ N \in Nat /\ i \in Nat /\ i + 1 <= n - 1
  BY SplitAssumption, Steps DEF Sampler
<1>1. q \in Nat /\ r \in Nat /\ r < n /\ N = q * n + r
  BY <1>0
<1>2. StepOffset(i) = q * i /\ ShufflerSteps(i) = q
  BY DEF StepOffset, ShufflerSteps
<1> HIDE DEF n, N, q, r
<1>3. q * i + q = q * (i + 1) /\ q * (i + 1) <= q * (n - 1) /\ q * (n - 1) = q * n - q
  BY <1>0, <1>1
<1> QED BY <1>0, <1>1, <1>2, <1>3 DEF N

(* Every step of an epoch belongs to one sampler and is one of its steps.  *)
LEMMA OneOwner ==
    ASSUME NEW i \in Sampler, NEW k \in Sampler,
           NEW s \in 0 .. ShufflerSteps(i) - 1, NEW t \in 0 .. ShufflerSteps(k) - 1,
           StepOffset(i) + s = StepOffset(k) + t
    PROVE  i = k /\ s = t
<1>1. ASSUME NEW x \in Sampler, NEW y \in Sampler, NEW u \in 0 .. ShufflerSteps(x) - 1, x < y
      PROVE  StepOffset(x) + u < StepOffset(y)
  <2> DEFINE q == NumStep \div num_sample_worker
  <2>1. /\ q \in Nat /\ x \in Nat /\ y \in Nat /\ x + 1 <= y
        /\ x # num_sample_worker - 1
    BY <1>1, SplitAssumption, Steps DEF Sampler
  <2>2. StepOffset(x) = q * x /\ StepOffset(y) = q * y /\ ShufflerSteps(x) = q
    BY <2>1 DEF StepOffset, ShufflerSteps
  <2>3. u \in Nat /\ u < q
    BY <2>1, <2>2
  <2> HIDE DEF q
  <2>4. q * x + q = q * (x + 1) /\ q * (x + 1) <= q * y
    BY <2>1
  <2>5. q * x \in Nat /\ q * y \in Nat
    BY <2>1
  <2> QED BY <2>1, <2>2, <2>3, <2>4, <2>5
<1>2. /\ i \in Nat /\ k \in Nat /\ s \in Nat /\ t \in Nat
      /\ StepOffset(i) \in Nat /\ StepOffset(k) \in Nat
  BY Shares DEF Sampler
<1>3. ~ (i < k)
  BY <1>1, <1>2
<1>4. ~ (k < i)
  BY <1>1, <1>2
<1>5. i = k
  BY <1>2, <1>3, <1>4
<1> QED BY <1>2, <1>5

LEMMA SomeOwner ==
    ASSUME NEW g \in 0 .. NumStep - 1
    PROVE  \E i \in Sampler : \E s \in 0 .. ShufflerSteps(i) - 1 : g = StepOffset(i) + s
<1> DEFINE n == num_sample_worker
           N == NumStep
           q == N \div n
<1>0. n \in Nat \ {0} /\ N \in Nat /\ g \in Nat /\ g <= N - 1 /\ n - 1 \in Sampler /\ q \in Nat
  BY SplitAssumption, Steps DEF Sampler
<1>1. StepOffset(n - 1) = q * (n - 1) /\ ShufflerSteps(n - 1) = N - q * (n - 1)
  BY DEF StepOffset, ShufflerSteps
<1>q. \A i : StepOffset(i) = q * i /\ (i # n - 1 => ShufflerSteps(i) = q)
  BY DEF StepOffset, ShufflerSteps
<1> HIDE DEF q, N
<1>2. CASE g >= q * (n - 1)
  <2> DEFINE o == q * (n - 1)
             s == g - o
  <2>1. o \in Nat /\ o <= g
    BY <1>0, <1>2
  <2>2. StepOffset(n - 1) = o /\ ShufflerSteps(n - 1) = N - o
    BY <1>1
  <2> HIDE DEF o
  <2>3. s \in 0 .. ShufflerSteps(n - 1) - 1 /\ g = StepOffset(n - 1) + s
    BY <1>0, <2>1, <2>2
  <2> QED BY <1>0, <2>3
<1>3. CASE g < q * (n - 1)
  <2>1. q # 0
    BY <1>0, <1>3
  <2> DEFINE i == g \div q
             s == g % q
  <2>2. i \in Nat /\ s \in Nat /\ s < q /\ g = i * q + s
    BY <1>0, <2>1
  <2> HIDE DEF i, s
  <2>3. i < n - 1
    <3>1. ASSUME i >= n - 1 PROVE FALSE
      <4>1. i * q >= (n - 1) * q /\ (n - 1) * q = q * (n - 1)
        BY <1>0, <2>2, <3>1
      <4> QED BY <1>0, <1>3, <2>2, <4>1
    <3> QED BY <1>0, <2>2, <3>1
  <2>4. i \in Sampler /\ StepOffset(i) = q * i /\ ShufflerSteps(i) = q
    BY <1>0, <1>q, <2>2, <2>3 DEF Sampler
  <2>5. s \in 0 .. ShufflerSteps(i) - 1 /\ g = StepOffset(i) + s
    BY <1>0, <2>2, <2>4
  <2> QED BY <2>4, <2>5
<1> QED BY <1>0, <1>2, <1>3

(* A batch of a sampler is in its share and not empty.                     *)
LEMMA BatchInShare ==
    ASSUME NEW i \in Sampler, NEW s \in 0 .. ShufflerSteps(i) - 1
    PROVE  /\ BatchSize(i, s) \in 1 .. batch_size
           /\ BatchOffset(s) \in Nat
           /\ SamplerDataSize(i) \in Nat
           /\ BatchOffset(s) + BatchSize(i, s) <= SamplerDataSize(i)
<1> DEFINE b == batch_size
           N == NumStep
           r == num_data % b
           c == ShufflerSteps(i)
           o == StepOffset(i)
<1>0. b \in Nat \ {0} /\ num_data \in Nat \ {0} /\ i \in Nat /\ i <= num_sample_worker - 1
      /\ num_sample_worker \in Nat
  BY SplitAssumption DEF Sampler
<1>1. /\ N \in Nat \ {0} /\ r \in 0 .. b - 1
      /\ r = 0 => num_data = N * b
      /\ r # 0 => num_data = (N - 1) * b + r
  BY Steps
<1>2. /\ c \in Nat /\ o \in Nat /\ s \in Nat /\ s + 1 <= c
      /\ i = num_sample_worker - 1 => o + c = N
  BY Shares
<1>3. /\ BatchOffset(s) = s * b
      /\ SamplerDataSize(i) = IF i = num_sample_worker - 1 THEN num_data - o * b ELSE c * b
      /\ BatchSize(i, s) = IF s = c - 1
                           THEN IF i < num_sample_worker - 1 \/ r = 0 THEN b ELSE r
                           ELSE b
  BY DEF BatchOffset, SamplerDataSize, BatchSize, LastBatchSize
<1> HIDE DEF b, N, r, c, o
<1>4. /\ s * b \in Nat /\ c * b \in Nat /\ o * b \in Nat
      /\ (s + 1) * b = s * b + b /\ (s + 1) * b <= c * b
  BY <1>0, <1>2
<1>5. CASE i # num_sample_worker - 1
  <2>1. i < num_sample_worker - 1
    BY <1>0, <1>5
  <2> QED BY <1>0, <1>3, <1>4, <1>5, <2>1 DEF b
<1>6. CASE i = num_sample_worker - 1
  <2>1. /\ N * b = o * b + c * b
        /\ (N - 1) * b = o * b + c * b - b
    BY <1>0, <1>1, <1>2, <1>6
  <2>2. CASE r = 0
    BY <1>0, <1>1, <1>3, <1>4, <1>6, <2>1, <2>2 DEF b
  <2>3. CASE r # 0 /\ s = c - 1
    <3>1. c * b = s * b + b
      BY <1>2, <1>4, <2>3
    <3> QED BY <1>0, <1>1, <1>3, <1>4, <1>6, <2>1, <2>3, <3>1 DEF b
  <2>4. CASE r # 0 /\ s # c - 1
    <3>1. (s + 2) * b <= c * b /\ (s + 2) * b = s * b + b + b
      BY <1>0, <1>2, <2>4
    <3> QED BY <1>0, <1>1, <1>3, <1>4, <1>6, <2>1, <2>4, <3>1 DEF b
  <2> QED BY <2>2, <2>3, <2>4
<1> QED BY <1>5, <1>6

(* The positions of step g of an epoch, whoever has it. *)
Block(g) == {x \in Position : g * batch_size <= x /\ x < (g + 1) * batch_size}

LEMMA RangeIsBlock ==
    ASSUME NEW i \in Sampler, NEW s \in 0 .. ShufflerSteps(i) - 1
    PROVE  BatchRange(i, s) = Block(StepOffset(i) + s)
<1> DEFINE b == batch_size
           N == NumStep
           r == num_data % b
           c == ShufflerSteps(i)
           o == StepOffset(i)
           g == o + s
           first == o * b + BatchOffset(s)
           z == BatchSize(i, s)
<1>0. /\ b \in Nat \ {0} /\ num_data \in Nat \ {0}
      /\ i \in Nat /\ i <= num_sample_worker - 1 /\ num_sample_worker \in Nat
  BY SplitAssumption DEF Sampler
<1>1. /\ N \in Nat \ {0} /\ r \in 0 .. b - 1
      /\ r = 0 => num_data = N * b
      /\ r # 0 => num_data = (N - 1) * b + r
  BY Steps
<1>2. /\ c \in Nat /\ o \in Nat /\ s \in Nat /\ s + 1 <= c /\ o + c <= N
      /\ i = num_sample_worker - 1 => o + c = N
      /\ i # num_sample_worker - 1 => o + c <= N - 1
  BY Shares, BeforeLast
<1>3. z = IF s = c - 1 THEN IF i < num_sample_worker - 1 \/ r = 0 THEN b ELSE r ELSE b
  BY DEF BatchSize, LastBatchSize
<1>4. BatchRange(i, s) = first .. first + z - 1
  BY DEF BatchRange
<1>b. b = batch_size /\ BatchOffset(s) = s * b
  BY DEF BatchOffset
<1> HIDE DEF b, N, r, c, o, g, first, z
<1>5. first = g * b /\ g \in Nat /\ g + 1 <= N
  <2>1. (o + s) * b = o * b + s * b
    BY <1>0, <1>2
  <2>2. first = g * b
    BY <1>b, <2>1 DEF first, g
  <2>3. g \in Nat /\ g + 1 <= N
    BY <1>1, <1>2 DEF g
  <2> QED BY <2>2, <2>3
<1>6. /\ g * b \in Nat /\ (g + 1) * b = g * b + b
      /\ N * b \in Nat /\ (N - 1) * b = N * b - b
  BY <1>0, <1>1, <1>5
<1>7. CASE g + 1 <= N - 1 \/ r = 0
  <2>1. z = b
    BY <1>0, <1>1, <1>2, <1>3, <1>7 DEF g
  <2>2. (g + 1) * b <= num_data
    <3>1. CASE r = 0
      <4>1. (g + 1) * b <= N * b
        BY <1>0, <1>1, <1>5
      <4> QED BY <1>1, <3>1, <4>1
    <3>2. CASE r # 0
      <4>1. (g + 1) * b <= (N - 1) * b
        BY <1>0, <1>1, <1>5, <1>7, <3>2
      <4> QED BY <1>0, <1>1, <1>6, <3>2, <4>1
    <3> QED BY <3>1, <3>2
  <2>3. \A x : x \in g * b .. g * b + b - 1 <=>
               x \in Position /\ g * b <= x /\ x < (g + 1) * b
    BY <1>0, <1>6, <2>2 DEF Position
  <2> QED BY <1>4, <1>5, <2>1, <2>3, <1>b DEF Block, g, o
<1>8. CASE g = N - 1 /\ r # 0
  <2>1. i = num_sample_worker - 1 /\ s = c - 1
    BY <1>2, <1>8 DEF g
  <2>2. z = r
    BY <1>0, <1>3, <1>8, <2>1
  <2>3. num_data = g * b + r
    BY <1>1, <1>8
  <2>4. \A x : x \in g * b .. g * b + r - 1 <=>
               x \in Position /\ g * b <= x /\ x < (g + 1) * b
    BY <1>0, <1>1, <1>6, <2>3 DEF Position
  <2> QED BY <1>4, <1>5, <2>2, <2>4, <1>b DEF Block, g, o
<1> QED BY <1>1, <1>5, <1>7, <1>8

LEMMA BlocksApart ==
    ASSUME NEW g \in Nat, NEW h \in Nat, g # h
    PROVE  Block(g) \cap Block(h) = {}
<1> SUFFICES ASSUME NEW x \in Block(g) \cap Block(h) PROVE FALSE
  OBVIOUS
<1>1. batch_size \in Nat \ {0} /\ x \in Nat
  BY SplitAssumption DEF Block, Position
<1>2. /\ g * batch_size <= x /\ x < (g + 1) * batch_size
      /\ h * batch_size <= x /\ x < (h + 1) * batch_size
  BY DEF Block
<1>3. CASE g + 1 <= h
  <2>1. (g + 1) * batch_size <= h * batch_size
    BY <1>1, <1>3
  <2>2. (g + 1) * batch_size \in Nat /\ h * batch_size \in Nat
    BY <1>1
  <2> QED BY <1>1, <1>2, <2>1, <2>2
<1>4. CASE h + 1 <= g
  <2>1. (h + 1) * batch_size <= g * batch_size
    BY <1>1, <1>4
  <2>2. (h + 1) * batch_size \in Nat /\ g * batch_size \in Nat
    BY <1>1
  <2> QED BY <1>1, <1>2, <2>1, <2>2
<1> QED BY <1>3, <1>4

LEMMA BlocksCover ==
    ASSUME NEW x \in Position
    PROVE  \E g \in 0 .. NumStep - 1 : x \in Block(g)
<1> DEFINE b == batch_size
           g == x \div b
           r == x % b
<1>0. b \in Nat \ {0} /\ x \in Nat /\ num_data \in Nat /\ x < num_data
  BY SplitAssumption DEF Position
<1>1. g \in Nat /\ r \in Nat /\ r < b /\ x = g * b + r
  BY <1>0
<1>b. b = batch_size
  OBVIOUS
<1> HIDE DEF b, g, r
<1>2. g * b \in Nat /\ (g + 1) * b = g * b + b
  BY <1>0, <1>1
<1>3. x \in Block(g)
  BY <1>0, <1>1, <1>2, <1>b DEF Block
<1>4. NumStep \in Nat /\ num_data <= NumStep * b
  <2> DEFINE m == num_data % batch_size
             N == NumStep
  <2>1. /\ N \in Nat \ {0} /\ m \in 0 .. b - 1
        /\ m = 0 => num_data = N * b
        /\ m # 0 => num_data = (N - 1) * b + m
    BY Steps, <1>b
  <2> HIDE DEF m, N
  <2>2. (N - 1) * b = N * b - b /\ N * b \in Nat
    BY <1>0, <2>1
  <2>3. N \in Nat /\ num_data <= N * b
    BY <1>0, <2>1, <2>2
  <2> QED BY <2>3 DEF N
<1>5. ASSUME g >= NumStep PROVE FALSE
  <2>1. g * b >= NumStep * b
    BY <1>0, <1>1, <1>4, <1>5
  <2>2. NumStep * b \in Nat
    BY <1>0, <1>4
  <2> QED BY <1>0, <1>1, <1>2, <1>4, <2>1, <2>2
<1> QED BY <1>1, <1>3, <1>4, <1>5

------------------------------------------------------------------------------
(***************************************************************************)
(* What GetBatch copies is in the share.  A shuffler that stands inside an *)
(* epoch has its share on the GPU; one that does not starts with a copy.   *)
(***************************************************************************)
Ready(i) ==
    IF shuffler[i].initialized
    THEN /\ shuffler[i].step \in 0 .. ShufflerSteps(i) - 1
         /\ DOMAIN gpu_data[i] = 0 .. SamplerDataSize(i) - 1
    ELSE shuffler[i].step = ShufflerSteps(i) /\ shuffler[i].epoch = 0

ShareInv ==
    /\ shuffler \in [Sampler -> [epoch : Nat, step : Nat, initialized : BOOLEAN]]
    /\ DOMAIN gpu_data = Sampler
    /\ \A i \in Sampler : Ready(i)
    /\ WithinShare

LEMMA ShareInit == Init => ShareInv
<1> SUFFICES ASSUME Init PROVE ShareInv
  OBVIOUS
<1>1. \A i \in Sampler : shuffler[i] = [epoch |-> 0, step |-> ShufflerSteps(i), initialized |-> FALSE]
  BY DEF Init, NewShuffler
<1> QED BY <1>1, Shares DEF Init, ShareInv, Ready, WithinShare, NewShuffler

LEMMA ShareStep ==
    ASSUME ShareInv, NEW i \in Sampler, GetBatch(i)
    PROVE  ShareInv'
<1> DEFINE sh == NextBatch(shuffler[i], i)
           reshuffle == sh.step = 0 /\ sh.epoch < num_epoch
           data == IF reshuffle THEN Shuffled(i, sh.epoch) ELSE train_set[i]
           share == IF reshuffle THEN Share(i, data) ELSE gpu_data[i]
           taken == {BatchOffset(sh.step) + n : n \in 0 .. BatchSize(i, sh.step) - 1}
<1>1. /\ ShufflerSteps(i) \in Nat \ {0}
      /\ shuffler[i] \in [epoch : Nat, step : Nat, initialized : BOOLEAN]
      /\ Ready(i) /\ num_epoch \in Nat \ {0}
  BY Shares, SplitAssumption DEF ShareInv, GetBatch
<1>2. /\ shuffler' = [shuffler EXCEPT ![i] = sh]
      /\ gpu_data' = [gpu_data EXCEPT ![i] = share]
  BY DEF GetBatch
<1>3. /\ sh \in [epoch : Nat, step : Nat, initialized : BOOLEAN]
      /\ sh.initialized /\ sh.step \in 0 .. ShufflerSteps(i) - 1
      /\ sh.step # 0 => shuffler[i].initialized
      /\ ~shuffler[i].initialized => sh.step = 0 /\ sh.epoch = 0
  <2>1. CASE shuffler[i].step + 1 < ShufflerSteps(i)
    <3>1. shuffler[i].initialized
      BY <1>1, <2>1 DEF Ready
    <3>2. sh = [epoch |-> shuffler[i].epoch, step |-> shuffler[i].step + 1,
                initialized |-> shuffler[i].initialized]
      BY <1>1, <2>1 DEF NextBatch
    <3> QED BY <1>1, <2>1, <3>1, <3>2
  <2>2. CASE ~ (shuffler[i].step + 1 < ShufflerSteps(i))
    <3>1. sh = [epoch |-> IF shuffler[i].initialized THEN shuffler[i].epoch + 1 ELSE 0,
                step |-> 0, initialized |-> TRUE]
      BY <2>2 DEF NextBatch
    <3> QED BY <1>1, <3>1
  <2> QED BY <2>1, <2>2
<1>4. DOMAIN share = 0 .. SamplerDataSize(i) - 1
  <2>1. CASE reshuffle
    BY <2>1 DEF Share
  <2>2. CASE ~reshuffle
    <3>1. shuffler[i].initialized
      BY <1>1, <1>3, <2>2
    <3> QED BY <1>1, <2>2, <3>1 DEF Ready
  <2> QED BY <2>1, <2>2
<1>5. taken \subseteq DOMAIN share /\ taken # {}
  <2> DEFINE o == BatchOffset(sh.step)
             z == BatchSize(i, sh.step)
  <2>1. o \in Nat /\ z \in Nat \ {0} /\ SamplerDataSize(i) \in Nat /\ o + z <= SamplerDataSize(i)
    BY <1>3, SplitAssumption, BatchInShare
  <2>2. taken = {o + n : n \in 0 .. z - 1}
    OBVIOUS
  <2> HIDE DEF o, z, taken, share
  <2>3. \A n \in 0 .. z - 1 : o + n \in 0 .. SamplerDataSize(i) - 1
    BY <2>1
  <2>4. o + 0 \in taken
    BY <2>1, <2>2
  <2> QED BY <1>4, <2>2, <2>3, <2>4
<1>6. WithinShare'
  <2> SUFFICES ASSUME NEW k \in batches' PROVE k.in_share /\ k.nodes # {}
    BY DEF WithinShare
  <2>1. CASE k \in batches
    BY <2>1 DEF ShareInv, WithinShare
  <2>2. CASE k \notin batches
    <3>1. k = [by |-> i, key |-> BatchKey(sh, i), in_share |-> taken \subseteq DOMAIN share,
               nodes |-> {share[p] : p \in taken \cap DOMAIN share}]
      BY <2>2 DEF GetBatch
    <3> HIDE DEF taken, share
    <3>2. PICK p : p \in taken \cap DOMAIN share
      BY <1>5
    <3> QED BY <1>5, <3>1, <3>2
  <2> QED BY <2>1, <2>2
<1>7. ASSUME NEW k \in Sampler PROVE Ready(k)'
  <2>1. CASE k = i
    <3>1. shuffler'[i] = sh /\ gpu_data'[i] = share
      BY <1>2 DEF ShareInv
    <3> HIDE DEF sh, share
    <3> QED BY <1>3, <1>4, <2>1, <3>1 DEF Ready
  <2>2. CASE k # i
    <3>1. shuffler'[k] = shuffler[k] /\ gpu_data'[k] = gpu_data[k]
      BY <1>2, <2>2 DEF ShareInv
    <3> QED BY <3>1 DEF Ready, ShareInv
  <2> QED BY <2>1, <2>2
<1>8. /\ shuffler' \in [Sampler -> [epoch : Nat, step : Nat, initialized : BOOLEAN]]
      /\ DOMAIN gpu_data' = Sampler
  <2> HIDE DEF sh, share
  <2> QED BY <1>2, <1>3 DEF ShareInv
<1> QED BY <1>6, <1>7, <1>8 DEF ShareInv

(* Whatever the sizes, GetBatch never copies beyond the share a sampler    *)
(* has on its GPU, and never returns an empty batch.                       *)
THEOREM CopiesWithinShare == Spec => []WithinShare
<1>1. ShareInv => WithinShare
  BY DEF ShareInv
<1>2. ShareInv /\ [Next]_vars => ShareInv'
  <2>1. ASSUME ShareInv, UNCHANGED vars PROVE ShareInv'
    BY <2>1 DEF ShareInv, vars, Ready, WithinShare
  <2> QED BY <2>1, ShareStep DEF Next
<1> QED BY <1>1, <1>2, ShareInit, PTL DEF Spec


------------------------------------------------------------------------------
(***************************************************************************)
(* The batches partition the train set.  There is one order of the train   *)
(* set in each epoch, F[e], although every sampler makes its own copy of   *)
(* it and none knows how far the others are: a sampler that comes to an    *)
(* epoch first fixes its order, and those that come later find the same.   *)
(***************************************************************************)
Epochs == 0 .. num_epoch - 1
Identity == [p \in Position |-> p]

Permutation(f) ==
    /\ f \in [Position -> Position]
    /\ \A p, q \in Position : f[p] = f[q] => p = q
    /\ \A q \in Position : \E p \in Position : f[p] = q

Before(F, e) == IF e = 0 THEN Identity ELSE F[e - 1]

Made(F, e) ==
    /\ Permutation(F[e])
    /\ F[e] = [p \in Position |-> Before(F, e)[Shuffle[e][p]]]

(* The epoch whose order a sampler has, although it may be beyond the last. *)
Cur(i) == IF shuffler[i].epoch < num_epoch THEN shuffler[i].epoch ELSE num_epoch - 1

Copy(F, i) ==
    IF shuffler[i].initialized
    THEN /\ \A e \in 0 .. Cur(i) : Made(F, e)
         /\ train_set[i] = F[Cur(i)]
         /\ gpu_data[i] = Share(i, F[Cur(i)])
    ELSE train_set[i] = Identity

(* The batch of step s of sampler i in epoch e, and whether it is out.     *)
BatchOf(F, i, e, s) ==
    [by |-> i, key |-> e * NumStep + StepOffset(i) + s, in_share |-> TRUE,
     nodes |-> {F[e][x] : x \in BatchRange(i, s)}]

Handed(i, e, s) ==
    /\ shuffler[i].initialized
    /\ e < shuffler[i].epoch \/ (e = shuffler[i].epoch /\ s <= shuffler[i].step)

History(F) ==
    /\ \A i \in Sampler : Copy(F, i)
    /\ \A i \in Sampler : \A e \in Epochs : \A s \in 0 .. ShufflerSteps(i) - 1 :
            Handed(i, e, s) => BatchOf(F, i, e, s) \in batches
    /\ \A b \in batches :
            \E i \in Sampler : \E e \in Epochs : \E s \in 0 .. ShufflerSteps(i) - 1 :
                Handed(i, e, s) /\ b = BatchOf(F, i, e, s)

HistoryInv ==
    /\ ShareInv
    /\ \A i \in Sampler : shuffler[i].epoch <= num_epoch
    /\ DOMAIN train_set = Sampler
    /\ \E F \in [Epochs -> [Position -> Position]] : History(F)

(* A shuffled permutation is one. *)
LEMMA Composed ==
    ASSUME NEW f, Permutation(f), NEW e \in Epochs
    PROVE  Permutation([p \in Position |-> f[Shuffle[e][p]]])
<1> DEFINE h == Shuffle[e]
           c == [p \in Position |-> f[h[p]]]
<1>1. /\ h \in [Position -> Position]
      /\ \A p, q \in Position : h[p] = h[q] => p = q
      /\ \A q \in Position : \E p \in Position : h[p] = q
  BY ShuffleAssumption DEF Epochs
<1> HIDE DEF h
<1>2. c \in [Position -> Position]
  BY <1>1 DEF Permutation
<1>3. ASSUME NEW p \in Position, NEW q \in Position, c[p] = c[q] PROVE p = q
  BY <1>1, <1>3 DEF Permutation
<1>4. ASSUME NEW q \in Position PROVE \E p \in Position : c[p] = q
  <2>1. PICK x \in Position : f[x] = q
    BY DEF Permutation
  <2>2. PICK p \in Position : h[p] = x
    BY <1>1
  <2> QED BY <2>1, <2>2
<1>5. Permutation(c)
  BY <1>2, <1>3, <1>4 DEF Permutation
<1> QED BY <1>5 DEF h

LEMMA IdentityPermutes == Permutation(Identity)
BY DEF Permutation, Identity

(* The places of a share a step takes, what is found at places of an array *)
(* that it has, and at places of a whole permutation.                      *)
Taken(i, s) == {BatchOffset(s) + n : n \in 0 .. BatchSize(i, s) - 1}

Found(array, places) == {array[p] : p \in places \cap DOMAIN array}

Nodes(f, places) == {f[x] : x \in places}

(* What GetBatch copies out of a share are the nodes of the batch.         *)
LEMMA SharedNodes ==
    ASSUME NEW i \in Sampler, NEW s \in 0 .. ShufflerSteps(i) - 1,
           NEW f \in [Position -> Position]
    PROVE  /\ Taken(i, s) \subseteq DOMAIN Share(i, f)
           /\ Found(Share(i, f), Taken(i, s)) = Nodes(f, BatchRange(i, s))
<1> DEFINE o == BatchOffset(s)
           z == BatchSize(i, s)
           d == SamplerDataSize(i)
           first == StepOffset(i) * batch_size
           taken == Taken(i, s)
<1>1. o \in Nat /\ z \in Nat \ {0} /\ d \in Nat /\ o + z <= d
  BY BatchInShare, SplitAssumption
<1>2. first \in Nat
  <2>1. StepOffset(i) \in Nat /\ batch_size \in Nat
    BY Shares, SplitAssumption
  <2> QED BY <2>1
<1>3. /\ DOMAIN Share(i, f) = 0 .. d - 1
      /\ \A p \in 0 .. d - 1 : Share(i, f)[p] = f[first + p]
  BY DEF Share
<1>4. BatchRange(i, s) = first + o .. first + o + z - 1
  BY DEF BatchRange
<1>5. taken = {o + n : n \in 0 .. z - 1}
  BY DEF Taken
<1> HIDE DEF o, z, d, first, taken
<1>6. taken = o .. o + z - 1
  <2>1. ASSUME NEW x \in o .. o + z - 1 PROVE x \in taken
    <3>1. x - o \in 0 .. z - 1 /\ x = o + (x - o)
      BY <1>1
    <3> QED BY <1>5, <3>1
  <2>2. ASSUME NEW x \in taken PROVE x \in o .. o + z - 1
    BY <1>1, <1>5
  <2> QED BY <2>1, <2>2
<1>7. taken \subseteq 0 .. d - 1
  BY <1>1, <1>6
<1>8. ASSUME NEW p \in taken PROVE first + p \in BatchRange(i, s)
  BY <1>1, <1>2, <1>4, <1>6
<1>9. ASSUME NEW x \in BatchRange(i, s) PROVE x - first \in taken /\ first + (x - first) = x
  <2>1. x \in first + o .. first + o + z - 1
    BY <1>4
  <2>2. x \in Int /\ first + o <= x /\ x <= first + o + z - 1
    BY <1>1, <1>2, <2>1
  <2>3. x - first \in o .. o + z - 1 /\ first + (x - first) = x
    BY <1>1, <1>2, <2>2
  <2> QED BY <1>6, <2>3
<1>10. {Share(i, f)[p] : p \in taken \cap DOMAIN Share(i, f)}
          \subseteq {f[x] : x \in BatchRange(i, s)}
  BY <1>3, <1>7, <1>8
<1>11. {f[x] : x \in BatchRange(i, s)}
          \subseteq {Share(i, f)[p] : p \in taken \cap DOMAIN Share(i, f)}
  <2> SUFFICES ASSUME NEW x \in BatchRange(i, s)
               PROVE  f[x] \in {Share(i, f)[p] : p \in taken \cap DOMAIN Share(i, f)}
    OBVIOUS
  <2>1. x - first \in taken \cap DOMAIN Share(i, f) /\ Share(i, f)[x - first] = f[x]
    BY <1>3, <1>7, <1>9
  <2> QED BY <2>1
<1>12. Found(Share(i, f), taken) = Nodes(f, BatchRange(i, s))
  BY <1>10, <1>11 DEF Found, Nodes
<1> QED BY <1>3, <1>7, <1>12 DEF taken

LEMMA HistoryInit == Init => HistoryInv
<1> SUFFICES ASSUME Init PROVE HistoryInv
  OBVIOUS
<1> DEFINE F == [e \in Epochs |-> Identity]
<1>1. ShareInv
  BY ShareInit
<1>2. \A i \in Sampler : ~shuffler[i].initialized /\ shuffler[i].epoch = 0 /\ train_set[i] = Identity
  BY DEF Init, NewShuffler, Identity
<1>3. batches = {} /\ DOMAIN train_set = Sampler
  BY DEF Init
<1>4. F \in [Epochs -> [Position -> Position]]
  BY DEF Identity
<1>5. History(F)
  BY <1>2, <1>3 DEF History, Copy, Handed
<1>6. \A i \in Sampler : shuffler[i].epoch <= num_epoch
  BY <1>2, SplitAssumption
<1> QED BY <1>1, <1>3, <1>4, <1>5, <1>6 DEF HistoryInv


(* What NextBatch does: a step further in the epoch, or the next epoch.    *)
LEMMA NextFacts ==
    ASSUME HistoryInv, NEW i \in Sampler, GetBatch(i)
    PROVE  LET sh == NextBatch(shuffler[i], i)
           IN  /\ shuffler[i].epoch \in Nat /\ shuffler[i].epoch < num_epoch
               /\ shuffler[i].step \in Nat
               /\ sh.initialized /\ sh.step \in 0 .. ShufflerSteps(i) - 1
               /\ sh.epoch \in 0 .. num_epoch
               /\ \/ /\ shuffler[i].initialized /\ sh.step # 0
                     /\ sh.epoch = shuffler[i].epoch /\ sh.step = shuffler[i].step + 1
                  \/ /\ shuffler[i].initialized /\ sh.step = 0
                     /\ sh.epoch = shuffler[i].epoch + 1
                     /\ shuffler[i].step = ShufflerSteps(i) - 1
                  \/ ~shuffler[i].initialized /\ sh.step = 0 /\ sh.epoch = 0
<1> DEFINE sh == NextBatch(shuffler[i], i)
<1>1. /\ ShufflerSteps(i) \in Nat \ {0}
      /\ shuffler[i] \in [epoch : Nat, step : Nat, initialized : BOOLEAN]
      /\ Ready(i) /\ num_epoch \in Nat \ {0} /\ shuffler[i].epoch < num_epoch
  BY Shares, SplitAssumption DEF HistoryInv, ShareInv, GetBatch
<1>2. CASE shuffler[i].step + 1 < ShufflerSteps(i)
  <2>1. shuffler[i].initialized
    BY <1>1, <1>2 DEF Ready
  <2>2. sh = [epoch |-> shuffler[i].epoch, step |-> shuffler[i].step + 1,
              initialized |-> shuffler[i].initialized]
    BY <1>1, <1>2 DEF NextBatch
  <2> QED BY <1>1, <1>2, <2>1, <2>2
<1>3. CASE ~ (shuffler[i].step + 1 < ShufflerSteps(i))
  <2>1. sh = [epoch |-> IF shuffler[i].initialized THEN shuffler[i].epoch + 1 ELSE 0,
              step |-> 0, initialized |-> TRUE]
    BY <1>3 DEF NextBatch
  <2>2. shuffler[i].initialized => shuffler[i].step = ShufflerSteps(i) - 1
    BY <1>1, <1>3 DEF Ready
  <2> QED BY <1>1, <2>1, <2>2
<1> QED BY <1>2, <1>3

(* With the order of the sampler's new epoch, F still explains all others: *)
(* G is F with the order of epoch E, which sampler i comes to.             *)
GoesOn(F, G, i, E) ==
    /\ Made(G, E) /\ G[E] = Shuffled(i, E)
    /\ \A k \in Sampler : shuffler[k].initialized =>
            \A e \in 0 .. Cur(k) : G[e] = F[e] /\ Made(G, e)

LEMMA NextOrder ==
    ASSUME NEW F \in [Epochs -> [Position -> Position]], HistoryInv, History(F),
           NEW i \in Sampler, NEW E \in Epochs,
           \/ shuffler[i].initialized /\ E = shuffler[i].epoch + 1
           \/ ~shuffler[i].initialized /\ E = 0
    PROVE  \E G \in [Epochs -> [Position -> Position]] : GoesOn(F, G, i, E)
<1>0. /\ num_epoch \in Nat \ {0} /\ E \in Nat /\ E < num_epoch
      /\ \A k \in Sampler : shuffler[k].epoch \in Nat /\ Cur(k) \in Epochs /\ Cur(k) \in Nat
  BY SplitAssumption DEF Epochs, Cur, HistoryInv, ShareInv
<1>1. train_set[i] = Before(F, E)
  <2>1. CASE shuffler[i].initialized /\ E = shuffler[i].epoch + 1
    <3>1. Cur(i) = E - 1 /\ E # 0
      BY <1>0, <2>1 DEF Cur
    <3> QED BY <2>1, <3>1 DEF History, Copy, Before
  <2>2. CASE ~shuffler[i].initialized /\ E = 0
    BY <2>2 DEF History, Copy, Before
  <2> QED BY <2>1, <2>2
<1>2. Shuffled(i, E) = [p \in Position |-> Before(F, E)[Shuffle[E][p]]]
  BY <1>1 DEF Shuffled
<1>3. CASE \E k \in Sampler : shuffler[k].initialized /\ Cur(k) >= E
  <2>1. PICK k \in Sampler : shuffler[k].initialized /\ Cur(k) >= E
    BY <1>3
  <2>2. Made(F, E)
    BY <1>0, <2>1 DEF History, Copy
  <2>3. F[E] = Shuffled(i, E)
    BY <1>2, <2>2 DEF Made
  <2>4. \A m \in Sampler : shuffler[m].initialized => \A e \in 0 .. Cur(m) : Made(F, e)
    BY DEF History, Copy
  <2> QED BY <2>2, <2>3, <2>4 DEF GoesOn
<1>4. CASE \A k \in Sampler : shuffler[k].initialized => Cur(k) < E
  <2> DEFINE G == [F EXCEPT ![E] = Shuffled(i, E)]
  <2>1. Permutation(Before(F, E))
    <3>1. CASE shuffler[i].initialized /\ E = shuffler[i].epoch + 1
      <4>1. Cur(i) = E - 1 /\ E # 0 /\ E - 1 \in 0 .. Cur(i)
        BY <1>0, <3>1 DEF Cur
      <4> QED BY <3>1, <4>1 DEF History, Copy, Before, Made
    <3>2. CASE ~shuffler[i].initialized /\ E = 0
      BY <3>2, IdentityPermutes DEF Before
    <3> QED BY <3>1, <3>2
  <2>2. Permutation(Shuffled(i, E))
    BY <1>2, <2>1, Composed
  <2>3. G \in [Epochs -> [Position -> Position]] /\ G[E] = Shuffled(i, E)
    BY <2>2 DEF Permutation
  <2>4. \A e \in Epochs : e # E => G[e] = F[e]
    OBVIOUS
  <2> HIDE DEF G
  <2>5. Before(G, E) = Before(F, E)
    <3>1. E # 0 => E - 1 \in Epochs /\ E - 1 # E
      BY <1>0 DEF Epochs
    <3> QED BY <2>4, <3>1 DEF Before
  <2>6. Made(G, E)
    BY <1>2, <2>2, <2>3, <2>5 DEF Made
  <2>7. ASSUME NEW k \in Sampler, shuffler[k].initialized, NEW e \in 0 .. Cur(k)
        PROVE  G[e] = F[e] /\ Made(G, e)
    <3>1. e \in Epochs /\ e \in Nat /\ e < E
      BY <1>0, <1>4, <2>7 DEF Epochs
    <3>2. e # 0 => e - 1 \in Epochs /\ e - 1 # E
      BY <1>0, <3>1 DEF Epochs
    <3>3. G[e] = F[e] /\ Before(G, e) = Before(F, e)
      BY <2>4, <3>1, <3>2 DEF Before
    <3>4. Made(F, e)
      BY <2>7 DEF History, Copy
    <3> QED BY <3>3, <3>4 DEF Made
  <2> QED BY <2>3, <2>6, <2>7 DEF GoesOn
<1> QED BY <1>0, <1>3, <1>4


LEMMA HistoryStep ==
    ASSUME HistoryInv, NEW i \in Sampler, GetBatch(i)
    PROVE  HistoryInv'
<1> DEFINE sh == NextBatch(shuffler[i], i)
           reshuffle == sh.step = 0 /\ sh.epoch < num_epoch
           data == IF reshuffle THEN Shuffled(i, sh.epoch) ELSE train_set[i]
           share == IF reshuffle THEN Share(i, data) ELSE gpu_data[i]
           taken == {BatchOffset(sh.step) + n : n \in 0 .. BatchSize(i, sh.step) - 1}
           new == [by |-> i, key |-> BatchKey(sh, i), in_share |-> taken \subseteq DOMAIN share,
                   nodes |-> {share[p] : p \in taken \cap DOMAIN share}]
           old == shuffler[i]
<1>1. ShareInv'
  BY ShareStep DEF HistoryInv
<1>2. /\ shuffler' = [shuffler EXCEPT ![i] = sh]
      /\ train_set' = [train_set EXCEPT ![i] = data]
      /\ gpu_data' = [gpu_data EXCEPT ![i] = share]
      /\ batches' = IF sh.epoch >= num_epoch THEN batches ELSE batches \cup {new}
  BY DEF GetBatch
<1>3. /\ old.epoch \in Nat /\ old.epoch < num_epoch /\ old.step \in Nat
      /\ sh.initialized /\ sh.step \in 0 .. ShufflerSteps(i) - 1
      /\ sh.epoch \in 0 .. num_epoch
      /\ \/ old.initialized /\ sh.step # 0 /\ sh.epoch = old.epoch /\ sh.step = old.step + 1
         \/ /\ old.initialized /\ sh.step = 0 /\ sh.epoch = old.epoch + 1
            /\ old.step = ShufflerSteps(i) - 1
         \/ ~old.initialized /\ sh.step = 0 /\ sh.epoch = 0
  BY NextFacts
<1>4. num_epoch \in Nat \ {0} /\ ShufflerSteps(i) \in Nat
  BY SplitAssumption, Shares
<1>e. sh.epoch < num_epoch => sh.epoch \in Epochs
  <2> HIDE DEF sh
  <2> QED BY <1>3, <1>4 DEF Epochs
<1>5. /\ shuffler'[i] = sh /\ train_set'[i] = data /\ gpu_data'[i] = share
      /\ DOMAIN train_set' = Sampler
      /\ \A k \in Sampler : k # i => /\ shuffler'[k] = shuffler[k]
                                     /\ train_set'[k] = train_set[k]
                                     /\ gpu_data'[k] = gpu_data[k]
  BY <1>2 DEF HistoryInv, ShareInv
<1>6. PICK F \in [Epochs -> [Position -> Position]] : History(F)
  BY DEF HistoryInv
<1> HIDE DEF sh, data, share, taken, new
<1>7. \A k \in Sampler : shuffler[k].epoch \in Nat /\ Cur(k) \in Epochs
  BY <1>4 DEF Epochs, Cur, HistoryInv, ShareInv
(* The order G: F with the order of the epoch that i comes to, if it does. *)
<1>8. PICK G \in [Epochs -> [Position -> Position]] :
        /\ \A k \in Sampler : shuffler[k].initialized =>
                \A e \in 0 .. Cur(k) : G[e] = F[e] /\ Made(G, e)
        /\ reshuffle => Made(G, sh.epoch) /\ G[sh.epoch] = data
  <2>1. CASE reshuffle
    <3>1. sh.epoch \in Epochs
      BY <1>e, <2>1
    <3>2. \/ shuffler[i].initialized /\ sh.epoch = shuffler[i].epoch + 1
          \/ ~shuffler[i].initialized /\ sh.epoch = 0
      BY <1>3, <2>1
    <3>3. data = Shuffled(i, sh.epoch)
      BY <2>1 DEF data
    <3>4. PICK G \in [Epochs -> [Position -> Position]] : GoesOn(F, G, i, sh.epoch)
      BY <1>6, <3>1, <3>2, NextOrder
    <3> QED BY <2>1, <3>3, <3>4 DEF GoesOn
  <2>2. CASE ~reshuffle
    BY <1>6, <2>2 DEF History, Copy
  <2> QED BY <2>1, <2>2
(* The sampler has the order of its epoch, as before or as of now. *)
<1>9. Copy(G, i)'
  <2>1. CASE reshuffle
    <3>1. Cur(i)' = sh.epoch
      BY <1>5, <2>1 DEF Cur
    <3>2. \A e \in 0 .. sh.epoch : Made(G, e)
      <4>1. CASE old.initialized /\ sh.epoch = old.epoch + 1
        <5>1. Cur(i) = old.epoch
          BY <1>3 DEF Cur
        <5>2. \A e \in 0 .. sh.epoch : e \in 0 .. Cur(i) \/ e = sh.epoch
          BY <1>3, <4>1, <5>1
        <5> QED BY <1>8, <2>1, <4>1, <5>2
      <4>2. CASE ~old.initialized /\ sh.epoch = 0
        BY <1>8, <2>1, <4>2
      <4> QED BY <1>3, <2>1, <4>1, <4>2
    <3>3. data = G[sh.epoch] /\ share = Share(i, data)
      BY <1>8, <2>1 DEF share
    <3> QED BY <1>3, <1>5, <3>1, <3>2, <3>3 DEF Copy, Share
  <2>2. CASE ~reshuffle
    <3>1. old.initialized
      BY <1>3, <1>4, <2>2
    <3>2. Cur(i)' = Cur(i)
      BY <1>3, <1>4, <1>5, <2>2 DEF Cur
    <3>3. data = train_set[i] /\ share = gpu_data[i]
      BY <2>2 DEF data, share
    <3>4. Cur(i) \in 0 .. Cur(i)
      BY <1>7 DEF Epochs
    <3>5. train_set[i] = G[Cur(i)] /\ gpu_data[i] = Share(i, G[Cur(i)])
      BY <1>6, <1>8, <3>1, <3>4 DEF History, Copy
    <3> QED BY <1>5, <1>8, <3>1, <3>2, <3>3, <3>5, <1>3 DEF Copy, Share
  <2> QED BY <2>1, <2>2
<1>10. ASSUME NEW k \in Sampler PROVE Copy(G, k)'
  <2>1. CASE k = i
    BY <1>9, <2>1
  <2>2. CASE k # i
    <3>1. Cur(k)' = Cur(k) /\ Cur(k) \in 0 .. Cur(k)
      BY <1>5, <1>7, <2>2 DEF Cur, Epochs
    <3>2. CASE shuffler[k].initialized
      <4>1. train_set[k] = G[Cur(k)] /\ gpu_data[k] = Share(k, G[Cur(k)])
        BY <1>6, <1>8, <3>1, <3>2 DEF History, Copy
      <4> QED BY <1>5, <1>8, <2>2, <3>1, <3>2, <4>1 DEF Copy, Share
    <3>3. CASE ~shuffler[k].initialized
      BY <1>5, <1>6, <2>2, <3>3 DEF History, Copy
    <3> QED BY <3>2, <3>3
  <2> QED BY <2>1, <2>2
(* What is out: all that was, and the batch of this call if it is one. *)
<1>11. ASSUME NEW k \in Sampler, NEW e \in Epochs, NEW s \in 0 .. ShufflerSteps(k) - 1
       PROVE  Handed(k, e, s)' <=>
                Handed(k, e, s) \/ (k = i /\ sh.epoch < num_epoch /\ e = sh.epoch /\ s = sh.step)
  <2>1. CASE k # i
    BY <1>5, <2>1 DEF Handed
  <2>2. CASE k = i
    <3>1. /\ e \in Nat /\ e < num_epoch /\ s \in Nat /\ s <= ShufflerSteps(i) - 1
          /\ Handed(k, e, s)' <=> e < sh.epoch \/ (e = sh.epoch /\ s <= sh.step)
          /\ Handed(k, e, s) <=> /\ old.initialized
                                 /\ e < old.epoch \/ (e = old.epoch /\ s <= old.step)
      BY <1>3, <1>4, <1>5, <2>2 DEF Handed, Epochs
    <3> QED BY <1>3, <1>4, <2>2, <3>1
  <2> QED BY <2>1, <2>2
<1>12. ASSUME NEW k \in Sampler, NEW e \in Epochs, NEW s \in 0 .. ShufflerSteps(k) - 1,
              Handed(k, e, s)
       PROVE  BatchOf(G, k, e, s) = BatchOf(F, k, e, s)
  <2>1. shuffler[k].initialized /\ e \in 0 .. Cur(k)
    BY <1>4, <1>7, <1>12 DEF Handed, Cur, Epochs
  <2>2. G[e] = F[e]
    BY <1>8, <2>1
  <2> QED BY <2>2 DEF BatchOf
<1>13. ASSUME sh.epoch < num_epoch PROVE new = BatchOf(G, i, sh.epoch, sh.step)
  <2>1. sh.epoch \in Epochs /\ Cur(i)' = sh.epoch
    BY <1>e, <1>5, <1>13 DEF Cur
  <2>2. share = Share(i, G[sh.epoch])
    BY <1>3, <1>5, <1>9, <2>1 DEF Copy, Share
  <2>3. G[sh.epoch] \in [Position -> Position]
    BY <2>1
  <2>4. /\ taken \subseteq DOMAIN share
        /\ {share[p] : p \in taken \cap DOMAIN share}
              = {G[sh.epoch][x] : x \in BatchRange(i, sh.step)}
    <3> DEFINE s == sh.step
    <3>1. s \in 0 .. ShufflerSteps(i) - 1
      BY <1>3
    <3>2. taken = {BatchOffset(s) + n : n \in 0 .. BatchSize(i, s) - 1}
      BY DEF taken
    <3> HIDE DEF s
    <3> DEFINE f == G[sh.epoch]
    <3>3. f \in [Position -> Position]
      BY <2>3
    <3>4. share = Share(i, f)
      BY <2>2
    <3>5. taken = Taken(i, s)
      BY <3>2 DEF Taken
    <3> HIDE DEF f, share, taken
    <3>6. taken \subseteq DOMAIN share /\ Found(share, taken) = Nodes(f, BatchRange(i, s))
      BY <3>1, <3>3, <3>4, <3>5, SharedNodes
    <3>7. /\ taken \subseteq DOMAIN share
          /\ {share[p] : p \in taken \cap DOMAIN share} = {f[x] : x \in BatchRange(i, s)}
      BY <3>6 DEF Found, Nodes
    <3> QED BY <3>7 DEF s, f
  <2> QED BY <2>4 DEF new, BatchOf, BatchKey
<1>14. ASSUME NEW k \in Sampler, NEW e \in Epochs, NEW s \in 0 .. ShufflerSteps(k) - 1,
              Handed(k, e, s)'
       PROVE  BatchOf(G, k, e, s) \in batches'
  <2>1. CASE Handed(k, e, s)
    <3>1. BatchOf(F, k, e, s) \in batches
      BY <1>6, <2>1 DEF History
    <3> QED BY <1>2, <1>12, <2>1, <3>1
  <2>2. CASE k = i /\ sh.epoch < num_epoch /\ e = sh.epoch /\ s = sh.step
    <3>1. batches' = batches \cup {new}
      BY <1>2, <1>3, <1>4, <2>2
    <3> QED BY <1>13, <2>2, <3>1
  <2> QED BY <1>11, <1>14, <2>1, <2>2
<1>15. ASSUME NEW b \in batches'
       PROVE  \E k \in Sampler : \E e \in Epochs : \E s \in 0 .. ShufflerSteps(k) - 1 :
                Handed(k, e, s)' /\ b = BatchOf(G, k, e, s)
  <2>1. CASE b \in batches
    <3>1. PICK k \in Sampler, e \in Epochs : \E s \in 0 .. ShufflerSteps(k) - 1 :
                Handed(k, e, s) /\ b = BatchOf(F, k, e, s)
      BY <1>6, <2>1 DEF History
    <3>2. PICK s \in 0 .. ShufflerSteps(k) - 1 : Handed(k, e, s) /\ b = BatchOf(F, k, e, s)
      BY <3>1
    <3>3. Handed(k, e, s)' /\ b = BatchOf(G, k, e, s)
      BY <1>11, <1>12, <3>2
    <3> QED BY <3>3
  <2>2. CASE b \notin batches
    <3>1. b = new /\ sh.epoch < num_epoch
      BY <1>2, <1>3, <1>4, <2>2
    <3>2. sh.epoch \in Epochs
      BY <1>e, <3>1
    <3>3. PICK e \in Epochs : e = sh.epoch
      BY <3>2
    <3>4. PICK s \in 0 .. ShufflerSteps(i) - 1 : s = sh.step
      BY <1>3
    <3>5. Handed(i, e, s)' /\ b = BatchOf(G, i, e, s)
      BY <1>11, <1>13, <3>1, <3>3, <3>4
    <3> QED BY <3>5
  <2> QED BY <2>1, <2>2
<1>16. History(G)'
  BY <1>10, <1>14, <1>15 DEF History, BatchOf
<1>17. \A k \in Sampler : shuffler'[k].epoch <= num_epoch
  BY <1>3, <1>4, <1>5 DEF HistoryInv
<1> QED BY <1>1, <1>5, <1>16, <1>17 DEF HistoryInv

LEMMA HistoryNext == HistoryInv /\ [Next]_vars => HistoryInv'
<1>1. ASSUME HistoryInv, UNCHANGED vars PROVE HistoryInv'
  <2>1. UNCHANGED <<shuffler, train_set, gpu_data, batches>>
    BY <1>1 DEF vars
  <2>2. ShareInv'
    BY <1>1, <2>1 DEF HistoryInv, ShareInv, Ready, WithinShare
  <2>3. PICK F \in [Epochs -> [Position -> Position]] : History(F)
    BY <1>1 DEF HistoryInv
  <2>4. \A i \in Sampler : Copy(F, i)'
    BY <2>1, <2>3 DEF History, Copy, Cur
  <2>5. \A i, e, s : Handed(i, e, s)' <=> Handed(i, e, s)
    BY <2>1 DEF Handed
  <2>6. History(F)'
    BY <2>1, <2>3, <2>4, <2>5 DEF History
  <2> QED BY <1>1, <2>1, <2>2, <2>6 DEF HistoryInv
<1> QED BY <1>1, HistoryStep DEF Next

(* A batch knows its epoch by its key, and two of an epoch with the same   *)
(* key are the same.                                                       *)
LEMMA KeyOfBatch ==
    ASSUME NEW F, NEW i \in Sampler, NEW e \in Epochs, NEW s \in 0 .. ShufflerSteps(i) - 1
    PROVE  /\ BatchOf(F, i, e, s).key = e * NumStep + (StepOffset(i) + s)
           /\ StepOffset(i) + s \in 0 .. NumStep - 1
           /\ EpochOf(BatchOf(F, i, e, s)) = e
<1> DEFINE N == NumStep
           g == StepOffset(i) + s
<1>1. N \in Nat \ {0} /\ e \in Nat
  BY Steps DEF Epochs
<1>2. StepOffset(i) \in Nat /\ s \in Nat /\ g \in Nat /\ g < N
  BY Shares, Steps
<1>3. BatchOf(F, i, e, s).key = e * NumStep + StepOffset(i) + s
  BY DEF BatchOf
<1>4. e * N \in Nat
  BY <1>1
<1> HIDE DEF N
<1>5. e * N + StepOffset(i) + s = e * N + g
  BY <1>2, <1>4
<1> HIDE DEF g
<1>6. (e * N + g) \div N = e
  <2> DEFINE a == e * N + g
             q == a \div N
             m == a % N
  <2>1. a \in Nat /\ q \in Nat /\ m \in Nat /\ m < N /\ a = q * N + m
    BY <1>1, <1>2, <1>4
  <2>2. a = e * N + g
    OBVIOUS
  <2> HIDE DEF a, q, m
  <2>3. q * N - e * N = g - m
    BY <1>1, <1>2, <1>4, <2>1, <2>2
  <2>4. ASSUME q >= e + 1 PROVE FALSE
    <3>1. q * N >= (e + 1) * N /\ (e + 1) * N = e * N + N
      BY <1>1, <2>1, <2>4
    <3> QED BY <1>1, <1>2, <1>4, <2>1, <2>3, <3>1
  <2>5. ASSUME e >= q + 1 PROVE FALSE
    <3>1. e * N >= (q + 1) * N /\ (q + 1) * N = q * N + N
      BY <1>1, <2>1, <2>5
    <3> QED BY <1>1, <1>2, <1>4, <2>1, <2>3, <3>1
  <2>6. q = e
    BY <1>1, <2>1, <2>4, <2>5
  <2> QED BY <2>6 DEF q, a
<1>7. EpochOf(BatchOf(F, i, e, s)) = BatchOf(F, i, e, s).key \div N
  BY DEF EpochOf, N
<1>8. BatchOf(F, i, e, s).key = e * N + g
  BY <1>3, <1>5 DEF N
<1>9. g \in 0 .. N - 1
  BY <1>1, <1>2
<1>10. EpochOf(BatchOf(F, i, e, s)) = e
  BY <1>6, <1>7, <1>8
<1> QED BY <1>8, <1>9, <1>10 DEF N, g

(* In every epoch the batches of all samplers are disjoint; when all have  *)
(* left it, its NumStep batches have covered the train set.                *)
THEOREM BatchesPartition == Spec => []EpochPartition
<1>1. HistoryInv => EpochPartition
  <2> SUFFICES ASSUME HistoryInv, NEW e \in 0 .. num_epoch - 1
               PROVE  LET handed == {b \in batches : EpochOf(b) = e}
                      IN  /\ \A b, c \in handed : b # c => b.nodes \cap c.nodes = {}
                          /\ (\A i \in Sampler : ShufflerSteps(i) > 0 => shuffler[i].epoch > e)
                             => /\ Cardinality(handed) = NumStep
                                /\ UNION {b.nodes : b \in handed} = Position
    BY DEF EpochPartition
  <2> DEFINE handed == {b \in batches : EpochOf(b) = e}
  <2>1. PICK F \in [Epochs -> [Position -> Position]] : History(F)
    BY DEF HistoryInv
  <2>2. e \in Epochs /\ e \in Nat
    BY DEF Epochs
  <2>3. ASSUME NEW b \in handed
        PROVE  \E i \in Sampler : \E s \in 0 .. ShufflerSteps(i) - 1 :
                  Handed(i, e, s) /\ b = BatchOf(F, i, e, s)
    <3>1. PICK i \in Sampler, d \in Epochs : \E s \in 0 .. ShufflerSteps(i) - 1 :
                  Handed(i, d, s) /\ b = BatchOf(F, i, d, s)
      BY <2>1 DEF History
    <3>2. PICK s \in 0 .. ShufflerSteps(i) - 1 : Handed(i, d, s) /\ b = BatchOf(F, i, d, s)
      BY <3>1
    <3>3. d = e
      BY <3>2, KeyOfBatch
    <3> QED BY <3>2, <3>3
  <2>4. ASSUME NEW i \in Sampler, NEW s \in 0 .. ShufflerSteps(i) - 1, Handed(i, e, s)
        PROVE  Permutation(F[e])
    <3>1. shuffler[i].initialized /\ shuffler[i].epoch \in Nat /\ num_epoch \in Nat
      BY <2>4, SplitAssumption DEF Handed, HistoryInv, ShareInv
    <3>2. e \in 0 .. Cur(i)
      BY <2>2, <2>4, <3>1 DEF Handed, Cur, Epochs
    <3> QED BY <2>1, <3>1, <3>2 DEF History, Copy, Made
  <2>5. ASSUME NEW b \in handed, NEW c \in handed, b # c
        PROVE  b.nodes \cap c.nodes = {}
    <3>1. PICK i \in Sampler : \E s \in 0 .. ShufflerSteps(i) - 1 :
                  Handed(i, e, s) /\ b = BatchOf(F, i, e, s)
      BY <2>3
    <3>2. PICK s \in 0 .. ShufflerSteps(i) - 1 : Handed(i, e, s) /\ b = BatchOf(F, i, e, s)
      BY <3>1
    <3>3. PICK k \in Sampler : \E t \in 0 .. ShufflerSteps(k) - 1 :
                  Handed(k, e, t) /\ c = BatchOf(F, k, e, t)
      BY <2>3
    <3>4. PICK t \in 0 .. ShufflerSteps(k) - 1 : Handed(k, e, t) /\ c = BatchOf(F, k, e, t)
      BY <3>3
    <3>5. StepOffset(i) + s # StepOffset(k) + t
      BY <2>5, <3>2, <3>4, OneOwner
    <3>6. StepOffset(i) + s \in Nat /\ StepOffset(k) + t \in Nat
      BY Shares
    <3>7. BatchRange(i, s) \cap BatchRange(k, t) = {}
      BY <3>5, <3>6, RangeIsBlock, BlocksApart
    <3>8. BatchRange(i, s) \subseteq Position /\ BatchRange(k, t) \subseteq Position
      BY RangeIsBlock DEF Block
    <3>9. /\ b.nodes = {F[e][x] : x \in BatchRange(i, s)}
          /\ c.nodes = {F[e][x] : x \in BatchRange(k, t)}
      BY <3>2, <3>4 DEF BatchOf
    <3>10. Permutation(F[e])
      BY <2>4, <3>2
    <3> QED BY <3>7, <3>8, <3>9, <3>10 DEF Permutation
  <2>6. ASSUME \A i \in Sampler : ShufflerSteps(i) > 0 => shuffler[i].epoch > e
        PROVE  Cardinality(handed) = NumStep /\ UNION {b.nodes : b \in handed} = Position
    <3>1. ASSUME NEW g \in 0 .. NumStep - 1
          PROVE  \E i \in Sampler : \E s \in 0 .. ShufflerSteps(i) - 1 :
                    g = StepOffset(i) + s /\ Handed(i, e, s) /\ BatchOf(F, i, e, s) \in handed
      <4>1. PICK i \in Sampler : \E s \in 0 .. ShufflerSteps(i) - 1 : g = StepOffset(i) + s
        BY SomeOwner
      <4>2. PICK s \in 0 .. ShufflerSteps(i) - 1 : g = StepOffset(i) + s
        BY <4>1
      <4>3. ShufflerSteps(i) > 0
        BY Shares
      <4>4. shuffler[i].epoch > e /\ shuffler[i].initialized
        BY <2>2, <2>6, <4>3 DEF HistoryInv, ShareInv, Ready
      <4>5. Handed(i, e, s)
        BY <4>4 DEF Handed
      <4>6. BatchOf(F, i, e, s) \in batches
        BY <2>1, <2>2, <4>5 DEF History
      <4>7. EpochOf(BatchOf(F, i, e, s)) = e
        BY <2>2, KeyOfBatch
      <4> QED BY <4>2, <4>5, <4>6, <4>7
    <3>2. ASSUME NEW b \in handed, NEW c \in handed, b.key = c.key
          PROVE  b = c
      <4>1. PICK i \in Sampler : \E s \in 0 .. ShufflerSteps(i) - 1 : b = BatchOf(F, i, e, s)
        BY <2>3
      <4>2. PICK s \in 0 .. ShufflerSteps(i) - 1 : b = BatchOf(F, i, e, s)
        BY <4>1
      <4>3. PICK k \in Sampler : \E t \in 0 .. ShufflerSteps(k) - 1 : c = BatchOf(F, k, e, t)
        BY <2>3
      <4>4. PICK t \in 0 .. ShufflerSteps(k) - 1 : c = BatchOf(F, k, e, t)
        BY <4>3
      <4>5. e * NumStep \in Nat
        BY <2>2, Steps
      <4>6. StepOffset(i) + s = StepOffset(k) + t
        BY <2>2, <3>2, <4>2, <4>4, <4>5, KeyOfBatch
      <4> QED BY <4>2, <4>4, <4>6, OneOwner
    <3>3. Cardinality(handed) = NumStep
      <4> DEFINE KeyAt(n) == e * NumStep + (n - 1)
                 f == [n \in 1 .. NumStep |-> CHOOSE b \in handed : b.key = KeyAt(n)]
      <4>1. NumStep \in Nat /\ e * NumStep \in Nat
        BY <2>2, Steps
      <4> HIDE DEF handed
      <4>2. ASSUME NEW n \in 1 .. NumStep PROVE \E b \in handed : b.key = KeyAt(n)
        <5>1. n - 1 \in 0 .. NumStep - 1
          BY <4>1
        <5>2. PICK i \in Sampler : \E s \in 0 .. ShufflerSteps(i) - 1 :
                    n - 1 = StepOffset(i) + s /\ BatchOf(F, i, e, s) \in handed
          BY <3>1, <5>1
        <5>3. PICK s \in 0 .. ShufflerSteps(i) - 1 :
                    n - 1 = StepOffset(i) + s /\ BatchOf(F, i, e, s) \in handed
          BY <5>2
        <5>4. BatchOf(F, i, e, s).key = KeyAt(n)
          BY <2>2, <5>3, KeyOfBatch
        <5> QED BY <5>3, <5>4
      <4>3. \A n \in 1 .. NumStep : f[n] \in handed /\ f[n].key = KeyAt(n)
        BY <4>2
      <4>4. \A n, m \in 1 .. NumStep : f[n] = f[m] => n = m
        <5> SUFFICES ASSUME NEW n \in 1 .. NumStep, NEW m \in 1 .. NumStep, f[n] = f[m]
                     PROVE  n = m
          OBVIOUS
        <5>1. KeyAt(n) = KeyAt(m)
          BY <4>3
        <5> QED BY <4>1, <5>1
      <4>5. ASSUME NEW b \in handed PROVE \E n \in 1 .. NumStep : f[n] = b
        <5>1. PICK i \in Sampler : \E s \in 0 .. ShufflerSteps(i) - 1 : b = BatchOf(F, i, e, s)
          BY <2>3 DEF handed
        <5>2. PICK s \in 0 .. ShufflerSteps(i) - 1 : b = BatchOf(F, i, e, s)
          BY <5>1
        <5> DEFINE g == StepOffset(i) + s
        <5>3. g \in 0 .. NumStep - 1 /\ b.key = e * NumStep + g
          BY <2>2, <5>2, KeyOfBatch
        <5> HIDE DEF g
        <5>4. g + 1 \in 1 .. NumStep /\ (g + 1) - 1 = g
          BY <4>1, <5>3
        <5>5. f[g + 1] \in handed /\ f[g + 1].key = KeyAt(g + 1)
          BY <4>3, <5>4
        <5>6. f[g + 1] = b
          BY <3>2, <5>3, <5>4, <5>5 DEF handed
        <5> QED BY <5>4, <5>6
      <4> HIDE DEF f
      <4>6. f \in [1 .. NumStep -> handed]
        BY <4>3 DEF f
      <4>7. f \in Bijection(1 .. NumStep, handed)
        BY <4>4, <4>5, <4>6 DEF Bijection, Injection, Surjection, IsInjective
      <4>8. ExistsBijection(1 .. NumStep, handed)
        BY <4>7 DEF ExistsBijection
      <4> QED BY <4>1, <4>8, FS_CountingElements
    <3>4. UNION {b.nodes : b \in handed} \subseteq Position
      <4> SUFFICES ASSUME NEW b \in handed PROVE b.nodes \subseteq Position
        OBVIOUS
      <4>1. PICK i \in Sampler : \E s \in 0 .. ShufflerSteps(i) - 1 : b = BatchOf(F, i, e, s)
        BY <2>3
      <4>2. PICK s \in 0 .. ShufflerSteps(i) - 1 : b = BatchOf(F, i, e, s)
        BY <4>1
      <4>3. BatchRange(i, s) \subseteq Position /\ F[e] \in [Position -> Position]
        BY <2>2, RangeIsBlock DEF Block
      <4> QED BY <4>2, <4>3 DEF BatchOf
    <3>5. ASSUME NEW x \in Position PROVE \E b \in handed : x \in b.nodes
      <4>1. PICK i \in Sampler : \E s \in 0 .. ShufflerSteps(i) - 1 : Handed(i, e, s)
        <5>1. 0 \in 0 .. NumStep - 1
          BY Steps
        <5> QED BY <3>1, <5>1
      <4>2. Permutation(F[e])
        BY <2>4, <4>1
      <4>3. PICK y \in Position : F[e][y] = x
        BY <4>2 DEF Permutation
      <4>4. PICK g \in 0 .. NumStep - 1 : y \in Block(g)
        BY BlocksCover
      <4>5. PICK k \in Sampler : \E s \in 0 .. ShufflerSteps(k) - 1 :
                    g = StepOffset(k) + s /\ BatchOf(F, k, e, s) \in handed
        BY <3>1
      <4>6. PICK s \in 0 .. ShufflerSteps(k) - 1 :
                    g = StepOffset(k) + s /\ BatchOf(F, k, e, s) \in handed
        BY <4>5
      <4>7. y \in BatchRange(k, s)
        BY <4>4, <4>6, RangeIsBlock
      <4>8. x \in BatchOf(F, k, e, s).nodes
        BY <4>3, <4>7 DEF BatchOf
      <4> QED BY <4>6, <4>8
    <3> QED BY <3>3, <3>4, <3>5
  <2> QED BY <2>5, <2>6
<1> QED BY <1>1, HistoryInit, HistoryNext, PTL DEF Spec

LEMMA KeyInRange ==
    ASSUME NEW e \in Epochs, NEW g \in 0 .. NumStep - 1
    PROVE  e * NumStep + g \in 0 .. num_epoch * NumStep - 1
<1> DEFINE N == NumStep
           E == num_epoch
<1>1. N \in Nat /\ E \in Nat /\ e \in Nat /\ e + 1 <= E /\ g \in Nat /\ g < N
  BY Steps, SplitAssumption DEF Epochs
<1> HIDE DEF N, E
<1>2. e * N \in Nat /\ (e + 1) * N = e * N + N /\ (e + 1) * N <= E * N /\ E * N \in Nat
  BY <1>1
<1>3. e * N + g \in 0 .. E * N - 1
  BY <1>1, <1>2
<1> QED BY <1>3 DEF N, E

(* Type correctness: no shuffler goes beyond the epoch after the last, its  *)
(* copy of the train set keeps all nodes, and the keys are those of the run. *)
THEOREM TypeCorrect == Spec => []TypeOK
<1>1. HistoryInv => TypeOK
  <2> SUFFICES ASSUME HistoryInv PROVE TypeOK
    OBVIOUS
  <2>1. PICK F \in [Epochs -> [Position -> Position]] : History(F)
    BY DEF HistoryInv
  <2>2. ASSUME NEW i \in Sampler
        PROVE  /\ shuffler[i].epoch \in 0 .. num_epoch
               /\ shuffler[i].step \in 0 .. ShufflerSteps(i)
               /\ train_set[i] \in [Position -> Position]
    <3>1. /\ shuffler[i].epoch \in Nat /\ shuffler[i].epoch <= num_epoch /\ num_epoch \in Nat \ {0}
          /\ ShufflerSteps(i) \in Nat
      BY SplitAssumption, Shares DEF HistoryInv, ShareInv
    <3>2. shuffler[i].step \in 0 .. ShufflerSteps(i)
      BY <3>1 DEF HistoryInv, ShareInv, Ready
    <3>3. Cur(i) \in Epochs
      BY <3>1 DEF Cur, Epochs
    <3>4. train_set[i] = F[Cur(i)] \/ train_set[i] = Identity
      BY <2>1 DEF History, Copy
    <3> QED BY <3>1, <3>2, <3>3, <3>4 DEF Identity
  <2>3. ASSUME NEW b \in batches
        PROVE  /\ b.by \in Sampler /\ b.key \in 0 .. num_epoch * NumStep - 1
               /\ b.nodes \subseteq Position
    <3>1. PICK i \in Sampler, e \in Epochs :
                \E s \in 0 .. ShufflerSteps(i) - 1 : b = BatchOf(F, i, e, s)
      BY <2>1 DEF History
    <3>2. PICK s \in 0 .. ShufflerSteps(i) - 1 : b = BatchOf(F, i, e, s)
      BY <3>1
    <3>3. /\ b.by = i /\ b.nodes = {F[e][x] : x \in BatchRange(i, s)}
          /\ BatchRange(i, s) \subseteq Position
      BY <3>2, RangeIsBlock DEF BatchOf, Block
    <3>4. b.key = e * NumStep + (StepOffset(i) + s) /\ StepOffset(i) + s \in 0 .. NumStep - 1
      BY <3>2, KeyOfBatch
    <3>5. b.key \in 0 .. num_epoch * NumStep - 1
      BY <3>4, KeyInRange
    <3> QED BY <3>3, <3>5
  <2> QED BY <2>2, <2>3 DEF TypeOK
<1> QED BY <1>1, HistoryInit, HistoryNext, PTL DEF Spec
==============================================================================
