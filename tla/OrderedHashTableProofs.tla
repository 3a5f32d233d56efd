------------------------ MODULE OrderedHashTableProofs ------------------------
(***************************************************************************)
(* For any graph, fanout, size of the table and number of threads: a node  *)
(* never gets two buckets, the tables are inverse to each other between    *)
(* fills, and the fills implement NodeNumbering, however the threads       *)
(* interleave.  The first part is about the path of a node: all buckets    *)
(* that come before its own in its probe sequence are taken by others, and *)
(* so are all that a thread has passed; buckets are not emptied during a   *)
(* mini-batch, so paths stay.  The second part says what the fields of a   *)
(* bucket are while the threads write them, the third that the prefix sums *)
(* give the new items the next numbers.                                    *)
(***************************************************************************)
EXTENDS OrderedHashTable, FiniteSetTheorems, SequenceTheorems, WellFoundedInduction, TLAPS

(* The tables and threads are what the actions take them for.              *)
Thread == [at : {"try", "write", "read", "place", "done"}, attempt : Nat,
           left : SUBSET {"index", "version"}, match : BOOLEAN]

Shape ==
    /\ DOMAIN o2n = Bucket
    /\ \A p \in Bucket :
        DOMAIN o2n[p] = {"key", "local", "index", "version"} /\ o2n[p].key \in IdsOrEmpty
    /\ DOMAIN input \subseteq Int
    /\ \A i \in DOMAIN input : input[i] \in Ids
    /\ thread \in [DOMAIN input -> Thread]

Taken(p, id) == o2n[p].key # Empty /\ o2n[p].key # id

(* Every node stands in the first bucket of its probe sequence that no     *)
(* other node has.                                                         *)
NodePath ==
    \A p \in Bucket : o2n[p].key # Empty =>
        \E n \in Nat :
            /\ Probe(o2n[p].key, n) = p
            /\ \A m \in 0 .. n - 1 : Taken(Probe(o2n[p].key, m), o2n[p].key)

(* A thread has passed only buckets that other nodes have. *)
ThreadPath ==
    kernel = "insert" =>
        \A i \in DOMAIN input : \A m \in 0 .. thread[i].attempt - 1 :
            Taken(Probe(input[i], m), input[i])

PInv == Shape /\ NodePath /\ ThreadPath

(* HashO2N stays in the table. *)
LEMMA ProbeInBucket ==
    ASSUME NEW id \in Ids, NEW n \in Nat
    PROVE  Probe(id, n) \in Bucket
<1>1. id \in Int /\ n * (n + 1) \in Int
    BY HashTableAssumption
<1>2. (n * (n + 1)) \div 2 \in Int
    BY <1>1
<1>3. id + (n * (n + 1)) \div 2 \in Int
    BY <1>1, <1>2
<1> QED
    BY <1>3, BucketAssumption DEF Probe, Bucket

LEMMA EmptyIsNoId == Empty \notin Ids
    BY HashTableAssumption DEF Empty

(* The path of a node fixes its bucket. *)
LEMMA PathGivesKeyOnce ==
    ASSUME Shape, NodePath
    PROVE  KeyOnce
<1> SUFFICES ASSUME NEW p \in Bucket, NEW q \in Bucket,
                    o2n[p].key # Empty, o2n[p].key = o2n[q].key
             PROVE  p = q
    BY DEF KeyOnce
<1> DEFINE id == o2n[p].key
<1>1. PICK n \in Nat : /\ Probe(id, n) = p
                       /\ \A m \in 0 .. n - 1 : Taken(Probe(id, m), id)
    BY DEF NodePath
<1>2. PICK k \in Nat : /\ Probe(id, k) = q
                       /\ \A m \in 0 .. k - 1 : Taken(Probe(id, m), id)
    BY DEF NodePath
<1>3. ~(n < k)
    <2> SUFFICES ASSUME n < k PROVE FALSE
        OBVIOUS
    <2>1. Taken(p, id)
        BY <1>1, <1>2
    <2> QED
        BY <2>1 DEF Taken
<1>4. ~(k < n)
    <2> SUFFICES ASSUME k < n PROVE FALSE
        OBVIOUS
    <2>1. Taken(q, id)
        BY <1>1, <1>2
    <2> QED
        BY <2>1 DEF Taken
<1>5. n = k
    BY <1>3, <1>4
<1> QED
    BY <1>1, <1>2, <1>5

(* Steps that leave the keys, the items and the attempts alone keep both   *)
(* paths.                                                                  *)
LEMMA PathsStay ==
    ASSUME PInv, Shape',
           \A p \in Bucket : o2n'[p].key = o2n[p].key,
           kernel' = "insert" =>
                /\ kernel = "insert" /\ input' = input
                /\ \A i \in DOMAIN input : thread'[i].attempt = thread[i].attempt
    PROVE  NodePath' /\ ThreadPath'
<1>1. NodePath'
    <2> SUFFICES ASSUME NEW p \in Bucket, o2n[p].key # Empty
                 PROVE  \E n \in Nat :
                            /\ Probe(o2n[p].key, n) = p
                            /\ \A m \in 0 .. n - 1 : Taken(Probe(o2n[p].key, m), o2n[p].key)'
        BY DEF NodePath, Probe, Bucket
    <2>1. o2n[p].key \in Ids
        BY DEF PInv, Shape, IdsOrEmpty
    <2>2. PICK n \in Nat :
            /\ Probe(o2n[p].key, n) = p
            /\ \A m \in 0 .. n - 1 : Taken(Probe(o2n[p].key, m), o2n[p].key)
        BY DEF PInv, NodePath
    <2>3. ASSUME NEW m \in 0 .. n - 1 PROVE Taken(Probe(o2n[p].key, m), o2n[p].key)'
        BY <2>1, <2>2, ProbeInBucket DEF Taken
    <2> QED
        BY <2>2, <2>3
<1>2. ThreadPath'
    <2> SUFFICES ASSUME kernel' = "insert", NEW i \in DOMAIN input,
                        NEW m \in 0 .. thread[i].attempt - 1
                 PROVE  Taken(Probe(input[i], m), input[i])'
        BY DEF ThreadPath
    <2>1. input[i] \in Ids /\ m \in Nat
        BY DEF PInv, Shape
    <2>2. Taken(Probe(input[i], m), input[i])
        BY DEF PInv, ThreadPath
    <2> QED
        BY <2>1, <2>2, ProbeInBucket DEF Taken
<1> QED
    BY <1>1, <1>2

------------------------------------------------------------------------------
LEMMA InitPaths == Init => PInv
<1> SUFFICES ASSUME Init PROVE PInv
    OBVIOUS
<1>1. Shape
    BY DEF Init, Shape, EmptyBucket, IdsOrEmpty, Empty
<1>2. NodePath
    BY DEF Init, NodePath, EmptyBucket
<1>3. ThreadPath
    BY DEF Init, ThreadPath
<1> QED
    BY <1>1, <1>2, <1>3 DEF PInv

(* Reset empties the table; there is nothing left to find. *)
LEMMA ResetPaths == PInv /\ Reset => PInv'
<1> SUFFICES ASSUME PInv, Reset PROVE PInv'
    OBVIOUS
<1>1. Shape'
    BY DEF PInv, Shape, Reset, EmptyBucket, IdsOrEmpty, Empty, fillVars
<1>2. NodePath'
    BY DEF NodePath, Reset, EmptyBucket
<1>3. ThreadPath'
    BY DEF ThreadPath, Reset, fillVars
<1> QED
    BY <1>1, <1>2, <1>3 DEF PInv

(* New threads start at the head of their path. *)
LEMMA LaunchPaths ==
    ASSUME PInv, NEW how, NEW n \in Int, NEW items \in Items(n), Launch(how, items)
    PROVE  PInv'
<1>1. DOMAIN items = 0 .. n - 1 /\ \A i \in DOMAIN items : items[i] \in Ids
    BY DEF Items
<1>2. Shape'
    BY <1>1 DEF PInv, Shape, Launch, Thread, tableVars
<1>3. ASSUME NEW p \in Bucket PROVE o2n'[p].key = o2n[p].key
    BY DEF Launch, tableVars
<1>4. NodePath'
    BY DEF PInv, NodePath, Launch, tableVars, Taken, Probe, Bucket
<1>5. ThreadPath'
    BY <1>1 DEF ThreadPath, Launch
<1> QED
    BY <1>2, <1>4, <1>5 DEF PInv

(* The heart of the matter: an atomicCAS that wins takes the first bucket  *)
(* on the path of its node that is not taken by another.                   *)
LEMMA AttemptPaths ==
    ASSUME PInv, NEW i \in DOMAIN input, AttemptInsert(i)
    PROVE  PInv'
<1> DEFINE p0 == Pos(i)
           id0 == input[i]
           Held(p, id) == o2n'[p].key # Empty /\ o2n'[p].key # id
<1>1. id0 \in Ids /\ thread[i].attempt \in Nat /\ i \in Int
    BY DEF PInv, Shape, Thread
<1>2. p0 \in Bucket /\ p0 = Probe(id0, thread[i].attempt)
    BY <1>1, ProbeInBucket DEF Pos
<1>3. kernel = "insert" /\ kernel' = "insert" /\ input' = input
    BY DEF AttemptInsert, Inserting
<1>4. CASE o2n[p0].key = Empty
    <2>1. /\ o2n' = [o2n EXCEPT ![p0].key = id0]
          /\ thread' = [thread EXCEPT ![i].at = "write"]
        BY <1>1, <1>4, EmptyIsNoId DEF AttemptInsert
    <2>2. o2n'[p0].key = id0 /\ \A p \in Bucket : p # p0 => o2n'[p].key = o2n[p].key
        BY <2>1, <1>2 DEF PInv, Shape
    <2>3. Shape'
        <3>1. /\ DOMAIN o2n' = Bucket
              /\ \A p \in Bucket : DOMAIN o2n'[p] = DOMAIN o2n[p]
            BY <2>1, <1>2 DEF PInv, Shape
        <3>2. \A p \in Bucket : o2n'[p].key \in IdsOrEmpty
            BY <2>2, <1>1 DEF PInv, Shape, IdsOrEmpty
        <3>3. thread' \in [DOMAIN input -> Thread]
            BY <2>1 DEF PInv, Shape, Thread
        <3> QED
            BY <3>1, <3>2, <3>3, <1>3 DEF PInv, Shape
    <2>4. ASSUME NEW p \in Bucket, NEW id \in Ids, Taken(p, id) PROVE Held(p, id)
        BY <2>2, <2>4, <1>4 DEF Taken
    <2>5. \A m \in 0 .. thread[i].attempt - 1 : Held(Probe(id0, m), id0)
        <3> SUFFICES ASSUME NEW m \in 0 .. thread[i].attempt - 1
                     PROVE  Held(Probe(id0, m), id0)
            OBVIOUS
        <3>1. m \in Nat /\ Taken(Probe(id0, m), id0)
            BY <1>1, <1>3 DEF PInv, ThreadPath
        <3> QED
            BY <3>1, <2>4, <1>1, ProbeInBucket
    <2>6. NodePath'
        <3> SUFFICES ASSUME NEW p \in Bucket, o2n'[p].key # Empty
                     PROVE  \E n \in Nat :
                                /\ Probe(o2n'[p].key, n) = p
                                /\ \A m \in 0 .. n - 1 : Held(Probe(o2n'[p].key, m), o2n'[p].key)
            BY DEF NodePath, Taken, Probe, Bucket
        <3>1. CASE p = p0
            BY <3>1, <2>2, <2>5, <1>1, <1>2
        <3>2. CASE p # p0
            <4>1. o2n'[p].key = o2n[p].key /\ o2n[p].key \in Ids
                BY <3>2, <2>2 DEF PInv, Shape, IdsOrEmpty
            <4>2. PICK n \in Nat :
                    /\ Probe(o2n[p].key, n) = p
                    /\ \A m \in 0 .. n - 1 : Taken(Probe(o2n[p].key, m), o2n[p].key)
                BY <4>1 DEF PInv, NodePath
            <4>3. ASSUME NEW m \in 0 .. n - 1 PROVE Held(Probe(o2n[p].key, m), o2n[p].key)
                BY <4>1, <4>2, <2>4, ProbeInBucket
            <4> QED
                BY <4>1, <4>2, <4>3
        <3> QED
            BY <3>1, <3>2
    <2>7. ThreadPath'
        <3> SUFFICES ASSUME NEW j \in DOMAIN input, NEW m \in 0 .. thread'[j].attempt - 1
                     PROVE  Held(Probe(input[j], m), input[j])
            BY <1>3 DEF ThreadPath, Taken, Probe
        <3>1. thread'[j].attempt = thread[j].attempt
            BY <2>1 DEF PInv, Shape, Thread
        <3>2. input[j] \in Ids /\ m \in Nat /\ Taken(Probe(input[j], m), input[j])
            BY <3>1, <1>3 DEF PInv, Shape, Thread, ThreadPath
        <3> QED
            BY <3>2, <2>4, ProbeInBucket
    <2> QED
        BY <2>3, <2>6, <2>7 DEF PInv
<1>5. CASE o2n[p0].key = id0
    <2>1. o2n' = o2n /\ thread' = [thread EXCEPT ![i].at = AfterInsert]
        BY <1>5, <1>1, EmptyIsNoId DEF AttemptInsert
    <2>2. AfterInsert \in {"place", "done", "read"}
        BY DEF AfterInsert
    <2>3. thread' \in [DOMAIN input -> Thread]
        BY <2>1, <2>2 DEF PInv, Shape, Thread
    <2>4. Shape'
        BY <2>1, <2>3, <1>3 DEF PInv, Shape
    <2>5. \A j \in DOMAIN input : thread'[j].attempt = thread[j].attempt
        BY <2>1 DEF PInv, Shape, Thread
    <2> QED
        BY <2>1, <2>4, <2>5, <1>3, PathsStay DEF PInv
<1>6. CASE o2n[p0].key # Empty /\ o2n[p0].key # id0
    <2>1. o2n' = o2n /\ thread' = [thread EXCEPT ![i].attempt = @ + 1]
        BY <1>6 DEF AttemptInsert
    <2>2. thread' \in [DOMAIN input -> Thread]
        BY <2>1 DEF PInv, Shape, Thread
    <2>3. Shape'
        BY <2>1, <2>2, <1>3 DEF PInv, Shape
    <2>4. NodePath'
        BY <2>1 DEF PInv, NodePath, Taken, Probe, Bucket
    <2>5. ThreadPath'
        <3> SUFFICES ASSUME NEW j \in DOMAIN input, NEW m \in 0 .. thread'[j].attempt - 1
                     PROVE  Taken(Probe(input[j], m), input[j])
            BY <2>1, <1>3 DEF ThreadPath, Probe, Taken
        <3>1. CASE j # i
            BY <3>1, <2>1, <1>3 DEF PInv, Shape, Thread, ThreadPath
        <3>2. CASE j = i /\ m = thread[i].attempt
            BY <3>2, <1>2, <1>6 DEF Taken
        <3>3. CASE j = i /\ m # thread[i].attempt
            <4>1. thread'[i].attempt = thread[i].attempt + 1
                BY <2>1 DEF PInv, Shape, Thread
            <4>2. m \in 0 .. thread[i].attempt - 1
                BY <3>3, <4>1, <1>1
            <4> QED
                BY <3>3, <4>2, <1>3 DEF PInv, ThreadPath
        <3> QED
            BY <3>1, <3>2, <3>3
    <2> QED
        BY <2>3, <2>4, <2>5 DEF PInv
<1> QED
    BY <1>4, <1>5, <1>6

(* The winner writes other fields than the key. *)
LEMMA WriteFieldPaths ==
    ASSUME PInv, NEW i \in DOMAIN input, WriteField(i)
    PROVE  PInv'
<1>1. PICK f \in thread[i].left, at \in {"write", "place", "done"} :
        /\ o2n' = [o2n EXCEPT ![Pos(i)][f] = IF f = "index" THEN i ELSE version]
        /\ thread' = [thread EXCEPT ![i].left = @ \ {f}, ![i].at = at]
    BY DEF WriteField
<1>2. f \in {"index", "version"}
    BY DEF PInv, Shape, Thread
<1>3. kernel' = kernel /\ input' = input
    BY DEF WriteField
<1>4. Pos(i) \in Bucket
    BY ProbeInBucket DEF PInv, Shape, Thread, Pos
<1>5. /\ DOMAIN o2n' = Bucket
      /\ \A p \in Bucket : DOMAIN o2n'[p] = DOMAIN o2n[p] /\ o2n'[p].key = o2n[p].key
    BY <1>1, <1>2, <1>4 DEF PInv, Shape
<1>6. thread' \in [DOMAIN input -> Thread]
    <2>1. thread[i] \in Thread /\ thread \in [DOMAIN input -> Thread]
        BY DEF PInv, Shape
    <2>2. [thread[i] EXCEPT !.left = @ \ {f}, !.at = at] \in Thread
        BY <2>1 DEF Thread
    <2>3. thread' = [thread EXCEPT ![i] = [thread[i] EXCEPT !.left = @ \ {f}, !.at = at]]
        BY <1>1, <2>1
    <2> QED
        BY <2>1, <2>2, <2>3
<1>7. \A j \in DOMAIN input : thread'[j].attempt = thread[j].attempt
    BY <1>1 DEF PInv, Shape, Thread
<1>8. Shape'
    BY <1>3, <1>5, <1>6 DEF PInv, Shape
<1> QED
    BY <1>3, <1>5, <1>7, <1>8, PathsStay DEF PInv

LEMMA ReadFieldPaths ==
    ASSUME PInv, NEW i \in DOMAIN input, ReadField(i)
    PROVE  PInv'
<1>1. PICK f \in thread[i].left, at \in {"done", "read"}, match \in BOOLEAN :
        thread' = [thread EXCEPT ![i].left = @ \ {f}, ![i].match = match, ![i].at = at]
    <2>1. PICK f \in thread[i].left :
            LET match == thread[i].match /\ o2n[Pos(i)][f] = (IF f = "index" THEN i ELSE version)
            IN  thread' = [thread EXCEPT ![i].left = @ \ {f}, ![i].match = match,
                             ![i].at = IF thread[i].left = {f} THEN "done" ELSE "read"]
        BY DEF ReadField
    <2> QED
        BY <2>1
<1>2. kernel' = kernel /\ input' = input /\ o2n' = o2n
    BY DEF ReadField, tableVars
<1>3. thread' \in [DOMAIN input -> Thread]
    <2>1. thread[i] \in Thread /\ thread \in [DOMAIN input -> Thread]
        BY DEF PInv, Shape
    <2>2. [thread[i] EXCEPT !.left = @ \ {f}, !.match = match, !.at = at] \in Thread
        BY <2>1 DEF Thread
    <2>3. thread' = [thread EXCEPT ![i] =
                        [thread[i] EXCEPT !.left = @ \ {f}, !.match = match, !.at = at]]
        BY <1>1, <2>1
    <2> QED
        BY <2>1, <2>2, <2>3
<1>4. \A j \in DOMAIN input : thread'[j].attempt = thread[j].attempt
    BY <1>1 DEF PInv, Shape, Thread
<1>5. Shape'
    BY <1>2, <1>3 DEF PInv, Shape
<1> QED
    BY <1>2, <1>4, <1>5, PathsStay DEF PInv

LEMMA PlacePaths ==
    ASSUME PInv, NEW i \in DOMAIN input, Place(i)
    PROVE  PInv'
<1>1. /\ o2n' = [o2n EXCEPT ![Pos(i)].local = num_items + i]
      /\ thread' = [thread EXCEPT ![i].at = "done"]
      /\ kernel' = kernel /\ input' = input
    BY DEF Place
<1>2. Pos(i) \in Bucket
    BY ProbeInBucket DEF PInv, Shape, Thread, Pos
<1>3. /\ DOMAIN o2n' = Bucket
      /\ \A p \in Bucket : DOMAIN o2n'[p] = DOMAIN o2n[p] /\ o2n'[p].key = o2n[p].key
    BY <1>1, <1>2 DEF PInv, Shape
<1>4. thread' \in [DOMAIN input -> Thread]
    BY <1>1 DEF PInv, Shape, Thread
<1>5. \A j \in DOMAIN input : thread'[j].attempt = thread[j].attempt
    BY <1>1 DEF PInv, Shape, Thread
<1>6. Shape'
    BY <1>1, <1>3, <1>4 DEF PInv, Shape
<1> QED
    BY <1>1, <1>3, <1>5, <1>6, PathsStay DEF PInv

(* Behind the insert kernel there are no threads, and keys stay.           *)
LEMMA CompactPaths == PInv /\ Compact => PInv'
<1> SUFFICES ASSUME PInv, Compact PROVE PInv'
    OBVIOUS
<1>1. kernel' = "none" /\ input' = << >> /\ thread' = << >>
    BY DEF Compact
<1>2. ASSUME NEW p \in Bucket
      PROVE  DOMAIN o2n'[p] = DOMAIN o2n[p] /\ o2n'[p].key = o2n[p].key
    <2> DEFINE new == IF kind = "mutable" THEN counted ELSE {i \in DOMAIN input : Owned(i)}
               numberOf(q) == {Number(i, new) : i \in {j \in new : SearchPos(input[j]) = q}}
               local == CHOOSE k \in numberOf(p) : TRUE
    <2>1. o2n'[p] = IF numberOf(p) = {} THEN o2n[p] ELSE [o2n[p] EXCEPT !.local = local]
        BY DEF Compact
    <2> HIDE DEF new, numberOf, local
    <2>2. "key" \in DOMAIN o2n[p]
        BY DEF PInv, Shape
    <2> QED
        BY <2>1, <2>2
<1>3. DOMAIN o2n' = Bucket
    BY DEF Compact
<1>4. DOMAIN input' = {} /\ thread' \in [DOMAIN input' -> Thread]
    BY <1>1
<1>5. Shape'
    BY <1>2, <1>3, <1>4 DEF PInv, Shape
<1> QED
    BY <1>1, <1>2, <1>5, PathsStay DEF PInv

LEMMA OtherPaths ==
    ASSUME PInv, o2n' = o2n,
           \/ UNCHANGED <<kernel, input, thread>>
           \/ kernel' # "insert" /\ UNCHANGED <<input, thread>>
           \/ kernel' # "insert" /\ input' = << >> /\ thread' = << >>
    PROVE  PInv'
<1>1. CASE input' = input /\ thread' = thread
    <2>1. Shape'
        BY <1>1 DEF PInv, Shape
    <2> QED
        BY <1>1, <2>1, PathsStay DEF PInv, Shape
<1>2. CASE kernel' # "insert" /\ input' = << >> /\ thread' = << >>
    <2>1. DOMAIN input' = {} /\ thread' \in [DOMAIN input' -> Thread]
        BY <1>2
    <2>2. Shape'
        BY <2>1 DEF PInv, Shape
    <2> QED
        BY <1>2, <2>2, PathsStay DEF PInv, Shape
<1> QED
    BY <1>1, <1>2

LEMMA StepPaths == PInv /\ [Next]_vars => PInv'
<1> SUFFICES ASSUME PInv, [Next]_vars PROVE PInv'
    OBVIOUS
<1>1. CASE Reset
    BY <1>1, ResetPaths
<1>2. CASE FillWithUnique
    BY <1>2, LaunchPaths, HashTableAssumption DEF FillWithUnique
<1>3. ASSUME NEW how, FillWithSampled(how) PROVE PInv'
    <2>1. PICK n \in 1 .. MaxSampled : n <= MaxItems /\ \E items \in Items(n) : Launch(how, items)
        BY <1>3 DEF FillWithSampled
    <2> QED
        BY <2>1, LaunchPaths
<1>4. ASSUME NEW how, FillWithNothing(how) PROVE PInv'
    BY <1>4, OtherPaths DEF FillWithNothing, tableVars, fillVars
<1>5. ASSUME NEW i \in DOMAIN input, ThreadStep(i) PROVE PInv'
    BY <1>5, AttemptPaths, WriteFieldPaths, ReadFieldPaths, PlacePaths DEF ThreadStep
<1>6. CASE Count
    BY <1>6, OtherPaths DEF Count, tableVars
<1>7. CASE Compact
    BY <1>7, CompactPaths
<1>8. CASE FillWithUniqueEnd
    BY <1>8, OtherPaths DEF FillWithUniqueEnd, tableVars
<1>9. CASE UNCHANGED vars
    BY <1>9, OtherPaths DEF vars, tableVars, fillVars
<1> QED
    BY <1>1, <1>2, <1>3, <1>4, <1>5, <1>6, <1>7, <1>8, <1>9 DEF Next

(* Whatever the graph, the fanouts, the tile size and the interleaving of  *)
(* the threads, no node is ever in two buckets of the table that           *)
(* InsertO2N fills.                                                        *)
THEOREM NodeOnce == Spec => []KeyOnce
<1>1. PInv => KeyOnce
    BY PathGivesKeyOnce DEF PInv
<1> QED
    BY <1>1, InitPaths, StepPaths, PTL DEF Spec

------------------------------------------------------------------------------
LEMMA LeastOf ==
    ASSUME NEW S, S \subseteq Nat, S # {}
    PROVE  \E n \in S : \A m \in S : n <= m
<1> DEFINE R == OpToRel(<, Nat)
<1>1. PICK n \in S : \A m \in S : ~(<<m, n>> \in R)
  BY NatLessThanWellFounded, WFMin
<1>2. \A m \in S : ~(m < n)
  BY <1>1 DEF OpToRel
<1> HIDE DEF R
<1> QED BY <1>2

(* PredictNumNodes, unrolled: the recursive definition defines something.  *)
LEMMA PredictedExists ==
    \E f : f = [k \in 0 .. Layers |->
                 IF k = 0 THEN batch_size ELSE f[k - 1] + f[k - 1] * fanout[Layers + 1 - k]]
<1> DEFINE next(f, k) == IF k = 0 THEN batch_size ELSE f[k - 1] + f[k - 1] * fanout[Layers + 1 - k]
           Upto(m) == \E f : f = [k \in 0 .. m |-> next(f, k)]
           Bad == {m \in Nat : ~Upto(m)}
<1>1. Upto(0)
  <2> DEFINE f == [k \in 0 .. 0 |-> batch_size]
  <2>1. f = [k \in 0 .. 0 |-> next(f, k)]
    OBVIOUS
  <2> HIDE DEF f
  <2> QED BY <2>1
<1>2. ASSUME NEW m \in Nat, Upto(m) PROVE Upto(m + 1)
  <2>1. PICK f : f = [k \in 0 .. m |-> next(f, k)]
    BY <1>2
  <2> DEFINE g == [k \in 0 .. m + 1 |-> IF k \in 0 .. m THEN f[k] ELSE next(f, k)]
  <2>2. ASSUME NEW k \in 0 .. m + 1 PROVE g[k] = next(g, k)
    <3>1. CASE k \in 0 .. m
      <4>1. g[k] = f[k] /\ (k # 0 => g[k - 1] = f[k - 1])
        BY <3>1
      <4>2. f[k] = next(f, k)
        BY <2>1, <3>1
      <4> HIDE DEF g
      <4> QED BY <4>1, <4>2
    <3>2. CASE k = m + 1
      <4>1. g[k] = next(f, k) /\ g[k - 1] = f[k - 1] /\ k # 0
        BY <3>2
      <4> HIDE DEF g
      <4> QED BY <4>1
    <3> QED BY <3>1, <3>2
  <2>3. g = [k \in 0 .. m + 1 |-> next(g, k)]
    BY <2>2
  <2> HIDE DEF g, next
  <2> QED BY <2>3
<1> HIDE DEF Upto
<1>3. Bad = {}
  <2> SUFFICES ASSUME Bad # {} PROVE FALSE
    OBVIOUS
  <2>1. PICK n \in Bad : \A m \in Bad : n <= m
    BY LeastOf
  <2>2. n # 0
    BY <1>1, <2>1
  <2>3. n - 1 \in Nat /\ n - 1 \notin Bad
    BY <2>1, <2>2
  <2>4. Upto((n - 1) + 1)
    BY <1>2, <2>3
  <2> QED BY <2>1, <2>3, <2>4
<1>4. Layers \in Nat
  BY HashTableAssumption DEF Layers
<1>5. Upto(Layers)
  BY <1>3, <1>4
<1> QED BY <1>5 DEF Upto

LEMMA PredictedEquation ==
    /\ DOMAIN Predicted = 0 .. Layers
    /\ Predicted[0] = batch_size
    /\ \A k \in 1 .. Layers :
        Predicted[k] = Predicted[k - 1] + Predicted[k - 1] * fanout[Layers + 1 - k]
<1> DEFINE count == CHOOSE f : f = [k \in 0 .. Layers |->
                 IF k = 0 THEN batch_size ELSE f[k - 1] + f[k - 1] * fanout[Layers + 1 - k]]
<1>1. Predicted = count
  BY DEF Predicted, Layers
<1>2. count = [k \in 0 .. Layers |->
                 IF k = 0 THEN batch_size ELSE count[k - 1] + count[k - 1] * fanout[Layers + 1 - k]]
  BY PredictedExists
<1> HIDE DEF count
<1>3. Layers \in Nat
  BY HashTableAssumption DEF Layers
<1> QED BY <1>1, <1>2, <1>3

(* Every layer has room for the nodes of the one before and its own.       *)
LEMMA PredictedFacts ==
    /\ Layers \in Nat \ {0} /\ n2o_size \in Nat \ {0} /\ batch_size \in Nat \ {0}
    /\ \A k \in 0 .. Layers : Predicted[k] \in Nat /\ Predicted[k] <= n2o_size
    /\ Predicted[0] = batch_size
    /\ \A k \in 1 .. Layers : fanout[Layers + 1 - k] \in Nat \ {0} /\
        Predicted[k] = Predicted[k - 1] + Predicted[k - 1] * fanout[Layers + 1 - k]
<1>1. Layers \in Nat \ {0} /\ batch_size \in Nat \ {0}
  BY HashTableAssumption DEF Layers
<1>2. ASSUME NEW k \in 1 .. Layers PROVE fanout[Layers + 1 - k] \in Nat \ {0}
  <2>1. Layers + 1 - k \in 1 .. Len(fanout)
    BY <1>1 DEF Layers
  <2> QED BY <2>1, HashTableAssumption
<1>3. \A k \in 0 .. Layers : Predicted[k] \in Nat \ {0}
  <2> DEFINE Bad == {k \in 0 .. Layers : Predicted[k] \notin Nat \ {0}}
  <2> SUFFICES ASSUME Bad # {} PROVE FALSE
    OBVIOUS
  <2>1. PICK n \in Bad : \A m \in Bad : n <= m
    <3>1. Bad \subseteq Nat
      OBVIOUS
    <3> HIDE DEF Bad
    <3> QED BY <3>1, LeastOf
  <2>2. n # 0
    BY <1>1, <2>1, PredictedEquation
  <2>3. n \in 1 .. Layers /\ n - 1 \in 0 .. Layers /\ n - 1 \notin Bad
    BY <1>1, <2>1, <2>2
  <2>4. Predicted[n - 1] \in Nat \ {0} /\ fanout[Layers + 1 - n] \in Nat \ {0}
    BY <1>2, <2>3
  <2>5. Predicted[n - 1] * fanout[Layers + 1 - n] \in Nat
    BY <2>4
  <2>6. Predicted[n] = Predicted[n - 1] + Predicted[n - 1] * fanout[Layers + 1 - n]
    BY <2>3, PredictedEquation
  <2>7. Predicted[n] \in Nat \ {0}
    BY <2>4, <2>5, <2>6
  <2> QED BY <2>1, <2>7
<1>4. n2o_size = Predicted[Layers] /\ n2o_size \in Nat \ {0}
  BY <1>1, <1>3 DEF n2o_size, Layers
<1>5. \A k \in 0 .. Layers : Predicted[k] <= n2o_size
  <2> DEFINE Bad == {d \in 0 .. Layers : ~(Predicted[Layers - d] <= n2o_size)}
  <2> SUFFICES ASSUME Bad # {} PROVE FALSE
    <3>1. ASSUME NEW k \in 0 .. Layers, ~(Predicted[k] <= n2o_size) PROVE Layers - k \in Bad
      <4>1. Layers - (Layers - k) = k /\ Layers - k \in 0 .. Layers
        BY <1>1
      <4> QED BY <3>1, <4>1
    <3> HIDE DEF Bad
    <3> QED BY <3>1
  <2>1. PICK d \in Bad : \A m \in Bad : d <= m
    <3>1. Bad \subseteq Nat
      BY <1>1
    <3> HIDE DEF Bad
    <3> QED BY <3>1, LeastOf
  <2>2. d # 0
    BY <1>1, <1>4, <2>1
  <2>3. d - 1 \in 0 .. Layers /\ d - 1 \notin Bad /\ Layers - d + 1 \in 1 .. Layers
        /\ Layers - (d - 1) = Layers - d + 1
    BY <1>1, <2>1, <2>2
  <2>4. Predicted[Layers - d + 1] <= n2o_size
    BY <2>3
  <2> DEFINE k == Layers - d + 1
  <2>5. k \in 1 .. Layers /\ k - 1 = Layers - d /\ k - 1 \in 0 .. Layers
    BY <1>1, <2>1, <2>3
  <2>6. Predicted[k] <= n2o_size
    BY <2>4
  <2> HIDE DEF k
  <2>7. Predicted[k - 1] \in Nat /\ fanout[Layers + 1 - k] \in Nat
    BY <1>2, <1>3, <2>5
  <2>8. Predicted[k - 1] * fanout[Layers + 1 - k] \in Nat
    BY <2>7
  <2>9. Predicted[k] = Predicted[k - 1] + Predicted[k - 1] * fanout[Layers + 1 - k]
    BY <2>5, PredictedEquation
  <2>10. Predicted[k - 1] <= n2o_size
    BY <1>4, <2>6, <2>7, <2>8, <2>9
  <2> QED BY <2>1, <2>5, <2>10
<1> QED BY <1>1, <1>2, <1>3, <1>4, <1>5, PredictedEquation

------------------------------------------------------------------------------
(* The sum of 1 .. n, and how it looks in a table. *)
Sum(n) == (n * (n + 1)) \div 2

LEMMA SumDoubled ==
    ASSUME NEW n \in Nat
    PROVE  Sum(n) \in Nat /\ 2 * Sum(n) = n * (n + 1)
<1>1. ASSUME NEW q \in Nat, n = 2 * q PROVE Sum(n) \in Nat /\ 2 * Sum(n) = n * (n + 1)
  <2>1. n * (n + 1) = 2 * (q * (2 * q + 1))
    BY <1>1
  <2>2. q * (2 * q + 1) \in Nat
    OBVIOUS
  <2>3. ASSUME NEW x \in Nat PROVE (2 * x) \div 2 = x
    OBVIOUS
  <2>4. Sum(n) = q * (2 * q + 1)
    BY <2>1, <2>2, <2>3 DEF Sum
  <2> QED BY <2>1, <2>2, <2>4
<1>2. ASSUME NEW q \in Nat, n = 2 * q + 1 PROVE Sum(n) \in Nat /\ 2 * Sum(n) = n * (n + 1)
  <2>1. n * (n + 1) = 2 * ((2 * q + 1) * (q + 1))
    BY <1>2
  <2>2. (2 * q + 1) * (q + 1) \in Nat
    OBVIOUS
  <2>3. ASSUME NEW x \in Nat PROVE (2 * x) \div 2 = x
    OBVIOUS
  <2>4. Sum(n) = (2 * q + 1) * (q + 1)
    BY <2>1, <2>2, <2>3 DEF Sum
  <2> QED BY <2>1, <2>2, <2>4
<1>3. \E q \in Nat : n = 2 * q \/ n = 2 * q + 1
  <2>1. n \div 2 \in Nat /\ (n = 2 * (n \div 2) \/ n = 2 * (n \div 2) + 1)
    OBVIOUS
  <2> QED BY <2>1
<1> QED BY <1>1, <1>2, <1>3

LEMMA SameRest ==
    ASSUME NEW x \in Int, NEW k \in Int, NEW M \in Nat \ {0}
    PROVE  (x + k * M) % M = x % M
<1> DEFINE q == x \div M
           r == x % M
           y == x + k * M
           d == y \div M
           m == y % M
<1>1. q \in Int /\ r \in Int /\ 0 <= r /\ r < M /\ x = q * M + r
  OBVIOUS
<1>2. k * M \in Int /\ y \in Int
  OBVIOUS
<1>3. d \in Int /\ m \in Int /\ 0 <= m /\ m < M /\ y = d * M + m
  BY <1>2
<1> HIDE DEF q, r, d, m
<1>4. (d - q - k) * M = r - m
  <2>1. (d - q - k) * M = d * M - q * M - k * M
    BY <1>1, <1>3
  <2> QED BY <1>1, <1>2, <1>3, <2>1
<1> DEFINE z == d - q - k
<1>5. z \in Int /\ z * M < M /\ z * M > 0 - M
  BY <1>1, <1>3, <1>4
<1> HIDE DEF z
<1>6. z = 0
  <2>1. ASSUME z >= 1 PROVE FALSE
    <3>1. z * M >= 1 * M
      BY <1>5, <2>1
    <3> QED BY <1>5, <3>1
  <2>2. ASSUME z <= -1 PROVE FALSE
    <3>1. (0 - z) * M >= 1 * M
      BY <1>5, <2>2
    <3>2. (0 - z) * M = 0 - z * M
      BY <1>5
    <3>3. z * M \in Int
      BY <1>5
    <3> QED BY <1>5, <3>1, <3>2, <3>3
  <2> QED BY <1>5, <2>1, <2>2
<1>7. 0 * M = r - m
  BY <1>4, <1>6 DEF z
<1>8. r = m
  BY <1>1, <1>3, <1>7
<1> QED BY <1>8 DEF r, m

(* A probe sequence repeats: what it reaches, it reaches within as many    *)
(* attempts as there are buckets.                                          *)
LEMMA ProbeRepeats ==
    ASSUME NEW id \in Ids, NEW n \in Nat, n >= o2n_size
    PROVE  \E m \in 0 .. n - 1 : Probe(id, m) = Probe(id, n)
<1> DEFINE M == o2n_size
<1>1. M \in Nat \ {0} /\ id \in Int
  BY BucketAssumption, HashTableAssumption
<1> HIDE DEF M
<1>2. \A i \in Nat : Probe(id, i) = (id + Sum(i)) % M
  BY DEF Probe, Sum, M
<1>3. ASSUME NEW m \in Nat, NEW k \in Int, m < n, Sum(n) = Sum(m) + k * M
      PROVE  \E i \in 0 .. n - 1 : Probe(id, i) = Probe(id, n)
  <2>1. Sum(m) \in Nat /\ Sum(n) \in Nat /\ k * M \in Int
    BY <1>1, SumDoubled
  <2>2. id + Sum(m) \in Int /\ id + Sum(n) = (id + Sum(m)) + k * M
    BY <1>1, <1>3, <2>1
  <2>3. ((id + Sum(m)) + k * M) % M = (id + Sum(m)) % M
    BY <1>1, <2>2, SameRest
  <2>4. Probe(id, m) = Probe(id, n) /\ m \in 0 .. n - 1
    BY <1>2, <1>3, <2>2, <2>3
  <2> QED BY <2>4
<1>4. CASE n < 2 * M
  <2> DEFINE m == 2 * M - 1 - n
             k == 2 * n - 2 * M + 1
  <2>1. m \in Nat /\ m < n /\ k \in Int
    BY <1>1, <1>4 DEF M
  <2>2. m * (m + 1) = (2 * M - 1 - n) * (2 * M - n)
    <3>1. m + 1 = 2 * M - n
      BY <1>1
    <3> QED BY <3>1
  <2>3. n * (n + 1) = m * (m + 1) + 2 * (k * M)
    <3>1. (2 * M - 1 - n) * (2 * M - n) = 4 * (M * M) - 4 * (M * n) - 2 * M + n * n + n
      BY <1>1
    <3>2. k * M = 2 * (M * n) - 2 * (M * M) + M
      BY <1>1
    <3>3. n * (n + 1) = n * n + n
      OBVIOUS
    <3>4. M * M \in Int /\ M * n \in Int /\ n * n \in Int
      BY <1>1
    <3> HIDE DEF k, m
    <3> QED BY <1>1, <2>2, <3>1, <3>2, <3>3, <3>4
  <2> HIDE DEF m, k
  <2>4. k * M \in Int
    BY <1>1, <2>1
  <2>5. Sum(n) = Sum(m) + k * M
    <3>1. Sum(n) \in Nat /\ 2 * Sum(n) = n * (n + 1) /\ Sum(m) \in Nat /\ 2 * Sum(m) = m * (m + 1)
      BY <2>1, SumDoubled
    <3>2. 2 * Sum(n) = 2 * Sum(m) + 2 * (k * M)
      BY <2>3, <3>1
    <3> HIDE DEF Sum
    <3> QED BY <2>4, <3>1, <3>2
  <2> QED BY <1>3, <2>1, <2>5
<1>5. CASE n >= 2 * M
  <2> DEFINE m == n - 2 * M
             k == 2 * n - 2 * M + 1
  <2>1. m \in Nat /\ m < n /\ k \in Int
    BY <1>1, <1>5
  <2>2. m * (m + 1) = (n - 2 * M) * (n - 2 * M + 1)
    OBVIOUS
  <2>3. n * (n + 1) = m * (m + 1) + 2 * (k * M)
    <3>1. (n - 2 * M) * (n - 2 * M + 1) = n * n - 4 * (M * n) + 4 * (M * M) + n - 2 * M
      BY <1>1
    <3>2. k * M = 2 * (M * n) - 2 * (M * M) + M
      BY <1>1
    <3>3. n * (n + 1) = n * n + n
      OBVIOUS
    <3>4. M * M \in Int /\ M * n \in Int /\ n * n \in Int
      BY <1>1
    <3> HIDE DEF k, m
    <3> QED BY <1>1, <2>2, <3>1, <3>2, <3>3, <3>4
  <2> HIDE DEF m, k
  <2>4. k * M \in Int
    BY <1>1, <2>1
  <2>5. Sum(n) = Sum(m) + k * M
    <3>1. Sum(n) \in Nat /\ 2 * Sum(n) = n * (n + 1) /\ Sum(m) \in Nat /\ 2 * Sum(m) = m * (m + 1)
      BY <2>1, SumDoubled
    <3>2. 2 * Sum(n) = 2 * Sum(m) + 2 * (k * M)
      BY <2>3, <3>1
    <3> HIDE DEF Sum
    <3> QED BY <2>4, <3>1, <3>2
  <2> QED BY <1>3, <2>1, <2>5
<1> QED BY <1>1, <1>4, <1>5

------------------------------------------------------------------------------
(* How many of a set come before a member. *)
Rank(S, i) == Cardinality({j \in S : j < i})

(* Ranks number a set without gaps. *)
LEMMA Ranks ==
    ASSUME NEW S, NEW n \in Nat, S \subseteq 0 .. n - 1
    PROVE  /\ IsFiniteSet(S) /\ Cardinality(S) \in 0 .. n
           /\ \A i \in S : Rank(S, i) \in 0 .. Cardinality(S) - 1
           /\ \A i, j \in S : Rank(S, i) = Rank(S, j) => i = j
           /\ \A k \in 0 .. Cardinality(S) - 1 : \E i \in S : Rank(S, i) = k
<1> DEFINE c == Cardinality(S)
           before(i) == {j \in S : j < i}
<1>1. IsFiniteSet(0 .. n - 1) /\ Cardinality(0 .. n - 1) = n
  BY FS_Interval
<1>2. IsFiniteSet(S) /\ c \in Nat /\ c <= n
  BY <1>1, FS_Subset, FS_CardinalityType
<1>3. ASSUME NEW T \in SUBSET S PROVE IsFiniteSet(T) /\ Cardinality(T) \in Nat
  BY <1>2, FS_Subset, FS_CardinalityType
<1>4. ASSUME NEW i \in S PROVE Rank(S, i) \in 0 .. c - 1
  <2>1. before(i) \in SUBSET (S \ {i}) /\ before(i) \in SUBSET S
    OBVIOUS
  <2>2. IsFiniteSet(S \ {i}) /\ Cardinality(S \ {i}) = c - 1
    BY <1>2, FS_RemoveElement
  <2>3. Cardinality(before(i)) <= Cardinality(S \ {i})
    BY <2>1, <2>2, FS_Subset
  <2>4. Cardinality(before(i)) \in Nat
    BY <1>3, <2>1
  <2> QED BY <1>2, <2>2, <2>3, <2>4 DEF Rank
<1>5. ASSUME NEW i \in S, NEW j \in S, i < j PROVE Rank(S, i) < Rank(S, j)
  <2>1. before(i) \cup {i} \in SUBSET before(j) /\ before(j) \in SUBSET S /\ before(i) \in SUBSET S
        /\ i \notin before(i)
    <3>1. \A k \in S : k \in Int
      OBVIOUS
    <3>2. \A k \in S : k < i => k < j
      BY <1>5, <3>1
    <3>3. i \in before(j) /\ ~(i < i)
      BY <1>5, <3>1
    <3>4. before(i) \subseteq before(j)
      BY <3>2
    <3> QED BY <3>3, <3>4
  <2>2. IsFiniteSet(before(i)) /\ IsFiniteSet(before(j))
    BY <1>3, <2>1
  <2>3. Cardinality(before(i) \cup {i}) = Cardinality(before(i)) + 1
    BY <2>1, <2>2, FS_AddElement
  <2>4. Cardinality(before(i) \cup {i}) <= Cardinality(before(j))
    BY <2>1, <2>2, FS_Subset
  <2>5. Cardinality(before(i)) \in Nat /\ Cardinality(before(j)) \in Nat
    BY <1>3, <2>1
  <2> HIDE DEF before
  <2>6. Cardinality(before(i)) < Cardinality(before(j))
    BY <2>3, <2>4, <2>5
  <2> QED BY <2>6 DEF Rank, before
<1>6. ASSUME NEW i \in S, NEW j \in S, Rank(S, i) = Rank(S, j) PROVE i = j
  <2>1. i \in Nat /\ j \in Nat /\ Rank(S, i) \in Nat /\ Rank(S, j) \in Nat
    BY <1>2, <1>4
  <2> QED BY <1>5, <1>6, <2>1
<1>7. ASSUME NEW k \in 0 .. c - 1 PROVE \E i \in S : Rank(S, i) = k
  <2> DEFINE f == [i \in S |-> Rank(S, i)]
  <2>1. f \in [S -> 0 .. c - 1] /\ \A i, j \in S : f[i] = f[j] => i = j
    BY <1>4, <1>6
  <2>2. f \in Injection(S, 0 .. c - 1)
    <3>1. DOMAIN f = S
      OBVIOUS
    <3> HIDE DEF f
    <3> QED BY <2>1, <3>1 DEF Injection, IsInjective
  <2>3. IsFiniteSet(0 .. c - 1) /\ Cardinality(0 .. c - 1) = c
    BY <1>2, FS_Interval
  <2> HIDE DEF f
  <2>4. f \in Surjection(S, 0 .. c - 1)
    BY <2>2, <2>3, FS_Injection
  <2>5. \E i \in S : f[i] = k
    BY <2>4 DEF Surjection
  <2> QED BY <2>5 DEF f
<1> QED BY <1>2, <1>4, <1>6, <1>7

(* The blocks and the places in them make up the rank of an item.          *)
LEMMA NumberIsRank ==
    ASSUME NEW n \in Nat, counted \subseteq 0 .. n - 1, NEW i \in counted, num_items \in Nat
    PROVE  Number(i, counted) = num_items + Rank(counted, i)
<1> DEFINE A == {j \in counted : Block(j) < Block(i)}
           B == {j \in counted : Block(j) = Block(i) /\ j < i}
           C == {j \in counted : j < i}
<1>1. ASSUME NEW j \in 0 .. n - 1, NEW k \in 0 .. n - 1 PROVE
        /\ Block(j) \in Int /\ Block(k) \in Int
        /\ Block(j) < Block(k) => j < k
        /\ j < k => Block(j) <= Block(k)
  <2> DEFINE q == j \div TileSize
             r == j % TileSize
             x == k \div TileSize
             y == k % TileSize
  <2>1. /\ q \in Int /\ r \in Int /\ 0 <= r /\ r < TileSize /\ j = q * TileSize + r
        /\ x \in Int /\ y \in Int /\ 0 <= y /\ y < TileSize /\ k = x * TileSize + y
        /\ TileSize \in Nat \ {0}
    BY HashTableAssumption
  <2>2. Block(j) = q /\ Block(k) = x
    BY DEF Block
  <2> HIDE DEF q, r, x, y
  <2>3. ASSUME NEW a \in Int, NEW b \in Int, a < b PROVE a * TileSize + TileSize <= b * TileSize
    <3>1. (b - a) * TileSize >= 1 * TileSize
      BY <2>1, <2>3
    <3>2. (b - a) * TileSize = b * TileSize - a * TileSize
      BY <2>1
    <3>3. a * TileSize \in Int /\ b * TileSize \in Int
      BY <2>1
    <3> QED BY <2>1, <3>1, <3>2, <3>3
  <2>4. q < x => q * TileSize + TileSize <= x * TileSize
    BY <2>1, <2>3
  <2>5. x < q => x * TileSize + TileSize <= q * TileSize
    BY <2>1, <2>3
  <2>6. q * TileSize \in Int /\ x * TileSize \in Int
    BY <2>1
  <2> QED BY <2>1, <2>2, <2>4, <2>5, <2>6
<1>2. i \in 0 .. n - 1
  OBVIOUS
<1>3. C = A \cup B /\ A \cap B = {}
  <2>1. \A j \in counted : j \in C <=> j \in A \/ j \in B
    BY <1>1, <1>2
  <2>2. \A j \in counted : ~(j \in A /\ j \in B)
    BY <1>1, <1>2
  <2> QED BY <2>1, <2>2
<1>4. IsFiniteSet(counted)
  BY Ranks
<1>5. IsFiniteSet(A) /\ IsFiniteSet(B) /\ Cardinality(A) \in Nat /\ Cardinality(B) \in Nat
  BY <1>4, FS_Subset, FS_CardinalityType
<1>6. Cardinality(C) = Cardinality(A) + Cardinality(B)
  <2>1. Cardinality(A \cup B) = Cardinality(A) + Cardinality(B) - Cardinality({})
    BY <1>3, <1>5, FS_Union
  <2> HIDE DEF A, B, C
  <2> QED BY <1>3, <1>5, <2>1, FS_EmptySet
<1>7. Number(i, counted) = num_items + Cardinality(A) + Cardinality(B)
  BY DEF Number
<1>8. Rank(counted, i) = Cardinality(C)
  BY DEF Rank
<1> HIDE DEF A, B, C
<1> QED BY <1>5, <1>6, <1>7, <1>8

------------------------------------------------------------------------------
(***************************************************************************)
(* What the tables say.  A bucket is old if a fill before the one under    *)
(* way has filled it, which its version shows; any other bucket with a     *)
(* node belongs to the one thread that won it, and nobody but this thread  *)
(* finds its own index in it.                                              *)
(***************************************************************************)
Old(p) == o2n[p].key # Empty /\ o2n[p].version \in 0 .. version - 1

Mine(i) == o2n[Pos(i)].index = i /\ o2n[Pos(i)].version = version

Winner(i) == thread[i].at = "write" \/ (thread[i].at \in {"place", "done"} /\ Mine(i))

Buckets == [key : IdsOrEmpty, local : -1 .. n2o_size - 1,
            index : -1 .. MaxItems - 1, version : -1 .. Layers]

(* The fills run through the layers, and the nodes stay within what        *)
(* PredictNumNodes gives every layer.                                      *)
Progress ==
    /\ layer \in 0 .. Layers + 1
    /\ version \in 0 .. layer
    /\ num_items \in Nat
    /\ layer = 0 => num_items = 0
    /\ layer > 0 => num_items <= Predicted[layer - 1]
    /\ batches \in 0 .. MaxBatches

(* The most items that the fill can have. *)
Room == IF kind = "unique" THEN batch_size ELSE MaxSampled

Filling ==
    /\ kernel = "none" => kind = "none" /\ input = << >> /\ thread = << >> /\ counted = {}
    /\ kernel # "none" =>
        /\ kernel \in {"insert", "compact"}
        /\ kind \in {"unique", "duplicates", "revised", "mutable"}
        /\ kernel = "compact" => kind = "duplicates" /\ KernelDone
        /\ \E n \in 1 .. MaxItems : n <= Room /\ DOMAIN input = 0 .. n - 1
        /\ IF kind = "unique" THEN layer = 0 ELSE layer \in 1 .. Layers
        /\ kind = "unique" =>
            \A i, j \in DOMAIN input : input[i] = input[j] => i = j

Tables ==
    /\ o2n \in [Bucket -> Buckets]
    /\ n2o \in [0 .. n2o_size - 1 -> IdsOrEmpty]
    /\ \A p \in Bucket : o2n[p].key = Empty => o2n[p] = EmptyBucket
    /\ \A p \in Bucket : o2n[p].version <= version
    /\ kernel = "none" => \A p \in Bucket : o2n[p].key # Empty => Old(p)

(* The nodes of the fills before have the numbers below num_items, each    *)
(* one number, and the numbers lead back to them.                          *)
Numbered ==
    /\ \A p \in Bucket : Old(p) =>
        o2n[p].local \in 0 .. num_items - 1 /\ n2o[o2n[p].local] = o2n[p].key
    /\ \A k \in 0 .. num_items - 1 : \E p \in Bucket :
        Old(p) /\ o2n[p].key = n2o[k] /\ o2n[p].local = k

(* Where the threads of a kind of fill can be. *)
Stage ==
    {"try", "write", "done"} \cup (IF kind = "unique" THEN {"place"} ELSE {})
                             \cup (IF kind \in {"revised", "mutable"} THEN {"read"} ELSE {})

ThreadInv(i) ==
    /\ thread[i].at \in Stage
    /\ thread[i].at = "try" => thread[i].left = {"index", "version"} /\ thread[i].match
    /\ thread[i].at # "try" => o2n[Pos(i)].key = input[i]
    /\ thread[i].at \in {"write", "read"} => thread[i].left # {}
    /\ thread[i].at = "write" =>
        /\ o2n[Pos(i)].index = IF "index" \in thread[i].left THEN Empty ELSE i
        /\ o2n[Pos(i)].version = IF "version" \in thread[i].left THEN Empty ELSE version
    /\ thread[i].at = "read" /\ thread[i].match =>
        (IF Old(Pos(i)) THEN "version" ELSE "index") \in thread[i].left
    /\ kind = "unique" =>
        /\ thread[i].at \in {"place", "done"} => Mine(i)
        /\ thread[i].at = "done" => o2n[Pos(i)].local = i /\ n2o[i] = input[i]

Threads == \A i \in DOMAIN input : ThreadInv(i)

OneWriter ==
    \A i, j \in DOMAIN input :
        thread[i].at = "write" /\ thread[j].at = "write" /\ Pos(i) = Pos(j) => i = j

NewOwned ==
    kernel # "none" =>
        \A p \in Bucket : o2n[p].key # Empty /\ ~Old(p) =>
            \E i \in DOMAIN input : Pos(i) = p /\ Winner(i)

(* What the kernels have counted is what is theirs. *)
Counted ==
    counted = IF kind \in {"revised", "mutable"} \/ kernel = "compact"
              THEN {i \in DOMAIN input : thread[i].at = "done" /\ Mine(i)} ELSE {}

HInv == Progress /\ Filling /\ Tables /\ Numbered /\ Threads /\ OneWriter /\ NewOwned /\ Counted

LEMMA Facts ==
    ASSUME PInv, HInv, NEW i \in DOMAIN input
    PROVE  /\ kernel # "none" /\ Pos(i) \in Bucket /\ input[i] \in Ids /\ input[i] # Empty
           /\ thread[i] \in Thread /\ DOMAIN thread = DOMAIN input
           /\ i \in 0 .. MaxItems - 1 /\ i # Empty /\ i \in Nat
<1>1. input[i] \in Ids /\ input[i] # Empty /\ thread[i] \in Thread /\ DOMAIN thread = DOMAIN input
  BY EmptyIsNoId DEF PInv, Shape
<1>2. Pos(i) \in Bucket
  BY <1>1, ProbeInBucket DEF Pos, Thread
<1>3. kernel # "none"
  <2>1. kernel = "none" => input = << >>
    BY DEF HInv, Filling
  <2>2. DOMAIN << >> = {}
    OBVIOUS
  <2> QED BY <2>1, <2>2
<1>4. PICK n \in 1 .. MaxItems : DOMAIN input = 0 .. n - 1
  BY <1>3 DEF HInv, Filling
<1>5. MaxItems \in Nat
  BY HashTableAssumption
<1>6. i \in 0 .. MaxItems - 1 /\ i \in Nat
  BY <1>4, <1>5
<1> QED BY <1>1, <1>2, <1>3, <1>6 DEF Empty

(* Old buckets stay as they are, or the numbers below num_items do not.    *)
LEMMA NumberedStays ==
    ASSUME Numbered, num_items' = num_items,
           \A p \in Bucket : /\ Old(p)' <=> Old(p)
                             /\ Old(p) => o2n'[p].key = o2n[p].key /\ o2n'[p].local = o2n[p].local,
           \A k \in 0 .. num_items - 1 : n2o'[k] = n2o[k]
    PROVE  Numbered'
<1> USE DEF Numbered
<1>1. ASSUME NEW p \in Bucket, Old(p)'
      PROVE  o2n'[p].local \in 0 .. num_items' - 1 /\ n2o'[o2n'[p].local] = o2n'[p].key
  BY <1>1
<1>2. ASSUME NEW k \in 0 .. num_items' - 1
      PROVE  \E p \in Bucket : Old(p)' /\ o2n'[p].key = n2o'[k] /\ o2n'[p].local = k
  <2>1. PICK p \in Bucket : Old(p) /\ o2n[p].key = n2o[k] /\ o2n[p].local = k
    OBVIOUS
  <2> QED BY <2>1
<1> QED BY <1>1, <1>2 DEF Bucket

(* A thread whose bucket and node stay is where it was. *)
LEMMA ThreadStays ==
    ASSUME NEW j, ThreadInv(j), kind' = kind, version' = version, input' = input,
           thread'[j] = thread[j], Pos(j)' = Pos(j), n2o'[j] = n2o[j], o2n'[Pos(j)] = o2n[Pos(j)]
    PROVE  ThreadInv(j)'
<1>0. PICK q : q = Pos(j)
  OBVIOUS
<1>1. q' = q /\ Pos(j)' = q /\ o2n'[q] = o2n[q]
  BY <1>0
<1>2. (Old(q)' <=> Old(q)) /\ (Mine(j)' <=> Mine(j)) /\ Stage' = Stage
  BY <1>0, <1>1 DEF Old, Mine, Stage
<1>3. /\ thread[j].at \in Stage
      /\ thread[j].at = "try" => thread[j].left = {"index", "version"} /\ thread[j].match
      /\ thread[j].at # "try" => o2n[q].key = input[j]
      /\ thread[j].at \in {"write", "read"} => thread[j].left # {}
      /\ thread[j].at = "write" =>
          /\ o2n[q].index = IF "index" \in thread[j].left THEN Empty ELSE j
          /\ o2n[q].version = IF "version" \in thread[j].left THEN Empty ELSE version
      /\ kind = "unique" =>
          /\ thread[j].at \in {"place", "done"} => Mine(j)
          /\ thread[j].at = "done" => o2n[q].local = j /\ n2o[j] = input[j]
  BY <1>0 DEF ThreadInv
<1>4. thread[j].at = "read" /\ thread[j].match =>
        (IF Old(q) THEN "version" ELSE "index") \in thread[j].left
  BY <1>0 DEF ThreadInv
<1> HIDE DEF Old, Mine, Stage, Pos
<1>5. thread'[j].at = "read" /\ thread'[j].match =>
        (IF Old(q)' THEN "version" ELSE "index") \in thread'[j].left
  BY <1>2, <1>4
<1> QED BY <1>0, <1>1, <1>2, <1>3, <1>5 DEF ThreadInv

(* A thread step leaves the fill and the other threads alone.              *)
OnlyThread(i) ==
    /\ kernel = "insert" /\ thread[i].at # "done"
    /\ UNCHANGED <<version, num_items, layer, kind, kernel, input, batches>>
    /\ thread' \in [DOMAIN input -> Thread]
    /\ \A j \in DOMAIN input : j # i => thread'[j] = thread[j]

LEMMA OnlyThreadFacts ==
    ASSUME PInv, HInv, NEW i \in DOMAIN input, OnlyThread(i)
    PROVE  /\ Progress' /\ Filling'
           /\ \A j \in DOMAIN input : j # i => Pos(j)' = Pos(j)
           /\ Stage' = Stage
<1>1. Progress'
  BY DEF HInv, Progress, OnlyThread
<1>2. Filling'
  <2>1. kernel' = "insert" /\ "insert" # "none" /\ "insert" # "compact"
    BY DEF OnlyThread
  <2>2. Room' = Room
    BY DEF Room, MaxSampled, OnlyThread
  <2> QED BY <2>1, <2>2 DEF HInv, Filling, OnlyThread
<1>3. \A j \in DOMAIN input : j # i => Pos(j)' = Pos(j)
  BY DEF OnlyThread, Pos, Probe
<1>4. Stage' = Stage
  BY DEF Stage, OnlyThread
<1> QED BY <1>1, <1>2, <1>3, <1>4

------------------------------------------------------------------------------
(* The atomicCAS that wins an empty bucket. *)
LEMMA CasWins ==
    ASSUME PInv, HInv, NEW i \in DOMAIN input, AttemptInsert(i), o2n[Pos(i)].key = Empty
    PROVE  HInv'
<1>0. PICK b \in Bucket : b = Pos(i)
  BY Facts
<1>1. /\ kernel = "insert" /\ thread[i].at = "try"
      /\ o2n' = [o2n EXCEPT ![b].key = input[i]]
      /\ thread' = [thread EXCEPT ![i].at = "write"]
      /\ UNCHANGED <<n2o, version, num_items, layer, kind, kernel, input, counted, batches>>
  BY <1>0, Facts DEF AttemptInsert, Inserting
<1>2. /\ input[i] \in Ids /\ input[i] # Empty /\ thread \in [DOMAIN input -> Thread]
      /\ i # Empty
  BY Facts DEF PInv, Shape
<1>3. /\ o2n[b] = EmptyBucket
      /\ o2n \in [Bucket -> Buckets] /\ \A p \in Bucket : o2n[p] \in Buckets
  BY <1>0, <1>2 DEF HInv, Tables
<1>4. /\ thread'[i] = [thread[i] EXCEPT !.at = "write"]
      /\ thread'[i].at = "write" /\ thread'[i].left = {"index", "version"}
      /\ thread'[i].attempt = thread[i].attempt
  BY <1>1, <1>2 DEF Thread, HInv, Threads, ThreadInv
<1>5. OnlyThread(i)
  <2>1. thread' \in [DOMAIN input -> Thread]
    BY <1>1, <1>2 DEF Thread
  <2> QED BY <1>1, <2>1 DEF OnlyThread
<1>6. Pos(i)' = b
  BY <1>0, <1>1, <1>4 DEF Pos, Probe
<1>7. \A j \in DOMAIN input : Pos(j)' = Pos(j)
  BY <1>0, <1>5, <1>6, OnlyThreadFacts
<1>8. /\ o2n'[b].key = input[i] /\ o2n'[b].local = Empty /\ o2n'[b].index = Empty
      /\ o2n'[b].version = Empty /\ o2n'[b] \in Buckets
  BY <1>1, <1>2, <1>3 DEF EmptyBucket, Buckets, IdsOrEmpty
<1>9. \A p \in Bucket : p # b => o2n'[p] = o2n[p]
  BY <1>1, <1>3
<1>10. version \in Nat /\ version' = version
  BY <1>1 DEF HInv, Progress
<1>11. ~Old(b) /\ ~Old(b)' /\ \A p \in Bucket : p # b => (Old(p)' <=> Old(p))
  BY <1>8, <1>9, <1>10, <1>3 DEF Old, Empty, EmptyBucket
<1>12. Tables'
  <2>1. o2n' \in [Bucket -> Buckets]
    BY <1>1, <1>3, <1>8, <1>9
  <2>2. \A p \in Bucket : o2n'[p].key = Empty => o2n'[p] = EmptyBucket
    BY <1>2, <1>8, <1>9 DEF HInv, Tables
  <2>3. \A p \in Bucket : o2n'[p].version <= version
    BY <1>8, <1>9, <1>10 DEF HInv, Tables, Empty
  <2> QED BY <1>1, <2>1, <2>2, <2>3 DEF HInv, Tables, Bucket, EmptyBucket, Buckets
<1>13. Numbered'
  BY <1>1, <1>9, <1>11, NumberedStays DEF HInv
<1>14. ASSUME NEW j \in DOMAIN input, j # i, Pos(j) = b PROVE thread[j].at = "try" /\ ~Winner(j)
  BY <1>3, <1>14, Facts DEF HInv, Threads, ThreadInv, Winner, EmptyBucket
<1>15. ASSUME NEW j \in DOMAIN input, j # i
       PROVE  thread'[j] = thread[j] /\ (thread[j].at # "try" =>
                    Pos(j) # b /\ o2n'[Pos(j)] = o2n[Pos(j)])
  BY <1>5, <1>9, <1>14, <1>15, Facts DEF OnlyThread
<1>16. Threads'
  <2>1. ThreadInv(i)'
    BY <1>1, <1>4, <1>6, <1>8, <1>10 DEF ThreadInv, Stage
  <2>2. ASSUME NEW j \in DOMAIN input, j # i PROVE ThreadInv(j)'
    <3>1. ThreadInv(j)
      BY DEF HInv, Threads
    <3>2. CASE thread[j].at = "try"
      BY <1>15, <2>2, <3>1, <3>2 DEF ThreadInv, Stage
    <3>3. CASE thread[j].at # "try"
      <4>1. Pos(j)' = Pos(j) /\ o2n'[Pos(j)] = o2n[Pos(j)] /\ thread'[j] = thread[j]
        BY <1>7, <1>15, <2>2, <3>3
      <4> QED BY <1>1, <3>1, <4>1, ThreadStays
    <3> QED BY <3>2, <3>3
  <2> QED BY <1>1, <2>1, <2>2 DEF Threads
<1>17. OneWriter'
  BY <1>0, <1>1, <1>4, <1>7, <1>14, <1>15 DEF HInv, OneWriter
<1>18. NewOwned'
  <2> SUFFICES ASSUME NEW p \in Bucket, o2n'[p].key # Empty, ~Old(p)'
               PROVE  \E j \in DOMAIN input : Pos(j)' = p /\ Winner(j)'
    BY <1>1 DEF NewOwned, Bucket
  <2>1. CASE p = b
    BY <1>4, <1>6, <2>1 DEF Winner
  <2>2. CASE p # b
    <3>1. PICK j \in DOMAIN input : Pos(j) = p /\ Winner(j)
      BY <1>1, <1>9, <1>11, <2>2 DEF HInv, NewOwned
    <3>2. j # i /\ thread[j].at # "try"
      BY <1>0, <2>2, <3>1 DEF Winner
    <3>3. Winner(j)'
      BY <1>7, <1>10, <1>15, <3>1, <3>2 DEF Winner, Mine
    <3> QED BY <1>7, <3>1, <3>3
  <2> QED BY <2>1, <2>2
<1>19. Counted'
  <2>1. ASSUME NEW j \in DOMAIN input
        PROVE  (thread'[j].at = "done" /\ Mine(j)') <=> (thread[j].at = "done" /\ Mine(j))
    <3>1. CASE j = i
      BY <1>1, <1>4, <3>1
    <3>2. CASE j # i
      BY <1>7, <1>10, <1>15, <3>2 DEF Mine
    <3> QED BY <3>1, <3>2
  <2> QED BY <1>1, <2>1 DEF HInv, Counted
<1> QED BY <1>5, <1>12, <1>13, <1>16, <1>17, <1>18, <1>19, OnlyThreadFacts DEF HInv

------------------------------------------------------------------------------
(* Steps of a thread that has won nothing and leaves the tables alone.     *)
LEMMA LoserSteps ==
    ASSUME PInv, HInv, NEW i \in DOMAIN input, OnlyThread(i), o2n' = o2n, n2o' = n2o,
           ~Winner(i), thread'[i].at # "write", ThreadInv(i)', Counted'
    PROVE  HInv'
<1>1. ASSUME NEW j \in DOMAIN input, j # i PROVE Pos(j)' = Pos(j) /\ thread'[j] = thread[j]
  BY <1>1, OnlyThreadFacts DEF OnlyThread
<1>2. UNCHANGED <<version, num_items, layer, kind, kernel, input, batches>>
  BY DEF OnlyThread
<1>3. \A p \in Bucket : Old(p)' <=> Old(p)
  BY <1>2 DEF Old
<1>4. Tables'
  BY <1>2, <1>3 DEF HInv, Tables, Bucket, EmptyBucket, Buckets
<1>5. Numbered'
  BY <1>2, <1>3, NumberedStays DEF HInv
<1>6. Threads'
  <2>1. ASSUME NEW j \in DOMAIN input, j # i PROVE ThreadInv(j)'
    BY <1>1, <1>2, <2>1, ThreadStays DEF HInv, Threads
  <2> QED BY <1>2, <2>1 DEF Threads
<1>7. OneWriter'
  BY <1>1, <1>2 DEF HInv, OneWriter
<1>8. NewOwned'
  <2> SUFFICES ASSUME NEW p \in Bucket, o2n[p].key # Empty, ~Old(p)', kernel # "none"
               PROVE  \E j \in DOMAIN input : Pos(j)' = p /\ Winner(j)'
    BY <1>2 DEF NewOwned, Bucket
  <2>1. PICK j \in DOMAIN input : Pos(j) = p /\ Winner(j)
    BY <1>3 DEF HInv, NewOwned
  <2>2. j # i
    BY <2>1
  <2>3. Winner(j)'
    BY <1>1, <1>2, <2>1, <2>2 DEF Winner, Mine
  <2> QED BY <1>1, <2>1, <2>2, <2>3
<1> QED BY <1>4, <1>5, <1>6, <1>7, <1>8, OnlyThreadFacts DEF HInv

LEMMA NoOldInUnique ==
    ASSUME HInv, kernel # "none", kind = "unique", NEW p \in Bucket
    PROVE  ~Old(p)
<1>1. num_items = 0
  BY DEF HInv, Filling, Progress
<1> QED BY <1>1 DEF HInv, Numbered

(* A bucket that is not old has been won by a thread with its node.        *)
LEMMA Owner ==
    ASSUME PInv, HInv, kernel # "none", NEW p \in Bucket, o2n[p].key # Empty, ~Old(p)
    PROVE  \E w \in DOMAIN input : /\ Pos(w) = p /\ Winner(w) /\ thread[w].at # "try"
                                   /\ input[w] = o2n[p].key
<1>1. PICK w \in DOMAIN input : Pos(w) = p /\ Winner(w)
  BY DEF HInv, NewOwned
<1>2. thread[w].at # "try"
  BY <1>1 DEF Winner
<1>3. o2n[Pos(w)].key = input[w]
  BY <1>2 DEF HInv, Threads, ThreadInv
<1> QED BY <1>1, <1>2, <1>3

(* Who finds the node there has lost; with distinct nodes nobody does.     *)
LEMMA CasFinds ==
    ASSUME PInv, HInv, NEW i \in DOMAIN input, AttemptInsert(i), o2n[Pos(i)].key = input[i]
    PROVE  HInv'
<1>1. /\ kernel = "insert" /\ thread[i].at = "try"
      /\ thread' = [thread EXCEPT ![i].at = AfterInsert]
      /\ UNCHANGED <<o2n, n2o, version, num_items, layer, kind, kernel, input, counted, batches>>
  BY Facts DEF AttemptInsert, Inserting
<1>2. /\ thread \in [DOMAIN input -> Thread] /\ Pos(i) \in Bucket /\ o2n[Pos(i)].key # Empty
  BY Facts DEF PInv, Shape
<1>3. kind # "unique"
  <2> SUFFICES ASSUME kind = "unique" PROVE FALSE
    OBVIOUS
  <2>1. ~Old(Pos(i))
    BY <1>1, <1>2, NoOldInUnique
  <2>2. PICK w \in DOMAIN input : thread[w].at # "try" /\ input[w] = input[i]
    BY <1>1, <1>2, <2>1, Owner
  <2>3. w = i
    BY <1>1, <2>2 DEF HInv, Filling
  <2> QED BY <1>1, <2>2, <2>3
<1>4. /\ AfterInsert \in Stage /\ AfterInsert \in {"read", "done"}
      /\ AfterInsert = "done" => kind = "duplicates"
  <2>1. kind \in {"duplicates", "revised", "mutable"}
    BY <1>1, <1>3 DEF HInv, Filling
  <2> QED BY <2>1 DEF AfterInsert, Stage
<1>5. /\ thread'[i].at = AfterInsert /\ thread'[i].left = {"index", "version"}
      /\ thread'[i].attempt = thread[i].attempt
      /\ \A j \in DOMAIN input : j # i => thread'[j] = thread[j]
      /\ thread' \in [DOMAIN input -> Thread]
  BY <1>1, <1>2, <1>4 DEF Thread, HInv, Threads, ThreadInv
<1>6. OnlyThread(i)
  BY <1>1, <1>5 DEF OnlyThread
<1>7. Pos(i)' = Pos(i) /\ Stage' = Stage
  BY <1>1, <1>5, <1>6, OnlyThreadFacts DEF Pos, Probe
<1>8. ThreadInv(i)'
  BY <1>1, <1>3, <1>4, <1>5, <1>7 DEF ThreadInv
<1>9. Counted'
  <2>1. CASE kind = "duplicates"
    BY <1>1, <2>1 DEF HInv, Counted
  <2>2. CASE kind # "duplicates"
    <3>1. ASSUME NEW j \in DOMAIN input
          PROVE  (thread'[j].at = "done" /\ Mine(j)') <=> (thread[j].at = "done" /\ Mine(j))
      <4>1. CASE j = i
        BY <1>1, <1>4, <1>5, <2>2, <4>1
      <4>2. CASE j # i
        BY <1>1, <1>5, <1>6, <4>2, OnlyThreadFacts DEF Mine
      <4> QED BY <4>1, <4>2
    <3> QED BY <1>1, <3>1 DEF HInv, Counted
  <2> QED BY <2>1, <2>2
<1>10. ~Winner(i)
  BY <1>1 DEF Winner
<1> QED BY <1>1, <1>4, <1>5, <1>6, <1>8, <1>9, <1>10, LoserSteps

LEMMA CasPasses ==
    ASSUME PInv, HInv, NEW i \in DOMAIN input, AttemptInsert(i),
           o2n[Pos(i)].key \notin {Empty, input[i]}
    PROVE  HInv'
<1>1. /\ kernel = "insert" /\ thread[i].at = "try"
      /\ thread' = [thread EXCEPT ![i].attempt = @ + 1]
      /\ UNCHANGED <<o2n, n2o, version, num_items, layer, kind, kernel, input, counted, batches>>
  BY DEF AttemptInsert, Inserting
<1>2. thread \in [DOMAIN input -> Thread]
  BY DEF PInv, Shape
<1>3. /\ thread'[i].at = "try" /\ thread'[i].left = {"index", "version"} /\ thread'[i].match
      /\ \A j \in DOMAIN input : j # i => thread'[j] = thread[j]
      /\ thread' \in [DOMAIN input -> Thread]
  BY <1>1, <1>2 DEF Thread, HInv, Threads, ThreadInv
<1>4. OnlyThread(i)
  BY <1>1, <1>3 DEF OnlyThread
<1>5. ThreadInv(i)'
  BY <1>1, <1>3 DEF ThreadInv, Stage
<1>6. Counted'
  <2>1. ASSUME NEW j \in DOMAIN input
        PROVE  (thread'[j].at = "done" /\ Mine(j)') <=> (thread[j].at = "done" /\ Mine(j))
    <3>1. CASE j = i
      BY <1>1, <1>3, <3>1
    <3>2. CASE j # i
      BY <1>1, <1>3, <1>4, <3>2, OnlyThreadFacts DEF Mine
    <3> QED BY <3>1, <3>2
  <2> QED BY <1>1, <2>1 DEF HInv, Counted
<1>7. ~Winner(i)
  BY <1>1 DEF Winner
<1> QED BY <1>1, <1>3, <1>4, <1>5, <1>6, <1>7, LoserSteps

(* What a thread that has lost reads is never all its own: an old bucket   *)
(* has another version, a new one another index.                           *)
LEMMA Reads ==
    ASSUME PInv, HInv, NEW i \in DOMAIN input, ReadField(i)
    PROVE  HInv'
<1>0. PICK b \in Bucket : b = Pos(i)
  BY Facts
<1>1. /\ kernel = "insert" /\ thread[i].at = "read"
      /\ UNCHANGED <<o2n, n2o, version, num_items, layer, kind, kernel, input, batches>>
  BY DEF ReadField, Inserting, tableVars
<1> DEFINE own(f) == o2n[b][f] = (IF f = "index" THEN i ELSE version)
<1>2. PICK f \in thread[i].left, last \in BOOLEAN, match \in BOOLEAN :
        /\ last <=> thread[i].left = {f}
        /\ match <=> thread[i].match /\ own(f)
        /\ thread' = [thread EXCEPT ![i].left = @ \ {f}, ![i].match = match,
                            ![i].at = IF last THEN "done" ELSE "read"]
        /\ Tally(i, last /\ match)
  <2> DEFINE lst(f) == thread[i].left = {f}
             mtc(f) == thread[i].match /\ own(f)
  <2>1. PICK f \in thread[i].left :
        /\ thread' = [thread EXCEPT ![i].left = @ \ {f}, ![i].match = mtc(f),
                            ![i].at = IF lst(f) THEN "done" ELSE "read"]
        /\ Tally(i, lst(f) /\ mtc(f))
    BY <1>0 DEF ReadField
  <2>2. lst(f) \in BOOLEAN /\ mtc(f) \in BOOLEAN
    OBVIOUS
  <2> WITNESS f \in thread[i].left
  <2> WITNESS lst(f) \in BOOLEAN
  <2> WITNESS mtc(f) \in BOOLEAN
  <2> QED BY <2>1
<1>3. /\ thread \in [DOMAIN input -> Thread] /\ thread[i] \in Thread /\ i # Empty
      /\ thread[i].left \subseteq {"index", "version"} /\ o2n[b].key # Empty
      /\ thread[i].at \in Stage
  BY <1>0, <1>1, Facts DEF PInv, Shape, Thread, HInv, Threads, ThreadInv
<1>4. /\ thread'[i].left = thread[i].left \ {f} /\ (thread'[i].match <=> match)
      /\ thread'[i].at = IF last THEN "done" ELSE "read"
      /\ thread'[i].attempt = thread[i].attempt
      /\ \A j \in DOMAIN input : j # i => thread'[j] = thread[j]
  BY <1>2, <1>3 DEF Thread
<1>5. thread' \in [DOMAIN input -> Thread]
  <2>1. [thread[i] EXCEPT !.left = @ \ {f}, !.match = match,
                          !.at = IF last THEN "done" ELSE "read"] \in Thread
    BY <1>3 DEF Thread
  <2>2. thread' = [thread EXCEPT ![i] = [thread[i] EXCEPT !.left = @ \ {f}, !.match = match,
                                         !.at = IF last THEN "done" ELSE "read"]]
    BY <1>2, <1>3
  <2> QED BY <1>3, <2>1, <2>2
<1>6. OnlyThread(i)
  BY <1>1, <1>4, <1>5 DEF OnlyThread
<1>7. Pos(i)' = b /\ Stage' = Stage
  BY <1>0, <1>1, <1>4, <1>6, OnlyThreadFacts DEF Pos, Probe
<1>8. kind \in {"revised", "mutable"}
  <2>1. kind \in {"unique", "duplicates", "revised", "mutable"}
    BY <1>1 DEF HInv, Filling
  <2> QED BY <1>1, <1>3, <2>1 DEF Stage
<1>9. /\ Old(b) => o2n[b].version # version
      /\ ~Old(b) => o2n[b].index # i
  <2>1. CASE Old(b)
    <3>1. version \in Int
      BY DEF HInv, Progress
    <3> QED BY <2>1, <3>1 DEF Old
  <2>2. CASE ~Old(b)
    <3>1. PICK w \in DOMAIN input : Pos(w) = b /\ Winner(w)
      BY <1>1, <1>3, <2>2, Owner
    <3>2. w # i
      BY <1>1, <3>1 DEF Winner
    <3>3. o2n[b].index \in {Empty, w}
      BY <3>1 DEF Winner, Mine, HInv, Threads, ThreadInv
    <3> QED BY <1>3, <2>2, <3>2, <3>3
  <2> QED BY <2>1, <2>2
<1>10. ~Mine(i)
  BY <1>0, <1>9 DEF Mine, Old
<1>11. match => (IF Old(b) THEN "version" ELSE "index") \in thread[i].left \ {f}
  <2>1. thread[i].match => (IF Old(b) THEN "version" ELSE "index") \in thread[i].left
    BY <1>0, <1>1 DEF HInv, Threads, ThreadInv
  <2>2. match => f # (IF Old(b) THEN "version" ELSE "index")
    BY <1>2, <1>9
  <2> QED BY <1>2, <2>1, <2>2
<1>12. ~(last /\ match)
  BY <1>2, <1>11
<1>13. ThreadInv(i)'
  <2>2. /\ ~last => thread[i].left \ {f} # {}
        /\ (IF last THEN "done" ELSE "read") \in Stage
    BY <1>2, <1>3, <1>8 DEF Stage
  <2>3. o2n[b].key = input[i]
    BY <1>0, <1>1 DEF HInv, Threads, ThreadInv
  <2>4. (Old(Pos(i)))' <=> Old(b)
    BY <1>1, <1>7 DEF Old
  <2>5. (thread[i].at = "read" /\ thread[i].match =>
            (IF Old(Pos(i)) THEN "version" ELSE "index") \in thread[i].left)'
    <3> HIDE DEF Old, Pos
    <3> QED BY <1>4, <1>11, <2>4
  <2>6. (thread[i].at \in {"done", "read"})' /\ kind' # "unique"
    BY <1>1, <1>4, <1>8
  <2>7. (thread[i].at \in Stage)' /\ (o2n[Pos(i)].key = input[i])'
        /\ (thread[i].at = "read" => thread[i].left # {})'
    BY <1>1, <1>4, <1>7, <2>2, <2>3
  <2> QED BY <2>5, <2>6, <2>7 DEF ThreadInv
<1>14. Counted'
  <2>1. counted' = counted
    BY <1>2, <1>12 DEF Tally
  <2>2. ASSUME NEW j \in DOMAIN input
        PROVE  (thread'[j].at = "done" /\ Mine(j)') <=> (thread[j].at = "done" /\ Mine(j))
    <3>1. CASE j = i
      <4>1. ~Mine(i)'
        BY <1>0, <1>1, <1>7, <1>10 DEF Mine
      <4> QED BY <1>10, <3>1, <4>1
    <3>2. CASE j # i
      BY <1>1, <1>4, <1>6, <3>2, OnlyThreadFacts DEF Mine
    <3> QED BY <3>1, <3>2
  <2> QED BY <1>1, <2>1, <2>2 DEF HInv, Counted
<1>15. ~Winner(i)
  BY <1>1 DEF Winner
<1> QED BY <1>1, <1>4, <1>6, <1>13, <1>14, <1>15, LoserSteps

------------------------------------------------------------------------------
(* A bucket that a thread writes is not old, and nobody else finds its     *)
(* index there, before or after.                                           *)
LEMMA Written ==
    ASSUME PInv, HInv, NEW i \in DOMAIN input, thread[i].at = "write"
    PROVE  /\ ~Old(Pos(i)) /\ o2n[Pos(i)].key = input[i]
           /\ o2n[Pos(i)].index \in {Empty, i} /\ o2n[Pos(i)].version \in {Empty, version}
           /\ \A j \in DOMAIN input : j # i /\ Pos(j) = Pos(i) =>
                thread[j].at # "write" /\ ~Mine(j) /\ ~Winner(j)
<1>1. /\ o2n[Pos(i)].key = input[i]
      /\ o2n[Pos(i)].index \in {Empty, i} /\ o2n[Pos(i)].version \in {Empty, version}
  BY DEF HInv, Threads, ThreadInv
<1>2. ~Old(Pos(i))
  <2>1. version \in Nat
    BY DEF HInv, Progress
  <2> QED BY <1>1, <2>1 DEF Old, Empty
<1>3. ASSUME NEW j \in DOMAIN input, j # i, Pos(j) = Pos(i)
      PROVE  thread[j].at # "write" /\ ~Mine(j) /\ ~Winner(j)
  <2>1. thread[j].at # "write"
    BY <1>3 DEF HInv, OneWriter
  <2>2. j # Empty
    BY Facts
  <2> QED BY <1>1, <1>3, <2>1, <2>2 DEF Mine, Winner
<1> QED BY <1>1, <1>2, <1>3

LEMMA Writes ==
    ASSUME PInv, HInv, NEW i \in DOMAIN input, WriteField(i)
    PROVE  HInv'
<1>0. PICK b \in Bucket : b = Pos(i)
  BY Facts
<1>1. /\ kernel = "insert" /\ thread[i].at = "write"
      /\ UNCHANGED <<n2o, version, num_items, layer, kind, kernel, input, batches>>
  BY DEF WriteField, Inserting
<1>2. PICK f \in thread[i].left, last \in BOOLEAN :
        /\ last <=> thread[i].left = {f}
        /\ o2n' = [o2n EXCEPT ![b][f] = IF f = "index" THEN i ELSE version]
        /\ thread' = [thread EXCEPT ![i].left = @ \ {f},
                            ![i].at = IF ~last THEN "write"
                                      ELSE IF kind = "unique" THEN "place" ELSE "done"]
        /\ Tally(i, last /\ kind \in {"revised", "mutable"})
  <2> DEFINE lst(f) == thread[i].left = {f}
  <2>1. PICK f \in thread[i].left :
        /\ o2n' = [o2n EXCEPT ![b][f] = IF f = "index" THEN i ELSE version]
        /\ thread' = [thread EXCEPT ![i].left = @ \ {f},
                            ![i].at = IF ~lst(f) THEN "write"
                                      ELSE IF kind = "unique" THEN "place" ELSE "done"]
        /\ Tally(i, lst(f) /\ kind \in {"revised", "mutable"})
    BY <1>0 DEF WriteField
  <2>2. lst(f) \in BOOLEAN
    OBVIOUS
  <2> WITNESS f \in thread[i].left
  <2> WITNESS lst(f) \in BOOLEAN
  <2> QED BY <2>1
<1> DEFINE at == IF ~last THEN "write" ELSE IF kind = "unique" THEN "place" ELSE "done"
<1>3. /\ thread \in [DOMAIN input -> Thread] /\ thread[i] \in Thread /\ i # Empty
      /\ i \in 0 .. MaxItems - 1
      /\ thread[i].left \subseteq {"index", "version"} /\ f \in {"index", "version"}
      /\ input[i] # Empty /\ o2n \in [Bucket -> Buckets] /\ o2n[b] \in Buckets
  BY <1>0, <1>2, Facts DEF PInv, Shape, Thread, HInv, Tables
<1>4. /\ thread'[i].left = thread[i].left \ {f} /\ thread'[i].at = at
      /\ thread'[i].attempt = thread[i].attempt
      /\ \A j \in DOMAIN input : j # i => thread'[j] = thread[j]
  BY <1>2, <1>3 DEF Thread
<1>5. thread' \in [DOMAIN input -> Thread]
  <2>1. at \in {"write", "place", "done"}
    OBVIOUS
  <2> HIDE DEF at
  <2>2. [thread[i] EXCEPT !.left = @ \ {f}, !.at = at] \in Thread
    BY <1>3, <2>1 DEF Thread
  <2>3. thread' = [thread EXCEPT ![i] = [thread[i] EXCEPT !.left = @ \ {f}, !.at = at]]
    BY <1>2, <1>3 DEF at
  <2> QED BY <1>3, <2>2, <2>3
<1>6. OnlyThread(i)
  BY <1>1, <1>4, <1>5 DEF OnlyThread
<1>7. Pos(i)' = b /\ Stage' = Stage /\ \A j \in DOMAIN input : Pos(j)' = Pos(j)
  BY <1>0, <1>1, <1>4, <1>6, OnlyThreadFacts DEF Pos, Probe
<1>8. kind \in {"unique", "duplicates", "revised", "mutable"} /\ layer \in 0 .. Layers
      /\ version \in 0 .. Layers
  <2>1. Layers \in Nat
    BY PredictedFacts
  <2> QED BY <1>1, <2>1 DEF HInv, Filling, Progress
<1>9. /\ o2n[b].index = IF "index" \in thread[i].left THEN Empty ELSE i
      /\ o2n[b].version = IF "version" \in thread[i].left THEN Empty ELSE version
  BY <1>0, <1>1 DEF HInv, Threads, ThreadInv
<1>10. /\ o2n'[b].key = o2n[b].key /\ o2n'[b].local = o2n[b].local /\ o2n'[b] \in Buckets
       /\ o2n'[b].index = IF "index" \in thread'[i].left THEN Empty ELSE i
       /\ o2n'[b].version = IF "version" \in thread'[i].left THEN Empty ELSE version
  <2>1. CASE f = "index"
    <3>1. o2n'[b] = [o2n[b] EXCEPT !.index = i]
      BY <1>2, <1>3, <2>1
    <3> QED BY <1>3, <1>4, <1>9, <2>1, <3>1 DEF Buckets
  <2>2. CASE f = "version"
    <3>1. o2n'[b] = [o2n[b] EXCEPT !.version = version]
      BY <1>2, <1>3, <2>2
    <3> QED BY <1>3, <1>4, <1>8, <1>9, <2>2, <3>1 DEF Buckets
  <2> QED BY <1>3, <2>1, <2>2
<1>11. DOMAIN o2n' = Bucket /\ \A p \in Bucket : p # b => o2n'[p] = o2n[p]
  BY <1>2, <1>3
<1>12. /\ ~Old(b) /\ o2n[b].key = input[i]
       /\ \A j \in DOMAIN input : j # i /\ Pos(j) = b =>
            thread[j].at # "write" /\ ~Mine(j) /\ ~Winner(j)
  BY <1>0, <1>1, Written
<1>13. \A p \in Bucket : Old(p)' <=> Old(p)
  <2>1. ~Old(b)'
    BY <1>1, <1>8, <1>10 DEF Old, Empty
  <2>2. \A p \in Bucket : p # b => (Old(p)' <=> Old(p))
    BY <1>1, <1>11 DEF Old
  <2> QED BY <1>12, <2>1, <2>2
<1>14. Tables'
  <2>1. o2n' \in [Bucket -> Buckets]
    <3>1. \A p \in Bucket : o2n'[p] \in Buckets
      BY <1>3, <1>10, <1>11
    <3>2. o2n' = [p \in Bucket |-> o2n'[p]]
      BY <1>2, <1>3
    <3> QED BY <3>1, <3>2
  <2>2. \A p \in Bucket : o2n'[p].key = Empty => o2n'[p] = EmptyBucket
    BY <1>3, <1>10, <1>11, <1>12 DEF HInv, Tables
  <2>3. \A p \in Bucket : o2n'[p].version <= version
    BY <1>8, <1>10, <1>11 DEF HInv, Tables, Empty
  <2> QED BY <1>1, <2>1, <2>2, <2>3 DEF HInv, Tables, Bucket, EmptyBucket, Buckets
<1>15. Numbered'
  BY <1>1, <1>11, <1>12, <1>13, NumberedStays DEF HInv
<1>16. last => thread'[i].left = {} /\ Mine(i)'
  BY <1>1, <1>2, <1>4, <1>7, <1>10 DEF Mine
<1>17. Threads'
  <2>1. ThreadInv(i)'
    <3>1. at \in Stage /\ at \in {"write", "place", "done"} /\ (at = "write" <=> ~last)
          /\ (kind = "unique" => at # "done")
      BY DEF Stage
    <3>2. ~last => thread'[i].left # {}
      BY <1>2, <1>4
    <3> HIDE DEF at
    <3>3. /\ thread'[i].at \in Stage' /\ thread'[i].at \notin {"try", "read"}
          /\ (thread'[i].at # "write" => last)
          /\ (thread'[i].at = "write" => thread'[i].left # {})
          /\ (kind' = "unique" => thread'[i].at # "done")
      BY <1>1, <1>4, <1>7, <3>1, <3>2
    <3>4. o2n'[b].key = input'[i] /\ version' = version
      BY <1>1, <1>10, <1>12
    <3> HIDE DEF Pos, Stage, Mine
    <3>5. (o2n[Pos(i)])' = o2n'[b]
      BY <1>7
    <3> QED BY <1>10, <1>16, <3>3, <3>4, <3>5 DEF ThreadInv
  <2>2. ASSUME NEW j \in DOMAIN input, j # i PROVE ThreadInv(j)'
    <3>1. ThreadInv(j) /\ thread'[j] = thread[j] /\ Pos(j)' = Pos(j) /\ Pos(j) \in Bucket
      BY <1>4, <1>7, <2>2, Facts DEF HInv, Threads
    <3>2. CASE Pos(j) # b
      <4>1. o2n'[Pos(j)] = o2n[Pos(j)]
        BY <1>11, <3>1, <3>2
      <4> QED BY <1>1, <3>1, <4>1, ThreadStays
    <3>3. CASE Pos(j) = b
      <4>1. thread[j].at # "write" /\ ~Mine(j)
        BY <1>12, <2>2, <3>3
      <4>2. ~Old(Pos(j)) /\ ~(Old(Pos(j)))'
        <5>1. ~Old(b)'
          BY <1>12, <1>13
        <5>2. (Old(Pos(j)))' <=> Old(b)'
          BY <3>1, <3>3 DEF Old
        <5> QED BY <1>12, <3>3, <5>1, <5>2
      <4>3. /\ thread[j].at \in Stage
            /\ thread[j].at = "try" => thread[j].left = {"index", "version"} /\ thread[j].match
            /\ thread[j].at # "try" => o2n[b].key = input[j]
            /\ thread[j].at = "read" => thread[j].left # {}
            /\ thread[j].at = "read" /\ thread[j].match => "index" \in thread[j].left
            /\ kind = "unique" => thread[j].at \notin {"place", "done"}
        BY <3>1, <3>3, <4>1, <4>2 DEF ThreadInv
      <4>4. o2n'[Pos(j)'].key = o2n[b].key
        BY <1>10, <3>1, <3>3
      <4> QED BY <1>1, <1>7, <3>1, <4>1, <4>2, <4>3, <4>4 DEF ThreadInv
    <3> QED BY <3>2, <3>3
  <2> QED BY <1>1, <2>1, <2>2 DEF Threads
<1>18. OneWriter'
  <2>1. \A j \in DOMAIN input : thread'[j].at = "write" => thread[j].at = "write"
    BY <1>1, <1>4
  <2> QED BY <1>1, <1>7, <2>1 DEF HInv, OneWriter
<1>19. ASSUME NEW j \in DOMAIN input, j # i PROVE (Mine(j)' <=> Mine(j)) /\ (Winner(j)' <=> Winner(j))
  <2>1. thread'[j] = thread[j] /\ Pos(j)' = Pos(j) /\ Pos(j) \in Bucket /\ j # Empty
    BY <1>4, <1>7, <1>19, Facts
  <2>2. CASE Pos(j) # b
    <3>1. o2n'[Pos(j)'] = o2n[Pos(j)]
      BY <1>11, <2>1, <2>2
    <3> QED BY <1>1, <2>1, <3>1 DEF Mine, Winner
  <2>3. CASE Pos(j) = b
    <3>1. ~Mine(j) /\ ~Winner(j) /\ thread[j].at # "write"
      BY <1>12, <1>19, <2>3
    <3>2. o2n'[Pos(j)'].index # j
      BY <1>10, <1>19, <2>1, <2>3
    <3> QED BY <2>1, <3>1, <3>2 DEF Mine, Winner
  <2> QED BY <2>2, <2>3
<1>20. NewOwned'
  <2> SUFFICES ASSUME NEW p \in Bucket, o2n'[p].key # Empty, ~Old(p)'
               PROVE  \E j \in DOMAIN input : Pos(j)' = p /\ Winner(j)'
    BY <1>1 DEF NewOwned, Bucket
  <2>1. CASE p = b
    <3>1. Winner(i)'
      BY <1>4, <1>16 DEF Winner
    <3> QED BY <1>7, <2>1, <3>1
  <2>2. CASE p # b
    <3>1. PICK j \in DOMAIN input : Pos(j) = p /\ Winner(j)
      BY <1>1, <1>11, <1>13, <2>2 DEF HInv, NewOwned
    <3>2. j # i
      BY <1>0, <2>2, <3>1
    <3> QED BY <1>7, <1>19, <3>1, <3>2
  <2> QED BY <2>1, <2>2
<1>21. Counted'
  <2>1. \A j \in DOMAIN input : j # i =>
            ((thread'[j].at = "done" /\ Mine(j)') <=> (thread[j].at = "done" /\ Mine(j)))
    BY <1>4, <1>19
  <2>2. CASE kind \in {"revised", "mutable"}
    <3>1. (thread'[i].at = "done" /\ Mine(i)') <=> last
      BY <1>4, <1>16, <2>2
    <3>2. counted = {j \in DOMAIN input : thread[j].at = "done" /\ Mine(j)}
      BY <2>2 DEF HInv, Counted
    <3>3. counted' = IF last THEN counted \cup {i} ELSE counted
      BY <1>2, <2>2 DEF Tally
    <3>4. counted' = {j \in DOMAIN input : thread'[j].at = "done" /\ Mine(j)'}
      BY <1>1, <2>1, <3>1, <3>2, <3>3
    <3> QED BY <1>1, <2>2, <3>4 DEF Counted
  <2>3. CASE kind \notin {"revised", "mutable"}
    <3>1. counted' = counted
      BY <1>2, <2>3 DEF Tally
    <3> QED BY <1>1, <2>3, <3>1 DEF HInv, Counted
  <2> QED BY <2>2, <2>3
<1> QED BY <1>6, <1>14, <1>15, <1>17, <1>18, <1>20, <1>21, OnlyThreadFacts DEF HInv

(* With fanout many neighbours of every node the tables have room for all  *)
(* items of a fill.                                                        *)
LEMMA RoomFits ==
    ASSUME ~AllNeighbours, HInv, kernel # "none"
    PROVE  \E n \in 1 .. MaxItems : /\ DOMAIN input = 0 .. n - 1 /\ layer \in 0 .. Layers
                                    /\ Predicted[layer] \in Nat /\ num_items + n <= Predicted[layer]
                                    /\ Predicted[layer] <= n2o_size
<1>1. PICK n \in 1 .. MaxItems : n <= Room /\ DOMAIN input = 0 .. n - 1
  BY DEF HInv, Filling
<1>2. n \in Nat /\ num_items \in Nat /\ Layers \in Nat /\ MaxItems \in Nat
  BY PredictedFacts, HashTableAssumption DEF HInv, Progress
<1>3. CASE kind = "unique"
  <2>1. layer = 0 /\ num_items = 0 /\ n <= batch_size
    BY <1>1, <1>3 DEF HInv, Filling, Progress, Room
  <2> QED BY <1>1, <1>2, <2>1, PredictedFacts
<1>4. CASE kind # "unique"
  <2>1. layer \in 1 .. Layers /\ layer > 0
    BY <1>2, <1>4 DEF HInv, Filling
  <2>2. num_items <= Predicted[layer - 1] /\ n <= num_items * fanout[Layers + 1 - layer]
    BY <1>1, <1>4, <2>1 DEF HInv, Progress, Room, MaxSampled
  <2> DEFINE P == Predicted[layer - 1]
             F == fanout[Layers + 1 - layer]
  <2>3. P \in Nat /\ F \in Nat /\ Predicted[layer] = P + P * F
        /\ Predicted[layer] \in Nat /\ Predicted[layer] <= n2o_size
    BY <1>2, <2>1, PredictedFacts
  <2>4. num_items <= P /\ n <= num_items * F
    BY <2>2
  <2> HIDE DEF P, F
  <2>5. (P - num_items) * F >= 0
    BY <1>2, <2>3, <2>4
  <2>6. (P - num_items) * F = P * F - num_items * F
    BY <1>2, <2>3
  <2>7. P * F \in Nat /\ num_items * F \in Nat
    BY <1>2, <2>3
  <2>8. num_items + n <= Predicted[layer]
    BY <1>2, <2>3, <2>4, <2>5, <2>6, <2>7
  <2> QED BY <1>1, <1>2, <2>1, <2>3, <2>8
<1> QED BY <1>3, <1>4

(* In the batch itself every node gets its index for a number.             *)
LEMMA Places ==
    ASSUME ~AllNeighbours, PInv, HInv, NEW i \in DOMAIN input, Place(i)
    PROVE  HInv'
<1>0. PICK b \in Bucket : b = Pos(i)
  BY Facts
<1>1. /\ kernel = "insert" /\ thread[i].at = "place"
      /\ o2n' = [o2n EXCEPT ![b].local = num_items + i]
      /\ n2o' = [n2o EXCEPT ![num_items + i] = input[i]]
      /\ thread' = [thread EXCEPT ![i].at = "done"]
      /\ UNCHANGED <<version, num_items, layer, kind, kernel, input, counted, batches>>
  BY <1>0 DEF Place, Inserting
<1>2. /\ thread \in [DOMAIN input -> Thread] /\ thread[i] \in Thread /\ i # Empty
      /\ input[i] \in Ids /\ o2n \in [Bucket -> Buckets] /\ o2n[b] \in Buckets
      /\ n2o \in [0 .. n2o_size - 1 -> IdsOrEmpty]
  BY <1>0, Facts DEF PInv, Shape, HInv, Tables
<1>3. kind = "unique"
  BY <1>1 DEF HInv, Threads, ThreadInv, Stage
<1>4. num_items = 0 /\ \A p \in Bucket : ~Old(p)
  BY <1>1, <1>3, NoOldInUnique DEF HInv, Filling, Progress
<1>5. i \in 0 .. n2o_size - 1 /\ num_items + i = i
  <2>1. PICK n \in 1 .. MaxItems : /\ DOMAIN input = 0 .. n - 1 /\ Predicted[layer] \in Nat
                                   /\ num_items + n <= Predicted[layer] /\ Predicted[layer] <= n2o_size
    BY <1>1, RoomFits
  <2>2. n2o_size \in Nat /\ MaxItems \in Nat
    BY PredictedFacts, HashTableAssumption
  <2> QED BY <1>4, <2>1, <2>2
<1>6. /\ thread'[i] = [thread[i] EXCEPT !.at = "done"] /\ thread'[i].at = "done"
      /\ thread'[i].attempt = thread[i].attempt
      /\ \A j \in DOMAIN input : j # i => thread'[j] = thread[j]
      /\ thread' \in [DOMAIN input -> Thread]
  BY <1>1, <1>2 DEF Thread
<1>7. OnlyThread(i)
  BY <1>1, <1>6 DEF OnlyThread
<1>8. Pos(i)' = b /\ Stage' = Stage /\ \A j \in DOMAIN input : Pos(j)' = Pos(j)
  BY <1>0, <1>1, <1>6, <1>7, OnlyThreadFacts DEF Pos, Probe
<1>9. /\ o2n'[b] = [o2n[b] EXCEPT !.local = i] /\ o2n'[b] \in Buckets /\ o2n'[b].local = i
      /\ o2n'[b].key = o2n[b].key /\ o2n'[b].index = o2n[b].index
      /\ o2n'[b].version = o2n[b].version
      /\ \A p \in Bucket : p # b => o2n'[p] = o2n[p]
  <2>1. o2n'[b] = [o2n[b] EXCEPT !.local = i]
    BY <1>1, <1>2, <1>5
  <2>2. n2o_size \in Nat
    BY PredictedFacts
  <2>3. \A p \in Bucket : p # b => o2n'[p] = o2n[p]
    BY <1>1, <1>2
  <2>4. i \in -1 .. n2o_size - 1
    BY <1>5, <2>2
  <2>5. o2n'[b] \in Buckets
    BY <1>2, <2>1, <2>4 DEF Buckets
  <2>6. /\ o2n'[b].local = i /\ o2n'[b].key = o2n[b].key /\ o2n'[b].index = o2n[b].index
        /\ o2n'[b].version = o2n[b].version
    BY <1>2, <2>1 DEF Buckets
  <2> QED BY <2>1, <2>3, <2>5, <2>6
<1>10. n2o'[i] = input[i] /\ \A k \in 0 .. n2o_size - 1 : k # i => n2o'[k] = n2o[k]
  BY <1>1, <1>2, <1>5
<1>11. \A p \in Bucket : Old(p)' <=> Old(p)
  BY <1>1, <1>9 DEF Old
<1>12. o2n[b].key = input[i] /\ o2n[b].index = i /\ o2n[b].version = version
  BY <1>0, <1>1, <1>3 DEF HInv, Threads, ThreadInv, Mine
<1>13. Tables'
  <2>1. o2n' \in [Bucket -> Buckets]
    <3>1. \A p \in Bucket : o2n'[p] \in Buckets
      BY <1>2, <1>9
    <3>2. o2n' = [p \in Bucket |-> o2n'[p]]
      BY <1>1, <1>2
    <3> QED BY <3>1, <3>2
  <2>2. \A p \in Bucket : o2n'[p].key = Empty => o2n'[p] = EmptyBucket
    BY <1>2, <1>9, <1>12, EmptyIsNoId DEF HInv, Tables
  <2>3. \A p \in Bucket : o2n'[p].version <= version
    BY <1>9 DEF HInv, Tables
  <2>4. n2o' \in [0 .. n2o_size - 1 -> IdsOrEmpty]
    BY <1>1, <1>2, <1>5 DEF IdsOrEmpty
  <2> QED BY <1>1, <2>1, <2>2, <2>3, <2>4 DEF HInv, Tables, Bucket, EmptyBucket, Buckets, IdsOrEmpty
<1>14. Numbered'
  BY <1>1, <1>4, <1>11, NumberedStays DEF HInv
<1>15. ASSUME NEW j \in DOMAIN input, j # i
       PROVE  /\ (Mine(j)' <=> Mine(j)) /\ (Winner(j)' <=> Winner(j))
              /\ thread[j].at # "try" => Pos(j) # b
  <2>1. thread'[j] = thread[j] /\ Pos(j)' = Pos(j) /\ Pos(j) \in Bucket /\ j # Empty
    BY <1>6, <1>8, <1>15, Facts
  <2>2. o2n'[Pos(j)].index = o2n[Pos(j)].index /\ o2n'[Pos(j)].version = o2n[Pos(j)].version
    BY <1>9, <2>1
  <2>3. (Mine(j)' <=> Mine(j)) /\ (Winner(j)' <=> Winner(j))
    BY <1>1, <2>1, <2>2 DEF Mine, Winner
  <2>4. ASSUME thread[j].at # "try", Pos(j) = b PROVE FALSE
    <3>1. thread[j].at \in {"write", "place", "done"}
      BY <1>3, <2>4 DEF HInv, Threads, ThreadInv, Stage
    <3>2. o2n[b].index \in {Empty, j}
      BY <1>3, <2>4, <3>1 DEF HInv, Threads, ThreadInv, Mine
    <3> QED BY <1>2, <1>12, <1>15, <3>2
  <2> QED BY <2>3, <2>4
<1>16. Threads'
  <2>1. ThreadInv(i)'
    <3>1. (o2n[Pos(i)])' = o2n'[b]
      BY <1>8
    <3>2. Mine(i)'
      BY <1>1, <1>8, <1>9, <1>12 DEF Mine
    <3>3. (thread[i].at \in Stage)'
      BY <1>6, <1>8 DEF Stage
    <3> HIDE DEF Pos, Mine, Stage
    <3> QED BY <1>1, <1>3, <1>6, <1>9, <1>10, <1>12, <3>1, <3>2, <3>3 DEF ThreadInv
  <2>2. ASSUME NEW j \in DOMAIN input, j # i PROVE ThreadInv(j)'
    <3>1. /\ ThreadInv(j) /\ thread'[j] = thread[j] /\ Pos(j)' = Pos(j) /\ Pos(j) \in Bucket
          /\ thread[j].at # "try" => Pos(j) # b
      BY <1>6, <1>8, <1>15, <2>2, Facts DEF HInv, Threads
    <3>2. CASE thread[j].at # "try"
      <4>1. o2n'[Pos(j)] = o2n[Pos(j)]
        BY <1>9, <3>1, <3>2
      <4>2. n2o'[j] = n2o[j]
        BY <1>1, <1>2, <1>5, <2>2
      <4> QED BY <1>1, <3>1, <4>1, <4>2, ThreadStays
    <3>3. CASE thread[j].at = "try"
      BY <1>8, <3>1, <3>3 DEF ThreadInv
    <3> QED BY <3>2, <3>3
  <2> QED BY <1>1, <2>1, <2>2 DEF Threads
<1>17. OneWriter'
  <2>1. \A j \in DOMAIN input : thread'[j].at = "write" => thread[j].at = "write"
    BY <1>1, <1>6
  <2> QED BY <1>1, <1>8, <2>1 DEF HInv, OneWriter
<1>18. NewOwned'
  <2> SUFFICES ASSUME NEW p \in Bucket, o2n'[p].key # Empty, ~Old(p)'
               PROVE  \E j \in DOMAIN input : Pos(j)' = p /\ Winner(j)'
    BY <1>1 DEF NewOwned, Bucket
  <2>1. CASE p = b
    <3>1. Mine(i)'
      BY <1>1, <1>8, <1>9, <1>12 DEF Mine
    <3> QED BY <1>6, <1>8, <2>1, <3>1 DEF Winner
  <2>2. CASE p # b
    <3>1. PICK j \in DOMAIN input : Pos(j) = p /\ Winner(j)
      BY <1>1, <1>9, <1>11, <2>2 DEF HInv, NewOwned
    <3>2. j # i
      BY <1>0, <2>2, <3>1
    <3> QED BY <1>8, <1>15, <3>1, <3>2
  <2> QED BY <2>1, <2>2
<1>19. Counted'
  BY <1>1, <1>3 DEF HInv, Counted
<1> QED BY <1>7, <1>13, <1>14, <1>16, <1>17, <1>18, <1>19, OnlyThreadFacts DEF HInv

------------------------------------------------------------------------------
LEMMA Resets == PInv /\ HInv /\ Reset => HInv'
<1> SUFFICES ASSUME HInv, Reset PROVE HInv'
  OBVIOUS
<1>1. /\ kernel = "none" /\ kernel' = "none"
      /\ \A p \in Bucket : o2n'[p] = EmptyBucket
      /\ o2n' = [p \in Bucket |-> EmptyBucket]
      /\ n2o' = [k \in DOMAIN n2o |-> Empty]
      /\ version' = 0 /\ num_items' = 0 /\ layer' = 0 /\ batches' = batches + 1
      /\ batches < MaxBatches
      /\ kind' = kind /\ input' = input /\ thread' = thread /\ counted' = counted
  BY DEF Reset, fillVars
<1>2. Layers \in Nat /\ n2o_size \in Nat /\ MaxItems \in Nat /\ MaxBatches \in Nat
  BY PredictedFacts, HashTableAssumption
<1>3. input = << >> /\ DOMAIN input = {} /\ kind = "none" /\ counted = {}
  BY <1>1 DEF HInv, Filling
<1>4. Progress'
  BY <1>1, <1>2 DEF HInv, Progress
<1>5. Filling'
  BY <1>1 DEF HInv, Filling
<1>6. \A p \in Bucket : ~Old(p)'
  BY <1>1 DEF Old, EmptyBucket
<1>7. Tables'
  <2>1. EmptyBucket \in Buckets
    BY <1>2 DEF EmptyBucket, Buckets, Empty, IdsOrEmpty
  <2>2. o2n' \in [Bucket -> Buckets]
    BY <1>1, <2>1
  <2>3. n2o' \in [0 .. n2o_size - 1 -> IdsOrEmpty]
    BY <1>1 DEF HInv, Tables, IdsOrEmpty
  <2>4. \A p \in Bucket : o2n'[p].key = Empty /\ o2n'[p].version <= 0
    BY <1>1 DEF EmptyBucket, Empty
  <2> QED BY <1>1, <2>2, <2>3, <2>4 DEF Tables, Bucket, EmptyBucket, Buckets, IdsOrEmpty
<1>8. Numbered'
  BY <1>1, <1>6 DEF Numbered, Bucket
<1>9. Threads' /\ OneWriter' /\ NewOwned' /\ Counted'
  BY <1>1, <1>3 DEF Threads, OneWriter, NewOwned, Counted
<1> QED BY <1>4, <1>5, <1>7, <1>8, <1>9 DEF HInv

(* A fill that fits starts with what the ones before have left. *)
LEMMA Launches ==
    ASSUME PInv, HInv, NEW how, NEW n \in 1 .. MaxItems, NEW items \in Items(n), Launch(how, items),
           how \in {"unique", "duplicates", "revised", "mutable"}, n <= Room',
           IF how = "unique" THEN layer = 0 ELSE layer \in 1 .. Layers,
           how = "unique" => \A i, j \in 0 .. n - 1 : items[i] = items[j] => i = j
    PROVE  HInv'
<1>1. /\ kernel = "none" /\ kind' = how /\ kernel' = "insert" /\ input' = items /\ counted' = {}
      /\ DOMAIN items = 0 .. n - 1
      /\ \A i \in DOMAIN items :
            thread'[i].at = "try" /\ thread'[i].left = {"index", "version"} /\ thread'[i].match
      /\ UNCHANGED <<o2n, n2o, version, num_items, layer, batches>>
  BY DEF Launch, Items, tableVars
<1>2. Progress'
  BY <1>1 DEF HInv, Progress
<1>3. Filling'
  BY <1>1 DEF Filling
<1>4. \A p \in Bucket : Old(p)' <=> Old(p)
  BY <1>1 DEF Old
<1>5. Tables'
  BY <1>1, <1>4 DEF HInv, Tables, Bucket, EmptyBucket, Buckets
<1>6. Numbered'
  BY <1>1, <1>4, NumberedStays DEF HInv
<1>7. Threads'
  BY <1>1 DEF Threads, ThreadInv, Stage
<1>8. OneWriter' /\ Counted'
  BY <1>1 DEF OneWriter, Counted
<1>9. NewOwned'
  BY <1>1, <1>4 DEF HInv, Tables, NewOwned, Bucket
<1> QED BY <1>2, <1>3, <1>5, <1>6, <1>7, <1>8, <1>9 DEF HInv

LEMMA Nothing ==
    ASSUME PInv, HInv, NEW how, FillWithNothing(how)
    PROVE  HInv'
<1>1. /\ kernel = "none" /\ layer \in 1 .. Layers /\ version' \in {version, version + 1}
      /\ layer' = layer + 1
      /\ UNCHANGED <<o2n, n2o, num_items, kind, kernel, input, thread, counted, batches>>
  BY DEF FillWithNothing, tableVars, fillVars
<1>2. /\ Layers \in Nat /\ version \in Nat /\ version <= layer /\ num_items \in Nat
      /\ num_items <= Predicted[layer - 1]
  BY <1>1, PredictedFacts DEF HInv, Progress
<1>3. Predicted[layer - 1] <= Predicted[layer]
  <2> DEFINE P == Predicted[layer - 1]
             F == fanout[Layers + 1 - layer]
  <2>1. P \in Nat /\ F \in Nat /\ Predicted[layer] = P + P * F
    BY <1>1, <1>2, PredictedFacts
  <2> HIDE DEF P, F
  <2>2. P * F \in Nat
    BY <2>1
  <2>3. P <= Predicted[layer]
    BY <2>1, <2>2
  <2> QED BY <2>3 DEF P
<1>4. Progress'
  <2>1. Predicted[layer - 1] \in Nat /\ Predicted[layer] \in Nat
    BY <1>1, <1>2, PredictedFacts
  <2>2. layer' - 1 = layer /\ layer' \in 0 .. Layers + 1 /\ version' \in 0 .. layer'
    BY <1>1, <1>2
  <2> QED BY <1>1, <1>2, <1>3, <2>1, <2>2 DEF HInv, Progress
<1>5. Filling'
  BY <1>1 DEF HInv, Filling
<1>6. \A p \in Bucket : Old(p) <=> o2n[p].key # Empty
  BY <1>1 DEF HInv, Tables, Old
<1>7. \A p \in Bucket : Old(p)' <=> Old(p)
  <2>1. \A p \in Bucket : Old(p) => Old(p)'
    BY <1>1, <1>2 DEF Old
  <2>2. \A p \in Bucket : Old(p)' => o2n[p].key # Empty
    BY <1>1 DEF Old
  <2> QED BY <1>6, <2>1, <2>2
<1>8. Tables'
  <2>1. \A p \in Bucket : o2n[p].version <= version'
    <3>1. \A p \in Bucket : o2n[p].version \in Int /\ o2n[p].version <= version
      BY <1>2 DEF HInv, Tables, Buckets
    <3> QED BY <1>1, <1>2, <3>1
  <2> QED BY <1>1, <1>7, <2>1 DEF HInv, Tables, Bucket, EmptyBucket, Buckets
<1>9. Numbered'
  BY <1>1, <1>7, NumberedStays DEF HInv
<1>10. Threads' /\ OneWriter' /\ NewOwned' /\ Counted'
  <2>1. input = << >> /\ kernel' = "none" /\ counted = {} /\ DOMAIN input = {}
    BY <1>1 DEF HInv, Filling
  <2> QED BY <1>1, <2>1 DEF Threads, OneWriter, NewOwned, Counted
<1> QED BY <1>4, <1>5, <1>8, <1>9, <1>10 DEF HInv

------------------------------------------------------------------------------
(* SearchForPositionO2N finds the bucket of every node in the table.       *)
LEMMA SearchFinds ==
    ASSUME PInv, NEW p \in Bucket, o2n[p].key # Empty
    PROVE  SearchPos(o2n[p].key) = p
<1> DEFINE id == o2n[p].key
           Hit(n) == o2n[Probe(id, n)].key = id /\ \A m \in 0 .. n - 1 : o2n[Probe(id, m)].key # id
<1>1. id \in Ids
  BY DEF PInv, Shape, IdsOrEmpty
<1>2. PICK n \in Nat : Probe(id, n) = p /\ \A m \in 0 .. n - 1 : Taken(Probe(id, m), id)
  BY DEF PInv, NodePath
<1>3. Hit(n)
  BY <1>2 DEF Taken
<1>4. n \in Bucket
  <2> SUFFICES ASSUME n \notin Bucket PROVE FALSE
    OBVIOUS
  <2>1. n >= o2n_size
    BY BucketAssumption DEF Bucket
  <2>2. PICK m \in 0 .. n - 1 : Probe(id, m) = Probe(id, n)
    BY <1>1, <2>1, ProbeRepeats
  <2> QED BY <1>2, <2>2 DEF Taken
<1>5. SearchPos(id) = Probe(id, CHOOSE k \in Bucket : Hit(k))
  BY DEF SearchPos
<1> DEFINE c == CHOOSE k \in Bucket : Hit(k)
<1>6. c \in Bucket /\ Hit(c)
  BY <1>3, <1>4
<1> HIDE DEF c
<1>7. c \in Nat
  BY <1>6, BucketAssumption DEF Bucket
<1>8. Probe(id, c) \in Bucket /\ o2n[Probe(id, c)].key = id
  BY <1>1, <1>6, <1>7, ProbeInBucket
<1>9. Probe(id, c) = p
  BY <1>8, PathGivesKeyOnce DEF PInv, KeyOnce
<1> QED BY <1>5, <1>9 DEF c

(* When the insert kernel is done, the new items are those whose bucket    *)
(* has their index, and every bucket has one such item at most.            *)
LEMMA AtEnd ==
    ASSUME PInv, HInv, KernelDone
    PROVE  \A i \in DOMAIN input :
             /\ o2n[Pos(i)].key = input[i] /\ Pos(i) \in Bucket
             /\ SearchPos(input[i]) = Pos(i) /\ (Owned(i) <=> Mine(i)) /\ thread[i].at = "done"
<1> SUFFICES ASSUME NEW i \in DOMAIN input
             PROVE  /\ o2n[Pos(i)].key = input[i] /\ Pos(i) \in Bucket
                    /\ SearchPos(input[i]) = Pos(i) /\ (Owned(i) <=> Mine(i)) /\ thread[i].at = "done"
  OBVIOUS
<1>1. thread[i].at = "done"
  BY DEF KernelDone
<1>2. o2n[Pos(i)].key = input[i] /\ Pos(i) \in Bucket /\ input[i] # Empty
  BY <1>1, Facts DEF HInv, Threads, ThreadInv
<1>3. SearchPos(input[i]) = Pos(i)
  BY <1>2, SearchFinds
<1>4. Owned(i) <=> Mine(i)
  BY <1>3 DEF Owned, Mine
<1> QED BY <1>1, <1>2, <1>3, <1>4

LEMMA Counts == PInv /\ HInv /\ Count => HInv'
<1> SUFFICES ASSUME PInv, HInv, Count PROVE HInv'
  OBVIOUS
<1>1. /\ kernel = "insert" /\ KernelDone /\ kind = "duplicates" /\ kernel' = "compact"
      /\ counted' = {i \in DOMAIN input : Owned(i)}
      /\ UNCHANGED <<o2n, n2o, version, num_items, layer, kind, input, thread, batches>>
  BY DEF Count, tableVars
<1>2. Progress'
  BY <1>1 DEF HInv, Progress
<1>3. Filling'
  <2>1. Room' = Room
    BY <1>1 DEF Room, MaxSampled
  <2>2. KernelDone'
    BY <1>1 DEF KernelDone
  <2> QED BY <1>1, <2>1, <2>2 DEF HInv, Filling
<1>4. \A p \in Bucket : Old(p)' <=> Old(p)
  BY <1>1 DEF Old
<1>5. Tables'
  BY <1>1, <1>4 DEF HInv, Tables, Bucket, EmptyBucket, Buckets
<1>6. Numbered'
  BY <1>1, <1>4, NumberedStays DEF HInv
<1>7. \A i \in DOMAIN input : (Mine(i)' <=> Mine(i)) /\ Pos(i)' = Pos(i) /\ (Winner(i)' <=> Winner(i))
  BY <1>1 DEF Mine, Winner, Pos, Probe
<1>8. Threads'
  BY <1>1, <1>7, ThreadStays DEF HInv, Threads
<1>9. OneWriter' /\ NewOwned'
  BY <1>1, <1>4, <1>7 DEF HInv, OneWriter, NewOwned, Bucket
<1>10. Counted'
  BY <1>1, <1>7, AtEnd DEF Counted
<1> QED BY <1>2, <1>3, <1>5, <1>6, <1>8, <1>9, <1>10 DEF HInv

------------------------------------------------------------------------------
(* What compact_hashmap does: the new items get the next numbers, by rank. *)
LEMMA Compacted ==
    ASSUME ~AllNeighbours, PInv, HInv, Compact
    PROVE  /\ kernel # "none" /\ kind # "unique" /\ layer \in 1 .. Layers /\ KernelDone
           /\ counted = {i \in DOMAIN input : Mine(i)}
           /\ \A i, j \in counted : Pos(i) = Pos(j) => i = j
           /\ DOMAIN o2n' = Bucket /\ DOMAIN n2o' = 0 .. n2o_size - 1
           /\ \A p \in Bucket : (\A i \in counted : Pos(i) # p) => o2n'[p] = o2n[p]
           /\ \A i \in counted :
                /\ o2n'[Pos(i)] = [o2n[Pos(i)] EXCEPT !.local = num_items + Rank(counted, i)]
                /\ Rank(counted, i) \in 0 .. Cardinality(counted) - 1
                /\ n2o'[num_items + Rank(counted, i)] = input[i]
           /\ \A k \in 0 .. Cardinality(counted) - 1 : \E i \in counted : Rank(counted, i) = k
           /\ \A k \in 0 .. n2o_size - 1 :
                (\A i \in counted : num_items + Rank(counted, i) # k) => n2o'[k] = n2o[k]
           /\ Cardinality(counted) \in Nat
           /\ num_items' = num_items + Cardinality(counted)
           /\ num_items' <= Predicted[layer] /\ num_items' <= n2o_size
<1> DEFINE new == IF kind = "mutable" THEN counted ELSE {i \in DOMAIN input : Owned(i)}
           numberOf(p) == {Number(i, new) : i \in {j \in new : SearchPos(input[j]) = p}}
           nodeOf(k) == {input[i] : i \in {j \in new : Number(j, new) = k}}
           local(p) == CHOOSE k \in numberOf(p) : TRUE
           node(k) == CHOOSE id \in nodeOf(k) : TRUE
           rank(i) == num_items + Rank(counted, i)
<1>1. /\ kind # "unique" /\ kernel \in {"insert", "compact"} /\ kernel # "none"
      /\ kind # "duplicates" => kernel = "insert"
      /\ kernel = "insert" => KernelDone /\ kind # "duplicates"
      /\ num_items' = num_items + Cardinality(counted)
  BY DEF Compact, HInv, Filling
<1>2. /\ o2n' = [p \in Bucket |-> IF numberOf(p) = {} THEN o2n[p] ELSE [o2n[p] EXCEPT !.local = local(p)]]
      /\ n2o' = [k \in DOMAIN n2o |-> IF nodeOf(k) = {} THEN n2o[k] ELSE node(k)]
  BY DEF Compact
<1>3. KernelDone /\ layer \in 1 .. Layers
  BY <1>1 DEF HInv, Filling
<1>4. counted = {i \in DOMAIN input : Mine(i)}
  <2>1. kind \in {"revised", "mutable"} \/ kernel = "compact"
    BY <1>1 DEF HInv, Filling
  <2>2. counted = {i \in DOMAIN input : thread[i].at = "done" /\ Mine(i)}
    BY <2>1 DEF HInv, Counted
  <2> QED BY <1>3, <2>2, AtEnd
<1>5. new = counted
  BY <1>3, <1>4, AtEnd
<1> HIDE DEF new
<1>6. PICK n \in 1 .. MaxItems : /\ DOMAIN input = 0 .. n - 1 /\ Predicted[layer] \in Nat
                                 /\ num_items + n <= Predicted[layer] /\ Predicted[layer] <= n2o_size
  BY <1>1, RoomFits
<1>7. n \in Nat /\ counted \subseteq 0 .. n - 1 /\ num_items \in Nat /\ n2o_size \in Nat
  <2>1. MaxItems \in Nat
    BY HashTableAssumption
  <2> QED BY <1>4, <1>6, <2>1, PredictedFacts DEF HInv, Progress
<1>8. /\ IsFiniteSet(counted) /\ Cardinality(counted) \in 0 .. n
      /\ \A i \in counted : Rank(counted, i) \in 0 .. Cardinality(counted) - 1
      /\ \A i, j \in counted : Rank(counted, i) = Rank(counted, j) => i = j
      /\ \A k \in 0 .. Cardinality(counted) - 1 : \E i \in counted : Rank(counted, i) = k
  BY <1>7, Ranks
<1>9. \A i \in counted : Number(i, new) = rank(i) /\ SearchPos(input[i]) = Pos(i) /\ Pos(i) \in Bucket
  BY <1>3, <1>4, <1>5, <1>7, NumberIsRank, AtEnd
<1>10. \A i, j \in counted : Pos(i) = Pos(j) => i = j
  BY <1>4 DEF Mine
<1>11. \A i, j \in counted : rank(i) = rank(j) => i = j
  BY <1>7, <1>8
<1> DEFINE c == Cardinality(counted)
<1>12. \A i \in counted : rank(i) \in 0 .. n2o_size - 1
  <2> SUFFICES ASSUME NEW i \in counted PROVE rank(i) \in 0 .. n2o_size - 1
    OBVIOUS
  <2> DEFINE r == Rank(counted, i)
  <2>1. r \in 0 .. c - 1 /\ c \in 0 .. n
    BY <1>8
  <2> HIDE DEF r, c
  <2>2. num_items + r \in 0 .. n2o_size - 1
    BY <1>6, <1>7, <2>1
  <2> QED BY <2>2 DEF r
<1> HIDE DEF rank
<1>13. ASSUME NEW i \in counted PROVE numberOf(Pos(i)) = {rank(i)}
  <2>1. i \in new /\ SearchPos(input[i]) = Pos(i) /\ Number(i, new) = rank(i)
    BY <1>5, <1>9
  <2>2. \A j \in new : SearchPos(input[j]) = Pos(i) => j = i
    BY <1>5, <1>9, <1>10
  <2>3. {j \in new : SearchPos(input[j]) = Pos(i)} = {i}
    BY <2>1, <2>2
  <2> QED BY <2>1, <2>3
<1>14. ASSUME NEW p \in Bucket, \A i \in counted : Pos(i) # p PROVE numberOf(p) = {}
  <2>1. {j \in new : SearchPos(input[j]) = p} = {}
    BY <1>5, <1>9, <1>14
  <2> QED BY <2>1
<1>15. ASSUME NEW i \in counted PROVE nodeOf(rank(i)) = {input[i]}
  <2>1. {j \in new : Number(j, new) = rank(i)} = {i}
    BY <1>5, <1>9, <1>11
  <2> QED BY <2>1
<1>16. ASSUME NEW k, \A i \in counted : rank(i) # k PROVE nodeOf(k) = {}
  <2>1. {j \in new : Number(j, new) = k} = {}
    BY <1>5, <1>9, <1>16
  <2> QED BY <2>1
<1> HIDE DEF numberOf, nodeOf
<1>17. ASSUME NEW x PROVE (CHOOSE y \in {x} : TRUE) = x
  OBVIOUS
<1>18. DOMAIN o2n' = Bucket /\ DOMAIN n2o' = 0 .. n2o_size - 1
  <2>1. DOMAIN n2o = 0 .. n2o_size - 1
    BY DEF HInv, Tables
  <2> HIDE DEF local, node
  <2> QED BY <1>2, <2>1
<1>19. ASSUME NEW i \in counted
       PROVE  o2n'[Pos(i)] = [o2n[Pos(i)] EXCEPT !.local = rank(i)] /\ n2o'[rank(i)] = input[i]
  <2>1. local(Pos(i)) = rank(i) /\ node(rank(i)) = input[i]
    BY <1>13, <1>15, <1>17
  <2>2. numberOf(Pos(i)) # {} /\ nodeOf(rank(i)) # {} /\ Pos(i) \in Bucket
        /\ rank(i) \in DOMAIN n2o
    BY <1>9, <1>12, <1>13, <1>15 DEF HInv, Tables
  <2> HIDE DEF local, node
  <2> QED BY <1>2, <2>1, <2>2
<1>20. ASSUME NEW p \in Bucket, \A i \in counted : Pos(i) # p PROVE o2n'[p] = o2n[p]
  BY <1>2, <1>14, <1>20
<1>21. ASSUME NEW k \in 0 .. n2o_size - 1, \A i \in counted : rank(i) # k PROVE n2o'[k] = n2o[k]
  <2>1. k \in DOMAIN n2o
    BY DEF HInv, Tables
  <2> QED BY <1>2, <1>16, <1>21, <2>1
<1>22. c \in Nat /\ num_items' <= Predicted[layer] /\ num_items' <= n2o_size
  <2>1. c \in 0 .. n
    BY <1>8
  <2>2. num_items' = num_items + c
    BY <1>1
  <2> HIDE DEF c
  <2> QED BY <1>6, <1>7, <2>1, <2>2
<1> QED BY <1>1, <1>3, <1>4, <1>8, <1>10, <1>18, <1>19, <1>20, <1>21, <1>22 DEF rank

(* The next fill begins. *)
LEMMA NextLayer ==
    ASSUME HInv, layer' = layer + 1, version' = version + 1, layer \in 0 .. Layers,
           num_items' \in Nat, num_items' <= Predicted[layer], batches' = batches
    PROVE  Progress'
<1>1. Layers \in Nat /\ version \in 0 .. layer
  BY PredictedFacts DEF HInv, Progress
<1>2. layer' - 1 = layer /\ layer' \in 0 .. Layers + 1 /\ version' \in 0 .. layer' /\ layer' # 0
  BY <1>1
<1> QED BY <1>2 DEF HInv, Progress

LEMMA Compacts ==
    ASSUME ~AllNeighbours, PInv, HInv, Compact
    PROVE  HInv'
<1>1. /\ kind' = "none" /\ kernel' = "none" /\ input' = << >> /\ thread' = << >> /\ counted' = {}
      /\ layer' = layer + 1 /\ version' = version + 1 /\ batches' = batches
  BY DEF Compact
<1>2. /\ layer \in 0 .. Layers /\ version \in Nat /\ num_items \in Nat /\ num_items' \in Nat
      /\ num_items <= num_items' /\ num_items' <= n2o_size /\ n2o_size \in Nat
      /\ kernel # "none" /\ KernelDone
  <2>1. Layers \in Nat /\ n2o_size \in Nat /\ num_items \in Nat /\ version \in Nat
    BY PredictedFacts DEF HInv, Progress
  <2> QED BY <2>1, Compacted
<1>3. Progress'
  BY <1>1, <1>2, NextLayer, Compacted
<1>4. Filling'
  BY <1>1 DEF Filling
<1>5. ASSUME NEW p \in Bucket
      PROVE  /\ o2n'[p].key = o2n[p].key /\ o2n'[p].index = o2n[p].index
             /\ o2n'[p].version = o2n[p].version /\ o2n'[p] \in Buckets
             /\ o2n[p].key = Empty \/ Old(p) => o2n'[p] = o2n[p]
  <2>1. o2n[p] \in Buckets
    BY DEF HInv, Tables
  <2>2. CASE \A i \in counted : Pos(i) # p
    BY <2>1, <2>2, Compacted
  <2>3. ASSUME NEW i \in counted, Pos(i) = p
        PROVE  /\ o2n'[p].key = o2n[p].key /\ o2n'[p].index = o2n[p].index
               /\ o2n'[p].version = o2n[p].version /\ o2n'[p] \in Buckets
               /\ ~(o2n[p].key = Empty \/ Old(p))
    <3> DEFINE r == num_items + Rank(counted, i)
    <3>1. o2n'[p] = [o2n[p] EXCEPT !.local = r]
      BY <2>3, Compacted
    <3>2. r \in -1 .. n2o_size - 1
      <4>1. /\ Rank(counted, i) \in 0 .. Cardinality(counted) - 1 /\ Cardinality(counted) \in Nat
            /\ num_items' = num_items + Cardinality(counted)
        BY Compacted
      <4> QED BY <1>2, <4>1
    <3> HIDE DEF r
    <3>3. i \in DOMAIN input /\ Mine(i)
      BY Compacted
    <3>4. o2n[p].version = version /\ o2n[p].key = input[i] /\ input[i] # Empty
      BY <1>2, <2>3, <3>3, AtEnd, Facts DEF Mine
    <3> QED BY <1>2, <2>1, <3>1, <3>2, <3>4 DEF Buckets, Old
  <2> QED BY <2>1, <2>2, <2>3
<1>6. ASSUME NEW p \in Bucket, o2n[p].key # Empty, ~Old(p)
      PROVE  \E i \in counted : Pos(i) = p /\ o2n[p].version = version
  <2>1. PICK w \in DOMAIN input : Pos(w) = p /\ Winner(w)
    BY <1>2, <1>6, Owner
  <2>2. Mine(w)
    BY <1>2, <2>1, AtEnd DEF Winner
  <2> QED BY <2>1, <2>2, Compacted DEF Mine
<1>7. \A p \in Bucket : Old(p)' <=> o2n[p].key # Empty
  <2>1. ASSUME NEW p \in Bucket, o2n[p].key # Empty PROVE Old(p)'
    <3>1. o2n[p].version \in 0 .. version
      BY <1>2, <1>6, <2>1 DEF Old
    <3> QED BY <1>1, <1>2, <1>5, <2>1, <3>1 DEF Old
  <2>2. ASSUME NEW p \in Bucket, Old(p)' PROVE o2n[p].key # Empty
    BY <1>5, <2>2 DEF Old
  <2> QED BY <2>1, <2>2
<1>8. Tables'
  <2>1. o2n' \in [Bucket -> Buckets]
    <3>1. o2n' = [p \in Bucket |-> o2n'[p]]
      BY DEF Compact
    <3> QED BY <1>5, <3>1
  <2>2. n2o' \in [0 .. n2o_size - 1 -> IdsOrEmpty]
    <3>1. n2o' = [k \in 0 .. n2o_size - 1 |-> n2o'[k]]
      <4>1. DOMAIN n2o = 0 .. n2o_size - 1
        BY DEF HInv, Tables
      <4> QED BY <4>1 DEF Compact
    <3>2. ASSUME NEW k \in 0 .. n2o_size - 1 PROVE n2o'[k] \in IdsOrEmpty
      <4>1. CASE \A i \in counted : num_items + Rank(counted, i) # k
        BY <4>1, Compacted DEF HInv, Tables
      <4>2. ASSUME NEW i \in counted, num_items + Rank(counted, i) = k PROVE n2o'[k] \in IdsOrEmpty
        BY <4>2, Compacted, Facts DEF IdsOrEmpty
      <4> QED BY <4>1, <4>2
    <3> QED BY <3>1, <3>2
  <2>3. \A p \in Bucket : o2n'[p].key = Empty => o2n'[p] = EmptyBucket
    BY <1>5 DEF HInv, Tables
  <2>4. \A p \in Bucket : o2n'[p].version <= version'
    <3>1. \A p \in Bucket : o2n[p].version \in Int /\ o2n[p].version <= version
      BY DEF HInv, Tables, Buckets
    <3> QED BY <1>1, <1>2, <1>5, <3>1
  <2> QED BY <1>5, <1>7, <2>1, <2>2, <2>3, <2>4 DEF Tables, Bucket, EmptyBucket, Buckets, IdsOrEmpty
<1>9. \A i \in counted : /\ num_items + Rank(counted, i) \in num_items .. num_items' - 1
                         /\ Pos(i) \in Bucket /\ o2n[Pos(i)].key = input[i] /\ input[i] # Empty
                         /\ o2n'[Pos(i)].local = num_items + Rank(counted, i)
  <2> SUFFICES ASSUME NEW i \in counted
               PROVE  /\ num_items + Rank(counted, i) \in num_items .. num_items' - 1
                      /\ Pos(i) \in Bucket /\ o2n[Pos(i)].key = input[i] /\ input[i] # Empty
                      /\ o2n'[Pos(i)].local = num_items + Rank(counted, i)
    OBVIOUS
  <2>1. /\ Rank(counted, i) \in 0 .. Cardinality(counted) - 1 /\ Cardinality(counted) \in Nat
        /\ num_items' = num_items + Cardinality(counted) /\ i \in DOMAIN input
        /\ o2n'[Pos(i)] = [o2n[Pos(i)] EXCEPT !.local = num_items + Rank(counted, i)]
    BY Compacted
  <2>2. Pos(i) \in Bucket /\ o2n[Pos(i)].key = input[i] /\ input[i] # Empty
        /\ o2n[Pos(i)] \in Buckets
    BY <1>2, <2>1, AtEnd, Facts DEF HInv, Tables
  <2> QED BY <1>2, <2>1, <2>2 DEF Buckets
<1>10. \A k \in 0 .. num_items - 1 : n2o'[k] = n2o[k]
  <2> SUFFICES ASSUME NEW k \in 0 .. num_items - 1 PROVE n2o'[k] = n2o[k]
    OBVIOUS
  <2>1. \A i \in counted : num_items + Rank(counted, i) # k
    BY <1>2, <1>9
  <2>2. k \in 0 .. n2o_size - 1
    BY <1>2
  <2> QED BY <2>1, <2>2, Compacted
<1>11. Numbered'
  <2>1. ASSUME NEW p \in Bucket, Old(p)'
        PROVE  o2n'[p].local \in 0 .. num_items' - 1 /\ n2o'[o2n'[p].local] = o2n'[p].key
    <3>1. CASE Old(p)
      <4>1. o2n[p].local \in 0 .. num_items - 1 /\ n2o[o2n[p].local] = o2n[p].key
        BY <3>1 DEF HInv, Numbered
      <4>2. o2n'[p] = o2n[p]
        BY <1>5, <3>1
      <4> QED BY <1>2, <1>10, <4>1, <4>2
    <3>2. CASE ~Old(p)
      <4>1. PICK i \in counted : Pos(i) = p
        BY <1>6, <1>7, <2>1, <3>2
      <4>2. n2o'[num_items + Rank(counted, i)] = input[i]
        BY Compacted
      <4> QED BY <1>2, <1>5, <1>9, <4>1, <4>2
    <3> QED BY <3>1, <3>2
  <2>2. ASSUME NEW k \in 0 .. num_items' - 1
        PROVE  \E p \in Bucket : Old(p)' /\ o2n'[p].key = n2o'[k] /\ o2n'[p].local = k
    <3>1. CASE k < num_items
      <4>1. PICK p \in Bucket : Old(p) /\ o2n[p].key = n2o[k] /\ o2n[p].local = k
        BY <1>2, <3>1 DEF HInv, Numbered
      <4>2. Old(p)' /\ o2n'[p] = o2n[p] /\ n2o'[k] = n2o[k]
        BY <1>2, <1>5, <1>7, <1>10, <3>1, <4>1 DEF Old
      <4> QED BY <4>1, <4>2
    <3>2. CASE k >= num_items
      <4>1. Cardinality(counted) \in Nat /\ num_items' = num_items + Cardinality(counted)
        BY Compacted
      <4>2. k - num_items \in 0 .. Cardinality(counted) - 1
        BY <1>2, <3>2, <4>1
      <4>3. PICK i \in counted : Rank(counted, i) = k - num_items
        BY <4>2, Compacted
      <4>4. num_items + Rank(counted, i) = k
        BY <1>2, <3>2, <4>3
      <4>5. n2o'[k] = input[i]
        BY <4>4, Compacted
      <4> QED BY <1>5, <1>7, <1>9, <4>4, <4>5
    <3> QED BY <1>2, <3>1, <3>2
  <2> QED BY <2>1, <2>2 DEF Numbered, Bucket
<1>12. Threads' /\ OneWriter' /\ NewOwned' /\ Counted'
  <2>1. DOMAIN input' = {}
    BY <1>1
  <2> QED BY <1>1, <2>1 DEF Threads, OneWriter, NewOwned, Counted
<1> QED BY <1>3, <1>4, <1>8, <1>11, <1>12 DEF HInv

LEMMA UniqueEnds ==
    ASSUME ~AllNeighbours, PInv, HInv, FillWithUniqueEnd
    PROVE  HInv'
<1>1. /\ kind = "unique" /\ kernel = "insert" /\ KernelDone
      /\ num_items' = num_items + Cardinality(DOMAIN input)
      /\ kind' = "none" /\ kernel' = "none" /\ input' = << >> /\ thread' = << >> /\ counted' = {}
      /\ layer' = layer + 1 /\ version' = version + 1 /\ UNCHANGED <<o2n, n2o, batches>>
  BY DEF FillWithUniqueEnd, tableVars
<1>2. PICK n \in 1 .. MaxItems : /\ DOMAIN input = 0 .. n - 1 /\ layer \in 0 .. Layers
                                 /\ num_items + n <= Predicted[layer]
  BY <1>1, RoomFits
<1>3. n \in Nat /\ num_items = 0 /\ num_items' = n /\ version \in Nat
  <2>1. MaxItems \in Nat /\ num_items = 0 /\ version \in Nat
    BY <1>1, HashTableAssumption DEF HInv, Filling, Progress
  <2>2. Cardinality(0 .. n - 1) = n
    BY <2>1, FS_Interval
  <2> QED BY <1>1, <1>2, <2>1, <2>2
<1>4. Progress'
  BY <1>1, <1>2, <1>3, NextLayer
<1>5. Filling'
  BY <1>1 DEF Filling
<1>6. \A i \in DOMAIN input :
        /\ Pos(i) \in Bucket /\ o2n[Pos(i)].key = input[i] /\ input[i] # Empty /\ Mine(i)
        /\ o2n[Pos(i)].local = i /\ n2o[i] = input[i]
  BY <1>1, AtEnd, Facts DEF HInv, Threads, ThreadInv
<1>7. ASSUME NEW p \in Bucket, o2n[p].key # Empty PROVE \E i \in DOMAIN input : Pos(i) = p
  BY <1>1, <1>7, NoOldInUnique, Owner
<1>8. \A p \in Bucket : Old(p)' <=> o2n[p].key # Empty
  BY <1>1, <1>3, <1>6, <1>7 DEF Old, Mine
<1>9. Tables'
  <2>1. \A p \in Bucket : o2n[p].version <= version'
    <3>1. \A p \in Bucket : o2n[p].version \in Int /\ o2n[p].version <= version
      BY DEF HInv, Tables, Buckets
    <3> QED BY <1>1, <1>3, <3>1
  <2> QED BY <1>1, <1>8, <2>1 DEF HInv, Tables, Bucket, EmptyBucket, Buckets, IdsOrEmpty
<1>10. Numbered'
  <2>1. ASSUME NEW p \in Bucket, Old(p)'
        PROVE  o2n[p].local \in 0 .. n - 1 /\ n2o[o2n[p].local] = o2n[p].key
    BY <1>2, <1>6, <1>7, <1>8, <2>1
  <2>2. ASSUME NEW k \in 0 .. n - 1
        PROVE  \E p \in Bucket : Old(p)' /\ o2n[p].key = n2o[k] /\ o2n[p].local = k
    BY <1>2, <1>6, <1>8
  <2> QED BY <1>1, <1>3, <2>1, <2>2 DEF Numbered, Bucket
<1>11. Threads' /\ OneWriter' /\ NewOwned' /\ Counted'
  <2>1. DOMAIN input' = {}
    BY <1>1
  <2> QED BY <1>1, <2>1 DEF Threads, OneWriter, NewOwned, Counted
<1> QED BY <1>4, <1>5, <1>9, <1>10, <1>11 DEF HInv

LEMMA InitTables == Init => HInv
<1> SUFFICES ASSUME Init PROVE HInv
  OBVIOUS
<1> USE DEF Init
<1>1. Layers \in Nat \ {0} /\ n2o_size \in Nat /\ MaxItems \in Nat /\ MaxBatches \in Nat
      /\ \A k \in 0 .. Layers : Predicted[k] \in Nat
  BY PredictedFacts, HashTableAssumption
<1>2. Progress
  <2>1. Predicted[layer - 1] \in Nat
    BY <1>1
  <2> QED BY <1>1, <2>1 DEF Progress
<1>3. Filling
  BY DEF Filling
<1>4. Tables
  <2>1. EmptyBucket \in Buckets /\ EmptyBucket.key = Empty /\ EmptyBucket.version <= 0
    BY <1>1 DEF EmptyBucket, Buckets, Empty, IdsOrEmpty
  <2> QED BY <2>1 DEF Tables, IdsOrEmpty
<1>5. Numbered
  BY DEF Numbered, Old, EmptyBucket
<1>6. Threads /\ OneWriter /\ NewOwned /\ Counted
  BY DEF Threads, OneWriter, NewOwned, Counted
<1> QED BY <1>2, <1>3, <1>4, <1>5, <1>6 DEF HInv

LEMMA SameTables == ASSUME HInv, UNCHANGED vars PROVE HInv'
<1> USE DEF vars, tableVars, fillVars
<1>1. Progress' /\ Numbered'
  BY NumberedStays DEF HInv, Progress, Old
<1>2. Filling'
  BY DEF HInv, Filling, Room, MaxSampled, KernelDone
<1>3. \A p \in Bucket : Old(p)' <=> Old(p)
  BY DEF Old
<1>4. Tables'
  BY <1>3 DEF HInv, Tables, Bucket, EmptyBucket, Buckets
<1>5. \A i \in DOMAIN input : /\ Pos(i)' = Pos(i) /\ (Mine(i)' <=> Mine(i))
                              /\ (Winner(i)' <=> Winner(i))
  BY DEF Pos, Probe, Mine, Winner
<1>6. Threads'
  BY <1>5, ThreadStays DEF HInv, Threads
<1>7. OneWriter' /\ NewOwned' /\ Counted'
  BY <1>3, <1>5 DEF HInv, OneWriter, NewOwned, Counted, Bucket
<1> QED BY <1>1, <1>2, <1>4, <1>6, <1>7 DEF HInv

(* The kernels of all fills keep the tables true if the fills fit. *)
LEMMA StepTables ==
    ASSUME ~AllNeighbours, PInv, HInv, [Next]_vars
    PROVE  HInv'
<1>1. CASE Reset
  BY <1>1, Resets
<1>2. CASE FillWithUnique
  <2>0. PICK n \in 1 .. batch_size : n <= MaxItems /\ \E items \in Items(n) :
            /\ \A i, j \in 0 .. n - 1 : items[i] = items[j] => i = j
            /\ Launch("unique", items)
    BY <1>2 DEF FillWithUnique
  <2>1. PICK items \in Items(n) : /\ n <= MaxItems /\ Launch("unique", items)
                                  /\ \A i, j \in 0 .. n - 1 : items[i] = items[j] => i = j
    BY <2>0
  <2>2. n \in 1 .. MaxItems /\ n <= Room' /\ layer = 0
    BY <1>2, <2>1, HashTableAssumption DEF Room, Launch, FillWithUnique
  <2> QED BY <2>1, <2>2, Launches
<1>3. ASSUME NEW how \in {"duplicates", "revised", "mutable"}, FillWithSampled(how) PROVE HInv'
  <2>0. PICK n \in 1 .. MaxSampled :
            n <= MaxItems /\ \E items \in Items(n) : Launch(how, items)
    BY <1>3 DEF FillWithSampled
  <2>1. PICK items \in Items(n) : n <= MaxItems /\ Launch(how, items)
    BY <2>0
  <2>2. MaxItems \in Nat /\ layer \in 1 .. Layers
    BY <1>3, HashTableAssumption DEF FillWithSampled
  <2>3. Room' = MaxSampled
    BY <2>1 DEF Room, MaxSampled, Launch
  <2>4. n \in Int /\ n >= 1 /\ MaxSampled \in Int
    <3>1. num_items \in Nat /\ layer > 0 /\ fanout[Layers + 1 - layer] \in Nat
      BY <2>2, PredictedFacts DEF HInv, Progress
    <3>2. MaxSampled \in Int
      BY <2>2, <3>1 DEF MaxSampled
    <3> QED BY <3>2
  <2>5. n \in 1 .. MaxItems /\ n <= Room'
    BY <2>1, <2>2, <2>3, <2>4
  <2> QED BY <2>1, <2>2, <2>5, Launches
<1>4. ASSUME NEW how, FillWithNothing(how) PROVE HInv'
  BY <1>4, Nothing
<1>5. ASSUME NEW i \in DOMAIN input, ThreadStep(i) PROVE HInv'
  <2>1. CASE AttemptInsert(i)
    <3>1. \/ o2n[Pos(i)].key = Empty \/ o2n[Pos(i)].key = input[i]
          \/ o2n[Pos(i)].key \notin {Empty, input[i]}
      OBVIOUS
    <3> QED BY <2>1, <3>1, CasWins, CasFinds, CasPasses
  <2>2. CASE WriteField(i)
    BY <2>2, Writes
  <2>3. CASE ReadField(i)
    BY <2>3, Reads
  <2>4. CASE Place(i)
    BY <2>4, Places
  <2> QED BY <1>5, <2>1, <2>2, <2>3, <2>4 DEF ThreadStep
<1>6. CASE Count
  BY <1>6, Counts
<1>7. CASE Compact
  BY <1>7, Compacts
<1>8. CASE FillWithUniqueEnd
  BY <1>8, UniqueEnds
<1>9. CASE UNCHANGED vars
  BY <1>9, SameTables
<1> QED BY <1>1, <1>2, <1>3, <1>4, <1>5, <1>6, <1>7, <1>8, <1>9 DEF Next

(* Both invariants, for every behaviour that samples by the fanout.        *)
LEMMA TablesInv ==
    ASSUME ~AllNeighbours
    PROVE  Spec => [](PInv /\ HInv)
<1>1. Init => PInv /\ HInv
  BY InitPaths, InitTables
<1>2. PInv /\ HInv /\ [Next]_vars => (PInv /\ HInv)'
  BY StepPaths, StepTables
<1> QED BY <1>1, <1>2, PTL DEF Spec

LEMMA TypesHold == ASSUME ~AllNeighbours, PInv, HInv PROVE TypeOK
<1>1. Layers \in Nat /\ n2o_size \in Nat /\ MaxItems \in Nat
  BY PredictedFacts, HashTableAssumption
<1>2. version \in 0 .. Layers + 1 /\ layer \in 0 .. Layers + 1 /\ batches \in 0 .. MaxBatches
  BY <1>1 DEF HInv, Progress
<1>3. num_items \in 0 .. n2o_size
  <2>1. CASE layer = 0
    BY <1>1, <2>1 DEF HInv, Progress
  <2>2. CASE layer # 0
    <3>1. layer - 1 \in 0 .. Layers /\ num_items <= Predicted[layer - 1] /\ num_items \in Nat
      BY <1>1, <1>2, <2>2 DEF HInv, Progress
    <3>2. Predicted[layer - 1] \in Nat /\ Predicted[layer - 1] <= n2o_size
      BY <3>1, PredictedFacts
    <3> QED BY <1>1, <3>1, <3>2
  <2> QED BY <2>1, <2>2
<1>4. /\ o2n \in [Bucket -> Buckets] /\ n2o \in [0 .. n2o_size - 1 -> IdsOrEmpty]
      /\ kind \in {"none", "unique", "duplicates", "revised", "mutable"}
      /\ kernel \in {"none", "insert", "compact"}
  BY DEF HInv, Tables, Filling
<1>5. \A i \in DOMAIN input : input[i] \in Ids /\ thread[i] \in Thread
  BY Facts
<1>6. counted \subseteq DOMAIN input
  BY DEF HInv, Counted
<1> QED BY <1>2, <1>3, <1>4, <1>5, <1>6 DEF TypeOK, Buckets, Thread

LEMMA AgreementHolds == ASSUME PInv, HInv PROVE TablesAgree
<1> SUFFICES ASSUME kernel = "none" PROVE TablesAgree
  BY DEF TablesAgree
<1>1. \A p \in Bucket : o2n[p].key # Empty => Old(p)
  BY DEF HInv, Tables
<1> QED BY <1>1 DEF HInv, Numbered, TablesAgree

------------------------------------------------------------------------------
(***************************************************************************)
(* The hash table implements NodeNumbering: Reset clears the numbers, a    *)
(* launch begins a fill, the last kernel of the fill finishes it, and what *)
(* the threads do between is a stutter.                                    *)
(***************************************************************************)
Nodes == [k \in 1 .. num_items |-> n2o[k - 1]]
Pending == {input[i] : i \in DOMAIN input}

(* Between fills nothing is pending. *)
LEMMA NonePending == HInv /\ kernel = "none" => Pending = {}
<1> SUFFICES ASSUME HInv, kernel = "none" PROVE Pending = {}
  OBVIOUS
<1>1. input = << >>
  BY DEF HInv, Filling
<1>2. DOMAIN << >> = {}
  OBVIOUS
<1> QED BY <1>1, <1>2 DEF Pending

(* The nodes that have a number are those of the old buckets.              *)
NodesAreOld ==
    \A x : x \in Numbering!ToSet(Nodes) <=> \E p \in Bucket : Old(p) /\ o2n[p].key = x

LEMMA NumberedAreOld == HInv => NodesAreOld
<1> SUFFICES
      ASSUME HInv, NEW x
      PROVE  x \in Numbering!ToSet(Nodes) <=> \E p \in Bucket : Old(p) /\ o2n[p].key = x
  BY DEF NodesAreOld
<1>1. num_items \in Nat
  BY DEF HInv, Progress
<1>2. x \in Numbering!ToSet(Nodes) <=> \E k \in 0 .. num_items - 1 : n2o[k] = x
  <2>1. DOMAIN Nodes = 1 .. num_items /\ \A k \in 1 .. num_items : Nodes[k] = n2o[k - 1]
    BY DEF Nodes
  <2>2. x \in Numbering!ToSet(Nodes) <=> \E k \in 1 .. num_items : n2o[k - 1] = x
    BY <2>1 DEF Numbering!ToSet
  <2>3. ASSUME NEW k \in 0 .. num_items - 1, n2o[k] = x
        PROVE  \E l \in 1 .. num_items : n2o[l - 1] = x
    <3>1. k + 1 \in 1 .. num_items /\ (k + 1) - 1 = k
      BY <1>1
    <3> QED BY <2>3, <3>1
  <2>4. ASSUME NEW l \in 1 .. num_items PROVE l - 1 \in 0 .. num_items - 1
    BY <1>1
  <2> QED BY <2>2, <2>3, <2>4
<1>3. ASSUME NEW p \in Bucket, Old(p) PROVE \E k \in 0 .. num_items - 1 : n2o[k] = o2n[p].key
  BY <1>3 DEF HInv, Numbered
<1>4. ASSUME NEW k \in 0 .. num_items - 1 PROVE \E p \in Bucket : Old(p) /\ o2n[p].key = n2o[k]
  BY DEF HInv, Numbered
<1> QED BY <1>2, <1>3, <1>4

(* At the end of a fill the table has the nodes of before and the pending. *)
LEMMA KeysAtEnd ==
    ASSUME PInv, HInv, kernel # "none", KernelDone, NEW x
    PROVE  (\E p \in Bucket : o2n[p].key # Empty /\ o2n[p].key = x)
               <=> (\E p \in Bucket : Old(p) /\ o2n[p].key = x) \/ x \in Pending
<1>1. ASSUME NEW p \in Bucket, o2n[p].key # Empty, ~Old(p) PROVE o2n[p].key \in Pending
  BY <1>1, Owner DEF Pending
<1>2. ASSUME NEW i \in DOMAIN input
      PROVE  Pos(i) \in Bucket /\ o2n[Pos(i)].key = input[i] /\ input[i] # Empty
  BY AtEnd, Facts
<1> QED BY <1>1, <1>2 DEF Pending, Old

LEMMA PathsGiveKeyOnce == PInv => KeyOnce
BY PathGivesKeyOnce DEF PInv

(* Sequences that agree up to n have the same prefix of this length.       *)
LEMMA SamePrefix ==
    ASSUME NEW s, NEW t, NEW n \in Nat, \A k \in 1 .. n : s[k] = t[k]
    PROVE  SubSeq(s, 1, n) = SubSeq(t, 1, n)
<1> DEFINE S == {s[k] : k \in 1 .. n}
<1>1. /\ SubSeq(s, 1, n) \in Seq(S) /\ Len(SubSeq(s, 1, n)) = IF 1 <= n THEN n - 1 + 1 ELSE 0
      /\ \A i \in 1 .. n - 1 + 1 : SubSeq(s, 1, n)[i] = s[1 + i - 1]
  BY SubSeqProperties
<1>2. /\ SubSeq(t, 1, n) \in Seq(S) /\ Len(SubSeq(t, 1, n)) = IF 1 <= n THEN n - 1 + 1 ELSE 0
      /\ \A i \in 1 .. n - 1 + 1 : SubSeq(t, 1, n)[i] = t[1 + i - 1]
  BY SubSeqProperties
<1> HIDE DEF S
<1>3. Len(SubSeq(s, 1, n)) = n /\ Len(SubSeq(t, 1, n)) = n
  BY <1>1, <1>2
<1>4. \A i \in 1 .. n : SubSeq(s, 1, n)[i] = SubSeq(t, 1, n)[i]
  <2> SUFFICES ASSUME NEW i \in 1 .. n PROVE SubSeq(s, 1, n)[i] = SubSeq(t, 1, n)[i]
    OBVIOUS
  <2>1. i \in 1 .. n - 1 + 1 /\ 1 + i - 1 = i
    OBVIOUS
  <2> QED BY <1>1, <1>2, <2>1
<1> QED BY <1>1, <1>2, <1>3, <1>4, SeqEqual

(* Positions from 1 and numbers from 0.                                    *)
LEMMA ShiftedInjection ==
    ASSUME NEW n \in Nat, NEW s, NEW f, DOMAIN s = 1 .. n, \A k \in 1 .. n : s[k] = f[k - 1],
           \A j, k \in 0 .. n - 1 : f[j] = f[k] => j = k
    PROVE  \A a, b \in DOMAIN s : s[a] = s[b] => a = b
<1>1. ASSUME NEW a \in 1 .. n PROVE a - 1 \in 0 .. n - 1 /\ a \in Int
  OBVIOUS
<1>2. ASSUME NEW a \in 1 .. n, NEW b \in 1 .. n, s[a] = s[b] PROVE a = b
  <2>1. a - 1 = b - 1
    BY <1>1, <1>2
  <2> QED BY <2>1, <1>1
<1> QED BY <1>2

(* What a fill leaves behind is a longer numbering without repetitions.    *)
LEMMA FinishesFill ==
    ASSUME PInv, HInv, PInv', HInv', kernel # "none", KernelDone,
           kernel' = "none", input' = << >>,
           num_items' \in Nat, num_items <= num_items',
           \A k \in 0 .. num_items - 1 : n2o'[k] = n2o[k],
           \A p \in Bucket : o2n'[p].key = o2n[p].key
    PROVE  Numbering!Finish
<1>1. num_items \in Nat
  BY DEF HInv, Progress
<1>2. Pending # {}
  <2>1. PICK n \in 1 .. MaxItems : DOMAIN input = 0 .. n - 1
    BY DEF HInv, Filling
  <2>2. 0 \in 0 .. n - 1
    BY HashTableAssumption
  <2> QED BY <2>1, <2>2 DEF Pending
<1>3. Pending' = {}
  <2>1. DOMAIN << >> = {}
    OBVIOUS
  <2> QED BY <2>1 DEF Pending
<1>4. Numbering!IsPrefix(Nodes, Nodes')
  <2>1. /\ Len(Nodes) = num_items /\ Len(Nodes') = num_items'
    BY <1>1 DEF Nodes
  <2>2. SubSeq(Nodes, 1, num_items) = SubSeq(Nodes', 1, num_items)
    <3>1. \A k \in 1 .. num_items : Nodes[k] = (Nodes')[k]
      <4> SUFFICES ASSUME NEW k \in 1 .. num_items PROVE Nodes[k] = (Nodes')[k]
        OBVIOUS
      <4>1. k - 1 \in 0 .. num_items - 1 /\ k \in 1 .. num_items'
        BY <1>1
      <4> QED BY <4>1 DEF Nodes
    <3> QED BY <1>1, <2>1, <3>1, SamePrefix
  <2> QED BY <2>1, <2>2 DEF Numbering!IsPrefix
<1>5. Numbering!IsInjective(Nodes')
  <2>1. \A k \in 0 .. num_items' - 1 : \E p \in Bucket :
            o2n'[p].key # Empty /\ o2n'[p].key = n2o'[k] /\ o2n'[p].local = k
    BY DEF HInv, Numbered, Old, Bucket
  <2>2. KeyOnce'
    BY PathsGiveKeyOnce, PTL
  <2>3. \A p, q \in Bucket : o2n'[p].key # Empty /\ o2n'[p].key = o2n'[q].key => p = q
    BY <2>2 DEF KeyOnce, Bucket
  <2>4. \A j, k \in 0 .. num_items' - 1 : n2o'[j] = n2o'[k] => j = k
    <3> SUFFICES ASSUME NEW j \in 0 .. num_items' - 1, NEW k \in 0 .. num_items' - 1,
                        n2o'[j] = n2o'[k]
                 PROVE  j = k
      OBVIOUS
    <3>1. PICK p \in Bucket : o2n'[p].key # Empty /\ o2n'[p].key = n2o'[j] /\ o2n'[p].local = j
      BY <2>1
    <3>2. PICK q \in Bucket : o2n'[q].key # Empty /\ o2n'[q].key = n2o'[k] /\ o2n'[q].local = k
      BY <2>1
    <3>3. p = q
      BY <2>3, <3>1, <3>2
    <3> QED BY <3>1, <3>2, <3>3
  <2>5. /\ DOMAIN Nodes' = 1 .. num_items'
        /\ \A k \in 1 .. num_items' : (Nodes')[k] = n2o'[k - 1]
    BY DEF Nodes
  <2> QED BY <2>4, <2>5, ShiftedInjection DEF Numbering!IsInjective
<1>6. Numbering!ToSet(Nodes') = Numbering!ToSet(Nodes) \cup Pending
  <2>1. ASSUME NEW x PROVE x \in Numbering!ToSet(Nodes')
                            <=> x \in Numbering!ToSet(Nodes) \/ x \in Pending
    <3>1. x \in Numbering!ToSet(Nodes) <=> \E p \in Bucket : Old(p) /\ o2n[p].key = x
      BY NumberedAreOld DEF NodesAreOld
    <3>2. x \in Numbering!ToSet(Nodes)' <=> \E p \in Bucket : Old(p)' /\ o2n'[p].key = x
      <4>1. NodesAreOld'
        BY NumberedAreOld, PTL
      <4> QED BY <4>1 DEF NodesAreOld, Bucket
    <3>3. \A p \in Bucket : Old(p)' <=> o2n'[p].key # Empty
      BY DEF HInv, Tables, Old, Bucket
    <3> QED BY <3>1, <3>2, <3>3, KeysAtEnd
  <2> QED BY <2>1
<1> QED BY <1>2, <1>3, <1>4, <1>5, <1>6 DEF Numbering!Finish, Nodes, Pending

(* Steps that leave the numbers and the items alone.                       *)
LEMMA Stutters ==
    ASSUME HInv, num_items' = num_items, input' = input,
           \A k \in 0 .. num_items - 1 : n2o'[k] = n2o[k]
    PROVE  UNCHANGED Numbering!numberingVars
<1>1. num_items \in Nat
  BY DEF HInv, Progress
<1>2. \A k \in 1 .. num_items : k - 1 \in 0 .. num_items - 1
  BY <1>1
<1> QED BY <1>2 DEF Numbering!numberingVars

(* A launch begins a fill with the nodes of its items.                     *)
LEMMA LaunchBegins ==
    ASSUME HInv, NEW how, NEW n, NEW items \in Items(n), Launch(how, items)
    PROVE  \E S \in SUBSET Ids : Numbering!Begin(S)
<1>1. kernel = "none" /\ input' = items /\ num_items' = num_items /\ n2o' = n2o
  BY DEF Launch, tableVars
<1>2. Pending = {}
  BY <1>1, NonePending
<1>3. DOMAIN items = 0 .. n - 1 /\ \A i \in 0 .. n - 1 : items[i] \in Ids
  BY DEF Items
<1>4. Pending' \in SUBSET Ids
  BY <1>1, <1>3 DEF Pending
<1>5. Nodes' = Nodes
  BY <1>1 DEF Nodes
<1>6. PICK S \in SUBSET Ids : S = Pending'
  BY <1>4
<1>7. Numbering!Begin(S)
  BY <1>2, <1>5, <1>6 DEF Numbering!Begin, Nodes, Pending
<1> QED BY <1>7

(* Every step of the table is a step of the numbering or a stutter.        *)
LEMMA StepNumbers ==
    PInv /\ HInv /\ PInv' /\ HInv' /\ ~AllNeighbours /\ [Next]_vars =>
        [(\E S \in SUBSET Ids : Numbering!Begin(S)) \/ Numbering!Finish \/ Numbering!Clear]_
            (Numbering!numberingVars)
<1> SUFFICES ASSUME PInv, HInv, PInv', HInv', ~AllNeighbours, [Next]_vars
             PROVE  \/ \E S \in SUBSET Ids : Numbering!Begin(S)
                    \/ Numbering!Finish
                    \/ Numbering!Clear
                    \/ UNCHANGED Numbering!numberingVars
  OBVIOUS
<1>1. CASE Reset
  <2>1. kernel = "none" /\ num_items' = 0 /\ input' = input
    BY <1>1 DEF Reset, fillVars
  <2>2. Pending = {} /\ Pending' = {}
    <3>1. Pending = {}
      BY <2>1, NonePending
    <3> QED BY <2>1, <3>1 DEF Pending
  <2>3. Nodes' = << >>
    BY <2>1 DEF Nodes
  <2>4. Numbering!Clear
    BY <2>2, <2>3 DEF Numbering!Clear, Nodes, Pending
  <2> QED BY <2>4
<1>2. CASE FillWithUnique
  <2>1. PICK n \in 1 .. batch_size : \E items \in Items(n) : Launch("unique", items)
    BY <1>2 DEF FillWithUnique
  <2>2. PICK items \in Items(n) : Launch("unique", items)
    BY <2>1
  <2> QED BY <2>2, LaunchBegins
<1>3. ASSUME NEW how, FillWithSampled(how) PROVE \E S \in SUBSET Ids : Numbering!Begin(S)
  <2>1. PICK n \in 1 .. MaxSampled : \E items \in Items(n) : Launch(how, items)
    BY <1>3 DEF FillWithSampled
  <2>2. PICK items \in Items(n) : Launch(how, items)
    BY <2>1
  <2> QED BY <2>2, LaunchBegins
<1>4. ASSUME NEW how, FillWithNothing(how) PROVE UNCHANGED Numbering!numberingVars
  BY <1>4, Stutters DEF FillWithNothing, tableVars, fillVars
<1>5. ASSUME NEW i \in DOMAIN input, ThreadStep(i) PROVE UNCHANGED Numbering!numberingVars
  <2>1. CASE AttemptInsert(i)
    BY <2>1, Stutters DEF AttemptInsert
  <2>2. CASE WriteField(i)
    BY <2>2, Stutters DEF WriteField
  <2>3. CASE ReadField(i)
    BY <2>3, Stutters DEF ReadField, tableVars
  <2>4. CASE Place(i)
    <3>1. /\ n2o' = [n2o EXCEPT ![num_items + i] = input[i]]
          /\ num_items' = num_items /\ input' = input
      BY <2>4 DEF Place
    <3>2. num_items \in Nat /\ i \in Nat
      BY Facts DEF HInv, Progress
    <3>3. \A k \in 0 .. num_items - 1 : n2o'[k] = n2o[k]
      <4>1. \A k \in 0 .. num_items - 1 : k # num_items + i
        BY <3>2
      <4>2. DOMAIN n2o = 0 .. n2o_size - 1
        BY DEF HInv, Tables
      <4> QED BY <3>1, <4>1, <4>2
    <3> QED BY <3>1, <3>3, Stutters
  <2> QED BY <1>5, <2>1, <2>2, <2>3, <2>4 DEF ThreadStep
<1>6. CASE Count
  BY <1>6, Stutters DEF Count, tableVars
<1>7. CASE Compact
  <2>1. /\ kernel # "none" /\ KernelDone /\ kernel' = "none" /\ input' = << >>
    BY <1>7, Compacted DEF Compact
  <2>2. /\ num_items \in Nat /\ num_items' \in Nat /\ num_items <= num_items'
        /\ num_items' = num_items + Cardinality(counted) /\ Cardinality(counted) \in Nat
    <3>1. num_items \in Nat
      BY DEF HInv, Progress
    <3>2. num_items' = num_items + Cardinality(counted)
      BY <1>7 DEF Compact
    <3>3. Cardinality(counted) \in Nat
      BY <1>7, Compacted
    <3> QED BY <3>1, <3>2, <3>3
  <2>3. \A k \in 0 .. num_items - 1 : n2o'[k] = n2o[k]
    <3>1. /\ \A i \in counted : Rank(counted, i) \in 0 .. Cardinality(counted) - 1
          /\ \A k \in 0 .. n2o_size - 1 :
                (\A i \in counted : num_items + Rank(counted, i) # k) => n2o'[k] = n2o[k]
          /\ num_items' <= n2o_size
      BY <1>7, Compacted
    <3>2. n2o_size \in Nat
      BY PredictedFacts
    <3>3. ASSUME NEW k \in 0 .. num_items - 1
          PROVE  /\ k \in 0 .. n2o_size - 1
                 /\ \A i \in counted : num_items + Rank(counted, i) # k
      <4>1. \A r \in 0 .. Cardinality(counted) - 1 : num_items + r # k
        BY <2>2
      <4>2. k \in 0 .. n2o_size - 1
        BY <2>2, <3>1, <3>2
      <4> QED BY <3>1, <4>1, <4>2
    <3> QED BY <3>1, <3>3
  <2>4. \A p \in Bucket : o2n'[p].key = o2n[p].key
    <3> SUFFICES ASSUME NEW p \in Bucket PROVE o2n'[p].key = o2n[p].key
      OBVIOUS
    <3>1. CASE \A i \in counted : Pos(i) # p
      BY <1>7, <3>1, Compacted
    <3>2. CASE \E i \in counted : Pos(i) = p
      <4>1. PICK i \in counted : Pos(i) = p
        BY <3>2
      <4>2. o2n'[p] = [o2n[p] EXCEPT !.local = num_items + Rank(counted, i)]
        BY <1>7, <4>1, Compacted
      <4> QED BY <4>2 DEF HInv, Tables, Buckets
    <3> QED BY <3>1, <3>2
  <2> QED BY <2>1, <2>2, <2>3, <2>4, FinishesFill
<1>8. CASE FillWithUniqueEnd
  <2>1. /\ kernel # "none" /\ KernelDone /\ kernel' = "none" /\ input' = << >>
        /\ num_items' = num_items + Cardinality(DOMAIN input)
        /\ UNCHANGED <<o2n, n2o>>
    BY <1>8 DEF FillWithUniqueEnd, tableVars
  <2>2. num_items \in Nat /\ num_items' \in Nat /\ num_items <= num_items'
    <3>1. PICK n \in 1 .. MaxItems : DOMAIN input = 0 .. n - 1
      BY <2>1 DEF HInv, Filling
    <3>2. n \in Nat /\ num_items \in Nat
      BY HashTableAssumption DEF HInv, Progress
    <3>3. Cardinality(0 .. n - 1) = n
      BY <3>2, FS_Interval
    <3> QED BY <2>1, <3>1, <3>2, <3>3
  <2> QED BY <2>1, <2>2, FinishesFill
<1>9. CASE UNCHANGED vars
  BY <1>9, Stutters DEF vars, tableVars, fillVars
<1> QED BY <1>1, <1>2, <1>3, <1>4, <1>5, <1>6, <1>7, <1>8, <1>9 DEF Next

------------------------------------------------------------------------------
(***************************************************************************)
(* The theorems.  They are about sampling by the fanout, as PredictNumNodes *)
(* assumes it: with all neighbours a fill really runs beyond the table.    *)
(***************************************************************************)

(* Whatever the kernels write stays in the tables and has its type: buckets *)
(* hold nodes, indices of items, numbers that n2o has and versions of this *)
(* mini-batch.                                                             *)
THEOREM TypeCorrect == ASSUME ~AllNeighbours PROVE Spec => []TypeOK
<1>1. PInv /\ HInv => TypeOK
  BY TypesHold
<1> QED BY <1>1, TablesInv, PTL

(* The numbers never run beyond n2o: assert(pos < _n2o_size) cannot fail   *)
(* when the layers sample what PredictNumNodes has counted with.           *)
THEOREM NumbersInBounds == ASSUME ~AllNeighbours PROVE Spec => []N2OInBounds
<1>1. PInv /\ HInv => N2OInBounds
  <2> SUFFICES ASSUME PInv, HInv PROVE N2OInBounds
    OBVIOUS
  <2>1. num_items \in 0 .. n2o_size /\ n2o_size \in Nat
    BY TypesHold, PredictedFacts DEF TypeOK
  <2> QED BY <2>1 DEF N2OInBounds
<1> QED BY <1>1, TablesInv, PTL

(* Between fills the tables are inverse to each other, so GPUMapEdges gives *)
(* every node the number under which n2o lists it, however the threads of  *)
(* the insert kernels have interleaved.                                    *)
THEOREM TablesAlwaysAgree == ASSUME ~AllNeighbours PROVE Spec => []TablesAgree
<1>1. PInv /\ HInv => TablesAgree
  BY AgreementHolds
<1> QED BY <1>1, TablesInv, PTL

(* The kernels implement the numbering of NodeNumbering: every fill adds   *)
(* its new nodes behind those of the layers before, each node once and     *)
(* without gaps.                                                           *)
THEOREM NumberingImplemented == ASSUME ~AllNeighbours PROVE Spec => ImplementsNumbering
<1>1. Init => Numbering!NumberingInit
  <2> SUFFICES ASSUME Init PROVE Numbering!NumberingInit
    OBVIOUS
  <2>1. Nodes = << >> /\ DOMAIN << >> = {}
    BY DEF Init, Nodes
  <2> QED BY <2>1 DEF Init, Numbering!NumberingInit, Nodes
<1>2. PInv /\ HInv /\ PInv' /\ HInv' /\ [Next]_vars =>
        [(\E S \in SUBSET Ids : Numbering!Begin(S)) \/ Numbering!Finish \/ Numbering!Clear]_
            (Numbering!numberingVars)
  BY StepNumbers
<1>3. Spec => Numbering!NumberingSpec
  BY <1>1, <1>2, TablesInv, PTL DEF Spec, Numbering!NumberingSpec
<1> QED BY <1>3 DEF ImplementsNumbering
==============================================================================
