--------------------------- MODULE OrderedHashTable ---------------------------
(***************************************************************************)
(* The hash table on the GPU that numbers the nodes of a mini-batch        *)
(* (cuda_hashtable.cu).  A fill is a sequence of kernels; the threads of   *)
(* the first one insert their items concurrently: atomicCAS on the key of  *)
(* a bucket is atomic, the other fields are written and read apart from    *)
(* it.  A kernel starts when the one before has ended (StreamSync).        *)
(***************************************************************************)
EXTENDS Integers, Sequences, FiniteSets

CONSTANTS
    Ids,            \* the nodes of the graph that occur
    batch_size, fanout,     \* fanout is a sequence, the layer sampled first at its end
    scale,          \* kDefaultScale
    TileSize,       \* items of a thread block
    AllNeighbours,  \* sample all neighbours instead of fanout many?
    MaxItems,       \* bound: items of a fill
    MaxBatches      \* bound: mini-batches

ASSUME HashTableAssumption ==
    /\ Ids \subseteq Nat
    /\ batch_size \in Nat \ {0}
    /\ fanout \in Seq(Nat \ {0}) /\ fanout # << >>
    /\ scale \in Nat
    /\ TileSize \in Nat \ {0}
    /\ AllNeighbours \in BOOLEAN
    /\ MaxItems \in Nat /\ MaxBatches \in Nat

Empty == -1         \* Constant::kEmptyKey, which no node has

(* Mutant of Predicted: the loop ends at i > 0. *)
Predicted_Short ==
    LET count[k \in 0 .. Len(fanout)] ==
            IF k = 0 THEN batch_size
            ELSE IF k = Len(fanout) THEN count[k - 1]
            ELSE count[k - 1] + count[k - 1] * fanout[Len(fanout) + 1 - k]
    IN  count

(* PredictNumNodes: how many nodes a mini-batch has after k layers.        *)
Predicted ==
    LET count[k \in 0 .. Len(fanout)] ==
            IF k = 0 THEN batch_size ELSE count[k - 1] + count[k - 1] * fanout[Len(fanout) + 1 - k]
    IN  count

n2o_size == Predicted[Len(fanout)]

(* TableSize: the least power of two above num / 2, times 2^scale.         *)
TableSize(num) ==
    (CHOOSE p \in {2 ^ k : k \in 1 .. 30} : p \div 2 <= num \div 2 /\ num \div 2 < p) * 2 ^ scale

o2n_size == TableSize(n2o_size)

ASSUME BucketAssumption == o2n_size \in Nat \ {0}

Bucket == 0 .. o2n_size - 1

(* The bucket of the n-th attempt: pos = HashO2N(pos + delta), delta = 1, 2 *)
(* ... from HashO2N(id).                                                   *)
Probe(id, n) == (id + (n * (n + 1)) \div 2) % o2n_size

VARIABLES
    o2n, n2o,       \* the tables: buckets, and the node of every number
    version, num_items,
    layer,          \* of sampling: 0 fills in the batch, behind the last it ends
    kind, kernel,   \* the fill under way and its kernel, "none" between fills
    input,          \* its items
    thread,         \* the threads of its insert kernel, one for every item
    counted,        \* items that are counted as new
    batches

tableVars == <<o2n, n2o>>
fillVars == <<kind, kernel, input, thread, counted>>
vars == <<tableVars, version, num_items, layer, fillVars, batches>>

Layers == Len(fanout)
EmptyBucket == [key |-> Empty, local |-> Empty, index |-> Empty, version |-> Empty]

Init ==
    /\ o2n = [p \in Bucket |-> EmptyBucket]
    /\ n2o = [k \in 0 .. n2o_size - 1 |-> Empty]
    /\ version = 0 /\ num_items = 0
    /\ layer = Layers + 1
    /\ kind = "none" /\ kernel = "none"
    /\ input = << >> /\ thread = << >> /\ counted = {}
    /\ batches = 0

(* Mutant of Reset: only the keys are wiped. *)
Reset_KeysOnly ==
    /\ kernel = "none" /\ layer > Layers /\ batches < MaxBatches
    /\ o2n' = [p \in Bucket |-> [o2n[p] EXCEPT !.key = Empty]]
    /\ n2o' = [k \in DOMAIN n2o |-> Empty]
    /\ version' = 0 /\ num_items' = 0
    /\ layer' = 0
    /\ batches' = batches + 1
    /\ UNCHANGED fillVars

(* DoGPUSample starts with Reset. *)
Reset ==
    /\ kernel = "none" /\ layer > Layers /\ batches < MaxBatches
    /\ o2n' = [p \in Bucket |-> EmptyBucket]
    /\ n2o' = [k \in DOMAIN n2o |-> Empty]
    /\ version' = 0 /\ num_items' = 0
    /\ layer' = 0
    /\ batches' = batches + 1
    /\ UNCHANGED fillVars

------------------------------------------------------------------------------
(* A fill launches its insert kernel. *)
Launch(how, items) ==
    /\ kernel = "none"
    /\ kind' = how /\ kernel' = "insert"
    /\ input' = items
    /\ thread' = [i \in DOMAIN items |->
                    [at |-> "try", attempt |-> 0, left |-> {"index", "version"}, match |-> TRUE]]
    /\ counted' = {}
    /\ UNCHANGED <<tableVars, version, num_items, layer, batches>>

Items(n) == [0 .. n - 1 -> Ids]

(* The nodes of the batch are distinct. *)
FillWithUnique ==
    /\ layer = 0
    /\ \E n \in 1 .. batch_size : n <= MaxItems /\ \E items \in Items(n) :
        /\ \A i, j \in 0 .. n - 1 : items[i] = items[j] => i = j
        /\ Launch("unique", items)

(* What a layer samples: at most fanout neighbours of every node, or all   *)
(* neighbours it has.                                                      *)
MaxSampled == IF AllNeighbours THEN MaxItems
              ELSE num_items * fanout[Layers + 1 - layer]

(* FillWithDuplicates, FillWithDupRevised and FillWithDupMutable.          *)
FillWithSampled(how) ==
    /\ layer \in 1 .. Layers
    /\ \E n \in 1 .. MaxSampled : n <= MaxItems /\ \E items \in Items(n) : Launch(how, items)

(* Without items there is no kernel; FillWithDuplicates still counts a     *)
(* version.                                                                *)
FillWithNothing(how) ==
    /\ kernel = "none"
    /\ layer \in 1 .. Layers
    /\ version' = IF how = "duplicates" THEN version + 1 ELSE version
    /\ layer' = layer + 1
    /\ UNCHANGED <<tableVars, num_items, fillVars, batches>>

------------------------------------------------------------------------------
(* The threads of the insert kernel. *)
Pos(i) == Probe(input[i], thread[i].attempt)

Inserting(i, at) == kernel = "insert" /\ thread[i].at = at

Tally(i, new) == counted' = IF new THEN counted \cup {i} ELSE counted

(* Where a thread goes when its item is in the table. *)
AfterInsert ==
    IF kind = "unique" THEN "place" ELSE IF kind = "duplicates" THEN "done" ELSE "read"

(* Mutant of AttemptInsert: a bucket that already has the key is passed.   *)
AttemptInsert_NoMatch(i) ==
    /\ Inserting(i, "try")
    /\ IF o2n[Pos(i)].key = Empty
       THEN /\ o2n' = [o2n EXCEPT ![Pos(i)].key = input[i]]
            /\ thread' = [thread EXCEPT ![i].at = "write"]
       ELSE /\ thread' = [thread EXCEPT ![i].attempt = @ + 1]
            /\ UNCHANGED o2n
    /\ UNCHANGED <<n2o, version, num_items, layer, kind, kernel, input, counted, batches>>

(* AttemptInsertAtO2N: atomicCAS(&key, kEmptyKey, id).  The winner still   *)
(* has to write index and version; who finds its key there is done, and    *)
(* anybody else goes on to the next bucket.                                *)
AttemptInsert(i) ==
    /\ Inserting(i, "try")
    /\ \/ /\ o2n[Pos(i)].key = Empty
          /\ o2n' = [o2n EXCEPT ![Pos(i)].key = input[i]]
          /\ thread' = [thread EXCEPT ![i].at = "write"]
       \/ /\ o2n[Pos(i)].key = input[i]
          /\ thread' = [thread EXCEPT ![i].at = AfterInsert]
          /\ UNCHANGED o2n
       \/ /\ o2n[Pos(i)].key \notin {Empty, input[i]}
          /\ thread' = [thread EXCEPT ![i].attempt = @ + 1]
          /\ UNCHANGED o2n
    /\ UNCHANGED <<n2o, version, num_items, layer, kind, kernel, input, counted, batches>>

(* The winner writes its index and the version, in any order.  It reads    *)
(* them back itself, and counts the item, if the kernel counts.            *)
WriteField(i) ==
    /\ Inserting(i, "write")
    /\ \E f \in thread[i].left :
        LET last == thread[i].left = {f}
        IN  /\ o2n' = [o2n EXCEPT ![Pos(i)][f] = IF f = "index" THEN i ELSE version]
            /\ thread' = [thread EXCEPT ![i].left = @ \ {f},
                            ![i].at = IF ~last THEN "write"
                                      ELSE IF kind = "unique" THEN "place" ELSE "done"]
            /\ Tally(i, last /\ kind \in {"revised", "mutable"})
    /\ UNCHANGED <<n2o, version, num_items, layer, kind, kernel, input, batches>>

(* The others read whether the item is theirs, while the winner may not    *)
(* have written all of it.                                                 *)
ReadField(i) ==
    /\ Inserting(i, "read")
    /\ \E f \in thread[i].left :
        LET last == thread[i].left = {f}
            match == thread[i].match /\ o2n[Pos(i)][f] = (IF f = "index" THEN i ELSE version)
        IN  /\ thread' = [thread EXCEPT ![i].left = @ \ {f}, ![i].match = match,
                            ![i].at = IF last THEN "done" ELSE "read"]
            /\ Tally(i, last /\ match)
    /\ UNCHANGED <<tableVars, version, num_items, layer, kind, kernel, input, batches>>

(* generate_hashmap_unique numbers its item by the index. *)
Place(i) ==
    /\ Inserting(i, "place")
    /\ o2n' = [o2n EXCEPT ![Pos(i)].local = num_items + i]
    /\ n2o' = [n2o EXCEPT ![num_items + i] = input[i]]
    /\ thread' = [thread EXCEPT ![i].at = "done"]
    /\ UNCHANGED <<version, num_items, layer, kind, kernel, input, counted, batches>>

ThreadStep(i) == AttemptInsert(i) \/ WriteField(i) \/ ReadField(i) \/ Place(i)

------------------------------------------------------------------------------
(* SearchForPositionO2N. *)
SearchPos(id) ==
    Probe(id, CHOOSE n \in Bucket :
                /\ o2n[Probe(id, n)].key = id
                /\ \A m \in 0 .. n - 1 : o2n[Probe(id, m)].key # id)

(* The bucket of an item says that the item is new and whose it is.        *)
Owned(i) ==
    LET bucket == o2n[SearchPos(input[i])] IN bucket.index = i /\ bucket.version = version

KernelDone == \A i \in DOMAIN input : thread[i].at = "done"

(* count_hashmap of FillWithDuplicates. *)
Count ==
    /\ kernel = "insert" /\ KernelDone
    /\ kind = "duplicates"
    /\ counted' = {i \in DOMAIN input : Owned(i)}
    /\ kernel' = "compact"
    /\ UNCHANGED <<tableVars, version, num_items, layer, kind, input, thread, batches>>

Block(i) == i \div TileSize

(* Mutant of Number: an inclusive instead of an exclusive sum in a block.  *)
Number_Inclusive(i, new) ==
    num_items + Cardinality({j \in counted : Block(j) < Block(i)})
              + Cardinality({j \in new : Block(j) = Block(i) /\ j <= i})

(* The number of a new item: the prefix sum over the counts of the blocks, *)
(* and within its block the new items before it.                           *)
Number(i, new) ==
    num_items + Cardinality({j \in counted : Block(j) < Block(i)})
              + Cardinality({j \in new : Block(j) = Block(i) /\ j < i})

(* compact_hashmap (duplicates), _revised and _revised_mutable; the last   *)
(* one goes by what the insert kernel counted.                             *)
Compact ==
    LET new == IF kind = "mutable" THEN counted ELSE {i \in DOMAIN input : Owned(i)}
        numberOf(p) == {Number(i, new) : i \in {j \in new : SearchPos(input[j]) = p}}
        nodeOf(k) == {input[i] : i \in {j \in new : Number(j, new) = k}}
    IN  /\ kind # "unique"
        /\ \/ kernel = "compact"
           \/ kernel = "insert" /\ KernelDone /\ kind # "duplicates"
        /\ o2n' = [p \in Bucket |->
                    IF numberOf(p) = {} THEN o2n[p]
                    ELSE [o2n[p] EXCEPT !.local = CHOOSE k \in numberOf(p) : TRUE]]
        /\ n2o' = [k \in DOMAIN n2o |->
                    IF nodeOf(k) = {} THEN n2o[k] ELSE CHOOSE id \in nodeOf(k) : TRUE]
        /\ num_items' = num_items + Cardinality(counted)
        /\ version' = version + 1
        /\ layer' = layer + 1
        /\ kind' = "none" /\ kernel' = "none"
        /\ input' = << >> /\ thread' = << >> /\ counted' = {}
        /\ UNCHANGED batches

(* FillWithUnique has one kernel only. *)
FillWithUniqueEnd ==
    /\ kind = "unique" /\ kernel = "insert" /\ KernelDone
    /\ num_items' = num_items + Cardinality(DOMAIN input)
    /\ version' = version + 1
    /\ layer' = layer + 1
    /\ kind' = "none" /\ kernel' = "none"
    /\ input' = << >> /\ thread' = << >> /\ counted' = {}
    /\ UNCHANGED <<tableVars, batches>>

Next ==
    \/ Reset
    \/ FillWithUnique
    \/ \E how \in {"duplicates", "revised", "mutable"} : FillWithSampled(how) \/ FillWithNothing(how)
    \/ \E i \in DOMAIN input : ThreadStep(i)
    \/ Count \/ Compact \/ FillWithUniqueEnd

Spec == Init /\ [][Next]_vars

------------------------------------------------------------------------------
IdsOrEmpty == Ids \cup {Empty}

TypeOK ==
    /\ o2n \in [Bucket -> [key : IdsOrEmpty, local : -1 .. n2o_size - 1,
                           index : -1 .. MaxItems - 1, version : -1 .. Layers]]
    /\ n2o \in [0 .. n2o_size - 1 -> IdsOrEmpty]
    /\ version \in 0 .. Layers + 1 /\ num_items \in 0 .. n2o_size
    /\ layer \in 0 .. Layers + 1
    /\ kind \in {"none", "unique", "duplicates", "revised", "mutable"}
    /\ kernel \in {"none", "insert", "compact"}
    /\ \A i \in DOMAIN input :
        /\ input[i] \in Ids
        /\ thread[i].at \in {"try", "write", "read", "place", "done"}
        /\ thread[i].attempt \in Nat
        /\ thread[i].left \subseteq {"index", "version"} /\ thread[i].match \in BOOLEAN
    /\ counted \subseteq DOMAIN input
    /\ batches \in 0 .. MaxBatches

(* A node is in one bucket only, although threads that have the same node  *)
(* probe at the same time.                                                 *)
KeyOnce ==
    \A p, q \in Bucket : o2n[p].key # Empty /\ o2n[p].key = o2n[q].key => p = q

(* Between fills the two tables are inverse to each other: GPUMapEdges     *)
(* gives every sampled node the number under which its features arrive.    *)
TablesAgree ==
    kernel = "none" =>
        /\ \A p \in Bucket : o2n[p].key # Empty =>
            o2n[p].local \in 0 .. num_items - 1 /\ n2o[o2n[p].local] = o2n[p].key
        /\ \A k \in 0 .. num_items - 1 : \E p \in Bucket : o2n[p].key = n2o[k] /\ o2n[p].local = k

(* The numbers never run beyond the table: assert(pos < _n2o_size).        *)
N2OInBounds == num_items <= n2o_size

(* Every fill gives the new nodes the next numbers and leaves the numbers  *)
(* of the layers before alone.                                             *)
Numbering == INSTANCE NodeNumbering WITH
    nodes <- [k \in 1 .. num_items |-> n2o[k - 1]],
    pending <- {input[i] : i \in DOMAIN input}

ImplementsNumbering == Numbering!NumberingSpec
==============================================================================
