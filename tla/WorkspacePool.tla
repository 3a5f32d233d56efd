--------------------------- MODULE WorkspacePool ---------------------------
(* The pools every tensor's memory comes from (workspace_pool.cc): for each     *)
(* device a list of free buffers sorted by size and a list of buffers in use,   *)
(* both with a guard entry at the front, and the unlocked look at the array of  *)
(* pools by threads of which one creates the pool. Buffers are numbered as the  *)
(* device hands them out; a pool never gives one back to the device.            *)
EXTENDS Integers, Sequences, SequencesExt, FiniteSetsExt

CONSTANTS Threads,     \* threads of the process
          Devices,     \* contexts with a pool each
          PageSize,    \* kWorkspacePageSize, in the unit of Requests
          Requests,    \* numbers of bytes that are asked for
          Scales,      \* kAllocScale, kAllocNoScale as <<numerator, denominator>>
          MaxBuffers,  \* bound: buffers the devices hand out
          NoThread

ASSUME PageAssumption == PageSize \in Nat \ {0}
ASSUME RequestAssumption == Requests \subseteq Nat
ASSUME ScaleAssumption ==
    \A s \in Scales : /\ s[1] \in Nat /\ s[2] \in Nat \ {0}
                       /\ s[1] >= s[2] /\ s[1] <= 2 * s[2]
ASSUME BufferAssumption == MaxBuffers \in Nat
ASSUME ThreadAssumption == NoThread \notin Threads

VARIABLES array,   \* WorkspacePool::_array: each device's pool
          mutex,   \* holder of WorkspacePool::_mutex
          pc,      \* where each thread is in AllocWorkspace
          req,     \* the arguments of its call
          fresh,   \* buffers the devices have handed out
          held     \* buffers in use by the program and what it asked for
vars == <<array, mutex, pc, req, fresh, held>>

Buffers == 1..MaxBuffers
Entry(b, n) == [data |-> b, size |-> n]
Guard == Entry(0, 0)
NoPool == [made |-> FALSE, free |-> <<>>, allocated |-> <<>>]
EmptyPool == [made |-> TRUE, free |-> <<Guard>>, allocated |-> <<Guard>>]
NoRequest == <<>>

Init == /\ array = [d \in Devices |-> NoPool]
        /\ mutex = NoThread
        /\ pc = [t \in Threads |-> "idle"]
        /\ req = [t \in Threads |-> NoRequest]
        /\ fresh = 0
        /\ held = <<>>

\* The program has buffer b, too, for the request r.
Handed(b, r) ==
    [c \in DOMAIN held \cup {b} |-> IF c = b THEN [dev |-> r.dev, nbytes |-> r.nbytes] ELSE held[c]]
-----------------------------------------------------------------------------
(* Pool::Alloc *)

Rounded(n) ==
    IF n = 0 THEN PageSize ELSE ((n + PageSize - 1) \div PageSize) * PageSize

Scaled(n, s) == (n * s[1]) \div s[2]

\* Mutant: the loop stops at an entry of exactly the size, not below it.
SmallestFit_Strict(list, n) == 1 + Max({i \in 1..(Len(list) - 1) : list[i].size <= n})

\* The search for the smallest fit, from the entry before the last one down to
\* the first too small for n, which the guard is.
SmallestFit(list, n) == 1 + Max({i \in 1..(Len(list) - 1) : list[i].size < n})

HasFit(list, n) == Len(list) > 1 /\ list[Len(list)].size >= n

\* Mutant: any fit is taken.
Reuses_Any(list, n) == HasFit(list, n)

\* A free buffer of n to 2 * n bytes is taken, else the device is asked for
\* another one.
Reuses(list, n) == HasFit(list, n) /\ list[SmallestFit(list, n)].size <= 2 * n

\* Mutant: the buffer stays in the free list.
Alloc_Keep(r) ==
    LET list == array[r.dev].free
        n == Rounded(r.nbytes)
        new == ~Reuses(list, n)
        e == IF new THEN Entry(fresh + 1, Scaled(n, r.scale)) ELSE list[SmallestFit(list, n)]
    IN  /\ new => fresh < MaxBuffers
        /\ fresh' = IF new THEN fresh + 1 ELSE fresh
        /\ array' = [array EXCEPT ![r.dev].allocated = Append(@, e)]
        /\ held' = Handed(e.data, r)

\* The whole of Pool::Alloc for the request r, under the pool's mutex.
Alloc(r) ==
    LET list == array[r.dev].free
        n == Rounded(r.nbytes)
        new == ~Reuses(list, n)
        e == IF new THEN Entry(fresh + 1, Scaled(n, r.scale)) ELSE list[SmallestFit(list, n)]
    IN  /\ new => fresh < MaxBuffers
        /\ fresh' = IF new THEN fresh + 1 ELSE fresh
        /\ array' = [array EXCEPT
             ![r.dev].free = IF new THEN @ ELSE RemoveAt(@, SmallestFit(@, n)),
             ![r.dev].allocated = Append(@, e)]
        /\ held' = Handed(e.data, r)

-----------------------------------------------------------------------------
(* Pool::Free *)

\* Mutant: the quick path of the list in use, for both lists.
Insert_Back(list, e) == Append(list, e)

\* A free buffer goes behind the last one that is not larger.
Insert(list, e) ==
    InsertAt(list, 1 + Max({i \in 1..Len(list) : list[i].size <= e.size}), e)

\* The last entry of the list in use with this address. The guard (index 1) is
\* only compared when it is the last one.
Position(list, b) == Max({i \in 1..Len(list) : list[i].data = b})

Free(d, b) ==
    LET index == Position(array[d].allocated, b)
        e == array[d].allocated[index]
    IN  array' = [array EXCEPT ![d].allocated = RemoveAt(@, index),
                               ![d].free = Insert(@, e)]
-----------------------------------------------------------------------------
(* AllocWorkspace, FreeWorkspace *)

\* The look at the array without the lock. A pool that is there stays, so its
\* Alloc is part of the step.
AllocWorkspace(t) ==
    /\ pc[t] = "idle"
    /\ \E d \in Devices, n \in Requests, s \in Scales :
         LET r == [dev |-> d, nbytes |-> n, scale |-> s]
         IN  IF array[d].made
             THEN Alloc(r) /\ UNCHANGED <<pc, req>>
             ELSE /\ pc' = [pc EXCEPT ![t] = "create"]
                  /\ req' = [req EXCEPT ![t] = r]
                  /\ UNCHANGED <<array, fresh, held>>
    /\ UNCHANGED mutex

\* Under the lock the array is looked at again.
CreatePool(t) ==
    /\ pc[t] = "create"
    /\ mutex = NoThread
    /\ mutex' = t
    /\ array' = [array EXCEPT ![req[t].dev] = IF @.made THEN @ ELSE EmptyPool]
    /\ pc' = [pc EXCEPT ![t] = "alloc"]
    /\ UNCHANGED <<req, fresh, held>>

\* The Alloc of a thread that holds the lock; others may use the pool meanwhile.
AllocCreated(t) ==
    /\ pc[t] = "alloc"
    /\ Alloc(req[t])
    /\ mutex' = NoThread
    /\ pc' = [pc EXCEPT ![t] = "idle"]
    /\ req' = [req EXCEPT ![t] = NoRequest]

\* Tensors travel between threads: any thread may free any buffer in use.
FreeWorkspace(t, b) ==
    /\ pc[t] = "idle"
    /\ b \in DOMAIN held
    /\ Free(held[b].dev, b)
    /\ held' = [c \in DOMAIN held \ {b} |-> held[c]]
    /\ UNCHANGED <<mutex, pc, req, fresh>>

Next == \E t \in Threads : \/ AllocWorkspace(t)
                           \/ CreatePool(t)
                           \/ AllocCreated(t)
                           \/ \E b \in Buffers : FreeWorkspace(t, b)

Spec == Init /\ [][Next]_vars
-----------------------------------------------------------------------------
Data(list) == {list[i].data : i \in 2..Len(list)}

\* Where buffer b is listed.
At(list, b) == {i \in 1..Len(list) : list[i].data = b}
Places(b) ==
    UNION {{<<d, "free", i>> : i \in At(array[d].free, b)} \cup
           {<<d, "allocated", i>> : i \in At(array[d].allocated, b)} : d \in Devices}

\* The lists are what the searches rely on: each starts with its guard, the free
\* one is sorted by size; every buffer a device ever handed out is in exactly one
\* list of one pool, once, and the list in use holds what the program holds. So
\* Free always finds its buffer (the CHECK_GT) and no memory is lost.
ListsExact ==
    /\ \A d \in Devices : array[d].made =>
         /\ array[d].free[1] = Guard /\ array[d].allocated[1] = Guard
         /\ \A i, j \in 1..Len(array[d].free) :
              i < j => array[d].free[i].size <= array[d].free[j].size
         /\ Data(array[d].allocated) = {b \in DOMAIN held : held[b].dev = d}
    /\ \A b \in 1..fresh : Cardinality(Places(b)) = 1

\* Whoever asked for n bytes has a buffer of at least n, and of no more than twice
\* the pages it needs.
FitsRequest ==
    \A d \in Devices : \A i \in 2..Len(array[d].allocated) :
      LET e == array[d].allocated[i]
      IN  e.data \in DOMAIN held =>
            /\ e.size >= held[e.data].nbytes
            /\ e.size <= 2 * Rounded(held[e.data].nbytes)

\* The pool asks the device for memory only when no free buffer of the right size
\* is there: the backward search misses none.
GrowsOnlyWhenNeeded ==
    [][fresh' > fresh =>
         LET n == Rounded(held'[fresh'].nbytes)
             list == array[held'[fresh'].dev].free
         IN  \A i \in 1..Len(list) : ~(list[i].size \in n..(2 * n))]_vars

A == INSTANCE Allocator
\* No buffer is given to a second user before the first one has freed it.
ImplementsAllocator == A!ASpec
=============================================================================
