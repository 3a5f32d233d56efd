----------------------------- MODULE MemoryQueue -----------------------------
(***************************************************************************)
(* The global queue between sampler and trainer processes (arch 5):        *)
(* a ring of max_size buckets in shared memory, a send and a receive       *)
(* ticket counter, and two POSIX semaphores per bucket.                    *)
(* samgraph/common/memory_queue.{h,cc}, and the calls task_queue.cc makes  *)
(* on it: MessageTaskQueue::Send and MessageTaskQueue::Recv.               *)
(*                                                                         *)
(* A message is the send ticket under which it was sent: the payload       *)
(* (a sampled mini-batch) is abstracted to its identity.  Filling and      *)
(* parsing a bucket take two steps each, so that a bucket that is written  *)
(* while another process uses it is a state of the model.                  *)
(***************************************************************************)
EXTENDS Integers

CONSTANTS
    Senders,    \* the sampler processes, one thread each
    Receivers,  \* the threads of trainer processes that call Recv
    max_size,   \* buckets of the ring (mq_size)
    Total,      \* bound: calls of Send, and calls of Recv, in a run
    NoMsg       \* contents of a bucket that is not one whole message

ASSUME QueueAssumption ==
    /\ max_size \in Nat \ {0}
    /\ Total \in Nat
    /\ NoMsg \notin Nat

VARIABLES
    send_cnt,   \* next send ticket
    recv_cnt,   \* next receive ticket
    sem_list,   \* per bucket: a message is ready
    release_list, \* per bucket: the bucket may be filled
    data,       \* per bucket: the message it holds
    spc, skey,  \* per sender: where it is in Send, and its ticket
    rpc, rkey,  \* per receiver: where it is in Recv, and its ticket
    rbuf,       \* per receiver: what ParseData has read
    calls,      \* calls of Recv so far (bounded by Total)
    delivered   \* messages returned by Recv so far

sems == <<sem_list, release_list>>
senderVars == <<spc, skey>>
receiverVars == <<rpc, rkey, rbuf, calls, delivered>>
vars == <<send_cnt, recv_cnt, sems, data, senderVars, receiverVars>>

Buckets == 0 .. max_size - 1
Pos(key) == key % max_size

SenderPc == {"idle", "gate", "release_wait", "fill", "filling", "post"}
ReceiverPc == {"idle", "poll", "get", "sem_wait", "parse", "parsing", "release"}

TypeOK ==
    /\ send_cnt \in Nat
    /\ recv_cnt \in Nat
    /\ sem_list \in [Buckets -> 0 .. 1]
    /\ release_list \in [Buckets -> 0 .. 1]
    /\ data \in [Buckets -> Nat \cup {NoMsg}]
    /\ spc \in [Senders -> SenderPc]
    /\ skey \in [Senders -> Nat]
    /\ rpc \in [Receivers -> ReceiverPc]
    /\ rkey \in [Receivers -> Nat]
    /\ rbuf \in [Receivers -> Nat \cup {NoMsg}]
    /\ calls \in Nat
    /\ delivered \subseteq Nat \cup {NoMsg}

(* MQ_MetaData::Init: every bucket is free and holds no message. *)
Init ==
    /\ send_cnt = 0
    /\ recv_cnt = 0
    /\ sem_list = [b \in Buckets |-> 0]
    /\ release_list = [b \in Buckets |-> 1]
    /\ data = [b \in Buckets |-> NoMsg]
    /\ spc = [s \in Senders |-> "idle"]
    /\ skey = [s \in Senders |-> 0]
    /\ rpc = [r \in Receivers |-> "idle"]
    /\ rkey = [r \in Receivers |-> 0]
    /\ rbuf = [r \in Receivers |-> NoMsg]
    /\ calls = 0
    /\ delivered = {}

SemPost(sem, b) == [sem EXCEPT ![b] = @ + 1]
SemTake(sem, b) == [sem EXCEPT ![b] = @ - 1]

(***************************************************************************)
(* MessageTaskQueue::Send: GetPtr, ToData, SimpleSend.                     *)
(***************************************************************************)
SenderGoto(s, from, to) ==
    /\ spc[s] = from
    /\ spc' = [spc EXCEPT ![s] = to]

(* GetPtr: key = Put(), an atomic fetch-and-add. *)
Put(s) ==
    /\ send_cnt < Total
    /\ SenderGoto(s, "idle", "gate")
    /\ skey' = [skey EXCEPT ![s] = send_cnt]
    /\ send_cnt' = send_cnt + 1
    /\ UNCHANGED <<recv_cnt, sems, data, receiverVars>>

(* GetPtr: the spin on key >= recv_cnt + max_size ends. *)
PassGate(s) ==
    /\ skey[s] < recv_cnt + max_size
    /\ SenderGoto(s, "gate", "release_wait")
    /\ UNCHANGED <<send_cnt, recv_cnt, sems, data, skey, receiverVars>>

(* Mutant: GetPtr relies on the gate alone. *)
ReleaseWait_GateOnly(s) ==
    /\ SenderGoto(s, "release_wait", "fill")
    /\ UNCHANGED <<send_cnt, recv_cnt, sems, data, skey, receiverVars>>

(* GetPtr: ReleaseWait(key) returns. *)
ReleaseWait(s) ==
    /\ release_list[Pos(skey[s])] > 0
    /\ SenderGoto(s, "release_wait", "fill")
    /\ release_list' = SemTake(release_list, Pos(skey[s]))
    /\ UNCHANGED <<send_cnt, recv_cnt, sem_list, data, skey, receiverVars>>

(* Mutant: ToData returns before its copies are done. *)
FillStart_NoSync(s) ==
    /\ SenderGoto(s, "fill", "post")
    /\ data' = [data EXCEPT ![Pos(skey[s])] = NoMsg]
    /\ UNCHANGED <<send_cnt, recv_cnt, sems, skey, receiverVars>>

(* ToData starts to overwrite the bucket ... *)
FillStart(s) ==
    /\ SenderGoto(s, "fill", "filling")
    /\ data' = [data EXCEPT ![Pos(skey[s])] = NoMsg]
    /\ UNCHANGED <<send_cnt, recv_cnt, sems, skey, receiverVars>>

(* ... and after its StreamSync the bucket holds the whole message. *)
FillEnd(s) ==
    /\ SenderGoto(s, "filling", "post")
    /\ data' = [data EXCEPT ![Pos(skey[s])] = skey[s]]
    /\ UNCHANGED <<send_cnt, recv_cnt, sems, skey, receiverVars>>

SimpleSend(s) ==
    /\ SenderGoto(s, "post", "idle")
    /\ sem_list' = SemPost(sem_list, Pos(skey[s]))
    /\ UNCHANGED <<send_cnt, recv_cnt, release_list, data, skey, receiverVars>>

(***************************************************************************)
(* MessageTaskQueue::Recv: MemoryQueue::Recv, ParseData, ~SharedData.      *)
(***************************************************************************)
ReceiverGoto(r, from, to) ==
    /\ rpc[r] = from
    /\ rpc' = [rpc EXCEPT ![r] = to]

(* A trainer calls Recv as often as there are messages to come. *)
RecvCall(r) ==
    /\ calls < Total
    /\ ReceiverGoto(r, "idle", "poll")
    /\ calls' = calls + 1
    /\ UNCHANGED <<send_cnt, recv_cnt, sems, data, senderVars, rkey, rbuf, delivered>>

(* Recv: the spin on recv_cnt == send_cnt ends.  Nothing stops another     *)
(* receiver from taking the last ticket before this one calls Get().       *)
SeeMessage(r) ==
    /\ recv_cnt # send_cnt
    /\ ReceiverGoto(r, "poll", "get")
    /\ UNCHANGED <<send_cnt, recv_cnt, sems, data, senderVars, rkey, rbuf, calls, delivered>>

(* Recv: key = Get(), an atomic fetch-and-add. *)
Get(r) ==
    /\ ReceiverGoto(r, "get", "sem_wait")
    /\ rkey' = [rkey EXCEPT ![r] = recv_cnt]
    /\ recv_cnt' = recv_cnt + 1
    /\ UNCHANGED <<send_cnt, sems, data, senderVars, rbuf, calls, delivered>>

(* Mutant: the semaphore is read, not taken. *)
SemWait_Peek(r) ==
    /\ sem_list[Pos(rkey[r])] > 0
    /\ ReceiverGoto(r, "sem_wait", "parse")
    /\ UNCHANGED <<send_cnt, recv_cnt, sems, data, senderVars, rkey, rbuf, calls, delivered>>

(* Recv: SemWait(key) returns. *)
SemWait(r) ==
    /\ sem_list[Pos(rkey[r])] > 0
    /\ ReceiverGoto(r, "sem_wait", "parse")
    /\ sem_list' = SemTake(sem_list, Pos(rkey[r]))
    /\ UNCHANGED <<send_cnt, recv_cnt, release_list, data, senderVars, rkey, rbuf, calls, delivered>>

(* ParseData starts to copy the bucket ... *)
ParseStart(r) ==
    /\ ReceiverGoto(r, "parse", "parsing")
    /\ rbuf' = [rbuf EXCEPT ![r] = data[Pos(rkey[r])]]
    /\ UNCHANGED <<send_cnt, recv_cnt, sems, data, senderVars, rkey, calls, delivered>>

(* ... and returns a task: the message, if the bucket did not change.      *)
ParseEnd(r) ==
    LET task == IF data[Pos(rkey[r])] = rbuf[r] THEN rbuf[r] ELSE NoMsg
    IN  /\ ReceiverGoto(r, "parsing", "release")
        /\ delivered' = delivered \cup {task}
        /\ rbuf' = [rbuf EXCEPT ![r] = task]
        /\ UNCHANGED <<send_cnt, recv_cnt, sems, data, senderVars, rkey, calls>>

(* Mutant of ReleasePost: the task keeps shared_data alive. *)
ReleasePost_Kept(r) ==
    /\ ReceiverGoto(r, "release", "idle")
    /\ rbuf' = [rbuf EXCEPT ![r] = NoMsg]
    /\ UNCHANGED <<send_cnt, recv_cnt, sems, data, senderVars, rkey, calls, delivered>>

(* Mutant: Recv returns its SharedData by value: the copy and the original *)
(* are both destroyed.                                                     *)
ReleasePost_Twice(r) ==
    /\ ReceiverGoto(r, "release", "idle")
    /\ release_list' = SemPost(SemPost(release_list, Pos(rkey[r])), Pos(rkey[r]))
    /\ rbuf' = [rbuf EXCEPT ![r] = NoMsg]
    /\ UNCHANGED <<send_cnt, recv_cnt, sem_list, data, senderVars, rkey, calls, delivered>>

(* shared_data goes out of scope: ~SharedData calls ReleasePost(_key).     *)
ReleasePost(r) ==
    /\ ReceiverGoto(r, "release", "idle")
    /\ release_list' = SemPost(release_list, Pos(rkey[r]))
    /\ rbuf' = [rbuf EXCEPT ![r] = NoMsg]
    /\ UNCHANGED <<send_cnt, recv_cnt, sem_list, data, senderVars, rkey, calls, delivered>>

------------------------------------------------------------------------------
SendStep(s) ==
    \/ Put(s) \/ PassGate(s) \/ ReleaseWait(s)
    \/ FillStart(s) \/ FillEnd(s) \/ SimpleSend(s)

RecvStep(r) ==
    \/ RecvCall(r) \/ SeeMessage(r) \/ Get(r) \/ SemWait(r)
    \/ ParseStart(r) \/ ParseEnd(r) \/ ReleasePost(r)

Finished ==
    /\ send_cnt = Total
    /\ calls = Total
    /\ \A s \in Senders : spc[s] = "idle"
    /\ \A r \in Receivers : rpc[r] = "idle"

(* The run is over: the only state in which nothing else may happen. *)
Terminated == Finished /\ UNCHANGED vars

Next ==
    \/ \E s \in Senders : SendStep(s)
    \/ \E r \in Receivers : RecvStep(r)
    \/ Terminated

Spec == Init /\ [][Next]_vars

(***************************************************************************)
(* The operating system runs every process, and a semaphore that stays     *)
(* positive is eventually taken: weak fairness per process.                *)
(***************************************************************************)
FairSpec ==
    /\ Spec
    /\ \A s \in Senders : WF_vars(SendStep(s))
    /\ \A r \in Receivers : WF_vars(RecvStep(r))

------------------------------------------------------------------------------
(* Whoever has passed a semaphore of bucket b and not yet posted the other *)
(* one is using b.                                                         *)
SenderUses(s, b) == spc[s] \in {"fill", "filling", "post"} /\ Pos(skey[s]) = b
ReceiverUses(r, b) == rpc[r] \in {"parse", "parsing", "release"} /\ Pos(rkey[r]) = b

(***************************************************************************)
(* A bucket is free, or ready, or used by one process, and only one of     *)
(* these at a time: no sampler overwrites a mini-batch that another        *)
(* process is still writing or reading, although tickets max_size apart    *)
(* share a bucket and receivers may claim more tickets than were sent.     *)
(***************************************************************************)
BucketExclusive ==
    \A b \in Buckets :
        /\ sem_list[b] + release_list[b] <= 1
        /\ \A s \in Senders : SenderUses(s, b) =>
              /\ sem_list[b] = 0 /\ release_list[b] = 0
              /\ \A t \in Senders \ {s} : ~SenderUses(t, b)
              /\ \A r \in Receivers : ~ReceiverUses(r, b)
        /\ \A r \in Receivers : ReceiverUses(r, b) =>
              /\ sem_list[b] = 0 /\ release_list[b] = 0
              /\ \A q \in Receivers \ {r} : ~ReceiverUses(q, b)

(* A bucket announced by its semaphore holds one whole message that nobody *)
(* has received: ToData is complete before SimpleSend, and no stale        *)
(* message is announced again.                                             *)
ReadyIsFresh ==
    \A b \in Buckets : sem_list[b] > 0 => data[b] \notin delivered \cup {NoMsg}

(* What ParseData returns is a whole message, sent before, and returned by *)
(* no other call of Recv: nothing is torn, invented or duplicated.         *)
ReceivedOnce ==
    [][\A r \in Receivers : rpc[r] = "parsing" /\ rpc'[r] # "parsing" =>
          /\ rbuf'[r] \in 0 .. send_cnt - 1
          /\ rbuf'[r] \notin delivered]_vars

(* Every message sent is received in the end, whichever processes run into *)
(* each other on the tickets, the gate and the semaphores.                 *)
AllReceived == <>[](Finished /\ delivered = 0 .. Total - 1)

------------------------------------------------------------------------------
(* The messages announced and not yet returned by Recv. *)
Waiting ==
    (0 .. send_cnt - 1) \ (delivered \cup {skey[s] : s \in {t \in Senders : spc[t] # "idle"}})

Channel == INSTANCE TaskChannel WITH
    Messages <- 0 .. Total - 1, Capacity <- max_size, channel <- Waiting, received <- delivered

(* The queue implements the channel: SimpleSend puts a message into it,    *)
(* the end of ParseData takes one out, everything else is internal, and    *)
(* never more than max_size messages wait.                                 *)
ImplementsChannel == Channel!ChannelSpec
==============================================================================
