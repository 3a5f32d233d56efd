-------------------------- MODULE MemoryQueueProofs --------------------------
(***************************************************************************)
(* Proofs about MemoryQueue, for every number of samplers, receivers,      *)
(* buckets and messages.                                                   *)
(***************************************************************************)
EXTENDS MemoryQueue, FiniteSetTheorems, TLAPS

Active(s) == spc[s] # "idle"

(* Bucket b holds a message that is announced, or being parsed. *)
Live(b) ==
    \/ sem_list[b] > 0
    \/ \E r \in Receivers : rpc[r] \in {"parse", "parsing"} /\ Pos(rkey[r]) = b

(* The tickets of senders inside Send are their own. *)
TicketsDistinct ==
    \A s \in Senders : Active(s) =>
        /\ skey[s] < send_cnt
        /\ skey[s] \notin delivered
        /\ \A t \in Senders : Active(t) /\ t # s => skey[t] # skey[s]

(* A sender that is done with ToData finds its message in its bucket. *)
FilledWhole == \A s \in Senders : spc[s] = "post" => data[Pos(skey[s])] = skey[s]

(* A live bucket holds a message of its own residue class that was sent    *)
(* and has not been delivered.                                             *)
LiveFresh ==
    \A b \in Buckets : Live(b) =>
        /\ data[b] \in 0 .. send_cnt - 1
        /\ Pos(data[b]) = b
        /\ data[b] \notin delivered
        /\ \A s \in Senders : Active(s) => skey[s] # data[b]

ParsedWhole == \A r \in Receivers : rpc[r] = "parsing" => rbuf[r] = data[Pos(rkey[r])]

DeliveredSent == delivered \subseteq 0 .. send_cnt - 1 /\ send_cnt <= Total

(* No message is lost: one that was sent is with its sender, in its        *)
(* bucket, or delivered.                                                   *)
NothingLost ==
    \A m \in 0 .. send_cnt - 1 :
        \/ m \in delivered
        \/ \E s \in Senders : Active(s) /\ skey[s] = m
        \/ Live(Pos(m)) /\ data[Pos(m)] = m

IInv ==
    /\ TypeOK
    /\ BucketExclusive
    /\ TicketsDistinct
    /\ FilledWhole
    /\ LiveFresh
    /\ ParsedWhole
    /\ DeliveredSent
    /\ NothingLost

------------------------------------------------------------------------------
(* A ticket modulo max_size is a bucket. *)
LEMMA PosType == ASSUME NEW key \in Nat PROVE Pos(key) \in Buckets
BY QueueAssumption DEF Pos, Buckets

(* Every step keeps the types: who posts a semaphore was using the bucket, *)
(* so both its semaphores were zero.                                       *)
LEMMA TypeStep == TypeOK /\ BucketExclusive /\ [Next]_vars => TypeOK'
<1> SUFFICES ASSUME TypeOK, BucketExclusive, [Next]_vars PROVE TypeOK'
  OBVIOUS
<1> USE PosType DEF TypeOK, sems, senderVars, receiverVars
<1>1. ASSUME NEW s \in Senders, Put(s) PROVE TypeOK'
  BY <1>1 DEF Put, SenderGoto, SenderPc
<1>2. ASSUME NEW s \in Senders, PassGate(s) PROVE TypeOK'
  BY <1>2 DEF PassGate, SenderGoto, SenderPc
<1>3. ASSUME NEW s \in Senders, ReleaseWait(s) PROVE TypeOK'
  BY <1>3 DEF ReleaseWait, SenderGoto, SemTake, sems, SenderPc
<1>4. ASSUME NEW s \in Senders, FillStart(s) PROVE TypeOK'
  BY <1>4 DEF FillStart, SenderGoto, SenderPc
<1>5. ASSUME NEW s \in Senders, FillEnd(s) PROVE TypeOK'
  BY <1>5 DEF FillEnd, SenderGoto, SenderPc
<1>6. ASSUME NEW s \in Senders, SimpleSend(s) PROVE TypeOK'
  <2>1. Pos(skey[s]) \in Buckets /\ sem_list[Pos(skey[s])] = 0
    BY <1>6 DEF SimpleSend, SenderGoto, BucketExclusive, SenderUses
  <2>2. QED
    BY <1>6, <2>1 DEF SimpleSend, SenderGoto, SemPost, SenderPc
<1>7. ASSUME NEW r \in Receivers, RecvCall(r) PROVE TypeOK'
  BY <1>7 DEF RecvCall, ReceiverGoto, ReceiverPc
<1>8. ASSUME NEW r \in Receivers, SeeMessage(r) PROVE TypeOK'
  BY <1>8 DEF SeeMessage, ReceiverGoto, ReceiverPc
<1>9. ASSUME NEW r \in Receivers, Get(r) PROVE TypeOK'
  BY <1>9 DEF Get, ReceiverGoto, ReceiverPc
<1>10. ASSUME NEW r \in Receivers, SemWait(r) PROVE TypeOK'
  BY <1>10 DEF SemWait, ReceiverGoto, SemTake, ReceiverPc
<1>11. ASSUME NEW r \in Receivers, ParseStart(r) PROVE TypeOK'
  BY <1>11 DEF ParseStart, ReceiverGoto, ReceiverPc
<1>12. ASSUME NEW r \in Receivers, ParseEnd(r) PROVE TypeOK'
  BY <1>12 DEF ParseEnd, ReceiverGoto, ReceiverPc
<1>13. ASSUME NEW r \in Receivers, ReleasePost(r) PROVE TypeOK'
  <2>1. Pos(rkey[r]) \in Buckets /\ release_list[Pos(rkey[r])] = 0
    BY <1>13 DEF ReleasePost, ReceiverGoto, BucketExclusive, ReceiverUses
  <2>2. QED
    BY <1>13, <2>1 DEF ReleasePost, ReceiverGoto, SemPost, ReceiverPc
<1>14. CASE UNCHANGED vars
  BY <1>14 DEF vars
<1>15. QED
  BY <1>1, <1>2, <1>3, <1>4, <1>5, <1>6, <1>7, <1>8, <1>9, <1>10, <1>11, <1>12, <1>13, <1>14 DEF Next, SendStep, RecvStep, Terminated

(* The inductive invariant is inductive. *)
LEMMA InvStep == IInv /\ [Next]_vars => IInv'
<1> SUFFICES ASSUME IInv, [Next]_vars PROVE IInv'
  OBVIOUS
<1> USE PosType, QueueAssumption DEF sems, senderVars, receiverVars
<1>1. TypeOK /\ TypeOK'
  BY TypeStep DEF IInv
<1>2. ASSUME NEW s \in Senders, Put(s) PROVE IInv'
  <2>1. TicketsDistinct'
    BY <1>1, <1>2 DEF IInv, TypeOK, Put, SenderGoto, TicketsDistinct,
       Active, DeliveredSent
  <2>2. NothingLost'
    BY <1>1, <1>2 DEF IInv, TypeOK, Put, SenderGoto, NothingLost, Live,
       Active
  <2>3. BucketExclusive' /\ FilledWhole' /\ LiveFresh' /\ ParsedWhole' /\
      DeliveredSent'
    BY <1>1, <1>2 DEF IInv, TypeOK, Put, SenderGoto, BucketExclusive,
       SenderUses, ReceiverUses, FilledWhole, LiveFresh, Live,
       TicketsDistinct, Active, ParsedWhole, DeliveredSent
  <2>4. QED
    BY <1>1, <2>1, <2>2, <2>3 DEF IInv
<1>3. ASSUME NEW s \in Senders, PassGate(s) PROVE IInv'
  BY <1>1, <1>3 DEF IInv, TypeOK, PassGate, SenderGoto, BucketExclusive,
     SenderUses, ReceiverUses, TicketsDistinct, Active, FilledWhole,
     LiveFresh, Live, ParsedWhole, DeliveredSent, NothingLost
<1>4. ASSUME NEW s \in Senders, ReleaseWait(s) PROVE IInv'
  <2>1. Pos(skey[s]) \in Buckets
    BY <1>1, <1>4 DEF IInv, TypeOK
  <2>2. sem_list[Pos(skey[s])] \in Nat /\ release_list[Pos(skey[s])] \in Nat /\ sem_list[Pos(skey[s])] + release_list[Pos(skey[s])] <= 1
    BY <1>1, <1>4, <2>1 DEF IInv, BucketExclusive, TypeOK
  <2>3. release_list[Pos(skey[s])] = 1 /\ sem_list[Pos(skey[s])] = 0
    BY <1>4, <2>2 DEF ReleaseWait
  <2>4. BucketExclusive'
    BY <1>1, <1>4, <2>1, <2>2, <2>3 DEF IInv, TypeOK, ReleaseWait,
       SenderGoto, SemTake, BucketExclusive, SenderUses, ReceiverUses
  <2>5. TicketsDistinct' /\ FilledWhole' /\ DeliveredSent'
    BY <1>1, <1>4 DEF IInv, TypeOK, ReleaseWait, SenderGoto,
       TicketsDistinct, Active, FilledWhole, DeliveredSent
  <2>6. \A b \in Buckets : Live(b)' <=> Live(b)
    BY <1>1, <1>4, <2>1, <2>3 DEF IInv, TypeOK, ReleaseWait, SenderGoto,
       SemTake, Live
  <2>7. LiveFresh' /\ ParsedWhole'
    BY <1>1, <1>4, <2>6 DEF IInv, TypeOK, ReleaseWait, SenderGoto,
       LiveFresh, Active, ParsedWhole
  <2>8. NothingLost'
    BY <1>1, <1>4, <2>6, PosType DEF IInv, TypeOK, ReleaseWait, SenderGoto,
       NothingLost, Active
  <2>9. QED
    BY <1>1, <2>4, <2>5, <2>7, <2>8 DEF IInv
<1>5. ASSUME NEW s \in Senders, FillStart(s) PROVE IInv'
  <2>1. ~Live(Pos(skey[s])) /\ \A t \in Senders \ {s} : spc[t] = "post" => Pos(skey[t]) # Pos(skey[s])
    BY <1>1, <1>5 DEF IInv, FillStart, SenderGoto, BucketExclusive,
       SenderUses, ReceiverUses, Live, TypeOK
  <2>2. \A b \in Buckets : Live(b)' <=> Live(b)
    BY <1>1, <1>5, <2>1 DEF IInv, FillStart, Live
  <2>3. LiveFresh'
    BY <1>1, <1>5, <2>1, <2>2 DEF IInv, TypeOK, FillStart, SenderGoto,
       LiveFresh, TicketsDistinct, Active
  <2>4. NothingLost'
    BY <1>1, <1>5, <2>1, <2>2 DEF IInv, TypeOK, FillStart, SenderGoto,
       NothingLost, Active
  <2>5. ParsedWhole'
    BY <1>1, <1>5, <2>1, <2>2 DEF IInv, TypeOK, FillStart, SenderGoto,
       ParsedWhole, Live
  <2>6. FilledWhole'
    BY <1>1, <1>5, <2>1, <2>2 DEF IInv, TypeOK, FillStart, SenderGoto,
       FilledWhole
  <2>7. BucketExclusive' /\ TicketsDistinct' /\ DeliveredSent'
    BY <1>1, <1>5 DEF IInv, TypeOK, FillStart, SenderGoto, BucketExclusive,
       SenderUses, ReceiverUses, TicketsDistinct, Active, DeliveredSent
  <2>8. QED
    BY <1>1, <2>3, <2>4, <2>5, <2>6, <2>7 DEF IInv
<1>6. ASSUME NEW s \in Senders, FillEnd(s) PROVE IInv'
  <2>1. ~Live(Pos(skey[s])) /\ \A t \in Senders \ {s} : spc[t] = "post" => Pos(skey[t]) # Pos(skey[s])
    BY <1>1, <1>6 DEF IInv, FillEnd, SenderGoto, BucketExclusive,
       SenderUses, ReceiverUses, Live, TypeOK
  <2>2. \A b \in Buckets : Live(b)' <=> Live(b)
    BY <1>1, <1>6, <2>1 DEF IInv, FillEnd, Live
  <2>3. LiveFresh'
    BY <1>1, <1>6, <2>1, <2>2 DEF IInv, TypeOK, FillEnd, SenderGoto,
       LiveFresh, TicketsDistinct, Active
  <2>4. NothingLost'
    BY <1>1, <1>6, <2>1, <2>2 DEF IInv, TypeOK, FillEnd, SenderGoto,
       NothingLost, Active
  <2>5. ParsedWhole'
    BY <1>1, <1>6, <2>1, <2>2 DEF IInv, TypeOK, FillEnd, SenderGoto,
       ParsedWhole, Live
  <2>6. FilledWhole'
    BY <1>1, <1>6, <2>1, <2>2 DEF IInv, TypeOK, FillEnd, SenderGoto,
       FilledWhole
  <2>7. BucketExclusive' /\ TicketsDistinct' /\ DeliveredSent'
    BY <1>1, <1>6 DEF IInv, TypeOK, FillEnd, SenderGoto, BucketExclusive,
       SenderUses, ReceiverUses, TicketsDistinct, Active, DeliveredSent
  <2>8. QED
    BY <1>1, <2>3, <2>4, <2>5, <2>6, <2>7 DEF IInv
<1>7. ASSUME NEW s \in Senders, SimpleSend(s) PROVE IInv'
  <2>1. ~Live(Pos(skey[s])) /\ data[Pos(skey[s])] = skey[s] /\ Pos(skey[s]) \in Buckets
    BY <1>1, <1>7 DEF IInv, SimpleSend, SenderGoto, FilledWhole,
       BucketExclusive, SenderUses, ReceiverUses, Live, TypeOK
  <2>2. BucketExclusive'
    BY <1>1, <1>7, <2>1 DEF IInv, TypeOK, SimpleSend, SenderGoto, SemPost,
       BucketExclusive, SenderUses, ReceiverUses
  <2>3. LiveFresh'
    BY <1>1, <1>7, <2>1 DEF IInv, TypeOK, SimpleSend, SenderGoto, SemPost,
       LiveFresh, Live, TicketsDistinct, Active
  <2>4. NothingLost'
    BY <1>1, <1>7, <2>1 DEF IInv, TypeOK, SimpleSend, SenderGoto, SemPost,
       NothingLost, Live, Active
  <2>5. TicketsDistinct' /\ FilledWhole' /\ ParsedWhole' /\ DeliveredSent'
    BY <1>1, <1>7 DEF IInv, TypeOK, SimpleSend, SenderGoto, SemPost,
       TicketsDistinct, Active, FilledWhole, ParsedWhole, DeliveredSent
  <2>6. QED
    BY <1>1, <2>2, <2>3, <2>4, <2>5 DEF IInv
<1>8. ASSUME NEW r \in Receivers, RecvCall(r) PROVE IInv'
  <2>1. BucketExclusive'
    BY <1>1, <1>8 DEF IInv, TypeOK, RecvCall, ReceiverGoto, BucketExclusive,
       SenderUses, ReceiverUses
  <2>2. LiveFresh'
    BY <1>1, <1>8 DEF IInv, TypeOK, RecvCall, ReceiverGoto, LiveFresh, Live,
       TicketsDistinct, Active
  <2>3. NothingLost'
    BY <1>1, <1>8 DEF IInv, TypeOK, RecvCall, ReceiverGoto, NothingLost,
       Live, Active
  <2>4. TicketsDistinct' /\ FilledWhole' /\ ParsedWhole' /\ DeliveredSent'
    BY <1>1, <1>8 DEF IInv, TypeOK, RecvCall, ReceiverGoto, TicketsDistinct,
       Active, FilledWhole, ParsedWhole, DeliveredSent
  <2>5. QED
    BY <1>1, <2>1, <2>2, <2>3, <2>4 DEF IInv
<1>9. ASSUME NEW r \in Receivers, SeeMessage(r) PROVE IInv'
  <2>1. BucketExclusive'
    BY <1>1, <1>9 DEF IInv, TypeOK, SeeMessage, ReceiverGoto,
       BucketExclusive, SenderUses, ReceiverUses
  <2>2. LiveFresh'
    BY <1>1, <1>9 DEF IInv, TypeOK, SeeMessage, ReceiverGoto, LiveFresh,
       Live, TicketsDistinct, Active
  <2>3. NothingLost'
    BY <1>1, <1>9 DEF IInv, TypeOK, SeeMessage, ReceiverGoto, NothingLost,
       Live, Active
  <2>4. TicketsDistinct' /\ FilledWhole' /\ ParsedWhole' /\ DeliveredSent'
    BY <1>1, <1>9 DEF IInv, TypeOK, SeeMessage, ReceiverGoto,
       TicketsDistinct, Active, FilledWhole, ParsedWhole, DeliveredSent
  <2>5. QED
    BY <1>1, <2>1, <2>2, <2>3, <2>4 DEF IInv
<1>10. ASSUME NEW r \in Receivers, Get(r) PROVE IInv'
  <2>1. BucketExclusive'
    BY <1>1, <1>10 DEF IInv, TypeOK, Get, ReceiverGoto, BucketExclusive,
       SenderUses, ReceiverUses
  <2>2. LiveFresh'
    BY <1>1, <1>10 DEF IInv, TypeOK, Get, ReceiverGoto, LiveFresh, Live,
       TicketsDistinct, Active
  <2>3. NothingLost'
    BY <1>1, <1>10 DEF IInv, TypeOK, Get, ReceiverGoto, NothingLost, Live,
       Active
  <2>4. TicketsDistinct' /\ FilledWhole' /\ ParsedWhole' /\ DeliveredSent'
    BY <1>1, <1>10 DEF IInv, TypeOK, Get, ReceiverGoto, TicketsDistinct,
       Active, FilledWhole, ParsedWhole, DeliveredSent
  <2>5. QED
    BY <1>1, <2>1, <2>2, <2>3, <2>4 DEF IInv
<1>11. ASSUME NEW r \in Receivers, SemWait(r) PROVE IInv'
  <2>1. Pos(rkey[r]) \in Buckets
    BY <1>1, <1>11 DEF IInv, TypeOK
  <2>2. sem_list[Pos(rkey[r])] \in Nat /\ release_list[Pos(rkey[r])] \in Nat /\ sem_list[Pos(rkey[r])] + release_list[Pos(rkey[r])] <= 1
    BY <1>1, <1>11, <2>1 DEF IInv, BucketExclusive, TypeOK
  <2>3. sem_list[Pos(rkey[r])] = 1 /\ release_list[Pos(rkey[r])] = 0
    BY <1>11, <2>2 DEF SemWait
  <2>4. BucketExclusive'
    BY <1>1, <1>11, <2>1, <2>2, <2>3 DEF IInv, TypeOK, SemWait,
       ReceiverGoto, SemTake, BucketExclusive, SenderUses, ReceiverUses
  <2>5. LiveFresh'
    BY <1>1, <1>11, <2>1, <2>2, <2>3 DEF IInv, TypeOK, SemWait,
       ReceiverGoto, SemTake, LiveFresh, Live, TicketsDistinct, Active
  <2>6. NothingLost'
    BY <1>1, <1>11, <2>1, <2>2, <2>3 DEF IInv, TypeOK, SemWait,
       ReceiverGoto, SemTake, NothingLost, Live, Active
  <2>7. TicketsDistinct' /\ FilledWhole' /\ ParsedWhole' /\ DeliveredSent'
    BY <1>1, <1>11 DEF IInv, TypeOK, SemWait, ReceiverGoto, SemTake,
       TicketsDistinct, Active, FilledWhole, ParsedWhole, DeliveredSent
  <2>8. QED
    BY <1>1, <2>4, <2>5, <2>6, <2>7 DEF IInv
<1>12. ASSUME NEW r \in Receivers, ParseStart(r) PROVE IInv'
  BY <1>1, <1>12 DEF IInv, TypeOK, ParseStart, ReceiverGoto,
     BucketExclusive, SenderUses, ReceiverUses, TicketsDistinct, Active,
     FilledWhole, LiveFresh, Live, ParsedWhole, DeliveredSent, NothingLost
<1>13. ASSUME NEW r \in Receivers, ParseEnd(r) PROVE IInv'
  <2>1. Live(Pos(rkey[r])) /\ Pos(rkey[r]) \in Buckets /\ rbuf[r] = data[Pos(rkey[r])]
    BY <1>1, <1>13 DEF IInv, ParseEnd, ReceiverGoto, Live, ParsedWhole,
       TypeOK
  <2>2. delivered' = delivered \cup {data[Pos(rkey[r])]} /\ data[Pos(rkey[r])] \in 0 .. send_cnt - 1
    BY <1>1, <1>13, <2>1 DEF IInv, ParseEnd, LiveFresh
  <2>3. ~Live(Pos(rkey[r]))'
    BY <1>1, <1>13, <2>1, <2>2 DEF IInv, ParseEnd, ReceiverGoto,
       BucketExclusive, ReceiverUses, Live, TypeOK
  <2>4. BucketExclusive'
    BY <1>1, <1>13 DEF IInv, TypeOK, ParseEnd, ReceiverGoto,
       BucketExclusive, SenderUses, ReceiverUses
  <2>5. TicketsDistinct'
    BY <1>1, <1>13, <2>1, <2>2, <2>3 DEF IInv, TypeOK, ParseEnd,
       ReceiverGoto, TicketsDistinct, Active, LiveFresh
  <2>6. LiveFresh'
    BY <1>1, <1>13, <2>1, <2>2, <2>3 DEF IInv, TypeOK, ParseEnd,
       ReceiverGoto, LiveFresh, Live, TicketsDistinct, Active
  <2>7. DeliveredSent'
    BY <1>1, <1>13, <2>1, <2>2, <2>3 DEF IInv, TypeOK, ParseEnd,
       ReceiverGoto, DeliveredSent
  <2>8. NothingLost'
    BY <1>1, <1>13, <2>1, <2>2, <2>3 DEF IInv, TypeOK, ParseEnd,
       ReceiverGoto, NothingLost, Live, Active
  <2>9. FilledWhole' /\ ParsedWhole'
    BY <1>1, <1>13 DEF IInv, TypeOK, ParseEnd, ReceiverGoto, FilledWhole,
       ParsedWhole
  <2>10. QED
    BY <1>1, <2>4, <2>5, <2>6, <2>7, <2>8, <2>9 DEF IInv
<1>14. ASSUME NEW r \in Receivers, ReleasePost(r) PROVE IInv'
  <2>1. BucketExclusive'
    BY <1>1, <1>14 DEF IInv, TypeOK, ReleasePost, ReceiverGoto, SemPost,
       BucketExclusive, SenderUses, ReceiverUses
  <2>2. TicketsDistinct' /\ FilledWhole' /\ LiveFresh' /\ ParsedWhole' /\
      DeliveredSent' /\ NothingLost'
    BY <1>1, <1>14 DEF IInv, TypeOK, ReleasePost, ReceiverGoto, SemPost,
       TicketsDistinct, Active, FilledWhole, LiveFresh, Live, ParsedWhole,
       DeliveredSent, NothingLost
  <2>3. QED
    BY <1>1, <2>1, <2>2 DEF IInv
<1>15. CASE UNCHANGED vars
  BY <1>1, <1>15 DEF vars, IInv, BucketExclusive, SenderUses, ReceiverUses,
     TicketsDistinct, Active, FilledWhole, LiveFresh, Live, ParsedWhole,
     DeliveredSent, NothingLost
<1>16. QED
  BY <1>2, <1>3, <1>4, <1>5, <1>6, <1>7, <1>8, <1>9, <1>10, <1>11, <1>12,
     <1>13, <1>14, <1>15 DEF Next, SendStep, RecvStep, Terminated

(* It holds of the queue that MQ_MetaData::Init leaves. *)
LEMMA InitInv == Init => IInv
<1> SUFFICES ASSUME Init PROVE IInv
  OBVIOUS
<1> USE QueueAssumption DEF Init
<1>1. TypeOK
  BY DEF TypeOK, SenderPc, ReceiverPc
<1>2. BucketExclusive
  BY DEF BucketExclusive, SenderUses, ReceiverUses, Buckets
<1>3. TicketsDistinct /\ FilledWhole /\ ParsedWhole /\ DeliveredSent /\ NothingLost
  BY DEF TicketsDistinct, Active, FilledWhole, ParsedWhole, DeliveredSent, NothingLost
<1>4. LiveFresh
  BY DEF LiveFresh, Live, Buckets
<1>5. QED
  BY <1>1, <1>2, <1>3, <1>4 DEF IInv

(* The inductive invariant holds in every state of a run. *)
THEOREM Invariance == Spec => []IInv
<1>1. QED
  BY InitInv, InvStep, PTL DEF Spec

------------------------------------------------------------------------------
(* Every variable keeps its type. *)
THEOREM TypeCorrect == Spec => []TypeOK
<1>1. IInv => TypeOK
  BY DEF IInv
<1>2. QED
  BY <1>1, Invariance, PTL

(* No bucket is ever used by two processes, or offered while it is used. *)
THEOREM Exclusive == Spec => []BucketExclusive
<1>1. IInv => BucketExclusive
  BY DEF IInv
<1>2. QED
  BY <1>1, Invariance, PTL

(* An announced bucket holds a whole message that nobody has received. *)
THEOREM Fresh == Spec => []ReadyIsFresh
<1>1. IInv => ReadyIsFresh
  BY QueueAssumption DEF IInv, TypeOK, ReadyIsFresh, LiveFresh, Live
<1>2. QED
  BY <1>1, Invariance, PTL

------------------------------------------------------------------------------
(* The end of ParseData returns the message the bucket holds, which was    *)
(* sent and not returned before.                                           *)
LEMMA ParseEndFresh ==
  ASSUME IInv, NEW r \in Receivers, ParseEnd(r)
  PROVE  /\ rbuf'[r] \in 0 .. send_cnt - 1
         /\ rbuf'[r] \notin delivered
         /\ \A s \in Senders : Active(s) => skey[s] # rbuf'[r]
         /\ delivered' = delivered \cup {rbuf'[r]}
<1> DEFINE b == Pos(rkey[r])
<1>1. b \in Buckets /\ Live(b) /\ rbuf[r] = data[b]
  BY PosType DEF IInv, TypeOK, ParseEnd, ReceiverGoto, Live, ParsedWhole
<1>2. rbuf'[r] = data[b] /\ delivered' = delivered \cup {data[b]}
  BY <1>1 DEF ParseEnd, IInv, TypeOK
<1>3. QED
  BY <1>1, <1>2 DEF IInv, LiveFresh

(* Recv returns every message at most once, and only whole ones. *)
THEOREM Once == Spec => ReceivedOnce
<1> DEFINE A == \A r \in Receivers : rpc[r] = "parsing" /\ rpc'[r] # "parsing" =>
                  /\ rbuf'[r] \in 0 .. send_cnt - 1
                  /\ rbuf'[r] \notin delivered
<1>1. ASSUME IInv, [Next]_vars PROVE [A]_vars
  <2> SUFFICES ASSUME NEW r \in Receivers, rpc[r] = "parsing", rpc'[r] # "parsing"
               PROVE  ParseEnd(r)
    BY <1>1, ParseEndFresh
  <2> USE <1>1 DEF IInv, TypeOK
  <2>1. ~UNCHANGED rpc
    OBVIOUS
  <2>2. PICK q \in Receivers : RecvStep(q)
    BY <2>1 DEF Next, SendStep, Terminated, vars, receiverVars, Put, PassGate,
       ReleaseWait, FillStart, FillEnd, SimpleSend
  <2>3. q = r
    BY <2>2 DEF RecvStep, ReceiverGoto, RecvCall, SeeMessage, Get, SemWait,
       ParseStart, ParseEnd, ReleasePost
  <2>4. QED
    BY <2>2, <2>3 DEF RecvStep, ReceiverGoto, RecvCall, SeeMessage, Get, SemWait,
       ParseStart, ReleasePost
<1>2. QED
  BY <1>1, Invariance, PTL DEF Spec, ReceivedOnce

------------------------------------------------------------------------------
(* A waiting message sits whole in the live bucket of its ticket. *)
LEMMA WaitingLive ==
  ASSUME IInv, NEW m \in Waiting
  PROVE  /\ m \in Nat /\ m < send_cnt
         /\ Pos(m) \in Buckets
         /\ Live(Pos(m))
         /\ data[Pos(m)] = m
BY PosType DEF IInv, TypeOK, NothingLost, Waiting, Active

(* A sender that owns a bucket finds room in the channel: the waiting      *)
(* messages sit in the other buckets, one in each.                         *)
LEMMA RoomInChannel ==
  ASSUME IInv, NEW s \in Senders, SimpleSend(s)
  PROVE  Cardinality(Waiting) < max_size
<1> DEFINE b == Pos(skey[s])
           Others == Buckets \ {b}
           bucketOf == [m \in Waiting |-> Pos(m)]
<1>1. b \in Buckets /\ ~Live(b)
  BY PosType DEF IInv, TypeOK, SimpleSend, SenderGoto, BucketExclusive, SenderUses,
     ReceiverUses, Live
<1>2. IsFiniteSet(Others) /\ Cardinality(Others) = max_size - 1
  <2>1. IsFiniteSet(Buckets) /\ Cardinality(Buckets) = max_size
    BY FS_Interval, QueueAssumption DEF Buckets
  <2>2. QED
    BY <1>1, <2>1, FS_RemoveElement
<1>3. bucketOf \in Injection(Waiting, Others)
  <2>1. \A m \in Waiting : Pos(m) \in Others /\ data[Pos(m)] = m
    BY <1>1, WaitingLive
  <2>2. QED
    BY <2>1 DEF Injection, IsInjective
<1>4. Cardinality(Waiting) <= Cardinality(Others) /\ IsFiniteSet(Waiting)
  BY <1>2, <1>3, FS_Injection
<1>5. QED
  BY <1>2, <1>4, FS_CardinalityType, QueueAssumption

(* SimpleSend is Send of the channel, the other steps of a sender are      *)
(* internal.                                                               *)
LEMMA SendRefines ==
  ASSUME IInv, NEW s \in Senders, SendStep(s)
  PROVE  [Channel!ChannelNext]_(Channel!channelVars)
<1> USE DEF IInv, TypeOK, Active
<1>1. CASE SimpleSend(s)
  <2>1. skey[s] \in 0 .. Total - 1 /\ skey[s] \notin Waiting \cup delivered
    BY <1>1, QueueAssumption DEF SimpleSend, SenderGoto, TicketsDistinct, DeliveredSent, Waiting
  <2>2. Waiting' = Waiting \cup {skey[s]} /\ delivered' = delivered
    BY <1>1 DEF SimpleSend, SenderGoto, TicketsDistinct, DeliveredSent, Waiting, receiverVars
  <2>3. Cardinality(Waiting) < max_size
    BY <1>1, RoomInChannel
  <2>4. Channel!Send(skey[s])
    <3>1. Channel!Cardinality(Waiting) = Cardinality(Waiting)
      BY Zenon DEF Channel!Cardinality, Cardinality
    <3>2. QED
      BY <2>1, <2>2, <2>3, <3>1 DEF Channel!Send
  <2>5. QED
    BY <2>1, <2>4 DEF Channel!ChannelNext
<1>2. CASE Put(s)
  <2>1. Waiting' = Waiting /\ delivered' = delivered
    BY <1>2 DEF Put, SenderGoto, Waiting, DeliveredSent, receiverVars
  <2>2. QED
    BY <2>1 DEF Channel!channelVars
<1>3. CASE PassGate(s) \/ ReleaseWait(s) \/ FillStart(s) \/ FillEnd(s)
  <2>1. Waiting' = Waiting /\ delivered' = delivered
    BY <1>3 DEF PassGate, ReleaseWait, FillStart, FillEnd, SenderGoto, Waiting,
       receiverVars
  <2>2. QED
    BY <2>1 DEF Channel!channelVars
<1>4. QED
  BY <1>1, <1>2, <1>3 DEF SendStep

(* ParseEnd is Recv of the channel, the other steps of a receiver are      *)
(* internal.                                                               *)
LEMMA RecvRefines ==
  ASSUME IInv, NEW r \in Receivers, RecvStep(r)
  PROVE  [Channel!ChannelNext]_(Channel!channelVars)
<1> USE DEF Active, senderVars
<1>1. CASE ParseEnd(r)
  <2>1. rbuf'[r] \in Waiting
    BY <1>1, ParseEndFresh DEF Waiting
  <2>2. delivered' = delivered \cup {rbuf'[r]}
    BY <1>1, ParseEndFresh
  <2>3. Waiting' = Waiting \ {rbuf'[r]}
    <3>1. UNCHANGED <<send_cnt, spc, skey>>
      BY <1>1 DEF ParseEnd
    <3>2. QED
      BY <2>2, <3>1 DEF Waiting
  <2>4. rbuf'[r] \in 0 .. Total - 1
    BY <1>1, ParseEndFresh, QueueAssumption DEF IInv, TypeOK, DeliveredSent
  <2>5. QED
    BY <2>1, <2>2, <2>3, <2>4 DEF Channel!ChannelNext, Channel!Recv
<1>2. CASE \/ RecvCall(r) \/ SeeMessage(r) \/ Get(r) \/ SemWait(r)
           \/ ParseStart(r) \/ ReleasePost(r)
  <2>1. Waiting' = Waiting /\ delivered' = delivered
    BY <1>2 DEF RecvCall, SeeMessage, Get, SemWait, ParseStart, ReleasePost, Waiting
  <2>2. QED
    BY <2>1 DEF Channel!channelVars
<1>3. QED
  BY <1>1, <1>2 DEF RecvStep

(* The queue implements the channel. *)
THEOREM Implements == Spec => ImplementsChannel
<1>1. Init => Channel!ChannelInit
  BY DEF Init, Waiting, Channel!ChannelInit
<1>2. ASSUME IInv, [Next]_vars PROVE [Channel!ChannelNext]_(Channel!channelVars)
  <2>1. CASE UNCHANGED vars
    BY <2>1 DEF vars, senderVars, receiverVars, Waiting, Channel!channelVars
  <2>2. QED
    BY <1>2, <2>1, SendRefines, RecvRefines DEF Next, Terminated
<1>3. QED
  BY <1>1, <1>2, Invariance, PTL DEF Spec, ImplementsChannel, Channel!ChannelSpec
==============================================================================
