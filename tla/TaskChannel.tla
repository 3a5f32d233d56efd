----------------------------- MODULE TaskChannel -----------------------------
(***************************************************************************)
(* What the samplers and trainers expect of the global queue               *)
(* (MessageTaskQueue::Send and MessageTaskQueue::Recv): every message sent *)
(* is received once, and at most Capacity messages wait in between.  No    *)
(* order is promised.                                                      *)
(***************************************************************************)
EXTENDS Naturals, FiniteSets

CONSTANTS Messages, Capacity

VARIABLES
    channel,    \* sent, not received
    received    \* received

channelVars == <<channel, received>>

ChannelInit == channel = {} /\ received = {}

Send(m) ==
    /\ m \notin channel \cup received
    /\ Cardinality(channel) < Capacity
    /\ channel' = channel \cup {m}
    /\ UNCHANGED received

Recv(m) ==
    /\ m \in channel
    /\ channel' = channel \ {m}
    /\ received' = received \cup {m}

ChannelNext == \E m \in Messages : Send(m) \/ Recv(m)

ChannelSpec == ChannelInit /\ [][ChannelNext]_channelVars
==============================================================================
