-------------------------- MODULE MCOrderedHashTable --------------------------
(* OrderedHashTable on a few nodes that all hash to one bucket or next to  *)
(* it.                                                                     *)
EXTENDS OrderedHashTable

Fanout31 == <<3, 1>>
Fanout1 == <<1>>
==============================================================================
