-------------------------- MODULE MCWorkspacePool --------------------------
(* Two threads, two devices; a page is four units, kAllocScale is 5/4.           *)
EXTENDS WorkspacePool, TLC

CONSTANTS t1, t2, d1, d2

MCThreads == {t1, t2}
MCDevices == {d1, d2}
MCScales == {<<1, 1>>, <<5, 4>>}
MCRequests == {0, 5, 16}
MCSymmetry == Permutations(MCThreads) \union Permutations(MCDevices)
=============================================================================
