---------------------------- MODULE MCIdMapStore ----------------------------
(* Small instances of IdMapStore for TLC.                                  *)
EXTENDS IdMapStore, TLC

CONSTANTS t1, t2, a, b, s1, s2, v1, v2, v3

DeadlockOps == {"GetOrCreate", "GetInstances"}
OneSeed == {<<a, s1>>}
NoSeed == {}

DirectoryOps == {"GetOrCreate", "Resolve", "CleanupServer"}
InstanceOps == {"Resolve", "AddInstance", "GetInstances"}

\* Goroutines are interchangeable, and so are the ids they draw.
Symmetry == Permutations(Threads) \cup Permutations(Vids)
=============================================================================
