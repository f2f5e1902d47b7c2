----------------------------- MODULE MCStateStore -----------------------------
(***************************************************************************)
(* Instances of StateStore for TLC.  A CacheState is a model value: the    *)
(* store never looks inside one.                                           *)
(***************************************************************************)
EXTENDS StateStore, TLC

CONSTANTS p1, p2, blank, s1

MCProcs == {p1, p2}
MCStates == {blank, s1}
MCBlanks == {blank}
EveryStart == {NoFile, Unusable, blank, s1}
EmptyDirectory == {NoFile}
\* A prune that fails is left to the cache's runs: it multiplies the directories.
StoreFaults == {"io", "damage"}
NoFaults == {}

\* The processes run the same code.
ProcSymmetry == Permutations(Procs)
=============================================================================
