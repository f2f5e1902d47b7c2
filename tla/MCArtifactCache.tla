---------------------------- MODULE MCArtifactCache ----------------------------
(***************************************************************************)
(* Instances of ArtifactCache for TLC.                                     *)
(***************************************************************************)
EXTENDS ArtifactCache, TLC

CONSTANTS p1, p2, k1, k2

OneInstance == {p1}
TwoInstances == {p1, p2}

TwoVersions == 1 .. 2
ThreeVersions == 1 .. 3

OneKey == {k1}
TwoKeys == {k1, k2}

\* Every build trusts one key; or the key is rotated in version 2; or in version 3.
SameKey == [v \in Versions |-> k1]
RotatedKey == [v \in Versions |-> IF v = 1 THEN k1 ELSE k2]
LateRotation == [v \in Versions |-> IF v < 3 THEN k1 ELSE k2]

MCBlanks == {Blank(key) : key \in Keys}

EmptyDirectory == {NoFile}
EmptyOrUnusable == {NoFile, Unusable}
EmptyState == MCBlanks

ProcSymmetry == Permutations(Procs)

NoFaults == {}
Time == {"age"}
EveryFault == {"io", "prune", "damage", "age", "slow", "reinstall", "crash"}
=============================================================================
