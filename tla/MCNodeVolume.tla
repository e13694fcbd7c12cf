----------------------------- MODULE MCNodeVolume -----------------------------
(* Instances of NodeVolume for TLC: up to two volumes and two pods. *)
EXTENDS NodeVolume, TLC

CONSTANTS v1, v2, p1, p2

\* p2 mounts v2 where the instance has it, and shares v1 where it does not.
MCVolumeOf == [p \in Pods |-> IF p = p2 /\ v2 \in Volumes THEN v2 ELSE v1]

\* Loop devices are interchangeable: losetup --find gives any free one.
LoopSymmetry == Permutations(LoopDevs)
=============================================================================
