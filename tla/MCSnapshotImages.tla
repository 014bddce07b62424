-------------------------- MODULE MCSnapshotImages --------------------------
(* Small instances of SnapshotImages for TLC. *)
EXTENDS SnapshotImages, TLC

CONSTANTS s1, s2, s3, p1, p2

TwoSnaps   == {s1, s2}
ThreeSnaps == {s1, s2, s3}
OnePVC     == {p1}
TwoPVCs    == {p1, p2}

Symmetry2 == Permutations(TwoSnaps) \cup Permutations(TwoPVCs)
Symmetry3 == Permutations(ThreeSnaps)
=============================================================================
