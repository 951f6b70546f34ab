----------------------------- MODULE MCVolumes -----------------------------
(* Two volumes on one or two instances.                                     *)
EXTENDS Volumes, TLC

CONSTANTS i1, i2, v1, v2

Instances1 == {i1}
Instances2 == {i1, i2}
Volumes1   == {v1}
Volumes2   == {v1, v2}
Sizes1     == {1}
Sizes2     == 1..2
Slots2     == 1..2
Slots3     == 1..3
Interchangeable == Permutations(Volumes2)
=============================================================================
