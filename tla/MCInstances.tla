---------------------------- MODULE MCInstances ----------------------------
(* The instance lifecycle on small sets of instances and VMIDs.             *)
EXTENDS Instances, TLC

CONSTANTS i1, i2

Instances1 == {i1}
Instances2 == {i1, i2}
Interchangeable == Permutations(Instances2)

Vmids2 == 1..2
Vmids3 == 1..3

NoPowerActions  == {}
AllPowerActions == {"stop", "start", "reboot"}
Untouched  == {}
Occupied   == {"create"}
Meddling   == {"create", "remove", "power"}
=============================================================================
