---------------------------- MODULE MCReconciler ----------------------------
(* The reconciler beside the worker, on one instance.                       *)
EXTENDS Reconciler

CONSTANT i1

Instances1 == {i1}
Vmids1 == {1}

NoPowerActions == {}
PowerActions   == {"stop", "start", "reboot"}
Untouched      == {}
PowerOnly      == {"power"}
=============================================================================
