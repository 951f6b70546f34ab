---------------------------- MODULE MCAdmission ----------------------------
(* Admission alone: one account repeats a request while an administrator    *)
(* changes the default disk size.                                           *)
EXTENDS Admission

OneSlot    == {1}
OneAccount == {"alice"}
OneToken   == {"token"}
TwoVmids   == 1..2
SetAside   == {3}
OneCaller  == {1}
Empty      == {}
Sizes      == {2}
DefaultDisk == {0}
SiteLimits == [instances |-> 2, memory |-> 3, budget |-> 0, reserve |-> 0,
               diskMin |-> 1, diskDefault |-> 1, diskMax |-> 2]
NotSet     == [l \in {} |-> 0]
SetOrNot   == {NotSet, [diskDefault |-> 2]}
=============================================================================
