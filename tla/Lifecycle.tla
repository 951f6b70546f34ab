----------------------------- MODULE Lifecycle -----------------------------
(***************************************************************************)
(* What the API promises about one instance: EC2's lifecycle, and that an  *)
(* instance only reads "terminated" once it holds nothing in Proxmox or    *)
(* NetBox any more.  Leases, attempts, crashes and retries are not here.   *)
(***************************************************************************)
VARIABLES
    state,   \* the state a user is shown
    action,  \* the action still to be carried out, or "none"
    holds    \* whether a VM or an address exists for the instance

vars == <<state, action, holds>>

Init == state = "absent" /\ action = "none" /\ holds = FALSE

Moves(state0, action0, state1, action1) ==
    /\ state = state0 /\ action = action0
    /\ state' = state1 /\ action' = action1
    /\ UNCHANGED holds

Admitted == Moves("absent", "none", "pending", "launch")

\* A launch acquires; one that a terminate overtook may still be doing so.
Acquires ==
    /\ state \in {"pending", "shutting-down"} /\ action \in {"launch", "terminate"}
    /\ holds' = TRUE
    /\ UNCHANGED <<state, action>>

Asked ==
    \/ Moves("running", "none", "stopping", "stop")
    \/ Moves("running", "none", "running", "reboot")
    \/ Moves("stopped", "none", "pending", "start")

Carried ==
    \/ holds /\ Moves("pending", "launch", "running", "none")
    \/ Moves("pending", "start", "running", "none")
    \/ Moves("stopping", "stop", "stopped", "none")
    \/ Moves("running", "reboot", "running", "none")

\* Retries are used up: the instance reads as it did before it was asked.
GaveUp ==
    \/ Moves("pending", "start", "stopped", "none")
    \/ Moves("stopping", "stop", "running", "none")

\* A user asks for the end, or a launch is abandoned: from any live state.
Ending ==
    /\ state \notin {"absent", "terminated", "shutting-down"}
    /\ state' = "shutting-down" /\ action' = "terminate"
    /\ UNCHANGED holds

Releases ==
    /\ state = "shutting-down"
    /\ holds' = FALSE
    /\ UNCHANGED <<state, action>>

Ended == ~holds /\ Moves("shutting-down", "terminate", "terminated", "none")

\* What the reconciler adds: the VM's power was changed outside the API.
Observed ==
    \/ Moves("running", "none", "stopped", "none")
    \/ Moves("stopped", "none", "running", "none")

Next == Admitted \/ Acquires \/ Asked \/ Carried \/ GaveUp \/ Ending \/ Releases \/ Ended

Spec == Init /\ [][Next]_vars

ObservedSpec == Init /\ [][Next \/ Observed]_vars
=============================================================================
