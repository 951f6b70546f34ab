----------------------------- MODULE VolumeLife -----------------------------
(***************************************************************************)
(* What the API promises about one volume: EC2's states; that a guest sees *)
(* it once it is attached and from then on, and no longer once it is       *)
(* detached; that only the instance it was asked for ever gets it; and     *)
(* that what was written on it is somewhere until its owner deletes it.    *)
(* Names, slots, moves that were cut off, crashes and retries are not here.*)
(***************************************************************************)
CONSTANTS
    Instance,
    Holder,    \* where detached volumes wait
    NoVm

VARIABLES
    state,     \* the state a user is shown
    action,    \* the action still to be carried out, or "none"
    user,      \* the instance it is attached to, on its way to or from, or NoVm
    leaving,   \* whether that instance is being terminated
    at,        \* where what was written on it is: a VM, or NoVm when nowhere
    seen       \* whether the guest there sees it

vars == <<state, action, user, leaving, at, seen>>

Init == /\ state = "absent" /\ action = "none" /\ user = NoVm
        /\ leaving = FALSE /\ at = NoVm /\ seen = FALSE

Moves(state0, action0, state1, action1) ==
    /\ state = state0 /\ action = action0
    /\ state' = state1 /\ action' = action1

\* What a user asks for, of a volume with nothing pending.
Asked ==
    /\ \/ Moves("absent", "none", "creating", "create") /\ UNCHANGED user
       \/ user = NoVm /\ Moves("available", "none", "available", "attach") /\ user' \in Instance
       \/ Moves("in-use", "none", "in-use", "detach") /\ UNCHANGED user
       \/ Moves("available", "none", "available", "resize") /\ UNCHANGED user
       \/ Moves("in-use", "none", "in-use", "resize") /\ UNCHANGED user
       \/ /\ user = NoVm /\ UNCHANGED user
          /\ \/ Moves("available", "none", "deleting", "delete")
             \/ Moves("error", "none", "deleting", "delete")
    /\ UNCHANGED <<leaving, at, seen>>

\* A new volume is its user's to write on.
Made == /\ Moves("creating", "create", "available", "none")
        /\ at' = Holder
        /\ UNCHANGED <<user, leaving, seen>>

Attached == /\ Moves("available", "attach", "in-use", "none")
            /\ at = user /\ seen
            /\ UNCHANGED <<user, leaving, at, seen>>

\* A detach, asked for or of an attach that was given up.
Detached == /\ state \in {"available", "in-use"} /\ action = "detach"
            /\ at = Holder /\ ~seen
            /\ state' = "available" /\ action' = "none" /\ user' = NoVm /\ leaving' = FALSE
            /\ UNCHANGED <<at, seen>>

Resized == /\ action = "resize" /\ action' = "none"
           /\ UNCHANGED <<state, user, leaving, at, seen>>

Deleted == /\ Moves("deleting", "delete", "deleted", "none")
           /\ at = NoVm
           /\ UNCHANGED <<user, leaving, at, seen>>

\* Retries are used up.  A volume that cannot be attached is detached.
GaveUp == /\ \/ Moves("creating", "create", "error", "none") /\ at = NoVm
             \/ Moves("available", "attach", "available", "detach")
          /\ UNCHANGED <<user, leaving, at, seen>>

\* The instance is asked to terminate; its volumes come back and stay.
Left == /\ user # NoVm /\ leaving' = TRUE
        /\ UNCHANGED <<state, action, user, at, seen>>

Returned == /\ leaving /\ at = Holder /\ ~seen
            /\ state' = "available" /\ user' = NoVm /\ leaving' = FALSE
            /\ action' = IF action \in {"attach", "detach"} THEN "none" ELSE action
            /\ UNCHANGED <<at, seen>>

\* The disk goes to the instance to be attached, and only then comes to be seen.
Given == /\ action = "attach" /\ at = Holder /\ at' = user
         /\ UNCHANGED <<state, action, user, leaving, seen>>

Shown == /\ action = "attach" /\ at = user /\ seen' = TRUE
         /\ UNCHANGED <<state, action, user, leaving, at>>

\* It is taken away when that was asked for, or with the instance.
Taken == /\ action = "detach" \/ leaving
         /\ at' \in {at, Holder} /\ seen' = FALSE
         /\ UNCHANGED <<state, action, user, leaving>>

Destroyed == /\ state = "deleting" /\ at' = NoVm
             /\ UNCHANGED <<state, action, user, leaving, seen>>

Next == \/ Asked \/ Made \/ Attached \/ Detached \/ Resized \/ Deleted \/ GaveUp
        \/ Left \/ Returned \/ Given \/ Shown \/ Taken \/ Destroyed

Spec == Init /\ [][Next]_vars
=============================================================================
