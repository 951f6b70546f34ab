----------------------------- MODULE Reconciler -----------------------------
(***************************************************************************)
(* The reconciler beside the worker: a second goroutine that reads the     *)
(* settled instances, lists the pool, and corrects what disagrees, while   *)
(* users, the worker and outsiders carry on between any two of its calls.  *)
(*                                                                         *)
(* state_reason is left out: a VM that is missing from the pool, one or    *)
(* all of them, only has its reason noted.                                 *)
(***************************************************************************)
EXTENDS Instances

VARIABLE pass  \* the reconciler's current pass over the settled instances

rvars == <<vars, pass>>

\* was is the state each settled instance had when the pass read the table, on
\* the VMIDs ListVMs then showed running, live what the VM itself said.
Pass == [step: {"idle", "list", "next", "live", "observe", "onboot", "remember"},
         todo: SUBSET Instance, was: [Instance -> {"running", "stopped"}],
         on: SUBSET Vmid, cur: Instance \cup {NoInstance},
         live: {"running", "stopped"}]

TypeOKPass == TypeOK /\ pass \in Pass

NoPass == [step |-> "idle", todo |-> {}, was |-> [i \in Instance |-> "stopped"],
           on |-> {}, cur |-> NoInstance, live |-> "stopped"]

InitPass == Init /\ pass = NoPass

-----------------------------------------------------------------------------

\* Mutant: a status is passed on that no instance can have.
PowerStateAsIs(on) == IF on THEN "running" ELSE "absent"

PowerState(on) == IF on THEN "running" ELSE "stopped"

\* Mutant: only instances that should run are looked at.
Running(i) == row[i].state = "running" /\ row[i].action = "none" /\ ~row[i].leased

\* SettledInstances: nothing pending, and no attempt still under way.
AtRest(i) == /\ row[i].state \in {"running", "stopped"}
             /\ row[i].action = "none" /\ ~row[i].leased

PassBegins ==
    /\ pass.step = "idle"
    /\ \E i \in Instance : AtRest(i)
    /\ pass' = [NoPass EXCEPT
                  !.step = "list",
                  !.todo = {i \in Instance : AtRest(i)},
                  !.was  = [i \in Instance |-> IF AtRest(i) THEN row[i].state
                                                             ELSE "stopped"]]
    /\ UNCHANGED vars

\* Instances without a VM in the pool are passed over.  A settled row keeps the
\* VMID it was read with.
PassLists ==
    /\ pass.step = "list"
    /\ pass' = [pass EXCEPT !.step = "next",
                            !.todo = {i \in @ : row[i].vmid \in Listed},
                            !.on   = {v \in Listed : vm[v].listed}]
    /\ UNCHANGED vars

NextInstance(p) == [p EXCEPT !.step = "next", !.cur = NoInstance, !.live = "stopped",
                             !.todo = @ \ {p.cur},
                             !.was[p.cur] = "stopped"]

\* What follows once the VM is seen in the state the instance has.
Agreed(p) ==
    IF known[p.cur] = Flag(p.was[p.cur] = "running") THEN NextInstance(p)
                                                    ELSE [p EXCEPT !.step = "onboot"]

PassTakes(i) ==
    /\ pass.step = "next" /\ i \in pass.todo
    /\ LET taken == [pass EXCEPT !.cur = i] IN
       pass' = IF PowerState(row[i].vmid \in pass.on) = pass.was[i]
                 THEN Agreed(taken)
                 ELSE [taken EXCEPT !.step = "live"]
    /\ UNCHANGED vars

\* The list trails a power change; the VM's own status is current.
PassLooks ==
    /\ pass.step = "live"
    /\ LET v == row[pass.cur].vmid
           looked == [pass EXCEPT !.live = PowerState(vm[v].on)] IN
       /\ v \in Listed
       /\ pass' = IF looked.live = pass.was[pass.cur] THEN Agreed(looked)
                                                      ELSE [looked EXCEPT !.step = "observe"]
    /\ UNCHANGED vars

\* Mutant: the state is written whatever happened to the row since it was read.
PassOverwrites ==
    /\ pass.step = "observe"
    /\ row' = [row EXCEPT ![pass.cur].state = pass.live]
    /\ pass' = NextInstance(pass)
    /\ UNCHANGED <<quarantine, memory, backend, att>>

\* ObserveState: unless something changed the row first.
PassObserves ==
    /\ pass.step = "observe"
    /\ LET i == pass.cur IN
       row' = [row EXCEPT ![i].state = IF @ = pass.was[i] /\ row[i].action = "none"
                                         THEN pass.live ELSE @]
    /\ pass' = NextInstance(pass)
    /\ UNCHANGED <<quarantine, memory, backend, att>>

PassSetsOnboot ==
    /\ pass.step = "onboot"
    /\ row[pass.cur].vmid \in Listed
    /\ SetOnboot(row[pass.cur].vmid, pass.was[pass.cur] = "running")
    /\ pass' = [pass EXCEPT !.step = "remember"]
    /\ UNCHANGED <<ledger, memory, address, iso, att>>

PassRemembers ==
    /\ pass.step = "remember"
    /\ known' = [known EXCEPT ![pass.cur] = Flag(pass.was[pass.cur] = "running")]
    /\ pass' = NextInstance(pass)
    /\ UNCHANGED <<ledger, admission, backend, att>>

PassEnds ==
    /\ pass.step = "next" /\ pass.todo = {}
    /\ pass' = NoPass
    /\ UNCHANGED vars

\* A failed call ends the pass; a failed onboot write is only logged.
PassFails ==
    /\ \/ pass.step \in {"list", "live", "observe"} /\ pass' = NoPass
       \/ pass.step = "onboot" /\ pass' = NextInstance(pass)
    /\ UNCHANGED vars

PassAdvances ==
    \/ PassBegins \/ PassLists \/ (\E i \in Instance : PassTakes(i)) \/ PassLooks
    \/ PassObserves \/ PassSetsOnboot \/ PassRemembers \/ PassEnds

NextPass ==
    \/ Serve /\ UNCHANGED pass
    \/ Restart /\ pass' = NoPass
    \/ PassAdvances
    \/ PassFails

SpecPass == InitPass /\ [][NextPass]_rvars

-----------------------------------------------------------------------------
(* Fairness: the reconciler ticks for ever and each of its calls ends; the  *)
(* cache is published; the outage ends, and people outside let go.          *)

FairnessPass ==
    /\ WF_rvars(PassAdvances \/ PassFails)
    /\ WF_rvars((Advance \/ WorkerFails \/ RebootFallsBack) /\ UNCHANGED pass)
    /\ \A i \in Instance : /\ SF_rvars(Claim(i) /\ UNCHANGED pass)
                           /\ WF_rvars(LeaseExpires(i) /\ UNCHANGED pass)
    /\ \A v \in Vmid : WF_rvars(CachePublishes(v) /\ UNCHANGED pass)
    /\ <>[][/\ ~AttemptDropped /\ ~Restart
            /\ WorkerFails => ~ENABLED Advance
            /\ PassFails => ~ENABLED PassAdvances
            /\ \A v \in Vmid : ~OutsiderPowers(v)]_rvars

FairSpecPass == SpecPass /\ FairnessPass

-----------------------------------------------------------------------------
(* Properties *)

\* A settled instance whose state is not its VM's.
Disagrees(i) ==
    /\ row[i].state \in {"running", "stopped"} /\ row[i].action = "none"
    /\ row[i].vmid \in Listed
    /\ vm[row[i].vmid].on # (row[i].state = "running")

(* Once people outside and the outage let go, no settled instance keeps a   *)
(* state its VM is not in: not after a power change in the Proxmox UI, nor  *)
(* after an action the worker skipped or gave up on, however the list lags  *)
(* (Reconcile in reconcile.go).                                             *)
StateConverges == \A i \in Instance : Disagrees(i) ~> ~Disagrees(i)

(* A pass only ever moves an instance between running and stopped, and only *)
(* while nothing is pending, so no request or outcome of the worker's that  *)
(* came in between its reads and its write is lost (ObserveState).          *)
ImplementsObserved ==
    /\ \A i \in Instance : Promise(i)!Init
    /\ [][\A i \in Instance : [Promise(i)!Next \/ Promise(i)!Observed]_(Promise(i)!vars)]_rvars

(* A VM that stopped outside the API keeps onboot until its owner starts or *)
(* stops it (the comment in Reconcile).                                     *)
OutsideStopKeepsOnboot ==
    [][\A v \in Vmid :
          vm[v].owner \in Instance /\ vm[v].onboot /\ vm'[v].owner = vm[v].owner
             => vm'[v].onboot \/ (att.inst = vm[v].owner /\ att.verb = "shutdown")]_rvars

\* A settled instance whose VM starts with the host, or not, against its state.
OnbootAstray(i) ==
    /\ row[i].state \in {"running", "stopped"} /\ row[i].action = "none"
    /\ row[i].vmid \in Listed
    /\ vm[row[i].vmid].onboot # (row[i].state = "running")

(* Whether a VM starts with the host follows what its owner asked for       *)
(* (power and setOnboot in worker.go), sooner or later.                     *)
OnbootFollows == \A i \in Instance : OnbootAstray(i) ~> ~OnbootAstray(i)
=============================================================================
