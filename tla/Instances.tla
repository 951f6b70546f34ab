----------------------------- MODULE Instances -----------------------------
(***************************************************************************)
(* The instance lifecycle of the cloud API: requests are admitted in       *)
(* database transactions, and one worker carries them out against Proxmox  *)
(* and NetBox one call at a time, under a lease that outlives a crash.     *)
(*                                                                         *)
(* Every call the worker makes is a step of its own, so a request, a crash *)
(* or an outsider's change may come between any two of them.  A step that  *)
(* fails AFTER its effect took place is the effect followed by WorkerFails *)
(* at the next step: process() handles both alike.                         *)
(***************************************************************************)
EXTENDS Naturals, FiniteSets

CONSTANTS
    Instance,     \* instance IDs a launch may be given (newInstanceID)
    Vmid,         \* site.VMIDFrom .. site.VMIDTo, less the holder and probe VMIDs
    MaxAttempts,  \* Service.MaxAttempts
    UserActions,  \* what users ask for besides launch and terminate
    Outside,      \* what people in the Proxmox UI and guests do: see Outsider
    CacheLag,     \* TRUE: /cluster/resources may trail a power change
    Nobody,       \* no VM has this VMID
    Pooled,       \* a VM the API did not create, in the cloud pool
    Hidden,       \* a VM outside the pool, which the token cannot list
    NoInstance,   \* the worker is idle
    NoVmid

Foreign == {Pooled, Hidden}

ASSUME ConstantsAssumption ==
    /\ Vmid \subseteq Nat
    /\ NoVmid \notin Vmid
    /\ MaxAttempts \in Nat \ {0}
    /\ NoInstance \notin Instance
    /\ Nobody \notin Instance
    /\ Foreign \cap (Instance \cup {Nobody}) = {}
    /\ UserActions \subseteq {"stop", "start", "reboot"}
    /\ Outside \subseteq {"create", "remove", "power"}
    /\ CacheLag \in BOOLEAN

VARIABLES
    row,         \* the instances table
    quarantine,  \* the vmid_quarantine table
    admission,   \* Run handlers in flight, with the VM listing each one read
    vm,          \* Proxmox: who holds each VMID, its power state, and the listed one
    address,     \* NetBox: instances an address carries the ID of
    iso,         \* image store: instances whose seed ISO exists
    known,       \* Service.onboot: the autostart flag this process last wrote
    att          \* the worker's current attempt

ledger   == <<row, quarantine>>
backend  == <<vm, address, iso>>
memory   == <<admission, known>>
vars     == <<row, quarantine, admission, known, vm, address, iso, att>>

-----------------------------------------------------------------------------
(* Types *)

State  == {"absent", "pending", "running", "stopping", "stopped",
           "shutting-down", "terminated"}
Action == {"none", "launch", "start", "stop", "reboot", "terminate"}

\* addr and seed say that netbox_ip_id and seed_volume are recorded.
Row == [state: State, action: Action, attempts: 0..MaxAttempts, leased: BOOLEAN,
        vmid: Vmid \cup {NoVmid}, created: BOOLEAN, addr: BOOLEAN, seed: BOOLEAN]

\* listed is the power state /cluster/resources shows, onboot the autostart flag.
Machine == [owner: Instance \cup Foreign \cup {Nobody}, on: BOOLEAN, listed: BOOLEAN,
            onboot: BOOLEAN]

LaunchStep == {"address", "recordAddress", "seed", "recordSeed", "list", "owns",
               "create", "move", "moved", "recordVM", "boot"}
PowerStep  == {"powerList", "powerOwns", "onboot", "remember", "power"}
EndStep    == {"termList", "termOwns", "termStop", "termDelete", "termSeed",
               "termAddress"}
Step       == LaunchStep \cup PowerStep \cup EndStep \cup {"finish", "idle"}

Verb == {"none", "start", "shutdown", "reboot", "reset"}

\* What the attempt carries in memory: the action and the resource columns it
\* claimed, the VMIDs and the status its last ListVMs reported.
Attempt == [inst: Instance \cup {NoInstance}, action: Action, step: Step, verb: Verb,
            attempts: 0..MaxAttempts,
            vmid: Vmid \cup {NoVmid}, created: BOOLEAN, addr: BOOLEAN, seed: BOOLEAN,
            visible: SUBSET Vmid, seenOn: BOOLEAN]

TypeOK ==
    /\ row \in [Instance -> Row]
    /\ quarantine \subseteq Vmid
    /\ admission \in [Instance -> [asked: BOOLEAN, visible: SUBSET Vmid]]
    /\ vm \in [Vmid -> Machine]
    /\ address \subseteq Instance
    /\ iso \subseteq Instance
    /\ known \in [Instance -> {"unset", "on", "off"}]
    /\ att \in Attempt

-----------------------------------------------------------------------------
(* Initial state *)

NoRow == [state |-> "absent", action |-> "none", attempts |-> 0, leased |-> FALSE,
          vmid |-> NoVmid, created |-> FALSE, addr |-> FALSE, seed |-> FALSE]

NoVM == [owner |-> Nobody, on |-> FALSE, listed |-> FALSE, onboot |-> FALSE]

NotAsked == [asked |-> FALSE, visible |-> {}]

Idle == [inst |-> NoInstance, action |-> "none", step |-> "idle", verb |-> "none",
         attempts |-> 0, vmid |-> NoVmid, created |-> FALSE, addr |-> FALSE, seed |-> FALSE,
         visible |-> {}, seenOn |-> FALSE]

Init ==
    /\ row = [i \in Instance |-> NoRow]
    /\ quarantine = {}
    /\ admission = [i \in Instance |-> NotAsked]
    /\ vm = [v \in Vmid |-> NoVM]
    /\ address = {}
    /\ iso = {}
    /\ known = [i \in Instance |-> "unset"]
    /\ att = Idle

-----------------------------------------------------------------------------
(* What the code reads *)

\* Rows with state <> 'terminated'.
Live(i) == row[i].state \notin {"absent", "terminated"}

Terminating(i) == row[i].action = "terminate"

\* ListVMs: the pool's VMs.
Listed == {v \in Vmid : vm[v].owner \notin {Nobody, Hidden}}

\* Mutants: AllocateVMID trusts the listing for what is held, or forgets the quarantine.
FreeAsListed(skip) == {v \in Vmid : v \notin skip /\ v \notin quarantine}

FreeOfRows(skip) == {v \in Vmid : /\ v \notin skip
                                  /\ \A i \in Instance : Live(i) => row[i].vmid # v}

\* The VMIDs AllocateVMID chooses from, and its choice, the lowest of them.
Free(skip) == {v \in Vmid : /\ v \notin skip
                            /\ \A i \in Instance : Live(i) => row[i].vmid # v
                            /\ v \notin quarantine}

Allocates(skip, v) == v \in Free(skip) /\ \A w \in Free(skip) : v <= w

\* What ListVMs says of a VM's power after a change: pvestatd publishes it at
\* once or, with CacheLag, not yet.
Published(v, on) == IF CacheLag THEN {on, vm[v].listed} ELSE {on}

Switch(v, on) == \E p \in Published(v, on) :
                    vm' = [vm EXCEPT ![v].on = on, ![v].listed = p]

-----------------------------------------------------------------------------
(* API handlers *)

\* Run reads the pool's VMs before its transaction.
RunLists(i) ==
    /\ row[i].state = "absent"
    /\ ~admission[i].asked
    /\ admission' = [admission EXCEPT ![i] = [asked |-> TRUE, visible |-> Listed]]
    /\ UNCHANGED <<ledger, backend, known, att>>

\* Run's transaction, under the capacity lock: the lowest free VMID and the row.
RunAdmits(i) ==
    /\ admission[i].asked
    /\ \E v \in Vmid :
          /\ Allocates(admission[i].visible, v)
          /\ row' = [row EXCEPT ![i] = [NoRow EXCEPT !.state = "pending",
                                                     !.action = "launch",
                                                     !.vmid = v]]
    /\ admission' = [admission EXCEPT ![i] = NotAsked]
    /\ UNCHANGED <<quarantine, backend, known, att>>

\* InsufficientInstanceCapacity: no VMID is free.
RunRefused(i) ==
    /\ admission[i].asked
    /\ Free(admission[i].visible) = {}
    /\ admission' = [admission EXCEPT ![i] = NotAsked]
    /\ UNCHANGED <<ledger, backend, known, att>>

SetAction(i, state, action) ==
    /\ row' = [row EXCEPT ![i].state = state, ![i].action = action, ![i].attempts = 0]
    /\ UNCHANGED <<quarantine, memory, backend, att>>

\* Request: what a user may ask for, and when.  A terminate replaces whatever
\* is pending and leaves the lease with the attempt that holds it.
RequestTerminate(i) ==
    /\ Live(i) /\ ~Terminating(i)
    /\ SetAction(i, "shutting-down", "terminate")

RequestStop(i) ==
    /\ "stop" \in UserActions
    /\ row[i].state = "running" /\ row[i].action = "none"
    /\ SetAction(i, "stopping", "stop")

RequestStart(i) ==
    /\ "start" \in UserActions
    /\ row[i].state = "stopped" /\ row[i].action = "none"
    /\ SetAction(i, "pending", "start")

RequestReboot(i) ==
    /\ "reboot" \in UserActions
    /\ row[i].state = "running" /\ row[i].action = "none"
    /\ SetAction(i, "running", "reboot")

-----------------------------------------------------------------------------
(* The worker: claiming, finishing and failing *)

\* Where launch resumes: each result already recorded is skipped.
LaunchFrom(r) == IF ~r.addr THEN "address"
                 ELSE IF ~r.seed THEN "seed"
                 ELSE IF ~r.created THEN "list"
                 ELSE "boot"

FirstStep(r) == CASE r.action = "launch"    -> LaunchFrom(r)
                  [] r.action = "terminate" -> "termList"
                  [] OTHER                  -> "powerList"

VerbOf(action) == CASE action = "start"  -> "start"
                    [] action = "stop"   -> "shutdown"
                    [] action = "reboot" -> "reboot"
                    [] OTHER             -> "none"

\* Mutant: a row that used up its attempts is not claimed again, a terminate included.
ClaimUntilMax(i) ==
    /\ att = Idle
    /\ row[i].action # "none" /\ ~row[i].leased /\ row[i].attempts < MaxAttempts
    /\ row' = [row EXCEPT ![i].leased = TRUE]
    /\ att' = [inst |-> i, action |-> row[i].action, step |-> FirstStep(row[i]),
               verb |-> VerbOf(row[i].action), attempts |-> row[i].attempts,
               vmid |-> row[i].vmid, created |-> row[i].created,
               addr |-> row[i].addr, seed |-> row[i].seed,
               visible |-> {}, seenOn |-> FALSE]
    /\ UNCHANGED <<quarantine, memory, backend>>

\* ClaimWork leases a due row and hands its columns to one attempt.
Claim(i) ==
    /\ att = Idle
    /\ row[i].action # "none" /\ ~row[i].leased
    /\ row' = [row EXCEPT ![i].leased = TRUE]
    /\ att' = [inst |-> i, action |-> row[i].action, step |-> FirstStep(row[i]),
               verb |-> VerbOf(row[i].action), attempts |-> row[i].attempts,
               vmid |-> row[i].vmid, created |-> row[i].created,
               addr |-> row[i].addr, seed |-> row[i].seed,
               visible |-> {}, seenOn |-> FALSE]
    /\ UNCHANGED <<quarantine, memory, backend>>

\* Mutant: a step may take longer than the lease it works under.
LeaseRunsOut(i) ==
    /\ row[i].leased
    /\ row' = [row EXCEPT ![i].leased = FALSE]
    /\ UNCHANGED <<quarantine, memory, backend, att>>

\* A worker that died left its lease behind; it runs out.
LeaseExpires(i) ==
    /\ row[i].leased /\ att.inst # i
    /\ row' = [row EXCEPT ![i].leased = FALSE]
    /\ UNCHANGED <<quarantine, memory, backend, att>>

Outcome(action) == CASE action = "stop"      -> "stopped"
                     [] action = "terminate" -> "terminated"
                     [] OTHER                -> "running"

\* Whether the action the attempt carries out is still the one asked for.
StillAsked == row[att.inst].action = att.action

Settled(r, state) == [r EXCEPT !.state = state, !.action = "none", !.attempts = 0,
                               !.leased = FALSE]

Released(r) == [r EXCEPT !.leased = FALSE]

Bump(n) == IF n < MaxAttempts THEN n + 1 ELSE MaxAttempts

\* Mutant: FinishAction does not look whether its action was replaced.
FinishRegardless ==
    /\ att.step = "finish"
    /\ row' = [row EXCEPT ![att.inst] = Settled(@, Outcome(att.action))]
    /\ att' = Idle
    /\ UNCHANGED <<quarantine, memory, backend>>

\* FinishAction, which only releases the lease of an action replaced meanwhile.
Finish ==
    /\ att.step = "finish"
    /\ row' = [row EXCEPT ![att.inst] = IF StillAsked THEN Settled(@, Outcome(att.action))
                                                      ELSE Released(@)]
    /\ att' = Idle
    /\ UNCHANGED <<quarantine, memory, backend>>

\* RetryLater.  A terminate retries for ever; its count is capped where it no
\* longer matters.
Retry(r) == IF StillAsked THEN [Released(r) EXCEPT !.attempts = Bump(@)] ELSE Released(r)

\* Mutant: a launch that is given up reads terminated at once.
GiveUpAtOnce(r) == IF ~StillAsked THEN r
                   ELSE Settled(r, IF att.action = "launch" THEN "terminated" ELSE "running")

\* AbandonLaunch and GiveUpAction, which leave a replaced action's row alone,
\* its lease included.
GiveUp(r) ==
    IF ~StillAsked THEN r
    ELSE CASE att.action = "launch" -> [r EXCEPT !.state = "shutting-down", !.attempts = 0,
                                                 !.action = "terminate", !.leased = FALSE]
           [] att.action = "start"  -> Settled(r, "stopped")
           [] OTHER                 -> Settled(r, "running")

\* Mutant: a terminate is given up like anything else.
MayRetryAlike == att.attempts + 1 < MaxAttempts

MayRetry == att.attempts + 1 < MaxAttempts \/ att.action = "terminate"

\* Any call before FinishAction returns an error.
WorkerFails ==
    /\ att.step \notin {"idle", "finish"}
    /\ att.verb # "reboot"
    /\ row' = [row EXCEPT ![att.inst] = IF MayRetry THEN Retry(@) ELSE GiveUp(@)]
    /\ att' = Idle
    /\ UNCHANGED <<quarantine, memory, backend>>

\* A reboot that fails anywhere is tried once more as a reset.
RebootFallsBack ==
    /\ att.verb = "reboot" /\ att.step \in PowerStep
    /\ att' = [att EXCEPT !.verb = "reset", !.step = "powerList", !.seenOn = FALSE]
    /\ UNCHANGED <<ledger, memory, backend>>

\* Mutant: an attempt that lost its row goes on.
AttemptGoesOnWithoutRow ==
    /\ att.step # "idle"
    /\ att' = [att EXCEPT !.inst = NoInstance]
    /\ UNCHANGED <<ledger, memory, backend>>

\* FinishAction or RetryLater cannot reach the database: the attempt is over
\* and its lease stays.
AttemptDropped ==
    /\ att.step # "idle"
    /\ att' = Idle
    /\ UNCHANGED <<ledger, memory, backend>>

\* The process ends and is started again.  With a shutdown signal it returns
\* the lease of its attempt, killed it does not; what it remembers is gone.
Restart ==
    /\ \/ att # Idle /\ row' = [row EXCEPT ![att.inst] = Released(@)]
       \/ UNCHANGED row
    /\ att' = Idle
    /\ admission' = [i \in Instance |-> NotAsked]
    /\ known' = [i \in Instance |-> "unset"]
    /\ UNCHANGED <<quarantine, backend>>

-----------------------------------------------------------------------------
(* The worker: launch *)

\* address: the one an interrupted attempt took, or a new one.
TakeAddress ==
    /\ att.step = "address"
    /\ address' = address \cup {att.inst}
    /\ att' = [att EXCEPT !.addr = TRUE, !.step = "recordAddress"]
    /\ UNCHANGED <<ledger, memory, vm, iso>>

\* Mutant: the address column is left out.
RecordedInPart(r, a) == [r EXCEPT !.vmid = a.vmid, !.created = a.created, !.seed = a.seed]

\* RecordResources writes every resource column from the attempt's copy.
Recorded(r, a) == [r EXCEPT !.vmid = a.vmid, !.created = a.created,
                            !.addr = a.addr, !.seed = a.seed]

Record(a) ==
    /\ row' = [row EXCEPT ![att.inst] = Recorded(@, a)]
    /\ att' = [a EXCEPT !.step = LaunchFrom(a)]
    /\ UNCHANGED <<quarantine, memory, backend>>

RecordAddress == att.step = "recordAddress" /\ Record(att)

\* uploadSeed deletes what an attempt that died may have left under the name.
ClearSeed ==
    /\ att.step = "seed" /\ att.inst \in iso
    /\ iso' = iso \ {att.inst}
    /\ UNCHANGED <<ledger, memory, vm, address, att>>

UploadSeed ==
    /\ att.step = "seed" /\ att.inst \notin iso
    /\ iso' = iso \cup {att.inst}
    /\ att' = [att EXCEPT !.seed = TRUE, !.step = "recordSeed"]
    /\ UNCHANGED <<ledger, memory, vm, address>>

RecordSeed == att.step = "recordSeed" /\ Record(att)

\* createVM lists the pool, and looks closer at a VM already on its VMID.
ListBeforeCreate ==
    /\ att.step = "list"
    /\ att' = [att EXCEPT !.visible = Listed,
                          !.step = IF att.vmid \in Listed THEN "owns" ELSE "create"]
    /\ UNCHANGED <<ledger, memory, backend>>

\* Mutant: whatever VM is there is taken for somebody else's.
MoveOffAnyVM ==
    /\ att.step = "owns"
    /\ vm[att.vmid].owner \notin {Nobody, Hidden}
    /\ att' = [att EXCEPT !.step = "move"]
    /\ UNCHANGED <<ledger, memory, backend>>

\* Owned: an earlier attempt created it.  Not owned: the VMID is taken.
CheckBeforeCreate ==
    /\ att.step = "owns"
    /\ vm[att.vmid].owner \notin {Nobody, Hidden}
    /\ IF vm[att.vmid].owner = att.inst
         THEN att' = [att EXCEPT !.visible = {}, !.created = TRUE, !.step = "recordVM"]
         ELSE att' = [att EXCEPT !.step = "move"]
    /\ UNCHANGED <<ledger, memory, backend>>

CreateVM ==
    /\ att.step = "create"
    /\ vm[att.vmid].owner = Nobody
    /\ vm' = [vm EXCEPT ![att.vmid] = [NoVM EXCEPT !.owner = att.inst,
                                                   !.onboot = TRUE]]
    /\ att' = [att EXCEPT !.visible = {}, !.created = TRUE, !.step = "recordVM"]
    /\ UNCHANGED <<ledger, memory, address, iso>>

\* "already exists": taken, by a VM the listing may not have shown.
CreateRefused ==
    /\ att.step = "create"
    /\ vm[att.vmid].owner # Nobody
    /\ att' = [att EXCEPT !.step = "move"]
    /\ UNCHANGED <<ledger, memory, backend>>

\* moveVMID's transaction.  It then returns an error, so only WorkerFails or
\* the end of the process follows.
MoveVmid ==
    /\ att.step = "move"
    /\ \E v \in Vmid :
          /\ Allocates(att.visible \cup {att.vmid}, v)
          /\ row' = [row EXCEPT ![att.inst] = Recorded(@, [att EXCEPT !.vmid = v])]
          /\ att' = [att EXCEPT !.vmid = v, !.visible = {}, !.step = "moved"]
    /\ quarantine' = quarantine \cup {att.vmid}
    /\ UNCHANGED <<memory, backend>>

RecordVM == att.step = "recordVM" /\ Record(att)

\* growDisk, writeFirewall, the VM's own status, and start unless it runs.
Boot ==
    /\ att.step = "boot"
    /\ vm[att.vmid].owner \notin {Nobody, Hidden}
    /\ IF vm[att.vmid].on THEN UNCHANGED vm ELSE Switch(att.vmid, TRUE)
    /\ att' = [att EXCEPT !.step = "finish"]
    /\ UNCHANGED <<ledger, memory, address, iso>>

-----------------------------------------------------------------------------
(* The worker: start, stop and reboot *)

PowerLists ==
    /\ att.step = "powerList"
    /\ att.created /\ att.vmid \in Listed
    /\ att' = [att EXCEPT !.seenOn = vm[att.vmid].listed, !.step = "powerOwns"]
    /\ UNCHANGED <<ledger, memory, backend>>

PowerOwns ==
    /\ att.step = "powerOwns"
    /\ vm[att.vmid].owner = att.inst
    /\ att' = [att EXCEPT !.step = IF att.verb \in {"start", "shutdown"} THEN "onboot"
                                                                      ELSE "power"]
    /\ UNCHANGED <<ledger, memory, backend>>

\* setOnboot writes the VM's flag, then takes the lock to remember it.
SetOnboot(v, on) == vm' = [vm EXCEPT ![v].onboot = on]

Flag(on) == IF on THEN "on" ELSE "off"

PowerOnboot ==
    /\ att.step = "onboot"
    /\ vm[att.vmid].owner \notin {Nobody, Hidden}
    /\ SetOnboot(att.vmid, att.verb = "start")
    /\ att' = [att EXCEPT !.step = "remember"]
    /\ UNCHANGED <<ledger, memory, address, iso>>

PowerRemembers ==
    /\ att.step = "remember"
    /\ known' = [known EXCEPT ![att.inst] = Flag(att.verb = "start")]
    /\ att' = [att EXCEPT !.step = "power"]
    /\ UNCHANGED <<ledger, admission, backend>>

\* What the listing says is already so is not asked of Proxmox again.
AlreadySo == \/ att.verb = "start" /\ att.seenOn
             \/ att.verb = "shutdown" /\ ~att.seenOn

Power ==
    /\ att.step = "power"
    /\ vm[att.vmid].owner \notin {Nobody, Hidden}
    /\ IF AlreadySo THEN UNCHANGED vm ELSE Switch(att.vmid, att.verb # "shutdown")
    /\ att' = [att EXCEPT !.seenOn = FALSE, !.step = "finish"]
    /\ UNCHANGED <<ledger, memory, address, iso>>

-----------------------------------------------------------------------------
(* The worker: terminate *)

AfterVM(a) == IF a.seed THEN "termSeed" ELSE "termAddress"

TermLists ==
    /\ att.step = "termList"
    /\ IF att.vmid \in Listed
         THEN att' = [att EXCEPT !.seenOn = vm[att.vmid].listed, !.step = "termOwns"]
         ELSE att' = [att EXCEPT !.step = AfterVM(att)]
    /\ UNCHANGED <<ledger, memory, backend>>

\* Mutant: the VM on the recorded VMID is taken for the instance's.
TermTrustsVmid ==
    /\ att.step = "termOwns"
    /\ vm[att.vmid].owner \notin {Nobody, Hidden}
    /\ att' = [att EXCEPT !.seenOn = FALSE,
                          !.step = IF att.seenOn THEN "termStop" ELSE "termDelete"]
    /\ UNCHANGED <<ledger, memory, backend>>

\* A VM that does not carry the instance's ID is left alone.
TermOwns ==
    /\ att.step = "termOwns"
    /\ vm[att.vmid].owner \notin {Nobody, Hidden}
    /\ att' = [att EXCEPT !.seenOn = FALSE,
                          !.step = IF vm[att.vmid].owner # att.inst THEN AfterVM(att)
                                   ELSE IF att.seenOn THEN "termStop"
                                   ELSE "termDelete"]
    /\ UNCHANGED <<ledger, memory, backend>>

TermStop ==
    /\ att.step = "termStop"
    /\ vm[att.vmid].owner \notin {Nobody, Hidden}
    /\ Switch(att.vmid, FALSE)
    /\ att' = [att EXCEPT !.step = "termDelete"]
    /\ UNCHANGED <<ledger, memory, address, iso>>

TermDelete ==
    /\ att.step = "termDelete"
    /\ vm[att.vmid].owner \notin {Nobody, Hidden}
    /\ vm' = [vm EXCEPT ![att.vmid] = NoVM]
    /\ att' = [att EXCEPT !.step = AfterVM(att)]
    /\ UNCHANGED <<ledger, memory, address, iso>>

TermSeed ==
    /\ att.step = "termSeed"
    /\ iso' = iso \ {att.inst}
    /\ att' = [att EXCEPT !.step = "termAddress"]
    /\ UNCHANGED <<ledger, memory, vm, address>>

\* Mutant: only an address that was recorded is released.
TermAddressOnRecord ==
    /\ att.step = "termAddress"
    /\ address' = IF att.addr THEN address \ {att.inst} ELSE address
    /\ att' = [att EXCEPT !.step = "finish"]
    /\ UNCHANGED <<ledger, memory, vm, iso>>

\* Every address that carries the instance's ID.
TermAddress ==
    /\ att.step = "termAddress"
    /\ address' = address \ {att.inst}
    /\ att' = [att EXCEPT !.step = "finish"]
    /\ UNCHANGED <<ledger, memory, vm, iso>>

-----------------------------------------------------------------------------
(* The world outside *)

OutsiderCreates(v) ==
    /\ "create" \in Outside
    /\ vm[v].owner = Nobody
    /\ \E o \in Foreign :
          vm' = [vm EXCEPT ![v] = [NoVM EXCEPT !.owner = o, !.on = TRUE, !.listed = TRUE]]
    /\ UNCHANGED <<ledger, memory, address, iso, att>>

OutsiderRemoves(v) ==
    /\ "remove" \in Outside
    /\ vm[v].owner \in Instance
    /\ vm' = [vm EXCEPT ![v] = NoVM]
    /\ UNCHANGED <<ledger, memory, address, iso, att>>

OutsiderPowers(v) ==
    /\ "power" \in Outside
    /\ vm[v].owner \in Instance
    /\ Switch(v, ~vm[v].on)
    /\ UNCHANGED <<ledger, memory, address, iso, att>>

CachePublishes(v) ==
    /\ vm[v].listed # vm[v].on
    /\ vm' = [vm EXCEPT ![v].listed = vm[v].on]
    /\ UNCHANGED <<ledger, memory, address, iso, att>>

-----------------------------------------------------------------------------
(* The specification *)

Api(i) == \/ RunLists(i) \/ RunAdmits(i) \/ RunRefused(i)
          \/ RequestTerminate(i) \/ RequestStop(i) \/ RequestStart(i) \/ RequestReboot(i)

\* What the attempt does when every call succeeds.
Advance ==
    \/ TakeAddress \/ RecordAddress \/ ClearSeed \/ UploadSeed \/ RecordSeed
    \/ ListBeforeCreate \/ CheckBeforeCreate \/ CreateVM \/ CreateRefused \/ MoveVmid
    \/ RecordVM \/ Boot
    \/ PowerLists \/ PowerOwns \/ PowerOnboot \/ PowerRemembers \/ Power
    \/ TermLists \/ TermOwns \/ TermStop \/ TermDelete \/ TermSeed \/ TermAddress
    \/ Finish

\* Everything the worker's goroutine does once it has claimed a row.
Worker == Advance \/ WorkerFails \/ RebootFallsBack \/ AttemptDropped

Environment(v) ==
    OutsiderCreates(v) \/ OutsiderRemoves(v) \/ OutsiderPowers(v) \/ CachePublishes(v)

Serve ==
    \/ \E i \in Instance : Api(i) \/ Claim(i) \/ LeaseExpires(i)
    \/ Worker
    \/ \E v \in Vmid : Environment(v)

Next == Serve \/ Restart

Spec == Init /\ [][Next]_vars

-----------------------------------------------------------------------------
(* Fairness: the worker's goroutine runs and every call of an attempt ends  *)
(* (stepCtx); ClaimWork serves rows in the order they fell due, so no row   *)
(* is passed over for ever; and a lease runs out.  Failures are not bounded *)
(* in number, but an outage ends: from some time on an attempt fails only   *)
(* where no call of its could succeed, and the process is not restarted.    *)

OutageEnds == <>[][/\ ~AttemptDropped /\ ~Restart
                   /\ WorkerFails => ~ENABLED Advance]_vars

Fairness ==
    /\ WF_vars(Advance \/ WorkerFails \/ RebootFallsBack)
    /\ \A i \in Instance : SF_vars(Claim(i)) /\ WF_vars(LeaseExpires(i))
    /\ OutageEnds

FairSpec == Spec /\ Fairness

-----------------------------------------------------------------------------
(* Properties *)

(* Every VM that carries an instance's ID sits on the VMID its row records, *)
(* and the row is not terminated: a launch that crashes, fails or moves to  *)
(* another VMID never makes a second VM, and a terminate at any point finds *)
(* the one there is ("a crash at any point resumes rather than duplicates", *)
(* launch in worker.go).                                                    *)
VMIsTracked ==
    \A v \in Vmid, i \in Instance :
        vm[v].owner = i => row[i].vmid = v /\ Live(i)

(* An address that carries an instance's ID belongs to a live instance: the *)
(* one taken by an attempt that crashed before recording it included        *)
(* (terminate in worker.go).                                                *)
AddressIsTracked == \A i \in address : Live(i)

(* No two live instances hold one VMID, across admissions that read the     *)
(* pool before their transaction and launches that move to another VMID.    *)
VmidHeldOnce ==
    \A i, j \in Instance :
        i # j /\ Live(i) /\ Live(j) => row[i].vmid # row[j].vmid

(* A quarantined VMID is never handed out again (vmid_quarantine in          *)
(* 0002_instances.sql), to the instance that moved off it or to another.     *)
QuarantineKept == \A i \in Instance : Live(i) => row[i].vmid \notin quarantine

(* An instance a user is shown as launched has all the things it was          *)
(* launched with: RecordResources, which writes every column from a copy,     *)
(* never loses one, and no retry, replaced action or crash leaves a gap.      *)
LaunchedIsWhole ==
    \A i \in Instance :
        row[i].state \in {"running", "stopping", "stopped"} =>
            /\ row[i].created /\ vm[row[i].vmid].owner = i
            /\ row[i].addr /\ i \in address
            /\ row[i].seed /\ i \in iso

(* The worker only works on a row whose lease it holds, so ClaimWork can     *)
(* never hand the row to another attempt.                                    *)
WorksUnderLease == \A i \in Instance : att.inst = i => row[i].leased

(* A VM the API did not create is never started, stopped, reconfigured or    *)
(* deleted, on the VMID of an instance or not (terminate and createVM in        *)
(* worker.go).                                                               *)
ForeignUntouched ==
    [][\A v \in Vmid : vm[v].owner \in Foreign =>
          /\ vm'[v].owner = vm[v].owner
          /\ vm'[v].on = vm[v].on /\ vm'[v].onboot = vm[v].onboot]_vars

(* Each instance keeps the lifecycle the API promises, releasing what it     *)
(* holds before it reads terminated.                                         *)
Promise(i) == INSTANCE Lifecycle WITH
    state <- row[i].state, action <- row[i].action,
    holds <- i \in address \/ \E v \in Vmid : vm[v].owner = i

ImplementsLifecycle ==
    /\ \A i \in Instance : Promise(i)!Init
    /\ [][\A i \in Instance : [Promise(i)!Next]_(Promise(i)!vars)]_vars

(* A terminate, asked for at any moment, is carried out: it is retried until *)
(* it succeeds (process in worker.go).                                       *)
TerminateCompletes ==
    \A i \in Instance : row[i].action = "terminate" ~> row[i].state = "terminated"

(* No action stays pending for ever, whatever fails, crashes or replaces it. *)
ActionSettles ==
    \A i \in Instance : row[i].action # "none" ~> row[i].action = "none"

(* The seed ISO is released before an instance reads terminated (the API     *)
(* description of TerminateInstance).                                        *)
SeedReleased == \A i \in iso : Live(i)

(* With nobody else touching the VM, an instance that has been stopped is    *)
(* off and one that has been started is on, whatever pvestatd's cache showed *)
(* meanwhile (power in worker.go; "the VM's own status is current",          *)
(* reconcile.go).                                                            *)
PowerIsCarriedOut ==
    [][Finish /\ StillAsked /\ att.action \in {"start", "stop"} =>
          vm[att.vmid].on = (att.action = "start")]_vars

-----------------------------------------------------------------------------
(* The inductive invariant behind the first of these                        *)

\* A row is admitted once, and is live while anything is asked of it.
RowsAreSound ==
    \A i \in Instance :
        /\ admission[i].asked => row[i].state = "absent"
        /\ row[i].action # "none" => Live(i)
        /\ Live(i) => row[i].vmid \in Vmid

\* An attempt has the lease and the VMID of a row of which something is asked.
AttemptIsSound ==
    IF att.inst = NoInstance THEN att.step = "idle"
    ELSE /\ att.step # "idle" /\ att.action # "none"
         /\ row[att.inst].leased /\ row[att.inst].action # "none"
         /\ att.vmid = row[att.inst].vmid
         /\ att.step # "finish" => (att.action = "terminate" <=> att.step \in EndStep)

\* What an attempt knows, at some of its steps, about what Proxmox and NetBox hold.
AttemptKnows ==
    /\ att.step \in {"create", "move", "termSeed", "termAddress"}
          => vm[att.vmid].owner # att.inst
    /\ att.step = "finish" /\ att.action = "terminate"
          => vm[att.vmid].owner # att.inst /\ att.inst \notin address

(* The invariant that makes the ones above inductive: what a crash between   *)
(* any two calls leaves behind is always what the rows say.                  *)
Consistent ==
    /\ TypeOK /\ RowsAreSound /\ AttemptIsSound /\ AttemptKnows
    /\ VmidHeldOnce /\ QuarantineKept /\ VMIsTracked /\ AddressIsTracked
=============================================================================
