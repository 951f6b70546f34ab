------------------------------ MODULE Ledger ------------------------------
(***************************************************************************)
(* The NetBox mirror.  One goroutine (RunLedger) reads the rows of the     *)
(* instances, gives the addresses of adopted ones to NetBox, and makes     *)
(* NetBox list one virtual machine per instance that has an address.       *)
(* While a pass works on what it read, instances are launched, adopted,    *)
(* renamed, stopped and terminated.  A pass is started by a wake-up, which *)
(* may be lost, or by the timer, which always comes.                       *)
(***************************************************************************)
EXTENDS Integers, FiniteSets

CONSTANTS Mirrored,   \* instances
          Foreign,    \* tagged entries whose names are no instance IDs
          Title,      \* display names
          MaxEvents,  \* bound on what happens to instances
          MaxFaults   \* bound on failing calls and restarts

ASSUME LedgerAssumption ==
    /\ Mirrored \cap Foreign = {} /\ Title # {}
    /\ MaxEvents \in Nat /\ MaxFaults \in Nat

VARIABLES vm,       \* the rows
          entry,    \* NetBox's virtual machines carrying the tag
          address,  \* NetBox's addresses carrying the tag, by their description
          sync,     \* the pass
          woken,    \* ledgerWake holds a request
          events, faults

ledgervars == <<vm, entry, address, sync, woken, events, faults>>

Life == {"none", "pending", "running", "stopped", "ending", "released", "terminated"}

\* ip: the row names an address of NetBox; brought: adopted, with its own.
VmRow == [life: Life, brought: BOOLEAN, ip: BOOLEAN, title: Title]

Entry == [there: BOOLEAN, active: BOOLEAN, title: Title, primary: BOOLEAN]

Address == [there: BOOLEAN, dns: Title]

PassStep == {"wait", "adopt", "entries", "names", "sweep"}

Pass == [step: PassStep, rows: [Mirrored -> VmRow], seen: SUBSET (Mirrored \cup Foreign),
         todo: SUBSET Mirrored, linking: SUBSET Mirrored]

TypeOKLedger ==
    /\ vm \in [Mirrored -> VmRow]
    /\ entry \in [Mirrored \cup Foreign -> Entry]
    /\ address \in [Mirrored -> Address]
    /\ sync \in Pass
    /\ woken \in BOOLEAN /\ events \in 0..MaxEvents /\ faults \in 0..MaxFaults

Untitled == CHOOSE t \in Title : TRUE

NoVm == [life |-> "none", brought |-> FALSE, ip |-> FALSE, title |-> Untitled]
NoEntry == [there |-> FALSE, active |-> FALSE, title |-> Untitled, primary |-> FALSE]

Waiting == [step |-> "wait", rows |-> [i \in Mirrored |-> NoVm], seen |-> {},
            todo |-> {}, linking |-> {}]

\* The API may find instances it mirrored before it was restarted.
InitLedger ==
    \E known \in SUBSET Mirrored :
       /\ vm = [i \in Mirrored |-> IF i \in known
                  THEN [NoVm EXCEPT !.life = "running", !.ip = TRUE] ELSE NoVm]
       /\ entry = [n \in Mirrored \cup Foreign |-> IF n \in known
                     THEN [NoEntry EXCEPT !.there = TRUE, !.active = TRUE, !.primary = TRUE]
                     ELSE [NoEntry EXCEPT !.there = n \in Foreign]]
       /\ address = [i \in Mirrored |-> [there |-> i \in known, dns |-> Untitled]]
       /\ sync = Waiting /\ woken = FALSE /\ events = 0 /\ faults = 0

-----------------------------------------------------------------------------
(* What happens to instances meanwhile (see Instances and Admission) *)

Event(wakes) == /\ events < MaxEvents /\ events' = events + 1
                /\ woken' = (woken \/ wakes)
                /\ UNCHANGED <<sync, faults>>

Launches(i, t) ==
    /\ vm[i].life = "none"
    /\ vm' = [vm EXCEPT ![i] = [NoVm EXCEPT !.life = "pending", !.title = t]]
    /\ Event(FALSE) /\ UNCHANGED <<entry, address>>

Adopts(i, t) ==
    /\ vm[i].life = "none"
    /\ vm' = [vm EXCEPT ![i] = [NoVm EXCEPT !.life = "running", !.title = t, !.brought = TRUE]]
    /\ Event(FALSE) /\ UNCHANGED <<entry, address>>

\* The worker's address step, then the end of the launch.
TakesAddress(i) ==
    /\ vm[i].life = "pending" /\ ~vm[i].ip
    /\ vm' = [vm EXCEPT ![i].ip = TRUE]
    /\ address' = [address EXCEPT ![i] = [there |-> TRUE, dns |-> vm[i].title]]
    /\ Event(FALSE) /\ UNCHANGED entry

\* An action ends, or the reconciler saw the VM stop or start.
Settles(i, life) ==
    /\ \/ vm[i].life = "pending" /\ vm[i].ip /\ life = "running"
       \/ vm[i].life \in {"running", "stopped"} /\ life \in {"running", "stopped"} \ {vm[i].life}
    /\ vm' = [vm EXCEPT ![i].life = life]
    /\ Event(TRUE) /\ UNCHANGED <<entry, address>>

Renames(i, t) ==
    /\ vm[i].life \in {"pending", "running", "stopped"} /\ vm[i].title # t
    /\ vm' = [vm EXCEPT ![i].title = t]
    /\ Event(TRUE) /\ UNCHANGED <<entry, address>>

AsksEnd(i) ==
    /\ vm[i].life \in {"pending", "running", "stopped"}
    /\ vm' = [vm EXCEPT ![i].life = "ending"]
    /\ Event(FALSE) /\ UNCHANGED <<entry, address>>

\* The worker releases the address; NetBox clears the primary address with it.
ReleasesAddress(i) ==
    /\ vm[i].life = "ending"
    /\ vm' = [vm EXCEPT ![i].life = "released"]
    /\ address' = [address EXCEPT ![i].there = FALSE]
    /\ entry' = [entry EXCEPT ![i].primary = FALSE]
    /\ Event(FALSE)

EndsVm(i) ==
    /\ vm[i].life = "released"
    /\ vm' = [vm EXCEPT ![i].life = "terminated"]
    /\ Event(TRUE) /\ UNCHANGED <<entry, address>>

-----------------------------------------------------------------------------
(* One pass: SyncLedger *)

Quiet == UNCHANGED <<vm, events, faults>>

\* Mutant: the rows of the instances nothing is being done to.
SettledOnly(row) == row.life \in {"running", "stopped"}

\* UnterminatedInstances
Existing(row) == row.life \notin {"none", "terminated"}

Addressless(rows) == {i \in Mirrored : Existing(rows[i]) /\ rows[i].brought /\ ~rows[i].ip}

\* RunLedger: a wake-up or the timer.
StartsPass ==
    /\ sync.step = "wait" /\ woken' = FALSE
    /\ sync' = [Waiting EXCEPT !.step = "adopt", !.rows = vm, !.todo = Addressless(vm)]
    /\ Quiet /\ UNCHANGED <<entry, address>>

\* recordAdoptedAddresses: NetBox's entry under the instance's ID is reused; the
\* row is written whatever has become of the instance.
RecordsAdopted(i) ==
    /\ sync.step = "adopt" /\ i \in sync.todo
    /\ address' = IF address[i].there THEN address
                  ELSE [address EXCEPT ![i] = [there |-> TRUE, dns |-> sync.rows[i].title]]
    /\ vm' = [vm EXCEPT ![i].ip = TRUE]
    /\ sync' = [sync EXCEPT !.todo = @ \ {i}, !.rows[i].ip = TRUE]
    /\ UNCHANGED <<entry, woken, events, faults>>

ToRegister(rows) == {i \in Mirrored : Existing(rows[i]) /\ rows[i].ip}

\* VMsByTag
ListsEntries ==
    /\ sync.step = "adopt" /\ sync.todo = {}
    /\ sync' = [sync EXCEPT !.step = "entries", !.todo = ToRegister(sync.rows),
                            !.seen = {n \in DOMAIN entry : entry[n].there}]
    /\ Quiet /\ UNCHANGED <<entry, address, woken>>

Written(i) == [entry[i] EXCEPT !.there = TRUE, !.active = sync.rows[i].life = "running",
                               !.title = sync.rows[i].title]

\* Mutant: an entry that says the right things is left at that.
RegistersChanged(i) ==
    /\ sync.step = "entries" /\ i \in sync.todo /\ sync.linking = {}
    /\ entry' = [entry EXCEPT ![i] = Written(i)]
    /\ sync' = IF entry[i] = Written(i) THEN [sync EXCEPT !.todo = @ \ {i}]
               ELSE [sync EXCEPT !.linking = {i}]
    /\ Quiet /\ UNCHANGED <<address, woken>>

\* registerInstance: the entry is made, or corrected when it differs; then its
\* primary address is looked at, whatever was done.
Registers(i) ==
    /\ sync.step = "entries" /\ i \in sync.todo /\ sync.linking = {}
    /\ entry' = [entry EXCEPT ![i] = Written(i)]
    /\ sync' = [sync EXCEPT !.linking = {i}]
    /\ Quiet /\ UNCHANGED <<address, woken>>

\* EnsureVMInterface, AssignIP, SetPrimaryIP; an address that is gone fails them.
Links(i) ==
    /\ sync.linking = {i}
    /\ entry' = [entry EXCEPT ![i].primary = @ \/ address[i].there]
    /\ sync' = [sync EXCEPT !.linking = {}, !.todo = @ \ {i}]
    /\ Quiet /\ UNCHANGED <<address, woken>>

AllRegistered ==
    /\ sync.step = "entries" /\ sync.todo = {}
    /\ sync' = [sync EXCEPT !.step = "names", !.todo = ToRegister(sync.rows)]
    /\ Quiet /\ UNCHANGED <<entry, address, woken>>

\* syncDNSNames
Names(i) ==
    /\ sync.step = "names" /\ i \in sync.todo
    /\ address' = IF address[i].there THEN [address EXCEPT ![i].dns = sync.rows[i].title]
                  ELSE address
    /\ sync' = [sync EXCEPT !.todo = @ \ {i}]
    /\ Quiet /\ UNCHANGED <<entry, woken>>

AllNamed ==
    /\ sync.step = "names" /\ sync.todo = {}
    /\ sync' = [sync EXCEPT !.step = "sweep"]
    /\ Quiet /\ UNCHANGED <<entry, address, woken>>

\* Entries that were registered, are named like instances and are of none.
Orphans == {n \in sync.seen : n \in Mirrored /\ ~Existing(sync.rows[n])}

RemovesEntry(n) ==
    /\ sync.step = "sweep" /\ n \in Orphans
    /\ entry' = [entry EXCEPT ![n] = NoEntry]
    /\ sync' = [sync EXCEPT !.seen = @ \ {n}]
    /\ Quiet /\ UNCHANGED <<address, woken>>

EndsPass ==
    /\ sync.step = "sweep" /\ Orphans = {}
    /\ sync' = Waiting
    /\ Quiet /\ UNCHANGED <<entry, address, woken>>

Fault == faults < MaxFaults /\ faults' = faults + 1 /\ UNCHANGED <<vm, events>>

\* One instance's call fails: it is noted, and the pass goes on.  Recording an
\* adopted address may have made it in NetBox already.
InstanceFails(i) ==
    /\ i \in sync.todo /\ Fault
    /\ address' \in {address} \cup
          (IF sync.step = "adopt" /\ ~address[i].there
           THEN {[address EXCEPT ![i] = [there |-> TRUE, dns |-> sync.rows[i].title]]} ELSE {})
    /\ sync' = [sync EXCEPT !.todo = @ \ {i}, !.linking = @ \ {i}]
    /\ UNCHANGED <<entry, woken>>

\* A list or a removal fails, which ends the pass (names' failing list is passed
\* over); or the API restarts, and the wake-up is forgotten.
PassFails ==
    /\ sync.step # "wait" /\ Fault
    /\ \/ sync.step # "names" /\ sync' = Waiting /\ UNCHANGED woken
       \/ sync.step = "names" /\ sync' = [sync EXCEPT !.step = "sweep", !.todo = {}] /\ UNCHANGED woken
       \/ sync' = Waiting /\ woken' = FALSE
    /\ UNCHANGED <<entry, address>>

PassSteps ==
    \/ StartsPass \/ ListsEntries \/ AllRegistered \/ AllNamed \/ EndsPass
    \/ \E i \in Mirrored : RecordsAdopted(i) \/ Registers(i) \/ Links(i) \/ Names(i)
    \/ \E n \in Mirrored \cup Foreign : RemovesEntry(n)

NextLedger ==
    \/ PassSteps \/ PassFails
    \/ \E i \in Mirrored :
          \/ TakesAddress(i) \/ AsksEnd(i) \/ ReleasesAddress(i) \/ EndsVm(i)
          \/ InstanceFails(i)
          \/ \E t \in Title : Launches(i, t) \/ Adopts(i, t) \/ Renames(i, t)
          \/ \E life \in {"running", "stopped"} : Settles(i, life)

SpecLedger == InitLedger /\ [][NextLedger]_ledgervars

\* The loop runs and its timer ticks; what happens to instances is nobody's duty.
FairnessLedger == WF_ledgervars(PassSteps)

FairSpecLedger == SpecLedger /\ FairnessLedger

-----------------------------------------------------------------------------
(* Properties *)

(* An entry is removed only when its instance is terminated: never one of an  *)
(* instance that is busy, or was launched during the pass, and never one      *)
(* somebody else made (syncLedger, UnterminatedInstances, ledgerName).        *)
OnlyDeadEntriesRemoved ==
    [][\A n \in DOMAIN entry : entry[n].there /\ ~entry'[n].there =>
          n \in Mirrored /\ vm[n].life = "terminated"]_ledgervars

InStep ==
    \A i \in Mirrored :
       /\ ~Existing(vm[i]) => ~entry[i].there
       /\ Existing(vm[i]) /\ vm[i].brought => vm[i].ip
       /\ Existing(vm[i]) /\ vm[i].ip /\ address[i].there =>
             /\ entry[i] = [there |-> TRUE, active |-> vm[i].life = "running",
                            title |-> vm[i].title, primary |-> TRUE]
             /\ address[i].dns = vm[i].title

(* Whatever a pass missed or failed at, NetBox ends up in step with the       *)
(* instances once they stay as they are (SyncLedger "converges rather than    *)
(* reacting to each change").                                                 *)
LedgerConverges == <>[]InStep
=============================================================================
