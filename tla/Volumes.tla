------------------------------ MODULE Volumes ------------------------------
(***************************************************************************)
(* Volumes: extra disks that the worker moves between VMs.  Proxmox keeps  *)
(* every disk in the configuration of some VM and renames it whenever      *)
(* move_disk gives it to another, so the volumes table records where each  *)
(* disk is, and a move's destination before it starts.                     *)
(*                                                                         *)
(* One worker carries everything out, one action at a time, and is alone   *)
(* in changing disks and their recorded locations.  Each of its steps is   *)
(* one call that changes Proxmox or one write to the database, with the    *)
(* reads before it; a request, a failure or a crash may come between any   *)
(* two.  A lease only delays the next claim, and a claim comes when it     *)
(* may, so leases are left out; the holder VM is there from the start.     *)
(***************************************************************************)
EXTENDS Naturals, FiniteSets

CONSTANTS
    Volume,
    Instance,     \* instances, and the VM each one has
    Holder,       \* the VM on which detached volumes wait
    Slot,         \* the numbers of unusedN, scsiN and virtioN, and of disk names
    CreatedSizes, \* the sizes volumes are created with
    MaxSize,      \* the largest size asked for
    MaxAttempts,  \* Service.MaxAttempts
    ReusesNames,  \* TRUE: Proxmox names a disk with the lowest number free on its
                  \* VM; FALSE: with one that no volume has on record either
    NoVm, NoVolume, NoSlot

ASSUME VolumesAssumption ==
    /\ Slot \subseteq Nat \ {0}
    /\ MaxSize \in Nat \ {0} /\ MaxAttempts \in Nat \ {0}
    /\ CreatedSizes \subseteq 1..MaxSize
    /\ ReusesNames \in BOOLEAN
    /\ Holder \notin Instance /\ NoVm \notin Instance \cup {Holder}
    /\ NoVolume \notin Volume /\ NoSlot \notin Slot

VM == Instance \cup {Holder}

VARIABLES
    vol,    \* the volumes table
    inst,   \* of the instances table: running or stopped with nothing pending, busy
            \* with a start, stop or reboot, or on its way out
    disks,  \* Proxmox: every disk, its place in a VM's configuration and its name
    att     \* the worker's current attempt

vars == <<vol, inst, disks, att>>

-----------------------------------------------------------------------------
(* Types *)

\* A key of a VM's configuration: unusedN, or a slot the disk is plugged into,
\* scsiN on the holder and virtioN on an instance's VM.
Key == {"unused", "plugged"} \X Slot
NoKey == <<"none", NoSlot>>

Plugged(key) == key[1] = "plugged"

\* Location: the VM and the key where the disk is and the number its name has
\* on that VM, and the destination of a move under way.
Location == [vm: VM \cup {NoVm}, key: Key \cup {NoKey}, name: Slot \cup {NoSlot},
             toVm: VM \cup {NoVm}, toKey: Key \cup {NoKey}]

Nowhere == [vm |-> NoVm, key |-> NoKey, name |-> NoSlot, toVm |-> NoVm, toKey |-> NoKey]

VolumeAction == {"none", "create", "attach", "detach", "resize", "delete"}

Row == [state: {"absent", "creating", "available", "in-use", "deleting", "deleted",
                "error"},
        inst: Instance \cup {NoVm}, device: Slot \cup {NoSlot},
        attachment: {"none", "attaching", "attached", "detaching"},
        action: VolumeAction, attempts: 0..MaxAttempts, size: 1..MaxSize, loc: Location]

NoRow == [state |-> "absent", inst |-> NoVm, device |-> NoSlot, attachment |-> "none",
          action |-> "none", attempts |-> 0, size |-> 1, loc |-> Nowhere]

\* data is the volume whose contents the disk has, NoVolume while it is blank.
Disk == [vm: VM, key: Key, name: Slot, data: Volume \cup {NoVolume}, size: 1..MaxSize]

Step == {"idle", "locate", "reserve", "allocate", "found", "unlink", "unlinked",
         "aim", "move", "moved", "plug", "recordPlug", "resize", "destroy", "giveUp",
         "next", "returned", "finish"}

\* An attempt at a volume's action, or at terminating an instance, which
\* returns the volumes of todo one by one.
Attempt == [action: VolumeAction \cup {"terminate"}, vol: Volume \cup {NoVolume},
            inst: Instance \cup {NoVm}, step: Step, todo: SUBSET Volume]

Idle == [action |-> "none", vol |-> NoVolume, inst |-> NoVm, step |-> "idle", todo |-> {}]

TypeOK ==
    /\ vol \in [Volume -> Row]
    /\ inst \in [Instance -> {"settled", "busy", "shutting-down", "terminated"}]
    /\ disks \subseteq Disk
    /\ att \in Attempt

Init ==
    /\ vol = [v \in Volume |-> NoRow]
    /\ inst = [i \in Instance |-> "settled"]
    /\ disks = {}
    /\ att = Idle

-----------------------------------------------------------------------------
(* Reading the table and the configurations *)

Live(v) == vol[v].state \notin {"absent", "deleted"}

\* volIDClaimed, and what the unique index on volid refuses.
Claimed(vm, name, v) ==
    \E w \in Volume \ {v} : Live(w) /\ vol[w].loc.vm = vm /\ vol[w].loc.name = name

DiskAt(vm, key)     == {d \in disks : d.vm = vm /\ d.key = key}
DiskNamed(vm, name) == {d \in disks : d.vm = vm /\ d.name = name}

The(S) == CHOOSE x \in S : TRUE

Lowest(S) == CHOOSE x \in S : \A y \in S : x <= y

FreeSlots(vm, kind) == {n \in Slot : DiskAt(vm, <<kind, n>>) = {}}

FreeNames(vm) ==
    {n \in Slot : /\ DiskNamed(vm, n) = {}
                  /\ ReusesNames \/ ~Claimed(vm, n, NoVolume)}

Settle(d) == [vm |-> d.vm, key |-> d.key, name |-> d.name, toVm |-> NoVm, toKey |-> NoKey]

\* Mutant: only a disk just allocated is looked for where it was going.
ArrivedIfNew(v, l) == IF l.name = NoSlot THEN DiskAt(l.toVm, l.toKey) ELSE {}

\* locate: under its recorded name, or else at the destination of its move
\* unless another volume has that disk on record.  Missing is its error.
Arrived(v, l) == {d \in DiskAt(l.toVm, l.toKey) : ~Claimed(d.vm, d.name, v)}

Located(v, l) ==
    IF DiskNamed(l.vm, l.name) # {} THEN Settle(The(DiskNamed(l.vm, l.name)))
    ELSE IF Arrived(v, l) # {}      THEN Settle(The(Arrived(v, l)))
    ELSE l

Missing(v, l) == /\ l.name # NoSlot
                 /\ DiskNamed(l.vm, l.name) = {} /\ Arrived(v, l) = {}

-----------------------------------------------------------------------------
(* API handlers *)

Request(v, r) == vol' = [vol EXCEPT ![v] = r] /\ UNCHANGED <<inst, disks, att>>

CreateVolume(v, size) ==
    /\ vol[v].state = "absent"
    /\ Request(v, [NoRow EXCEPT !.state = "creating", !.action = "create", !.size = size])

AttachVolume(v, i, device) ==
    /\ vol[v].state = "available" /\ vol[v].action = "none" /\ vol[v].inst = NoVm
    /\ inst[i] = "settled"
    /\ \A w \in Volume : vol[w].inst = i => vol[w].device # device
    /\ Request(v, [vol[v] EXCEPT !.inst = i, !.device = device, !.attachment = "attaching",
                                 !.action = "attach", !.attempts = 0])

DetachVolume(v) ==
    /\ vol[v].attachment = "attached" /\ vol[v].action = "none"
    /\ Request(v, [vol[v] EXCEPT !.attachment = "detaching", !.action = "detach",
                                 !.attempts = 0])

\* Mutant: the size asked for has no limit.
ModifyUnlimited(v) ==
    /\ vol[v].state \in {"available", "in-use"} /\ vol[v].action = "none"
    /\ Request(v, [vol[v] EXCEPT !.size = @ + 1, !.action = "resize", !.attempts = 0])

ModifyVolume(v) ==
    /\ vol[v].state \in {"available", "in-use"} /\ vol[v].action = "none"
    /\ vol[v].size < MaxSize
    /\ Request(v, [vol[v] EXCEPT !.size = @ + 1, !.action = "resize", !.attempts = 0])

DeleteVolume(v) ==
    /\ vol[v].state \in {"available", "error"} /\ vol[v].action = "none"
    /\ vol[v].inst = NoVm
    /\ Request(v, [vol[v] EXCEPT !.state = "deleting", !.action = "delete", !.attempts = 0])

\* Of the instance lifecycle (module Instances): a start, stop or reboot that
\* is asked for and carried out, and a terminate that is asked for.
InstanceMoves(i) ==
    /\ \/ inst[i] = "settled" /\ inst' = [inst EXCEPT ![i] = "busy"]
       \/ inst[i] = "busy"    /\ inst' = [inst EXCEPT ![i] = "settled"]
    /\ UNCHANGED <<vol, disks, att>>

RequestTerminate(i) ==
    /\ inst[i] \notin {"shutting-down", "terminated"}
    /\ inst' = [inst EXCEPT ![i] = "shutting-down"]
    /\ UNCHANGED <<vol, disks, att>>

-----------------------------------------------------------------------------
(* The worker: claiming, finishing and failing *)

ClaimVolume(v) ==
    /\ att = Idle /\ vol[v].action # "none"
    /\ att' = [Idle EXCEPT !.action = vol[v].action, !.vol = v, !.inst = vol[v].inst,
                           !.step = "locate"]
    /\ UNCHANGED <<vol, inst, disks>>

\* Mutant: a volume on its way to the VM is not gathered.
OnVmAlready(i) == {v \in Volume : Live(v) /\ vol[v].loc.vm = i}

\* A terminate gathers the volumes on the VM, moving there, or attached.
OnVm(i) == {v \in Volume : \/ Live(v) /\ (vol[v].loc.vm = i \/ vol[v].loc.toVm = i)
                           \/ vol[v].inst = i}

ClaimTerminate(i) ==
    /\ att = Idle /\ inst[i] = "shutting-down"
    /\ att' = [Idle EXCEPT !.action = "terminate", !.inst = i, !.step = "next",
                           !.todo = OnVm(i)]
    /\ UNCHANGED <<vol, inst, disks>>

\* What the attempt has recorded of its volume's disk, and that disk.
Here   == vol[att.vol].loc
TheOne == The(DiskNamed(Here.vm, Here.name))

\* The state a volume's action ends in.
Finished(r, action) ==
    LET done == [r EXCEPT !.action = "none", !.attempts = 0] IN
    CASE action = "create" -> [done EXCEPT !.state = "available"]
      [] action = "attach" -> [done EXCEPT !.state = "in-use", !.attachment = "attached"]
      [] action = "detach" -> [done EXCEPT !.state = "available", !.attachment = "none",
                                           !.inst = NoVm, !.device = NoSlot]
      [] action = "delete" -> [done EXCEPT !.state = "deleted"]
      [] OTHER             -> done

\* A new volume's disk is its user's to write on once the volume is available.
Written(v, l) == {IF d.vm = l.vm /\ d.name = l.name THEN [d EXCEPT !.data = v] ELSE d :
                     d \in disks}

FinishVolumeAction ==
    /\ att.step = "finish" /\ att.action # "terminate"
    /\ vol' = [vol EXCEPT ![att.vol] = Finished(@, att.action)]
    /\ disks' = IF att.action = "create" THEN Written(att.vol, Here) ELSE disks
    /\ att' = Idle
    /\ UNCHANGED inst

\* Mutants: an attach that is given up is over at once; a create that is given up
\* forgets where its disk was going; a resize that is given up goes back to the
\* size before it, whatever the disk's is.
GivenUpUndetached(r, size) ==
    LET over == [r EXCEPT !.attempts = 0, !.action = "none"] IN
    CASE r.action = "create" -> [over EXCEPT !.state = "error"]
      [] r.action = "attach" -> [over EXCEPT !.attachment = "none", !.inst = NoVm,
                                             !.device = NoSlot]
      [] OTHER               -> [over EXCEPT !.size = size]

GivenUpForgotten(r, size) ==
    LET over == [r EXCEPT !.attempts = 0] IN
    CASE r.action = "create" -> [over EXCEPT !.state = "error", !.action = "none",
                                             !.loc = Nowhere]
      [] r.action = "attach" -> [over EXCEPT !.attachment = "detaching", !.action = "detach"]
      [] OTHER               -> [over EXCEPT !.size = size, !.action = "none"]

GivenUpToOldSize(r, size) ==
    LET over == [r EXCEPT !.attempts = 0] IN
    CASE r.action = "create" -> [over EXCEPT !.state = "error", !.action = "none"]
      [] r.action = "attach" -> [over EXCEPT !.attachment = "detaching", !.action = "detach"]
      [] OTHER               -> [over EXCEPT !.size = r.size - 1, !.action = "none"]

\* GiveUpCreate, GiveUpAttach and GiveUpResize.  An attach turns into a detach.
GivenUp(r, size) ==
    LET over == [r EXCEPT !.attempts = 0] IN
    CASE r.action = "create" -> [over EXCEPT !.state = "error", !.action = "none"]
      [] r.action = "attach" -> [over EXCEPT !.attachment = "detaching", !.action = "detach"]
      [] OTHER               -> [over EXCEPT !.size = size, !.action = "none"]

Abandonable == {"create", "attach", "resize"}

\* A detach or a delete is retried for ever; its count stays at the cap.
Tries(r) == IF r.attempts < MaxAttempts THEN r.attempts + 1 ELSE MaxAttempts

\* What a resize that is given up leaves on the ledger: the size on storage of
\* the disk the attempt knew of, or the one asked for when that cannot be read.
Measured(r) == {r.size} \cup {d.size : d \in DiskNamed(r.loc.vm, r.loc.name)}

\* Any call may fail, and an error that retrying cannot fix is given up on.
VolumeFails ==
    /\ att.vol # NoVolume /\ att.action # "terminate" /\ att.step \notin {"idle", "finish"}
    /\ LET r == vol[att.vol]
           last == att.step = "giveUp" \/ Tries(r) >= MaxAttempts IN
       IF last /\ att.action \in Abandonable
         THEN \E size \in Measured(r) : vol' = [vol EXCEPT ![att.vol] = GivenUp(r, size)]
         ELSE vol' = [vol EXCEPT ![att.vol].attempts = Tries(r)]
    /\ att' = Idle
    /\ UNCHANGED <<inst, disks>>

\* A failed terminate is retried, whatever it had done; a crash, or a result
\* that could not be recorded, ends any attempt without a trace.
AttemptEnds ==
    /\ att # Idle
    /\ att' = Idle
    /\ UNCHANGED <<vol, inst, disks>>

-----------------------------------------------------------------------------
(* The worker: what follows what.  Creating, attaching, detaching, resizing *)
(* and terminating share locate, unplug and move.                           *)

\* Mutant: a disk that is on the instance's VM counts as attached.
ThenAttached(l) == "finish"

\* Attaching plugs a disk that is on the instance's VM in as its device.
ThenPlug(l) ==
    LET here == <<"plugged", vol[att.vol].device>>
    IN  IF l.key = here THEN "finish"
        ELSE IF Plugged(l.key) \/ DiskAt(att.inst, here) # {} THEN "giveUp"
        ELSE "plug"

\* Mutant: a detach is over once the disk is unplugged, wherever it is.
AfterUnplugLeft(l) == IF att.action \in {"attach", "terminate"} THEN "aim" ELSE "finish"

\* unplug does nothing for a disk that is not plugged in.
AfterUnplug(l) ==
    CASE att.action \in {"attach", "terminate"}          -> "aim"
      [] att.action = "detach" /\ l.vm \in VM \ {Holder} -> "aim"
      [] OTHER                                           -> "finish"

ThenUnplug(l) == IF Plugged(l.key) THEN "unlink" ELSE AfterUnplug(l)

ThenResize(l, size) ==
    IF size < vol[att.vol].size THEN IF Plugged(l.key) THEN "resize" ELSE "plug"
    ELSE IF l.vm = Holder THEN ThenUnplug(l)
    ELSE "finish"

AfterLocate(l) ==
    CASE att.action = "create"    -> IF l.name = NoSlot THEN "reserve" ELSE ThenUnplug(l)
      [] att.action = "attach"    -> IF l.vm = att.inst THEN ThenPlug(l) ELSE ThenUnplug(l)
      [] att.action = "detach"    -> ThenUnplug(l)
      [] att.action = "terminate" -> IF l.vm = att.inst THEN ThenUnplug(l) ELSE "returned"
      [] att.action = "delete"    -> IF l.name = NoSlot THEN "finish" ELSE "destroy"
      [] att.action = "resize"    -> IF l.vm = NoVm THEN "giveUp"
                                     ELSE ThenResize(l, The(DiskNamed(l.vm, l.name)).size)

AfterMove(l) == CASE att.action = "attach" -> ThenPlug(l)
                  [] att.action = "detach" -> "finish"
                  [] OTHER                 -> "returned"

\* RecordLocation, whose unique index refuses a name on record elsewhere.
Record(l, step) ==
    /\ l.name # NoSlot => ~Claimed(l.vm, l.name, att.vol)
    /\ vol' = [vol EXCEPT ![att.vol].loc = l]
    /\ att' = [att EXCEPT !.step = step]
    /\ UNCHANGED <<inst, disks>>

\* A change in Proxmox: the disk old becomes new.
Change(old, new, step) ==
    /\ disks' = (disks \ {old}) \cup {new}
    /\ att' = [att EXCEPT !.step = step]
    /\ UNCHANGED <<vol, inst>>

-----------------------------------------------------------------------------
(* The worker: one action per call                                          *)

\* An attach looks at its instance first and waits for one that is busy; a
\* detach of a disk that is plugged in waits for it too.
Refused  == att.action = "attach" /\ inst[att.inst] \in {"shutting-down", "terminated"}
Busy(l)  == /\ att.inst # NoVm /\ inst[att.inst] = "busy"
            /\ \/ att.action = "attach"
               \/ att.action = "detach" /\ Plugged(l.key) /\ l.vm # Holder

Locate ==
    /\ att.step = "locate" /\ ~Refused
    /\ ~Missing(att.vol, Here)
    /\ LET l == Located(att.vol, Here) IN ~Busy(l) /\ Record(l, AfterLocate(l))

LocateRefused ==
    /\ att.step = "locate" /\ Refused
    /\ att' = [att EXCEPT !.step = "giveUp"]
    /\ UNCHANGED <<vol, inst, disks>>

\* Mutant: a delete whose disk is gone is an error.
LocateNeverDestroyed == FALSE

\* A delete whose disk is gone was carried out before a crash.
LocateDestroyed ==
    /\ att.step = "locate" /\ att.action = "delete" /\ Missing(att.vol, Here)
    /\ att' = [att EXCEPT !.step = "finish"]
    /\ UNCHANGED <<vol, inst, disks>>

\* Create: a slot on the holder goes on record, then the disk is allocated.
Reserve ==
    /\ att.step = "reserve" /\ FreeSlots(Holder, "plugged") # {}
    /\ Record([Nowhere EXCEPT !.toVm = Holder,
                              !.toKey = <<"plugged", Lowest(FreeSlots(Holder, "plugged"))>>],
              "allocate")

Allocate ==
    /\ att.step = "allocate" /\ FreeNames(Holder) # {}
    /\ disks' = disks \cup {[vm |-> Holder, key |-> Here.toKey,
                            name |-> Lowest(FreeNames(Holder)), data |-> NoVolume,
                            size |-> vol[att.vol].size]}
    /\ att' = [att EXCEPT !.step = "found"]
    /\ UNCHANGED <<vol, inst>>

FindAllocated ==
    /\ att.step = "found"
    /\ LET l == Located(att.vol, Here) IN l.name # NoSlot /\ Record(l, ThenUnplug(l))

\* Unplug: UnlinkDisks leaves an unused entry, found by the disk's name.
Unlink ==
    /\ att.step = "unlink" /\ FreeSlots(Here.vm, "unused") # {}
    /\ LET d == TheOne IN
       Change(d, [d EXCEPT !.key = <<"unused", Lowest(FreeSlots(d.vm, "unused"))>>],
              "unlinked")

RecordUnlinked ==
    /\ att.step = "unlinked"
    /\ LET l == [Here EXCEPT !.key = TheOne.key] IN Record(l, AfterUnplug(l))

\* Move: the destination goes on record, then move_disk renames the disk.
Target == IF att.action = "attach" THEN att.inst ELSE Holder

Aim ==
    /\ att.step = "aim" /\ Here.key[1] = "unused"
    /\ FreeSlots(Target, "unused") # {}
    /\ Record([Here EXCEPT !.toVm = Target,
                           !.toKey = <<"unused", Lowest(FreeSlots(Target, "unused"))>>],
              "move")

MoveDisk ==
    /\ att.step = "move" /\ FreeNames(Here.toVm) # {}
    /\ LET d == TheOne IN
       Change(d, [d EXCEPT !.vm = Here.toVm, !.key = Here.toKey,
                           !.name = Lowest(FreeNames(Here.toVm))], "moved")

RecordMoved ==
    /\ att.step = "moved"
    /\ LET l == Settle(The(DiskAt(Here.toVm, Here.toKey))) IN Record(l, AfterMove(l))

\* Plug in as the device, or, to be resized, anywhere on the holder.
Plug ==
    /\ att.step = "plug"
    /\ att.action = "attach" \/ (Here.vm = Holder /\ FreeSlots(Holder, "plugged") # {})
    /\ LET d == TheOne
           slot == IF att.action = "attach" THEN vol[att.vol].device
                                            ELSE Lowest(FreeSlots(Holder, "plugged")) IN
       Change(d, [d EXCEPT !.key = <<"plugged", slot>>], "recordPlug")

RecordPlug ==
    /\ att.step = "recordPlug"
    /\ Record([Here EXCEPT !.key = TheOne.key],
              IF att.action = "attach" THEN "finish" ELSE "resize")

ResizeDisk ==
    /\ att.step = "resize"
    /\ LET d == TheOne IN
       Change(d, [d EXCEPT !.size = vol[att.vol].size],
              IF Here.vm = Holder THEN ThenUnplug(Here) ELSE "finish")

\* Delete: UnlinkDisks by force, on the holder only.
Destroy ==
    /\ att.step = "destroy" /\ Here.vm = Holder
    /\ disks' = disks \ {TheOne}
    /\ att' = [att EXCEPT !.step = "finish"]
    /\ UNCHANGED <<vol, inst>>

-----------------------------------------------------------------------------
(* The worker: terminating an instance                                      *)

ReturnNext(v) ==
    /\ att.step = "next" /\ v \in att.todo
    /\ att' = [att EXCEPT !.vol = v, !.todo = @ \ {v}, !.step = "locate"]
    /\ UNCHANGED <<vol, inst, disks>>

\* An attach or detach in flight is over; a resize stays pending.
Detached(r) ==
    LET over == r.action \in {"attach", "detach"} IN
    [r EXCEPT !.inst = NoVm, !.device = NoSlot, !.attachment = "none",
              !.state = IF @ = "in-use" THEN "available" ELSE @,
              !.action = IF over THEN "none" ELSE @, !.attempts = IF over THEN 0 ELSE @,
              !.loc.toVm = NoVm, !.loc.toKey = NoKey]

ReturnToHolder ==
    /\ att.step = "returned"
    /\ vol' = IF vol[att.vol].inst = att.inst THEN [vol EXCEPT ![att.vol] = Detached(@)]
                                              ELSE vol
    /\ att' = [att EXCEPT !.vol = NoVolume, !.step = "next"]
    /\ UNCHANGED <<inst, disks>>

\* refuseToDestroyVolumes, then DeleteVM with every disk the VM still has.
DeleteVM ==
    /\ att.step = "next" /\ att.todo = {}
    /\ \A d \in disks : d.vm = att.inst => ~Claimed(d.vm, d.name, NoVolume)
    /\ disks' = {d \in disks : d.vm # att.inst}
    /\ att' = [att EXCEPT !.step = "finish"]
    /\ UNCHANGED <<vol, inst>>

FinishTerminate ==
    /\ att.step = "finish" /\ att.action = "terminate"
    /\ inst' = [inst EXCEPT ![att.inst] = "terminated"]
    /\ att' = Idle
    /\ UNCHANGED <<vol, disks>>

-----------------------------------------------------------------------------
(* The specification *)

Api ==
    \/ \E v \in Volume : \/ \E size \in CreatedSizes : CreateVolume(v, size)
                         \/ DetachVolume(v) \/ ModifyVolume(v) \/ DeleteVolume(v)
                         \/ \E i \in Instance, device \in Slot : AttachVolume(v, i, device)
    \/ \E i \in Instance : InstanceMoves(i) \/ RequestTerminate(i)

\* What the attempt does when every call succeeds.
Advance ==
    \/ Locate \/ LocateRefused \/ LocateDestroyed
    \/ Reserve \/ Allocate \/ FindAllocated
    \/ Unlink \/ RecordUnlinked \/ Aim \/ MoveDisk \/ RecordMoved
    \/ Plug \/ RecordPlug \/ ResizeDisk \/ Destroy
    \/ (\E v \in Volume : ReturnNext(v)) \/ ReturnToHolder \/ DeleteVM
    \/ FinishVolumeAction \/ FinishTerminate

Claim == \/ \E v \in Volume : ClaimVolume(v)
         \/ \E i \in Instance : ClaimTerminate(i)

Next == Api \/ Claim \/ Advance \/ VolumeFails \/ AttemptEnds

Spec == Init /\ [][Next]_vars

-----------------------------------------------------------------------------
(* Fairness: the worker's goroutine runs, every call ends, and no work that  *)
(* is due is passed over for ever (ClaimVolumeWork and ClaimWork take it in  *)
(* the order it fell due).  An outage ends, users come to leave an instance  *)
(* alone, and its own start, stop or reboot settles (module Instances).      *)

OutageEnds == <>[][/\ VolumeFails \/ AttemptEnds => ~ENABLED Advance
                   /\ \A i \in Instance : inst[i] = "settled" => inst'[i] # "busy"]_vars

Fairness ==
    /\ WF_vars(Advance \/ VolumeFails \/ AttemptEnds)
    /\ \A v \in Volume : SF_vars(ClaimVolume(v))
    /\ \A i \in Instance : /\ SF_vars(ClaimTerminate(i))
                           /\ WF_vars(inst[i] = "busy" /\ InstanceMoves(i))
    /\ OutageEnds

FairSpec == Spec /\ Fairness

-----------------------------------------------------------------------------
(* Properties *)

\* The disks with what was written on the volume.
Contents(v) == {d \in disks : d.data = v}

(* A volume a user has written on has one disk with what was written, from   *)
(* the day it is available until its own delete: no crash, failure, move or  *)
(* terminate loses it or makes a second one (the header of volume_worker.go).*)
NoDiskLost ==
    \A v \in Volume :
        vol[v].state \in {"available", "in-use"} =>
            Cardinality(Contents(v)) = 1

\* Nothing is being done with the volume or with the instance it is attached to.
AtRest(v) ==
    /\ vol[v].state \in {"available", "in-use"} /\ vol[v].action = "none"
    /\ vol[v].inst # NoVm => inst[vol[v].inst] # "shutting-down"

(* A volume at rest has its own disk under the name and on the VM the table  *)
(* says, and one that is attached has it plugged in as its device, whatever  *)
(* was retried, resumed or overtaken before (locate and move in              *)
(* volume_worker.go).  A resize given up on the holder may leave the key of  *)
(* a detached one behind, which locate then corrects.                        *)
LocationIsTrue ==
    \A v \in Volume :
        AtRest(v) =>
            \E d \in disks :
                /\ d.vm = vol[v].loc.vm /\ d.name = vol[v].loc.name
                /\ d.data = v
                /\ d.vm = IF vol[v].state = "in-use" THEN vol[v].inst ELSE Holder
                /\ vol[v].state = "in-use" => d.key = <<"plugged", vol[v].device>>

(* No disk is larger than what its account is charged for, however a resize  *)
(* fails or is given up: the ledger takes the new size first, and goes back  *)
(* only to a size it has measured (GiveUpResize).                            *)
LedgerCoversDisk ==
    \A d \in disks : d.data # NoVolume => d.size <= vol[d.data].size

(* Every disk is one that some volume's action can find: none is left behind *)
(* by an attempt that crashed, gave up or was overtaken by a terminate.      *)
NoDiskStray ==
    \A d \in disks : \E v \in Volume :
        /\ Live(v)
        /\ \/ d.vm = vol[v].loc.vm /\ d.name = vol[v].loc.name
           \/ d.vm = vol[v].loc.toVm /\ d.key = vol[v].loc.toKey

(* Whatever is asked of a volume ends: in particular a detach and a delete,  *)
(* which are never abandoned, always succeed in the end (processVolume).     *)
ActionSettles ==
    \A v \in Volume : vol[v].action # "none" ~> vol[v].action = "none"

(* An instance's volumes never keep it from being terminated: each is found, *)
(* unplugged and moved away first (returnVolumes).                           *)
TerminateCompletes ==
    \A i \in Instance : inst[i] = "shutting-down" ~> inst[i] = "terminated"

\* What VolumeLife speaks of: where a volume's data is, whether a guest sees it,
\* and whether its instance is on its way out.
Home(v)    == IF Contents(v) = {} THEN NoVm ELSE The(Contents(v)).vm
Seen(v)    == \E d \in Contents(v) : d.vm # Holder /\ Plugged(d.key)
Leaving(v) == vol[v].inst # NoVm /\ inst[vol[v].inst] = "shutting-down"

(* Each volume keeps the lifecycle the API promises: it is seen by no guest  *)
(* but that of the instance it was asked for, by that one as long as it is   *)
(* attached, and its data is somewhere until it is deleted (volumes.go,      *)
(* volume_worker.go).                                                        *)
Promise(v) == INSTANCE VolumeLife WITH
    state <- vol[v].state, action <- vol[v].action, user <- vol[v].inst,
    leaving <- Leaving(v), at <- Home(v), seen <- Seen(v)

ImplementsVolumeLife ==
    /\ \A v \in Volume : Promise(v)!Init
    /\ [][\A v \in Volume : [Promise(v)!Next]_(Promise(v)!vars)]_vars

-----------------------------------------------------------------------------
(* Why it works: the inductive invariant, for names that are never on record *)
(* twice.  A row is found again from its disk and a disk from its row.       *)

Kept(v)  == vol[v].state \in {"available", "in-use"}
Fresh(v) == vol[v].state \in {"creating", "error"}

At(d, l)       == d.vm = l.vm /\ d.name = l.name
Arriving(d, l) == d.vm = l.toVm /\ d.key = l.toKey
Unclaimed(d)   == ~Claimed(d.vm, d.name, NoVolume)

\* What the handlers and the results of actions leave in a row.
RowFits(v) ==
    LET r == vol[v] IN
    /\ r.state = "absent" => r = NoRow
    /\ r.state \in {"error", "deleted"} => r.action = "none"
    /\ r.state = "creating" => r.action = "create"
    /\ r.state = "deleting" => r.action = "delete"
    /\ Kept(v) => r.action \in {"none", "resize", "attach", "detach"}
    /\ r.inst # NoVm => Kept(v) /\ inst[r.inst] # "terminated"
    /\ r.action = "attach" => r.state = "available" /\ r.device \in Slot
    /\ r.action \in {"attach", "detach"} => r.inst # NoVm /\ r.attachment # "attached"
    /\ r.state = "available" /\ r.inst # NoVm => r.action \in {"attach", "detach"}
    /\ r.attachment = "attached" => r.state = "in-use"
    /\ r.state = "in-use" => r.inst # NoVm /\ r.device \in Slot

\* A disk is, and goes, where its volume has to do with; a slot is reserved for
\* a new disk only, and a move is only between unused entries.
LocationFits(v) ==
    LET r == vol[v]
        l == r.loc IN
    /\ l.name = NoSlot <=> l.vm = NoVm
    /\ {l.vm, l.toVm} \subseteq {NoVm, Holder, r.inst}
    /\ l.toVm # NoVm => l.toKey[1] = IF l.name = NoSlot THEN "plugged" ELSE "unused"
    /\ r.inst = NoVm /\ l.name # NoSlot => l.toVm = NoVm
    /\ Kept(v) => l.name # NoSlot

\* When a row's record of its disk is not out of date.
RecordIsTrue(v) ==
    LET r == vol[v]
        l == r.loc IN
    /\ (Fresh(v) /\ l.name # NoSlot) \/ (Kept(v) /\ r.inst = NoVm) =>
          \E d \in disks : At(d, l)
    /\ r.state = "in-use" /\ r.action \in {"none", "resize"} =>
          \/ inst[r.inst] = "shutting-down"
          \/ \E d \in disks : At(d, l) /\ d.vm = r.inst /\ d.key = <<"plugged", r.device>>

HasData(v) == Kept(v) => \E d \in disks : d.data = v

PlacesDiffer ==
    \A d, e \in disks : d.vm = e.vm /\ (d.key = e.key \/ d.name = e.name) => d = e

NamesDiffer ==
    \A v, w \in Volume :
        /\ Live(v) /\ Live(w) /\ vol[v].loc.name # NoSlot
        /\ vol[v].loc.vm = vol[w].loc.vm /\ vol[v].loc.name = vol[w].loc.name
        => v = w

\* No row records the disk of another, whatever was renamed in between.
NotMistaken(d) ==
    \A v \in Volume :
        Live(v) /\ At(d, vol[v].loc) => d.data = v \/ (d.data = NoVolume /\ ~Kept(v))

\* A disk with data is under its recorded name or, by a move that went
\* unrecorded, at its destination, where no other row has it on record.
DataFindable(d) ==
    d.data # NoVolume =>
        /\ Live(d.data) /\ ~Fresh(d.data)
        /\ \/ At(d, vol[d.data].loc)
           \/ Arriving(d, vol[d.data].loc) /\ d.key[1] = "unused" /\ Unclaimed(d)
        /\ \A e \in disks : e.data = d.data => e = d

BlankFindable(d) ==
    d.data = NoVolume /\ Unclaimed(d) =>
        /\ d.vm = Holder /\ Plugged(d.key)
        /\ \E v \in Volume : /\ Live(v) /\ vol[v].loc.name = NoSlot
                             /\ Arriving(d, vol[v].loc)

WorldIsSound ==
    /\ \A v \in Volume : RowFits(v) /\ LocationFits(v) /\ RecordIsTrue(v) /\ HasData(v)
    /\ PlacesDiffer /\ NamesDiffer
    /\ \A d \in disks : NotMistaken(d) /\ DataFindable(d) /\ BlankFindable(d)

Works == att.vol # NoVolume

\* Which steps an attempt takes, for whom.
AttemptIsSound ==
    /\ att.step = "idle" <=> att = Idle
    /\ Works <=> att.step \notin {"idle", "next"} /\
                    ~(att.action = "terminate" /\ att.step = "finish")
    /\ Works /\ att.action # "terminate" =>
          /\ vol[att.vol].action = att.action /\ att.action # "none"
          /\ vol[att.vol].inst = att.inst
    /\ att.action = "terminate" =>
          /\ att.inst # NoVm /\ inst[att.inst] = "shutting-down"
          /\ \A v \in Volume : vol[v].inst = att.inst <=> v \in att.todo \/ v = att.vol
          /\ att.vol \notin att.todo
          /\ att.step = "finish" => att.todo = {}
    /\ att.step \in {"reserve", "allocate", "found"} => att.action = "create"
    /\ att.step \in {"aim", "move", "moved"} => att.action \in {"attach", "detach", "terminate"}
    /\ att.step \in {"unlink", "unlinked"} => att.action # "delete"
    /\ att.step \in {"plug", "recordPlug", "giveUp"} => att.action \in {"attach", "resize"}
    /\ att.step = "resize" => att.action = "resize"
    /\ att.step = "destroy" => att.action = "delete"
    /\ att.step \in {"next", "returned"} => att.action = "terminate"

\* The attempt's disk is under its recorded name, and not on its way.
Held == Here.toVm = NoVm /\ \E d \in disks : At(d, Here)

DeviceFree == DiskAt(att.inst, <<"plugged", vol[att.vol].device>>) = {}

PluggedIn ==
    \E d \in disks : /\ At(d, Here) /\ d.vm = att.inst
                     /\ d.key = <<"plugged", vol[att.vol].device>>

\* What each step may rely on, of what the steps before it found and did.
StepKnows ==
    /\ att.step \in {"unlink", "unlinked", "aim", "plug", "recordPlug", "resize",
                     "destroy", "returned"} => Held
    /\ att.step \in {"unlink", "unlinked"} /\ att.action \in {"create", "resize"} =>
          Here.vm = Holder
    /\ att.step = "reserve" => Here.name = NoSlot /\ Arrived(att.vol, Here) = {}
    /\ att.step \in {"allocate", "found"} => Here.name = NoSlot /\ Here.toVm = Holder
    /\ att.step = "allocate" => DiskAt(Holder, Here.toKey) = {}
    /\ att.step = "found" =>
          \E d \in disks : Arriving(d, Here) /\ d.data = NoVolume /\ Unclaimed(d)
    /\ att.step \in {"move", "moved"} => Here.toVm = Target
    /\ att.step = "move" => /\ \E d \in disks : At(d, Here)
                            /\ DiskAt(Target, Here.toKey) = {}
    /\ att.step = "moved" => DiskNamed(Here.vm, Here.name) = {}
    /\ att.step = "returned" => Here.vm = Holder
    /\ att.step = "plug" /\ att.action = "attach" => Here.vm = att.inst /\ DeviceFree
    /\ att.step \in {"recordPlug", "finish"} /\ att.action = "attach" => Held /\ PluggedIn
    /\ att.step = "finish" /\ att.action \in {"create", "detach"} => Held /\ Here.vm = Holder
    /\ att.step = "finish" /\ att.action = "delete" =>
          DiskNamed(Here.vm, Here.name) = {} /\ Arrived(att.vol, Here) = {}

(* The inductive invariant.  Between any two of the worker's steps, in any   *)
(* attempt and after any failure, each volume's disk is where its row will   *)
(* look for it (locate in volume_worker.go), and the attempt knows of it     *)
(* what its next call relies on.                                             *)
Consistent == TypeOK /\ WorldIsSound /\ AttemptIsSound /\ StepKnows
=============================================================================
