----------------------------- MODULE Admission -----------------------------
(***************************************************************************)
(* What lets an instance into the cloud: RunInstances, adopting a VM that  *)
(* is there already, and resizing one, against the account's quota and the *)
(* cloud's memory budget, which an administrator may change meanwhile.     *)
(*                                                                         *)
(* Each request reads the limits, the client token, the host and the pool  *)
(* outside any lock, then counts and inserts under the capacity lock.      *)
(* Memory stands for the vCPUs as well, and one disk size for the root     *)
(* disk.  The worker that makes and removes the VMs is Instances; here it  *)
(* is the environment.                                                     *)
(***************************************************************************)
EXTENDS Integers, FiniteSets

CONSTANTS Slot,          \* instance rows there may come to be
          Account,
          Token,         \* client tokens
          Vmid,          \* VMIDFrom..VMIDTo
          Reserved,      \* the volume holder and the probes' VMIDs
          Caller,        \* requests served at once
          Outside,       \* VMIDs that come to have VMs not launched here
          Memory,        \* sizes asked for outright
          Preset,        \* the memory of the one instance type there is
          Disk,          \* root disk sizes asked for; 0 leaves it to the default
          HostMemory,    \* what the node has
          Declared,      \* site.json's limits
          Overrides,     \* what an administrator may set
          MaxCalls       \* bound on the requests made

NoToken == "none"
NoSlot  == 0

LimitName == {"instances", "memory", "budget", "reserve",
              "diskMin", "diskDefault", "diskMax"}

ASSUME AdmissionAssumption ==
    /\ Caller \subseteq Nat /\ Slot \subseteq Nat \ {0} /\ Vmid \subseteq Nat \ {0}
    /\ Reserved \subseteq Nat /\ Outside \subseteq Vmid
    /\ Memory \subseteq Nat \ {0} /\ Preset \in Nat \ {0} /\ Disk \subseteq Nat
    /\ HostMemory \in Nat /\ MaxCalls \in Nat
    /\ Declared \in [LimitName -> Nat]
    /\ \A o \in Overrides : DOMAIN o \subseteq LimitName /\ \A l \in DOMAIN o : o[l] \in Nat
    /\ NoToken \notin Token /\ Account # {}

VARIABLES row,       \* the instances table
          override,  \* the limit_overrides row
          pool,      \* the VMs in the pool: what memory each has; 0 for none
          call,      \* the request each caller has made
          calls      \* how many were made so far

admissionvars == <<row, override, pool, call, calls>>

\* A launch: memory 0 leaves it to the instance type.
Body == [memory: Nat, disk: Nat]
Sent == [memory: Memory \cup {0}, disk: Disk]

Row == [state: {"none", "live", "gone"}, owner: Account, token: Token \cup {NoToken},
        hash: Body, sent: Body, vmid: Vmid \cup {0}, memory: Nat, disk: Nat, least: Nat]

Call == [kind: {"none", "run", "adopt", "modify"},
         step: {"idle", "token", "host", "list", "lock", "count", "insert", "update",
                "record", "answered"},
         owner: Account, token: Token \cup {NoToken}, sent: Body, body: Body,
         limits: [LimitName -> Nat], visible: SUBSET Vmid, slot: Slot \cup {NoSlot},
         vmid: Vmid \cup {0}, memory: Nat, disk: Nat,
         reply: {"none", "created", "original", "mismatch"}]

TypeOKAdmission ==
    /\ row \in [Slot -> Row]
    /\ override \in Overrides
    /\ pool \in [Vmid -> Nat]
    /\ call \in [Caller -> Call]
    /\ calls \in 0..MaxCalls

SomeAccount == CHOOSE a \in Account : TRUE
NoBody == [memory |-> 0, disk |-> 0]

NoRow == [state |-> "none", owner |-> SomeAccount, token |-> NoToken, hash |-> NoBody,
          sent |-> NoBody, vmid |-> 0, memory |-> 0, disk |-> 0, least |-> 0]

NoCall == [kind |-> "none", step |-> "idle", owner |-> SomeAccount, token |-> NoToken,
           sent |-> NoBody, body |-> NoBody, limits |-> Declared, visible |-> {},
           slot |-> NoSlot, vmid |-> 0, memory |-> 0, disk |-> 0, reply |-> "none"]

InitAdmission ==
    /\ row = [s \in Slot |-> NoRow]
    /\ override \in {o \in Overrides : DOMAIN o = {}}
    /\ pool = [v \in Vmid |-> 0]
    /\ call = [c \in Caller |-> NoCall]
    /\ calls = 0

-----------------------------------------------------------------------------
(* Limits, sizes, sums *)

WithOverrides(l, o) == [n \in DOMAIN l |-> IF n \in DOMAIN o THEN o[n] ELSE l[n]]

EffectiveLimits == WithOverrides(Declared, override)

\* ValidateLimits.
Usable(l) == /\ l["diskMin"] > 0
             /\ l["diskMin"] <= l["diskDefault"] /\ l["diskDefault"] <= l["diskMax"]

\* resolveSpec: what is given overrides the type.
SpecMemory(b) == IF b.memory > 0 THEN b.memory ELSE Preset

\* validate fills in the default disk and refuses what does not fit.
Filled(b, l) == [b EXCEPT !.disk = IF @ = 0 THEN l["diskDefault"] ELSE @]
Valid(b, l)  == b.disk \in l["diskMin"]..l["diskMax"]

\* The sum of some entries of a list of sizes, counted unit by unit.
Units(of, list) == UNION {{x} \X (1..list[x]) : x \in of}
Sum(of, list)   == Cardinality(Units(of, list))

Alive == {s \in Slot : row[s].state = "live"}
Memories == [s \in Slot |-> row[s].memory]
AccountUsage(a) == {s \in Alive : row[s].owner = a}

\* A limit of 0 is no limit.
Within(used, limit) == limit = 0 \/ used <= limit

\* checkQuota of one more instance, or of one resized, whose memory it replaces.
QuotaAllows(a, memory, l, replaced) ==
    LET own == AccountUsage(a) IN
    /\ Within(Cardinality(own) + (IF replaced = NoSlot THEN 1 ELSE 0), l["instances"])
    /\ Within(Sum(own, Memories) + memory, l["memory"])
    /\ Within(Sum(Alive, Memories) + memory, l["budget"])

\* checkHost: memory that is not there cannot be handed out.
HostAllows(memory, l) ==
    HostMemory - Sum(Vmid, pool) - memory >= l["reserve"]

Tokened(a, t) == {s \in Slot : row[s].state # "none" /\ row[s].owner = a /\ row[s].token = t}
Holding(v) == {s \in Alive : row[s].vmid = v}

\* Mutant: the range's end is taken to be one further.
FreesPastTheEnd(visible) ==
    {v \in Vmid \cup {1 + Cardinality(Vmid)} : v \notin Reserved \cup visible /\ Holding(v) = {}}

\* AllocateVMID: the lowest that no live row holds and the list did not show.
FreeVmids(visible) ==
    {v \in Vmid : v \notin Reserved \cup visible /\ Holding(v) = {}}

Lowest(vmids) == {v \in vmids : \A u \in vmids : v <= u}

-----------------------------------------------------------------------------
(* Steps every request has *)

Rests(c) == call[c].step \in {"idle", "answered"}

\* Callers are alike: the first that is free.
Opened(c, r) ==
    /\ Rests(c) /\ \A d \in Caller : Rests(d) => c <= d
    /\ calls < MaxCalls /\ calls' = calls + 1
    /\ call' = [call EXCEPT ![c] = r]
    /\ UNCHANGED <<row, override, pool>>

Goes(c, r) == call' = [call EXCEPT ![c] = r] /\ UNCHANGED <<row, override, pool, calls>>

\* Refused, failed or disconnected; an open transaction is rolled back.
GivesUp(c) == ~Rests(c) /\ Goes(c, NoCall)

Locked == {"count", "insert"}

\* Mutant: nothing is locked.
LocksNothing(c) == call[c].step = "lock"

\* LockCapacity.
LocksCapacity(c) ==
    /\ call[c].step = "lock"
    /\ \A d \in Caller : call[d].step \notin Locked

\* The two requests that insert count in the transaction that inserts.
CountsQuota(c) ==
    /\ call[c].step = "count"
    /\ QuotaAllows(call[c].owner, call[c].memory, call[c].limits, NoSlot)
    /\ Goes(c, [call[c] EXCEPT !.step = "insert"])

\* idempotent: the row made with this token answers, if the request is the same.
Idempotent(c, s) ==
    Goes(c, [NoCall EXCEPT !.step = "answered", !.sent = call[c].sent, !.slot = s,
               !.reply = IF row[s].hash = call[c].body THEN "original" ELSE "mismatch"])

Inserts(c, r) ==
    \E s \in Slot :
        /\ row[s].state = "none" /\ \A t \in Slot : t < s => row[t].state # "none"
        /\ row' = [row EXCEPT ![s] = r]
        /\ call' = [call EXCEPT ![c] = [NoCall EXCEPT !.step = "answered", !.slot = s,
                                          !.sent = call[c].sent, !.reply = "created"]]
        /\ UNCHANGED <<override, pool, calls>>

-----------------------------------------------------------------------------
(* Run *)

\* The limits are read once, the request is validated against them, and what
\* is left out is filled in.
AsksLaunch(c, a, t, b) ==
    LET l == EffectiveLimits IN
    /\ Valid(Filled(b, l), l)
    /\ Opened(c, [NoCall EXCEPT !.kind = "run", !.step = "token", !.owner = a, !.token = t,
                    !.sent = b, !.body = Filled(b, l), !.limits = l,
                    !.memory = SpecMemory(b), !.disk = Filled(b, l).disk])

FindsToken(c) ==
    /\ call[c].step = "token"
    /\ LET known == IF call[c].token = NoToken THEN {}
                    ELSE Tokened(call[c].owner, call[c].token) IN
       \/ \E s \in known : Idempotent(c, s)
       \/ known = {} /\ Goes(c, [call[c] EXCEPT !.step = "host"])

ChecksHost(c) ==
    /\ call[c].step = "host"
    /\ HostAllows(call[c].memory, call[c].limits)
    /\ Goes(c, [call[c] EXCEPT !.step = "list"])

ListsPool(c) ==
    /\ call[c].kind = "run" /\ call[c].step = "list"
    /\ Goes(c, [call[c] EXCEPT !.step = "lock", !.visible = {v \in Vmid : pool[v] > 0}])

\* Mutant: what was found before the lock is taken to hold under it.
TrustsFirstLook(c) ==
    /\ call[c].kind = "run" /\ LocksCapacity(c)
    /\ Goes(c, [call[c] EXCEPT !.step = "count"])

LocksForLaunch(c) ==
    /\ call[c].kind = "run" /\ LocksCapacity(c)
    /\ LET known == IF call[c].token = NoToken THEN {}
                    ELSE Tokened(call[c].owner, call[c].token) IN
       \/ \E s \in known : Idempotent(c, s)
       \/ known = {} /\ Goes(c, [call[c] EXCEPT !.step = "count"])

InsertsLaunch(c) ==
    /\ call[c].kind = "run" /\ call[c].step = "insert"
    /\ \E v \in Lowest(FreeVmids(call[c].visible)) :
          Inserts(c, [NoRow EXCEPT !.state = "live", !.owner = call[c].owner,
                        !.token = call[c].token, !.hash = call[c].body, !.sent = call[c].sent,
                        !.vmid = v, !.memory = call[c].memory, !.disk = call[c].disk,
                        !.least = call[c].memory])

-----------------------------------------------------------------------------
(* Adopt *)

\* The VM is in the pool, no row holds it, and its config is read.
AsksAdoption(c, a, v) ==
    /\ pool[v] > 0 /\ v \notin Reserved /\ Holding(v) = {}
    /\ Opened(c, [NoCall EXCEPT !.kind = "adopt", !.step = "list", !.owner = a, !.vmid = v,
                    !.memory = pool[v], !.disk = 1])

\* The limits are read last.
ReadsLimits(c) ==
    /\ call[c].kind = "adopt" /\ call[c].step = "list"
    /\ Goes(c, [call[c] EXCEPT !.step = "lock", !.limits = EffectiveLimits])

LocksForAdoption(c) ==
    /\ call[c].kind = "adopt" /\ LocksCapacity(c)
    /\ Holding(call[c].vmid) = {}
    /\ Goes(c, [call[c] EXCEPT !.step = "count"])

\* Whether the VM is still there is not asked again.
InsertsAdopted(c) ==
    /\ call[c].kind = "adopt" /\ call[c].step = "insert"
    /\ Inserts(c, [NoRow EXCEPT !.state = "live", !.owner = call[c].owner,
                     !.vmid = call[c].vmid, !.memory = call[c].memory,
                     !.disk = call[c].disk, !.least = call[c].memory])

-----------------------------------------------------------------------------
(* Modify *)

\* The row and the limits as they are read; the VM has been made.
AsksResize(c, s, memory, size) ==
  LET disk == IF size = 0 THEN row[s].disk ELSE size IN
    /\ row[s].state = "live" /\ pool[row[s].vmid] > 0
    /\ disk >= row[s].disk /\ (disk = row[s].disk \/ disk <= EffectiveLimits["diskMax"])
    /\ memory # row[s].memory \/ disk # row[s].disk
    /\ Opened(c, [NoCall EXCEPT !.kind = "modify", !.step = "list", !.owner = row[s].owner,
                    !.slot = s, !.vmid = row[s].vmid, !.memory = memory, !.disk = disk,
                    !.limits = EffectiveLimits, !.body.memory = row[s].memory])

GrowthFits(c) ==
    /\ call[c].kind = "modify" /\ call[c].step = "list"
    /\ LET grown == call[c].memory - call[c].body.memory IN
       HostAllows(IF grown > 0 THEN grown ELSE 0, call[c].limits)
    /\ Goes(c, [call[c] EXCEPT !.step = "lock"])

\* The quota is checked in a transaction that ends with the check, against the
\* size the row had when it was read.
LocksForResize(c) ==
    /\ call[c].kind = "modify" /\ LocksCapacity(c)
    /\ QuotaAllows(call[c].owner, call[c].memory - call[c].body.memory, call[c].limits,
                   call[c].slot)
    /\ Goes(c, [call[c] EXCEPT !.step = "update"])

\* The VM first: owns, UpdateVMConfig, ResizeDisk.
UpdatesVM(c) ==
    /\ call[c].step = "update"
    /\ Holding(call[c].vmid) = {call[c].slot} /\ pool[call[c].vmid] > 0
    /\ pool' = [pool EXCEPT ![call[c].vmid] = call[c].memory]
    /\ call' = [call EXCEPT ![c].step = "record"]
    /\ UNCHANGED <<row, override, calls>>

\* SetSpec writes the size whatever has become of the row.
RecordsSpec(c) ==
    /\ call[c].step = "record"
    /\ row' = [row EXCEPT ![call[c].slot].memory = call[c].memory,
                          ![call[c].slot].disk = call[c].disk,
                          ![call[c].slot].least = IF @ < call[c].memory THEN @
                                                                        ELSE call[c].memory]
    /\ call' = [call EXCEPT ![c] = NoCall]
    /\ UNCHANGED <<override, pool, calls>>

-----------------------------------------------------------------------------
(* Others *)

SetsLimits(o) ==
    /\ o # override /\ Usable(WithOverrides(Declared, o))
    /\ override' = o
    /\ UNCHANGED <<row, pool, call, calls>>

\* The worker launches a row's VM, and terminates it (see Instances).
VMAppears(s) ==
    /\ row[s].state = "live" /\ pool[row[s].vmid] = 0
    /\ pool' = [pool EXCEPT ![row[s].vmid] = row[s].memory]
    /\ UNCHANGED <<row, override, call, calls>>

RowEnds(s) ==
    /\ row[s].state = "live"
    /\ row' = [row EXCEPT ![s].state = "gone"]
    /\ pool' = [pool EXCEPT ![row[s].vmid] = 0]
    /\ UNCHANGED <<override, call, calls>>

\* An administrator moves a VM into the pool, or takes one out.
PoolChanges(v, memory) ==
    /\ Holding(v) = {} /\ pool[v] # memory
    /\ pool' = [pool EXCEPT ![v] = memory]
    /\ UNCHANGED <<row, override, call, calls>>

RunSteps(c) ==
    \/ FindsToken(c) \/ ChecksHost(c) \/ ListsPool(c) \/ LocksForLaunch(c)
    \/ CountsQuota(c) \/ InsertsLaunch(c)

AdoptSteps(c)  == ReadsLimits(c) \/ LocksForAdoption(c) \/ InsertsAdopted(c)
ModifySteps(c) == GrowthFits(c) \/ LocksForResize(c) \/ UpdatesVM(c) \/ RecordsSpec(c)

NextAdmission ==
    \/ \E c \in Caller, a \in Account :
          \/ \E t \in Token \cup {NoToken}, b \in Sent : AsksLaunch(c, a, t, b)
          \/ \E v \in Vmid : AsksAdoption(c, a, v)
    \/ \E c \in Caller, s \in Slot, memory \in Memory \cup {Preset}, disk \in Disk :
          AsksResize(c, s, memory, disk)
    \/ \E c \in Caller : RunSteps(c) \/ AdoptSteps(c) \/ ModifySteps(c) \/ GivesUp(c)
    \/ \E o \in Overrides : SetsLimits(o)
    \/ \E s \in Slot : VMAppears(s) \/ RowEnds(s)
    \/ \E v \in Outside, memory \in {0, Preset} : PoolChanges(v, memory)

SpecAdmission == InitAdmission /\ [][NextAdmission]_admissionvars

-----------------------------------------------------------------------------
(* Properties *)

Least == [s \in Slot |-> row[s].least]

(* An instance that enters keeps its account and the cloud within the limits  *)
(* its own request read, however many are admitted at once and whatever an    *)
(* administrator sets meanwhile.  Only a resize, whose check and write are    *)
(* apart on purpose, may pass them: it is left out by counting each row at    *)
(* the least it has had (Run, Adopt, checkQuota, LockCapacity).               *)
AdmittedWithinLimits ==
    [][\A c \in Caller : call[c].reply # "created" /\ call'[c].reply = "created" =>
          LET live == {s \in Slot : row'[s].state = "live"}
              own  == {s \in live : row'[s].owner = call[c].owner}
              l    == call[c].limits
          IN  /\ Within(Cardinality(own), l["instances"])
              /\ Within(Sum(own, Least'), l["memory"])
              /\ Within(Sum(live, Least'), l["budget"])]_admissionvars

(* No insert meets a unique index: two requests with one client token, made   *)
(* at once or after a lost answer, never both come to insert, nor does an     *)
(* adoption of a VM that a launch or an adoption has taken meanwhile.         *)
(* Meeting the index would answer 500 where the original is promised (Run's   *)
(* second look under the lock, Adopt's second LiveInstanceByVMID).            *)
NoIndexMet ==
    \A c \in Caller : call[c].step = "insert" =>
        /\ call[c].token # NoToken => Tokened(call[c].owner, call[c].token) = {}
        /\ call[c].kind = "adopt" => Holding(call[c].vmid) = {}

(* A request repeated with its client token, word for word, is answered with  *)
(* the instance it made and never refused as a different one (openapi's       *)
(* RunInstances, requestHash).                                                *)
RepeatReturnsOriginal ==
    \A c \in Caller : call[c].reply = "mismatch" => call[c].sent # row[call[c].slot].sent
=============================================================================
