# A verification of shake-cloud

shake-cloud is a small EC2-like cloud. An API server written in Go keeps a
ledger of instances, volumes and other resources in PostgreSQL, and makes
Proxmox VE, NetBox, Garage and a Kubernetes cluster agree with it. The modules
here model that server: the worker that carries out what users asked for, one
remote call at a time, while users ask for more, people change VMs in the
Proxmox UI, calls fail and the process is restarted between any two of them;
and the requests, transactions and loops around it.

Run a check with `tlc -config <run>.cfg <module>` (the module of each run is in
`PROJECT.json`) and the proofs with `tlapm <module>.tla` for each of
`InstancesProofs` (with the reconciler's), `VolumesProofs`, `FirewallProofs`,
`AdmissionProofs`, `CatalogProofs`, `ResourcesProofs`, `LedgerAccessProofs` and
`ApiProofs`; the largest takes about five minutes.
`PROJECT.json` lists the components, the runs, the source lines behind every
definition, the hazards and the theorems.

## 1. Inventory of the system

Paths are relative to `api/internal/` unless they begin with another directory.
The last column names the module.

| Part | State it keeps | Operations | What is hard, and what makes it correct | |
|---|---|---|---|---|
| Instance lifecycle: `compute/service.go`, `compute/worker.go`, `db/instances.go` | `instances`, `vmid_quarantine`; VMs, addresses, seed ISOs outside | Run, Request (terminate, stop, start, reboot); worker: claim, launch, power, terminate, finish, retry, give up | crash between a remote call and its record; action replaced while it is carried out; VMIDs taken by others. No VM, address or ISO escapes the ledger, nobody else's VM is touched, every action settles | Instances, Lifecycle |
| Reconciler: `compute/reconcile.go` | `instances.state`; `Service.onboot` in memory | a pass a minute over settled instances | three reads of different ages before one write; beside the worker. State follows the VM, requests are never overwritten | Reconciler |
| Volumes: `compute/volumes.go`, `compute/volume_worker.go`, `db/volumes.go` | `volumes` with disk location and move target; disks in VM configurations | create, attach, detach, modify, delete; returning disks on terminate | move_disk renames the disk; a VM is deleted with every disk on it. No disk is lost, stray or doubled, and a guest sees what is attached to it only | Volumes, VolumeLife |
| Admission: `compute/service.go`, `compute/capacity.go`, `compute/modify.go`, `compute/adopt.go`, `db/limits.go` | sums over live rows, limits, client tokens | RunInstances, Modify, Adopt, the limits endpoints | sums are only right under `LockCapacity`; limits, tokens, host and pool are read before it. Quotas hold, a repeated launch launches once | Admission |
| Security groups and firewall: `compute/securitygroups.go`, `compute/firewall.go`, `db/securitygroups.go` | groups, rules, memberships, `firewall_generation` and the applied one; rules in Proxmox | create, delete, authorize, revoke, set groups; worker: write firewall | rules change while they are written one call at a time; locks taken in two orders. What is recorded as applied is what the rows say, and in the end everything is | Firewall |
| Ledger: `compute/ledger.go`, `netbox/ledger.go` | entries, names and primary addresses in NetBox | a pass every 15 minutes and when woken | a pass works on rows it read before they changed. NetBox converges, live entries stay | Ledger |
| Buckets, databases, functions, services | a row each; Garage, CloudNativePG, Knative, Deployments | create, modify, delete, grant, revoke | the other system is called inside a transaction that may yet fail or lose its name. No thing without a row, no row without its thing | Resources |
| Images, ISOs: `compute/images.go`, `compute/isos.go` | rows, files on the image store, tasks of the node | upload, delete | deletion checked against launches admitted meanwhile; uploads outlive their request | Catalog |
| Access keys, accounts, sessions: `db/keys.go`, `server/handlers.go`, `server/oidc.go`, `server/bootstrap.go` | keys, login attempts, sessions, the bootstrap key's file | create and delete keys, log in and out, start | counting and inserting; callbacks delivered twice; a start with an old file. What may be used once is used once, what is deleted stays so | Access |
| Consoles: `server/console.go`, `compute/console.go` | URLs and tickets in memory | get a URL, load the page, open the socket | a page loaded or a socket opened several times at once | Access |
| Tags, key pairs, audit | one row each | single statements | a new name reaches NetBox (Ledger), a deleted key pair stays in the instances it was given to (Catalog) | Ledger, Catalog |
| HTTP server, portal, `wsrelay`, clients in `proxmox/`, `netbox/`, `garage/`, `cnpg/`, `knative/`, `workload/` | none | decode, call, encode | what the calls do, and that each may fail or lose its answer, is part of the modules that make them | all |
| Configuration, `site`, `seed`, `sshkey` | none | pure functions of files | | not modelled |
| `cli`, `client`, `mcp`, `provider`, `openapi`, `manage.py`, `render_site.py` | none | clients of the HTTP API, documents, scripts | `openapi/shakecloud.yaml` is what the API promises | quoted |

How they interact. HTTP handlers run at the same time as each other and only
meet in PostgreSQL: transactions, row locks and an advisory lock for capacity
(`LockCapacity`). `cmd/shakecloud-api/main.go` starts one worker goroutine (`RunWorker`: instances, then volumes, then
firewalls), the reconciler (every minute), the ledger (every 15 minutes) and a
janitor. Handlers hand work to the worker by setting `pending_action` or a
firewall generation in a row and waking it; the worker leases the row, carries
the action out and clears it only if it is still the one asked for. Worker and
reconciler also share the map `Service.onboot`, the handlers of consoles the
map of `consoleStore`.

## 2. Plan

Written, in this order: `Instances` (the core), its abstract specification
`Lifecycle`, `Reconciler` composed with `Instances`, `Volumes`; then `Firewall`,
`Admission`, `Catalog`, `Resources`, `Ledger` and `Access`, which `MCApi` puts
into one run; and the proofs of all of these: first the instances' and the
reconciler's, then those of `Admission`, `Catalog`, `Ledger` and `Access`, then
`Volumes`, `AdmittedWithinLimits`, `Resources` and `Firewall`; last the abstract
specification `VolumeLife`, which `Volumes` is proved to implement, and the parts of
`MCApi` put together.

What would come next, by importance:

1. **Volumes, extended.** Two volumes of different sizes (a create that takes
   the disk of another whose allocation was not yet recorded, `locate`), and a
   pool listing without the VM that is being terminated.
2. **Tasks that outlive their attempt.** Proxmox's task list as a variable of
   `Instances`, so that a `CreateVM` whose wait timed out may still finish.

## 3. The modules and the code

**Instances.** `row` is the `instances` table: per instance ID the state, the
pending action, attempts, lease, VMID, and whether the VM, the address and the
seed are recorded. `quarantine` is `vmid_quarantine`. `vm`, `address` and `iso`
are Proxmox, NetBox and the image store: who holds each VMID, with its power,
the power `/cluster/resources` shows and its autostart flag, and which
instances an address or a seed ISO exists for. `att` is what `process` has in memory:
the columns it claimed and what its calls returned. `admission` is the pool
listing each `Run` handler in flight has read, `known` the map
`Service.onboot`.

Every remote call and every database write of the worker is a step of its own,
named after what it does (`TakeAddress` / `RecordAddress`, `CreateVM` /
`RecordVM`, ...), so a request, an outsider or a `Restart` comes between any
two. `WorkerFails` is every error return of `carryOut`, followed by what
`process` does with it: retry, abandon the launch or give the action up. A
call that fails after it took effect is its effect followed by `WorkerFails`.
`Finish` is `FinishAction`, which leaves a replaced action alone, and
`AttemptDropped` the write that fails. A lease
runs 15 minutes and an attempt at most 14 (`process`), so `LeaseExpires` is
only possible for a row that no attempt of this process has.

**Lifecycle** is what the API promises about one instance: its states, its
pending action and whether it holds anything. `Instances` implements it for each instance with
`holds <- i \in address \/ \E v \in Vmid : vm[v].owner = i`, that is, an
instance reads `terminated` only when no VM and no address carries its ID.

**Reconciler** EXTENDS `Instances` with one variable, the pass under way: the
rows it read, the listing, the instance at hand and the VM's own status. Its
next-state relation interleaves a pass's calls with everything in `Instances`.

**Volumes** is a component of its own: `vol` is the `volumes` table with its
recorded location and move target, `disks` every disk in every VM's
configuration with its name, its contents (whose data it has) and its size,
`inst` the little of `instances` that matters to volumes, `att` the attempt.
`Located` is `locate`, whose two lookups and write are one step because only
the one worker changes disks and locations. `CreatedSizes` are the sizes
volumes are created with, `MaxSize` the largest they are resized to. The parts
of the inductive invariant stand at the module's end, where a run can check them.

**VolumeLife** is what the API promises about one volume: its states and pending
action, the instance it is asked for, where what was written on it is, and
whether a guest sees it. A disk goes to an instance only to be attached and from
the holder only, comes to be seen only there, and is taken away only when a
detach or the instance's terminate asks for it. `Volumes` implements it for each
volume with `at <- Home(v)`, the VM of the disk with its contents,
`seen <- Seen(v)`, that disk plugged into an instance's VM, and
`leaving <- Leaving(v)`, its instance shutting down. Names, slots, recorded
locations and the worker's attempt are not in it, so every call that only
records or prepares is a stutter.

**Firewall.** `sg` is the groups and their rules, `member` the instance rows
with groups, generation, applied generation and lease, `fw` what Proxmox holds,
`tx` the transaction each handler has open, `writer` the worker's current
write. A request is `Begins`, then one step per statement that can wait or be
seen by others, each with the row locks the code takes (`FOR UPDATE`,
`FOR SHARE`), then a commit; `RollsBack` is a failed or dropped request and
PostgreSQL's answer to a deadlock. A write reads the generation, the groups and
the present rules, replaces them one call at a time, pins the address, sets the
options and the NIC, and records the generation it read first. `WriteFails` is
a call that failed, with its effect or without. `Rendered` is `renderFirewall`:
the rules of an instance's groups in the order they are read, each kind of traffic once; the
query's `ORDER BY direction DESC` puts ingress before egress, which here are
0 and 1. `torn` marks a default group
that was used before `describeSecurityGroups` had given it its rules
(`server/securitygroups.go:122`, outside any transaction); "Known races" below tells
what that does.

**Admission.** `row`, `override` and `pool` are the instances, the
`limit_overrides` row and the pool; `call` is what each request has read. The
capacity lock is a step range (`Locked`) at most one request is in. Run looks
for its token before and under the lock, reads the limits before and counts
under it; Adopt and Modify are modelled with their own orders, Modify with the
gap between its check and its write. `least` in a row remembers its smallest
size, for the property only. Sums are counted unit by unit (`Sum`), as the size
of a set, so that what is known of sets can be used of them.

**Catalog.** `file` is the image store, `library` the rows, `guest` the
instances, `job` the request each client has made. An upload ends in a task
(`TaskEnds`) that runs whether anybody waits or not; a deletion looks for users,
unlinks the file and deletes the row in three steps; a launch resolves its
medium and key at one step and is admitted at another.

**Resources.** One model for five kinds of thing in four systems: `thing` is what
exists there, `record` the committed rows, `demand` each request with the row
it read or is about to commit. The call happens inside the transaction, in the
order each kind's code has it (a bucket is made before its row is inserted, a
service after). `Breaks` ends a request anywhere. Three variables only serve the
property: `doomed` remembers removals that began, `cut` things a failure cut
short, and `mistaken` buckets whose row went with an earlier bucket's of the
same name (`DeleteBucket` deletes the row by name, without a lock, `buckets.go:205`).

**Ledger.** `vm` is the rows, `entry` and `address` NetBox, `sync` the pass with
the rows it read. Each entry a pass writes, names or removes is a step, and
launches, adoptions, new names and terminates come in between. Wake-ups may be
lost with the process; the timer always comes.

**Access.** `key` and `keyfile` are the access keys and the bootstrap key's
file, `attempt` and `session` a login's rows, `console` the URLs in memory with
their tickets, `visit` what each request is at. `serving` is FALSE from a
restart to the end of `ReconcileBootstrapKey`.

**MCApi** EXTENDS these six. They share no variable; the variable `part` says
which of them is at work in a behaviour, and the others rest in their first
state. So one run explores each of them fully but not their product, which
would say nothing more.

**MC modules** give the constants values. Modules also hold operators marked
*Mutant* in a comment: the same operation with a deliberate fault (a dropped
guard, a stale value, a missing reset). No specification uses them. Put in place of the
operator they follow, each breaks one property, which shows the
property depends on that operation; `PROJECT.json` lists the pairs.

## 4. Runs

| Run | What it asks | Bounds |
|---|---|---|
| `Instances_safety` | no VM, address or VMID escapes or is shared, no foreign VM is touched, what reads launched is whole, attempts hold their lease | 2 instances, 3 VMIDs, 1 attempt (and any number resumed after a crash), launch and terminate, outsiders who create VMs in the pool or outside it |
| `Instances_lifecycle` | implements `Lifecycle`; terminates complete; actions settle; the invariant `Consistent` | 1 instance, 2 VMIDs, 2 attempts, every action, every kind of outsider, lagging list |
| `Instances_seed` | *violated:* the seed ISO is released before `terminated` | 1 instance, nobody else |
| `Instances_power` | *violated:* a finished start or stop has been done | 1 instance, lagging list, nobody else |
| `Reconciler_converges` | states follow VMs; passes never overwrite a request | 1 instance, 1 VMID, power changes from outside, lagging list |
| `Reconciler_onboot` | *violated:* an outside stop leaves onboot alone | 1 instance, power changes from outside |
| `Reconciler_race` | *violated:* onboot follows the owner | 1 instance, nobody else |
| `Volumes_safety` | no disk lost, doubled or stray; locations true; the invariant `Consistent` | 2 volumes, 1 instance, 3 slots, 1 size (`MaxSize` = 1, so nothing is resized here), 1 attempt |
| `Volumes_alone` | the ledger covers the disk; implements `VolumeLife`; actions settle; terminates complete | 1 volume, 2 instances, 2 slots, 2 sizes and resizes, 2 attempts |
| `Volumes_reuse` | *violated:* no disk lost when Proxmox reuses names | as `Volumes_safety` |
| `Api` | the six parts of `MCApi`, see below | two requests at a time in each part; of resources three in all |
| `Admission_repeat` | *violated:* a request repeated word for word with its client token is answered with what it made | 1 slot, 1 caller, 1 token, an administrator who changes the default disk size |

Why the bounds are enough to be interesting. Two instances and three VMIDs let
both launch, lose a VMID to an outsider, quarantine it and contend for the
last one. Two attempts give a retry and a last failure; they are for the run of
one instance, which checks `Consistent` and so the same safety invariants. In
`Instances_safety` a failed attempt gives up at once, and one that was cut off (`Restart`,
`AttemptDropped`) is resumed as often as it happens. One worker carries out
one row at a time, so a second instance matters only through VMIDs, and power
actions and the lifecycle are asked of one. Two volumes are needed for one to
take what belongs to the other, two instances for a volume to be given from
one to the other. With one attempt every failure in `Volumes_safety` gives up
at once, the case that leaves most behind; the retry is `Volumes_alone`'s.
Instances and volumes are interchangeable, and symmetry is used in runs of
safety properties only. Deadlock is not checked: a system in which everything
is terminated or deleted, and nobody asks for anything, rightly stops.

`ReusesNames = FALSE` in `Volumes_safety` is an assumption about Proxmox, not a
fact: it hands a moved or new disk the lowest number free on its VM, which
may be one that a row still has on record after a crash. `Volumes_reuse` shows
what comes of it with the behaviour Proxmox has; `Volumes_safety` shows that nothing else
goes wrong. `Volumes_alone` keeps the real behaviour, which one volume cannot
be hurt by.

Volumes are created with one size in the run with two of them, and the run with
two sizes has one volume, because `LedgerCoversDisk` does not hold of two volumes
and two sizes: a create reserves a slot and fails before its disk is recorded;
a second one reserves the same slot, allocates a disk of another size and fails
or is cut off; the first, tried again, takes that disk for its own (`locate`,
`volume_worker.go:251`), whatever its size.

`ForeignUntouched` and `LaunchedIsWhole` are checked with outsiders who create
VMs and do not remove any. With outsiders who remove an instance's VM and put
another in its place between the ownership check and the call that
follows, no code that talks to Proxmox could keep the first, and the second does not hold by
nature.

### What `Api` checks

| Part | Property | What it says | Instance |
|---|---|---|---|
| Firewall | `FirewallIsTrue` | an instance whose applied generation is its generation has exactly its groups' rules on its VM, and filtering on | 1 machine, 2 groups, 2 kinds of traffic, 2 handlers, 2 requests of every kind, 2 generations, `MaxListed` = 1 |
| | `NeverShutNorOpen` | while rules are replaced, what old and new allow stays allowed; nothing is filtered before its rules are there; no first boot without the filter | |
| | `FirewallCatchesUp` | what is behind is written in the end | |
| Admission | `AdmittedWithinLimits` | what enters leaves account and cloud within the limits its request read | 2 slots, 2 callers, 2 calls, 3 VMIDs of which one is reserved and one taken by outsiders, limits that change |
| | `NoIndexMet` | no insert meets a unique index | |
| Catalog | `MediaKeptForTheirUsers` | listed media are whole, deletions spare the users they looked at, keys reach their instances | 1 image, 1 ISO, 2 instances, 2 clients, 4 requests |
| Resources | `ResourcesAccounted` | rows, things and permissions agree, but where a failure cut a request short and for buckets that lost their row by their name; of two changes at once both are kept | 2 accounts, 3 kinds, 3 things, 3 requests, 2 of them at a time |
| Ledger | `OnlyDeadEntriesRemoved` | an entry goes only with its instance | 1 mirrored instance, 1 foreign entry, 2 names, 5 events, 1 fault |
| | `LedgerConverges` | NetBox is in step in the end | |
| Access | `TakenOnce` | one session a login attempt, one socket a ticket | 1 person, 1 attempt, 2 keys and a limit of 1, 1 URL, 2 requests at once, 5 visits |
| | `KeysKept` | keys stay within the limit, a deleted key stays deleted, a start leaves only the file's bootstrap key | |

The firewall part starts from no instance and no default group, or from one
settled in the other group with the default group made. `FirewallIsTrue` makes an
exception of groups that are *torn*: `describeSecurityGroups` inserts the default group and its
allow-all rules in separate statements, so a request dropped between them
leaves a group without rules, which an instance launched then is filtered by
although the comment at `compute/securitygroups.go:64` says that the default
group allows all traffic. Nothing later moves the generation of that instance;
without the exception the property is violated, with no failure
at all, when a launch uses the group between those statements. `MaxListed` bounds in TLC
how many rules failed writes leave on a VM's list; the theorem `FirewallAlwaysTrue` holds for any
value of it. `AdmittedWithinLimits` counts each row at the least
size it has had, because `Modify` checks the quota in one transaction and writes
the size in another: a launch in between lets the resize past the limit, on
which no document says otherwise.

Why these bounds are enough. Every hazard here but one is between two: a writer and a
request, two requests under one lock or for one name, a pass and an event. Two
requests at a time, of every kind, over data where the second can meet what the
first does (a VMID, a token, a limit of two instances, a name, a medium) let
each of them happen; each mutant of `PROJECT.json` is one of these races with
its protection taken away, and the run finds it. Bucket names need a third
request, though never more than two at a time: one request deletes the bucket,
one makes the name again, and one that read the first bucket deletes by name. Hence
`MaxDemands` = 3. What there is at first, a bucket, a key or both, or a service,
is one account's, which loses nothing because accounts are alike. Generations stop at 2
because a write only compares the one it read with the present one.

### What the violated runs show

* `Instances_seed`: `terminate` deletes the ISO the row names (`worker.go:634`),
  and the name is written after the upload. The API description promises "The
  VM, its disk, the seed ISO and the address are all released before it
  reaches `terminated`" (`openapi/shakecloud.yaml:863`).
* `Instances_power`: `power` believes the status in the pool's list
  (`worker.go:569`), which by the reconciler's comment "trails a power change by
  up to about ten seconds". A stop and a start in quick succession end with the
  instance `running` and the VM off. The reconciler later corrects the state
  (`StateConverges`), not the VM.
* `Admission_repeat`: `Run` fingerprints the request after `validate` has filled
  in the defaults in force (`service.go:456`). When an administrator changes the default
  disk size between a request and its repetition, the repetition is refused as
  a different one, where "Repeating a request with the same client_token returns
  the original instance" (`openapi/shakecloud.yaml:665`).
* `Reconciler_onboot`: the comment at `reconcile.go:100` says a VM that stopped
  outside the API keeps onboot until its owner acts. The next pass finds the
  state already `stopped` and clears it.
* `Reconciler_race`: `setOnboot` writes the flag outside `onbootMu` and remembers it
  afterwards (`worker.go:577`); interleaved with a pass, the wrong flag is taken
  as known and never written again.
* `Volumes_reuse`: after a crash between `move_disk` and the write of the new place, another
  disk can get the recorded name, and `locate` (`volume_worker.go:238`) takes
  it. The migration says "the disk is either still at (vmid, config_key) or
  already at (move_vmid, move_key); nothing else".

### Known races

Three races are in the code and in the models, and the properties above except them
by name or do not speak of them. None needs a failure. TLC finds each when the
formula named is checked in its module.

* A bucket loses its row by its name. Two requests read a bucket to delete it. The
  first deletes it, a third makes the name again, and the second hears from Garage
  that its bucket is gone, takes this for "Already gone in Garage; finish the
  clean-up here" (`buckets.go:200`) and deletes the row by name, which is the new
  bucket's (`buckets.go:205`). The new bucket stays in Garage with no account on
  record, while "the cloud API keeps the account that owns each bucket and key"
  (`buckets.go:15`). `ResourcesAccounted` excepts such buckets (`mistaken`), and
  says of each that the removal of another bucket had begun
  (`MistakenAreNamesakes`), so no row goes this way for another reason. `Resources`
  refutes `mistaken = {}`.
* A default group is used before it has its rules. A listing inserts the group, a
  launch takes it, and the instance's firewall is written without the rules. Inserting
  them moves no generation, so the instance reads as up to date, where "generation
  moves whenever that input changes"
  (`db/migrations/0006_volumes_and_security_groups.sql:89`). `FirewallIsTrue` excepts such groups
  (`torn`); `Firewall` refutes it without that conjunct.
* An address outlives its instance. A pass has read the row of an adopted instance; its
  terminate then looks for addresses and finishes; then the pass makes the address
  (`ledger.go:104`), which nobody releases. The API description promises "the address"
  released "before it reaches `terminated`" (`openapi/shakecloud.yaml:863`).
  `LedgerConverges` speaks of instances that exist. `Ledger` refutes
  `vm[i].life = "terminated" => ~address[i].there`.

### Fairness

Liveness is checked under what the code's scheduling gives. The worker's
goroutine runs and each call ends, because `process` has a deadline
(`WF` of its steps). `ClaimWork` and `ClaimVolumeWork` take rows in the order
they fell due, so a row that is due again and again is not passed over
for ever (`SF` of claims). Leases run out. The reconciler ticks. Failures and restarts are
unbounded in number, but an outage ends (`OutageEnds`): from some time on an
attempt fails only when no call of it could succeed, and the process stays up.
Without it a remote system that is down for ever would refute every liveness
property. Users and
outsiders are never assumed to act. In `Firewall` a transaction ends, one that
waits for ever is rolled back (PostgreSQL's deadlock detection), writes go on or give up, leases run out,
claims are taken in order (`SF`), and restarts and needless failures stop; in
`Ledger` the loop runs. `MCApi` asks each of these of the part that is at work.
Nobody is assumed to make a request there; for `StateConverges` and the volumes' settling they are
assumed to stop interfering at some time.

## 5. Proofs

All theorems hold for every value of the constants that meets the module's
assumption (`ConstantsAssumption`, `AdmissionAssumption`, ...), which the runs
evaluate. Where more is assumed, it is said. None assumes fairness.

| Module | Theorem | Property |
|---|---|---|
| `InstancesProofs` | `AlwaysConsistent` | `Consistent`, the inductive invariant |
| | `AlwaysTyped`, `VMsAreTracked`, `AddressesAreTracked`, `VmidsAreExclusive`, `AlwaysUnderLease` | `TypeOK`, `VMIsTracked`, `AddressIsTracked`, `VmidHeldOnce` with `QuarantineKept`, `WorksUnderLease` |
| | `LifecycleImplemented` | `ImplementsLifecycle` |
| | `LaunchedAreWhole`, `ForeignIsUntouched` | `LaunchedIsWhole`, `ForeignUntouched`, assuming `"remove" \notin Outside` |
| | `PassTyped`, `ConsistentBesideReconciler`, `ObservedImplemented` | of `Reconciler`: `TypeOKPass`, `Consistent`, `ImplementsObserved` |
| `VolumesProofs` | `VolumesConsistent` | `Consistent`, the inductive invariant, assuming `NamesApart` like all of these: `~ReusesNames`, or one volume |
| | `VolumesTyped`, `DisksAreKept`, `LocationsAreTrue`, `NoDiskIsStray` | `TypeOK`, `NoDiskLost`, `LocationIsTrue`, `NoDiskStray` |
| | `LedgerCovers` | `LedgerCoversDisk`, assuming also that volumes are created with one size (`OneSize`) or that there is one volume |
| | `VolumeLifeImplemented` | `ImplementsVolumeLife` |
| `FirewallProofs` | `RenderedAllowsAll` | what `Rendered` allows is what the rules allow |
| | `FirewallTyped`, `FirewallAlwaysTrue`, `NeverShutNorOpenAlways` | `TypeOKFirewall`, `FirewallIsTrue`, `NeverShutNorOpen` |
| `AdmissionProofs` | `AdmissionTyped`, `IndexNeverMet`, `AdmissionsWithinLimits` | `TypeOKAdmission`, `NoIndexMet`, `AdmittedWithinLimits` |
| `CatalogProofs` | `CatalogTyped`, `MediaAreKept` | `TypeOKCatalog`, `MediaKeptForTheirUsers` |
| `ResourcesProofs` | `ResourcesTyped`, `ResourcesAreAccounted` | `TypeOKResources`, `ResourcesAccounted` |
| `LedgerAccessProofs` | `LedgerTyped`, `DeadEntriesOnly` | `TypeOKLedger`, `OnlyDeadEntriesRemoved` |
| | `AccessTyped`, `NothingTakenTwice`, `KeysKeptAlways` | `TypeOKAccess`, `TakenOnce`, `KeysKept` |
| `ApiProofs` | `ApiTyped`, `ApiSafe` | of `SpecApi`, the parts side by side: `TypeOKApi`, and every other safety property the run `Api` checks |

**Instances.** `VMIsTracked` is not inductive: that `CreateVM` makes the only VM of
the instance depends on what the attempt has seen since it was claimed. `Consistent`
adds three things. `RowsAreSound`: a row with a pending action is live and has
a VMID. `AttemptIsSound`: an attempt holds the lease of a row that has an
action pending, its copy of the VMID is the row's (no other actor changes the
VMID of a leased row), and it is at a terminate's step exactly when its own
action is a terminate. `AttemptKnows`: from the ownership check to `CreateVM`
or `MoveVmid` no VM at the VMID is the instance's, and when a terminate is
about to finish, neither VM nor address is; both are kept because only the
attempt creates what carries the instance's ID. The proof has a lemma per
group of actions, in each a step per conjunct the actions can disturb, and a
lemma that steps which leave the relevant variables alone keep the invariant.

**Lifecycle.** The step simulation needs to know which state each action may be
pending in (`StateFits`), that an attempt carries out what its row asks unless a
terminate replaced it (`AttemptFits`), and that whatever has a VM has an
address until its terminate (`AddressKept`): otherwise an outsider who removes
a VM would release something, which `Lifecycle` does not let anybody else do.
Each action then maps to one action of `Lifecycle` for the instance at hand and to
a stutter for all others.

**Ownership.** What is on record, or was made by the attempt, is there until a
terminate is asked for (`SeedKept`, `VMKept`), and each step knows what the
steps before it made (`AttemptMade`). Both theorems fail if outsiders remove VMs,
hence the assumption; the other proofs do without it.

**Reconciler.** Its writes touch settled rows and flags only, so they keep `Fits`,
and its one change of state is the `Observed` step of `Lifecycle`.

**Volumes.** None of the four safety properties is inductive: each depends on
what a worker that was cut off anywhere left behind. `Consistent` says so of the
state between any two calls. `WorldIsSound`: a row leads to its disk, and every
disk is led to by a row. A volume's data is on one disk, which is where the row has it
recorded or where the row says it is going (`LocationFits`, `RecordIsTrue`,
`HasData`); no two rows have one place or one name on record
(`PlacesDiffer`, `NamesDiffer`); and a disk that sits where a row looks is that
row's (`NotMistaken`, `DataFindable`, `BlankFindable`). `AttemptIsSound`: the
attempt works on a row that still asks for it, unless a terminate took the
volume's instance. `StepKnows`: what each call found is there until the next one
uses it. `NamesApart` is what `NotMistaken` needs: a disk that Proxmox allocates
or moves gets a name that is on no row, because Proxmox reuses none or because
the only row has its own disk under the name it records, so that name is not
free. With two volumes and the names Proxmox gives, `Volumes_reuse` refutes the theorem.
`LedgerCovers` adds what is known of disks without data: they have the one size
volumes are created with, or the size of the only volume, which is not resized before
it is written on. Two sizes with two volumes refute it, as section 4 tells.

**VolumeLife.** At most one disk has a volume's contents (`DataFindable`), so
`Home` and `Seen` change only when that disk does, and each call on a disk concerns
the volume of the attempt and no other (`ContentsAtHand`). What is missing from
`Consistent` is that an attach only unplugs or moves a disk that waits on the holder
(`Outward`): without it a retried attach could take the disk away from the guest
that has it. A move for a detach or a terminate is then `Taken`, for
an attach `Given`, and `Plug` is `Shown`, for a resize on the holder a
stutter; what `StepKnows` says of the last step is what `Attached`, `Detached`, `Deleted`
and `Returned` ask for.

**The parts together.** A step of `MCApi` is a step of one part and leaves the
variables of the others alone, and all start in their first states, so its behaviours are
behaviours of every part (`EachPart`) and the theorems carry over.

**Firewall.** `FirewallIsTrue` is a claim about rules that are changed by
anybody and written by one worker that never locks them. `TxsSound` is what the row
locks exclude: a change of rules holds its group, so nobody becomes a member of it until it
commits, by when it has every member's row and moves its generation; a change of
membership holds groups that exist. `WriterSound` says how far the write is: while new rules
go in, the VM has a tail of the wanted list and then the old one, and while
old ones go out, the wanted list and then a head of the old one (`ListSound`);
what the write read still holds unless the generation has moved on
(`ReadSound`). So the generation it records is the present one only if
the rules it wrote are the present ones, and an instance that is up to date is
never being rewritten. Torn groups are excepted as in the property.
`NeverShutNorOpen` follows from the place in the list. `RenderedAllowsAll` needs that rules numbered by
how many come before them fill their places without gaps (`PlacesAreTaken`, by the
pigeonhole principle), which makes `Rendered` a list. Least elements, here and in the
other modules, come from the natural numbers being well-founded.

**Admission.** A request at `count` or `insert` is the only one there, and what
it looked up since it took the lock (`LookHolds`) is still true, because only
such a request inserts. The room a request counted is still there when it
inserts (`RoomFor`), since in between rows only end or change their size, and the least size of
a row never grows. Its arithmetic is on sums, which as sizes of sets can only
shrink with the set (`Sum`).

**Resources.** A creation has the thing it makes to itself until its row is
committed, what a deletion removed stays removed, and the lock on a service's row
keeps changes of it and its deletion apart (`Apart`). So a thing without a row
belongs to an open creation, was cut short by a failure, or is a bucket whose row was
taken by its name (`ThingsSound`), and
thing and row of a service differ only during its one open change (`SpecsSound`).
That the last of these happens only to a bucket, and only when the removal of another was begun,
is an induction of its own: a deletion that has got past Garage has doomed its own
thing, and the rows it takes beside are other buckets' (`NamesakesSound`).

**Catalog.** An upload's medium is nobody else's and
not yet listed (`UploadSound`), none of the instances a deletion looked at uses the
file (`DeletionSound`), and a launch is for an instance of its own (`LaunchSound`).
**Ledger.** A row only moves on, so what a pass read is behind it
(`RowsBehind`), and only the pass makes entries, of instances whose rows it has
read (`EntriesKnown`), so every entry it found is of such an instance
(`PassKnows`). The theorem rests on these two facts, not on a race of
the sweep with a launch: a launch's entry is made by a later pass of the same goroutine. **Access.** A taken attempt has one request, or none (`AttemptsSound`); a
ticket set on a URL was never handed out (`TicketsSound`); a request that makes a key holds its
account's lock, and its count is still true at the insert (`KeysSound`).

Only model-checked: liveness, which is out of the prover's reach (`TerminateCompletes`,
`ActionSettles`, `StateConverges`, `FirewallCatchesUp`, `LedgerConverges`). Every
invariant and every action property of a passing run is stated by a theorem.

## 6. What is left out of the modelled parts

* Specifications, tags, users and all wording. An address or an ISO is
  "there or not" per instance.
* Proxmox tasks that go on after the attempt that waited for them has timed out.
* A pool listing that omits a VM which is in the pool; in `Instances`, adopted
  instances; `state_reason`.
* In `Instances` a launch is refused for want of a VMID only; quotas and the
  budget are `Admission`'s, where the worker is the environment.
* In `Volumes`: leases (they only delay a claim), `ensureHolder` (the holder
  VM is there), storage tiers, and the other work the same goroutine does. An
  instance is settled, busy, shutting down or terminated.
* In `Firewall`: ports, protocols and addresses of a rule, several rules in one
  request, several accounts.
* In `Admission`: vCPUs (memory stands for them), the storage tier of the root disk,
  ballooning; images, keys and subnets of a request are not looked up.
* In `Catalog`: ISOs that are in the store without a row; several key pairs.
* In `Resources`: limits on the number of an account's resources, the objects one
  Kubernetes workload consists of and the retries of `Apply`, permissions other than
  all or none, checks of a request's shape.
* In `Reconciler`: outsiders who replace a VM, so that a pass, which checks that a VM is in
  the pool but not whose it is (`reconcile.go:106`), sets onboot on somebody else's.
* In `Ledger`: the cluster and tag lookups, and the fields of an entry other than
  status, name and primary address.
* In `Access`: hashing, signatures and token verification, further keys made
  by the bootstrap account, the bytes of a console.

Not modelled: configuration, `site`, `seed` (pure functions of files), and the
clients of the HTTP API (`cli`, `client`, `mcp`, `provider`), which keep no state that
others share.
