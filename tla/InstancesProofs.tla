-------------------------- MODULE InstancesProofs --------------------------
(***************************************************************************)
(* Proofs about the instance lifecycle, for any number of instances and    *)
(* VMIDs, any outsiders and any listing.  The argument is one inductive    *)
(* invariant, Consistent: each call the worker makes leaves Proxmox,       *)
(* NetBox and the rows in agreement about who owns what, whatever was      *)
(* asked, failed or restarted before it.                                   *)
(*                                                                         *)
(* From it follows that Instances implements Lifecycle: every instance     *)
(* goes through the states the API promises and no others.  The argument   *)
(* adds to Consistent which states an action may be pending in, and that   *)
(* whatever has a VM has an address, so that losing a VM is no step of its *)
(* own.                                                                    *)
(*                                                                         *)
(* With outsiders who remove no instance's VM, an instance that reads      *)
(* launched has everything it was launched with, and nobody else's VM is   *)
(* ever touched.  Both follow from one more invariant, Whole: what is on   *)
(* record, and what the attempt has made, is there until a terminate is    *)
(* asked for, and each step of an attempt knows what was made before it.   *)
(*                                                                         *)
(* The reconciler beside everything else disturbs nothing: what holds of   *)
(* the rows, Proxmox and NetBox without it holds with it, and it adds to   *)
(* the lifecycle only that a settled instance follows its VM's power.      *)
(***************************************************************************)
EXTENDS Reconciler, TLAPS

-----------------------------------------------------------------------------
(* Facts the steps share                                                    *)

\* An attempt under way has an instance and a VMID of its own, and its row is live.
LEMMA AttemptHasRow ==
  ASSUME Consistent, att.step # "idle"
  PROVE  /\ att.inst \in Instance /\ att.vmid \in Vmid
         /\ row[att.inst].vmid = att.vmid /\ Live(att.inst)
         /\ row[att.inst].leased /\ row[att.inst].action # "none"
         /\ att.action # "none"
BY ConstantsAssumption DEF Consistent, AttemptIsSound, RowsAreSound, TypeOK, Attempt

\* The rows stay sound while nothing is acquired: VMs and addresses may only go.
LEMMA NothingAcquired ==
  ASSUME Consistent, UNCHANGED <<row, quarantine, admission>>,
         address' \subseteq address,
         \A v \in Vmid : vm'[v].owner \in {vm[v].owner, Nobody} \cup Foreign
  PROVE  RowsAreSound' /\ VmidHeldOnce' /\ QuarantineKept' /\ VMIsTracked' /\ AddressIsTracked'
<1>1. RowsAreSound' /\ VmidHeldOnce' /\ QuarantineKept' /\ AddressIsTracked'
  BY DEF Consistent, RowsAreSound, VmidHeldOnce, QuarantineKept, AddressIsTracked, Live
<1>2. VMIsTracked'
  BY ConstantsAssumption DEF Consistent, VMIsTracked, Live
<1>. QED  BY <1>1, <1>2

\* An attempt stays sound from one of its steps to the next.
LEMMA AttemptGoesOn ==
  ASSUME Consistent, att.step \notin {"idle", "finish"}, UNCHANGED row,
         att'.inst = att.inst, att'.action = att.action, att'.vmid = att.vmid,
         att'.step # "idle",
         att'.step = "finish" \/ (att'.step \in EndStep <=> att.step \in EndStep)
  PROVE  AttemptIsSound'
BY AttemptHasRow, ConstantsAssumption DEF Consistent, AttemptIsSound

\* What settling a row, or only giving its lease back, does to it.
LEMMA SettledRow ==
  ASSUME NEW r \in Row, NEW s \in State
  PROVE  /\ Settled(r, s) \in Row
         /\ Settled(r, s).vmid = r.vmid
         /\ Settled(r, s).state = s
         /\ Settled(r, s).action = "none"
<1>1. "none" \in Action /\ 0 \in 0..MaxAttempts
  BY ConstantsAssumption DEF Action
<1>. QED  BY <1>1 DEF Settled, Row

LEMMA ReleasedRow ==
  ASSUME NEW r \in Row
  PROVE  /\ Released(r) \in Row
         /\ Released(r).vmid = r.vmid
         /\ Released(r).state = r.state
         /\ Released(r).action = r.action
BY DEF Released, Row

-----------------------------------------------------------------------------
(* Initially                                                                *)

LEMMA ConsistentAtFirst == Init => Consistent
<1> SUFFICES ASSUME Init PROVE Consistent
  OBVIOUS
<1> USE ConstantsAssumption
<1>1. TypeOK
  BY DEF Init, TypeOK, Row, Attempt, Machine, NoRow, NoVM, NotAsked, Idle, State, Action,
         Step, Verb
<1>2. RowsAreSound /\ VmidHeldOnce /\ QuarantineKept /\ AddressIsTracked
  BY DEF Init, RowsAreSound, VmidHeldOnce, QuarantineKept, AddressIsTracked, Live, NoRow,
         NotAsked
<1>3. AttemptIsSound /\ AttemptKnows
  BY DEF Init, AttemptIsSound, AttemptKnows, Idle
<1>4. VMIsTracked
  BY DEF Init, VMIsTracked, NoVM
<1>. QED  BY <1>1, <1>2, <1>3, <1>4 DEF Consistent

-----------------------------------------------------------------------------
(* Requests                                                                 *)

LEMMA ApiKeeps ==
  ASSUME Consistent, NEW i \in Instance, Api(i)
  PROVE  Consistent'
<1> USE ConstantsAssumption DEF ledger, backend, memory
<1>1. CASE RunLists(i) \/ RunRefused(i)
  <2>1. TypeOK'
    <3>1. PICK a \in [asked : BOOLEAN, visible : SUBSET Vmid] :
            admission' = [admission EXCEPT ![i] = a]
      BY <1>1 DEF RunLists, RunRefused, Listed, NotAsked
    <3>. QED  BY <1>1, <3>1 DEF RunLists, RunRefused, Consistent, TypeOK
  <2>2. AttemptIsSound' /\ AttemptKnows' /\ VmidHeldOnce' /\ QuarantineKept'
          /\ VMIsTracked' /\ AddressIsTracked'
    BY <1>1 DEF RunLists, RunRefused, Consistent, AttemptIsSound, AttemptKnows, VmidHeldOnce,
                QuarantineKept, VMIsTracked, AddressIsTracked, Live
  <2>3. RowsAreSound'
    BY <1>1 DEF RunLists, RunRefused, NotAsked, Consistent, TypeOK, RowsAreSound, Live
  <2>. QED  BY <2>1, <2>2, <2>3 DEF Consistent
<1>2. CASE RunAdmits(i)
  <2>1. PICK v \in Vmid :
          /\ Allocates(admission[i].visible, v)
          /\ row' = [row EXCEPT ![i] = [NoRow EXCEPT !.state = "pending",
                                                     !.action = "launch",
                                                     !.vmid = v]]
    BY <1>2 DEF RunAdmits
  <2>2. /\ row[i].state = "absent" /\ ~Live(i) /\ att.inst # i
        /\ v \in Free(admission[i].visible)
    BY <1>2, <2>1 DEF RunAdmits, Allocates, Consistent, RowsAreSound, AttemptIsSound, Live
  <2>3. TypeOK'
    <3>1. [NoRow EXCEPT !.state = "pending", !.action = "launch", !.vmid = v] \in Row
      <4>1. NoRow \in Row
        BY DEF NoRow, Row, State, Action
      <4>. QED  BY <4>1 DEF Row, State, Action
    <3>2. row' \in [Instance -> Row]
      BY <2>1, <3>1 DEF Consistent, TypeOK
    <3>3. admission' \in [Instance -> [asked : BOOLEAN, visible : SUBSET Vmid]]
      BY <1>2 DEF RunAdmits, NotAsked, Consistent, TypeOK
    <3>. QED  BY <1>2, <3>2, <3>3 DEF RunAdmits, Consistent, TypeOK
  <2>4. RowsAreSound'
    BY <1>2, <2>1 DEF RunAdmits, NotAsked, NoRow, Consistent, TypeOK, RowsAreSound, Live
  <2>5. AttemptIsSound' /\ AttemptKnows'
    BY <1>2, <2>1, <2>2 DEF RunAdmits, Consistent, TypeOK, Attempt, AttemptIsSound, AttemptKnows
  <2>6. VmidHeldOnce' /\ QuarantineKept'
    BY <1>2, <2>1, <2>2 DEF RunAdmits, NoRow, Free, Consistent, TypeOK, VmidHeldOnce,
                            QuarantineKept, Live
  <2>7. VMIsTracked' /\ AddressIsTracked'
    BY <1>2, <2>1, <2>2 DEF RunAdmits, NoRow, Consistent, TypeOK, VMIsTracked,
                            AddressIsTracked, Live
  <2>. QED  BY <2>3, <2>4, <2>5, <2>6, <2>7 DEF Consistent
<1>3. CASE RequestTerminate(i) \/ RequestStop(i) \/ RequestStart(i) \/ RequestReboot(i)
  <2>1. PICK s \in State \ {"absent", "terminated"}, a \in Action \ {"none"} : SetAction(i, s, a)
    BY <1>3 DEF RequestTerminate, RequestStop, RequestStart, RequestReboot, State, Action
  <2>2. Live(i)
    BY <1>3 DEF RequestTerminate, RequestStop, RequestStart, RequestReboot, Live
  <2> USE <2>1, <2>2 DEF SetAction, Consistent
  <2>3. TypeOK'
    <3>1. [row[i] EXCEPT !.state = s, !.action = a, !.attempts = 0] \in Row
      <4>1. row[i] \in Row /\ s \in State /\ a \in Action /\ 0 \in 0..MaxAttempts
        BY DEF TypeOK
      <4>. QED  BY <4>1 DEF Row
    <3>2. row' = [row EXCEPT ![i] = [row[i] EXCEPT !.state = s, !.action = a, !.attempts = 0]]
      OBVIOUS
    <3>3. row' \in [Instance -> Row]
      BY <3>1, <3>2 DEF TypeOK
    <3>. QED  BY <3>3 DEF TypeOK
  <2>4. RowsAreSound' /\ VmidHeldOnce' /\ QuarantineKept' /\ VMIsTracked' /\ AddressIsTracked'
    BY DEF TypeOK, Row, RowsAreSound, VmidHeldOnce, QuarantineKept, VMIsTracked,
           AddressIsTracked, Live
  <2>5. AttemptIsSound' /\ AttemptKnows'
    BY DEF TypeOK, Row, Attempt, AttemptIsSound, AttemptKnows
  <2>. QED  BY <2>3, <2>4, <2>5
<1>. QED  BY <1>1, <1>2, <1>3 DEF Api

-----------------------------------------------------------------------------
(* Claiming a row, and a lease that runs out                                *)

LEMMA ClaimKeeps ==
  ASSUME Consistent, NEW i \in Instance, Claim(i)
  PROVE  Consistent'
<1> USE ConstantsAssumption DEF backend, memory
<1>1. row[i] \in Row /\ Live(i) /\ row[i].vmid \in Vmid
  BY DEF Consistent, TypeOK, RowsAreSound, Claim
<1>2. TypeOK'
  <2>1. row' \in [Instance -> Row]
    BY <1>1 DEF Claim, Consistent, TypeOK, Row
  <2>2. att' \in Attempt
    BY <1>1 DEF Claim, Row, Attempt, FirstStep, LaunchFrom, VerbOf, Verb, Step, LaunchStep,
                PowerStep, EndStep, Action
  <2>. QED  BY <2>1, <2>2 DEF Claim, Consistent, TypeOK
<1>3. RowsAreSound' /\ VmidHeldOnce' /\ QuarantineKept' /\ VMIsTracked' /\ AddressIsTracked'
  BY <1>1 DEF Claim, Consistent, TypeOK, RowsAreSound, VmidHeldOnce, QuarantineKept,
              VMIsTracked, AddressIsTracked, Live, Row
<1>4. AttemptIsSound' /\ AttemptKnows'
  BY <1>1 DEF Claim, Consistent, TypeOK, AttemptIsSound, AttemptKnows, FirstStep, LaunchFrom,
              EndStep, Row
<1>. QED  BY <1>2, <1>3, <1>4 DEF Consistent

LEMMA LeaseExpiresKeeps ==
  ASSUME Consistent, NEW i \in Instance, LeaseExpires(i)
  PROVE  Consistent'
<1> USE DEF backend, memory, LeaseExpires
<1>1. TypeOK'
  <2>1. row[i] \in Row
    BY DEF Consistent, TypeOK
  <2>2. row' \in [Instance -> Row]
    BY <2>1 DEF Consistent, TypeOK, Row
  <2>. QED  BY <2>2 DEF Consistent, TypeOK
<1>2. RowsAreSound' /\ VmidHeldOnce' /\ QuarantineKept' /\ VMIsTracked' /\ AddressIsTracked'
  BY DEF Consistent, TypeOK, RowsAreSound, VmidHeldOnce, QuarantineKept, VMIsTracked,
         AddressIsTracked, Live, Row
<1>3. AttemptIsSound' /\ AttemptKnows'
  BY DEF Consistent, TypeOK, Attempt, AttemptIsSound, AttemptKnows, Row
<1>. QED  BY <1>1, <1>2, <1>3 DEF Consistent

-----------------------------------------------------------------------------
(* The end of an attempt                                                    *)

\* However an attempt ends, its row keeps its VMID, and reads terminated only when
\* nothing is asked of it any more and nothing carries its ID.
LEMMA AttemptOver ==
  ASSUME Consistent, att.step # "idle", att' = Idle,
         UNCHANGED <<quarantine, vm, address, iso>>,
         admission' \in [Instance -> [asked : BOOLEAN, visible : SUBSET Vmid]],
         \A i \in Instance : admission'[i].asked => admission[i].asked,
         known' \in [Instance -> {"unset", "on", "off"}],
         NEW r \in Row, row' = [row EXCEPT ![att.inst] = r],
         r.vmid = row[att.inst].vmid, r.state # "absent",
         r.action # "none" => r.state # "terminated",
         r.state = "terminated" => vm[att.vmid].owner # att.inst /\ att.inst \notin address
  PROVE  Consistent'
<1> USE ConstantsAssumption
<1>1. att.inst \in Instance /\ Live(att.inst) /\ row[att.inst].vmid = att.vmid
  BY AttemptHasRow
<1>2. TypeOK'
  <2>1. row' \in [Instance -> Row]
    BY <1>1 DEF Consistent, TypeOK
  <2>2. att' \in Attempt
    BY DEF Idle, Attempt, Action, Step, Verb
  <2>. QED  BY <2>1, <2>2 DEF Consistent, TypeOK
<1>3. \A i \in Instance : /\ row'[i].vmid = row[i].vmid
                          /\ i # att.inst => row'[i] = row[i]
                          /\ row'[i].state \notin {"absent", "terminated"} => Live(i)
  BY <1>1 DEF Consistent, TypeOK, Live
<1>4. row'[att.inst] = r
  BY <1>1 DEF Consistent, TypeOK
<1>5. RowsAreSound'
  BY <1>1, <1>3, <1>4 DEF Consistent, RowsAreSound, Live
<1>6. VmidHeldOnce' /\ QuarantineKept'
  BY <1>3 DEF Consistent, VmidHeldOnce, QuarantineKept, Live
<1>7. VMIsTracked' /\ AddressIsTracked'
  BY <1>1, <1>3, <1>4 DEF Consistent, VMIsTracked, AddressIsTracked, Live
<1>8. AttemptIsSound' /\ AttemptKnows'
  BY DEF AttemptIsSound, AttemptKnows, Idle
<1>. QED  BY <1>2, <1>5, <1>6, <1>7, <1>8 DEF Consistent

LEMMA FinishKeeps == Consistent /\ Finish => Consistent'
<1> SUFFICES ASSUME Consistent, Finish PROVE Consistent'
  OBVIOUS
<1> USE ConstantsAssumption
<1> DEFINE r   == row[att.inst]
           new == IF StillAsked THEN Settled(r, Outcome(att.action)) ELSE Released(r)
<1>1. att.step = "finish" /\ att.inst \in Instance /\ r \in Row /\ Live(att.inst)
  BY AttemptHasRow DEF Finish, Consistent, TypeOK
<1>2. Outcome(att.action) \in State \ {"absent"}
  BY DEF Outcome, State
<1>3. /\ new \in Row /\ new.vmid = r.vmid /\ new.state # "absent"
      /\ new.action # "none" => new.state # "terminated"
  BY <1>1, <1>2, SettledRow, ReleasedRow DEF Live
<1>4. new.state = "terminated" => att.action = "terminate"
  BY <1>1, <1>2, SettledRow, ReleasedRow DEF Outcome, Live
<1>5. new.state = "terminated" => vm[att.vmid].owner # att.inst /\ att.inst \notin address
  BY <1>1, <1>4 DEF Consistent, AttemptKnows
<1>6. row' = [row EXCEPT ![att.inst] = new] /\ att' = Idle
  BY DEF Finish
<1> HIDE DEF new
<1>. QED  BY <1>1, <1>3, <1>5, <1>6, AttemptOver
          DEF Finish, backend, memory, Consistent, TypeOK

LEMMA FailureKeeps == Consistent /\ WorkerFails => Consistent'
<1> SUFFICES ASSUME Consistent, WorkerFails PROVE Consistent'
  OBVIOUS
<1> USE ConstantsAssumption
<1> DEFINE r   == row[att.inst]
           new == IF MayRetry THEN Retry(r) ELSE GiveUp(r)
<1>1. att.step # "idle" /\ att.inst \in Instance /\ r \in Row /\ Live(att.inst)
  BY AttemptHasRow DEF WorkerFails, Consistent, TypeOK
<1>2. r.state \notin {"absent", "terminated"}
  BY <1>1 DEF Live
<1>3. new \in Row /\ new.vmid = r.vmid /\ new.state \notin {"absent", "terminated"}
  <2>1. CASE MayRetry
    <3>1. Bump(r.attempts) \in 0..MaxAttempts
      BY <1>1 DEF Bump, Row
    <3>. QED  BY <1>1, <1>2, <2>1, <3>1 DEF Retry, Released, Row
  <2>2. CASE ~MayRetry /\ ~StillAsked
    BY <1>1, <1>2, <2>2 DEF GiveUp
  <2>3. CASE ~MayRetry /\ StillAsked /\ att.action = "launch"
    <3>1. "shutting-down" \in State /\ "terminate" \in Action /\ 0 \in 0..MaxAttempts
      BY DEF State, Action
    <3>. QED  BY <1>1, <2>3, <3>1 DEF GiveUp, Row
  <2>4. CASE ~MayRetry /\ StillAsked /\ att.action # "launch"
    <3>1. "stopped" \in State /\ "running" \in State
      BY DEF State
    <3>. QED  BY <1>1, <2>4, <3>1, SettledRow DEF GiveUp
  <2>. QED  BY <2>1, <2>2, <2>3, <2>4
<1>4. row' = [row EXCEPT ![att.inst] = new] /\ att' = Idle
  BY DEF WorkerFails
<1> HIDE DEF new
<1>. QED  BY <1>1, <1>3, <1>4, AttemptOver
          DEF WorkerFails, backend, memory, Consistent, TypeOK

LEMMA DroppedKeeps == Consistent /\ AttemptDropped => Consistent'
<1> SUFFICES ASSUME Consistent, AttemptDropped PROVE Consistent'
  OBVIOUS
<1> USE ConstantsAssumption DEF AttemptDropped, ledger, memory, backend
<1>1. RowsAreSound' /\ VmidHeldOnce' /\ QuarantineKept' /\ VMIsTracked' /\ AddressIsTracked'
  BY NothingAcquired
<1>2. TypeOK'
  BY DEF Consistent, TypeOK, Idle, Attempt, Action, Step, Verb
<1>3. AttemptIsSound' /\ AttemptKnows'
  BY DEF AttemptIsSound, AttemptKnows, Idle
<1>. QED  BY <1>1, <1>2, <1>3 DEF Consistent

LEMMA RestartKeeps == Consistent /\ Restart => Consistent'
<1> SUFFICES ASSUME Consistent, Restart PROVE Consistent'
  OBVIOUS
<1> USE ConstantsAssumption
<1>1. /\ admission' \in [Instance -> [asked : BOOLEAN, visible : SUBSET Vmid]]
      /\ \A i \in Instance : ~admission'[i].asked
      /\ known' \in [Instance -> {"unset", "on", "off"}]
  BY DEF Restart, NotAsked
<1>2. CASE att.step = "idle"
  <2>1. UNCHANGED row
    BY <1>2 DEF Restart, Consistent, AttemptIsSound, TypeOK
  <2>2. TypeOK'
    BY <1>1, <2>1 DEF Restart, backend, Consistent, TypeOK, Idle, Attempt, Action, Step, Verb
  <2>3. RowsAreSound' /\ VmidHeldOnce' /\ QuarantineKept' /\ VMIsTracked' /\ AddressIsTracked'
    BY <1>1, <2>1 DEF Restart, backend, Consistent, RowsAreSound, VmidHeldOnce,
                      QuarantineKept, VMIsTracked, AddressIsTracked, Live
  <2>4. AttemptIsSound' /\ AttemptKnows'
    BY DEF Restart, AttemptIsSound, AttemptKnows, Idle
  <2>. QED  BY <2>2, <2>3, <2>4 DEF Consistent
<1>3. CASE att.step # "idle"
  <2>1. PICK r \in Row : /\ row' = [row EXCEPT ![att.inst] = r]
                         /\ r = row[att.inst] \/ r = Released(row[att.inst])
    <3>1. att.inst \in Instance /\ row[att.inst] \in Row
      BY <1>3, AttemptHasRow DEF Consistent, TypeOK
    <3>2. Released(row[att.inst]) \in Row
      BY <3>1 DEF Released, Row
    <3>3. UNCHANGED row => row' = [row EXCEPT ![att.inst] = row[att.inst]]
      BY <3>1 DEF Consistent, TypeOK
    <3>. QED  BY <3>1, <3>2, <3>3 DEF Restart
  <2>2. r.vmid = row[att.inst].vmid /\ r.state \notin {"absent", "terminated"}
    BY <1>3, <2>1, AttemptHasRow DEF Released, Row, Live, Consistent, TypeOK
  <2>. QED  BY <1>1, <1>3, <2>1, <2>2, AttemptOver DEF Restart, backend
<1>. QED  BY <1>2, <1>3

-----------------------------------------------------------------------------
(* Launch                                                                   *)

LEMMA RecordKeeps ==
  ASSUME Consistent, att.step \in {"recordAddress", "recordSeed", "recordVM"}, Record(att)
  PROVE  Consistent'
<1> USE ConstantsAssumption DEF Record, memory, backend
<1> DEFINE r == Recorded(row[att.inst], att)
<1>1. /\ att.inst \in Instance /\ row[att.inst] \in Row /\ att \in Attempt
      /\ row[att.inst].vmid = att.vmid
  BY AttemptHasRow DEF Consistent, TypeOK
<1>2. /\ r \in Row /\ r.vmid = att.vmid /\ r.state = row[att.inst].state
      /\ r.action = row[att.inst].action /\ r.leased = row[att.inst].leased
  <2>1. /\ att.vmid \in Vmid \cup {NoVmid} /\ att.created \in BOOLEAN
        /\ att.addr \in BOOLEAN /\ att.seed \in BOOLEAN
    BY <1>1 DEF Attempt
  <2>. QED  BY <1>1, <2>1 DEF Recorded, Row
<1>3. row' = [row EXCEPT ![att.inst] = r]
  OBVIOUS
<1> HIDE DEF r
<1>4. \A i \in Instance : /\ row'[i].vmid = row[i].vmid /\ row'[i].state = row[i].state
                          /\ row'[i].action = row[i].action /\ row'[i].leased = row[i].leased
  BY <1>1, <1>2, <1>3 DEF Consistent, TypeOK
<1>5. TypeOK'
  <2>1. row' \in [Instance -> Row]
    BY <1>1, <1>2, <1>3 DEF Consistent, TypeOK
  <2>2. att' \in Attempt
    <3>1. LaunchFrom(att) \in Step
      BY DEF LaunchFrom, Step, LaunchStep
    <3>. QED  BY <1>1, <3>1 DEF Attempt
  <2>. QED  BY <2>1, <2>2 DEF Consistent, TypeOK
<1>6. RowsAreSound' /\ VmidHeldOnce' /\ QuarantineKept' /\ VMIsTracked' /\ AddressIsTracked'
  <2>1. address \subseteq Instance
    BY DEF Consistent, TypeOK
  <2>. QED  BY <1>4, <2>1 DEF Consistent, RowsAreSound, VmidHeldOnce, QuarantineKept,
                              VMIsTracked, AddressIsTracked, Live
<1>7. AttemptIsSound' /\ AttemptKnows'
  <2>1. /\ att'.inst = att.inst /\ att'.action = att.action /\ att'.vmid = att.vmid
        /\ att'.step = LaunchFrom(att)
    BY <1>1 DEF Attempt
  <2>2. LaunchFrom(att) \in {"address", "seed", "list", "boot"}
    BY DEF LaunchFrom
  <2>3. att.action # "terminate"
    BY <1>1 DEF Consistent, AttemptIsSound, EndStep
  <2>. QED  BY <1>1, <1>4, <2>1, <2>2, <2>3, AttemptHasRow
            DEF AttemptIsSound, AttemptKnows, EndStep
<1>. QED  BY <1>5, <1>6, <1>7 DEF Consistent

LEMMA TakeAddressKeeps == Consistent /\ TakeAddress => Consistent'
<1> SUFFICES ASSUME Consistent, TakeAddress PROVE Consistent'
  OBVIOUS
<1> USE ConstantsAssumption DEF TakeAddress, ledger, memory
<1>1. att.inst \in Instance /\ Live(att.inst)
  BY AttemptHasRow
<1>2. TypeOK'
  <2>1. att' \in Attempt
    BY DEF Consistent, TypeOK, Attempt, Step, LaunchStep
  <2>. QED  BY <1>1, <2>1 DEF Consistent, TypeOK
<1>3. RowsAreSound' /\ VmidHeldOnce' /\ QuarantineKept' /\ VMIsTracked'
  BY DEF Consistent, RowsAreSound, VmidHeldOnce, QuarantineKept, VMIsTracked, Live
<1>4. AddressIsTracked'
  BY <1>1 DEF Consistent, AddressIsTracked, Live
<1>5. AttemptIsSound' /\ AttemptKnows'
  BY AttemptGoesOn DEF Consistent, TypeOK, Attempt, AttemptKnows, EndStep
<1>. QED  BY <1>2, <1>3, <1>4, <1>5 DEF Consistent

LEMMA ClearSeedKeeps == Consistent /\ ClearSeed => Consistent'
<1> SUFFICES ASSUME Consistent, ClearSeed PROVE Consistent'
  OBVIOUS
<1> USE ConstantsAssumption DEF ClearSeed, ledger, memory
<1>1. TypeOK'
  BY DEF Consistent, TypeOK
<1>2. RowsAreSound' /\ VmidHeldOnce' /\ QuarantineKept' /\ VMIsTracked' /\ AddressIsTracked'
  BY NothingAcquired
<1>3. AttemptIsSound' /\ AttemptKnows'
  BY DEF Consistent, AttemptIsSound, AttemptKnows
<1>. QED  BY <1>1, <1>2, <1>3 DEF Consistent

LEMMA UploadSeedKeeps == Consistent /\ UploadSeed => Consistent'
<1> SUFFICES ASSUME Consistent, UploadSeed PROVE Consistent'
  OBVIOUS
<1> USE ConstantsAssumption DEF UploadSeed, ledger, memory
<1>1. TypeOK'
  <2>1. att' \in Attempt
    BY DEF Consistent, TypeOK, Attempt, Step, LaunchStep
  <2>. QED  BY <2>1, AttemptHasRow DEF Consistent, TypeOK
<1>2. RowsAreSound' /\ VmidHeldOnce' /\ QuarantineKept' /\ VMIsTracked' /\ AddressIsTracked'
  BY NothingAcquired
<1>3. AttemptIsSound' /\ AttemptKnows'
  BY AttemptGoesOn DEF Consistent, TypeOK, Attempt, AttemptKnows, EndStep
<1>. QED  BY <1>1, <1>2, <1>3 DEF Consistent

\* Steps that acquire nothing and leave the rows alone.
LEMMA StepKeeps ==
  ASSUME Consistent, att.step \notin {"idle", "finish"},
         UNCHANGED <<row, quarantine, admission>>, iso' \subseteq iso, address' \subseteq address,
         known' \in [Instance -> {"unset", "on", "off"}], vm' \in [Vmid -> Machine],
         \A v \in Vmid : vm'[v].owner \in {vm[v].owner, Nobody} \cup Foreign,
         att' \in Attempt, att'.inst = att.inst, att'.action = att.action,
         att'.vmid = att.vmid, att'.step # "idle",
         att'.step = "finish" \/ (att'.step \in EndStep <=> att.step \in EndStep),
         AttemptKnows'
  PROVE  Consistent'
<1> USE ConstantsAssumption
<1>1. TypeOK'
  BY DEF Consistent, TypeOK
<1>2. RowsAreSound' /\ VmidHeldOnce' /\ QuarantineKept' /\ VMIsTracked' /\ AddressIsTracked'
  BY NothingAcquired
<1>3. AttemptIsSound'
  BY AttemptGoesOn
<1>. QED  BY <1>1, <1>2, <1>3 DEF Consistent

\* Steps that only read Proxmox.
LEMMA ReadKeeps ==
  ASSUME Consistent, att.step \notin {"idle", "finish"}, UNCHANGED <<ledger, memory, backend>>,
         att' \in Attempt, att'.inst = att.inst, att'.action = att.action,
         att'.vmid = att.vmid, att'.step \notin {"idle", "finish"},
         att'.step \in EndStep <=> att.step \in EndStep,
         att'.step \in {"create", "move", "termSeed", "termAddress"}
            => vm[att.vmid].owner # att.inst
  PROVE  Consistent'
<1>1. AttemptKnows'
  BY DEF AttemptKnows, backend
<1>. QED  BY <1>1, StepKeeps DEF ledger, memory, backend, Consistent, TypeOK

LEMMA LaunchReadsKeep ==
  Consistent /\ (ListBeforeCreate \/ CheckBeforeCreate \/ CreateRefused) => Consistent'
<1> SUFFICES ASSUME Consistent PROVE
      ListBeforeCreate \/ CheckBeforeCreate \/ CreateRefused => Consistent'
  OBVIOUS
<1> USE ConstantsAssumption
<1>1. att \in Attempt
  BY DEF Consistent, TypeOK
<1>2. ASSUME ListBeforeCreate PROVE Consistent'
  <2>1. att.inst \in Instance /\ att.vmid \in Vmid
    BY <1>2, AttemptHasRow DEF ListBeforeCreate
  <2>2. att' \in Attempt
    BY <1>1, <1>2 DEF ListBeforeCreate, Listed, Attempt, Step, LaunchStep
  <2>3. /\ att'.inst = att.inst /\ att'.action = att.action /\ att'.vmid = att.vmid
        /\ att'.step \in {"owns", "create"}
        /\ att'.step = "create" => vm[att.vmid].owner # att.inst
    BY <1>1, <1>2, <2>1 DEF ListBeforeCreate, Listed, Attempt, Foreign
  <2>. QED  BY <1>2, <2>2, <2>3, ReadKeeps DEF ListBeforeCreate, EndStep
<1>3. ASSUME CheckBeforeCreate PROVE Consistent'
  <2>1. CASE vm[att.vmid].owner = att.inst
    <3>1. att' = [att EXCEPT !.visible = {}, !.created = TRUE, !.step = "recordVM"]
      BY <1>3, <2>1 DEF CheckBeforeCreate
    <3>2. /\ att' \in Attempt /\ att'.inst = att.inst /\ att'.action = att.action
          /\ att'.vmid = att.vmid /\ att'.step = "recordVM"
      BY <1>1, <3>1 DEF Attempt, Step, LaunchStep
    <3>. QED  BY <1>3, <3>2, ReadKeeps DEF CheckBeforeCreate, EndStep
  <2>2. CASE vm[att.vmid].owner # att.inst
    <3>1. att' = [att EXCEPT !.step = "move"]
      BY <1>3, <2>2 DEF CheckBeforeCreate
    <3>2. /\ att' \in Attempt /\ att'.inst = att.inst /\ att'.action = att.action
          /\ att'.vmid = att.vmid /\ att'.step = "move"
      BY <1>1, <3>1 DEF Attempt, Step, LaunchStep
    <3>. QED  BY <1>3, <2>2, <3>2, ReadKeeps DEF CheckBeforeCreate, EndStep
  <2>. QED  BY <2>1, <2>2
<1>4. ASSUME CreateRefused PROVE Consistent'
  <2>1. att' \in Attempt
    BY <1>1, <1>4 DEF CreateRefused, Attempt, Step, LaunchStep
  <2>2. /\ att'.inst = att.inst /\ att'.action = att.action /\ att'.vmid = att.vmid
        /\ att'.step = "move" /\ vm[att.vmid].owner # att.inst
    BY <1>1, <1>4 DEF CreateRefused, Attempt, Consistent, AttemptKnows
  <2>. QED  BY <1>4, <2>1, <2>2, ReadKeeps DEF CreateRefused, EndStep
<1>. QED  BY <1>2, <1>3, <1>4

LEMMA CreateKeeps == Consistent /\ CreateVM => Consistent'
<1> SUFFICES ASSUME Consistent, CreateVM PROVE Consistent'
  OBVIOUS
<1> USE ConstantsAssumption DEF CreateVM, ledger, memory
<1>1. /\ att.inst \in Instance /\ att.vmid \in Vmid /\ row[att.inst].vmid = att.vmid
      /\ Live(att.inst) /\ att \in Attempt
  BY AttemptHasRow DEF Consistent, TypeOK
<1>2. TypeOK'
  <2>1. vm' \in [Vmid -> Machine]
    BY <1>1 DEF Consistent, TypeOK, NoVM, Machine
  <2>2. att' \in Attempt
    BY <1>1 DEF Attempt, Step, LaunchStep
  <2>. QED  BY <2>1, <2>2 DEF Consistent, TypeOK
<1>3. RowsAreSound' /\ VmidHeldOnce' /\ QuarantineKept' /\ AddressIsTracked'
  BY DEF Consistent, RowsAreSound, VmidHeldOnce, QuarantineKept, AddressIsTracked, Live
<1>4. VMIsTracked'
  BY <1>1 DEF Consistent, VMIsTracked, NoVM, TypeOK, Machine, Live
<1>5. /\ att'.inst = att.inst /\ att'.action = att.action /\ att'.vmid = att.vmid
      /\ att'.step = "recordVM"
  BY <1>1 DEF Attempt
<1>6. AttemptIsSound' /\ AttemptKnows'
  BY <1>5, AttemptGoesOn DEF AttemptKnows, EndStep
<1>. QED  BY <1>2, <1>3, <1>4, <1>6 DEF Consistent

LEMMA MoveKeeps == Consistent /\ MoveVmid => Consistent'
<1> SUFFICES ASSUME Consistent, MoveVmid PROVE Consistent'
  OBVIOUS
<1> USE ConstantsAssumption
<1> DEFINE r == row[att.inst]
<1>1. /\ att.inst \in Instance /\ att.vmid \in Vmid /\ r.vmid = att.vmid /\ Live(att.inst)
      /\ att \in Attempt /\ r \in Row /\ r.leased /\ r.action # "none"
      /\ att.action # "none" /\ att.action # "terminate" /\ vm[att.vmid].owner # att.inst
  BY AttemptHasRow
     DEF MoveVmid, Consistent, TypeOK, AttemptIsSound, AttemptKnows, EndStep
<1>2. PICK v \in Vmid :
        /\ Allocates(att.visible \cup {att.vmid}, v)
        /\ row' = [row EXCEPT ![att.inst] = Recorded(@, [att EXCEPT !.vmid = v])]
        /\ att' = [att EXCEPT !.vmid = v, !.visible = {}, !.step = "moved"]
  BY DEF MoveVmid
<1> DEFINE new == Recorded(r, [att EXCEPT !.vmid = v])
<1>3. /\ new \in Row /\ new.vmid = v /\ new.state = r.state
      /\ new.action = r.action /\ new.leased = r.leased
  <2>1. /\ [att EXCEPT !.vmid = v].vmid = v
        /\ [att EXCEPT !.vmid = v].created \in BOOLEAN
        /\ [att EXCEPT !.vmid = v].addr \in BOOLEAN
        /\ [att EXCEPT !.vmid = v].seed \in BOOLEAN
    BY <1>1 DEF Attempt
  <2>. QED  BY <1>1, <2>1 DEF Recorded, Row
<1>4. row' = [row EXCEPT ![att.inst] = new]
  BY <1>2
<1> HIDE DEF new
<1>5. /\ row' \in [Instance -> Row] /\ row'[att.inst] = new
      /\ \A i \in Instance : i # att.inst => row'[i] = row[i]
  BY <1>1, <1>3, <1>4 DEF Consistent, TypeOK
<1>6. /\ v # att.vmid /\ v \notin quarantine
      /\ \A i \in Instance : Live(i) => row[i].vmid # v
  BY <1>2 DEF Allocates, Free
<1>7. /\ att' \in Attempt /\ att'.inst = att.inst /\ att'.action = att.action
      /\ att'.vmid = v /\ att'.step = "moved"
  BY <1>1, <1>2 DEF Attempt, Step, LaunchStep
<1>8. UNCHANGED <<admission, known, vm, address, iso>> /\ quarantine' = quarantine \cup {att.vmid}
  BY DEF MoveVmid, memory, backend
<1>9. \A i \in Instance : Live(i)' <=> Live(i)
  BY <1>1, <1>3, <1>5 DEF Live
<1>10. TypeOK'
  BY <1>1, <1>5, <1>7, <1>8 DEF Consistent, TypeOK
<1>11. RowsAreSound' /\ AddressIsTracked'
  <2>1. RowsAreSound'
    BY <1>1, <1>3, <1>5, <1>8, <1>9 DEF Consistent, RowsAreSound, Live
  <2>2. AddressIsTracked'
    BY <1>8, <1>9 DEF Consistent, AddressIsTracked, TypeOK
  <2>. QED  BY <2>1, <2>2
<1>12. VmidHeldOnce' /\ QuarantineKept'
  BY <1>1, <1>3, <1>5, <1>6, <1>8, <1>9 DEF Consistent, VmidHeldOnce, QuarantineKept
<1>13. VMIsTracked'
  BY <1>1, <1>3, <1>5, <1>8, <1>9 DEF Consistent, VMIsTracked
<1>14. AttemptIsSound' /\ AttemptKnows'
  BY <1>1, <1>3, <1>5, <1>7 DEF AttemptIsSound, AttemptKnows, EndStep
<1>. QED  BY <1>10, <1>11, <1>12, <1>13, <1>14 DEF Consistent

\* A power change leaves every VM its owner.
LEMMA SwitchedOwner ==
  ASSUME TypeOK, NEW v \in Vmid, NEW on \in BOOLEAN, Switch(v, on)
  PROVE  /\ vm' \in [Vmid -> Machine]
         /\ \A w \in Vmid : vm'[w].owner = vm[w].owner
<1>1. PICK p \in BOOLEAN : vm' = [vm EXCEPT ![v].on = on, ![v].listed = p]
  BY DEF Switch, Published, TypeOK, Machine
<1>2. [vm[v] EXCEPT !.on = on, !.listed = p] \in Machine
  BY DEF TypeOK, Machine
<1>3. vm' = [vm EXCEPT ![v] = [vm[v] EXCEPT !.on = on, !.listed = p]]
  BY <1>1
<1>. QED  BY <1>2, <1>3 DEF TypeOK, Machine

LEMMA BootKeeps == Consistent /\ Boot => Consistent'
<1> SUFFICES ASSUME Consistent, Boot PROVE Consistent'
  OBVIOUS
<1> USE ConstantsAssumption
<1>1. att \in Attempt /\ att.vmid \in Vmid /\ att.action # "terminate" /\ TypeOK
  BY AttemptHasRow DEF Boot, Consistent, TypeOK, AttemptIsSound, EndStep
<1>2. vm' \in [Vmid -> Machine] /\ \A w \in Vmid : vm'[w].owner = vm[w].owner
  BY <1>1, SwitchedOwner DEF Boot, TypeOK
<1>3. /\ att' \in Attempt /\ att'.inst = att.inst /\ att'.action = att.action
      /\ att'.vmid = att.vmid /\ att'.step = "finish"
  BY <1>1 DEF Boot, Attempt, Step
<1>4. AttemptKnows'
  BY <1>1, <1>3 DEF AttemptKnows
<1>. QED  BY <1>1, <1>2, <1>3, <1>4, StepKeeps DEF Boot, ledger, memory, TypeOK

-----------------------------------------------------------------------------
(* Start, stop and reboot                                                   *)

LEMMA PowerReadsKeep ==
  Consistent /\ (PowerLists \/ PowerOwns \/ RebootFallsBack) => Consistent'
<1> SUFFICES ASSUME Consistent PROVE
      PowerLists \/ PowerOwns \/ RebootFallsBack => Consistent'
  OBVIOUS
<1>1. att \in Attempt
  BY DEF Consistent, TypeOK
<1>2. ASSUME PowerLists PROVE Consistent'
  <2>1. vm[att.vmid].listed \in BOOLEAN
    BY <1>2, AttemptHasRow DEF PowerLists, Consistent, TypeOK, Machine
  <2>2. /\ att' \in Attempt /\ att'.inst = att.inst /\ att'.action = att.action
        /\ att'.vmid = att.vmid /\ att'.step = "powerOwns"
    BY <1>1, <1>2, <2>1 DEF PowerLists, Attempt, Step, PowerStep
  <2>. QED  BY <1>2, <2>2, ReadKeeps DEF PowerLists, EndStep
<1>3. ASSUME PowerOwns PROVE Consistent'
  <2>1. /\ att' \in Attempt /\ att'.inst = att.inst /\ att'.action = att.action
        /\ att'.vmid = att.vmid /\ att'.step \in {"onboot", "power"}
    BY <1>1, <1>3 DEF PowerOwns, Attempt, Step, PowerStep
  <2>. QED  BY <1>3, <2>1, ReadKeeps DEF PowerOwns, EndStep
<1>4. ASSUME RebootFallsBack PROVE Consistent'
  <2>1. /\ att' \in Attempt /\ att'.inst = att.inst /\ att'.action = att.action
        /\ att'.vmid = att.vmid /\ att'.step = "powerList"
    BY <1>1, <1>4 DEF RebootFallsBack, Attempt, Step, PowerStep, Verb
  <2>. QED  BY <1>4, <2>1, ReadKeeps DEF RebootFallsBack, PowerStep, EndStep
<1>. QED  BY <1>2, <1>3, <1>4

LEMMA PowerOnbootKeeps == Consistent /\ PowerOnboot => Consistent'
<1> SUFFICES ASSUME Consistent, PowerOnboot PROVE Consistent'
  OBVIOUS
<1>1. att \in Attempt /\ att.vmid \in Vmid
  BY AttemptHasRow DEF PowerOnboot, Consistent, TypeOK
<1>2. vm' \in [Vmid -> Machine] /\ \A w \in Vmid : vm'[w].owner = vm[w].owner
  <2>1. [vm[att.vmid] EXCEPT !.onboot = (att.verb = "start")] \in Machine
    BY <1>1 DEF Consistent, TypeOK, Machine
  <2>2. vm' = [vm EXCEPT ![att.vmid] = [vm[att.vmid] EXCEPT !.onboot = (att.verb = "start")]]
    BY DEF PowerOnboot, SetOnboot
  <2>. QED  BY <1>1, <2>1, <2>2 DEF Consistent, TypeOK, Machine
<1>3. /\ att' \in Attempt /\ att'.inst = att.inst /\ att'.action = att.action
      /\ att'.vmid = att.vmid /\ att'.step = "remember"
  BY <1>1 DEF PowerOnboot, Attempt, Step, PowerStep
<1>4. AttemptKnows'
  BY <1>3 DEF AttemptKnows
<1>. QED  BY <1>2, <1>3, <1>4, StepKeeps
          DEF PowerOnboot, ledger, memory, EndStep, Consistent, TypeOK

LEMMA PowerRemembersKeeps == Consistent /\ PowerRemembers => Consistent'
<1> SUFFICES ASSUME Consistent, PowerRemembers PROVE Consistent'
  OBVIOUS
<1>1. att \in Attempt /\ known' \in [Instance -> {"unset", "on", "off"}]
  BY DEF PowerRemembers, Flag, Consistent, TypeOK
<1>2. /\ att' \in Attempt /\ att'.inst = att.inst /\ att'.action = att.action
      /\ att'.vmid = att.vmid /\ att'.step = "power"
  BY <1>1 DEF PowerRemembers, Attempt, Step, PowerStep
<1>3. AttemptKnows'
  BY <1>2 DEF AttemptKnows
<1>. QED  BY <1>1, <1>2, <1>3, StepKeeps
          DEF PowerRemembers, ledger, backend, EndStep, Consistent, TypeOK

LEMMA PowerKeeps == Consistent /\ Power => Consistent'
<1> SUFFICES ASSUME Consistent, Power PROVE Consistent'
  OBVIOUS
<1>1. att \in Attempt /\ att.vmid \in Vmid /\ att.action # "terminate" /\ TypeOK
  BY AttemptHasRow, ConstantsAssumption
     DEF Power, Consistent, TypeOK, AttemptIsSound, EndStep
<1>2. vm' \in [Vmid -> Machine] /\ \A w \in Vmid : vm'[w].owner = vm[w].owner
  BY <1>1, SwitchedOwner DEF Power, TypeOK
<1>3. /\ att' \in Attempt /\ att'.inst = att.inst /\ att'.action = att.action
      /\ att'.vmid = att.vmid /\ att'.step = "finish"
  BY <1>1 DEF Power, Attempt, Step
<1>4. AttemptKnows'
  BY <1>1, <1>3 DEF AttemptKnows
<1>. QED  BY <1>1, <1>2, <1>3, <1>4, StepKeeps DEF Power, ledger, memory, TypeOK

-----------------------------------------------------------------------------
(* Terminate                                                                *)

LEMMA TermReadsKeep == Consistent /\ (TermLists \/ TermOwns) => Consistent'
<1> SUFFICES ASSUME Consistent PROVE TermLists \/ TermOwns => Consistent'
  OBVIOUS
<1> USE ConstantsAssumption
<1>1. att \in Attempt
  BY DEF Consistent, TypeOK
<1>2. ASSUME TermLists PROVE Consistent'
  <2>1. att.inst \in Instance /\ att.vmid \in Vmid
    BY <1>2, AttemptHasRow DEF TermLists
  <2>2. CASE att.vmid \in Listed
    <3>1. vm[att.vmid].listed \in BOOLEAN
      BY <2>1 DEF Consistent, TypeOK, Machine
    <3>2. /\ att' \in Attempt /\ att'.inst = att.inst /\ att'.action = att.action
          /\ att'.vmid = att.vmid /\ att'.step = "termOwns"
      <4>1. att' = [att EXCEPT !.seenOn = vm[att.vmid].listed, !.step = "termOwns"]
        BY <1>2, <2>2 DEF TermLists
      <4>. QED  BY <1>1, <3>1, <4>1 DEF Attempt, Step, EndStep
    <3>. QED  BY <1>2, <3>2, ReadKeeps DEF TermLists, EndStep
  <2>3. CASE att.vmid \notin Listed
    <3>1. /\ att' \in Attempt /\ att'.inst = att.inst /\ att'.action = att.action
          /\ att'.vmid = att.vmid /\ att'.step \in {"termSeed", "termAddress"}
      <4>1. att' = [att EXCEPT !.step = AfterVM(att)]
        BY <1>2, <2>3 DEF TermLists
      <4>. QED  BY <1>1, <4>1 DEF AfterVM, Attempt, Step, EndStep
    <3>2. vm[att.vmid].owner # att.inst
      BY <2>1, <2>3 DEF Listed, Foreign
    <3>. QED  BY <1>2, <3>1, <3>2, ReadKeeps DEF TermLists, EndStep
  <2>. QED  BY <2>2, <2>3
<1>3. ASSUME TermOwns PROVE Consistent'
  <2>1. /\ att' \in Attempt /\ att'.inst = att.inst /\ att'.action = att.action
        /\ att'.vmid = att.vmid
        /\ att'.step \in {"termSeed", "termAddress", "termStop", "termDelete"}
    BY <1>1, <1>3 DEF TermOwns, AfterVM, Attempt, Step, EndStep
  <2>2. att'.step \in {"termSeed", "termAddress"} => vm[att.vmid].owner # att.inst
    BY <1>1, <1>3 DEF TermOwns, AfterVM, Attempt
  <2>. QED  BY <1>3, <2>1, <2>2, ReadKeeps DEF TermOwns, EndStep
<1>. QED  BY <1>2, <1>3

LEMMA TermStopKeeps == Consistent /\ TermStop => Consistent'
<1> SUFFICES ASSUME Consistent, TermStop PROVE Consistent'
  OBVIOUS
<1>1. att \in Attempt /\ att.vmid \in Vmid /\ TypeOK
  BY AttemptHasRow DEF TermStop, Consistent, TypeOK
<1>2. vm' \in [Vmid -> Machine] /\ \A w \in Vmid : vm'[w].owner = vm[w].owner
  BY <1>1, SwitchedOwner DEF TermStop
<1>3. /\ att' \in Attempt /\ att'.inst = att.inst /\ att'.action = att.action
      /\ att'.vmid = att.vmid /\ att'.step = "termDelete"
  BY <1>1 DEF TermStop, Attempt, Step, EndStep
<1>4. AttemptKnows'
  BY <1>3 DEF AttemptKnows
<1>. QED  BY <1>1, <1>2, <1>3, <1>4, StepKeeps DEF TermStop, ledger, memory, EndStep, TypeOK

LEMMA TermDeleteKeeps == Consistent /\ TermDelete => Consistent'
<1> SUFFICES ASSUME Consistent, TermDelete PROVE Consistent'
  OBVIOUS
<1> USE ConstantsAssumption
<1>1. att \in Attempt /\ att.vmid \in Vmid /\ att.inst \in Instance /\ TypeOK
  BY AttemptHasRow DEF TermDelete, Consistent, TypeOK
<1>2. /\ vm' \in [Vmid -> Machine]
      /\ \A w \in Vmid : vm'[w].owner \in {vm[w].owner, Nobody}
      /\ vm'[att.vmid].owner = Nobody
  BY <1>1 DEF TermDelete, TypeOK, NoVM, Machine
<1>3. /\ att' \in Attempt /\ att'.inst = att.inst /\ att'.action = att.action
      /\ att'.vmid = att.vmid /\ att'.step \in {"termSeed", "termAddress"}
  BY <1>1 DEF TermDelete, AfterVM, Attempt, Step, EndStep
<1>4. AttemptKnows'
  BY <1>1, <1>2, <1>3 DEF AttemptKnows
<1>. QED  BY <1>1, <1>2, <1>3, <1>4, StepKeeps DEF TermDelete, ledger, memory, EndStep, TypeOK

LEMMA TermSeedKeeps == Consistent /\ TermSeed => Consistent'
<1> SUFFICES ASSUME Consistent, TermSeed PROVE Consistent'
  OBVIOUS
<1>1. att \in Attempt
  BY DEF Consistent, TypeOK
<1>2. /\ att' \in Attempt /\ att'.inst = att.inst /\ att'.action = att.action
      /\ att'.vmid = att.vmid /\ att'.step = "termAddress"
  BY <1>1 DEF TermSeed, Attempt, Step, EndStep
<1>3. AttemptKnows'
  BY <1>2 DEF AttemptKnows, TermSeed, Consistent
<1>. QED  BY <1>2, <1>3, StepKeeps
          DEF TermSeed, ledger, memory, EndStep, Consistent, TypeOK

LEMMA TermAddressKeeps == Consistent /\ TermAddress => Consistent'
<1> SUFFICES ASSUME Consistent, TermAddress PROVE Consistent'
  OBVIOUS
<1>1. att \in Attempt
  BY DEF Consistent, TypeOK
<1>2. /\ att' \in Attempt /\ att'.inst = att.inst /\ att'.action = att.action
      /\ att'.vmid = att.vmid /\ att'.step = "finish"
  BY <1>1 DEF TermAddress, Attempt, Step
<1>3. AttemptKnows'
  BY <1>2 DEF AttemptKnows, TermAddress, Consistent
<1>. QED  BY <1>2, <1>3, StepKeeps DEF TermAddress, ledger, memory, Consistent, TypeOK

-----------------------------------------------------------------------------
(* The world outside                                                        *)

LEMMA EnvironmentKeeps ==
  ASSUME Consistent, NEW v \in Vmid, Environment(v)
  PROVE  Consistent'
<1> USE ConstantsAssumption
<1>1. /\ vm' \in [Vmid -> Machine]
      /\ \A w \in Vmid : vm'[w].owner \in {vm[w].owner, Nobody} \cup Foreign
  <2>1. CASE OutsiderCreates(v) \/ OutsiderRemoves(v)
    <3>1. PICK m \in Machine : vm' = [vm EXCEPT ![v] = m] /\ m.owner \in {Nobody} \cup Foreign
      <4>1. NoVM \in Machine /\ NoVM.owner = Nobody
        BY DEF NoVM, Machine
      <4>2. \A o \in Foreign :
              [NoVM EXCEPT !.owner = o, !.on = TRUE, !.listed = TRUE] \in Machine
        BY DEF NoVM, Machine
      <4>3. \A o \in Foreign :
              [NoVM EXCEPT !.owner = o, !.on = TRUE, !.listed = TRUE].owner = o
        BY DEF NoVM
      <4>4. CASE OutsiderCreates(v)
        <5>1. PICK o \in Foreign :
                vm' = [vm EXCEPT ![v] = [NoVM EXCEPT !.owner = o, !.on = TRUE, !.listed = TRUE]]
          BY <4>4 DEF OutsiderCreates
        <5>. QED  BY <4>2, <4>3, <5>1
      <4>. QED  BY <2>1, <4>1, <4>4 DEF OutsiderRemoves
    <3>. QED  BY <3>1 DEF Consistent, TypeOK
  <2>2. CASE OutsiderPowers(v)
    <3>1. vm[v].on \in BOOLEAN /\ TypeOK
      BY DEF Consistent, TypeOK, Machine
    <3>. QED  BY <2>2, <3>1, SwitchedOwner DEF OutsiderPowers
  <2>3. CASE CachePublishes(v)
    <3>1. [vm[v] EXCEPT !.listed = vm[v].on] \in Machine
      BY DEF Consistent, TypeOK, Machine
    <3>2. vm' = [vm EXCEPT ![v] = [vm[v] EXCEPT !.listed = vm[v].on]]
      BY <2>3 DEF CachePublishes
    <3>. QED  BY <3>1, <3>2 DEF Consistent, TypeOK, Machine
  <2>. QED  BY <2>1, <2>2, <2>3 DEF Environment
<1>2. UNCHANGED <<row, quarantine, admission, known, address, iso, att>>
  BY DEF Environment, OutsiderCreates, OutsiderRemoves, OutsiderPowers, CachePublishes,
         ledger, memory
<1>3. TypeOK'
  BY <1>1, <1>2 DEF Consistent, TypeOK
<1>4. RowsAreSound' /\ VmidHeldOnce' /\ QuarantineKept' /\ VMIsTracked' /\ AddressIsTracked'
  BY <1>1, <1>2, NothingAcquired
<1>5. AttemptIsSound'
  BY <1>2 DEF Consistent, AttemptIsSound
<1>6. AttemptKnows'
  <2>1. CASE att.step = "idle"
    BY <1>2, <2>1 DEF AttemptKnows
  <2>2. CASE att.step # "idle"
    BY <1>1, <1>2, <2>2, AttemptHasRow DEF Consistent, AttemptKnows
  <2>. QED  BY <2>1, <2>2
<1>. QED  BY <1>3, <1>4, <1>5, <1>6 DEF Consistent

-----------------------------------------------------------------------------
(* Every step, and what follows                                             *)

LEMMA ConsistentKept == Consistent /\ [Next]_vars => Consistent'
<1> SUFFICES ASSUME Consistent, [Next]_vars PROVE Consistent'
  OBVIOUS
<1>1. CASE \E i \in Instance : Api(i) \/ Claim(i) \/ LeaseExpires(i)
  BY <1>1, ApiKeeps, ClaimKeeps, LeaseExpiresKeeps
<1>2. CASE Worker
  <2>1. CASE TakeAddress \/ RecordAddress \/ ClearSeed \/ UploadSeed \/ RecordSeed \/ RecordVM
    BY <2>1, TakeAddressKeeps, RecordKeeps, ClearSeedKeeps, UploadSeedKeeps
       DEF RecordAddress, RecordSeed, RecordVM
  <2>2. CASE ListBeforeCreate \/ CheckBeforeCreate \/ CreateVM \/ CreateRefused \/ MoveVmid \/ Boot
    BY <2>2, LaunchReadsKeep, CreateKeeps, MoveKeeps, BootKeeps
  <2>3. CASE PowerLists \/ PowerOwns \/ PowerOnboot \/ PowerRemembers \/ Power \/ RebootFallsBack
    BY <2>3, PowerReadsKeep, PowerOnbootKeeps, PowerRemembersKeeps, PowerKeeps
  <2>4. CASE TermLists \/ TermOwns \/ TermStop \/ TermDelete \/ TermSeed \/ TermAddress
    BY <2>4, TermReadsKeep, TermStopKeeps, TermDeleteKeeps, TermSeedKeeps, TermAddressKeeps
  <2>5. CASE Finish \/ WorkerFails \/ AttemptDropped
    BY <2>5, FinishKeeps, FailureKeeps, DroppedKeeps
  <2>. QED  BY <1>2, <2>1, <2>2, <2>3, <2>4, <2>5 DEF Worker, Advance
<1>3. CASE \E v \in Vmid : Environment(v)
  BY <1>3, EnvironmentKeeps
<1>4. CASE Restart
  BY <1>4, RestartKeeps
<1>5. CASE UNCHANGED vars
  BY <1>5 DEF vars, Consistent, TypeOK, RowsAreSound, AttemptIsSound, AttemptKnows, VmidHeldOnce,
              QuarantineKept, VMIsTracked, AddressIsTracked, Live
<1>. QED  BY <1>1, <1>2, <1>3, <1>4, <1>5 DEF Next, Serve

(* The inductive invariant, and with it the types of all eight variables: what *)
(* the rows, the attempt in memory, Proxmox and NetBox say of each other holds  *)
(* between any two calls of the worker, and so after a crash there.             *)
THEOREM AlwaysConsistent == Spec => []Consistent
<1>. QED  BY ConsistentAtFirst, ConsistentKept, PTL DEF Spec

(* Every variable keeps its type: the worker never indexes the ledger with no   *)
(* instance, nor leaves a row or its attempt half filled in.                    *)
THEOREM AlwaysTyped == Spec => []TypeOK
<1>1. Consistent => TypeOK
  BY DEF Consistent
<1>. QED  BY <1>1, AlwaysConsistent, PTL

(* A VM that carries an instance's ID is always the one its live row records:   *)
(* launch never makes a second one and terminate never leaves one behind.       *)
THEOREM VMsAreTracked == Spec => []VMIsTracked
<1>1. Consistent => VMIsTracked
  BY DEF Consistent
<1>. QED  BY <1>1, AlwaysConsistent, PTL

(* An address that carries an instance's ID always belongs to a live instance:  *)
(* terminate releases those an interrupted launch never recorded too.           *)
THEOREM AddressesAreTracked == Spec => []AddressIsTracked
<1>1. Consistent => AddressIsTracked
  BY DEF Consistent
<1>. QED  BY <1>1, AlwaysConsistent, PTL

(* No two live instances ever hold one VMID, and none holds a quarantined one:  *)
(* AllocateVMID under the capacity lock and moveVMID agree.                     *)
THEOREM VmidsAreExclusive == Spec => [](VmidHeldOnce /\ QuarantineKept)
<1>1. Consistent => VmidHeldOnce /\ QuarantineKept
  BY DEF Consistent
<1>. QED  BY <1>1, AlwaysConsistent, PTL

(* The worker only ever works on a row it has leased (ClaimWork).               *)
THEOREM AlwaysUnderLease == Spec => []WorksUnderLease
<1>1. Consistent => WorksUnderLease
  BY ConstantsAssumption DEF Consistent, AttemptIsSound, WorksUnderLease
<1>. QED  BY <1>1, AlwaysConsistent, PTL

-----------------------------------------------------------------------------
(* The second invariant: states, pending actions and what is held           *)

\* The states an instance may read while an action is pending.
StateFits ==
    \A i \in Instance :
        /\ row[i].action = "none" =>
              row[i].state \in {"absent", "running", "stopped", "terminated"}
        /\ row[i].action \in {"launch", "start"} => row[i].state = "pending"
        /\ row[i].action = "stop" => row[i].state = "stopping"
        /\ row[i].action = "reboot" => row[i].state = "running"
        /\ Terminating(i) => row[i].state = "shutting-down"

\* An attempt carries out what its row asks, unless a terminate replaced it, and a
\* launch that is past its first step has taken an address.
AttemptFits ==
    att.step # "idle" =>
        /\ row[att.inst].action \in {att.action, "terminate"}
        /\ att.step \in LaunchStep => att.action = "launch"
        /\ att.step \in PowerStep => att.action \in {"start", "stop", "reboot"}
        /\ att.step \in LaunchStep \ {"address"} => att.addr
        /\ att.step = "finish" /\ att.action = "launch" => att.addr

\* An address is there for every instance that has one recorded, or a VM, and for the
\* launch that took it, until a terminate is asked for.
AddressKept ==
    /\ \A i \in Instance : Live(i) /\ ~Terminating(i) /\ row[i].addr => i \in address
    /\ \A i \in Instance, v \in Vmid : vm[v].owner = i /\ ~Terminating(i) => i \in address
    /\ att.step # "idle" /\ att.action # "terminate" /\ att.addr => att.inst \in address

Fits == Consistent /\ StateFits /\ AttemptFits /\ AddressKept

-----------------------------------------------------------------------------
(* How one instance maps to Lifecycle, and what the steps share             *)

Holds(i) == i \in address \/ \E v \in Vmid : vm[v].owner = i

Simulates == \A i \in Instance : [Promise(i)!Next]_(Promise(i)!vars)

LEMMA Stutters ==
  ASSUME NEW i \in Instance, row'[i].state = row[i].state, row'[i].action = row[i].action,
         Holds(i)' <=> Holds(i)
  PROVE  UNCHANGED Promise(i)!vars
BY DEF Promise!vars, Holds

LEMMA AcquiresOne ==
  ASSUME NEW i \in Instance, row'[i].state = row[i].state, row'[i].action = row[i].action,
         row[i].state \in {"pending", "shutting-down"},
         row[i].action \in {"launch", "terminate"}, Holds(i)'
  PROVE  Promise(i)!Next
BY DEF Promise!Next, Promise!Acquires, Holds

LEMMA ReleasesOne ==
  ASSUME NEW i \in Instance, row'[i].state = row[i].state, row'[i].action = row[i].action,
         row[i].state = "shutting-down", Holds(i)' => Holds(i)
  PROVE  [Promise(i)!Next]_(Promise(i)!vars)
<1>1. CASE Holds(i)'
  BY <1>1, Stutters
<1>2. CASE ~Holds(i)'
  BY <1>2 DEF Promise!Next, Promise!Releases, Holds
<1>. QED  BY <1>1, <1>2

\* What an attempt's instance may read while the attempt goes on.
LEMMA AttemptReads ==
  ASSUME Fits, att.step # "idle"
  PROVE  /\ att.inst \in Instance /\ att.vmid \in Vmid /\ att \in Attempt
         /\ att.action = "launch" => /\ row[att.inst].state \in {"pending", "shutting-down"}
                                     /\ row[att.inst].action \in {"launch", "terminate"}
         /\ att.action = "terminate" => /\ row[att.inst].state = "shutting-down"
                                        /\ row[att.inst].action = "terminate"
BY AttemptHasRow DEF Fits, Consistent, TypeOK, StateFits, AttemptFits, Terminating

\* A step of an attempt that neither makes nor removes a VM or an address.
LEMMA QuietStep ==
  ASSUME Fits, Consistent', att.step \notin {"idle", "finish"},
         \A i \in Instance : /\ row'[i].state = row[i].state /\ row'[i].action = row[i].action
                             /\ row'[i].addr => row[i].addr \/ (i = att.inst /\ att.addr),
         \A v \in Vmid : vm'[v].owner = vm[v].owner, UNCHANGED address,
         att'.inst = att.inst, att'.action = att.action, att'.addr = att.addr,
         att'.step \in LaunchStep => att.step \in LaunchStep,
         att'.step \in PowerStep => att.step \in PowerStep,
         att'.step = "finish" => att.step \notin LaunchStep \/ att.addr,
         att'.step \in LaunchStep \ {"address"} => att.addr
  PROVE  Fits' /\ Simulates
<1> USE DEF Fits
<1>1. att.inst \in Instance /\ Live(att.inst)
  BY AttemptHasRow
<1>2. StateFits'
  BY DEF StateFits, Terminating
<1>3. att'.step = "finish" /\ att.action = "launch" => att.addr
  BY DEF AttemptFits, Consistent, AttemptIsSound, TypeOK, Attempt, Step, EndStep
<1>4. AttemptFits'
  BY <1>1, <1>3 DEF AttemptFits
<1>5. AddressKept'
  <2>1. \A i \in Instance : (Live(i)' <=> Live(i)) /\ (Terminating(i)' <=> Terminating(i))
    BY DEF Live, Terminating
  <2>2. ~Terminating(att.inst) => att.action # "terminate"
    BY <1>1 DEF AttemptFits, Terminating
  <2>. QED  BY <1>1, <2>1, <2>2 DEF AddressKept
<1>6. Simulates
  <2>1. \A i \in Instance : Holds(i)' <=> Holds(i)
    BY DEF Holds
  <2>. QED  BY <2>1, Stutters DEF Simulates
<1>. QED  BY <1>2, <1>4, <1>5, <1>6

LEMMA LaunchStepsFit ==
  ASSUME Fits, Consistent',
         \/ TakeAddress \/ ClearSeed \/ UploadSeed \/ ListBeforeCreate \/ CheckBeforeCreate
         \/ CreateVM \/ CreateRefused \/ Boot
  PROVE  Fits' /\ Simulates
<1> USE ConstantsAssumption DEF ledger, memory, backend
<1>1. att \in Attempt /\ TypeOK
  BY DEF Fits, Consistent, TypeOK
<1>2. ASSUME att.step \in LaunchStep
      PROVE  /\ att.inst \in Instance /\ att.vmid \in Vmid /\ att.action = "launch"
             /\ row[att.inst].action \in {"launch", "terminate"}
             /\ row[att.inst].state \in {"pending", "shutting-down"}
             /\ att.step # "address" => att.addr
  BY <1>2, AttemptReads DEF Fits, AttemptFits, LaunchStep
<1>3. ASSUME TakeAddress PROVE Fits' /\ Simulates
  <2> USE DEF Fits
  <2>1. /\ att'.inst = att.inst /\ att'.action = att.action /\ att'.addr
        /\ att'.step = "recordAddress" /\ address' = address \cup {att.inst}
        /\ UNCHANGED <<row, vm>> /\ att.step = "address"
    BY <1>1, <1>3 DEF TakeAddress, Attempt
  <2>2. StateFits' /\ AttemptFits'
    BY <1>2, <2>1 DEF StateFits, AttemptFits, Terminating, LaunchStep, PowerStep
  <2>3. AddressKept'
    BY <2>1 DEF AddressKept, Live, Terminating
  <2>4. Simulates
    <3>1. \A i \in Instance \ {att.inst} : Holds(i)' <=> Holds(i)
      BY <2>1 DEF Holds
    <3>2. Holds(att.inst)'
      BY <2>1 DEF Holds
    <3>. QED  BY <1>2, <2>1, <3>1, <3>2, Stutters, AcquiresOne DEF Simulates, LaunchStep
  <2>. QED  BY <2>2, <2>3, <2>4
<1>4. ASSUME CreateVM PROVE Fits' /\ Simulates
  <2> USE DEF Fits
  <2>1. /\ att'.inst = att.inst /\ att'.action = att.action /\ att'.addr = att.addr
        /\ att'.step = "recordVM" /\ UNCHANGED <<row, address>> /\ att.step = "create"
    BY <1>1, <1>4 DEF CreateVM, Attempt
  <2>2. /\ att.inst \in Instance /\ att.addr /\ att.action = "launch" /\ att.vmid \in Vmid
    BY <1>2, <2>1 DEF LaunchStep
  <2>3. \A v \in Vmid : vm'[v].owner = IF v = att.vmid THEN att.inst ELSE vm[v].owner
    BY <1>1, <1>4, <2>2 DEF CreateVM, TypeOK, NoVM
  <2>4. StateFits' /\ AttemptFits'
    BY <2>1, <2>2 DEF StateFits, AttemptFits, Terminating, LaunchStep, PowerStep
  <2>5. AddressKept'
    BY <2>1, <2>2, <2>3 DEF AddressKept, Live, Terminating
  <2>6. Simulates
    <3>1. \A i \in Instance \ {att.inst} : Holds(i)' <=> Holds(i)
      <4>1. vm[att.vmid].owner = Nobody
        BY <1>4 DEF CreateVM
      <4>. QED  BY <2>1, <2>3, <4>1 DEF Holds
    <3>2. Holds(att.inst)'
      BY <2>1, <2>2, <2>3 DEF Holds
    <3>. QED  BY <1>2, <2>1, <3>1, <3>2, Stutters, AcquiresOne DEF Simulates, LaunchStep
  <2>. QED  BY <2>4, <2>5, <2>6
<1>5. ASSUME Boot PROVE Fits' /\ Simulates
  <2>1. /\ att'.inst = att.inst /\ att'.action = att.action /\ att'.addr = att.addr
        /\ att'.step = "finish" /\ UNCHANGED <<row, address>> /\ att.step = "boot"
    BY <1>1, <1>5 DEF Boot, Attempt
  <2>2. \A v \in Vmid : vm'[v].owner = vm[v].owner
    BY <1>1, <1>2, <1>5, <2>1, SwitchedOwner DEF Boot, LaunchStep
  <2>. QED  BY <1>2, <2>1, <2>2, QuietStep DEF LaunchStep, PowerStep
<1>6. ASSUME ClearSeed \/ UploadSeed \/ ListBeforeCreate \/ CheckBeforeCreate \/ CreateRefused
      PROVE  Fits' /\ Simulates
  <2>1. /\ att'.inst = att.inst /\ att'.action = att.action /\ att'.addr = att.addr
        /\ att'.step \in LaunchStep \ {"address"} /\ UNCHANGED <<row, vm, address>>
        /\ att.step \in LaunchStep \ {"address"}
    <3>1. CASE ClearSeed \/ UploadSeed
      BY <1>1, <3>1 DEF ClearSeed, UploadSeed, Attempt, LaunchStep
    <3>2. CASE ListBeforeCreate \/ CreateRefused
      BY <1>1, <3>2 DEF ListBeforeCreate, CreateRefused, Attempt, LaunchStep
    <3>3. CASE CheckBeforeCreate
      <4>1. \/ att' = [att EXCEPT !.visible = {}, !.created = TRUE, !.step = "recordVM"]
            \/ att' = [att EXCEPT !.step = "move"]
        BY <3>3 DEF CheckBeforeCreate
      <4>. QED  BY <1>1, <3>3, <4>1 DEF CheckBeforeCreate, Attempt, LaunchStep
    <3>. QED  BY <1>6, <3>1, <3>2, <3>3
  <2>. QED  BY <1>2, <2>1, QuietStep DEF LaunchStep, PowerStep
<1>. QED  BY <1>3, <1>4, <1>5, <1>6

LEMMA RecordsFit ==
  ASSUME Fits, Consistent', RecordAddress \/ RecordSeed \/ RecordVM \/ MoveVmid
  PROVE  Fits' /\ Simulates
<1> USE ConstantsAssumption DEF memory, backend
<1>1. /\ att \in Attempt /\ row \in [Instance -> Row]
      /\ att.step \in {"recordAddress", "recordSeed", "recordVM", "move"}
  BY DEF Fits, Consistent, TypeOK, RecordAddress, RecordSeed, RecordVM, MoveVmid
<1>2. att.inst \in Instance /\ att.addr
  BY <1>1, AttemptReads DEF Fits, AttemptFits, LaunchStep
<1>3. PICK a \in Attempt :
        /\ row' = [row EXCEPT ![att.inst] = Recorded(@, a)]
        /\ a.addr = att.addr
        /\ att'.inst = att.inst /\ att'.action = att.action /\ att'.addr = att.addr
        /\ att'.step \in {"seed", "list", "boot", "moved"}
        /\ UNCHANGED <<vm, address>>
  <2>1. CASE MoveVmid
    <3>1. PICK v \in Vmid :
            /\ row' = [row EXCEPT ![att.inst] = Recorded(@, [att EXCEPT !.vmid = v])]
            /\ att' = [att EXCEPT !.vmid = v, !.visible = {}, !.step = "moved"]
      BY <2>1 DEF MoveVmid
    <3>2. [att EXCEPT !.vmid = v] \in Attempt
      BY <1>1 DEF Attempt
    <3>. QED  BY <1>1, <2>1, <3>1, <3>2 DEF MoveVmid, Attempt
  <2>2. CASE Record(att)
    <3>1. LaunchFrom(att) \in {"seed", "list", "boot"}
      BY <1>2 DEF LaunchFrom
    <3>. QED  BY <1>1, <2>2, <3>1 DEF Record, Attempt
  <2>. QED  BY <2>1, <2>2 DEF RecordAddress, RecordSeed, RecordVM
<1>4. \A i \in Instance : /\ row'[i].state = row[i].state /\ row'[i].action = row[i].action
                          /\ row'[i].addr => row[i].addr \/ (i = att.inst /\ att.addr)
  <2>1. /\ Recorded(row[att.inst], a).state = row[att.inst].state
        /\ Recorded(row[att.inst], a).action = row[att.inst].action
    BY <1>1, <1>2 DEF Recorded, Row
  <2>. QED  BY <1>1, <1>2, <1>3, <2>1
<1>. QED  BY <1>1, <1>2, <1>3, <1>4, QuietStep DEF LaunchStep, PowerStep

LEMMA PowerStepsFit ==
  ASSUME Fits, Consistent',
         PowerLists \/ PowerOwns \/ PowerOnboot \/ PowerRemembers \/ Power \/ RebootFallsBack
  PROVE  Fits' /\ Simulates
<1> USE ConstantsAssumption DEF ledger, memory, backend
<1>1. att \in Attempt /\ TypeOK /\ att.step \in PowerStep
  BY DEF Fits, Consistent, TypeOK, PowerLists, PowerOwns, PowerOnboot, PowerRemembers, Power,
         RebootFallsBack, PowerStep
<1>2. /\ att'.inst = att.inst /\ att'.action = att.action /\ att'.addr = att.addr
      /\ att'.step \in PowerStep \cup {"finish"} /\ UNCHANGED <<row, address>>
  <2>1. CASE PowerLists \/ PowerOwns
    BY <1>1, <2>1 DEF PowerLists, PowerOwns, Attempt, PowerStep
  <2>2. CASE PowerOnboot \/ PowerRemembers
    BY <1>1, <2>2 DEF PowerOnboot, PowerRemembers, Attempt, PowerStep
  <2>3. CASE Power
    BY <1>1, <2>3 DEF Power, Attempt
  <2>4. CASE RebootFallsBack
    BY <1>1, <2>4 DEF RebootFallsBack, Attempt, PowerStep
  <2>. QED  BY <2>1, <2>2, <2>3, <2>4
<1>3. \A v \in Vmid : vm'[v].owner = vm[v].owner
  <2>1. att.vmid \in Vmid
    BY <1>1, AttemptReads DEF PowerStep
  <2>2. CASE PowerOnboot
    BY <1>1, <2>1, <2>2 DEF PowerOnboot, SetOnboot, TypeOK, Machine
  <2>3. CASE Power
    BY <1>1, <2>1, <2>3, SwitchedOwner DEF Power
  <2>. QED  BY <2>2, <2>3 DEF PowerLists, PowerOwns, PowerRemembers, RebootFallsBack
<1>. QED  BY <1>1, <1>2, <1>3, QuietStep DEF PowerStep, LaunchStep

LEMMA EndStepsFit ==
  ASSUME Fits, Consistent',
         TermLists \/ TermOwns \/ TermStop \/ TermDelete \/ TermSeed \/ TermAddress
  PROVE  Fits' /\ Simulates
<1> USE ConstantsAssumption DEF ledger, memory, backend
<1>1. att \in Attempt /\ TypeOK /\ att.step \in EndStep
  BY DEF Fits, Consistent, TypeOK, TermLists, TermOwns, TermStop, TermDelete, TermSeed,
         TermAddress, EndStep
<1>2. /\ att.inst \in Instance /\ att.vmid \in Vmid /\ att.action = "terminate"
      /\ row[att.inst].state = "shutting-down" /\ row[att.inst].action = "terminate"
  BY <1>1, AttemptReads DEF EndStep, Fits, Consistent, AttemptIsSound
<1>3. /\ att'.inst = att.inst /\ att'.action = att.action /\ att'.addr = att.addr
      /\ att'.step \in EndStep \cup {"finish"} /\ UNCHANGED row
  <2>1. CASE TermLists
    BY <1>1, <2>1 DEF TermLists, AfterVM, Attempt, EndStep
  <2>2. CASE TermOwns
    BY <1>1, <2>2 DEF TermOwns, AfterVM, Attempt, EndStep
  <2>3. CASE TermStop \/ TermDelete
    BY <1>1, <2>3 DEF TermStop, TermDelete, AfterVM, Attempt, EndStep
  <2>4. CASE TermSeed \/ TermAddress
    BY <1>1, <2>4 DEF TermSeed, TermAddress, Attempt, EndStep
  <2>. QED  BY <2>1, <2>2, <2>3, <2>4
<1>4. ASSUME TermLists \/ TermOwns \/ TermStop \/ TermSeed PROVE Fits' /\ Simulates
  <2>1. /\ \A v \in Vmid : vm'[v].owner = vm[v].owner
        /\ UNCHANGED address
    BY <1>1, <1>2, <1>4, SwitchedOwner DEF TermLists, TermOwns, TermStop, TermSeed
  <2>. QED  BY <1>1, <1>3, <2>1, QuietStep DEF EndStep, LaunchStep, PowerStep
<1>5. ASSUME TermDelete \/ TermAddress PROVE Fits' /\ Simulates
  <2> USE DEF Fits
  <2>1. /\ \A v \in Vmid : vm'[v].owner \in {vm[v].owner, Nobody}
        /\ \A v \in Vmid : v # att.vmid => vm'[v].owner = vm[v].owner
        /\ address' \in {address, address \ {att.inst}}
    BY <1>1, <1>2, <1>5 DEF TermDelete, TermAddress, NoVM, TypeOK
  <2>2. StateFits' /\ AttemptFits'
    BY <1>2, <1>3 DEF StateFits, AttemptFits, Terminating, LaunchStep, PowerStep, EndStep
  <2>3. AddressKept'
    BY <1>2, <1>3, <2>1 DEF AddressKept, Live, Terminating
  <2>4. Simulates
    <3>1. \A i \in Instance \ {att.inst} : Holds(i)' <=> Holds(i)
      <4>1. CASE TermDelete
        <5>1. \A i \in Instance \ {att.inst} : vm[att.vmid].owner # i
          <6>1. Live(att.inst) /\ row[att.inst].vmid = att.vmid
            BY <1>1, AttemptHasRow DEF EndStep
          <6>2. VMIsTracked /\ VmidHeldOnce
            BY DEF Consistent
          <6>3. \A i \in Instance :
                   vm[att.vmid].owner = i => row[i].vmid = att.vmid /\ Live(i)
            BY <1>2, <6>2 DEF VMIsTracked
          <6>. QED  BY <1>2, <6>1, <6>2, <6>3 DEF VmidHeldOnce
        <5>2. UNCHANGED address
          BY <4>1 DEF TermDelete
        <5>3. \A i \in Instance : vm'[att.vmid].owner = i => vm[att.vmid].owner = i
          BY <1>2, <2>1
        <5>. QED  BY <2>1, <5>1, <5>2, <5>3 DEF Holds
      <4>2. CASE TermAddress
        BY <2>1, <4>2 DEF TermAddress, Holds
      <4>. QED  BY <1>5, <4>1, <4>2
    <3>2. Holds(att.inst)' => Holds(att.inst)
      <4>1. \A v \in Vmid : vm'[v].owner = att.inst => vm[v].owner = att.inst
        BY <1>2, <2>1
      <4>2. att.inst \in address' => att.inst \in address
        BY <2>1
      <4>. QED  BY <1>3, <4>1, <4>2 DEF Holds
    <3>. QED  BY <1>2, <1>3, <3>1, <3>2, Stutters, ReleasesOne DEF Simulates
  <2>. QED  BY <2>2, <2>3, <2>4
<1>. QED  BY <1>4, <1>5
-----------------------------------------------------------------------------
(* Requests, claims and ends of attempts keep it and map to Lifecycle       *)

LEMMA ApiFits ==
  ASSUME Fits, Consistent', NEW i \in Instance, Api(i)
  PROVE  Fits' /\ Simulates
<1> USE ConstantsAssumption DEF ledger, backend, memory, Fits
<1>1. UNCHANGED <<vm, address, att>> /\ \A j \in Instance : Holds(j)' <=> Holds(j)
  BY DEF Api, RunLists, RunAdmits, RunRefused, RequestTerminate, RequestStop, RequestStart,
         RequestReboot, SetAction, Holds
<1>2. ASSUME RunLists(i) \/ RunRefused(i) PROVE Fits' /\ Simulates
  <2>1. UNCHANGED row
    BY <1>2 DEF RunLists, RunRefused
  <2>2. StateFits' /\ AttemptFits' /\ AddressKept'
    BY <1>1, <2>1 DEF StateFits, AttemptFits, AddressKept, Live, Terminating
  <2>3. Simulates
    BY <1>1, <2>1, Stutters DEF Simulates
  <2>. QED  BY <2>2, <2>3
<1>3. ASSUME RunAdmits(i) PROVE Fits' /\ Simulates
  <2>1. /\ row[i].state = "absent" /\ row[i].action = "none" /\ ~Live(i)
        /\ att.step # "idle" => att.inst # i
    BY <1>3, AttemptHasRow DEF RunAdmits, Consistent, RowsAreSound, Live
  <2>2. /\ row'[i].state = "pending" /\ row'[i].action = "launch" /\ ~row'[i].addr
        /\ \A j \in Instance \ {i} : row'[j] = row[j]
    BY <1>3 DEF RunAdmits, NoRow, Consistent, TypeOK
  <2>3. StateFits' /\ AttemptFits'
    BY <1>1, <2>1, <2>2, AttemptHasRow DEF StateFits, AttemptFits, Terminating
  <2>4. AddressKept'
    <3>1. \A v \in Vmid : vm[v].owner # i
      BY <2>1 DEF Consistent, VMIsTracked
    <3>. QED  BY <1>1, <2>2, <3>1 DEF AddressKept, Live, Terminating
  <2>5. Simulates
    <3>1. Promise(i)!Next
      BY <1>1, <2>1, <2>2 DEF Promise!Next, Promise!Admitted, Promise!Moves, Holds
    <3>. QED  BY <1>1, <2>2, <3>1, Stutters DEF Simulates
  <2>. QED  BY <2>3, <2>4, <2>5
<1>4. ASSUME RequestTerminate(i) \/ RequestStop(i) \/ RequestStart(i) \/ RequestReboot(i)
      PROVE  Fits' /\ Simulates
  <2>1. PICK s \in State, a \in Action :
          /\ row' = [row EXCEPT ![i].state = s, ![i].action = a, ![i].attempts = 0]
          /\ \/ row[i].action = "none" /\ a # "terminate"
             \/ ~Terminating(i) /\ Live(i) /\ s = "shutting-down" /\ a = "terminate"
          /\ \/ a = "terminate"
             \/ row[i].state = "running" /\ s = "stopping" /\ a = "stop"
             \/ row[i].state = "stopped" /\ s = "pending" /\ a = "start"
             \/ row[i].state = "running" /\ s = "running" /\ a = "reboot"
    BY <1>4 DEF RequestTerminate, RequestStop, RequestStart, RequestReboot, SetAction, State,
                Action, Terminating
  <2>2. /\ row'[i].state = s /\ row'[i].action = a /\ row'[i].addr = row[i].addr
        /\ \A j \in Instance \ {i} : row'[j] = row[j]
    BY <2>1 DEF Consistent, TypeOK, Row
  <2>3. StateFits'
    <3>1. \/ a = "terminate" /\ s = "shutting-down"
          \/ a = "stop" /\ s = "stopping"
          \/ a = "start" /\ s = "pending"
          \/ a = "reboot" /\ s = "running"
      BY <2>1
    <3>2. \A j \in Instance \ {i} : row'[j] = row[j]
      BY <2>2
    <3>. QED  BY <2>2, <3>1, <3>2 DEF StateFits, Terminating
  <2>4. AttemptFits'
    <3>1. att.step # "idle" => att.inst \in Instance /\ row[att.inst].action # "none"
      BY AttemptHasRow
    <3>2. att.step # "idle" /\ att.inst = i => a = "terminate"
      BY <2>1, <3>1
    <3>. QED  BY <1>1, <2>2, <3>1, <3>2 DEF AttemptFits
  <2>5. AddressKept'
    BY <1>1, <2>1, <2>2 DEF AddressKept, Live, Terminating
  <2>6. Simulates
    <3>1. Promise(i)!Next
      <4>1. CASE a = "terminate"
        <5>1. row[i].state \notin {"absent", "terminated", "shutting-down"}
          BY <2>1, <4>1 DEF Live, StateFits, Terminating, Consistent, TypeOK, Row, Action
        <5>2. Promise(i)!Ending
          BY <1>1, <2>1, <2>2, <4>1, <5>1 DEF Promise!Ending, Holds
        <5>. QED  BY <5>2 DEF Promise!Next
      <4>2. CASE a # "terminate"
        BY <1>1, <2>1, <2>2, <4>2 DEF Promise!Next, Promise!Asked, Promise!Moves, Holds
      <4>. QED  BY <4>1, <4>2
    <3>. QED  BY <1>1, <2>2, <3>1, Stutters DEF Simulates
  <2>. QED  BY <2>3, <2>4, <2>5, <2>6
<1>. QED  BY <1>2, <1>3, <1>4 DEF Api

LEMMA ClaimFits ==
  ASSUME Fits, Consistent', NEW i \in Instance, Claim(i) \/ LeaseExpires(i)
  PROVE  Fits' /\ Simulates
<1> USE DEF ledger, backend, memory, Fits
<1>1. /\ \A j \in Instance : /\ row'[j].state = row[j].state /\ row'[j].action = row[j].action
                             /\ row'[j].addr = row[j].addr
      /\ UNCHANGED <<vm, address>>
  BY DEF Claim, LeaseExpires, Consistent, TypeOK, Row
<1>2. /\ att.step # "idle" => att.inst \in Instance
      /\ \A j \in Instance : (Live(j)' <=> Live(j)) /\ (Terminating(j)' <=> Terminating(j))
  BY <1>1, AttemptHasRow DEF Live, Terminating
<1>3. StateFits'
  BY <1>1, <1>2 DEF StateFits
<1>4. Simulates
  <2>1. \A j \in Instance : Holds(j)' <=> Holds(j)
    BY <1>1 DEF Holds
  <2>. QED  BY <1>1, <2>1, Stutters DEF Simulates
<1>5. CASE LeaseExpires(i)
  BY <1>1, <1>2, <1>3, <1>4, <1>5 DEF LeaseExpires, AttemptFits, AddressKept
<1>6. CASE Claim(i)
  <2>1. /\ att'.inst = i /\ att'.action = row[i].action /\ att'.addr = row[i].addr
        /\ att'.step = FirstStep(row[i]) /\ row[i].action \in Action \ {"none"} /\ Live(i)
    BY <1>6 DEF Claim, Consistent, TypeOK, Row, RowsAreSound
  <2>2. AttemptFits'
    BY <1>1, <2>1 DEF AttemptFits, FirstStep, LaunchFrom, LaunchStep, PowerStep, Action
  <2>3. AddressKept'
    BY <1>1, <1>2, <2>1 DEF AddressKept, Terminating
  <2>. QED  BY <1>3, <1>4, <2>2, <2>3
<1>. QED  BY <1>5, <1>6

\* How an attempt may leave its row: as it was, done, given up, or to be terminated.
Ends(i, r) ==
    /\ r \in Row /\ row' = [row EXCEPT ![i] = r]
    /\ r.vmid = row[i].vmid /\ r.created = row[i].created
    /\ r.addr = row[i].addr /\ r.seed = row[i].seed
    /\ \/ r.state = row[i].state /\ r.action = row[i].action
       \/ /\ row[i].action = "launch" /\ att.step = "finish" /\ att.action = "launch"
          /\ r.action = "none" /\ r.state = "running"
       \/ /\ row[i].action \in {"start", "stop"}
          /\ r.action = "none" /\ r.state \in {"running", "stopped"}
       \/ /\ row[i].action = "reboot"
          /\ r.action = "none" /\ r.state = "running"
       \/ /\ row[i].action = "terminate" /\ att.step = "finish" /\ att.action = "terminate"
          /\ r.action = "none" /\ r.state = "terminated"
       \/ /\ row[i].action = "launch"
          /\ r.action = "terminate" /\ r.state = "shutting-down"

LEMMA ReleasedEnds ==
  ASSUME TypeOK, NEW i \in Instance, row' = [row EXCEPT ![i] = Released(row[i])] \/ UNCHANGED row
  PROVE  \E r : Ends(i, r)
<1>1. CASE UNCHANGED row
  <2>1. row[i] \in Row /\ row' = [row EXCEPT ![i] = row[i]]
    BY <1>1 DEF TypeOK
  <2>2. Ends(i, row[i])
    BY <2>1 DEF Ends
  <2>. QED  BY <2>2
<1>2. CASE row' = [row EXCEPT ![i] = Released(row[i])]
  <2>1. row[i] \in Row
    BY DEF TypeOK
  <2>2. /\ Released(row[i]).created = row[i].created /\ Released(row[i]).addr = row[i].addr
        /\ Released(row[i]).seed = row[i].seed
    BY <2>1 DEF Released, Row
  <2>3. Ends(i, Released(row[i]))
    BY <1>2, <2>1, <2>2, ReleasedRow DEF Ends
  <2>. QED  BY <2>3
<1>. QED  BY <1>1, <1>2

LEMMA FinishEnds ==
  ASSUME Fits, Finish, NEW i \in Instance, att.inst = i
  PROVE  \E r : Ends(i, r)
<1> USE DEF Fits
<1>1. /\ att.step = "finish" /\ row[i] \in Row /\ TypeOK
      /\ att.action \in Action \ {"none"} /\ row[i].action \in {att.action, "terminate"}
  BY AttemptHasRow DEF Finish, Consistent, TypeOK, Attempt, AttemptFits
<1>2. CASE ~StillAsked
  BY <1>1, <1>2, ReleasedEnds DEF Finish
<1>3. CASE StillAsked
  <2> DEFINE new == Settled(row[i], Outcome(att.action))
  <2>1. Outcome(att.action) \in State
    BY DEF Outcome, State
  <2>2. /\ new \in Row /\ new.vmid = row[i].vmid /\ new.action = "none"
        /\ new.state = Outcome(att.action)
    BY <1>1, <2>1, SettledRow
  <2>3. new.created = row[i].created /\ new.addr = row[i].addr /\ new.seed = row[i].seed
    BY <1>1 DEF Settled, Row
  <2>4. row' = [row EXCEPT ![i] = new] /\ row[i].action = att.action
    BY <1>3 DEF Finish, StillAsked
  <2> HIDE DEF new
  <2>5. Ends(i, new)
    BY <1>1, <2>2, <2>3, <2>4 DEF Ends, Outcome, Action
  <2>. QED  BY <2>5
<1>. QED  BY <1>2, <1>3

LEMMA FailureEnds ==
  ASSUME Fits, Consistent', WorkerFails, NEW i \in Instance, att.inst = i
  PROVE  \E r : Ends(i, r)
<1> USE DEF Fits
<1> DEFINE r   == row[i]
           new == IF MayRetry THEN Retry(r) ELSE GiveUp(r)
<1>1. /\ att.step # "idle" /\ r \in Row /\ att.action \in Action \ {"none"}
  BY AttemptHasRow DEF WorkerFails, Consistent, TypeOK, Attempt
<1>2. new \in Row
  BY DEF WorkerFails, Consistent, TypeOK
<1>3. /\ new.vmid = r.vmid /\ new.created = r.created /\ new.addr = r.addr /\ new.seed = r.seed
      /\ \/ new.state = r.state /\ new.action = r.action
         \/ /\ r.action = "launch"
            /\ new.action = "terminate" /\ new.state = "shutting-down"
         \/ /\ r.action \in {"start", "stop"}
            /\ new.action = "none" /\ new.state \in {"running", "stopped"}
         \/ /\ r.action = "reboot"
            /\ new.action = "none" /\ new.state = "running"
  <2>1. CASE MayRetry \/ ~StillAsked
    BY <1>1, <2>1 DEF Retry, Released, GiveUp, Row
  <2>2. CASE ~MayRetry /\ StillAsked
    <3>1. r.action = att.action /\ att.action \in {"launch", "start", "stop", "reboot"}
      BY <1>1, <2>2 DEF StillAsked, MayRetry, Action
    <3>. QED  BY <1>1, <2>2, <3>1 DEF GiveUp, Settled, Row
  <2>. QED  BY <2>1, <2>2
<1>4. row' = [row EXCEPT ![i] = new]
  BY DEF WorkerFails
<1> HIDE DEF new
<1>5. Ends(i, new)
  BY <1>2, <1>3, <1>4 DEF Ends
<1>. QED  BY <1>5

\* However an attempt ends: carried out, failed, dropped, or with the process.
LEMMA AttemptEnds ==
  ASSUME Fits, Consistent', Finish \/ WorkerFails \/ AttemptDropped \/ Restart,
         att.step # "idle"
  PROVE  \E i \in Instance, r \in Row : att.inst = i /\ Ends(i, r)
<1>1. PICK i \in Instance : i = att.inst
  BY AttemptHasRow DEF Fits
<1>2. \E r : Ends(i, r)
  BY <1>1, FinishEnds, FailureEnds, ReleasedEnds
     DEF AttemptDropped, Restart, ledger, Fits, Consistent
<1>. QED  BY <1>1, <1>2 DEF Ends

LEMMA NothingEnds ==
  ASSUME Fits, AttemptDropped \/ Restart, att.step = "idle"
  PROVE  UNCHANGED row
<1>1. att.inst \notin Instance
  BY ConstantsAssumption DEF Fits, Consistent, AttemptIsSound
<1>. QED  BY <1>1 DEF AttemptDropped, Restart, ledger, Fits, Consistent, TypeOK

LEMMA EndsFit ==
  ASSUME Fits, Consistent', Finish \/ WorkerFails \/ AttemptDropped \/ Restart
  PROVE  Fits' /\ Simulates
<1> USE DEF Fits
<1>1. /\ att' = Idle /\ UNCHANGED <<vm, address>>
      /\ Finish \/ WorkerFails => att.step # "idle"
  BY DEF Finish, WorkerFails, AttemptDropped, Restart, ledger, backend
<1>2. AttemptFits'
  BY <1>1 DEF AttemptFits, Idle
<1>3. \A j \in Instance : Holds(j)' <=> Holds(j)
  BY <1>1 DEF Holds
<1>4. CASE att.step = "idle"
  <2>1. UNCHANGED row
    BY <1>1, <1>4, NothingEnds
  <2>2. StateFits' /\ AddressKept'
    BY <1>1, <2>1 DEF StateFits, AddressKept, Idle, Live, Terminating
  <2>. QED  BY <1>2, <1>3, <2>1, <2>2, Stutters DEF Simulates
<1>5. CASE att.step # "idle"
  <2>1. PICK i \in Instance, r \in Row : att.inst = i /\ Ends(i, r)
    BY <1>5, AttemptEnds
  <2>2. /\ row'[i] = r /\ \A j \in Instance \ {i} : row'[j] = row[j]
    BY <2>1 DEF Ends, Consistent, TypeOK
  <2>3. Live(i) /\ att.vmid = row[i].vmid /\ att.vmid \in Vmid
    BY <1>5, <2>1, AttemptHasRow
  <2>4. /\ att.step = "finish" /\ att.action = "terminate" => ~Holds(i)
        /\ att.step = "finish" /\ att.action = "launch" => Holds(i)
    BY <2>1, <2>3
       DEF Holds, Consistent, AttemptKnows, VMIsTracked, AttemptFits, AddressKept
  <2>5. StateFits'
    BY <2>1, <2>2 DEF Ends, StateFits, Terminating
  <2>6. AddressKept'
    BY <1>1, <2>1, <2>2, <2>3, <2>4 DEF Ends, AddressKept, Idle, Live, Terminating, Holds
  <2>7. [Promise(i)!Next]_(Promise(i)!vars)
    <3>1. CASE r.state = row[i].state /\ r.action = row[i].action
      BY <1>3, <2>2, <3>1, Stutters
    <3>2. CASE row[i].action \in {"launch", "start", "stop", "reboot"} /\ r.action = "none"
      <4>1. row[i].state = CASE row[i].action = "stop"   -> "stopping"
                             [] row[i].action = "reboot" -> "running"
                             [] OTHER                    -> "pending"
        BY <3>2 DEF StateFits
      <4>. QED  BY <1>3, <2>1, <2>2, <2>4, <3>2, <4>1
                DEF Ends, Promise!Next, Promise!Carried, Promise!GaveUp, Promise!Moves, Holds
    <3>3. CASE row[i].action = "terminate" /\ r.action = "none"
      <4>1. row[i].state = "shutting-down"
        BY <3>3 DEF StateFits, Terminating
      <4>. QED  BY <1>3, <2>1, <2>2, <2>4, <3>3, <4>1
                DEF Ends, Promise!Next, Promise!Ended, Promise!Moves, Holds
    <3>4. CASE row[i].action = "launch" /\ r.action = "terminate"
      <4>1. row[i].state = "pending"
        BY <3>4 DEF StateFits
      <4>. QED  BY <1>3, <2>1, <2>2, <3>4, <4>1
                DEF Ends, Promise!Next, Promise!Ending, Holds
    <3>. QED  BY <2>1, <3>1, <3>2, <3>3, <3>4 DEF Ends
  <2>8. Simulates
    BY <1>3, <2>2, <2>7, Stutters DEF Simulates
  <2>. QED  BY <1>2, <2>5, <2>6, <2>8
<1>. QED  BY <1>4, <1>5

-----------------------------------------------------------------------------
(* The world outside is no step of Lifecycle                                *)

LEMMA EnvironmentFits ==
  ASSUME Fits, Consistent', NEW v \in Vmid, Environment(v)
  PROVE  Fits' /\ Simulates
<1> USE ConstantsAssumption DEF Fits, ledger, memory
<1>1. UNCHANGED <<row, address, att>>
  BY DEF Environment, OutsiderCreates, OutsiderRemoves, OutsiderPowers, CachePublishes
<1>2. \A w \in Vmid, i \in Instance : vm'[w].owner = i => vm[w].owner = i
  <2>1. CASE OutsiderCreates(v) \/ OutsiderRemoves(v)
    <3>1. vm'[v].owner \in Foreign \cup {Nobody}
      <4>1. CASE OutsiderCreates(v)
        <5>1. PICK o \in Foreign :
                vm' = [vm EXCEPT ![v] = [NoVM EXCEPT !.owner = o, !.on = TRUE, !.listed = TRUE]]
          BY <4>1 DEF OutsiderCreates
        <5>. QED  BY <5>1 DEF NoVM, Consistent, TypeOK
      <4>2. CASE OutsiderRemoves(v)
        BY <4>2 DEF OutsiderRemoves, NoVM, Consistent, TypeOK
      <4>. QED  BY <2>1, <4>1, <4>2
    <3>2. \A w \in Vmid \ {v} : vm'[w] = vm[w]
      BY <2>1 DEF OutsiderCreates, OutsiderRemoves, Consistent, TypeOK
    <3>. QED  BY <3>1, <3>2
  <2>2. CASE OutsiderPowers(v)
    <3>1. vm[v].on \in BOOLEAN /\ TypeOK
      BY DEF Consistent, TypeOK, Machine
    <3>. QED  BY <2>2, <3>1, SwitchedOwner DEF OutsiderPowers
  <2>3. CASE CachePublishes(v)
    BY <2>3 DEF CachePublishes, Consistent, TypeOK, Machine
  <2>. QED  BY <2>1, <2>2, <2>3 DEF Environment
<1>3. StateFits' /\ AttemptFits'
  BY <1>1 DEF StateFits, AttemptFits, Terminating
<1>4. AddressKept'
  BY <1>1, <1>2 DEF AddressKept, Live, Terminating
<1>5. Simulates
  <2>1. ASSUME NEW i \in Instance PROVE [Promise(i)!Next]_(Promise(i)!vars)
    <3>1. CASE Holds(i)' <=> Holds(i)
      BY <1>1, <3>1, Stutters
    <3>2. CASE ~(Holds(i)' <=> Holds(i))
      <4>1. ~Holds(i)' /\ Holds(i) /\ i \notin address
        BY <1>1, <1>2, <3>2 DEF Holds
      <4>2. row[i].state = "shutting-down"
        BY <4>1 DEF Holds, AddressKept, StateFits
      <4>. QED  BY <1>1, <4>1, <4>2, ReleasesOne
    <3>. QED  BY <3>1, <3>2
  <2>. QED  BY <2>1 DEF Simulates
<1>. QED  BY <1>3, <1>4, <1>5

-----------------------------------------------------------------------------
(* Every step, and the refinement                                           *)

LEMMA FitsAtFirst == Init => Fits
<1> SUFFICES ASSUME Init PROVE Fits
  OBVIOUS
<1>1. Consistent
  BY ConsistentAtFirst
<1>2. StateFits /\ AttemptFits /\ AddressKept
  BY ConstantsAssumption DEF Init, StateFits, AttemptFits, AddressKept, NoRow, NoVM, Idle, Live,
                             Terminating
<1>. QED  BY <1>1, <1>2 DEF Fits

LEMMA FitsKept == Fits /\ [Next]_vars => Fits' /\ Simulates
<1> SUFFICES ASSUME Fits, [Next]_vars PROVE Fits' /\ Simulates
  OBVIOUS
<1>1. Consistent'
  BY ConsistentKept DEF Fits
<1>2. CASE \E i \in Instance : Api(i) \/ Claim(i) \/ LeaseExpires(i)
  BY <1>1, <1>2, ApiFits, ClaimFits
<1>3. CASE Worker
  <2>1. CASE TakeAddress \/ ClearSeed \/ UploadSeed \/ ListBeforeCreate \/ CheckBeforeCreate
               \/ CreateVM \/ CreateRefused \/ Boot
    BY <1>1, <2>1, LaunchStepsFit
  <2>2. CASE RecordAddress \/ RecordSeed \/ RecordVM \/ MoveVmid
    BY <1>1, <2>2, RecordsFit
  <2>3. CASE PowerLists \/ PowerOwns \/ PowerOnboot \/ PowerRemembers \/ Power
               \/ RebootFallsBack
    BY <1>1, <2>3, PowerStepsFit
  <2>4. CASE TermLists \/ TermOwns \/ TermStop \/ TermDelete \/ TermSeed \/ TermAddress
    BY <1>1, <2>4, EndStepsFit
  <2>5. CASE Finish \/ WorkerFails \/ AttemptDropped
    BY <1>1, <2>5, EndsFit
  <2>. QED  BY <1>3, <2>1, <2>2, <2>3, <2>4, <2>5 DEF Worker, Advance
<1>4. CASE \E v \in Vmid : Environment(v)
  BY <1>1, <1>4, EnvironmentFits
<1>5. CASE Restart
  BY <1>1, <1>5, EndsFit
<1>6. CASE UNCHANGED vars
  <2>1. Fits'
    BY <1>1, <1>6 DEF vars, Fits, StateFits, AttemptFits, AddressKept, Live, Terminating
  <2>2. Simulates
    <3>1. \A i \in Instance : Holds(i)' <=> Holds(i)
      BY <1>6 DEF vars, Holds
    <3>. QED  BY <1>6, <3>1, Stutters DEF vars, Simulates
  <2>. QED  BY <2>1, <2>2
<1>. QED  BY <1>2, <1>3, <1>4, <1>5, <1>6 DEF Next, Serve

LEMMA AlwaysFits == Spec => []Fits
BY FitsAtFirst, FitsKept, PTL DEF Spec

(* Every instance goes through the states the API promises and no others, and   *)
(* reads terminated only when no VM and no address carries its ID: the worker,  *)
(* its retries and crashes, users and outsiders together implement Lifecycle.   *)
THEOREM LifecycleImplemented == Spec => ImplementsLifecycle
<1>1. Init => \A i \in Instance : Promise(i)!Init
  <2>1. ASSUME Init, NEW i \in Instance PROVE Promise(i)!Init
    <3>1. ~Holds(i) /\ row[i].state = "absent" /\ row[i].action = "none"
      BY <2>1, ConstantsAssumption DEF Init, Holds, NoVM, NoRow
    <3>. QED  BY <3>1 DEF Promise!Init, Holds
  <2>. QED  BY <2>1
<1>2. Fits /\ [Next]_vars => [\A i \in Instance : [Promise(i)!Next]_(Promise(i)!vars)]_vars
  BY FitsKept DEF Simulates
<1>. QED  BY <1>1, <1>2, AlwaysFits, PTL DEF Spec, ImplementsLifecycle

-----------------------------------------------------------------------------
(* The third invariant: what belongs to an instance is kept                 *)

\* What an instance was launched with is on record once it has been launched.
LaunchRecorded ==
    \A i \in Instance :
        row[i].state \in {"running", "stopping", "stopped"} \/ row[i].action = "start"
            => row[i].created /\ row[i].addr /\ row[i].seed

\* A recorded seed ISO or VM, and one the attempt has made, is there until a terminate
\* is asked for.
SeedKept ==
    /\ \A i \in Instance : Live(i) /\ ~Terminating(i) /\ row[i].seed => i \in iso
    /\ att.step # "idle" /\ att.action # "terminate" /\ att.seed => att.inst \in iso

VMKept ==
    /\ \A i \in Instance :
          Live(i) /\ ~Terminating(i) /\ row[i].created => vm[row[i].vmid].owner = i
    /\ att.step # "idle" /\ att.action # "terminate" /\ att.created
          => vm[att.vmid].owner = att.inst
    /\ att.step \in {"termStop", "termDelete"} => vm[att.vmid].owner = att.inst

\* What an attempt has made, or found recorded, at each of its steps.
AttemptMade ==
    att.step # "idle" =>
        /\ att.step \in {"list", "owns", "create", "move"} => ~att.created
        /\ att.step \in {"recordVM", "boot", "powerOwns", "onboot", "remember", "power"}
              => att.created
        /\ att.step = "seed" => ~att.seed /\ ~row[att.inst].seed
        /\ att.step \in {"recordSeed", "list", "owns", "create", "move", "recordVM"} => att.seed
        /\ att.step = "boot" \/ (att.step = "finish" /\ att.action = "launch")
              => row[att.inst].created /\ row[att.inst].addr /\ row[att.inst].seed

Whole == Fits /\ LaunchRecorded /\ SeedKept /\ VMKept /\ AttemptMade

-----------------------------------------------------------------------------
(* Steps of an attempt                                                      *)

\* Nobody else's VM is touched by this step.
Spares ==
    \A v \in Vmid : vm[v].owner \in Foreign =>
        /\ vm'[v].owner = vm[v].owner
        /\ vm'[v].on = vm[v].on /\ vm'[v].onboot = vm[v].onboot

\* A step that leaves the rows alone and makes nothing but an ISO.
LEMMA QuietWhole ==
  ASSUME Whole, Fits', att.step \notin {"idle", "finish"}, UNCHANGED row,
         \A v \in Vmid : vm'[v].owner = vm[v].owner, iso \subseteq iso',
         att'.inst = att.inst, att'.action = att.action, att'.vmid = att.vmid,
         att'.seed => att.seed \/ att.inst \in iso',
         att'.created => att.created \/ vm[att.vmid].owner = att.inst,
         att'.step \in {"termStop", "termDelete"} => vm[att.vmid].owner = att.inst,
         AttemptMade'
  PROVE  Whole'
<1> USE DEF Whole
<1>1. att.inst \in Instance /\ att.vmid \in Vmid
  BY AttemptReads
<1>2. LaunchRecorded'
  BY DEF LaunchRecorded
<1>3. SeedKept'
  BY DEF SeedKept, Live, Terminating
<1>4. VMKept'
  <2>1. \A i \in Instance : Live(i) => row[i].vmid \in Vmid
    BY DEF Fits, Consistent, RowsAreSound
  <2>. QED  BY <1>1, <2>1 DEF VMKept, Live, Terminating
<1>. QED  BY <1>2, <1>3, <1>4

LEMMA LaunchStepsWhole ==
  ASSUME Whole, Fits',
         TakeAddress \/ UploadSeed \/ ListBeforeCreate \/ CheckBeforeCreate \/ CreateRefused
  PROVE  Whole' /\ Spares
<1> USE DEF ledger, memory, backend
<1>1. att \in Attempt /\ UNCHANGED <<row, vm>>
  BY DEF Whole, Fits, Consistent, TypeOK, TakeAddress, UploadSeed, ListBeforeCreate,
         CheckBeforeCreate, CreateRefused
<1>2. Spares
  BY <1>1 DEF Spares
<1>3. ASSUME TakeAddress PROVE Whole'
  <2>1. /\ att'.inst = att.inst /\ att'.action = att.action /\ att'.vmid = att.vmid
        /\ att'.created = att.created /\ att'.seed = att.seed /\ att'.step = "recordAddress"
    BY <1>1, <1>3 DEF TakeAddress, Attempt
  <2>2. AttemptMade'
    BY <2>1 DEF AttemptMade
  <2>. QED  BY <1>1, <1>3, <2>1, <2>2, QuietWhole DEF TakeAddress
<1>4. ASSUME UploadSeed PROVE Whole'
  <2>1. /\ att'.inst = att.inst /\ att'.action = att.action /\ att'.vmid = att.vmid
        /\ att'.created = att.created /\ att'.seed /\ att'.step = "recordSeed"
    BY <1>1, <1>4 DEF UploadSeed, Attempt
  <2>2. AttemptMade'
    BY <2>1 DEF AttemptMade
  <2>. QED  BY <1>1, <1>4, <2>1, <2>2, QuietWhole DEF UploadSeed
<1>5. ASSUME ListBeforeCreate \/ CreateRefused PROVE Whole'
  <2>1. /\ att'.inst = att.inst /\ att'.action = att.action /\ att'.vmid = att.vmid
        /\ att'.created = att.created /\ att'.seed = att.seed
        /\ att'.step \in {"owns", "create", "move"} /\ att.step \in {"list", "create"}
    BY <1>1, <1>5 DEF ListBeforeCreate, CreateRefused, Attempt
  <2>2. AttemptMade'
    BY <2>1 DEF Whole, AttemptMade
  <2>. QED  BY <1>1, <1>5, <2>1, <2>2, QuietWhole DEF ListBeforeCreate, CreateRefused
<1>6. ASSUME CheckBeforeCreate PROVE Whole'
  <2>1. CASE vm[att.vmid].owner = att.inst
    <3>1. att' = [att EXCEPT !.visible = {}, !.created = TRUE, !.step = "recordVM"]
      BY <1>6, <2>1 DEF CheckBeforeCreate
    <3>2. /\ att'.inst = att.inst /\ att'.action = att.action /\ att'.vmid = att.vmid
          /\ att'.created /\ att'.seed = att.seed /\ att'.step = "recordVM"
      BY <1>1, <3>1 DEF Attempt
    <3>3. AttemptMade'
      BY <1>6, <3>2 DEF CheckBeforeCreate, Whole, AttemptMade
    <3>. QED  BY <1>1, <1>6, <2>1, <3>2, <3>3, QuietWhole DEF CheckBeforeCreate
  <2>2. CASE vm[att.vmid].owner # att.inst
    <3>1. att' = [att EXCEPT !.step = "move"]
      BY <1>6, <2>2 DEF CheckBeforeCreate
    <3>2. /\ att'.inst = att.inst /\ att'.action = att.action /\ att'.vmid = att.vmid
          /\ att'.created = att.created /\ att'.seed = att.seed /\ att'.step = "move"
      BY <1>1, <3>1 DEF Attempt
    <3>3. AttemptMade'
      BY <1>6, <3>2 DEF CheckBeforeCreate, Whole, AttemptMade
    <3>. QED  BY <1>1, <1>6, <3>2, <3>3, QuietWhole DEF CheckBeforeCreate
  <2>. QED  BY <2>1, <2>2
<1>. QED  BY <1>2, <1>3, <1>4, <1>5, <1>6

LEMMA ClearSeedWhole ==
  ASSUME Whole, Fits', ClearSeed
  PROVE  Whole' /\ Spares
<1> USE DEF ledger, memory, backend, ClearSeed, Whole
<1>1. /\ ~att.seed /\ ~row[att.inst].seed /\ att.step = "seed"
      /\ UNCHANGED <<row, vm, att>> /\ iso' = iso \ {att.inst}
  BY DEF AttemptMade
<1>2. LaunchRecorded' /\ VMKept' /\ AttemptMade'
  BY <1>1 DEF LaunchRecorded, VMKept, AttemptMade, Live, Terminating
<1>3. SeedKept'
  BY <1>1 DEF SeedKept, Live, Terminating
<1>. QED  BY <1>1, <1>2, <1>3 DEF Spares

LEMMA CreateWhole ==
  ASSUME Whole, Fits', CreateVM
  PROVE  Whole' /\ Spares
<1> USE ConstantsAssumption DEF ledger, memory, Whole
<1>1. /\ att.inst \in Instance /\ att.vmid \in Vmid /\ att \in Attempt /\ att.step = "create"
      /\ att.seed /\ vm[att.vmid].owner = Nobody /\ TypeOK
  BY AttemptReads DEF CreateVM, AttemptMade, Fits, Consistent
<1>2. /\ att'.inst = att.inst /\ att'.action = att.action /\ att'.vmid = att.vmid
      /\ att'.created /\ att'.seed = att.seed /\ att'.step = "recordVM"
      /\ UNCHANGED <<row, iso>>
  BY <1>1 DEF CreateVM, Attempt
<1>3. /\ vm'[att.vmid].owner = att.inst
      /\ \A v \in Vmid \ {att.vmid} : vm'[v] = vm[v]
  BY <1>1 DEF CreateVM, TypeOK, NoVM
<1>4. LaunchRecorded' /\ SeedKept' /\ AttemptMade'
  BY <1>1, <1>2 DEF LaunchRecorded, SeedKept, AttemptMade, Live, Terminating
<1>5. VMKept'
  <2>1. \A i \in Instance : Live(i) => row[i].vmid \in Vmid
    BY DEF Fits, Consistent, RowsAreSound
  <2>2. \A i \in Instance : Live(i) /\ ~Terminating(i) /\ row[i].created => row[i].vmid # att.vmid
    BY <1>1 DEF VMKept
  <2>3. \A i \in Instance : Live(i) /\ ~Terminating(i) /\ row[i].created =>
                              vm'[row[i].vmid].owner = i
    BY <1>3, <2>1, <2>2 DEF VMKept
  <2>. QED  BY <1>2, <1>3, <2>3 DEF VMKept, Live, Terminating
<1>6. Spares
  <2>1. Nobody \notin Foreign
    BY DEF Foreign
  <2>. QED  BY <1>1, <1>3, <2>1 DEF Spares
<1>. QED  BY <1>4, <1>5, <1>6

LEMMA RecordsWhole ==
  ASSUME Whole, Fits', RecordAddress \/ RecordSeed \/ RecordVM \/ MoveVmid
  PROVE  Whole' /\ Spares
<1> USE DEF memory, backend, Whole
<1>1. /\ att.inst \in Instance /\ att \in Attempt /\ att.action = "launch"
      /\ row[att.inst].state \in {"pending", "shutting-down"}
      /\ row[att.inst].action \in {"launch", "terminate"}
      /\ row \in [Instance -> Row] /\ row[att.inst].vmid = att.vmid
  <2>1. att.step \in LaunchStep \ {"address"}
    BY DEF RecordAddress, RecordSeed, RecordVM, MoveVmid, LaunchStep
  <2>. QED  BY <2>1, AttemptReads, AttemptHasRow
            DEF Fits, AttemptFits, LaunchStep, Consistent, TypeOK
<1>2. PICK a \in Attempt :
        /\ row' = [row EXCEPT ![att.inst] = Recorded(@, a)]
        /\ a.created = att.created /\ a.addr = att.addr /\ a.seed = att.seed
        /\ a.created => a.vmid = att.vmid
        /\ att'.inst = att.inst /\ att'.action = att.action /\ att'.vmid = a.vmid
        /\ att'.created = a.created /\ att'.seed = a.seed
        /\ att'.step \in {LaunchFrom(a), "moved"}
        /\ UNCHANGED <<vm, iso>>
  <2>1. CASE MoveVmid
    <3>1. PICK v \in Vmid :
            /\ row' = [row EXCEPT ![att.inst] = Recorded(@, [att EXCEPT !.vmid = v])]
            /\ att' = [att EXCEPT !.vmid = v, !.visible = {}, !.step = "moved"]
      BY <2>1 DEF MoveVmid
    <3>2. ~att.created
      BY <2>1 DEF MoveVmid, AttemptMade
    <3>3. [att EXCEPT !.vmid = v] \in Attempt
      BY <1>1 DEF Attempt
    <3>. QED  BY <1>1, <2>1, <3>1, <3>2, <3>3 DEF MoveVmid, Attempt
  <2>2. CASE Record(att)
    BY <1>1, <2>2 DEF Record, Attempt
  <2>. QED  BY <2>1, <2>2 DEF RecordAddress, RecordSeed, RecordVM
<1>3. /\ row'[att.inst].state = row[att.inst].state
      /\ row'[att.inst].action = row[att.inst].action
      /\ row'[att.inst].vmid = a.vmid /\ row'[att.inst].created = a.created
      /\ row'[att.inst].addr = a.addr /\ row'[att.inst].seed = a.seed
      /\ \A i \in Instance \ {att.inst} : row'[i] = row[i]
  <2>1. row'[att.inst] = Recorded(row[att.inst], a) /\ row[att.inst] \in Row
    BY <1>1, <1>2
  <2>. QED  BY <1>1, <1>2, <2>1 DEF Recorded, Row
<1>4. LaunchRecorded'
  BY <1>1, <1>3 DEF LaunchRecorded
<1>5. att.step # "idle"
  BY DEF RecordAddress, RecordSeed, RecordVM, MoveVmid
<1>6. SeedKept'
  BY <1>1, <1>2, <1>3, <1>5 DEF SeedKept, Live, Terminating
<1>7. VMKept'
  <2>1. att'.step \notin {"termStop", "termDelete"}
    BY <1>2 DEF LaunchFrom
  <2>. QED  BY <1>1, <1>2, <1>3, <1>5, <2>1 DEF VMKept, Live, Terminating
<1>8. AttemptMade'
  BY <1>1, <1>2, <1>3 DEF AttemptMade, LaunchFrom
<1>. QED  BY <1>2, <1>4, <1>6, <1>7, <1>8 DEF Spares
LEMMA BootWhole ==
  ASSUME Whole, Fits', Boot
  PROVE  Whole' /\ Spares
<1> USE DEF ledger, memory
<1>1. /\ att.inst \in Instance /\ att.vmid \in Vmid /\ att \in Attempt /\ att.step = "boot"
      /\ TypeOK /\ vm[att.vmid].owner = att.inst
      /\ row[att.inst].created /\ row[att.inst].addr /\ row[att.inst].seed
  BY AttemptReads
     DEF Boot, Whole, AttemptMade, VMKept, Fits, AttemptFits, LaunchStep, Consistent
<1>2. /\ att'.inst = att.inst /\ att'.action = att.action /\ att'.vmid = att.vmid
      /\ att'.created = att.created /\ att'.seed = att.seed /\ att'.step = "finish"
      /\ UNCHANGED <<row, iso>>
  BY <1>1 DEF Boot, Attempt
<1>3. \A v \in Vmid : vm'[v].owner = vm[v].owner
  BY <1>1, SwitchedOwner DEF Boot
<1>4. AttemptMade'
  BY <1>1, <1>2 DEF AttemptMade
<1>5. Whole'
  BY <1>1, <1>2, <1>3, <1>4, QuietWhole
<1>6. \A v \in Vmid \ {att.vmid} : vm'[v] = vm[v]
  BY <1>1 DEF Boot, Switch, TypeOK
<1>7. att.inst \notin Foreign
  BY <1>1, ConstantsAssumption
<1>. QED  BY <1>1, <1>5, <1>6, <1>7 DEF Spares

LEMMA PowerStepsWhole ==
  ASSUME Whole, Fits',
         PowerLists \/ PowerOwns \/ PowerOnboot \/ PowerRemembers \/ Power \/ RebootFallsBack
  PROVE  Whole' /\ Spares
<1> USE DEF ledger, memory, backend
<1>1. att \in Attempt /\ TypeOK /\ att.step \in PowerStep
  BY DEF Whole, Fits, Consistent, TypeOK, PowerLists, PowerOwns, PowerOnboot, PowerRemembers,
         Power, RebootFallsBack, PowerStep
<1>2. /\ att.inst \in Instance /\ att.vmid \in Vmid
      /\ att.action \in {"start", "stop", "reboot"}
  BY <1>1, AttemptReads DEF PowerStep, Whole, Fits, AttemptFits
<1>3. /\ att'.inst = att.inst /\ att'.action = att.action /\ att'.vmid = att.vmid
      /\ att'.created = att.created /\ att'.seed = att.seed
      /\ att'.step \in PowerStep \cup {"finish"} /\ UNCHANGED <<row, iso>>
  <2>1. CASE PowerLists \/ PowerOwns
    BY <1>1, <2>1 DEF PowerLists, PowerOwns, Attempt, PowerStep
  <2>2. CASE PowerOnboot \/ PowerRemembers
    BY <1>1, <2>2 DEF PowerOnboot, PowerRemembers, Attempt, PowerStep
  <2>3. CASE Power
    BY <1>1, <2>3 DEF Power, Attempt
  <2>4. CASE RebootFallsBack
    BY <1>1, <2>4 DEF RebootFallsBack, Attempt, PowerStep
  <2>. QED  BY <2>1, <2>2, <2>3, <2>4
<1>4. /\ \A v \in Vmid : vm'[v].owner = vm[v].owner
      /\ UNCHANGED vm \/ PowerOnboot \/ Power
      /\ \A v \in Vmid \ {att.vmid} : vm'[v] = vm[v]
  <2>1. CASE PowerOnboot
    BY <1>1, <1>2, <2>1 DEF PowerOnboot, SetOnboot, TypeOK, Machine
  <2>2. CASE Power
    BY <1>1, <1>2, <2>2, SwitchedOwner DEF Power, Switch, TypeOK
  <2>. QED  BY <2>1, <2>2 DEF PowerLists, PowerOwns, PowerRemembers, RebootFallsBack
<1>5. ~PowerLists /\ ~RebootFallsBack => att.created
  BY DEF PowerOwns, PowerOnboot, PowerRemembers, Power, Whole, AttemptMade
<1>6. AttemptMade'
  <2>1. PowerLists => att.created
    BY DEF PowerLists
  <2>2. RebootFallsBack => att'.step = "powerList"
    BY <1>1 DEF RebootFallsBack, Attempt
  <2>. QED  BY <1>2, <1>3, <1>5, <2>1, <2>2 DEF AttemptMade, PowerStep
<1>7. Whole'
  BY <1>1, <1>2, <1>3, <1>4, <1>6, QuietWhole DEF PowerStep
<1>8. Spares
  <2>1. CASE UNCHANGED vm
    BY <2>1 DEF Spares
  <2>2. CASE PowerOnboot \/ Power
    <3>1. vm[att.vmid].owner = att.inst
      BY <1>2, <2>2 DEF PowerOnboot, Power, Whole, AttemptMade, VMKept
    <3>. QED  BY <1>2, <1>4, <3>1, ConstantsAssumption DEF Spares
  <2>. QED  BY <1>4, <2>1, <2>2
<1>. QED  BY <1>7, <1>8

LEMMA EndStepsWhole ==
  ASSUME Whole, Fits',
         TermLists \/ TermOwns \/ TermStop \/ TermDelete \/ TermSeed \/ TermAddress
  PROVE  Whole' /\ Spares
<1> USE DEF ledger, memory, backend
<1>1. att \in Attempt /\ TypeOK /\ att.step \in EndStep
  BY DEF Whole, Fits, Consistent, TypeOK, TermLists, TermOwns, TermStop, TermDelete, TermSeed,
         TermAddress, EndStep
<1>2. /\ att.inst \in Instance /\ att.vmid \in Vmid /\ att.action = "terminate"
      /\ Terminating(att.inst) /\ att.step \notin {"idle", "finish"}
  BY <1>1, AttemptReads DEF EndStep, Whole, Fits, Consistent, AttemptIsSound, Terminating
<1>3. /\ att'.inst = att.inst /\ att'.action = att.action /\ att'.vmid = att.vmid
      /\ att'.created = att.created /\ att'.seed = att.seed
      /\ att'.step \in EndStep \cup {"finish"} /\ UNCHANGED row
  <2>1. CASE TermLists
    BY <1>1, <2>1 DEF TermLists, AfterVM, Attempt, EndStep
  <2>2. CASE TermOwns
    BY <1>1, <2>2 DEF TermOwns, AfterVM, Attempt, EndStep
  <2>3. CASE TermStop \/ TermDelete
    BY <1>1, <2>3 DEF TermStop, TermDelete, AfterVM, Attempt, EndStep
  <2>4. CASE TermSeed \/ TermAddress
    BY <1>1, <2>4 DEF TermSeed, TermAddress, Attempt, EndStep
  <2>. QED  BY <2>1, <2>2, <2>3, <2>4
<1>4. AttemptMade'
  BY <1>2, <1>3 DEF AttemptMade, EndStep
<1>5. ASSUME TermLists \/ TermOwns \/ TermAddress PROVE Whole' /\ Spares
  <2>1. UNCHANGED <<vm, iso>>
    BY <1>5 DEF TermLists, TermOwns, TermAddress
  <2>2. att'.step \in {"termStop", "termDelete"} => vm[att.vmid].owner = att.inst
    <3>1. CASE TermOwns
      BY <1>1, <3>1 DEF TermOwns, AfterVM, Attempt
    <3>2. CASE TermLists \/ TermAddress
      BY <1>1, <3>2 DEF TermLists, TermAddress, AfterVM, Attempt
    <3>. QED  BY <1>5, <3>1, <3>2
  <2>. QED  BY <1>2, <1>3, <1>4, <2>1, <2>2, QuietWhole DEF Spares
<1>6. ASSUME TermStop PROVE Whole' /\ Spares
  <2>1. \A v \in Vmid : vm'[v].owner = vm[v].owner
    BY <1>1, <1>2, <1>6, SwitchedOwner DEF TermStop
  <2>2. vm[att.vmid].owner = att.inst
    BY <1>6 DEF TermStop, Whole, VMKept
  <2>3. \A v \in Vmid \ {att.vmid} : vm'[v] = vm[v]
    BY <1>1, <1>2, <1>6 DEF TermStop, Switch, TypeOK
  <2>4. UNCHANGED iso
    BY <1>6 DEF TermStop
  <2>5. Spares
    BY <1>2, <2>2, <2>3, ConstantsAssumption DEF Spares
  <2>. QED  BY <1>2, <1>3, <1>4, <2>1, <2>2, <2>4, <2>5, QuietWhole
<1>7. ASSUME TermDelete PROVE Whole' /\ Spares
  <2> USE DEF Whole
  <2>1. vm[att.vmid].owner = att.inst
    BY <1>7 DEF TermDelete, VMKept
  <2>2. /\ \A v \in Vmid \ {att.vmid} : vm'[v] = vm[v]
        /\ UNCHANGED iso /\ att'.step \in {"termSeed", "termAddress"}
    BY <1>1, <1>2, <1>7 DEF TermDelete, TypeOK, AfterVM, Attempt
  <2>3. LaunchRecorded' /\ SeedKept'
    BY <1>2, <1>3, <2>2 DEF LaunchRecorded, SeedKept, Live, Terminating
  <2>4. VMKept'
    <3>1. \A i \in Instance : Live(i) => row[i].vmid \in Vmid
      BY DEF Fits, Consistent, RowsAreSound
    <3>2. \A i \in Instance : Live(i) /\ ~Terminating(i) /\ row[i].created
                                => vm'[row[i].vmid].owner = i
      BY <1>2, <2>1, <2>2, <3>1 DEF VMKept
    <3>. QED  BY <1>2, <1>3, <2>2, <3>2 DEF VMKept, Live, Terminating
  <2>5. Spares
    BY <1>2, <2>1, <2>2, ConstantsAssumption DEF Spares
  <2>. QED  BY <1>4, <2>3, <2>4, <2>5
<1>8. ASSUME TermSeed PROVE Whole' /\ Spares
  <2> USE DEF Whole
  <2>1. UNCHANGED vm /\ iso' = iso \ {att.inst} /\ att'.step = "termAddress"
    BY <1>1, <1>8 DEF TermSeed, Attempt
  <2>2. LaunchRecorded' /\ SeedKept' /\ VMKept'
    BY <1>2, <1>3, <2>1 DEF LaunchRecorded, SeedKept, VMKept, Live, Terminating
  <2>. QED  BY <1>4, <2>1, <2>2 DEF Spares
<1>. QED  BY <1>5, <1>6, <1>7, <1>8

-----------------------------------------------------------------------------
(* Requests, claims and ends of attempts keep what belongs to it            *)

LEMMA ApiWhole ==
  ASSUME Whole, Fits', NEW i \in Instance, Api(i)
  PROVE  Whole' /\ Spares
<1> USE DEF ledger, backend, memory, Whole
<1>1. UNCHANGED <<vm, iso, att>>
  BY DEF Api, RunLists, RunAdmits, RunRefused, RequestTerminate, RequestStop, RequestStart,
         RequestReboot, SetAction
<1>2. \A j \in Instance \ {i} : row'[j] = row[j]
  BY DEF Api, RunLists, RunAdmits, RunRefused, RequestTerminate, RequestStop, RequestStart,
         RequestReboot, SetAction, Fits, Consistent, TypeOK
<1>3. att.step # "idle" => att.inst \in Instance
  BY AttemptReads
<1>4. ASSUME RunLists(i) \/ RunRefused(i) PROVE Whole'
  <2>1. UNCHANGED row
    BY <1>4 DEF RunLists, RunRefused
  <2>. QED  BY <1>1, <2>1 DEF LaunchRecorded, SeedKept, VMKept, AttemptMade, Live, Terminating
<1>5. ASSUME RunAdmits(i) PROVE Whole'
  <2>1. att.step # "idle" => att.inst # i
    BY <1>5, AttemptHasRow DEF RunAdmits, Fits, Consistent, RowsAreSound, Live
  <2>2. /\ row'[i].state = "pending" /\ row'[i].action = "launch"
        /\ ~row'[i].created /\ ~row'[i].seed
    BY <1>5 DEF RunAdmits, NoRow, Fits, Consistent, TypeOK
  <2>. QED  BY <1>1, <1>2, <1>3, <2>1, <2>2
            DEF LaunchRecorded, SeedKept, VMKept, AttemptMade, Live, Terminating
<1>6. ASSUME RequestTerminate(i) \/ RequestStop(i) \/ RequestStart(i) \/ RequestReboot(i)
      PROVE  Whole'
  <2>1. PICK s \in State, a \in Action :
          /\ row' = [row EXCEPT ![i].state = s, ![i].action = a, ![i].attempts = 0]
          /\ \/ a = "terminate" /\ s = "shutting-down"
             \/ row[i].action = "none" /\ row[i].state \in {"running", "stopped"}
    BY <1>6 DEF RequestTerminate, RequestStop, RequestStart, RequestReboot, SetAction, State,
                Action
  <2>2. /\ row'[i].state = s /\ row'[i].action = a /\ row'[i].vmid = row[i].vmid
        /\ row'[i].created = row[i].created /\ row'[i].addr = row[i].addr
        /\ row'[i].seed = row[i].seed
    BY <2>1 DEF Fits, Consistent, TypeOK, Row
  <2>3. LaunchRecorded'
    BY <1>2, <2>1, <2>2 DEF LaunchRecorded
  <2>4. SeedKept' /\ VMKept'
    <3>1. \A j \in Instance :
            /\ Live(j)' /\ ~Terminating(j)' => Live(j) /\ ~Terminating(j)
            /\ row'[j].vmid = row[j].vmid /\ row'[j].created = row[j].created
            /\ row'[j].seed = row[j].seed
      BY <1>2, <2>1, <2>2 DEF Live, Terminating
    <3>. QED  BY <1>1, <3>1 DEF SeedKept, VMKept
  <2>5. AttemptMade'
    <3>1. \A j \in Instance : /\ row'[j].created = row[j].created
                              /\ row'[j].addr = row[j].addr /\ row'[j].seed = row[j].seed
      BY <1>2, <2>2
    <3>. QED  BY <1>1, <1>3, <3>1 DEF AttemptMade
  <2>. QED  BY <2>3, <2>4, <2>5
<1>. QED  BY <1>1, <1>4, <1>5, <1>6 DEF Api, Spares

LEMMA ClaimWhole ==
  ASSUME Whole, Fits', NEW i \in Instance, Claim(i) \/ LeaseExpires(i)
  PROVE  Whole' /\ Spares
<1> USE DEF backend, memory, Whole
<1>1. /\ UNCHANGED <<vm, iso>>
      /\ \A j \in Instance :
            /\ row'[j].state = row[j].state /\ row'[j].action = row[j].action
            /\ row'[j].vmid = row[j].vmid /\ row'[j].created = row[j].created
            /\ row'[j].addr = row[j].addr /\ row'[j].seed = row[j].seed
  BY DEF Claim, LeaseExpires, Fits, Consistent, TypeOK, Row
<1>2. \A j \in Instance : (Live(j)' <=> Live(j)) /\ (Terminating(j)' <=> Terminating(j))
  BY <1>1 DEF Live, Terminating
<1>3. LaunchRecorded'
  BY <1>1 DEF LaunchRecorded
<1>4. att.step # "idle" => att.inst \in Instance
  BY AttemptReads
<1>5. Spares
  BY <1>1 DEF Spares
<1>6. CASE LeaseExpires(i)
  <2>1. UNCHANGED att
    BY <1>6 DEF LeaseExpires
  <2>2. SeedKept' /\ VMKept'
    BY <1>1, <1>2, <2>1 DEF SeedKept, VMKept
  <2>3. AttemptMade'
    BY <1>1, <1>4, <2>1 DEF AttemptMade
  <2>. QED  BY <1>3, <1>5, <2>2, <2>3
<1>7. CASE Claim(i)
  <2>1. /\ att'.inst = i /\ att'.action = row[i].action /\ att'.vmid = row[i].vmid
        /\ att'.created = row[i].created /\ att'.seed = row[i].seed
        /\ att'.step = FirstStep(row[i]) /\ Live(i)
        /\ att'.step \in {"address", "seed", "list", "boot", "termList", "powerList"}
    BY <1>7 DEF Claim, FirstStep, LaunchFrom, Fits, Consistent, RowsAreSound
  <2>2. SeedKept' /\ VMKept'
    BY <1>1, <1>2, <2>1 DEF SeedKept, VMKept, Terminating
  <2>3. AttemptMade'
    BY <1>1, <2>1 DEF AttemptMade, FirstStep, LaunchFrom
  <2>. QED  BY <1>3, <1>5, <2>2, <2>3
<1>. QED  BY <1>6, <1>7

LEMMA EndsWhole ==
  ASSUME Whole, Fits', Finish \/ WorkerFails \/ AttemptDropped \/ Restart
  PROVE  Whole' /\ Spares
<1> USE DEF Whole
<1>1. /\ att' = Idle /\ UNCHANGED <<vm, iso>>
      /\ Finish \/ WorkerFails => att.step # "idle"
  BY DEF Finish, WorkerFails, AttemptDropped, Restart, ledger, backend
<1>2. AttemptMade' /\ Spares
  BY <1>1 DEF AttemptMade, Spares, Idle
<1>3. CASE att.step = "idle"
  <2>1. UNCHANGED row
    BY <1>1, <1>3, NothingEnds
  <2>2. LaunchRecorded' /\ SeedKept' /\ VMKept'
    BY <1>1, <2>1 DEF LaunchRecorded, SeedKept, VMKept, Idle, Live, Terminating
  <2>. QED  BY <1>2, <2>2
<1>4. CASE att.step # "idle"
  <2>1. PICK i \in Instance, r \in Row : att.inst = i /\ Ends(i, r)
    BY <1>4, AttemptEnds DEF Fits
  <2>2. /\ row'[i] = r /\ \A j \in Instance \ {i} : row'[j] = row[j]
        /\ Live(i)
    BY <1>4, <2>1, AttemptHasRow DEF Ends, Fits, Consistent, TypeOK
  <2>3. LaunchRecorded'
    <3>1. /\ row[i].action = "stop" => row[i].state = "stopping"
          /\ row[i].action = "reboot" => row[i].state = "running"
      BY DEF Fits, StateFits
    <3>2. att.step = "finish" /\ att.action = "launch"
            => row[i].created /\ row[i].addr /\ row[i].seed
      BY <2>1 DEF AttemptMade
    <3>. QED  BY <2>1, <2>2, <3>1, <3>2 DEF Ends, LaunchRecorded
  <2>4. r.state \notin {"absent", "terminated"} /\ r.action # "terminate"
          => ~Terminating(i)
    BY <2>1 DEF Ends, Terminating
  <2>5. SeedKept' /\ VMKept'
    BY <1>1, <2>1, <2>2, <2>4 DEF Ends, SeedKept, VMKept, Idle, Live, Terminating
  <2>. QED  BY <1>2, <2>3, <2>5
<1>. QED  BY <1>3, <1>4

-----------------------------------------------------------------------------
(* Outsiders who remove nothing                                             *)

LEMMA EnvironmentWhole ==
  ASSUME "remove" \notin Outside, Whole, Fits', NEW v \in Vmid, Environment(v)
  PROVE  Whole' /\ Spares
<1> USE ConstantsAssumption DEF Whole, ledger, memory
<1>1. /\ UNCHANGED <<row, iso, att>>
      /\ OutsiderCreates(v) \/ OutsiderPowers(v) \/ CachePublishes(v)
  BY DEF Environment, OutsiderCreates, OutsiderRemoves, OutsiderPowers, CachePublishes
<1>2. /\ \A w \in Vmid : vm[w].owner # Nobody => vm'[w].owner = vm[w].owner
      /\ Spares
  <2>1. CASE OutsiderCreates(v)
    <3>1. /\ vm[v].owner = Nobody
          /\ \A w \in Vmid \ {v} : vm'[w] = vm[w]
      BY <2>1 DEF OutsiderCreates, Fits, Consistent, TypeOK
    <3>. QED  BY <3>1 DEF Spares
  <2>2. CASE OutsiderPowers(v)
    <3>1. /\ vm[v].on \in BOOLEAN /\ TypeOK /\ vm[v].owner \in Instance
          /\ \A w \in Vmid \ {v} : vm'[w] = vm[w]
      BY <2>2 DEF Fits, Consistent, TypeOK, Machine, OutsiderPowers, Switch
    <3>2. \A w \in Vmid : vm'[w].owner = vm[w].owner
      BY <2>2, <3>1, SwitchedOwner DEF OutsiderPowers
    <3>. QED  BY <3>1, <3>2 DEF Spares
  <2>3. CASE CachePublishes(v)
    BY <2>3 DEF CachePublishes, Fits, Consistent, TypeOK, Machine, Spares
  <2>. QED  BY <1>1, <2>1, <2>2, <2>3
<1>3. LaunchRecorded' /\ SeedKept' /\ AttemptMade'
  BY <1>1 DEF LaunchRecorded, SeedKept, AttemptMade, Live, Terminating
<1>4. VMKept'
  <2>1. /\ \A i \in Instance : Live(i) => row[i].vmid \in Vmid
        /\ att.step # "idle" => att.inst \in Instance /\ att.vmid \in Vmid
    BY AttemptReads DEF Fits, Consistent, RowsAreSound
  <2>2. \A w \in Vmid, i \in Instance : vm[w].owner = i => vm'[w].owner = i
    BY <1>2
  <2>. QED  BY <1>1, <2>1, <2>2 DEF VMKept, Live, Terminating
<1>. QED  BY <1>2, <1>3, <1>4

-----------------------------------------------------------------------------
(* Every step, and what follows                                             *)

LEMMA WholeAtFirst == Init => Whole
<1> SUFFICES ASSUME Init PROVE Whole
  OBVIOUS
<1>1. Fits
  BY FitsAtFirst
<1>2. LaunchRecorded /\ SeedKept /\ VMKept /\ AttemptMade
  BY DEF Init, LaunchRecorded, SeedKept, VMKept, AttemptMade, NoRow, Idle, Live
<1>. QED  BY <1>1, <1>2 DEF Whole

LEMMA WholeKept ==
  ASSUME "remove" \notin Outside, Whole, [Next]_vars
  PROVE  Whole' /\ Spares
<1>1. Fits'
  BY FitsKept DEF Whole
<1>2. CASE \E i \in Instance : Api(i) \/ Claim(i) \/ LeaseExpires(i)
  BY <1>1, <1>2, ApiWhole, ClaimWhole
<1>3. CASE Worker
  <2>1. CASE TakeAddress \/ UploadSeed \/ ListBeforeCreate \/ CheckBeforeCreate
               \/ CreateRefused
    BY <1>1, <2>1, LaunchStepsWhole
  <2>2. CASE ClearSeed \/ CreateVM \/ Boot
    BY <1>1, <2>2, ClearSeedWhole, CreateWhole, BootWhole
  <2>3. CASE RecordAddress \/ RecordSeed \/ RecordVM \/ MoveVmid
    BY <1>1, <2>3, RecordsWhole
  <2>4. CASE PowerLists \/ PowerOwns \/ PowerOnboot \/ PowerRemembers \/ Power
               \/ RebootFallsBack
    BY <1>1, <2>4, PowerStepsWhole
  <2>5. CASE TermLists \/ TermOwns \/ TermStop \/ TermDelete \/ TermSeed \/ TermAddress
    BY <1>1, <2>5, EndStepsWhole
  <2>6. CASE Finish \/ WorkerFails \/ AttemptDropped
    BY <1>1, <2>6, EndsWhole
  <2>. QED  BY <1>3, <2>1, <2>2, <2>3, <2>4, <2>5, <2>6 DEF Worker, Advance
<1>4. CASE \E v \in Vmid : Environment(v)
  BY <1>1, <1>4, EnvironmentWhole
<1>5. CASE Restart
  BY <1>1, <1>5, EndsWhole
<1>6. CASE UNCHANGED vars
  BY <1>1, <1>6 DEF vars, Whole, LaunchRecorded, SeedKept, VMKept, AttemptMade, Live,
                    Terminating, Spares
<1>. QED  BY <1>2, <1>3, <1>4, <1>5, <1>6 DEF Next, Serve

LEMMA AlwaysWhole ==
  ASSUME "remove" \notin Outside
  PROVE  Spec => []Whole
<1>1. Whole /\ [Next]_vars => Whole'
  BY WholeKept
<1>. QED  BY <1>1, WholeAtFirst, PTL DEF Spec

(* An instance that reads running, stopping or stopped has its VM, its address  *)
(* and its seed ISO, and all three on record: RecordResources never loses a     *)
(* column, and no retry, replaced action or crash leaves a gap.                 *)
THEOREM LaunchedAreWhole ==
  ASSUME "remove" \notin Outside
  PROVE  Spec => []LaunchedIsWhole
<1>1. Whole => LaunchedIsWhole
  <2> SUFFICES ASSUME Whole, NEW i \in Instance,
                      row[i].state \in {"running", "stopping", "stopped"}
               PROVE  /\ row[i].created /\ vm[row[i].vmid].owner = i
                      /\ row[i].addr /\ i \in address
                      /\ row[i].seed /\ i \in iso
    BY DEF LaunchedIsWhole
  <2>1. Live(i) /\ ~Terminating(i)
    BY DEF Live, Whole, Fits, StateFits
  <2>. QED  BY <2>1 DEF Whole, LaunchRecorded, VMKept, SeedKept, Fits, AddressKept
<1>. QED  BY <1>1, AlwaysWhole, PTL

(* A VM the API did not create is never started, stopped, reconfigured or       *)
(* deleted: createVM and terminate look at who owns a VM before they touch it,  *)
(* and what they have seen still holds when they do.                            *)
THEOREM ForeignIsUntouched ==
  ASSUME "remove" \notin Outside
  PROVE  Spec => ForeignUntouched
<1>1. Whole /\ [Next]_vars =>
        [\A v \in Vmid : vm[v].owner \in Foreign =>
            /\ vm'[v].owner = vm[v].owner
            /\ vm'[v].on = vm[v].on /\ vm'[v].onboot = vm[v].onboot]_vars
  BY WholeKept DEF Spares
<1>. QED  BY <1>1, AlwaysWhole, PTL DEF Spec, ForeignUntouched

-----------------------------------------------------------------------------
(* The reconciler's pass in memory                                          *)

\* A pass that is past the listing of the pool is at one of the instances.
PassSound ==
    /\ pass \in Pass
    /\ pass.step \in {"live", "observe", "onboot", "remember"} => pass.cur \in Instance

LEMMA NoPassTyped == NoPass \in Pass /\ NoPass.step = "idle"
BY DEF NoPass, Pass

LEMMA NextInstanceTyped ==
  ASSUME NEW p \in Pass
  PROVE  NextInstance(p) \in Pass /\ NextInstance(p).step = "next"
BY DEF NextInstance, Pass

LEMMA AgreedTyped ==
  ASSUME NEW p \in Pass, p.cur \in Instance
  PROVE  /\ Agreed(p) \in Pass /\ Agreed(p).step \in {"next", "onboot"}
         /\ Agreed(p).step = "onboot" => Agreed(p).cur \in Instance
<1>1. CASE known[p.cur] = Flag(p.was[p.cur] = "running")
  BY <1>1, NextInstanceTyped DEF Agreed
<1>2. CASE known[p.cur] # Flag(p.was[p.cur] = "running")
  BY <1>2 DEF Agreed, Pass
<1>. QED  BY <1>1, <1>2

LEMMA PassSoundKept ==
  ASSUME PassSound, [NextPass]_rvars
  PROVE  PassSound'
<1> USE DEF PassSound
<1>1. CASE UNCHANGED pass
  BY <1>1
<1>2. CASE pass' = NoPass \/ pass' = NextInstance(pass)
  BY <1>2, NoPassTyped, NextInstanceTyped
<1>3. CASE PassBegins
  <2>1. [i \in Instance |-> IF AtRest(i) THEN row[i].state ELSE "stopped"]
          \in [Instance -> {"running", "stopped"}]
    BY DEF AtRest
  <2>. QED  BY <1>3, <2>1, NoPassTyped DEF PassBegins, Pass
<1>4. CASE PassLists
  BY <1>4 DEF PassLists, Listed, Pass
<1>5. ASSUME NEW i \in Instance, PassTakes(i) PROVE PassSound'
  <2> DEFINE taken == [pass EXCEPT !.cur = i]
  <2>1. taken \in Pass /\ taken.cur = i
    BY DEF Pass
  <2>2. pass' = Agreed(taken) \/ pass' = [taken EXCEPT !.step = "live"]
    BY <1>5 DEF PassTakes
  <2>3. [taken EXCEPT !.step = "live"] \in Pass /\ [taken EXCEPT !.step = "live"].cur = i
    BY <2>1 DEF Pass
  <2> HIDE DEF taken
  <2>. QED  BY <2>1, <2>2, <2>3, AgreedTyped
<1>6. CASE PassLooks
  <2> DEFINE looked == [pass EXCEPT !.live = PowerState(vm[row[pass.cur].vmid].on)]
  <2>1. pass.cur \in Instance
    BY <1>6 DEF PassLooks
  <2>2. looked \in Pass /\ looked.cur = pass.cur
    BY DEF Pass, PowerState
  <2>3. pass' = Agreed(looked) \/ pass' = [looked EXCEPT !.step = "observe"]
    BY <1>6 DEF PassLooks
  <2>4. /\ [looked EXCEPT !.step = "observe"] \in Pass
        /\ [looked EXCEPT !.step = "observe"].cur = pass.cur
    BY <2>2 DEF Pass
  <2> HIDE DEF looked
  <2>. QED  BY <2>1, <2>2, <2>3, <2>4, AgreedTyped
<1>7. CASE PassSetsOnboot
  BY <1>7 DEF PassSetsOnboot, Pass
<1>. QED  BY <1>1, <1>2, <1>3, <1>4, <1>5, <1>6, <1>7
          DEF NextPass, PassAdvances, PassFails, PassObserves, PassRemembers, PassEnds, rvars

-----------------------------------------------------------------------------
(* What a pass does to what the worker and the handlers share with it       *)

Observes == \A i \in Instance : [Promise(i)!Next \/ Promise(i)!Observed]_(Promise(i)!vars)

LEMMA ObservesFits ==
  ASSUME Fits, PassSound, PassObserves
  PROVE  Fits' /\ Observes
<1> USE DEF Fits, backend, memory
<1>1. PICK i \in Instance : i = pass.cur /\ pass.was[i] \in {"running", "stopped"}
  BY DEF PassObserves, PassSound, Pass
<1>2. /\ \A j \in Instance : /\ row'[j].action = row[j].action /\ row'[j].vmid = row[j].vmid
                             /\ row'[j].leased = row[j].leased /\ row'[j].addr = row[j].addr
      /\ \A j \in Instance : \/ row'[j].state = row[j].state
                             \/ /\ row[j].action = "none"
                                /\ row[j].state \in {"running", "stopped"}
                                /\ row'[j].state \in {"running", "stopped"}
      /\ row' \in [Instance -> Row]
  <2>1. PICK s \in State :
          /\ row' = [row EXCEPT ![i].state = s]
          /\ \/ s = row[i].state
             \/ /\ row[i].action = "none" /\ row[i].state \in {"running", "stopped"}
                /\ s \in {"running", "stopped"}
    <3>1. pass.live \in {"running", "stopped"} /\ row[i].state \in State
      BY DEF PassSound, Pass, Consistent, TypeOK, Row
    <3>. QED  BY <1>1, <3>1 DEF PassObserves, State
  <2>2. [row[i] EXCEPT !.state = s] \in Row
    <3>1. row[i] \in Row
      BY DEF Consistent, TypeOK
    <3>2. s \in State
      OBVIOUS
    <3>. QED  BY ONLY <3>1, <3>2 DEF Row
  <2>3. row' = [row EXCEPT ![i] = [row[i] EXCEPT !.state = s]]
    BY <2>1
  <2>. QED  BY <2>1, <2>2, <2>3 DEF Consistent, TypeOK, Row
<1>3. UNCHANGED <<quarantine, admission, known, vm, address, iso, att>>
  BY DEF PassObserves
<1>4. \A j \in Instance : (Live(j)' <=> Live(j)) /\ (Terminating(j)' <=> Terminating(j))
  BY <1>2 DEF Live, Terminating
<1>5. Consistent'
  <2>1. TypeOK' /\ AttemptIsSound' /\ AttemptKnows'
    BY <1>2, <1>3, AttemptHasRow DEF Consistent, TypeOK, AttemptIsSound, AttemptKnows
  <2>2. RowsAreSound'
    <3>1. \A j \in Instance : row[j].state = "absent" => row'[j].state = "absent"
      BY <1>2
    <3>. QED  BY <1>2, <1>3, <1>4, <3>1 DEF Consistent, RowsAreSound
  <2>3. VmidHeldOnce' /\ QuarantineKept'
    BY <1>2, <1>3, <1>4 DEF Consistent, VmidHeldOnce, QuarantineKept
  <2>4. VMIsTracked' /\ AddressIsTracked'
    BY <1>2, <1>3, <1>4 DEF Consistent, VMIsTracked, AddressIsTracked, TypeOK
  <2>. QED  BY <2>1, <2>2, <2>3, <2>4 DEF Consistent
<1>6. StateFits'
  BY <1>2 DEF StateFits, Terminating
<1>7. AttemptFits' /\ AddressKept'
  BY <1>2, <1>3, <1>4, AttemptReads DEF AttemptFits, AddressKept
<1>8. Observes
  <2>1. \A j \in Instance : Holds(j)' <=> Holds(j)
    BY <1>3 DEF Holds
  <2>2. ASSUME NEW j \in Instance PROVE [Promise(j)!Next \/ Promise(j)!Observed]_(Promise(j)!vars)
    <3>1. CASE row'[j].state = row[j].state
      BY <1>2, <2>1, <3>1, Stutters
    <3>2. CASE row'[j].state # row[j].state
      BY <1>2, <2>1, <3>2 DEF Promise!Observed, Promise!Moves, Holds
    <3>. QED  BY <3>1, <3>2
  <2>. QED  BY <2>2 DEF Observes
<1>. QED  BY <1>5, <1>6, <1>7, <1>8

\* Setting a flag of a VM, or remembering that it is set.
LEMMA OnbootFits ==
  ASSUME Fits, PassSound, PassSetsOnboot \/ PassRemembers
  PROVE  Fits' /\ Observes
<1> USE DEF Fits, ledger, backend, memory
<1>1. pass.cur \in Instance
  BY DEF PassSetsOnboot, PassRemembers, PassSound
<1>2. UNCHANGED <<row, quarantine, admission, address, iso, att>>
  BY DEF PassSetsOnboot, PassRemembers
<1>3. /\ vm' \in [Vmid -> Machine] /\ \A v \in Vmid : vm'[v].owner = vm[v].owner
      /\ known' \in [Instance -> {"unset", "on", "off"}]
  <2>1. CASE PassSetsOnboot
    <3> DEFINE v == row[pass.cur].vmid
               m == [vm[v] EXCEPT !.onboot = (pass.was[pass.cur] = "running")]
    <3>1. v \in Vmid
      BY <2>1 DEF PassSetsOnboot, Listed
    <3>2. m \in Machine /\ m.owner = vm[v].owner /\ vm' = [vm EXCEPT ![v] = m]
      BY <2>1, <3>1 DEF PassSetsOnboot, SetOnboot, Consistent, TypeOK, Machine
    <3> HIDE DEF m
    <3>. QED  BY <2>1, <3>1, <3>2 DEF PassSetsOnboot, Consistent, TypeOK
  <2>2. CASE PassRemembers
    BY <1>1, <2>2 DEF PassRemembers, Flag, Consistent, TypeOK
  <2>. QED  BY <2>1, <2>2
<1>4. Consistent'
  <2>1. TypeOK'
    BY <1>2, <1>3 DEF Consistent, TypeOK
  <2>2. RowsAreSound' /\ VmidHeldOnce' /\ QuarantineKept' /\ VMIsTracked' /\ AddressIsTracked'
    BY <1>2, <1>3, NothingAcquired
  <2>3. AttemptIsSound' /\ AttemptKnows'
    BY <1>2, <1>3, AttemptHasRow DEF Consistent, AttemptIsSound, AttemptKnows
  <2>. QED  BY <2>1, <2>2, <2>3 DEF Consistent
<1>5. StateFits' /\ AttemptFits' /\ AddressKept'
  BY <1>2, <1>3 DEF StateFits, AttemptFits, AddressKept, Live, Terminating
<1>6. Observes
  <2>1. \A j \in Instance : Holds(j)' <=> Holds(j)
    BY <1>2, <1>3 DEF Holds
  <2>. QED  BY <1>2, <2>1, Stutters DEF Observes
<1>. QED  BY <1>4, <1>5, <1>6

-----------------------------------------------------------------------------
(* Every step, and what follows                                             *)

PassFits == Fits /\ PassSound

LEMMA PassFitsAtFirst == InitPass => PassFits
BY FitsAtFirst, NoPassTyped DEF InitPass, PassFits, PassSound

LEMMA PassFitsKept ==
  ASSUME PassFits, [NextPass]_rvars
  PROVE  PassFits' /\ Observes
<1> USE DEF PassFits
<1>1. PassSound'
  BY PassSoundKept
<1>2. CASE PassObserves
  BY <1>1, <1>2, ObservesFits
<1>3. CASE PassSetsOnboot \/ PassRemembers
  BY <1>1, <1>3, OnbootFits
<1>4. CASE [Next]_vars
  BY <1>1, <1>4, FitsKept DEF Simulates, Observes
<1>5. \/ PassObserves \/ PassSetsOnboot \/ PassRemembers \/ [Next]_vars
  BY DEF NextPass, PassAdvances, PassFails, PassBegins, PassLists, PassTakes, PassLooks,
         PassEnds, rvars, Next
<1>. QED  BY <1>2, <1>3, <1>4, <1>5

LEMMA PassAlwaysFits == SpecPass => []PassFits
<1>1. PassFits /\ [NextPass]_rvars => PassFits'
  BY PassFitsKept
<1>. QED  BY <1>1, PassFitsAtFirst, PTL DEF SpecPass

(* The rows, the attempt, Proxmox and NetBox, and the pass in memory keep their *)
(* types with the reconciler at work.                                           *)
THEOREM PassTyped == SpecPass => []TypeOKPass
<1>1. PassFits => TypeOKPass
  BY DEF PassFits, Fits, Consistent, PassSound, TypeOKPass
<1>. QED  BY <1>1, PassAlwaysFits, PTL

(* The reconciler writes between any two calls of the worker and of requests,   *)
(* and what the worker relies on still holds: no VM, address or VMID escapes.   *)
THEOREM ConsistentBesideReconciler == SpecPass => []Consistent
<1>1. PassFits => Consistent
  BY DEF PassFits, Fits
<1>. QED  BY <1>1, PassAlwaysFits, PTL

(* A pass only ever moves an instance between running and stopped, and only     *)
(* while nothing is pending, however old what it read is by then (ObserveState).*)
THEOREM ObservedImplemented == SpecPass => ImplementsObserved
<1>1. InitPass => \A i \in Instance : Promise(i)!Init
  <2>1. ASSUME Init, NEW i \in Instance PROVE Promise(i)!Init
    <3>1. ~Holds(i) /\ row[i].state = "absent" /\ row[i].action = "none"
      BY <2>1, ConstantsAssumption DEF Init, Holds, NoVM, NoRow
    <3>. QED  BY <3>1 DEF Promise!Init, Holds
  <2>. QED  BY <2>1 DEF InitPass
<1>2. PassFits /\ [NextPass]_rvars =>
        [\A i \in Instance : [Promise(i)!Next \/ Promise(i)!Observed]_(Promise(i)!vars)]_rvars
  BY PassFitsKept DEF Observes
<1>. QED  BY <1>1, <1>2, PassAlwaysFits, PTL DEF SpecPass, ImplementsObserved
=============================================================================
