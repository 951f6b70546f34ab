-------------------------- MODULE AdmissionProofs --------------------------
(***************************************************************************)
(* Proofs about admission, for any number of requests, slots, VMIDs and    *)
(* any limits.  What a request counts on when it inserts was looked at     *)
(* under the capacity lock: the invariants say that one request holds it,  *)
(* that its look is still true and that there is still room for what it    *)
(* counted.                                                                *)
(***************************************************************************)
EXTENDS Admission, FiniteSetTheorems, TLAPS

-----------------------------------------------------------------------------
(* Types                                                                    *)

Limits == [LimitName -> Nat]

LEMMA EffectiveTyped ==
  ASSUME NEW o \in Overrides
  PROVE  WithOverrides(Declared, o) \in Limits
BY AdmissionAssumption DEF WithOverrides, Limits

LEMMA NoneTyped == NoBody \in Body /\ NoRow \in Row /\ NoCall \in Call
<1>1. SomeAccount \in Account
  BY AdmissionAssumption DEF SomeAccount
<1>2. NoBody \in Body
  BY DEF NoBody, Body
<1>3. NoRow \in Row
  BY <1>1, <1>2 DEF NoRow, Row
<1>4. NoCall \in Call
  BY <1>1, <1>2, AdmissionAssumption DEF NoCall, Call
<1>. QED  BY <1>2, <1>3, <1>4

LEMMA SentTyped ==
  ASSUME NEW b \in Sent
  PROVE  b \in Body /\ b.memory \in Nat /\ b.disk \in Nat
<1>1. Memory \cup {0} \subseteq Nat /\ Disk \subseteq Nat
  BY AdmissionAssumption
<1>. QED  BY <1>1 DEF Sent, Body

\* What a request reads of its own.
LEMMA CallParts ==
  ASSUME TypeOKAdmission, NEW c \in Caller
  PROVE  /\ call[c] \in Call /\ call[c].sent \in Body /\ call[c].body \in Body
         /\ call[c].limits \in Limits /\ call[c].memory \in Nat /\ call[c].disk \in Nat
         /\ call[c].owner \in Account /\ call[c].token \in Token \cup {NoToken}
         /\ call[c].vmid \in Vmid \cup {0} /\ call[c].slot \in Slot \cup {NoSlot}
BY DEF TypeOKAdmission, Call, Limits

LEMMA AdmissionTypedAtFirst == InitAdmission => TypeOKAdmission
BY NoneTyped, AdmissionAssumption DEF InitAdmission, TypeOKAdmission

\* A request under way goes on to its next step.
LEMMA CallStepTyped ==
  ASSUME NEW r \in Call, NEW s \in {"host", "list", "lock", "count", "insert", "update", "record"}
  PROVE  /\ [r EXCEPT !.step = s] \in Call
         /\ \A l \in Limits : [r EXCEPT !.step = s, !.limits = l] \in Call
         /\ \A v \in SUBSET Vmid : [r EXCEPT !.step = s, !.visible = v] \in Call
BY DEF Call, Limits

LEMMA GoesTyped ==
  ASSUME TypeOKAdmission, NEW c \in Caller, NEW r \in Call, Goes(c, r)
  PROVE  TypeOKAdmission'
BY DEF TypeOKAdmission, Goes

LEMMA OpenedTyped ==
  ASSUME TypeOKAdmission, NEW c \in Caller, NEW r \in Call, Opened(c, r)
  PROVE  TypeOKAdmission'
BY AdmissionAssumption DEF TypeOKAdmission, Opened

LEMMA InsertsTyped ==
  ASSUME TypeOKAdmission, NEW c \in Caller, NEW r \in Row, Inserts(c, r)
  PROVE  TypeOKAdmission'
<1>1. PICK s \in Slot :
        /\ row' = [row EXCEPT ![s] = r]
        /\ call' = [call EXCEPT ![c] = [NoCall EXCEPT !.step = "answered", !.slot = s,
                                          !.sent = call[c].sent, !.reply = "created"]]
        /\ UNCHANGED <<override, pool, calls>>
  BY DEF Inserts
<1>2. [NoCall EXCEPT !.step = "answered", !.slot = s, !.sent = call[c].sent, !.reply = "created"] \in Call
  BY NoneTyped, CallParts DEF Call
<1>. QED  BY <1>1, <1>2 DEF TypeOKAdmission

LEMMA IdempotentTyped ==
  ASSUME TypeOKAdmission, NEW c \in Caller, NEW s \in Slot, Idempotent(c, s)
  PROVE  TypeOKAdmission'
<1>1. PICK y \in {"original", "mismatch"} :
        Goes(c, [NoCall EXCEPT !.step = "answered", !.sent = call[c].sent, !.slot = s, !.reply = y])
  BY DEF Idempotent
<1>2. [NoCall EXCEPT !.step = "answered", !.sent = call[c].sent, !.slot = s, !.reply = y] \in Call
  BY NoneTyped, CallParts DEF Call
<1>. QED  BY <1>1, <1>2, GoesTyped

LEMMA AdmissionTypesKept == TypeOKAdmission /\ [NextAdmission]_admissionvars => TypeOKAdmission'
<1> SUFFICES ASSUME TypeOKAdmission, [NextAdmission]_admissionvars PROVE TypeOKAdmission'
  OBVIOUS
<1> USE AdmissionAssumption
<1>1. ASSUME NEW c \in Caller, NEW a \in Account, NEW t \in Token \cup {NoToken}, NEW b \in Sent,
             AsksLaunch(c, a, t, b)
      PROVE  TypeOKAdmission'
  <2> DEFINE l == EffectiveLimits
  <2>1. l \in Limits
    BY EffectiveTyped DEF TypeOKAdmission, EffectiveLimits
  <2>2. b \in Body /\ SpecMemory(b) \in Nat
    BY SentTyped DEF SpecMemory
  <2>3. Filled(b, l) \in Body /\ Filled(b, l).disk \in Nat
    BY <2>1, <2>2 DEF Filled, Body, Limits, LimitName
  <2> HIDE DEF l
  <2>4. [NoCall EXCEPT !.kind = "run", !.step = "token", !.owner = a, !.token = t,
                       !.sent = b, !.body = Filled(b, l), !.limits = l,
                       !.memory = SpecMemory(b), !.disk = Filled(b, l).disk] \in Call
    BY <2>1, <2>2, <2>3, NoneTyped DEF Call, Limits
  <2>. QED  BY <1>1, <2>4, OpenedTyped DEF AsksLaunch, l
<1>2. ASSUME NEW c \in Caller, NEW a \in Account, NEW v \in Vmid, AsksAdoption(c, a, v)
      PROVE  TypeOKAdmission'
  <2>1. pool[v] \in Nat
    BY DEF TypeOKAdmission
  <2>2. [NoCall EXCEPT !.kind = "adopt", !.step = "list", !.owner = a, !.vmid = v,
                       !.memory = pool[v], !.disk = 1] \in Call
    BY <2>1, NoneTyped DEF Call
  <2>. QED  BY <1>2, <2>2, OpenedTyped DEF AsksAdoption
<1>3. ASSUME NEW c \in Caller, NEW s \in Slot, NEW m \in Memory \cup {Preset}, NEW z \in Disk,
             AsksResize(c, s, m, z)
      PROVE  TypeOKAdmission'
  <2> DEFINE d == IF z = 0 THEN row[s].disk ELSE z
             l == EffectiveLimits
             b == [NoBody EXCEPT !.memory = row[s].memory]
  <2>1. row[s].memory \in Nat /\ row[s].disk \in Nat /\ row[s].owner \in Account
        /\ row[s].vmid \in Vmid \cup {0} /\ m \in Nat
    BY DEF TypeOKAdmission, Row
  <2>2. d \in Nat /\ b \in Body
    BY <2>1 DEF NoBody, Body
  <2>3. l \in Limits
    BY EffectiveTyped DEF TypeOKAdmission, EffectiveLimits
  <2>4. Opened(c, [NoCall EXCEPT !.kind = "modify", !.step = "list", !.owner = row[s].owner,
                    !.slot = s, !.vmid = row[s].vmid, !.memory = m, !.disk = d,
                    !.limits = l, !.body.memory = row[s].memory])
    BY <1>3 DEF AsksResize
  <2> HIDE DEF d, l, b
  <2>5. [NoCall EXCEPT !.kind = "modify", !.step = "list", !.owner = row[s].owner,
                    !.slot = s, !.vmid = row[s].vmid, !.memory = m, !.disk = d,
                    !.limits = l, !.body.memory = row[s].memory] \in Call
    <3>1. NoCall.body = NoBody
      BY DEF NoCall
    <3>2. [NoCall.body EXCEPT !.memory = row[s].memory] \in Body
      BY <2>1, <3>1 DEF NoBody, Body
    <3>. QED  BY <2>1, <2>2, <2>3, <3>2, NoneTyped DEF Call, Limits
  <2>. QED  BY <2>4, <2>5, OpenedTyped
<1>4. ASSUME NEW c \in Caller, RunSteps(c) PROVE TypeOKAdmission'
  <2>1. CASE FindsToken(c) \/ LocksForLaunch(c)
    <3>1. \/ \E s \in Slot : Idempotent(c, s)
          \/ \E x \in {"host", "count"} : Goes(c, [call[c] EXCEPT !.step = x])
      BY <2>1 DEF FindsToken, LocksForLaunch, Tokened
    <3>. QED  BY <3>1, IdempotentTyped, CallParts, CallStepTyped, GoesTyped
  <2>2. CASE ChecksHost(c) \/ CountsQuota(c)
    BY <2>2, CallParts, CallStepTyped, GoesTyped DEF ChecksHost, CountsQuota
  <2>3. CASE ListsPool(c)
    <3>1. {v \in Vmid : pool[v] > 0} \in SUBSET Vmid
      OBVIOUS
    <3>. QED  BY <2>3, <3>1, CallParts, CallStepTyped, GoesTyped DEF ListsPool
  <2>4. CASE InsertsLaunch(c)
    <3>1. PICK v \in Vmid :
            Inserts(c, [NoRow EXCEPT !.state = "live", !.owner = call[c].owner,
                     !.token = call[c].token, !.hash = call[c].body, !.sent = call[c].sent,
                     !.vmid = v, !.memory = call[c].memory, !.disk = call[c].disk,
                     !.least = call[c].memory])
      BY <2>4 DEF InsertsLaunch, Lowest, FreeVmids
    <3>2. [NoRow EXCEPT !.state = "live", !.owner = call[c].owner,
                     !.token = call[c].token, !.hash = call[c].body, !.sent = call[c].sent,
                     !.vmid = v, !.memory = call[c].memory, !.disk = call[c].disk,
                     !.least = call[c].memory] \in Row
      BY CallParts, NoneTyped DEF Row
    <3>. QED  BY <3>1, <3>2, InsertsTyped
  <2>. QED  BY <1>4, <2>1, <2>2, <2>3, <2>4 DEF RunSteps
<1>5. ASSUME NEW c \in Caller, AdoptSteps(c) PROVE TypeOKAdmission'
  <2>1. CASE ReadsLimits(c)
    <3>1. EffectiveLimits \in Limits
      BY EffectiveTyped DEF TypeOKAdmission, EffectiveLimits
    <3>. QED  BY <2>1, <3>1, CallParts, CallStepTyped, GoesTyped DEF ReadsLimits
  <2>2. CASE LocksForAdoption(c)
    BY <2>2, CallParts, CallStepTyped, GoesTyped DEF LocksForAdoption
  <2>3. CASE InsertsAdopted(c)
    <3>1. [NoRow EXCEPT !.state = "live", !.owner = call[c].owner,
                     !.vmid = call[c].vmid, !.memory = call[c].memory,
                     !.disk = call[c].disk, !.least = call[c].memory] \in Row
      BY CallParts, NoneTyped DEF Row
    <3>. QED  BY <2>3, <3>1, InsertsTyped DEF InsertsAdopted
  <2>. QED  BY <1>5, <2>1, <2>2, <2>3 DEF AdoptSteps
<1>6. ASSUME NEW c \in Caller, ModifySteps(c) \/ GivesUp(c) PROVE TypeOKAdmission'
  <2>1. CASE GrowthFits(c) \/ LocksForResize(c)
    BY <2>1, CallParts, CallStepTyped, GoesTyped DEF GrowthFits, LocksForResize
  <2>2. CASE UpdatesVM(c)
    <3>1. call' = [call EXCEPT ![c] = [call[c] EXCEPT !.step = "record"]]
          /\ pool' = [pool EXCEPT ![call[c].vmid] = call[c].memory] /\ UNCHANGED <<row, override, calls>>
      BY <2>2 DEF UpdatesVM
    <3>. QED  BY <3>1, CallParts, CallStepTyped DEF TypeOKAdmission
  <2>3. CASE RecordsSpec(c)
    <3> DEFINE s == call[c].slot
               n == IF row[s].least < call[c].memory THEN row[s].least ELSE call[c].memory
               w == [row[s] EXCEPT !.memory = call[c].memory, !.disk = call[c].disk, !.least = n]
    <3>1. row' = [row EXCEPT ![s] = w] /\ call' = [call EXCEPT ![c] = NoCall]
          /\ UNCHANGED <<override, pool, calls>>
      BY <2>3 DEF RecordsSpec
    <3>2. ASSUME s \in Slot PROVE w \in Row
      <4>1. row[s] \in Row /\ n \in Nat
        BY <3>2, CallParts DEF TypeOKAdmission, Row
      <4> HIDE DEF n, s
      <4>. QED  BY <4>1, CallParts DEF Row
    <3> HIDE DEF w, s
    <3>. QED  BY <3>1, <3>2, NoneTyped DEF TypeOKAdmission
  <2>4. CASE GivesUp(c)
    BY <2>4, NoneTyped, GoesTyped DEF GivesUp
  <2>. QED  BY <1>6, <2>1, <2>2, <2>3, <2>4 DEF ModifySteps
<1>7. ASSUME NEW o \in Overrides, SetsLimits(o) PROVE TypeOKAdmission'
  BY <1>7 DEF SetsLimits, TypeOKAdmission
<1>8. ASSUME NEW s \in Slot, VMAppears(s) \/ RowEnds(s) PROVE TypeOKAdmission'
  <2>1. row[s] \in Row /\ row[s].memory \in Nat
    BY DEF TypeOKAdmission, Row
  <2>2. [row[s] EXCEPT !.state = "gone"] \in Row
    BY <2>1 DEF Row
  <2>3. CASE VMAppears(s)
    BY <2>1, <2>3 DEF VMAppears, TypeOKAdmission
  <2>4. CASE RowEnds(s)
    <3>1. row' = [row EXCEPT ![s] = [row[s] EXCEPT !.state = "gone"]]
          /\ pool' = [pool EXCEPT ![row[s].vmid] = 0] /\ UNCHANGED <<override, call, calls>>
      BY <2>4 DEF RowEnds
    <3>. QED  BY <2>2, <3>1 DEF TypeOKAdmission
  <2>. QED  BY <1>8, <2>3, <2>4
<1>9. ASSUME NEW v \in Outside, NEW m \in {0, Preset}, PoolChanges(v, m) PROVE TypeOKAdmission'
  BY <1>9 DEF PoolChanges, TypeOKAdmission
<1>10. CASE UNCHANGED admissionvars
  BY <1>10 DEF admissionvars, TypeOKAdmission
<1>. QED
  BY <1>1, <1>2, <1>3, <1>4, <1>5, <1>6, <1>7, <1>8, <1>9, <1>10 DEF NextAdmission

-----------------------------------------------------------------------------
(* The capacity lock                                                        *)

\* Nothing that c would insert has been inserted by another.
LookHolds(c) ==
    /\ call[c].kind \in {"run", "adopt"}
    /\ call[c].token # NoToken => Tokened(call[c].owner, call[c].token) = {}
    /\ call[c].kind = "adopt" => Holding(call[c].vmid) = {}

LockSound ==
    \A c \in Caller :
       /\ call[c].kind = "adopt" => call[c].token = NoToken
       /\ call[c].step \in Locked => /\ LookHolds(c)
                                     /\ \A d \in Caller : call[d].step \in Locked => d = c

AdmissionSound == TypeOKAdmission /\ LockSound

\* A step of one request that inserts nothing, and at most looks under the lock.
LEMMA LockKeptBy ==
  ASSUME AdmissionSound, NEW c \in Caller, UNCHANGED row,
         \A d \in Caller : d # c => call'[d] = call[d],
         call'[c].kind = "adopt" => call'[c].token = NoToken,
         call'[c].step \in Locked => /\ LookHolds(c)'
                                     /\ \A d \in Caller : d # c => call[d].step \notin Locked
  PROVE  LockSound'
<1>1. ASSUME NEW d \in Caller, d # c, LookHolds(d) PROVE LookHolds(d)'
  BY <1>1 DEF LookHolds, Tokened, Holding, Alive
<1>. QED  BY <1>1 DEF AdmissionSound, LockSound

\* A step that leaves the requests alone and frees rows at most.
LEMMA RowsFreed ==
  ASSUME AdmissionSound, UNCHANGED call,
         \A s \in Slot : /\ row'[s].owner = row[s].owner /\ row'[s].token = row[s].token
                         /\ row'[s].vmid = row[s].vmid
                         /\ row'[s].state # "none" <=> row[s].state # "none"
                         /\ row'[s].state = "live" => row[s].state = "live"
  PROVE  LockSound'
<1>1. ASSUME NEW d \in Caller, LookHolds(d) PROVE LookHolds(d)'
  BY <1>1 DEF LookHolds, Tokened, Holding, Alive
<1>. QED  BY <1>1 DEF AdmissionSound, LockSound

\* The request that holds the lock inserts and gives it back.
LEMMA InsertsKeep ==
  ASSUME AdmissionSound, NEW c \in Caller, NEW r, Inserts(c, r), call[c].step = "insert"
  PROVE  LockSound'
<1>1. PICK s \in Slot :
        call' = [call EXCEPT ![c] = [NoCall EXCEPT !.step = "answered", !.slot = s,
                                       !.sent = call[c].sent, !.reply = "created"]]
  BY DEF Inserts
<1>2. /\ call'[c].step = "answered" /\ call'[c].token = NoToken
      /\ \A d \in Caller : d # c => call'[d] = call[d]
  BY <1>1 DEF AdmissionSound, TypeOKAdmission, NoCall
<1>3. \A d \in Caller : call'[d].step \notin Locked
  BY <1>2 DEF AdmissionSound, LockSound, Locked
<1>. QED  BY <1>2, <1>3 DEF AdmissionSound, LockSound

\* One step on, by a request that keeps all it was made with.
LEMMA StepsOn ==
  ASSUME AdmissionSound, NEW c \in Caller, NEW q, Goes(c, q),
         q.kind = call[c].kind, q.token = call[c].token, q.owner = call[c].owner,
         q.vmid = call[c].vmid
  PROVE  /\ UNCHANGED row /\ call'[c] = q /\ \A d \in Caller : d # c => call'[d] = call[d]
         /\ LookHolds(c) => LookHolds(c)'
<1>1. UNCHANGED row /\ call'[c] = q /\ \A d \in Caller : d # c => call'[d] = call[d]
  BY DEF Goes, AdmissionSound, TypeOKAdmission
<1>. QED  BY <1>1 DEF LookHolds, Tokened, Holding, Alive

\* A request that goes on to a step where it does not hold the lock.
LEMMA UnlockedStep ==
  ASSUME AdmissionSound, NEW c \in Caller, NEW l, NEW v,
         NEW s \in {"host", "list", "lock", "update"},
         NEW q \in {[call[c] EXCEPT !.step = s], [call[c] EXCEPT !.step = s, !.limits = l],
                    [call[c] EXCEPT !.step = s, !.visible = v]},
         Goes(c, q)
  PROVE  LockSound'
<1>1. call[c] \in Call
  BY CallParts DEF AdmissionSound
<1>2. q.step = s /\ q.kind = call[c].kind /\ q.token = call[c].token /\ q.owner = call[c].owner
        /\ q.vmid = call[c].vmid
  BY <1>1 DEF Call
<1>3. UNCHANGED row /\ call'[c] = q /\ \A d \in Caller : d # c => call'[d] = call[d]
  BY <1>2, StepsOn
<1>4. call[c].kind = "adopt" => call[c].token = NoToken
  BY DEF AdmissionSound, LockSound
<1>. QED  BY <1>2, <1>3, <1>4, LockKeptBy DEF Locked

LEMMA LockKept == AdmissionSound /\ [NextAdmission]_admissionvars => AdmissionSound'
<1> SUFFICES ASSUME AdmissionSound, [NextAdmission]_admissionvars PROVE LockSound'
  BY AdmissionTypesKept DEF AdmissionSound
<1> USE AdmissionAssumption
<1>0. \A c \in Caller : call[c].kind = "adopt" => call[c].token = NoToken
  BY DEF AdmissionSound, LockSound
<1>1. ASSUME NEW c \in Caller, NEW a \in Account,
             \/ \E t \in Token \cup {NoToken}, b \in Sent : AsksLaunch(c, a, t, b)
             \/ \E v \in Vmid : AsksAdoption(c, a, v)
      PROVE  LockSound'
  <2>1. CASE \E t \in Token \cup {NoToken}, b \in Sent : AsksLaunch(c, a, t, b)
    <3>1. PICK t \in Token \cup {NoToken}, b \in Sent : AsksLaunch(c, a, t, b)
      BY <2>1
    <3>2. /\ UNCHANGED row /\ \A d \in Caller : d # c => call'[d] = call[d]
          /\ call'[c].step = "token" /\ call'[c].kind = "run"
      BY <3>1 DEF AsksLaunch, Opened, AdmissionSound, TypeOKAdmission, NoCall
    <3>. QED  BY <3>2, LockKeptBy DEF Locked
  <2>2. CASE \E v \in Vmid : AsksAdoption(c, a, v)
    <3>1. PICK v \in Vmid : AsksAdoption(c, a, v)
      BY <2>2
    <3>2. /\ UNCHANGED row /\ \A d \in Caller : d # c => call'[d] = call[d]
          /\ call'[c].step = "list" /\ call'[c].token = NoToken
      BY <3>1 DEF AsksAdoption, Opened, AdmissionSound, TypeOKAdmission, NoCall
    <3>. QED  BY <3>2, LockKeptBy DEF Locked
  <2>. QED  BY <1>1, <2>1, <2>2
<1>2. ASSUME NEW c \in Caller, NEW s \in Slot, NEW m \in Memory \cup {Preset}, NEW z \in Disk,
             AsksResize(c, s, m, z)
      PROVE  LockSound'
  <2>1. /\ UNCHANGED row /\ \A d \in Caller : d # c => call'[d] = call[d]
        /\ call'[c].step = "list" /\ call'[c].kind = "modify"
    BY <1>2 DEF AsksResize, Opened, AdmissionSound, TypeOKAdmission, NoCall
  <2>. QED  BY <2>1, LockKeptBy DEF Locked
<1>3. ASSUME NEW c \in Caller, NEW s \in Slot, Idempotent(c, s) PROVE LockSound'
  <2>1. /\ UNCHANGED row /\ \A d \in Caller : d # c => call'[d] = call[d]
        /\ call'[c].step = "answered" /\ call'[c].token = NoToken
    BY <1>3 DEF Idempotent, Goes, AdmissionSound, TypeOKAdmission, NoCall
  <2>. QED  BY <2>1, LockKeptBy DEF Locked
<1>5. ASSUME NEW c \in Caller, NEW s \in {"count", "insert"}, Goes(c, [call[c] EXCEPT !.step = s]),
             LookHolds(c), \A d \in Caller : d # c => call[d].step \notin Locked
      PROVE  LockSound'
  <2> DEFINE q == [call[c] EXCEPT !.step = s]
  <2>1. q.kind = call[c].kind /\ q.token = call[c].token /\ q.owner = call[c].owner
        /\ q.vmid = call[c].vmid
    <3>1. call[c] \in Call
      BY CallParts DEF AdmissionSound
    <3>. QED  BY <3>1 DEF Call
  <2>2. Goes(c, q)
    BY <1>5
  <2> HIDE DEF q
  <2>3. /\ UNCHANGED row /\ call'[c] = q /\ \A d \in Caller : d # c => call'[d] = call[d]
        /\ LookHolds(c)'
    BY <1>5, <2>1, <2>2, StepsOn
  <2>. QED  BY <1>0, <1>5, <2>1, <2>3, LockKeptBy
<1>7. ASSUME NEW c \in Caller, RunSteps(c) PROVE LockSound'
  <2>1. CASE FindsToken(c)
    <3>1. \/ \E s \in Slot : Idempotent(c, s)
          \/ Goes(c, [call[c] EXCEPT !.step = "host"])
      BY <2>1 DEF FindsToken, Tokened
    <3>. QED  BY <1>3, <3>1, UnlockedStep
  <2>2. CASE ChecksHost(c)
    BY <2>2, UnlockedStep DEF ChecksHost
  <2>5. CASE ListsPool(c)
    BY <2>5, UnlockedStep DEF ListsPool
  <2>6. CASE CountsQuota(c)
    <3>1. Goes(c, [call[c] EXCEPT !.step = "insert"]) /\ call[c].step \in Locked
      BY <2>6 DEF CountsQuota, Locked
    <3>2. LookHolds(c) /\ \A d \in Caller : d # c => call[d].step \notin Locked
      BY <3>1 DEF AdmissionSound, LockSound
    <3>. QED  BY <1>5, <3>1, <3>2
  <2>3. CASE LocksForLaunch(c)
    <3>1. \/ \E s \in Slot : Idempotent(c, s)
          \/ /\ Goes(c, [call[c] EXCEPT !.step = "count"]) /\ LocksCapacity(c)
             /\ call[c].kind = "run"
             /\ call[c].token # NoToken => Tokened(call[c].owner, call[c].token) = {}
      BY <2>3 DEF LocksForLaunch, Tokened
    <3>2. CASE \E s \in Slot : Idempotent(c, s)
      BY <1>3, <3>2
    <3>3. CASE /\ Goes(c, [call[c] EXCEPT !.step = "count"]) /\ LocksCapacity(c)
               /\ call[c].kind = "run"
               /\ call[c].token # NoToken => Tokened(call[c].owner, call[c].token) = {}
      <4>1. LookHolds(c)
        BY <3>3 DEF LookHolds
      <4>. QED  BY <1>5, <3>3, <4>1 DEF LocksCapacity
    <3>. QED  BY <3>1, <3>2, <3>3
  <2>4. CASE InsertsLaunch(c)
    BY <2>4, InsertsKeep DEF InsertsLaunch
  <2>. QED  BY <1>7, <2>1, <2>2, <2>3, <2>4, <2>5, <2>6 DEF RunSteps
<1>8. ASSUME NEW c \in Caller, AdoptSteps(c) PROVE LockSound'
  <2>1. CASE ReadsLimits(c)
    BY <2>1, UnlockedStep DEF ReadsLimits
  <2>2. CASE LocksForAdoption(c)
    <3>1. LookHolds(c)
      BY <1>0, <2>2 DEF LocksForAdoption, LookHolds
    <3>. QED  BY <1>5, <2>2, <3>1 DEF LocksForAdoption, LocksCapacity
  <2>3. CASE InsertsAdopted(c)
    BY <2>3, InsertsKeep DEF InsertsAdopted
  <2>. QED  BY <1>8, <2>1, <2>2, <2>3 DEF AdoptSteps
<1>9. ASSUME NEW c \in Caller, ModifySteps(c) \/ GivesUp(c) PROVE LockSound'
  <2>1. CASE GrowthFits(c) \/ LocksForResize(c)
    BY <2>1, UnlockedStep DEF GrowthFits, LocksForResize
  <2>2. CASE UpdatesVM(c)
    <3>1. /\ UNCHANGED row /\ \A d \in Caller : d # c => call'[d] = call[d]
          /\ call'[c].step = "record" /\ call'[c].kind = call[c].kind /\ call'[c].token = call[c].token
      <4>1. call[c] \in Call
        BY CallParts DEF AdmissionSound
      <4>. QED  BY <2>2, <4>1 DEF UpdatesVM, AdmissionSound, TypeOKAdmission, Call
    <3>. QED  BY <1>0, <3>1, LockKeptBy DEF Locked
  <2>3. CASE RecordsSpec(c)
    <3>1. \A s \in Slot : /\ row'[s].owner = row[s].owner /\ row'[s].token = row[s].token
                          /\ row'[s].vmid = row[s].vmid /\ row'[s].state = row[s].state
      <4>1. row \in [Slot -> Row]
        BY DEF AdmissionSound, TypeOKAdmission
      <4>. QED  BY <2>3, <4>1 DEF RecordsSpec, Row
    <3>2. call'[c] = NoCall /\ \A d \in Caller : d # c => call'[d] = call[d]
      BY <2>3 DEF RecordsSpec, AdmissionSound, TypeOKAdmission
    <3>3. ASSUME NEW d \in Caller, call'[d].step \in Locked
          PROVE  d # c /\ call'[d] = call[d] /\ LookHolds(d)'
      <4>1. d # c /\ call'[d] = call[d]
        BY <3>2, <3>3 DEF NoCall, Locked
      <4>2. LookHolds(d)
        BY <3>3, <4>1 DEF AdmissionSound, LockSound
      <4>3. \A a, t, v : Tokened(a, t)' = Tokened(a, t) /\ Holding(v)' = Holding(v)
        BY <3>1 DEF Tokened, Holding, Alive
      <4>. QED  BY <4>1, <4>2, <4>3 DEF LookHolds
    <3>. QED  BY <1>0, <3>2, <3>3 DEF AdmissionSound, LockSound, NoCall
  <2>4. CASE GivesUp(c)
    <3>1. UNCHANGED row /\ call'[c] = NoCall /\ \A d \in Caller : d # c => call'[d] = call[d]
      BY <2>4 DEF GivesUp, Goes, AdmissionSound, TypeOKAdmission
    <3>2. call'[c].step \notin Locked /\ call'[c].token = NoToken
      BY <3>1 DEF NoCall, Locked
    <3>. QED  BY <3>1, <3>2, LockKeptBy
  <2>. QED  BY <1>9, <2>1, <2>2, <2>3, <2>4 DEF ModifySteps
<1>10. ASSUME NEW s \in Slot, VMAppears(s) \/ RowEnds(s) PROVE LockSound'
  <2>1. row \in [Slot -> Row]
    BY DEF AdmissionSound, TypeOKAdmission
  <2>. QED  BY <1>10, <2>1, RowsFreed DEF VMAppears, RowEnds, Row
<1>11. CASE \/ \E o \in Overrides : SetsLimits(o)
            \/ \E v \in Outside, m \in {0, Preset} : PoolChanges(v, m)
            \/ UNCHANGED admissionvars
  BY <1>11, RowsFreed DEF SetsLimits, PoolChanges, admissionvars
<1>. QED
  BY <1>1, <1>2, <1>7, <1>8, <1>9, <1>10, <1>11 DEF NextAdmission

LEMMA AdmissionSoundAtFirst == InitAdmission => AdmissionSound
<1>1. InitAdmission => LockSound
  BY DEF InitAdmission, LockSound, NoCall, Locked
<1>. QED  BY <1>1, AdmissionTypedAtFirst DEF AdmissionSound

LEMMA AdmissionSoundAlways == SpecAdmission => []AdmissionSound
BY LockKept, AdmissionSoundAtFirst, PTL DEF SpecAdmission

-----------------------------------------------------------------------------
(* Sums                                                                     *)

LEMMA Counting ==
  ASSUME NEW x, NEW n \in Nat
  PROVE  /\ IsFiniteSet({x}) /\ Cardinality({x}) = 1
         /\ IsFiniteSet(1..n) /\ Cardinality(1..n) = n
         /\ IsFiniteSet({x} \X (1..n)) /\ Cardinality({x} \X (1..n)) = n
<1>1. IsFiniteSet({x}) /\ Cardinality({x}) = 1
  BY FS_Singleton
<1>2. IsFiniteSet(1..n) /\ Cardinality(1..n) = IF 1 > n THEN 0 ELSE n - 1 + 1
  <2>1. 1 \in Int /\ n \in Int
    OBVIOUS
  <2>. QED  BY ONLY <2>1, FS_Interval
<1>3. Cardinality(1..n) = n
  BY <1>2
<1>4. IsFiniteSet({x} \X (1..n)) /\ Cardinality({x} \X (1..n)) = 1 * n
  <2>1. \A S, T : IsFiniteSet(S) /\ IsFiniteSet(T) =>
           IsFiniteSet(S \X T) /\ Cardinality(S \X T) = Cardinality(S) * Cardinality(T)
    BY ONLY FS_Product
  <2>2. /\ IsFiniteSet({x} \X (1..n))
        /\ Cardinality({x} \X (1..n)) = Cardinality({x}) * Cardinality(1..n)
    BY ONLY <1>1, <1>2, <2>1, Zenon
  <2>. QED  BY ONLY <1>1, <1>3, <2>2
<1>5. 1 * n = n
  OBVIOUS
<1>. QED  BY ONLY <1>1, <1>2, <1>3, <1>4, <1>5

LEMMA UnitsFinite ==
  ASSUME NEW of, IsFiniteSet(of), NEW list, \A x \in of : list[x] \in Nat
  PROVE  IsFiniteSet(Units(of, list)) /\ Sum(of, list) \in Nat
<1>. DEFINE each == {{x} \X (1..list[x]) : x \in of}
            h == [x \in of |-> {x} \X (1..list[x])]
<1>1. h \in Surjection(of, each)
  BY DEF Surjection
<1>2. IsFiniteSet(each)
  BY <1>1, FS_Surjection
<1>3. ASSUME NEW t \in each PROVE IsFiniteSet(t)
  <2>1. PICK x \in of : t = {x} \X (1..list[x])
    OBVIOUS
  <2>2. IsFiniteSet({x}) /\ IsFiniteSet(1..list[x])
    BY Counting
  <2>. QED  BY <2>1, <2>2, FS_Product
<1>4. IsFiniteSet(UNION each)
  BY <1>2, <1>3, FS_UNION
<1>. QED  BY <1>4, FS_CardinalityType DEF Units, Sum

\* A sum over more, or of larger sizes, is not less.
LEMMA SumGrows ==
  ASSUME NEW T, IsFiniteSet(T), NEW S \in SUBSET T, NEW f, NEW g,
         \A x \in T : g[x] \in Nat, \A x \in S : f[x] \in Nat /\ f[x] <= g[x]
  PROVE  Sum(S, f) <= Sum(T, g)
<1>1. Units(S, f) \subseteq Units(T, g)
  <2>. SUFFICES ASSUME NEW u \in Units(S, f) PROVE u \in Units(T, g)
    OBVIOUS
  <2>1. PICK x \in S : u \in {x} \X (1..f[x])
    BY DEF Units
  <2>2. u \in {x} \X (1..g[x])
    BY <2>1
  <2>. QED  BY <2>2 DEF Units
<1>2. IsFiniteSet(Units(T, g))
  BY UnitsFinite
<1>. QED  BY <1>1, <1>2, FS_Subset DEF Sum

LEMMA SumAdds ==
  ASSUME NEW D, NEW f \in [D -> Nat], NEW g \in [D -> Nat],
         NEW S \in SUBSET D, IsFiniteSet(S), NEW x \in D \ S, \A y \in S : g[y] = f[y]
  PROVE  Sum(S \cup {x}, g) = Sum(S, f) + g[x]
<1>. DEFINE mine == {x} \X (1..g[x])
<1>1. Units(S \cup {x}, g) = Units(S, f) \cup mine
  <2>1. ASSUME NEW u, u \in Units(S \cup {x}, g) PROVE u \in Units(S, f) \cup mine
    <3>1. PICK y \in S \cup {x} : u \in {y} \X (1..g[y])
      BY <2>1 DEF Units
    <3>. QED  BY <3>1 DEF Units
  <2>2. ASSUME NEW u, u \in Units(S, f) PROVE u \in Units(S \cup {x}, g)
    <3>1. PICK y \in S : u \in {y} \X (1..f[y])
      BY <2>2 DEF Units
    <3>. QED  BY <3>1 DEF Units
  <2>3. ASSUME NEW u, u \in mine PROVE u \in Units(S \cup {x}, g)
    BY <2>3 DEF Units
  <2>. QED  BY <2>1, <2>2, <2>3
<1>2. Units(S, f) \cap mine = {}
  BY DEF Units
<1>3. IsFiniteSet(Units(S, f)) /\ Cardinality(Units(S, f)) \in Nat
  BY UnitsFinite, FS_CardinalityType
<1>4. IsFiniteSet(mine) /\ Cardinality(mine) = g[x]
  BY Counting
<1>. HIDE DEF mine
<1>5. Cardinality(Units(S, f) \cup mine)
         = Cardinality(Units(S, f)) + Cardinality(mine) - Cardinality(Units(S, f) \cap mine)
  BY <1>3, <1>4, FS_Union
<1>6. Cardinality(Units(S, f) \cap mine) = 0
  BY <1>2, FS_EmptySet
<1>7. Sum(S \cup {x}, g) = Cardinality(Units(S, f) \cup mine)
  BY <1>1 DEF Sum
<1>. QED  BY <1>3, <1>4, <1>5, <1>6, <1>7 DEF Sum

-----------------------------------------------------------------------------
(* What a request has counted                                               *)

\* There is room for what c is about to insert.
RoomFor(c) ==
    LET l   == call[c].limits
        own == AccountUsage(call[c].owner)
    IN  /\ Within(Cardinality(own) + 1, l["instances"])
        /\ Within(Sum(own, Least) + call[c].memory, l["memory"])
        /\ Within(Sum(Alive, Least) + call[c].memory, l["budget"])

Counted ==
    /\ IsFiniteSet(Alive)
    /\ \A s \in Slot : row[s].least <= row[s].memory
    /\ \A c \in Caller : call[c].step = "insert" => RoomFor(c)

LEMMA SizesTyped ==
  ASSUME TypeOKAdmission
  PROVE  /\ Least \in [Slot -> Nat] /\ Memories \in [Slot -> Nat]
         /\ Alive \subseteq Slot /\ \A a : AccountUsage(a) \subseteq Alive
BY DEF Least, Memories, Alive, AccountUsage, TypeOKAdmission, Row

\* Less used leaves as much room.
LEMMA Roomier ==
  ASSUME NEW used \in Int, NEW limit \in Nat, Within(used, limit), NEW less \in Int, less <= used
  PROVE  Within(less, limit)
BY DEF Within

\* Whatever leaves no more used leaves the room a request has counted on.
LEMMA RoomStays ==
  ASSUME TypeOKAdmission, TypeOKAdmission', IsFiniteSet(Alive), NEW c \in Caller, RoomFor(c),
         call'[c] = call[c], Alive' \subseteq Alive,
         \A s \in Slot : row'[s].owner = row[s].owner /\ row'[s].least <= row[s].least
  PROVE  RoomFor(c)'
<1>. DEFINE own == AccountUsage(call[c].owner)
            l == call[c].limits
<1>1. /\ l \in Limits /\ call[c].memory \in Nat
      /\ l["instances"] \in Nat /\ l["memory"] \in Nat /\ l["budget"] \in Nat
  BY CallParts DEF Limits, LimitName
<1>2. /\ own' \subseteq own /\ own \subseteq Alive /\ Alive \subseteq Slot
      /\ Least \in [Slot -> Nat] /\ Least' \in [Slot -> Nat]
      /\ \A s \in Slot : Least'[s] <= Least[s]
  <2>1. /\ own \subseteq Alive /\ Alive \subseteq Slot
        /\ Least \in [Slot -> Nat]
    BY SizesTyped
  <2>4. Least' \in [Slot -> Nat]
    BY DEF Least, TypeOKAdmission, Row
  <2>2. own' \subseteq own
    BY <2>1 DEF AccountUsage
  <2>3. \A s \in Slot : Least'[s] = row'[s].least /\ Least[s] = row[s].least
    BY DEF Least
  <2>. QED  BY <2>1, <2>2, <2>3, <2>4
<1>. HIDE DEF own
<1>3. IsFiniteSet(own) /\ IsFiniteSet(own') /\ IsFiniteSet(Alive')
  BY <1>2, FS_Subset
<1>4. /\ Cardinality(own') <= Cardinality(own)
      /\ Cardinality(own) \in Nat /\ Cardinality(own') \in Nat
  BY <1>2, <1>3, FS_Subset, FS_CardinalityType
<1>5. /\ Sum(own', Least') <= Sum(own, Least)
      /\ Sum(Alive', Least') <= Sum(Alive, Least)
  BY <1>2, <1>3, SumGrows
<1>6. /\ Sum(own, Least) \in Nat /\ Sum(own', Least') \in Nat
      /\ Sum(Alive, Least) \in Nat /\ Sum(Alive', Least') \in Nat
  BY <1>2, <1>3, UnitsFinite
<1>7. /\ Within(Cardinality(own) + 1, l["instances"])
      /\ Within(Sum(own, Least) + call[c].memory, l["memory"])
      /\ Within(Sum(Alive, Least) + call[c].memory, l["budget"])
  BY DEF RoomFor, own
<1>8. /\ Within(Cardinality(own') + 1, l["instances"])
      /\ Within(Sum(own', Least') + call[c].memory, l["memory"])
      /\ Within(Sum(Alive', Least') + call[c].memory, l["budget"])
  BY <1>1, <1>4, <1>5, <1>6, <1>7, Roomier
<1>. QED  BY <1>8 DEF RoomFor, own

\* A step that leaves the rows alone, of a request that does not come to insert.
LEMMA CountedSame ==
  ASSUME TypeOKAdmission, TypeOKAdmission', Counted, UNCHANGED row,
         \A d \in Caller : call'[d].step = "insert" => call'[d] = call[d]
  PROVE  Counted'
<1>1. Alive' = Alive /\ \A s \in Slot : row'[s].least <= row[s].least
  BY DEF Alive, TypeOKAdmission, Row
<1>2. ASSUME NEW d \in Caller, call'[d].step = "insert" PROVE RoomFor(d)'
  BY <1>1, <1>2, RoomStays DEF Counted
<1>. QED  BY <1>1, <1>2 DEF Counted

\* The same of a step that is one request's.
LEMMA CountedByOther ==
  ASSUME TypeOKAdmission, TypeOKAdmission', Counted, NEW c \in Caller, NEW r,
         r.step # "insert", UNCHANGED row, call' = [call EXCEPT ![c] = r]
  PROVE  Counted'
BY CountedSame DEF TypeOKAdmission

\* What is counted is at least the least.
LEMMA CountedKept ==
  ASSUME TypeOKAdmission, TypeOKAdmission', Counted, NEW c \in Caller, CountsQuota(c)
  PROVE  Counted'
<1>. DEFINE own == AccountUsage(call[c].owner)
            l == call[c].limits
            m == call[c].memory
<1>1. /\ call[c] \in Call /\ m \in Nat
      /\ l["instances"] \in Nat /\ l["memory"] \in Nat /\ l["budget"] \in Nat
  BY CallParts DEF Limits, LimitName
<1>2. /\ row' = row /\ call'[c] = [call[c] EXCEPT !.step = "insert"]
      /\ \A d \in Caller \ {c} : call'[d] = call[d]
  BY DEF CountsQuota, Goes, TypeOKAdmission
<1>3. call'[c].limits = l /\ call'[c].owner = call[c].owner /\ call'[c].memory = m
  BY <1>1, <1>2 DEF Call
<1>4. /\ own \subseteq Alive /\ IsFiniteSet(own) /\ IsFiniteSet(Alive) /\ Alive \subseteq Slot
      /\ Least \in [Slot -> Nat] /\ Memories \in [Slot -> Nat]
      /\ \A s \in Slot : Least[s] <= Memories[s]
  BY SizesTyped, FS_Subset DEF Counted, Least, Memories
<1>5. /\ Within(Cardinality(own) + 1, l["instances"])
      /\ Within(Sum(own, Memories) + m, l["memory"])
      /\ Within(Sum(Alive, Memories) + m, l["budget"])
  BY DEF CountsQuota, QuotaAllows
<1>6. /\ Sum(own, Least) <= Sum(own, Memories) /\ Sum(Alive, Least) <= Sum(Alive, Memories)
      /\ Sum(own, Least) \in Nat /\ Sum(own, Memories) \in Nat
      /\ Sum(Alive, Least) \in Nat /\ Sum(Alive, Memories) \in Nat
  BY <1>4, SumGrows, UnitsFinite
<1>7. /\ Within(Sum(own, Least) + m, l["memory"])
      /\ Within(Sum(Alive, Least) + m, l["budget"])
  BY <1>1, <1>5, <1>6, Roomier
<1>8. /\ Alive' = Alive /\ Least' = Least
      /\ AccountUsage(call[c].owner)' = AccountUsage(call'[c].owner)
      /\ \A a : AccountUsage(a)' = AccountUsage(a)
  BY <1>2 DEF Alive, AccountUsage, Least
<1>9. RoomFor(c)'
  BY <1>3, <1>5, <1>7, <1>8 DEF RoomFor
<1>10. ASSUME NEW d \in Caller \ {c}, call'[d].step = "insert" PROVE RoomFor(d)'
  <2>1. \A s \in Slot : row'[s].least <= row[s].least
    BY <1>2 DEF TypeOKAdmission, Row
  <2>. QED  BY <1>2, <1>8, <1>10, <2>1, RoomStays DEF Counted
<1>. QED  BY <1>2, <1>8, <1>9, <1>10 DEF Counted

\* An insert, by the only request that holds the lock.
LEMMA CountedInserted ==
  ASSUME AdmissionSound, TypeOKAdmission', Counted, NEW c \in Caller, NEW r, Inserts(c, r),
         call[c].step = "insert", r.least = r.memory, r.memory \in Nat
  PROVE  Counted'
<1>1. PICK s \in Slot :
        /\ row' = [row EXCEPT ![s] = r]
        /\ call' = [call EXCEPT ![c] = [NoCall EXCEPT !.step = "answered", !.slot = s,
                                          !.sent = call[c].sent, !.reply = "created"]]
  BY DEF Inserts
<1>2. \A d \in Caller : call'[d].step \notin Locked
  <2>1. /\ call'[c].step = "answered"
        /\ \A d \in Caller : d # c => call'[d] = call[d]
    BY <1>1 DEF AdmissionSound, TypeOKAdmission, NoCall
  <2>. QED  BY <2>1 DEF AdmissionSound, LockSound, Locked
<1>3. IsFiniteSet(Alive')
  <2>1. Alive' \subseteq Alive \cup {s}
    BY <1>1 DEF Alive, AdmissionSound, TypeOKAdmission
  <2>2. IsFiniteSet(Alive \cup {s})
    BY FS_AddElement DEF Counted
  <2>. QED  BY <2>1, <2>2, FS_Subset
<1>4. \A t \in Slot : row'[t].least <= row'[t].memory
  BY <1>1 DEF Counted, AdmissionSound, TypeOKAdmission
<1>. QED  BY <1>2, <1>3, <1>4 DEF Counted, Locked

LEMMA CountedAlways ==
  ASSUME AdmissionSound, TypeOKAdmission', Counted, [NextAdmission]_admissionvars
  PROVE  Counted'
<1>. USE AdmissionAssumption
<1>1. TypeOKAdmission
  BY DEF AdmissionSound
<1>2. ASSUME NEW c \in Caller, NEW r, r.step # "insert", Goes(c, r) \/ Opened(c, r) PROVE Counted'
  BY <1>1, <1>2, CountedByOther DEF Goes, Opened
<1>3. ASSUME NEW c \in Caller, NEW s \in Slot, Idempotent(c, s) PROVE Counted'
  <2>1. \E r : r.step = "answered" /\ Goes(c, r)
    BY <1>3 DEF Idempotent, NoCall
  <2>. QED  BY <1>2, <2>1
<1>4. ASSUME NEW c \in Caller, NEW a \in Account,
             \/ \E t \in Token \cup {NoToken}, b \in Sent : AsksLaunch(c, a, t, b)
             \/ \E v \in Vmid : AsksAdoption(c, a, v)
      PROVE  Counted'
  <2>1. CASE \E t \in Token \cup {NoToken}, b \in Sent : AsksLaunch(c, a, t, b)
    <3>1. \E r : r.step = "token" /\ Opened(c, r)
      BY <2>1 DEF AsksLaunch, NoCall
    <3>. QED  BY <1>2, <3>1
  <2>2. CASE \E v \in Vmid : AsksAdoption(c, a, v)
    <3>1. \E r : r.step = "list" /\ Opened(c, r)
      BY <2>2 DEF AsksAdoption, NoCall
    <3>. QED  BY <1>2, <3>1
  <2>. QED  BY <1>4, <2>1, <2>2
<1>5. ASSUME NEW c \in Caller, NEW s \in Slot, NEW m \in Memory \cup {Preset}, NEW z \in Disk,
             AsksResize(c, s, m, z)
      PROVE  Counted'
  <2>1. \E r : r.step = "list" /\ Opened(c, r)
    BY <1>5 DEF AsksResize, NoCall
  <2>. QED  BY <1>2, <2>1
<1>6. ASSUME NEW c \in Caller, FindsToken(c) \/ ChecksHost(c) \/ ListsPool(c) \/ LocksForLaunch(c)
                               \/ ReadsLimits(c) \/ LocksForAdoption(c) \/ GrowthFits(c)
                               \/ LocksForResize(c) \/ GivesUp(c)
      PROVE  Counted'
  <2>1. call[c] \in Call
    BY <1>1, CallParts
  <2>2. \/ \E s \in Slot : Idempotent(c, s)
        \/ \E r : r.step # "insert" /\ Goes(c, r)
    <3>1. CASE FindsToken(c) \/ LocksForLaunch(c)
      <4>1. \/ \E s \in Slot : Idempotent(c, s)
            \/ \E x \in {"host", "count"} : Goes(c, [call[c] EXCEPT !.step = x])
        BY <3>1 DEF FindsToken, LocksForLaunch, Tokened
      <4>. QED  BY <2>1, <4>1 DEF Call
    <3>2. CASE ChecksHost(c) \/ ListsPool(c)
      BY <2>1, <3>2 DEF ChecksHost, ListsPool, Call
    <3>3. CASE ReadsLimits(c) \/ LocksForAdoption(c)
      BY <2>1, <3>3 DEF ReadsLimits, LocksForAdoption, Call
    <3>4. CASE GrowthFits(c) \/ LocksForResize(c)
      BY <2>1, <3>4 DEF GrowthFits, LocksForResize, Call
    <3>5. CASE GivesUp(c)
      BY <3>5 DEF GivesUp, NoCall
    <3>. QED  BY <1>6, <3>1, <3>2, <3>3, <3>4, <3>5
  <2>. QED  BY <1>2, <1>3, <2>2
<1>7. ASSUME NEW c \in Caller, CountsQuota(c) PROVE Counted'
  BY <1>1, <1>7, CountedKept
<1>8. ASSUME NEW c \in Caller, InsertsLaunch(c) \/ InsertsAdopted(c) PROVE Counted'
  <2>1. call[c].memory \in Nat
    BY <1>1, CallParts
  <2>2. call[c].step = "insert" /\ \E r : r.least = call[c].memory /\ r.memory = call[c].memory
                                          /\ Inserts(c, r)
    BY <1>8 DEF InsertsLaunch, InsertsAdopted, NoRow
  <2>. QED  BY <2>1, <2>2, CountedInserted
<1>9. ASSUME NEW c \in Caller, UpdatesVM(c) PROVE Counted'
  <2>1. row' = row /\ call' = [call EXCEPT ![c] = [call[c] EXCEPT !.step = "record"]]
    BY <1>9 DEF UpdatesVM
  <2>2. call[c] \in Call
    BY <1>1, CallParts
  <2>. QED  BY <1>1, <2>1, <2>2, CountedByOther DEF Call
<1>10. ASSUME NEW c \in Caller, RecordsSpec(c) PROVE Counted'
  <2>1. row \in [Slot -> Row] /\ call[c].memory \in Nat
    BY <1>1, CallParts DEF TypeOKAdmission
  <2>2. \A s \in Slot : /\ row'[s].owner = row[s].owner /\ row'[s].state = row[s].state
                        /\ row'[s].least <= row[s].least
                        /\ row'[s].least <= row'[s].memory
    BY <2>1, <1>10 DEF RecordsSpec, Row, Counted
  <2>3. Alive' = Alive
    BY <2>2 DEF Alive
  <2>4. call'[c].step # "insert" /\ \A d \in Caller : d # c => call'[d] = call[d]
    BY <1>1, <1>10 DEF RecordsSpec, NoCall, TypeOKAdmission
  <2>5. ASSUME NEW d \in Caller, call'[d].step = "insert" PROVE RoomFor(d)'
    BY <1>1, <2>2, <2>3, <2>4, <2>5, RoomStays DEF Counted
  <2>. QED  BY <2>2, <2>3, <2>5 DEF Counted
<1>11. ASSUME NEW s \in Slot, RowEnds(s) PROVE Counted'
  <2>1. \A t \in Slot : /\ row'[t].owner = row[t].owner
                        /\ row'[t].state = "live" => row[t].state = "live"
                        /\ row'[t].least = row[t].least /\ row'[t].memory = row[t].memory
                        /\ row[t].least \in Nat
    BY <1>1, <1>11 DEF RowEnds, TypeOKAdmission, Row
  <2>2. Alive' \subseteq Alive /\ IsFiniteSet(Alive')
    <3>1. Alive' \subseteq Alive
      BY <2>1 DEF Alive
    <3>. QED  BY <3>1, FS_Subset DEF Counted
  <2>3. call' = call
    BY <1>11 DEF RowEnds
  <2>4. ASSUME NEW d \in Caller, call'[d].step = "insert" PROVE RoomFor(d)'
    BY <1>1, <2>1, <2>2, <2>3, <2>4, RoomStays DEF Counted
  <2>. QED  BY <2>1, <2>2, <2>4 DEF Counted
<1>12. CASE \/ \E s \in Slot : VMAppears(s)
            \/ \E o \in Overrides : SetsLimits(o)
            \/ \E v \in Outside, m \in {0, Preset} : PoolChanges(v, m)
            \/ UNCHANGED admissionvars
  BY <1>1, <1>12, CountedSame DEF VMAppears, SetsLimits, PoolChanges, admissionvars
<1>. QED
  BY <1>4, <1>5, <1>6, <1>7, <1>8, <1>9, <1>10, <1>11, <1>12
     DEF NextAdmission, RunSteps, AdoptSteps, ModifySteps

LEMMA CountedAtFirst == InitAdmission => Counted
<1>1. InitAdmission => Alive = {}
  BY DEF InitAdmission, Alive, NoRow
<1>2. InitAdmission => /\ \A s \in Slot : row[s].least = 0 /\ row[s].memory = 0
                       /\ \A c \in Caller : call[c].step = "idle"
  BY DEF InitAdmission, NoRow, NoCall
<1>. QED  BY <1>1, <1>2, FS_EmptySet DEF Counted

-----------------------------------------------------------------------------
(* The theorems                                                             *)

(* Every row, limit and request stays in its type: no VMID outside the range   *)
(* is handed out, whatever the requests, the worker and administrators do.     *)
THEOREM AdmissionTyped == SpecAdmission => []TypeOKAdmission
<1>1. AdmissionSound => TypeOKAdmission
  BY DEF AdmissionSound
<1>. QED  BY <1>1, AdmissionSoundAlways, PTL

(* No insert meets a unique index (Run's and Adopt's second look under         *)
(* LockCapacity), with any number of launches, adoptions and resizes at once.  *)
THEOREM IndexNeverMet == SpecAdmission => []NoIndexMet
<1>1. AdmissionSound => NoIndexMet
  BY DEF AdmissionSound, LockSound, LookHolds, Locked, NoIndexMet
<1>. QED  BY <1>1, AdmissionSoundAlways, PTL

\* An instance is created by the insert of the request that holds the lock.
LEMMA CreatedByInsert ==
  ASSUME TypeOKAdmission, NextAdmission, NEW c \in Caller,
         call[c].reply # "created", call'[c].reply = "created"
  PROVE  /\ call[c].step = "insert"
         /\ \E s \in Slot : /\ row[s].state = "none" /\ row'[s].state = "live"
                            /\ row'[s].owner = call[c].owner /\ row'[s].least = call[c].memory
                            /\ \A t \in Slot \ {s} : row'[t] = row[t]
<1>1. ASSUME NEW d \in Caller, NEW r, call' = [call EXCEPT ![d] = r] PROVE r.reply = "created" /\ d = c
  BY <1>1 DEF TypeOKAdmission
<1>2. ASSUME NEW d \in Caller, NEW r, Goes(d, r) \/ Opened(d, r) PROVE r.reply = "created"
  BY <1>1, <1>2 DEF Goes, Opened
<1>3. ASSUME NEW d \in Caller, NEW s \in Slot PROVE ~Idempotent(d, s)
  <2>1. ASSUME Idempotent(d, s) PROVE \E r : r.reply # "created" /\ Goes(d, r)
    BY <2>1 DEF Idempotent, NoCall
  <2>. QED  BY <1>2, <2>1
<1>4. ASSUME NEW d \in Caller, NEW r, r.reply = call[d].reply, Goes(d, r) PROVE FALSE
  BY <1>1, <1>4 DEF Goes
<1>5. ASSUME NEW d \in Caller, NEW a \in Account,
             \/ \E t \in Token \cup {NoToken}, b \in Sent : AsksLaunch(d, a, t, b)
             \/ \E v \in Vmid : AsksAdoption(d, a, v)
      PROVE  FALSE
  <2>1. CASE \E t \in Token \cup {NoToken}, b \in Sent : AsksLaunch(d, a, t, b)
    <3>1. \E r : r.reply = "none" /\ Opened(d, r)
      BY <2>1 DEF AsksLaunch, NoCall
    <3>. QED  BY <1>2, <3>1
  <2>2. CASE \E v \in Vmid : AsksAdoption(d, a, v)
    <3>1. \E r : r.reply = "none" /\ Opened(d, r)
      BY <2>2 DEF AsksAdoption, NoCall
    <3>. QED  BY <1>2, <3>1
  <2>. QED  BY <1>5, <2>1, <2>2
<1>6. ASSUME NEW d \in Caller, NEW s \in Slot, NEW m \in Memory \cup {Preset}, NEW z \in Disk,
             AsksResize(d, s, m, z)
      PROVE  FALSE
  <2>1. \E r : r.reply = "none" /\ Opened(d, r)
    BY <1>6 DEF AsksResize, NoCall
  <2>. QED  BY <1>2, <2>1
<1>7. ASSUME NEW d \in Caller, FindsToken(d) \/ ChecksHost(d) \/ ListsPool(d) \/ LocksForLaunch(d)
                               \/ CountsQuota(d) \/ ReadsLimits(d) \/ LocksForAdoption(d)
                               \/ GrowthFits(d) \/ LocksForResize(d)
      PROVE  FALSE
  <2>1. call[d] \in Call
    BY CallParts
  <2>2. CASE FindsToken(d) \/ LocksForLaunch(d)
    <3>1. \/ \E s \in Slot : Idempotent(d, s)
          \/ \E x \in {"host", "count"} : Goes(d, [call[d] EXCEPT !.step = x])
      BY <2>2 DEF FindsToken, LocksForLaunch, Tokened
    <3>2. \A x : [call[d] EXCEPT !.step = x].reply = call[d].reply
      BY <2>1 DEF Call
    <3>. QED  BY <1>3, <1>4, <3>1, <3>2
  <2>3. CASE ChecksHost(d) \/ ListsPool(d) \/ CountsQuota(d)
    <3>1. \E r : r.reply = call[d].reply /\ Goes(d, r)
      BY <2>1, <2>3 DEF ChecksHost, ListsPool, CountsQuota, Call
    <3>. QED  BY <1>4, <3>1
  <2>4. CASE ReadsLimits(d) \/ LocksForAdoption(d) \/ GrowthFits(d) \/ LocksForResize(d)
    <3>1. \E r : r.reply = call[d].reply /\ Goes(d, r)
      BY <2>1, <2>4 DEF ReadsLimits, LocksForAdoption, GrowthFits, LocksForResize, Call
    <3>. QED  BY <1>4, <3>1
  <2>. QED  BY <1>7, <2>2, <2>3, <2>4
<1>8. ASSUME NEW d \in Caller, UpdatesVM(d) \/ RecordsSpec(d) \/ GivesUp(d) PROVE FALSE
  <2>1. CASE UpdatesVM(d)
    <3>1. call' = [call EXCEPT ![d] = [call[d] EXCEPT !.step = "record"]] /\ call[d] \in Call
      BY <2>1, CallParts DEF UpdatesVM
    <3>2. [call[d] EXCEPT !.step = "record"].reply = call[d].reply
      BY <3>1 DEF Call
    <3>. QED  BY <1>1, <3>1, <3>2
  <2>2. CASE RecordsSpec(d)
    BY <1>1, <2>2 DEF RecordsSpec, NoCall
  <2>3. CASE GivesUp(d)
    BY <1>2, <2>3 DEF GivesUp, NoCall
  <2>. QED  BY <1>8, <2>1, <2>2, <2>3
<1>9. ~UNCHANGED call
  OBVIOUS
<1>10. PICK d \in Caller : InsertsLaunch(d) \/ InsertsAdopted(d)
  BY <1>5, <1>6, <1>7, <1>8, <1>9
     DEF NextAdmission, RunSteps, AdoptSteps, ModifySteps, SetsLimits, VMAppears, RowEnds, PoolChanges
<1>11. PICK r : /\ call[d].step = "insert" /\ Inserts(d, r) /\ r.state = "live"
                /\ r.owner = call[d].owner /\ r.least = call[d].memory
  <2>1. CASE InsertsLaunch(d)
    <3>1. PICK v : Inserts(d, [NoRow EXCEPT !.state = "live", !.owner = call[d].owner,
                     !.token = call[d].token, !.hash = call[d].body, !.sent = call[d].sent,
                     !.vmid = v, !.memory = call[d].memory, !.disk = call[d].disk,
                     !.least = call[d].memory])
      BY <2>1 DEF InsertsLaunch
    <3>. DEFINE q == [NoRow EXCEPT !.state = "live", !.owner = call[d].owner,
                     !.token = call[d].token, !.hash = call[d].body, !.sent = call[d].sent,
                     !.vmid = v, !.memory = call[d].memory, !.disk = call[d].disk,
                     !.least = call[d].memory]
    <3>2. q.state = "live" /\ q.owner = call[d].owner /\ q.least = call[d].memory
      BY DEF NoRow
    <3>3. call[d].step = "insert" /\ Inserts(d, q)
      BY <2>1, <3>1 DEF InsertsLaunch
    <3>. HIDE DEF q
    <3>. QED  BY <3>2, <3>3
  <2>2. CASE InsertsAdopted(d)
    <3>1. Inserts(d, [NoRow EXCEPT !.state = "live", !.owner = call[d].owner,
                     !.vmid = call[d].vmid, !.memory = call[d].memory,
                     !.disk = call[d].disk, !.least = call[d].memory])
      BY <2>2 DEF InsertsAdopted
    <3>. DEFINE q == [NoRow EXCEPT !.state = "live", !.owner = call[d].owner,
                     !.vmid = call[d].vmid, !.memory = call[d].memory,
                     !.disk = call[d].disk, !.least = call[d].memory]
    <3>2. q.state = "live" /\ q.owner = call[d].owner /\ q.least = call[d].memory
      BY DEF NoRow
    <3>3. call[d].step = "insert" /\ Inserts(d, q)
      BY <2>2, <3>1 DEF InsertsAdopted
    <3>. HIDE DEF q
    <3>. QED  BY <3>2, <3>3
  <2>. QED  BY <1>10, <2>1, <2>2
<1>12. PICK s \in Slot :
        /\ row[s].state = "none" /\ row' = [row EXCEPT ![s] = r]
        /\ call' = [call EXCEPT ![d] = [NoCall EXCEPT !.step = "answered", !.slot = s,
                                          !.sent = call[d].sent, !.reply = "created"]]
  BY <1>11 DEF Inserts
<1>13. d = c
  BY <1>1, <1>12
<1>14. row'[s] = r /\ \A t \in Slot \ {s} : row'[t] = row[t]
  BY <1>12 DEF TypeOKAdmission
<1>. QED  BY <1>11, <1>12, <1>13, <1>14

\* What a request counted, with its own instance added to it.
LEMMA AdmissionsFit ==
  ASSUME TypeOKAdmission, TypeOKAdmission', Counted, [NextAdmission]_admissionvars,
         NEW c \in Caller, call[c].reply # "created", call'[c].reply = "created"
  PROVE  LET live == {s \in Slot : row'[s].state = "live"}
             own  == {s \in live : row'[s].owner = call[c].owner}
             l    == call[c].limits
         IN  /\ Within(Cardinality(own), l["instances"])
             /\ Within(Sum(own, Least'), l["memory"])
             /\ Within(Sum(live, Least'), l["budget"])
<1>1. NextAdmission
  BY DEF admissionvars
<1>2. PICK s \in Slot : /\ row[s].state = "none" /\ row'[s].state = "live"
                        /\ row'[s].owner = call[c].owner /\ row'[s].least = call[c].memory
                        /\ \A t \in Slot \ {s} : row'[t] = row[t]
  BY <1>1, CreatedByInsert
<1>3. RoomFor(c)
  BY <1>1, CreatedByInsert DEF Counted
<1>. DEFINE own == AccountUsage(call[c].owner)
<1>4. /\ {t \in Slot : row'[t].state = "live"} = Alive \cup {s}
      /\ {t \in {u \in Slot : row'[u].state = "live"} : row'[t].owner = call[c].owner}
            = own \cup {s}
      /\ s \notin Alive /\ s \notin own
  <2>1. {t \in Slot : row'[t].state = "live"} = Alive \cup {s} /\ s \notin Alive
    BY <1>2 DEF Alive
  <2>2. {t \in Alive \cup {s} : row'[t].owner = call[c].owner} = own \cup {s}
    BY <1>2, <2>1 DEF AccountUsage, Alive
  <2>. QED  BY <2>1, <2>2 DEF AccountUsage
<1>5. own \subseteq Alive /\ IsFiniteSet(own) /\ IsFiniteSet(Alive) /\ Alive \subseteq Slot
  BY SizesTyped, FS_Subset DEF Counted
<1>6. /\ Least \in [Slot -> Nat] /\ Least' \in [Slot -> Nat]
      /\ Least'[s] = call[c].memory /\ call[c].memory \in Nat
      /\ \A t \in Slot \ {s} : Least'[t] = Least[t]
  <2>1. Least' \in [Slot -> Nat]
    BY DEF Least, TypeOKAdmission, Row
  <2>. QED  BY <1>2, <2>1, SizesTyped, CallParts DEF Least
<1>. HIDE DEF own
<1>7. Cardinality(own \cup {s}) = Cardinality(own) + 1
  BY <1>4, <1>5, FS_AddElement
<1>8. \A t \in Alive : Least'[t] = Least[t]
  BY <1>4, <1>5, <1>6
<1>. PICK after : after = Least'
  OBVIOUS
<1>9. ASSUME NEW S \in {own, Alive} PROVE Sum(S \cup {s}, after) = Sum(S, Least) + call[c].memory
  <2>1. /\ Least \in [Slot -> Nat] /\ after \in [Slot -> Nat] /\ after[s] = call[c].memory
        /\ S \in SUBSET Slot /\ IsFiniteSet(S) /\ s \in Slot \ S
        /\ \A t \in S : after[t] = Least[t]
    BY <1>4, <1>5, <1>6, <1>8
  <2>2. Sum(S \cup {s}, after) = Sum(S, Least) + after[s]
    BY <2>1, SumAdds
  <2>. QED  BY <2>1, <2>2
<1>10. /\ Sum(own \cup {s}, after) = Sum(own, Least) + call[c].memory
       /\ Sum(Alive \cup {s}, after) = Sum(Alive, Least) + call[c].memory
  BY <1>9
<1>11. /\ Within(Cardinality(own \cup {s}), call[c].limits["instances"])
       /\ Within(Sum(own \cup {s}, Least'), call[c].limits["memory"])
       /\ Within(Sum(Alive \cup {s}, Least'), call[c].limits["budget"])
  BY <1>3, <1>7, <1>10 DEF RoomFor, own
<1>. QED  BY <1>4, <1>11

(* What enters keeps its account and the cloud within the limits its request  *)
(* read: its count under the capacity lock (checkQuota) still holds when it    *)
(* inserts, whatever is resized, ends or is set meanwhile.                     *)
THEOREM AdmissionsWithinLimits == SpecAdmission => AdmittedWithinLimits
<1>1. AdmissionSound => TypeOKAdmission
  BY DEF AdmissionSound
<1>2. AdmissionSound /\ TypeOKAdmission' /\ Counted /\ [NextAdmission]_admissionvars => Counted'
  BY CountedAlways
<1>3. TypeOKAdmission /\ TypeOKAdmission' /\ Counted /\ [NextAdmission]_admissionvars =>
         [\A c \in Caller : call[c].reply # "created" /\ call'[c].reply = "created" =>
            LET live == {s \in Slot : row'[s].state = "live"}
                own  == {s \in live : row'[s].owner = call[c].owner}
                l    == call[c].limits
            IN  /\ Within(Cardinality(own), l["instances"])
                /\ Within(Sum(own, Least'), l["memory"])
                /\ Within(Sum(live, Least'), l["budget"])]_admissionvars
  BY AdmissionsFit
<1>. QED  BY <1>1, <1>2, <1>3, AdmissionSoundAlways, CountedAtFirst, PTL
          DEF SpecAdmission, AdmittedWithinLimits
=============================================================================
