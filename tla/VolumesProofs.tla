--------------------------- MODULE VolumesProofs ---------------------------
(***************************************************************************)
(* Proofs about volumes, for any number of volumes, instances and slots    *)
(* and a Proxmox that gives a disk no name a volume has on record, or for  *)
(* one volume with the names Proxmox really gives.  The inductive          *)
(* invariant is Consistent: every step keeps the rows and the disks        *)
(* matched (WorldIsSound), and tells the next what it relies on.           *)
(***************************************************************************)
EXTENDS Volumes, FiniteSetTheorems, WellFoundedInduction, TLAPS

-----------------------------------------------------------------------------
(* Choices                                                                  *)

LEMMA LowestIn ==
  ASSUME NEW S \in SUBSET Nat, S # {}
  PROVE  Lowest(S) \in S
<1>. DEFINE Less == {ss \in Nat \X Nat : ss[1] < ss[2]}
<1>1. IsWellFoundedOn(Less, Nat)
  BY NatLessThanWellFounded DEF OpToRel
<1>. HIDE DEF Less
<1>2. PICK x \in S : \A y \in S : ~(<<y, x>> \in Less)
  BY <1>1, WFMin
<1>3. ASSUME NEW y \in S PROVE x <= y
  <2>1. x \in Nat /\ y \in Nat /\ ~(<<y, x>> \in Less)
    BY <1>2
  <2>. QED  BY <2>1 DEF Less
<1>. QED  BY <1>3 DEF Lowest

LEMMA FreeSlot ==
  ASSUME NEW vm, NEW kind, FreeSlots(vm, kind) # {}
  PROVE  /\ Lowest(FreeSlots(vm, kind)) \in Slot
         /\ DiskAt(vm, <<kind, Lowest(FreeSlots(vm, kind))>>) = {}
<1>1. FreeSlots(vm, kind) \in SUBSET Nat
  BY VolumesAssumption DEF FreeSlots
<1>2. Lowest(FreeSlots(vm, kind)) \in FreeSlots(vm, kind)
  BY <1>1, LowestIn
<1>. QED  BY <1>2 DEF FreeSlots

\* The names Proxmox gives mislead nobody: it reuses none on record, or there is
\* no second volume to be taken for the first.
OneVolume  == \A v, w \in Volume : v = w
NamesApart == ~ReusesNames \/ OneVolume

\* A disk gets a name that no row has on record, its own row included when that
\* has no name yet, or the name of a disk that is there.
LEMMA FreeName ==
  ASSUME NamesApart, NEW vm, FreeNames(vm) # {}, NEW v \in Volume,
         vol[v].loc.name = NoSlot \/ DiskNamed(vol[v].loc.vm, vol[v].loc.name) # {}
  PROVE  /\ Lowest(FreeNames(vm)) \in Slot
         /\ DiskNamed(vm, Lowest(FreeNames(vm))) = {}
         /\ ~Claimed(vm, Lowest(FreeNames(vm)), NoVolume)
<1>1. FreeNames(vm) \in SUBSET Nat
  BY VolumesAssumption DEF FreeNames
<1>2. Lowest(FreeNames(vm)) \in FreeNames(vm)
  BY <1>1, LowestIn
<1>. DEFINE n == Lowest(FreeNames(vm))
<1>3. n \in Slot /\ DiskNamed(vm, n) = {} /\ (ReusesNames \/ ~Claimed(vm, n, NoVolume))
  BY <1>2 DEF FreeNames
<1>. HIDE DEF n
<1>4. ASSUME OneVolume, Claimed(vm, n, NoVolume) PROVE FALSE
  <2>1. vol[v].loc.vm = vm /\ vol[v].loc.name = n
    BY <1>4 DEF OneVolume, Claimed
  <2>. QED  BY <1>3, <2>1, VolumesAssumption
<1>. QED  BY <1>3, <1>4 DEF NamesApart, n

LEMMA OnlyOne ==
  ASSUME NEW S, NEW d \in S, \A e \in S : e = d
  PROVE  The(S) = d
BY DEF The

LEMMA Named ==
  ASSUME PlacesDiffer, NEW d \in disks, NEW l, At(d, l)
  PROVE  /\ DiskNamed(l.vm, l.name) = {d}
         /\ The(DiskNamed(l.vm, l.name)) = d
<1>1. DiskNamed(l.vm, l.name) = {d}
  BY DEF DiskNamed, At, PlacesDiffer
<1>. QED  BY <1>1 DEF The

LEMMA Placed ==
  ASSUME PlacesDiffer, NEW d \in disks, NEW l, Arriving(d, l)
  PROVE  /\ DiskAt(l.toVm, l.toKey) = {d}
         /\ The(DiskAt(l.toVm, l.toKey)) = d
<1>1. DiskAt(l.toVm, l.toKey) = {d}
  BY DEF DiskAt, Arriving, PlacesDiffer
<1>. QED  BY <1>1 DEF The

-----------------------------------------------------------------------------
(* What the types give                                                      *)

LEMMA RowTyped ==
  ASSUME TypeOK, NEW v \in Volume
  PROVE  /\ vol[v] \in Row /\ vol[v].loc \in Location
         /\ vol[v].inst \in Instance \cup {NoVm} /\ vol[v].action \in VolumeAction
         /\ vol[v].loc.vm \in VM \cup {NoVm} /\ vol[v].loc.toVm \in VM \cup {NoVm}
         /\ vol[v].loc.name \in Slot \cup {NoSlot}
         /\ vol[v].loc.key \in Key \cup {NoKey} /\ vol[v].loc.toKey \in Key \cup {NoKey}
BY DEF TypeOK, Row, Location

LEMMA Counts == /\ 0 \in 0..MaxAttempts /\ 1 \in 1..MaxSize
                /\ CreatedSizes \subseteq 1..MaxSize
                /\ \A n \in 1..MaxSize : n < MaxSize => n + 1 \in 1..MaxSize
BY VolumesAssumption

LEMMA NoRowTyped == Nowhere \in Location /\ NoRow \in Row
<1>1. Nowhere \in Location
  BY DEF Nowhere, Location
<1>. QED  BY <1>1, Counts DEF NoRow, Row, VolumeAction

LEMMA DiskTyped ==
  ASSUME TypeOK, NEW d \in disks
  PROVE  /\ d \in Disk
         /\ d.vm \in VM /\ d.key \in Key /\ d.name \in Slot /\ d.data \in Volume \cup {NoVolume}
         /\ d.vm # NoVm /\ d.name # NoSlot
BY VolumesAssumption DEF TypeOK, Disk, VM

LEMMA KeyParts == \A key \in Key : key = <<key[1], key[2]>> /\ key[1] \in {"unused", "plugged"} /\ key[2] \in Slot
BY DEF Key

LEMMA AttemptTyped ==
  ASSUME TypeOK
  PROVE  /\ att \in Attempt
         /\ att.action \in VolumeAction \cup {"terminate"} /\ att.vol \in Volume \cup {NoVolume}
         /\ att.inst \in Instance \cup {NoVm} /\ att.step \in Step /\ att.todo \in SUBSET Volume
         /\ Works => att.vol \in Volume
         /\ \A s \in Step : [att EXCEPT !.step = s] \in Attempt
BY DEF TypeOK, Attempt, Works

LEMMA IdleTyped == Idle \in Attempt
BY DEF Idle, Attempt, Step, VolumeAction

-----------------------------------------------------------------------------
(* Changes to the table                                                     *)

LEMMA ClaimsSame ==
  ASSUME \A u \in Volume : /\ Live(u)' <=> Live(u)
                           /\ vol'[u].loc.vm = vol[u].loc.vm
                           /\ vol'[u].loc.name = vol[u].loc.name
  PROVE  \A vm, n, v : Claimed(vm, n, v)' <=> Claimed(vm, n, v)
BY DEF Claimed

\* The disk is not looked for, or not found, at the destination on record.
NothingArrived(v) == \A e \in disks : ~(Arriving(e, vol[v].loc) /\ Unclaimed(e))

\* A row that keeps the name of its disk, and does not come to have data.
LEMMA RowChanged ==
  ASSUME TypeOK, WorldIsSound, NEW v \in Volume, NEW r \in Row,
         vol' = [vol EXCEPT ![v] = r], disks' = disks, inst' = inst,
         Live(v), r.state \notin {"absent", "deleted"},
         r.state \in {"available", "in-use"} => Kept(v),
         r.state \in {"creating", "error"} => Fresh(v),
         r.loc.vm = vol[v].loc.vm, r.loc.name = vol[v].loc.name,
         r.loc = vol[v].loc \/ NothingArrived(v),
         RowFits(v)', LocationFits(v)', RecordIsTrue(v)'
  PROVE  WorldIsSound'
<1>1. /\ vol'[v] = r
      /\ \A u \in Volume \ {v} : vol'[u] = vol[u]
      /\ \A u \in Volume : vol'[u].loc.vm = vol[u].loc.vm /\ vol'[u].loc.name = vol[u].loc.name
      /\ \A u \in Volume : vol'[u].loc = vol[u].loc \/ NothingArrived(u)
  BY DEF TypeOK
<1>2. \A u \in Volume : /\ Live(u)' <=> Live(u)
                        /\ Kept(u)' => Kept(u)
                        /\ Fresh(u)' => Fresh(u)
  BY <1>1 DEF Live, Kept, Fresh
<1>3. \A vm, n, u : Claimed(vm, n, u)' <=> Claimed(vm, n, u)
  BY <1>1, <1>2, ClaimsSame
<1>4. \A u \in Volume : RowFits(u)' /\ LocationFits(u)' /\ RecordIsTrue(u)' /\ HasData(u)'
  <2> SUFFICES ASSUME NEW u \in Volume
               PROVE  RowFits(u)' /\ LocationFits(u)' /\ RecordIsTrue(u)' /\ HasData(u)'
    OBVIOUS
  <2>1. HasData(u)'
    BY <1>2 DEF HasData, WorldIsSound
  <2>2. CASE u = v
    BY <2>1, <2>2
  <2>3. CASE u # v
    <3>1. vol'[u] = vol[u]
      BY <1>1, <2>3
    <3>2. RowFits(u) /\ LocationFits(u) /\ RecordIsTrue(u)
      BY DEF WorldIsSound
    <3>3. RowFits(u)'
      BY <3>1, <3>2 DEF RowFits, Kept
    <3>4. LocationFits(u)'
      BY <3>1, <3>2 DEF LocationFits, Kept
    <3>5. RecordIsTrue(u)'
      BY <3>1, <3>2 DEF RecordIsTrue, Kept, Fresh
    <3>. QED  BY <2>1, <3>3, <3>4, <3>5
  <2>. QED  BY <2>2, <2>3
<1>5. PlacesDiffer' /\ NamesDiffer'
  BY <1>1, <1>2 DEF WorldIsSound, PlacesDiffer, NamesDiffer
<1>6. ASSUME NEW d \in disks PROVE NotMistaken(d)' /\ DataFindable(d)' /\ BlankFindable(d)'
  <2>1. NotMistaken(d) /\ DataFindable(d) /\ BlankFindable(d)
    BY DEF WorldIsSound
  <2>2. d.data \in Volume \cup {NoVolume}
    BY DiskTyped
  <2>3. NotMistaken(d)'
    BY <1>1, <1>2, <2>1 DEF NotMistaken, At
  <2>4. DataFindable(d)'
    BY <1>1, <1>2, <1>3, <2>1, <2>2 DEF DataFindable, At, Arriving, Unclaimed, NothingArrived
  <2>5. BlankFindable(d)'
    BY <1>1, <1>2, <1>3, <2>1 DEF BlankFindable, Arriving, Unclaimed, NothingArrived
  <2>. QED  BY <2>3, <2>4, <2>5
<1>. QED  BY <1>4, <1>5, <1>6 DEF WorldIsSound

\* A row that comes to be or goes while it has no disk.
LEMMA RowWithoutDisk ==
  ASSUME TypeOK, WorldIsSound, NEW v \in Volume, NEW r \in Row,
         vol' = [vol EXCEPT ![v] = r], disks' = disks, inst' = inst,
         r.loc = vol[v].loc, ~Kept(v),
         r.state \notin {"available", "in-use"},
         r.state \in {"absent", "deleted"} \/ Live(v) \/ r.loc.name = NoSlot,
         \A e \in disks : ~At(e, vol[v].loc), NothingArrived(v),
         RowFits(v)', LocationFits(v)', RecordIsTrue(v)'
  PROVE  WorldIsSound'
<1>1. /\ vol'[v] = r
      /\ \A u \in Volume \ {v} : vol'[u] = vol[u]
      /\ \A u \in Volume : vol'[u].loc = vol[u].loc
  BY DEF TypeOK
<1>2. /\ \A u \in Volume \ {v} : /\ Live(u)' <=> Live(u)
                                 /\ Kept(u)' <=> Kept(u)
                                 /\ Fresh(u)' <=> Fresh(u)
      /\ ~Kept(v)'
  BY <1>1 DEF Live, Kept, Fresh
<1>3. \A d \in disks : Unclaimed(d)' <=> Unclaimed(d)
  BY <1>1, <1>2 DEF Unclaimed, Claimed, At
<1>4. \A d \in disks : d.data # v
  <2> SUFFICES ASSUME NEW d \in disks, d.data = v PROVE FALSE
    OBVIOUS
  <2>1. DataFindable(d) /\ d.data # NoVolume
    BY VolumesAssumption DEF WorldIsSound
  <2>. QED  BY <2>1 DEF DataFindable, NothingArrived
<1>5. \A u \in Volume : RowFits(u)' /\ LocationFits(u)' /\ RecordIsTrue(u)' /\ HasData(u)'
  <2> SUFFICES ASSUME NEW u \in Volume
               PROVE  RowFits(u)' /\ LocationFits(u)' /\ RecordIsTrue(u)' /\ HasData(u)'
    OBVIOUS
  <2>1. CASE u = v
    BY <1>2, <2>1 DEF HasData
  <2>2. CASE u # v
    <3>1. vol'[u] = vol[u]
      BY <1>1, <2>2
    <3>2. RowFits(u) /\ LocationFits(u) /\ RecordIsTrue(u) /\ HasData(u)
      BY DEF WorldIsSound
    <3>3. RowFits(u)'
      BY <3>1, <3>2 DEF RowFits, Kept
    <3>4. LocationFits(u)'
      BY <3>1, <3>2 DEF LocationFits, Kept
    <3>5. RecordIsTrue(u)' /\ HasData(u)'
      BY <3>1, <3>2 DEF RecordIsTrue, HasData, Kept, Fresh
    <3>. QED  BY <3>3, <3>4, <3>5
  <2>. QED  BY <2>1, <2>2
<1>6. PlacesDiffer' /\ NamesDiffer'
  BY <1>1, <1>2 DEF WorldIsSound, PlacesDiffer, NamesDiffer, Live
<1>7. ASSUME NEW d \in disks PROVE NotMistaken(d)' /\ DataFindable(d)' /\ BlankFindable(d)'
  <2>1. NotMistaken(d) /\ DataFindable(d) /\ BlankFindable(d)
    BY DEF WorldIsSound
  <2>2. d.data \in Volume \cup {NoVolume}
    BY DiskTyped
  <2>3. NotMistaken(d)'
    BY <1>1, <1>2, <2>1 DEF NotMistaken, At
  <2>4. DataFindable(d)'
    BY <1>1, <1>2, <1>3, <1>4, <2>1, <2>2 DEF DataFindable, At, Arriving
  <2>5. BlankFindable(d)'
    BY <1>1, <1>2, <1>3, <2>1 DEF BlankFindable, Arriving, NothingArrived
  <2>. QED  BY <2>3, <2>4, <2>5
<1>. QED  BY <1>5, <1>6, <1>7 DEF WorldIsSound

\* A row that records where its disk is: under the name it has on record, or
\* arrived and on no other row's record.
Finds(v, d) ==
    \/ At(d, vol[v].loc)
    \/ /\ Arriving(d, vol[v].loc) /\ Unclaimed(d)
       /\ d.data = v \/ (vol[v].loc.name = NoSlot /\ d.data = NoVolume)

LEMMA DiskRecorded ==
  ASSUME TypeOK, WorldIsSound, NEW v \in Volume, Live(v), NEW d \in disks, NEW l \in Location,
         l.vm = d.vm, l.name = d.name, l.toVm = NoVm, Finds(v, d),
         vol' = [vol EXCEPT ![v].loc = l], disks' = disks, inst' = inst
  PROVE  WorldIsSound'
<1>. DEFINE old == vol[v].loc
<1>1. /\ vol'[v] = [vol[v] EXCEPT !.loc = l] /\ vol'[v].loc = l
      /\ \A u \in Volume \ {v} : vol'[u] = vol[u]
      /\ vol[v] \in Row /\ old \in Location
  BY RowTyped DEF TypeOK, Row
<1>2. \A u \in Volume : /\ Live(u)' <=> Live(u)
                        /\ Kept(u)' <=> Kept(u)
                        /\ Fresh(u)' <=> Fresh(u)
                        /\ vol'[u].state = vol[u].state /\ vol'[u].inst = vol[u].inst
                        /\ vol'[u].action = vol[u].action /\ vol'[u].device = vol[u].device
                        /\ vol'[u].attachment = vol[u].attachment
  BY <1>1 DEF Live, Kept, Fresh, Row
<1>3. /\ PlacesDiffer /\ NamesDiffer
      /\ \A u \in Volume : RowFits(u) /\ LocationFits(u) /\ RecordIsTrue(u) /\ HasData(u)
      /\ \A e \in disks : NotMistaken(e) /\ DataFindable(e) /\ BlankFindable(e)
  BY DEF WorldIsSound
<1>4. /\ d.vm \in VM /\ d.vm # NoVm /\ d.name \in Slot /\ d.name # NoSlot /\ v # NoVolume
      /\ \A e \in disks : e.vm # NoVm /\ e.name # NoSlot
  BY DiskTyped, VolumesAssumption
<1>5. d.data = v \/ (d.data = NoVolume /\ ~Kept(v))
  BY <1>3, <1>4 DEF Finds, NotMistaken, LocationFits
\* What the row had on record before is this disk or none.
<1>6. \A e \in disks : At(e, old) => e = d
  <2> SUFFICES ASSUME NEW e \in disks, At(e, old), ~At(d, old) PROVE e = d
    BY <1>3 DEF At, PlacesDiffer
  <2>1. old.name # NoSlot /\ Arriving(d, old) /\ d.data = v
    BY <1>4 DEF At, Finds
  <2>2. Kept(v)
    BY <1>3, <1>4, <2>1 DEF LocationFits, RowFits, Arriving
  <2>3. e.data = v
    BY <1>3, <2>2 DEF NotMistaken
  <2>. QED  BY <1>3, <1>4, <2>1, <2>3 DEF DataFindable
<1>7. \A u \in Volume \ {v} : Live(u) => ~At(d, vol[u].loc)
  BY <1>3, <1>4, VolumesAssumption DEF Finds, Unclaimed, Claimed, NamesDiffer, At
<1>8. \A e \in disks : Unclaimed(e)' <=> Unclaimed(e) /\ e # d
  <2> SUFFICES ASSUME NEW e \in disks PROVE Unclaimed(e)' <=> Unclaimed(e) /\ e # d
    OBVIOUS
  <2>1. At(e, l) <=> e = d
    BY <1>3 DEF At, PlacesDiffer
  <2>2. Unclaimed(e) <=> \A u \in Volume : ~(Live(u) /\ At(e, vol[u].loc))
    BY VolumesAssumption DEF Unclaimed, Claimed, At
  <2>3. Unclaimed(e)' <=> \A u \in Volume : ~(Live(u) /\ At(e, vol'[u].loc))
    BY <1>2, VolumesAssumption DEF Unclaimed, Claimed, At
  <2>. QED  BY <1>1, <1>6, <2>1, <2>2, <2>3
<1>9. \A u \in Volume : RowFits(u)' /\ LocationFits(u)' /\ RecordIsTrue(u)' /\ HasData(u)'
  <2> SUFFICES ASSUME NEW u \in Volume
               PROVE  RowFits(u)' /\ LocationFits(u)' /\ RecordIsTrue(u)' /\ HasData(u)'
    OBVIOUS
  <2>1. HasData(u)'
    BY <1>2, <1>3 DEF HasData
  <2>2. CASE u # v
    <3>1. vol'[u] = vol[u]
      BY <1>1, <2>2
    <3>2. RowFits(u)'
      BY <1>3, <3>1 DEF RowFits, Kept
    <3>3. LocationFits(u)'
      BY <1>3, <3>1 DEF LocationFits, Kept
    <3>4. RecordIsTrue(u)'
      BY <1>3, <3>1 DEF RecordIsTrue, Kept, Fresh
    <3>. QED  BY <2>1, <3>2, <3>3, <3>4
  <2>3. CASE u = v
    <3>1. RowFits(v)'
      <4>1. vol[v].state # "absent"
        BY DEF Live
      <4>. QED  BY <1>2, <1>3, <4>1 DEF RowFits, Kept
    <3>2. LocationFits(v)'
      <4>1. d.vm \in {Holder, vol[v].inst}
        BY <1>3, <1>4 DEF Finds, At, Arriving, LocationFits
      <4>. QED  BY <1>1, <1>2, <1>4, <4>1 DEF LocationFits
    <3>3. RecordIsTrue(v)'
      <4>1. At(d, l)
        BY DEF At
      <4>. QED  BY <1>1, <1>2, <1>3, <1>6, <4>1 DEF RecordIsTrue
    <3>. QED  BY <2>1, <2>3, <3>1, <3>2, <3>3
  <2>. QED  BY <2>2, <2>3
<1>10. PlacesDiffer' /\ NamesDiffer'
  BY <1>1, <1>2, <1>3, <1>7 DEF PlacesDiffer, NamesDiffer, At
<1>11. ASSUME NEW e \in disks PROVE NotMistaken(e)' /\ DataFindable(e)' /\ BlankFindable(e)'
  <2>1. NotMistaken(e)'
    BY <1>1, <1>2, <1>3, <1>5 DEF NotMistaken, At, PlacesDiffer
  <2>2. DataFindable(e)'
    <3> SUFFICES ASSUME e.data # NoVolume PROVE DataFindable(e)'
      BY DEF DataFindable
    <3>1. e.data \in Volume
      BY DiskTyped
    <3>2. CASE e = d
      <4>1. d.data = v /\ At(d, l)
        BY <1>5, <3>2 DEF At
      <4>. QED  BY <1>1, <1>2, <1>3, <3>2, <4>1 DEF DataFindable
    <3>3. CASE e # d /\ e.data # v
      BY <1>1, <1>2, <1>3, <1>8, <3>1, <3>3 DEF DataFindable
    <3>4. CASE e # d /\ e.data = v
      <4>1. d.data = NoVolume /\ ~Kept(v)
        BY <1>3, <1>5, <3>4 DEF DataFindable
      <4>2. Arriving(e, old) /\ e.key[1] = "unused"
        BY <1>3, <1>6, <3>4 DEF DataFindable
      <4>3. old.toVm # NoVm /\ old.toKey[1] = "unused"
        BY <1>4, <4>2 DEF Arriving
      <4>4. vol[v].inst = NoVm
        BY <1>3, <4>1 DEF RowFits
      <4>. QED  BY <1>3, <4>3, <4>4 DEF LocationFits
    <3>. QED  BY <3>2, <3>3, <3>4
  <2>3. BlankFindable(e)'
    <3> SUFFICES ASSUME e.data = NoVolume, Unclaimed(e), e # d PROVE BlankFindable(e)'
      BY <1>8 DEF BlankFindable
    <3>1. PICK u \in Volume : Live(u) /\ vol[u].loc.name = NoSlot /\ Arriving(e, vol[u].loc)
      BY <1>3 DEF BlankFindable
    <3>2. u # v
      BY <1>3, <1>4, <3>1 DEF Finds, At, Arriving, PlacesDiffer
    <3>. QED  BY <1>1, <1>2, <1>3, <3>1, <3>2 DEF BlankFindable
  <2>. QED  BY <2>1, <2>2, <2>3
<1>. QED  BY <1>9, <1>10, <1>11 DEF WorldIsSound

-----------------------------------------------------------------------------
(* Changes to the disks                                                     *)

LEMMA RowsUnchanged ==
  ASSUME vol' = vol, inst' = inst
  PROVE  /\ \A u \in Volume : /\ Live(u)' <=> Live(u)
                              /\ Kept(u)' <=> Kept(u)
                              /\ Fresh(u)' <=> Fresh(u)
                              /\ RowFits(u)' <=> RowFits(u)
                              /\ LocationFits(u)' <=> LocationFits(u)
         /\ NamesDiffer' <=> NamesDiffer
         /\ \A vm, n, u : Claimed(vm, n, u)' <=> Claimed(vm, n, u)
<1>1. \A u \in Volume : /\ Live(u)' <=> Live(u)
                        /\ Kept(u)' <=> Kept(u)
                        /\ Fresh(u)' <=> Fresh(u)
  BY DEF Live, Kept, Fresh
<1>2. \A u \in Volume : /\ RowFits(u)' <=> RowFits(u)
                        /\ LocationFits(u)' <=> LocationFits(u)
  BY <1>1 DEF RowFits, LocationFits
<1>3. NamesDiffer' <=> NamesDiffer
  BY <1>1 DEF NamesDiffer
<1>4. \A vm, n, u : Claimed(vm, n, u)' <=> Claimed(vm, n, u)
  BY <1>1 DEF Claimed
<1>. QED  BY <1>1, <1>2, <1>3, <1>4

\* Whether a row that is not being taken care of has its disk plugged in.
Steady(v) == /\ vol[v].state = "in-use" /\ vol[v].action \in {"none", "resize"}
             /\ inst[vol[v].inst] # "shutting-down"

\* A recorded disk that gets another key, free on its VM, or another size.
LEMMA DiskChanged ==
  ASSUME TypeOK, WorldIsSound, NEW v \in Volume, Live(v), NEW d \in disks, NEW n \in Disk,
         At(d, vol[v].loc), n.vm = d.vm, n.name = d.name, n.data = d.data,
         \A e \in disks : e.vm = n.vm /\ e.key = n.key => e = d,
         n.key = d.key \/ ~Steady(v),
         disks' = (disks \ {d}) \cup {n}, vol' = vol, inst' = inst
  PROVE  WorldIsSound'
<1>1. /\ \A u \in Volume : /\ Live(u)' <=> Live(u)
                           /\ Kept(u)' <=> Kept(u)
                           /\ Fresh(u)' <=> Fresh(u)
                           /\ RowFits(u)' <=> RowFits(u)
                           /\ LocationFits(u)' <=> LocationFits(u)
      /\ NamesDiffer' <=> NamesDiffer
      /\ \A vm, m, u : Claimed(vm, m, u)' <=> Claimed(vm, m, u)
  BY RowsUnchanged
<1>2. /\ PlacesDiffer /\ NamesDiffer
      /\ \A u \in Volume : RowFits(u) /\ LocationFits(u) /\ RecordIsTrue(u) /\ HasData(u)
      /\ \A e \in disks : NotMistaken(e) /\ DataFindable(e) /\ BlankFindable(e)
  BY DEF WorldIsSound
<1>3. \A e \in disks : e.vm # NoVm /\ e.name # NoSlot /\ e.data \in Volume \cup {NoVolume}
  BY DiskTyped
<1>4. At(n, vol[v].loc)
  BY DEF At
<1>5. PlacesDiffer'
  BY <1>2 DEF PlacesDiffer
<1>6. \A u \in Volume : RecordIsTrue(u)' /\ HasData(u)'
  <2> SUFFICES ASSUME NEW u \in Volume PROVE RecordIsTrue(u)' /\ HasData(u)'
    OBVIOUS
  <2>1. HasData(u)'
    BY <1>1, <1>2 DEF HasData
  <2>2. \A e \in disks : At(e, vol[u].loc) => \E f \in disks' : At(f, vol[u].loc) /\ f.vm = e.vm
    BY DEF At
  <2>3. CASE u = v
    <3>1. n.key = d.key \/ ~Steady(v)
      OBVIOUS
    <3>2. \A e \in disks : At(e, vol[v].loc) => e = d
      BY <1>2 DEF At, PlacesDiffer
    <3>3. RecordIsTrue(v)'
      BY <1>1, <1>2, <1>4, <2>2, <3>1, <3>2, <2>3 DEF RecordIsTrue, Steady
    <3>. QED  BY <2>1, <2>3, <3>3
  <2>4. CASE u # v
    <3>1. Live(u) => \A e \in disks : At(e, vol[u].loc) => e # d
      BY <1>2, <1>3, <2>4 DEF NamesDiffer, At
    <3>2. Fresh(u) \/ Kept(u) => Live(u)
      BY DEF Fresh, Kept, Live
    <3>3. RecordIsTrue(u)'
      BY <1>1, <1>2, <2>2, <3>1, <3>2 DEF RecordIsTrue, Kept
    <3>. QED  BY <2>1, <3>3
  <2>. QED  BY <2>3, <2>4
<1>7. \A e \in disks' : NotMistaken(e)'
  BY <1>1, <1>2 DEF NotMistaken, At
<1>8. \A e \in disks' : DataFindable(e)'
  <2> SUFFICES ASSUME NEW e \in disks', e.data # NoVolume PROVE DataFindable(e)'
    BY DEF DataFindable
  <2>1. CASE e = n
    <3>1. d.data = v
      BY <1>2, <2>1 DEF NotMistaken
    <3>2. Live(v) /\ ~Fresh(v) /\ \A f \in disks : f.data = v => f = d
      BY <1>2, <2>1, <3>1 DEF DataFindable
    <3>. QED  BY <1>1, <1>4, <2>1, <3>1, <3>2 DEF DataFindable
  <2>2. CASE e # n
    <3>1. e \in disks /\ e # d
      BY <2>2
    <3>2. d.data # e.data
      BY <1>2, <3>1 DEF DataFindable
    <3>. QED  BY <1>1, <1>2, <1>3, <3>1, <3>2 DEF DataFindable, Unclaimed
  <2>. QED  BY <2>1, <2>2
<1>9. \A e \in disks' : BlankFindable(e)'
  <2>1. ~Unclaimed(n)'
    BY <1>1, <1>4, VolumesAssumption DEF Unclaimed, Claimed, At
  <2>. QED  BY <1>1, <1>2, <2>1 DEF BlankFindable, Unclaimed
<1>. QED  BY <1>1, <1>2, <1>5, <1>6, <1>7, <1>8, <1>9 DEF WorldIsSound

\* A disk that goes where its row has on record, under a new name.
LEMMA DiskMoved ==
  ASSUME TypeOK, WorldIsSound, NEW v \in Volume, Kept(v), NEW d \in disks, NEW n \in Disk,
         At(d, vol[v].loc), Arriving(n, vol[v].loc), n.data = d.data,
         DiskAt(n.vm, n.key) = {}, DiskNamed(n.vm, n.name) = {}, Unclaimed(n), ~Steady(v),
         disks' = (disks \ {d}) \cup {n}, vol' = vol, inst' = inst
  PROVE  WorldIsSound'
<1>1. /\ \A u \in Volume : /\ Live(u)' <=> Live(u)
                           /\ Kept(u)' <=> Kept(u)
                           /\ Fresh(u)' <=> Fresh(u)
                           /\ RowFits(u)' <=> RowFits(u)
                           /\ LocationFits(u)' <=> LocationFits(u)
      /\ NamesDiffer' <=> NamesDiffer
      /\ \A vm, m, u : Claimed(vm, m, u)' <=> Claimed(vm, m, u)
  BY RowsUnchanged
<1>2. /\ PlacesDiffer /\ NamesDiffer
      /\ \A u \in Volume : RowFits(u) /\ LocationFits(u) /\ RecordIsTrue(u) /\ HasData(u)
      /\ \A e \in disks : NotMistaken(e) /\ DataFindable(e) /\ BlankFindable(e)
  BY DEF WorldIsSound
<1>3. \A e \in disks : e.vm # NoVm /\ e.name # NoSlot /\ e.data \in Volume \cup {NoVolume}
  BY DiskTyped
<1>4. Live(v) /\ v # NoVolume /\ d.data = v
  BY <1>2, VolumesAssumption DEF Kept, Live, NotMistaken
<1>5. /\ n.vm # NoVm /\ vol[v].loc.name # NoSlot /\ vol[v].inst # NoVm
      /\ n.key[1] = "unused"
  BY <1>2, VolumesAssumption DEF Disk, VM, Arriving, LocationFits
<1>6. PlacesDiffer'
  BY <1>2 DEF PlacesDiffer, DiskAt, DiskNamed
<1>7. \A u \in Volume : RecordIsTrue(u)' /\ HasData(u)'
  <2> SUFFICES ASSUME NEW u \in Volume PROVE RecordIsTrue(u)' /\ HasData(u)'
    OBVIOUS
  <2>1. HasData(u)'
    BY <1>1, <1>2 DEF HasData
  <2>2. CASE u = v
    <3>1. ~Fresh(v) /\ ~Steady(v)
      BY DEF Fresh, Kept
    <3>. QED  BY <1>1, <1>5, <2>1, <2>2, <3>1 DEF RecordIsTrue, Steady
  <2>3. CASE u # v
    <3>1. Live(u) => \A e \in disks : At(e, vol[u].loc) => e # d
      BY <1>2, <1>3, <1>4, <2>3 DEF NamesDiffer, At
    <3>2. Fresh(u) \/ Kept(u) => Live(u)
      BY DEF Fresh, Kept, Live
    <3>3. RecordIsTrue(u)'
      BY <1>1, <1>2, <3>1, <3>2 DEF RecordIsTrue, Kept
    <3>. QED  BY <2>1, <3>3
  <2>. QED  BY <2>2, <2>3
<1>8. \A e \in disks' : NotMistaken(e)'
  <2>1. NotMistaken(n)'
    BY <1>1, VolumesAssumption DEF NotMistaken, At, Unclaimed, Claimed
  <2>. QED  BY <1>1, <1>2, <2>1 DEF NotMistaken
<1>9. \A e \in disks' : DataFindable(e)'
  <2> SUFFICES ASSUME NEW e \in disks', e.data # NoVolume PROVE DataFindable(e)'
    BY DEF DataFindable
  <2>1. CASE e = n
    <3>1. Live(v) /\ ~Fresh(v) /\ \A f \in disks : f.data = v => f = d
      BY <1>2, <1>4 DEF DataFindable
    <3>. QED  BY <1>1, <1>4, <1>5, <2>1, <3>1 DEF DataFindable, Unclaimed
  <2>2. CASE e # n
    <3>1. e \in disks /\ e # d
      BY <2>2
    <3>2. d.data # e.data
      BY <1>2, <3>1 DEF DataFindable
    <3>. QED  BY <1>1, <1>2, <1>3, <3>1, <3>2 DEF DataFindable, Unclaimed
  <2>. QED  BY <2>1, <2>2
<1>10. \A e \in disks' : BlankFindable(e)'
  BY <1>1, <1>2, <1>4 DEF BlankFindable, Unclaimed
<1>. QED  BY <1>1, <1>2, <1>6, <1>7, <1>8, <1>9, <1>10 DEF WorldIsSound

\* A new disk in the slot reserved for it.
LEMMA DiskAdded ==
  ASSUME TypeOK, WorldIsSound, NEW v \in Volume, Live(v), NEW n \in Disk,
         vol[v].loc.name = NoSlot, Arriving(n, vol[v].loc), n.vm = Holder, n.data = NoVolume,
         DiskAt(n.vm, n.key) = {}, DiskNamed(n.vm, n.name) = {}, Unclaimed(n),
         disks' = disks \cup {n}, vol' = vol, inst' = inst
  PROVE  WorldIsSound'
<1>1. /\ \A u \in Volume : /\ Live(u)' <=> Live(u)
                           /\ Kept(u)' <=> Kept(u)
                           /\ Fresh(u)' <=> Fresh(u)
                           /\ RowFits(u)' <=> RowFits(u)
                           /\ LocationFits(u)' <=> LocationFits(u)
      /\ NamesDiffer' <=> NamesDiffer
      /\ \A vm, m, u : Claimed(vm, m, u)' <=> Claimed(vm, m, u)
  BY RowsUnchanged
<1>2. /\ PlacesDiffer /\ NamesDiffer
      /\ \A u \in Volume : RowFits(u) /\ LocationFits(u) /\ RecordIsTrue(u) /\ HasData(u)
      /\ \A e \in disks : NotMistaken(e) /\ DataFindable(e) /\ BlankFindable(e)
  BY DEF WorldIsSound
<1>3. \A u \in Volume : RecordIsTrue(u)' /\ HasData(u)'
  BY <1>1, <1>2 DEF RecordIsTrue, HasData
<1>4. PlacesDiffer'
  BY <1>2 DEF PlacesDiffer, DiskAt, DiskNamed
<1>5. Plugged(n.key)
  BY <1>2, VolumesAssumption DEF Plugged, Arriving, LocationFits
<1>6. NotMistaken(n)' /\ DataFindable(n)' /\ BlankFindable(n)'
  BY <1>1, <1>5, VolumesAssumption DEF NotMistaken, DataFindable, BlankFindable, At, Unclaimed, Claimed
<1>7. \A e \in disks : NotMistaken(e)' /\ DataFindable(e)' /\ BlankFindable(e)'
  <2>1. \A e \in disks : e.data \in Volume \cup {NoVolume}
    BY DiskTyped
  <2>. QED  BY <1>1, <1>2, <2>1 DEF NotMistaken, DataFindable, BlankFindable, Unclaimed
<1>. QED  BY <1>1, <1>2, <1>3, <1>4, <1>6, <1>7 DEF WorldIsSound

\* The disk of a volume that is being deleted goes.
LEMMA DiskRemoved ==
  ASSUME TypeOK, WorldIsSound, NEW v \in Volume, vol[v].state = "deleting", NEW d \in disks,
         At(d, vol[v].loc), disks' = disks \ {d}, vol' = vol, inst' = inst
  PROVE  WorldIsSound'
<1>1. /\ \A u \in Volume : /\ Live(u)' <=> Live(u)
                           /\ Kept(u)' <=> Kept(u)
                           /\ Fresh(u)' <=> Fresh(u)
                           /\ RowFits(u)' <=> RowFits(u)
                           /\ LocationFits(u)' <=> LocationFits(u)
      /\ NamesDiffer' <=> NamesDiffer
      /\ \A vm, m, u : Claimed(vm, m, u)' <=> Claimed(vm, m, u)
  BY RowsUnchanged
<1>2. /\ PlacesDiffer /\ NamesDiffer
      /\ \A u \in Volume : RowFits(u) /\ LocationFits(u) /\ RecordIsTrue(u) /\ HasData(u)
      /\ \A e \in disks : NotMistaken(e) /\ DataFindable(e) /\ BlankFindable(e)
  BY DEF WorldIsSound
<1>3. Live(v) /\ ~Kept(v) /\ ~Fresh(v) /\ d.data \in {v, NoVolume} /\ d.name # NoSlot /\ v # NoVolume
  BY <1>2, DiskTyped, VolumesAssumption DEF Live, Kept, Fresh, NotMistaken
<1>4. \A u \in Volume : RecordIsTrue(u)' /\ HasData(u)'
  <2> SUFFICES ASSUME NEW u \in Volume PROVE RecordIsTrue(u)' /\ HasData(u)'
    OBVIOUS
  <2>1. HasData(u)'
    BY <1>1, <1>2, <1>3, VolumesAssumption DEF HasData
  <2>2. Fresh(u) \/ Kept(u) => Live(u) /\ u # v
    BY <1>3 DEF Fresh, Kept, Live
  <2>3. Live(u) /\ u # v => \A e \in disks : At(e, vol[u].loc) => e # d
    BY <1>2, <1>3 DEF NamesDiffer, At
  <2>4. RecordIsTrue(u)'
    BY <1>1, <1>2, <2>2, <2>3 DEF RecordIsTrue, Kept
  <2>. QED  BY <2>1, <2>4
<1>5. PlacesDiffer'
  BY <1>2 DEF PlacesDiffer
<1>6. \A e \in disks' : NotMistaken(e)' /\ DataFindable(e)' /\ BlankFindable(e)'
  <2>1. \A e \in disks : e.data \in Volume \cup {NoVolume}
    BY DiskTyped
  <2>. QED  BY <1>1, <1>2, <2>1 DEF NotMistaken, DataFindable, BlankFindable, Unclaimed
<1>. QED  BY <1>1, <1>2, <1>4, <1>5, <1>6 DEF WorldIsSound

\* The blank disk of a volume that becomes available is its user's to write on.
LEMMA DiskWritten ==
  ASSUME TypeOK, WorldIsSound, NEW v \in Volume, Fresh(v), NEW d \in disks, NEW r \in Row,
         At(d, vol[v].loc), vol[v].loc.toVm = NoVm,
         r.state = "available", r.action = "none", r.inst = NoVm, r.loc = vol[v].loc,
         r.attachment # "attached",
         vol' = [vol EXCEPT ![v] = r], disks' = Written(v, vol[v].loc), inst' = inst
  PROVE  WorldIsSound'
<1>. DEFINE n == [d EXCEPT !.data = v]
<1>1. /\ PlacesDiffer /\ NamesDiffer
      /\ \A u \in Volume : RowFits(u) /\ LocationFits(u) /\ RecordIsTrue(u) /\ HasData(u)
      /\ \A e \in disks : NotMistaken(e) /\ DataFindable(e) /\ BlankFindable(e)
  BY DEF WorldIsSound
<1>2. n.vm = d.vm /\ n.name = d.name /\ n.key = d.key /\ n.data = v
  BY DiskTyped DEF Disk
<1>3. disks' = (disks \ {d}) \cup {n}
  BY <1>1 DEF Written, At, PlacesDiffer
<1>. HIDE DEF n
<1>4. /\ vol'[v] = r
      /\ \A u \in Volume \ {v} : vol'[u] = vol[u]
      /\ \A u \in Volume : vol'[u].loc = vol[u].loc
  BY DEF TypeOK
<1>5. /\ \A u \in Volume : Live(u)' <=> Live(u)
      /\ \A u \in Volume \ {v} : (Kept(u)' <=> Kept(u)) /\ (Fresh(u)' <=> Fresh(u))
      /\ Live(v) /\ ~Kept(v) /\ Kept(v)' /\ ~Fresh(v)'
  BY <1>4 DEF Live, Kept, Fresh
<1>6. \A vm, m, u : Claimed(vm, m, u)' <=> Claimed(vm, m, u)
  BY <1>4, <1>5, ClaimsSame
<1>7. /\ \A e \in disks : e.vm # NoVm /\ e.name # NoSlot /\ e.data \in Volume \cup {NoVolume}
      /\ v # NoVolume
  BY DiskTyped, VolumesAssumption
<1>8. d.data = NoVolume /\ \A e \in disks : e.data # v
  BY <1>1, <1>5, <1>7 DEF NotMistaken, DataFindable
<1>9. \A u \in Volume \ {v} : Live(u) => \A e \in disks : At(e, vol[u].loc) => e # d
  BY <1>1, <1>5, <1>7 DEF NamesDiffer, At
<1>10. \A u \in Volume : RowFits(u)' /\ LocationFits(u)' /\ RecordIsTrue(u)' /\ HasData(u)'
  <2> SUFFICES ASSUME NEW u \in Volume
               PROVE  RowFits(u)' /\ LocationFits(u)' /\ RecordIsTrue(u)' /\ HasData(u)'
    OBVIOUS
  <2>1. CASE u = v
    <3>1. RowFits(v)'
      BY <1>4 DEF RowFits, Kept
    <3>2. LocationFits(v)'
      <4>1. vol[v].loc.vm = d.vm /\ vol[v].loc.name = d.name
        BY DEF At
      <4>2. vol[v].inst = NoVm
        BY <1>1, <1>5 DEF RowFits
      <4>3. LocationFits(v)
        BY <1>1
      <4>. QED  BY <1>4, <1>7, <4>1, <4>2, <4>3 DEF LocationFits
    <3>3. RecordIsTrue(v)' /\ HasData(v)'
      <4>1. At(n, vol'[v].loc)
        BY <1>2, <1>4 DEF At
      <4>. QED  BY <1>2, <1>3, <1>4, <4>1 DEF RecordIsTrue, HasData
    <3>. QED  BY <2>1, <3>1, <3>2, <3>3
  <2>2. CASE u # v
    <3>1. vol'[u] = vol[u]
      BY <1>4, <2>2
    <3>2. RowFits(u)'
      BY <1>1, <3>1 DEF RowFits, Kept
    <3>3. LocationFits(u)'
      BY <1>1, <3>1 DEF LocationFits, Kept
    <3>4. RecordIsTrue(u)'
      <4>1. Fresh(u) \/ Kept(u) => Live(u)
        BY DEF Fresh, Kept, Live
      <4>2. vol[u].state = "in-use" => Kept(u)
        BY DEF Kept
      <4>. QED  BY <1>1, <1>3, <1>5, <1>9, <2>2, <3>1, <4>1, <4>2 DEF RecordIsTrue
    <3>5. HasData(u)'
      BY <1>1, <1>3, <1>5, <1>7, <1>8, <2>2, VolumesAssumption DEF HasData
    <3>. QED  BY <3>2, <3>3, <3>4, <3>5
  <2>. QED  BY <2>1, <2>2
<1>11. PlacesDiffer' /\ NamesDiffer'
  BY <1>1, <1>2, <1>3, <1>4, <1>5 DEF PlacesDiffer, NamesDiffer
<1>12. NotMistaken(n)' /\ DataFindable(n)' /\ BlankFindable(n)'
  <2>1. NotMistaken(n)'
    BY <1>2, <1>4, <1>5, <1>7, <1>9 DEF NotMistaken, At
  <2>2. At(n, vol'[v].loc)
    BY <1>2, <1>4 DEF At
  <2>3. \A e \in disks' : e.data = v => e = n
    BY <1>3, <1>8
  <2>. QED  BY <1>2, <1>5, <1>7, <2>1, <2>2, <2>3 DEF DataFindable, BlankFindable
<1>13. ASSUME NEW e \in disks, e # d PROVE NotMistaken(e)' /\ DataFindable(e)' /\ BlankFindable(e)'
  <2>1. NotMistaken(e) /\ DataFindable(e) /\ BlankFindable(e) /\ e.data # v
    BY <1>1, <1>8
  <2>2. ~At(e, vol[v].loc)
    BY <1>1, <1>13 DEF At, PlacesDiffer
  <2>3. NotMistaken(e)'
    BY <1>4, <1>5, <2>1, <2>2 DEF NotMistaken
  <2>4. DataFindable(e)'
    BY <1>2, <1>3, <1>4, <1>5, <1>6, <1>7, <2>1 DEF DataFindable, Unclaimed
  <2>5. BlankFindable(e)'
    BY <1>4, <1>5, <1>6, <2>1 DEF BlankFindable, Unclaimed
  <2>. QED  BY <2>3, <2>4, <2>5
<1>. QED  BY <1>3, <1>10, <1>11, <1>12, <1>13 DEF WorldIsSound

-----------------------------------------------------------------------------
(* Requests                                                                 *)

\* Between attempts, and at the beginning and the end of a terminate, nothing
\* is known of any disk.
LEMMA NothingKnown == AttemptIsSound /\ ~Works => StepKnows
BY DEF AttemptIsSound, StepKnows

LEMMA KnowsTheSame ==
  ASSUME StepKnows, att' = att, disks' = disks, Here' = Here,
         att.action = "attach" => vol'[att.vol].device = vol[att.vol].device,
         \A d \in disks, u \in {att.vol, NoVolume} :
             Claimed(d.vm, d.name, u)' <=> Claimed(d.vm, d.name, u)
  PROVE  StepKnows'
<1>1. Held' <=> Held
  BY DEF Held
<1>2. Arrived(att.vol, Here)' = Arrived(att.vol, Here)
  BY DEF Arrived, DiskAt
<1>3. att.action = "attach" => (DeviceFree' <=> DeviceFree) /\ (PluggedIn' <=> PluggedIn)
  BY DEF DeviceFree, PluggedIn, DiskAt
<1>4. \A d \in disks : Unclaimed(d)' <=> Unclaimed(d)
  BY DEF Unclaimed
<1>5. Target' = Target
  BY DEF Target
<1>. QED  BY <1>1, <1>2, <1>3, <1>4, <1>5 DEF StepKnows, DiskAt, DiskNamed

\* A request changes no location, and no row that a volume's action is about.
LEMMA RequestKeeps ==
  ASSUME Consistent, NEW v \in Volume, NEW r \in Row, Request(v, r),
         r.loc = vol[v].loc,
         v = att.vol => att.action = "terminate",
         r.inst = vol[v].inst
            \/ (att.action = "terminate" => r.inst # att.inst /\ vol[v].inst # att.inst),
         (Live(v) <=> r.state \notin {"absent", "deleted"}) \/ r.loc.name = NoSlot,
         WorldIsSound'
  PROVE  Consistent'
<1>1. /\ vol' = [vol EXCEPT ![v] = r] /\ inst' = inst /\ disks' = disks /\ att' = att
      /\ TypeOK /\ AttemptIsSound /\ StepKnows
  BY DEF Request, Consistent
<1>2. /\ vol'[v] = r
      /\ \A u \in Volume \ {v} : vol'[u] = vol[u]
      /\ \A u \in Volume : vol'[u].loc = vol[u].loc
  BY <1>1 DEF TypeOK
<1>3. TypeOK'
  BY <1>1 DEF TypeOK
<1>4. AttemptIsSound'
  <2>1. Works => att.vol \in Volume
    BY <1>1, AttemptTyped
  <2>2. att.action = "terminate" =>
           \A u \in Volume : vol'[u].inst = att.inst <=> vol[u].inst = att.inst
    BY <1>2
  <2>3. Works /\ att.action # "terminate" => vol'[att.vol] = vol[att.vol]
    BY <1>2, <2>1
  <2>. QED  BY <1>1, <2>2, <2>3 DEF AttemptIsSound, Works, Idle
<1>5. StepKnows'
  <2>1. CASE Works
    <3>1. att.vol \in Volume
      BY <1>1, <2>1, AttemptTyped
    <3>2. Here' = Here
      BY <1>1, <1>2, <3>1 DEF Here
    <3>3. att.action = "attach" => vol'[att.vol].device = vol[att.vol].device
      BY <1>1, <1>2, <3>1
    <3>4. \A u \in Volume : vol[u].loc.name # NoSlot => (Live(u)' <=> Live(u))
      BY <1>2 DEF Live
    <3>5. \A d \in disks, u \in {att.vol, NoVolume} :
             Claimed(d.vm, d.name, u)' <=> Claimed(d.vm, d.name, u)
      <4>1. \A d \in disks : d.name # NoSlot
        BY <1>1, DiskTyped
      <4>. QED  BY <1>2, <3>4, <4>1 DEF Claimed
    <3>. QED  BY <1>1, <3>2, <3>3, <3>5, KnowsTheSame
  <2>2. CASE ~Works
    BY <1>1, <1>4, <2>2 DEF AttemptIsSound, StepKnows, Works
  <2>. QED  BY <2>1, <2>2
<1>. QED  BY <1>3, <1>4, <1>5 DEF Consistent

LEMMA CreateKeeps ==
  ASSUME Consistent, NEW v \in Volume, NEW size \in CreatedSizes, CreateVolume(v, size)
  PROVE  Consistent'
<1>. DEFINE r == [NoRow EXCEPT !.state = "creating", !.action = "create", !.size = size]
<1>1. /\ TypeOK /\ WorldIsSound /\ AttemptIsSound
      /\ RowFits(v) /\ vol[v].state = "absent" /\ Request(v, r)
  BY DEF Consistent, WorldIsSound, CreateVolume
<1>2. vol[v] = NoRow
  BY <1>1 DEF RowFits
<1>3. r \in Row /\ r.loc = Nowhere
  BY NoRowTyped, Counts DEF NoRow, Row, VolumeAction
<1>4. /\ r.state = "creating" /\ r.action = "create" /\ r.inst = NoVm
      /\ r.attachment = "none"
  BY DEF NoRow
<1>. HIDE DEF r
<1>5. vol' = [vol EXCEPT ![v] = r] /\ disks' = disks /\ inst' = inst /\ vol'[v] = r
  BY <1>1 DEF Request, TypeOK
<1>6. /\ vol[v].loc = Nowhere /\ vol[v].inst = NoVm /\ vol[v].action = "none"
      /\ ~Live(v) /\ ~Kept(v)
  BY <1>1, <1>2 DEF NoRow, Live, Kept
<1>7. RowFits(v)' /\ LocationFits(v)' /\ RecordIsTrue(v)'
  BY <1>3, <1>4, <1>5 DEF RowFits, LocationFits, RecordIsTrue, Kept, Fresh, Nowhere
<1>8. (\A e \in disks : ~At(e, vol[v].loc)) /\ NothingArrived(v)
  BY <1>1, <1>6, DiskTyped DEF At, NothingArrived, Arriving, Nowhere
<1>9. WorldIsSound'
  <2>1. r.loc = vol[v].loc /\ r.loc.name = NoSlot /\ r.state \notin {"available", "in-use"}
    BY <1>3, <1>4, <1>6 DEF Nowhere
  <2>. QED  BY <1>1, <1>3, <1>5, <1>6, <1>7, <1>8, <2>1, RowWithoutDisk
<1>10. v = att.vol => att.action = "terminate"
  BY <1>1, <1>6, VolumesAssumption DEF AttemptIsSound, Works
<1>. QED  BY <1>1, <1>3, <1>4, <1>6, <1>9, <1>10, RequestKeeps DEF Nowhere

LEMMA AttachKeeps ==
  ASSUME Consistent, NEW v \in Volume, NEW i \in Instance, NEW device \in Slot,
         AttachVolume(v, i, device)
  PROVE  Consistent'
<1>. DEFINE r == [vol[v] EXCEPT !.inst = i, !.device = device, !.attachment = "attaching",
                                !.action = "attach", !.attempts = 0]
<1>1. /\ TypeOK /\ WorldIsSound /\ AttemptIsSound
      /\ RowFits(v) /\ LocationFits(v) /\ RecordIsTrue(v)
      /\ vol[v].state = "available" /\ vol[v].action = "none" /\ vol[v].inst = NoVm
      /\ inst[i] = "settled" /\ Request(v, r)
  BY DEF Consistent, WorldIsSound, AttachVolume
<1>2. r \in Row /\ r.loc = vol[v].loc
  BY <1>1, RowTyped, Counts DEF Row, VolumeAction
<1>3. /\ r.state = "available" /\ r.action = "attach" /\ r.inst = i
      /\ r.attachment = "attaching" /\ r.device = device
  BY <1>1, RowTyped DEF Row
<1>. HIDE DEF r
<1>4. vol' = [vol EXCEPT ![v] = r] /\ disks' = disks /\ inst' = inst /\ vol'[v] = r
  BY <1>1 DEF Request, TypeOK
<1>5. Live(v) /\ Kept(v) /\ ~Fresh(v) /\ i # NoVm
  BY <1>1, VolumesAssumption DEF Live, Kept, Fresh
<1>6. RowFits(v)' /\ LocationFits(v)' /\ RecordIsTrue(v)'
  BY <1>1, <1>2, <1>3, <1>4, <1>5 DEF RowFits, LocationFits, RecordIsTrue, Kept, Fresh
<1>7. WorldIsSound'
  BY <1>1, <1>2, <1>3, <1>4, <1>5, <1>6, RowChanged
<1>8. v = att.vol => att.action = "terminate"
  BY <1>1, VolumesAssumption DEF AttemptIsSound, Works
<1>9. att.action = "terminate" => r.inst # att.inst /\ vol[v].inst # att.inst
  BY <1>1, <1>3 DEF AttemptIsSound
<1>. QED  BY <1>1, <1>2, <1>3, <1>5, <1>7, <1>8, <1>9, RequestKeeps

LEMMA DetachKeeps ==
  ASSUME Consistent, NEW v \in Volume, DetachVolume(v)
  PROVE  Consistent'
<1>. DEFINE r == [vol[v] EXCEPT !.attachment = "detaching", !.action = "detach", !.attempts = 0]
<1>1. /\ TypeOK /\ WorldIsSound /\ AttemptIsSound
      /\ RowFits(v) /\ LocationFits(v) /\ RecordIsTrue(v)
      /\ vol[v].attachment = "attached" /\ vol[v].action = "none" /\ Request(v, r)
  BY DEF Consistent, WorldIsSound, DetachVolume
<1>2. r \in Row /\ r.loc = vol[v].loc
  BY <1>1, RowTyped, Counts DEF Row, VolumeAction
<1>3. /\ r.state = vol[v].state /\ r.action = "detach" /\ r.inst = vol[v].inst
      /\ r.attachment = "detaching" /\ r.device = vol[v].device
  BY <1>1, RowTyped DEF Row
<1>. HIDE DEF r
<1>4. vol' = [vol EXCEPT ![v] = r] /\ disks' = disks /\ inst' = inst /\ vol'[v] = r
  BY <1>1 DEF Request, TypeOK
<1>5. vol[v].state = "in-use" /\ Live(v) /\ Kept(v) /\ ~Fresh(v) /\ vol[v].inst # NoVm
  BY <1>1 DEF RowFits, Live, Kept, Fresh
<1>6. RowFits(v)' /\ LocationFits(v)' /\ RecordIsTrue(v)'
  BY <1>1, <1>2, <1>3, <1>4, <1>5 DEF RowFits, LocationFits, RecordIsTrue, Kept, Fresh
<1>7. WorldIsSound'
  BY <1>1, <1>2, <1>3, <1>4, <1>5, <1>6, RowChanged
<1>8. v = att.vol => att.action = "terminate"
  BY <1>1, VolumesAssumption DEF AttemptIsSound, Works
<1>. QED  BY <1>1, <1>2, <1>3, <1>5, <1>7, <1>8, RequestKeeps

LEMMA ModifyKeeps ==
  ASSUME Consistent, NEW v \in Volume, ModifyVolume(v)
  PROVE  Consistent'
<1>. DEFINE r == [vol[v] EXCEPT !.size = @ + 1, !.action = "resize", !.attempts = 0]
<1>1. /\ TypeOK /\ WorldIsSound /\ AttemptIsSound
      /\ RowFits(v) /\ LocationFits(v) /\ RecordIsTrue(v)
      /\ vol[v].state \in {"available", "in-use"} /\ vol[v].action = "none"
      /\ vol[v].size < MaxSize /\ Request(v, r)
  BY DEF Consistent, WorldIsSound, ModifyVolume
<1>2. r \in Row /\ r.loc = vol[v].loc
  BY <1>1, RowTyped, Counts DEF Row, VolumeAction
<1>3. /\ r.state = vol[v].state /\ r.action = "resize" /\ r.inst = vol[v].inst
      /\ r.attachment = vol[v].attachment /\ r.device = vol[v].device
  BY <1>1, RowTyped DEF Row
<1>. HIDE DEF r
<1>4. vol' = [vol EXCEPT ![v] = r] /\ disks' = disks /\ inst' = inst /\ vol'[v] = r
  BY <1>1 DEF Request, TypeOK
<1>5. Live(v) /\ Kept(v) /\ ~Fresh(v)
  BY <1>1 DEF Live, Kept, Fresh
<1>6. RowFits(v)' /\ LocationFits(v)' /\ RecordIsTrue(v)'
  BY <1>1, <1>2, <1>3, <1>4, <1>5 DEF RowFits, LocationFits, RecordIsTrue, Kept, Fresh
<1>7. WorldIsSound'
  BY <1>1, <1>2, <1>3, <1>4, <1>5, <1>6, RowChanged
<1>8. v = att.vol => att.action = "terminate"
  BY <1>1, VolumesAssumption DEF AttemptIsSound, Works
<1>. QED  BY <1>1, <1>2, <1>3, <1>5, <1>7, <1>8, RequestKeeps

LEMMA DeleteKeeps ==
  ASSUME Consistent, NEW v \in Volume, DeleteVolume(v)
  PROVE  Consistent'
<1>. DEFINE r == [vol[v] EXCEPT !.state = "deleting", !.action = "delete", !.attempts = 0]
<1>1. /\ TypeOK /\ WorldIsSound /\ AttemptIsSound
      /\ RowFits(v) /\ LocationFits(v) /\ RecordIsTrue(v)
      /\ vol[v].state \in {"available", "error"} /\ vol[v].action = "none"
      /\ vol[v].inst = NoVm /\ Request(v, r)
  BY DEF Consistent, WorldIsSound, DeleteVolume
<1>2. r \in Row /\ r.loc = vol[v].loc
  BY <1>1, RowTyped, Counts DEF Row, VolumeAction
<1>3. /\ r.state = "deleting" /\ r.action = "delete" /\ r.inst = NoVm
      /\ r.attachment = vol[v].attachment
  BY <1>1, RowTyped DEF Row
<1>. HIDE DEF r
<1>4. vol' = [vol EXCEPT ![v] = r] /\ disks' = disks /\ inst' = inst /\ vol'[v] = r
  BY <1>1 DEF Request, TypeOK
<1>5. Live(v) /\ vol[v].attachment # "attached"
  BY <1>1 DEF Live, RowFits
<1>6. RowFits(v)' /\ LocationFits(v)' /\ RecordIsTrue(v)'
  BY <1>1, <1>2, <1>3, <1>4, <1>5 DEF RowFits, LocationFits, RecordIsTrue, Kept, Fresh
<1>7. WorldIsSound'
  BY <1>1, <1>2, <1>3, <1>4, <1>5, <1>6, RowChanged
<1>8. v = att.vol => att.action = "terminate"
  BY <1>1, VolumesAssumption DEF AttemptIsSound, Works
<1>. QED  BY <1>1, <1>2, <1>3, <1>5, <1>7, <1>8, RequestKeeps

LEMMA InstancesMoved ==
  ASSUME TypeOK, WorldIsSound,
         \A u \in Volume : vol[u].inst # NoVm =>
             /\ inst'[vol[u].inst] = "terminated" => inst[vol[u].inst] = "terminated"
             /\ inst[vol[u].inst] = "shutting-down" => inst'[vol[u].inst] = "shutting-down",
         UNCHANGED <<vol, disks>>
  PROVE  WorldIsSound'
<1>1. /\ \A u \in Volume : (Live(u)' <=> Live(u)) /\ (Kept(u)' <=> Kept(u)) /\ (Fresh(u)' <=> Fresh(u))
      /\ \A u \in Volume : vol[u].inst \in Instance \cup {NoVm}
      /\ \A vm, n, u : Claimed(vm, n, u)' <=> Claimed(vm, n, u)
  BY RowTyped DEF Live, Kept, Fresh, Claimed
<1>2. \A u \in Volume : RowFits(u)' /\ LocationFits(u)' /\ RecordIsTrue(u)' /\ HasData(u)'
  <2> SUFFICES ASSUME NEW u \in Volume
               PROVE  RowFits(u)' /\ LocationFits(u)' /\ RecordIsTrue(u)' /\ HasData(u)'
    OBVIOUS
  <2>1. RowFits(u) /\ LocationFits(u) /\ RecordIsTrue(u) /\ HasData(u)
    BY DEF WorldIsSound
  <2>2. RowFits(u)'
    BY <1>1, <2>1 DEF RowFits
  <2>3. LocationFits(u)' /\ HasData(u)'
    BY <1>1, <2>1 DEF LocationFits, HasData
  <2>4. RecordIsTrue(u)'
    <3>1. vol[u].state = "in-use" => vol[u].inst # NoVm
      BY <2>1 DEF RowFits
    <3>. QED  BY <1>1, <2>1, <3>1 DEF RecordIsTrue
  <2>. QED  BY <2>2, <2>3, <2>4
<1>3. PlacesDiffer' /\ NamesDiffer'
  BY <1>1 DEF WorldIsSound, PlacesDiffer, NamesDiffer
<1>4. ASSUME NEW d \in disks PROVE NotMistaken(d)' /\ DataFindable(d)' /\ BlankFindable(d)'
  <2>1. NotMistaken(d) /\ DataFindable(d) /\ BlankFindable(d)
    BY DEF WorldIsSound
  <2>2. Unclaimed(d)' <=> Unclaimed(d)
    BY <1>1 DEF Unclaimed
  <2>3. d.data \in Volume \cup {NoVolume}
    BY DiskTyped
  <2>4. NotMistaken(d)'
    BY <1>1, <2>1 DEF NotMistaken
  <2>5. DataFindable(d)'
    BY <1>1, <2>1, <2>2, <2>3 DEF DataFindable
  <2>6. BlankFindable(d)'
    BY <1>1, <2>1, <2>2 DEF BlankFindable
  <2>. QED  BY <2>4, <2>5, <2>6
<1>. QED  BY <1>2, <1>3, <1>4 DEF WorldIsSound

LEMMA InstancesMove ==
  ASSUME Consistent,
         inst' \in [Instance -> {"settled", "busy", "shutting-down", "terminated"}],
         \A i \in Instance : /\ inst'[i] = "terminated" => inst[i] = "terminated"
                             /\ inst[i] = "shutting-down" => inst'[i] = "shutting-down",
         UNCHANGED <<vol, disks, att>>
  PROVE  Consistent'
<1>1. TypeOK /\ WorldIsSound /\ AttemptIsSound /\ StepKnows
  BY DEF Consistent
<1>2. TypeOK'
  BY <1>1 DEF TypeOK
<1>3. /\ \A u \in Volume : vol[u].inst \in Instance \cup {NoVm}
      /\ \A vm, n, u : Claimed(vm, n, u)' <=> Claimed(vm, n, u)
  BY <1>1, RowTyped DEF Live, Claimed
<1>4. WorldIsSound'
  BY <1>1, <1>3, InstancesMoved
<1>5. AttemptIsSound'
  BY <1>1, AttemptTyped DEF AttemptIsSound, Works, Idle
<1>6. StepKnows'
  BY <1>1, <1>3, KnowsTheSame DEF Here
<1>. QED  BY <1>2, <1>4, <1>5, <1>6 DEF Consistent

LEMMA ApiKeeps == Consistent /\ Api => Consistent'
<1> SUFFICES ASSUME Consistent, Api PROVE Consistent'
  OBVIOUS
<1>1. inst \in [Instance -> {"settled", "busy", "shutting-down", "terminated"}]
  BY DEF Consistent, TypeOK
<1>2. ASSUME NEW v \in Volume, NEW size \in CreatedSizes, CreateVolume(v, size) PROVE Consistent'
  BY <1>2, CreateKeeps
<1>3. ASSUME NEW v \in Volume, DetachVolume(v) \/ ModifyVolume(v) \/ DeleteVolume(v)
      PROVE Consistent'
  BY <1>3, DetachKeeps, ModifyKeeps, DeleteKeeps
<1>4. ASSUME NEW v \in Volume, NEW i \in Instance, NEW device \in Slot, AttachVolume(v, i, device)
      PROVE Consistent'
  BY <1>4, AttachKeeps
<1>5. ASSUME NEW i \in Instance, InstanceMoves(i) \/ RequestTerminate(i) PROVE Consistent'
  BY <1>1, <1>5, InstancesMove DEF InstanceMoves, RequestTerminate
<1>. QED  BY <1>2, <1>3, <1>4, <1>5 DEF Api

-----------------------------------------------------------------------------
(* Claiming, finishing and failing                                          *)

LEMMA WorldSame ==
  ASSUME TypeOK, WorldIsSound, UNCHANGED <<vol, inst, disks>>
  PROVE  WorldIsSound'
<1>1. /\ \A u \in Volume : (Live(u)' <=> Live(u)) /\ (Kept(u)' <=> Kept(u)) /\ (Fresh(u)' <=> Fresh(u))
      /\ \A u \in Volume : (RowFits(u)' <=> RowFits(u)) /\ (LocationFits(u)' <=> LocationFits(u))
      /\ NamesDiffer' <=> NamesDiffer
      /\ \A vm, n, u : Claimed(vm, n, u)' <=> Claimed(vm, n, u)
  BY RowsUnchanged
<1>2. \A u \in Volume : RecordIsTrue(u)' /\ HasData(u)'
  BY <1>1 DEF WorldIsSound, RecordIsTrue, HasData
<1>3. PlacesDiffer'
  BY DEF WorldIsSound, PlacesDiffer
<1>4. ASSUME NEW d \in disks PROVE NotMistaken(d)' /\ DataFindable(d)' /\ BlankFindable(d)'
  <2>1. NotMistaken(d) /\ DataFindable(d) /\ BlankFindable(d)
    BY DEF WorldIsSound
  <2>2. (Unclaimed(d)' <=> Unclaimed(d)) /\ d.data \in Volume \cup {NoVolume}
    BY <1>1, DiskTyped DEF Unclaimed
  <2>. QED  BY <1>1, <2>1, <2>2 DEF NotMistaken, DataFindable, BlankFindable
<1>. QED  BY <1>1, <1>2, <1>3, <1>4 DEF WorldIsSound

LEMMA AttemptOver ==
  ASSUME att' = Idle, TypeOK', WorldIsSound'
  PROVE  Consistent'
<1>1. AttemptIsSound'
  BY DEF AttemptIsSound, Works, Idle
<1>2. StepKnows'
  BY DEF StepKnows, Idle
<1>. QED  BY <1>1, <1>2 DEF Consistent

LEMMA AttemptEndsKeeps == Consistent /\ AttemptEnds => Consistent'
<1> SUFFICES ASSUME Consistent, AttemptEnds PROVE Consistent'
  OBVIOUS
<1>1. UNCHANGED <<vol, inst, disks>> /\ att' = Idle
  BY DEF AttemptEnds
<1>2. WorldIsSound'
  BY <1>1, WorldSame DEF Consistent
<1>3. TypeOK'
  BY <1>1, IdleTyped DEF Consistent, TypeOK
<1>. QED  BY <1>1, <1>2, <1>3, AttemptOver

LEMMA ClaimKeeps == Consistent /\ Claim => Consistent'
<1> SUFFICES ASSUME Consistent, Claim PROVE Consistent'
  OBVIOUS
<1>1. TypeOK /\ WorldIsSound
  BY DEF Consistent
<1>2. ASSUME NEW v \in Volume, ClaimVolume(v) PROVE Consistent'
  <2>1. /\ att' = [action |-> vol[v].action, vol |-> v, inst |-> vol[v].inst, step |-> "locate",
                   todo |-> {}]
        /\ UNCHANGED <<vol, inst, disks>> /\ vol[v].action # "none"
    BY <1>2 DEF ClaimVolume, Idle
  <2>2. TypeOK'
    BY <1>1, <2>1, RowTyped DEF TypeOK, Attempt, Step
  <2>3. WorldIsSound'
    BY <1>1, <2>1, WorldSame
  <2>4. vol[v].action # "terminate"
    BY <1>1, RowTyped DEF VolumeAction
  <2>5. AttemptIsSound'
    BY <2>1, <2>4, VolumesAssumption DEF AttemptIsSound, Works, Idle
  <2>6. StepKnows'
    BY <2>1 DEF StepKnows
  <2>. QED  BY <2>2, <2>3, <2>5, <2>6 DEF Consistent
<1>3. ASSUME NEW i \in Instance, ClaimTerminate(i) PROVE Consistent'
  <2>1. /\ att' = [action |-> "terminate", vol |-> NoVolume, inst |-> i, step |-> "next",
                   todo |-> OnVm(i)]
        /\ UNCHANGED <<vol, inst, disks>> /\ inst[i] = "shutting-down"
    BY <1>3 DEF ClaimTerminate, Idle
  <2>2. TypeOK'
    BY <1>1, <2>1 DEF TypeOK, Attempt, Step, OnVm
  <2>3. WorldIsSound'
    BY <1>1, <2>1, WorldSame
  <2>4. i # NoVm /\ i # Holder
    BY VolumesAssumption
  <2>5. /\ \A v \in Volume : vol[v].inst = i <=> v \in OnVm(i)
        /\ NoVolume \notin OnVm(i)
    BY <1>1, <2>4, VolumesAssumption DEF WorldIsSound, LocationFits, OnVm
  <2>6. AttemptIsSound'
    BY <2>1, <2>4, <2>5, VolumesAssumption DEF AttemptIsSound, Works, Idle
  <2>7. StepKnows'
    BY <2>1 DEF StepKnows
  <2>. QED  BY <2>2, <2>3, <2>6, <2>7 DEF Consistent
<1>. QED  BY <1>2, <1>3 DEF Claim

\* The volume of an attempt at its own action.
LEMMA OwnAttempt ==
  ASSUME Consistent, Works, att.action # "terminate"
  PROVE  /\ att.vol \in Volume /\ att.vol # NoVolume
         /\ vol[att.vol].action = att.action /\ vol[att.vol].inst = att.inst
         /\ att.action \in {"create", "attach", "detach", "resize", "delete"}
         /\ Live(att.vol)
         /\ att.action = "create" <=> vol[att.vol].state = "creating"
         /\ att.action = "delete" <=> vol[att.vol].state = "deleting"
         /\ att.action \in {"attach", "detach", "resize"} <=> Kept(att.vol)
<1>1. /\ att.vol \in Volume /\ att.vol # NoVolume
      /\ vol[att.vol].action = att.action /\ vol[att.vol].inst = att.inst
      /\ att.action \in {"create", "attach", "detach", "resize", "delete"}
  BY AttemptTyped DEF Consistent, AttemptIsSound, Works, VolumeAction
<1>2. RowFits(att.vol) /\ vol[att.vol].state \in {"absent", "creating", "available", "in-use",
                                                  "deleting", "deleted", "error"}
  BY <1>1 DEF Consistent, WorldIsSound, TypeOK, Row
<1>. QED  BY <1>1, <1>2 DEF RowFits, Live, Kept, NoRow

\* A volume that a terminate returns was attached to the instance.
LEMMA Returning ==
  ASSUME Consistent, Works, att.action = "terminate"
  PROVE  /\ att.vol \in Volume /\ att.vol # NoVolume
         /\ vol[att.vol].inst = att.inst /\ att.inst # NoVm /\ inst[att.inst] = "shutting-down"
         /\ Live(att.vol) /\ Kept(att.vol) /\ ~Steady(att.vol)
<1>1. /\ att.vol \in Volume /\ att.vol # NoVolume
      /\ vol[att.vol].inst = att.inst /\ att.inst # NoVm /\ inst[att.inst] = "shutting-down"
  BY AttemptTyped DEF Consistent, AttemptIsSound, Works
<1>2. RowFits(att.vol)
  BY <1>1 DEF Consistent, WorldIsSound
<1>. QED  BY <1>1, <1>2 DEF RowFits, Live, Kept, Steady

LEMMA FailureKeeps == Consistent /\ VolumeFails => Consistent'
<1> SUFFICES ASSUME Consistent, VolumeFails PROVE Consistent'
  OBVIOUS
<1>1. /\ TypeOK /\ WorldIsSound /\ Works /\ att.action # "terminate"
      /\ att' = Idle /\ inst' = inst /\ disks' = disks
  BY DEF VolumeFails, Consistent, Works
<1>. PICK v \in Volume : v = att.vol
  BY <1>1, OwnAttempt
<1>2. /\ Live(v) /\ vol[v].action = att.action
      /\ att.action = "create" <=> vol[v].state = "creating"
      /\ RowFits(v) /\ LocationFits(v) /\ RecordIsTrue(v)
  BY <1>1, OwnAttempt DEF WorldIsSound
<1>3. ASSUME NEW r \in Row, vol' = [vol EXCEPT ![v] = r], r.loc = vol[v].loc,
             r.state \notin {"absent", "deleted"},
             r.state \in {"available", "in-use"} => Kept(v),
             r.state \in {"creating", "error"} => Fresh(v),
             RowFits(v)', LocationFits(v)', RecordIsTrue(v)'
      PROVE  Consistent'
  <2>1. WorldIsSound'
    BY <1>1, <1>2, <1>3, RowChanged
  <2>2. TypeOK'
    BY <1>1, <1>3, IdleTyped DEF TypeOK
  <2>. QED  BY <1>1, <2>1, <2>2, AttemptOver
<1>4. CASE \E size \in Measured(vol[v]) :
             vol' = [vol EXCEPT ![v] = GivenUp(vol[v], size)] /\ att.action \in Abandonable
  <2>1. PICK size \in Measured(vol[v]) : vol' = [vol EXCEPT ![v] = GivenUp(vol[v], size)]
    BY <1>4
  <2>2. size \in 1..MaxSize
    BY <1>1, <1>2, RowTyped, DiskTyped DEF Measured, DiskNamed, Row, Disk
  <2>. DEFINE r == GivenUp(vol[v], size)
  <2>3. /\ r \in Row /\ r.loc = vol[v].loc /\ r.inst = vol[v].inst /\ r.device = vol[v].device
        /\ att.action = "create" => r.state = "error" /\ r.action = "none"
                                    /\ r.attachment = vol[v].attachment
        /\ att.action = "attach" => r.state = vol[v].state /\ r.action = "detach"
                                    /\ r.attachment = "detaching"
        /\ att.action = "resize" => r.state = vol[v].state /\ r.action = "none"
                                    /\ r.attachment = vol[v].attachment
    <3>1. vol[v] \in Row /\ att.action \in {"create", "attach", "resize"}
      BY <1>1, <1>4, RowTyped DEF Abandonable
    <3>2. CASE att.action = "create"
      BY <1>2, <3>1, <3>2, Counts DEF GivenUp, Row, VolumeAction
    <3>3. CASE att.action = "attach"
      BY <1>2, <3>1, <3>3, Counts DEF GivenUp, Row, VolumeAction
    <3>4. CASE att.action = "resize"
      BY <1>2, <2>2, <3>1, <3>4, Counts DEF GivenUp, Row, VolumeAction
    <3>. QED  BY <3>1, <3>2, <3>3, <3>4
  <2>. HIDE DEF r
  <2>4. vol'[v] = r /\ att.action \in {"create", "attach", "resize"}
    BY <1>1, <1>2, <1>4, <2>1 DEF TypeOK, r, Abandonable
  <2>5. RowFits(v)'
    <3>1. RowFits(v) /\ vol[v].state # "absent" /\ inst' = inst /\ vol[v].action = att.action
      BY <1>1, <1>2 DEF Live
    <3>2. CASE att.action = "create"
      BY <1>2, <2>3, <2>4, <3>1, <3>2 DEF RowFits, Kept
    <3>3. CASE att.action \in {"attach", "resize"}
      BY <2>3, <2>4, <3>1, <3>3 DEF RowFits, Kept
    <3>. QED  BY <2>4, <3>2, <3>3
  <2>6. LocationFits(v)'
    BY <1>1, <1>2, <2>3, <2>4 DEF LocationFits, Kept, RowFits
  <2>7. RecordIsTrue(v)'
    BY <1>1, <1>2, <2>3, <2>4 DEF RecordIsTrue, Kept, Fresh, RowFits
  <2>8. /\ r.state \notin {"absent", "deleted"}
        /\ r.state \in {"available", "in-use"} => Kept(v)
        /\ r.state \in {"creating", "error"} => Fresh(v)
    BY <1>2, <2>3, <2>4 DEF Live, Kept, Fresh, RowFits
  <2>9. vol' = [vol EXCEPT ![v] = r]
    BY <2>1 DEF r
  <2>. QED  BY <1>3, <2>3, <2>5, <2>6, <2>7, <2>8, <2>9
<1>5. CASE vol' = [vol EXCEPT ![v].attempts = Tries(vol[v])]
  <2>. DEFINE r == [vol[v] EXCEPT !.attempts = Tries(vol[v])]
  <2>1. Tries(vol[v]) \in 0..MaxAttempts
    BY <1>1, <1>2, RowTyped, VolumesAssumption DEF Tries, Row
  <2>2. /\ r \in Row /\ r.loc = vol[v].loc /\ r.inst = vol[v].inst /\ r.device = vol[v].device
        /\ r.state = vol[v].state /\ r.action = vol[v].action /\ r.attachment = vol[v].attachment
    BY <1>1, <1>2, <2>1, RowTyped DEF Row
  <2>3. vol' = [vol EXCEPT ![v] = r] /\ vol'[v] = r
    BY <1>1, <1>2, <1>5 DEF TypeOK
  <2>. HIDE DEF r
  <2>4. /\ r.state \notin {"absent", "deleted"}
        /\ r.state \in {"available", "in-use"} => Kept(v)
        /\ r.state \in {"creating", "error"} => Fresh(v)
    BY <1>2, <2>2 DEF Live, Kept, Fresh
  <2>5. RowFits(v)' /\ LocationFits(v)'
    BY <1>1, <1>2, <2>2, <2>3, <2>4 DEF RowFits, LocationFits, Kept
  <2>6. RecordIsTrue(v)'
    BY <1>1, <1>2, <2>2, <2>3 DEF RecordIsTrue, Kept, Fresh
  <2>. QED  BY <1>3, <2>2, <2>3, <2>4, <2>5, <2>6
<1>. QED  BY <1>4, <1>5 DEF VolumeFails

LEMMA FinishKeeps == Consistent /\ FinishVolumeAction => Consistent'
<1> SUFFICES ASSUME Consistent, FinishVolumeAction PROVE Consistent'
  OBVIOUS
<1>1. /\ TypeOK /\ WorldIsSound /\ AttemptIsSound /\ StepKnows
      /\ att.step = "finish" /\ att.action # "terminate"
      /\ att' = Idle /\ inst' = inst
  BY DEF FinishVolumeAction, Consistent
<1>2. Works
  BY <1>1 DEF AttemptIsSound
<1>. PICK v \in Volume : v = att.vol
  BY <1>1, <1>2, OwnAttempt
<1>3. /\ Live(v) /\ vol[v].action = att.action /\ vol[v].inst = att.inst
      /\ att.action \in {"create", "attach", "detach", "resize", "delete"}
      /\ att.action = "create" <=> vol[v].state = "creating"
      /\ att.action = "delete" <=> vol[v].state = "deleting"
      /\ RowFits(v) /\ LocationFits(v) /\ RecordIsTrue(v) /\ Here = vol[v].loc
  BY <1>1, <1>2, OwnAttempt DEF WorldIsSound, Here
<1>. DEFINE r == Finished(vol[v], att.action)
<1>4. vol' = [vol EXCEPT ![v] = r]
  BY DEF FinishVolumeAction
<1>5. /\ r \in Row /\ r.loc = vol[v].loc /\ r.action = "none"
      /\ att.action = "create" => r.state = "available" /\ r.inst = vol[v].inst
                                  /\ r.attachment = vol[v].attachment
      /\ att.action = "attach" => r.state = "in-use" /\ r.attachment = "attached"
                                  /\ r.inst = vol[v].inst /\ r.device = vol[v].device
      /\ att.action = "detach" => r.state = "available" /\ r.attachment = "none" /\ r.inst = NoVm
      /\ att.action = "delete" => r.state = "deleted" /\ r.inst = vol[v].inst
                                  /\ r.attachment = vol[v].attachment
      /\ att.action = "resize" => r.state = vol[v].state /\ r.attachment = vol[v].attachment
                                  /\ r.inst = vol[v].inst /\ r.device = vol[v].device
  <2>1. vol[v] \in Row
    BY <1>1, RowTyped
  <2>2. CASE att.action = "create"
    BY <2>1, <2>2, Counts DEF Finished, Row, VolumeAction
  <2>3. CASE att.action = "attach"
    BY <2>1, <2>3, Counts DEF Finished, Row, VolumeAction
  <2>4. CASE att.action = "detach"
    BY <2>1, <2>4, Counts DEF Finished, Row, VolumeAction
  <2>5. CASE att.action = "delete"
    BY <2>1, <2>5, Counts DEF Finished, Row, VolumeAction
  <2>6. CASE att.action = "resize"
    BY <2>1, <2>6, Counts DEF Finished, Row, VolumeAction
  <2>. QED  BY <1>3, <2>2, <2>3, <2>4, <2>5, <2>6
<1>. HIDE DEF r
<1>6. vol'[v] = r /\ vol[v].state # "absent"
  BY <1>1, <1>3, <1>4 DEF TypeOK, Live
<1>7. ASSUME WorldIsSound', disks' \subseteq Disk PROVE Consistent'
  <2>1. TypeOK'
    BY <1>1, <1>4, <1>5, <1>7, IdleTyped DEF TypeOK
  <2>. QED  BY <1>1, <1>7, <2>1, AttemptOver
<1>8. CASE att.action = "create"
  <2>1. disks' = Written(v, vol[v].loc)
    BY <1>3, <1>8 DEF FinishVolumeAction
  <2>2. disks' \subseteq Disk
    BY <1>1, <2>1 DEF Written, TypeOK, Disk
  <2>3. vol[v].loc.toVm = NoVm /\ \E d \in disks : At(d, vol[v].loc)
    BY <1>1, <1>3, <1>8 DEF StepKnows, Held
  <2>4. vol[v].inst = NoVm /\ Fresh(v) /\ vol[v].attachment # "attached"
    BY <1>3, <1>8 DEF RowFits, Kept, Fresh
  <2>5. WorldIsSound'
    BY <1>1, <1>4, <1>5, <1>8, <2>1, <2>3, <2>4, DiskWritten
  <2>. QED  BY <1>7, <2>2, <2>5
<1>9. CASE att.action = "delete"
  <2>1. disks' = disks
    BY <1>9 DEF FinishVolumeAction
  <2>2. DiskNamed(vol[v].loc.vm, vol[v].loc.name) = {} /\ Arrived(v, vol[v].loc) = {}
    BY <1>1, <1>3, <1>9 DEF StepKnows
  <2>3. \A e \in disks : ~At(e, vol[v].loc)
    BY <2>2 DEF DiskNamed, At
  <2>4. NothingArrived(v)
    BY <2>2, VolumesAssumption DEF Arrived, DiskAt, NothingArrived, Arriving, Unclaimed, Claimed
  <2>5. ~Kept(v) /\ vol[v].inst = NoVm
    BY <1>3, <1>9 DEF RowFits, Kept
  <2>6. RowFits(v)' /\ LocationFits(v)' /\ RecordIsTrue(v)'
    BY <1>3, <1>5, <1>6, <1>9, <2>5 DEF RowFits, LocationFits, RecordIsTrue, Kept, Fresh
  <2>7. WorldIsSound'
    BY <1>1, <1>4, <1>5, <1>9, <2>1, <2>3, <2>4, <2>5, <2>6, RowWithoutDisk
  <2>. QED  BY <1>1, <1>7, <2>1, <2>7 DEF TypeOK
<1>10. CASE att.action \in {"attach", "detach", "resize"}
  <2>1. disks' = disks
    BY <1>10 DEF FinishVolumeAction
  <2>2. Kept(v)
    BY <1>1, <1>2, <1>10, OwnAttempt
  <2>3. RowFits(v)'
    <3>1. vol[v].state = "available" \/ vol[v].state = "in-use"
      BY <2>2 DEF Kept
    <3>. QED  BY <1>1, <1>3, <1>5, <1>6, <1>10, <3>1 DEF RowFits, Kept
  <2>4. att.action = "detach" => /\ vol[v].loc.vm = Holder /\ vol[v].loc.toVm = NoVm
                                 /\ \E d \in disks : At(d, vol[v].loc)
    BY <1>1, <1>3 DEF StepKnows, Held
  <2>5. att.action = "attach" =>
           \E d \in disks : /\ At(d, vol[v].loc) /\ d.vm = vol[v].inst
                            /\ d.key = <<"plugged", vol[v].device>>
    BY <1>1, <1>3 DEF StepKnows, PluggedIn
  <2>6. LocationFits(v)'
    BY <1>3, <1>5, <1>6, <1>10, <2>2, <2>4, VolumesAssumption DEF LocationFits, Kept
  <2>7. RecordIsTrue(v)'
    <3>1. CASE att.action = "attach"
      BY <1>5, <1>6, <2>1, <2>5, <3>1 DEF RecordIsTrue, Kept, Fresh
    <3>2. CASE att.action = "detach"
      BY <1>5, <1>6, <2>1, <2>4, <3>2 DEF RecordIsTrue, Kept, Fresh
    <3>3. CASE att.action = "resize"
      BY <1>1, <1>3, <1>5, <1>6, <2>1, <3>3 DEF RecordIsTrue, Kept, Fresh
    <3>. QED  BY <1>10, <3>1, <3>2, <3>3
  <2>8. /\ r.state \notin {"absent", "deleted"}
        /\ r.state \notin {"creating", "error"}
    BY <1>5, <1>10, <2>2 DEF Kept
  <2>9. WorldIsSound'
    BY <1>1, <1>3, <1>4, <1>5, <2>1, <2>2, <2>3, <2>6, <2>7, <2>8, RowChanged
  <2>. QED  BY <1>1, <1>7, <2>1, <2>9 DEF TypeOK
<1>. QED  BY <1>3, <1>8, <1>9, <1>10

LEMMA FinishTerminateKeeps == Consistent /\ FinishTerminate => Consistent'
<1> SUFFICES ASSUME Consistent, FinishTerminate PROVE Consistent'
  OBVIOUS
<1>1. /\ TypeOK /\ WorldIsSound /\ AttemptIsSound
      /\ att.step = "finish" /\ att.action = "terminate"
      /\ att' = Idle /\ UNCHANGED <<vol, disks>>
      /\ inst' = [inst EXCEPT ![att.inst] = "terminated"]
  BY DEF FinishTerminate, Consistent
<1>2. \A u \in Volume : vol[u].inst # att.inst
  BY <1>1, VolumesAssumption DEF AttemptIsSound, Works
<1>3. \A u \in Volume : vol[u].inst # NoVm => inst'[vol[u].inst] = inst[vol[u].inst]
  BY <1>1, <1>2, RowTyped DEF TypeOK
<1>4. WorldIsSound'
  BY <1>1, <1>3, InstancesMoved
<1>5. TypeOK'
  BY <1>1, IdleTyped DEF TypeOK
<1>. QED  BY <1>1, <1>4, <1>5, AttemptOver

-----------------------------------------------------------------------------
(* An attempt goes on                                                       *)

\* The steps of each action.
StepFits(action, s) ==
    /\ s \in {"reserve", "allocate", "found"} => action = "create"
    /\ s \in {"aim", "move", "moved"} => action \in {"attach", "detach", "terminate"}
    /\ s \in {"unlink", "unlinked"} => action # "delete"
    /\ s \in {"plug", "recordPlug", "giveUp"} => action \in {"attach", "resize"}
    /\ s = "resize" => action = "resize"
    /\ s = "destroy" => action = "delete"
    /\ s = "returned" => action = "terminate"
    /\ s = "finish" => action # "terminate"

LEMMA StepSound ==
  ASSUME Consistent, Works, NEW s \in Step \ {"idle", "next"}, StepFits(att.action, s),
         att' = [att EXCEPT !.step = s], inst' = inst,
         \A u \in Volume : vol'[u].inst = vol[u].inst /\ vol'[u].action = vol[u].action
  PROVE  AttemptIsSound'
<1>1. /\ att'.step = s /\ att'.action = att.action /\ att'.vol = att.vol
      /\ att'.inst = att.inst /\ att'.todo = att.todo
  BY AttemptTyped DEF Consistent, Attempt
<1>2. att.vol \in Volume /\ AttemptIsSound /\ att.vol # NoVolume
  BY AttemptTyped DEF Consistent, Works
<1>3. att' # Idle
  BY <1>1 DEF Idle
<1>. QED  BY <1>1, <1>2, <1>3 DEF AttemptIsSound, Works, StepFits

\* What an attempt's write of a location does.
LEMMA Recorded ==
  ASSUME Consistent, Works, NEW l \in Location, NEW s \in Step, Record(l, s)
  PROVE  /\ vol' = [vol EXCEPT ![att.vol].loc = l] /\ inst' = inst /\ disks' = disks
         /\ att' = [att EXCEPT !.step = s]
         /\ att'.step = s /\ att'.action = att.action /\ att'.vol = att.vol /\ att'.inst = att.inst
         /\ Here' = l /\ vol'[att.vol].device = vol[att.vol].device
         /\ \A u \in Volume : /\ vol'[u].inst = vol[u].inst /\ vol'[u].action = vol[u].action
                              /\ (Live(u)' <=> Live(u)) /\ (Kept(u)' <=> Kept(u))
         /\ \A u \in Volume \ {att.vol} : vol'[u] = vol[u]
         /\ TypeOK'
<1>1. att.vol \in Volume /\ TypeOK /\ att \in Attempt
  BY AttemptTyped DEF Consistent
<1>2. /\ vol' = [vol EXCEPT ![att.vol].loc = l] /\ inst' = inst /\ disks' = disks
      /\ att' = [att EXCEPT !.step = s]
  BY DEF Record
<1>3. /\ att'.step = s /\ att'.action = att.action /\ att'.vol = att.vol /\ att'.inst = att.inst
      /\ att' \in Attempt
  BY <1>1, <1>2 DEF Attempt
<1>4. /\ vol'[att.vol] = [vol[att.vol] EXCEPT !.loc = l] /\ vol[att.vol] \in Row
      /\ \A u \in Volume \ {att.vol} : vol'[u] = vol[u]
  BY <1>1, <1>2, RowTyped DEF TypeOK
<1>5. /\ vol'[att.vol].inst = vol[att.vol].inst /\ vol'[att.vol].action = vol[att.vol].action
      /\ vol'[att.vol].state = vol[att.vol].state /\ vol'[att.vol].device = vol[att.vol].device
      /\ vol'[att.vol].loc = l /\ vol'[att.vol] \in Row
  BY <1>4 DEF Row
<1>6. TypeOK'
  BY <1>1, <1>2, <1>3, <1>5 DEF TypeOK
<1>. QED  BY <1>2, <1>3, <1>4, <1>5, <1>6 DEF Here, Live, Kept

\* A disk that is to be moved, or on the holder and unplugged.
LEMMA AfterUnplugKnows ==
  ASSUME Consistent, Works, NEW l \in Location, NEW s,
         s = AfterUnplug(l) \/ s = "unlink", att.action # "delete",
         att' = [att EXCEPT !.step = s], inst' = inst, Here' = l,
         \A u \in Volume : vol'[u].inst = vol[u].inst /\ vol'[u].action = vol[u].action,
         l.toVm = NoVm, l.vm \in VM, \E d \in disks' : At(d, l),
         att.action \in {"create", "resize"} => l.vm = Holder
  PROVE  s \in Step /\ AttemptIsSound' /\ StepKnows'
<1>1. /\ att'.step = s /\ att'.action = att.action /\ att'.vol = att.vol /\ att'.inst = att.inst
  BY AttemptTyped DEF Consistent, Attempt
<1>2. Held'
  BY DEF Held
<1>3. att.action \in {"create", "attach", "detach", "resize", "terminate"}
  BY OwnAttempt
<1>4. /\ s \in {"unlink", "aim", "finish"}
      /\ s = "aim" => att.action \in {"attach", "detach", "terminate"}
      /\ s = "finish" => att.action \in {"create", "detach", "resize"} /\ l.vm = Holder
  BY <1>3 DEF AfterUnplug
<1>5. s \in Step \ {"idle", "next"} /\ StepFits(att.action, s)
  BY <1>3, <1>4 DEF StepFits, Step
<1>6. AttemptIsSound'
  BY <1>5, StepSound
<1>7. StepKnows'
  BY <1>1, <1>2, <1>4 DEF StepKnows
<1>. QED  BY <1>5, <1>6, <1>7

\* A disk on the VM it is to be attached to.
LEMMA ThenPlugKnows ==
  ASSUME Consistent, Works, att.action = "attach", NEW l \in Location,
         NEW d \in disks, At(d, l), l.key = d.key, l.toVm = NoVm, l.vm = att.inst,
         att' = [att EXCEPT !.step = ThenPlug(l)], inst' = inst, disks' = disks, Here' = l,
         vol'[att.vol].device = vol[att.vol].device,
         \A u \in Volume : vol'[u].inst = vol[u].inst /\ vol'[u].action = vol[u].action
  PROVE  ThenPlug(l) \in Step /\ AttemptIsSound' /\ StepKnows'
<1>1. /\ att'.step = ThenPlug(l) /\ att'.action = att.action /\ att'.vol = att.vol
      /\ att'.inst = att.inst
  BY AttemptTyped DEF Consistent, Attempt
<1>2. Held'
  BY DEF Held
<1>3. /\ ThenPlug(l) \in {"finish", "giveUp", "plug"}
      /\ ThenPlug(l) = "finish" => d.key = <<"plugged", vol[att.vol].device>>
      /\ ThenPlug(l) = "plug" => DeviceFree
  BY DEF ThenPlug, DeviceFree
<1>4. ThenPlug(l) \in Step \ {"idle", "next"} /\ StepFits(att.action, ThenPlug(l))
  BY <1>3 DEF StepFits, Step
<1>5. AttemptIsSound'
  BY <1>4, StepSound
<1>6. ThenPlug(l) = "finish" => PluggedIn'
  BY <1>1, <1>3 DEF PluggedIn, At
<1>7. ThenPlug(l) = "plug" => DeviceFree'
  BY <1>1, <1>3 DEF DeviceFree, DiskAt
<1>8. StepKnows'
  BY <1>1, <1>2, <1>3, <1>6, <1>7 DEF StepKnows
<1>. QED  BY <1>4, <1>5, <1>8

\* What locate finds: the attempt's disk, or a volume that has none.
LEMMA LocateFinds ==
  ASSUME Consistent, Works, Live(att.vol), ~Missing(att.vol, Here)
  PROVE  \/ \E d \in disks : Located(att.vol, Here) = Settle(d) /\ Finds(att.vol, d)
         \/ /\ Located(att.vol, Here) = Here /\ Here.name = NoSlot
            /\ Arrived(att.vol, Here) = {}
<1>. DEFINE v == att.vol
            l == Here
<1>1. v \in Volume /\ v # NoVolume /\ TypeOK /\ Here = vol[v].loc
  BY AttemptTyped DEF Consistent, Works, Here
<1>2. /\ PlacesDiffer /\ RowFits(v) /\ LocationFits(v) /\ HasData(v)
      /\ \A e \in disks : NotMistaken(e) /\ DataFindable(e) /\ BlankFindable(e)
  BY <1>1 DEF Consistent, WorldIsSound
<1>3. CASE DiskNamed(l.vm, l.name) # {}
  <2>1. The(DiskNamed(l.vm, l.name)) \in DiskNamed(l.vm, l.name)
    BY <1>3 DEF The
  <2>. QED  BY <1>1, <1>3, <2>1 DEF Located, Finds, At, DiskNamed
<1>4. CASE DiskNamed(l.vm, l.name) = {} /\ Arrived(v, l) # {}
  <2>1. PICK d \in Arrived(v, l) : d = The(Arrived(v, l))
    BY <1>4 DEF The
  <2>2. Located(v, l) = Settle(d)
    BY <1>4, <2>1 DEF Located
  <2>3. /\ d \in disks /\ Arriving(d, l) /\ d.vm # NoVm /\ d.data \in Volume \cup {NoVolume}
        /\ d.name # NoSlot /\ l.toVm # NoVm
    BY <1>1, <2>1, DiskTyped DEF Arrived, DiskAt, Arriving
  <2>4. Unclaimed(d)
    BY <1>1, <1>4, <2>1, <2>3 DEF Arrived, Unclaimed, Claimed, DiskNamed
  <2>5. \A u \in Volume : Live(u) => ~At(d, vol[u].loc)
    BY <2>4, VolumesAssumption DEF Unclaimed, Claimed, At
  <2>6. d.data # NoVolume => Arriving(d, vol[d.data].loc) /\ d.key[1] = "unused"
    BY <1>2, <2>3, <2>5 DEF DataFindable
  <2>7. CASE l.name = NoSlot
    <3>1. d.key[1] = "plugged"
      BY <1>1, <1>2, <2>3, <2>7 DEF LocationFits, Arriving
    <3>. QED  BY <1>1, <2>2, <2>3, <2>4, <2>6, <2>7, <3>1 DEF Finds
  <2>8. CASE l.name # NoSlot
    <3>1. d.key[1] = "unused" /\ vol[v].inst # NoVm
      BY <1>1, <1>2, <2>3, <2>8 DEF LocationFits, Arriving
    <3>2. PICK e \in disks : e.data = v
      BY <1>2, <3>1 DEF RowFits, HasData
    <3>3. Arriving(e, l)
      BY <1>1, <1>2, <1>4, <3>2 DEF DataFindable, DiskNamed, At
    <3>4. e = d
      BY <1>2, <2>3, <3>3 DEF PlacesDiffer, Arriving
    <3>. QED  BY <1>1, <2>2, <2>3, <2>4, <3>2, <3>4 DEF Finds
  <2>. QED  BY <2>7, <2>8
<1>5. CASE DiskNamed(l.vm, l.name) = {} /\ Arrived(v, l) = {}
  BY <1>5 DEF Located, Missing
<1>. QED  BY <1>3, <1>4, <1>5

LEMMA SettleTyped ==
  ASSUME TypeOK, NEW d \in disks
  PROVE  /\ Settle(d) \in Location
         /\ Settle(d).vm = d.vm /\ Settle(d).key = d.key /\ Settle(d).name = d.name
         /\ Settle(d).toVm = NoVm /\ Settle(d).vm \in VM /\ Settle(d).name # NoSlot
BY DiskTyped DEF Settle, Location

\* Where the disk of a volume that is on no instance can be.
LEMMA OnHolder ==
  ASSUME Consistent, NEW v \in Volume, NEW l, l.vm \in VM,
         LocationFits(v)', vol'[v].loc = l, vol'[v].inst = vol[v].inst
  PROVE  /\ l.vm \in {Holder, vol[v].inst}
         /\ ~Kept(v) => l.vm = Holder
<1>1. RowFits(v) /\ l.vm # NoVm
  BY VolumesAssumption DEF Consistent, WorldIsSound, VM
<1>. QED  BY <1>1 DEF LocationFits, RowFits

LEMMA LocateKeeps == Consistent /\ Locate => Consistent'
<1> SUFFICES ASSUME Consistent, Locate PROVE Consistent'
  OBVIOUS
<1>. DEFINE l == Located(att.vol, Here)
            s == AfterLocate(l)
<1>1. /\ att.step = "locate" /\ ~Missing(att.vol, Here) /\ Record(l, s)
      /\ TypeOK /\ WorldIsSound /\ AttemptIsSound
  BY DEF Locate, Consistent
<1>2. /\ Works /\ att.vol \in Volume /\ att.vol # NoVolume /\ Live(att.vol)
      /\ att.inst \in Instance \cup {NoVm}
  BY <1>1, OwnAttempt, Returning, AttemptTyped DEF AttemptIsSound
<1>. PICK v \in Volume : v = att.vol
  BY <1>2
<1>3. Here = vol[v].loc /\ RowFits(v)
  BY <1>1 DEF Here, WorldIsSound
<1>4. /\ att.action \in {"create", "attach", "detach", "resize", "delete", "terminate"}
      /\ att.action \in {"create", "delete"} => ~Kept(v)
      /\ vol[v].inst = att.inst
  BY <1>2, OwnAttempt, Returning
<1>5. CASE \E d \in disks : l = Settle(d) /\ Finds(v, d)
  <2>1. PICK d \in disks : l = Settle(d) /\ Finds(v, d)
    BY <1>5
  <2>2. /\ l \in Location /\ l.toVm = NoVm /\ l.vm \in VM /\ l.name # NoSlot
        /\ l.vm = d.vm /\ l.key = d.key /\ l.name = d.name /\ At(d, l)
    BY <1>1, <2>1, SettleTyped DEF At
  <2>. HIDE DEF l
  <2>3. l.vm # NoVm
    BY <2>2, VolumesAssumption DEF VM
  <2>4. /\ att.action = "create" => s = ThenUnplug(l)
        /\ att.action = "attach" => s = IF l.vm = att.inst THEN ThenPlug(l) ELSE ThenUnplug(l)
        /\ att.action = "detach" => s = ThenUnplug(l)
        /\ att.action = "terminate" => s = IF l.vm = att.inst THEN ThenUnplug(l) ELSE "returned"
        /\ att.action = "delete" => s = "destroy"
        /\ att.action = "resize" =>
              \/ s \in {"resize", "plug"} \/ s = "finish"
              \/ s = ThenUnplug(l) /\ l.vm = Holder
    BY <2>2, <2>3 DEF AfterLocate, ThenResize
  <2>5. ThenUnplug(l) = AfterUnplug(l) \/ ThenUnplug(l) = "unlink"
    BY DEF ThenUnplug
  <2>6. s \in Step
    BY <1>4, <2>4 DEF ThenUnplug, AfterUnplug, ThenPlug, Step
  <2>. HIDE DEF s
  <2>7. /\ vol' = [vol EXCEPT ![v].loc = l] /\ inst' = inst /\ disks' = disks
        /\ att' = [att EXCEPT !.step = s]
        /\ att'.step = s /\ att'.action = att.action /\ att'.vol = v /\ att'.inst = att.inst
        /\ Here' = l /\ vol'[v].loc = l /\ vol'[v].device = vol[v].device
        /\ \A u \in Volume : vol'[u].inst = vol[u].inst /\ vol'[u].action = vol[u].action
        /\ TypeOK'
    BY <1>1, <1>2, <2>2, <2>6, Recorded DEF Here
  <2>8. WorldIsSound'
    BY <1>1, <1>2, <2>1, <2>2, <2>7, DiskRecorded
  <2>9. l.vm \in {Holder, att.inst} /\ (~Kept(v) => l.vm = Holder)
    <3>1. LocationFits(v)' /\ vol'[v].inst = vol[v].inst
      BY <2>7, <2>8 DEF WorldIsSound
    <3>. QED  BY <1>4, <2>2, <2>7, <3>1, OnHolder
  <2>10. Held'
    BY <2>2, <2>7 DEF Held
  <2>11. AttemptIsSound' /\ StepKnows'
    <3>1. CASE /\ s = AfterUnplug(l) \/ s = "unlink"
               /\ att.action # "delete" /\ (att.action \in {"create", "resize"} => l.vm = Holder)
      BY <1>2, <2>2, <2>7, <3>1, AfterUnplugKnows
    <3>2. CASE att.action = "attach" /\ l.vm = att.inst /\ s = ThenPlug(l)
      BY <1>2, <2>2, <2>7, <3>2, ThenPlugKnows
    <3>3. CASE \/ att.action = "terminate" /\ s = "returned" /\ l.vm = Holder
               \/ att.action = "delete" /\ s = "destroy"
               \/ att.action = "resize" /\ s \in {"resize", "plug", "finish"}
      <4>1. s \in Step \ {"idle", "next"} /\ StepFits(att.action, s)
        BY <3>3 DEF StepFits, Step
      <4>2. AttemptIsSound'
        BY <1>2, <2>7, <4>1, StepSound
      <4>3. StepKnows'
        BY <2>7, <2>10, <3>3 DEF StepKnows
      <4>. QED  BY <4>2, <4>3
    <3>. QED  BY <1>4, <2>4, <2>5, <2>9, <3>1, <3>2, <3>3
  <2>. QED  BY <2>7, <2>8, <2>11 DEF Consistent
<1>6. CASE l = Here /\ Here.name = NoSlot /\ Arrived(v, Here) = {}
  <2>1. /\ att.action \in {"create", "delete"} /\ Here.vm = NoVm
    <3>1. ~Kept(v) /\ Here.vm = NoVm
      BY <1>1, <1>3, <1>6 DEF WorldIsSound, LocationFits
    <3>. QED  BY <1>2, <1>4, <3>1, OwnAttempt, Returning
  <2>2. /\ att.action = "create" => s = "reserve"
        /\ att.action = "delete" => s = "finish"
    BY <1>6 DEF AfterLocate
  <2>3. s \in Step \ {"idle", "next"} /\ StepFits(att.action, s) /\ s \in {"reserve", "finish"}
    BY <2>1, <2>2 DEF StepFits, Step
  <2>. HIDE DEF s
  <2>4. Record(Here, s) /\ Here \in Location
    BY <1>1, <1>2, <1>3, <1>6, RowTyped
  <2>. HIDE DEF l
  <2>5. /\ vol' = [vol EXCEPT ![v].loc = Here] /\ inst' = inst /\ disks' = disks
        /\ att' = [att EXCEPT !.step = s]
        /\ att'.step = s /\ att'.action = att.action /\ att'.vol = v
        /\ Here' = Here /\ TypeOK'
        /\ \A u \in Volume : vol'[u].inst = vol[u].inst /\ vol'[u].action = vol[u].action
    BY <1>2, <2>3, <2>4, Recorded
  <2>6. vol' = vol
    BY <1>1, <1>3, <2>5, RowTyped DEF TypeOK, Row
  <2>7. WorldIsSound'
    BY <1>1, <2>5, <2>6, WorldSame
  <2>8. AttemptIsSound'
    BY <1>2, <2>3, <2>5, StepSound
  <2>9. DiskNamed(Here.vm, Here.name) = {} /\ Arrived(v, Here) = {}
    BY <1>1, <1>6, DiskTyped DEF DiskNamed
  <2>10. /\ DiskNamed(Here.vm, Here.name)' = {}
         /\ Arrived(att.vol, Here)' = {}
         /\ Here'.name = NoSlot
    <3>1. \A vm, n, u : Claimed(vm, n, u)' <=> Claimed(vm, n, u)
      BY <2>5, <2>6, RowsUnchanged
    <3>. QED  BY <1>6, <2>5, <2>9, <3>1 DEF DiskNamed, Arrived, DiskAt
  <2>11. StepKnows'
    BY <2>1, <2>2, <2>3, <2>5, <2>10 DEF StepKnows
  <2>. QED  BY <2>5, <2>7, <2>8, <2>11 DEF Consistent
<1>. QED  BY <1>1, <1>2, <1>5, <1>6, LocateFinds

\* A step that changes nothing outside the attempt.
LEMMA OnlyStep ==
  ASSUME Consistent, Works, NEW s \in Step \ {"idle", "next"}, StepFits(att.action, s),
         att' = [att EXCEPT !.step = s], UNCHANGED <<vol, inst, disks>>, StepKnows'
  PROVE  Consistent'
<1>1. AttemptIsSound'
  BY StepSound
<1>2. TypeOK'
  BY AttemptTyped DEF Consistent, TypeOK
<1>3. WorldIsSound'
  BY WorldSame DEF Consistent
<1>. QED  BY <1>1, <1>2, <1>3 DEF Consistent

LEMMA LocateRefusedKeeps == Consistent /\ LocateRefused => Consistent'
<1> SUFFICES ASSUME Consistent, LocateRefused PROVE Consistent'
  OBVIOUS
<1>1. /\ att.step = "locate" /\ att.action = "attach" /\ Works
      /\ att' = [att EXCEPT !.step = "giveUp"] /\ UNCHANGED <<vol, inst, disks>>
  BY DEF LocateRefused, Refused, Consistent, AttemptIsSound
<1>2. StepKnows'
  BY <1>1, AttemptTyped DEF StepKnows, Consistent, Attempt
<1>3. "giveUp" \in Step \ {"idle", "next"} /\ StepFits(att.action, "giveUp")
  BY <1>1 DEF Step, StepFits
<1>. QED  BY <1>1, <1>2, <1>3, OnlyStep

LEMMA LocateDestroyedKeeps == Consistent /\ LocateDestroyed => Consistent'
<1> SUFFICES ASSUME Consistent, LocateDestroyed PROVE Consistent'
  OBVIOUS
<1>1. /\ att.step = "locate" /\ att.action = "delete" /\ Works
      /\ att' = [att EXCEPT !.step = "finish"] /\ UNCHANGED <<vol, inst, disks>>
      /\ DiskNamed(Here.vm, Here.name) = {} /\ Arrived(att.vol, Here) = {}
  BY DEF LocateDestroyed, Missing, Consistent, AttemptIsSound
<1>2. /\ att'.step = "finish" /\ att'.action = "delete" /\ att'.vol = att.vol
  BY <1>1, AttemptTyped DEF Consistent, Attempt
<1>3. DiskNamed(Here.vm, Here.name)' = {} /\ Arrived(att.vol, Here)' = {}
  <2>1. \A vm, n, u : Claimed(vm, n, u)' <=> Claimed(vm, n, u)
    BY <1>1, RowsUnchanged
  <2>. QED  BY <1>1, <1>2, <2>1 DEF Here, DiskNamed, Arrived, DiskAt
<1>4. StepKnows'
  BY <1>2, <1>3 DEF StepKnows
<1>5. "finish" \in Step \ {"idle", "next"} /\ StepFits(att.action, "finish")
  BY <1>1 DEF Step, StepFits
<1>. QED  BY <1>1, <1>4, <1>5, OnlyStep

-----------------------------------------------------------------------------
(* Creating                                                                 *)

\* The destination of a disk is written where no disk is on its way.
LEMMA AimedAt ==
  ASSUME Consistent, Works, NEW v \in Volume, v = att.vol, NEW l \in Location, NEW s \in Step,
         Record(l, s), Live(v), NothingArrived(v),
         l.vm = Here.vm, l.name = Here.name, l.toVm \in {Holder, vol[v].inst},
         l.toKey[1] = IF l.name = NoSlot THEN "plugged" ELSE "unused",
         l.name = NoSlot \/ vol[v].inst # NoVm, ~Steady(v)
  PROVE  WorldIsSound'
<1>1. /\ TypeOK /\ WorldIsSound /\ Here = vol[v].loc
      /\ RowFits(v) /\ LocationFits(v) /\ RecordIsTrue(v)
  BY DEF Consistent, WorldIsSound, Here
<1>. DEFINE r == [vol[v] EXCEPT !.loc = l]
<1>2. /\ r \in Row /\ r.loc = l /\ r.state = vol[v].state /\ r.inst = vol[v].inst
      /\ r.action = vol[v].action /\ r.device = vol[v].device
      /\ r.attachment = vol[v].attachment
  BY <1>1, RowTyped DEF Row
<1>3. vol' = [vol EXCEPT ![v] = r] /\ inst' = inst /\ disks' = disks /\ vol'[v] = r
  BY <1>1 DEF Record, TypeOK
<1>. HIDE DEF r
<1>4. RowFits(v)'
  BY <1>1, <1>2, <1>3 DEF RowFits, Kept, Live
<1>5. LocationFits(v)'
  BY <1>1, <1>2, <1>3, VolumesAssumption DEF LocationFits, Kept
<1>6. RecordIsTrue(v)'
  BY <1>1, <1>2, <1>3 DEF RecordIsTrue, Kept, Fresh, Steady, At
<1>7. /\ r.state \notin {"absent", "deleted"}
      /\ r.state \in {"available", "in-use"} => Kept(v)
      /\ r.state \in {"creating", "error"} => Fresh(v)
  BY <1>2 DEF Live, Kept, Fresh
<1>. QED  BY <1>1, <1>2, <1>3, <1>4, <1>5, <1>6, <1>7, RowChanged

LEMMA ReserveKeeps == Consistent /\ Reserve => Consistent'
<1> SUFFICES ASSUME Consistent, Reserve PROVE Consistent'
  OBVIOUS
<1>. DEFINE key == <<"plugged", Lowest(FreeSlots(Holder, "plugged"))>>
            l == [Nowhere EXCEPT !.toVm = Holder, !.toKey = key]
<1>1. /\ att.step = "reserve" /\ Record(l, "allocate") /\ att.action = "create" /\ Works
      /\ Here.name = NoSlot /\ Arrived(att.vol, Here) = {}
  BY DEF Reserve, Consistent, AttemptIsSound, StepKnows
<1>. PICK v \in Volume : v = att.vol
  BY <1>1, OwnAttempt
<1>2. /\ v # NoVolume /\ Live(v) /\ vol[v].state = "creating" /\ ~Steady(v)
      /\ Here = vol[v].loc /\ LocationFits(v)
  BY <1>1, OwnAttempt DEF Steady, Here, Consistent, WorldIsSound
<1>3. key \in Key /\ DiskAt(Holder, key) = {}
  BY FreeSlot DEF Reserve, Key
<1>4. /\ l \in Location /\ l.name = NoSlot /\ l.vm = NoVm /\ l.toVm = Holder /\ l.toKey = key
  BY <1>3 DEF Nowhere, Location, VM
<1>5. l.toKey[1] = "plugged"
  BY <1>4
<1>. HIDE DEF key, l
<1>6. NothingArrived(v)
  BY <1>1, <1>2, VolumesAssumption DEF Arrived, DiskAt, NothingArrived, Arriving, Unclaimed, Claimed
<1>7. "allocate" \in Step \ {"idle", "next"} /\ StepFits(att.action, "allocate")
  BY <1>1 DEF Step, StepFits
<1>8. WorldIsSound'
  BY <1>1, <1>2, <1>4, <1>5, <1>6, <1>7, AimedAt DEF LocationFits
<1>9. /\ Here' = l /\ disks' = disks /\ inst' = inst /\ att' = [att EXCEPT !.step = "allocate"]
      /\ att'.step = "allocate" /\ att'.action = "create" /\ TypeOK'
      /\ \A u \in Volume : vol'[u].inst = vol[u].inst /\ vol'[u].action = vol[u].action
  BY <1>1, <1>4, <1>7, Recorded
<1>10. AttemptIsSound'
  BY <1>1, <1>7, <1>9, StepSound
<1>11. StepKnows'
  BY <1>3, <1>4, <1>9 DEF StepKnows, DiskAt
<1>. QED  BY <1>8, <1>9, <1>10, <1>11 DEF Consistent

\* What a change of disks does to the attempt.
LEMMA Changed ==
  ASSUME Consistent, Works, NEW s \in Step \ {"idle", "next"}, StepFits(att.action, s),
         att' = [att EXCEPT !.step = s], UNCHANGED <<vol, inst>>
  PROVE  /\ att'.step = s /\ att'.action = att.action /\ att'.vol = att.vol /\ att'.inst = att.inst
         /\ Here' = Here /\ Target' = Target /\ AttemptIsSound'
         /\ \A vm, n, u : Claimed(vm, n, u)' <=> Claimed(vm, n, u)
         /\ disks' \subseteq Disk => TypeOK'
<1>1. /\ att'.step = s /\ att'.action = att.action /\ att'.vol = att.vol /\ att'.inst = att.inst
      /\ att' \in Attempt
  BY AttemptTyped DEF Consistent, Attempt
<1>2. AttemptIsSound'
  BY StepSound
<1>3. \A vm, n, u : Claimed(vm, n, u)' <=> Claimed(vm, n, u)
  BY RowsUnchanged
<1>. QED  BY <1>1, <1>2, <1>3 DEF Here, Target, TypeOK, Consistent

LEMMA AllocateKeeps == Consistent /\ NamesApart /\ Allocate => Consistent'
<1> SUFFICES ASSUME Consistent, NamesApart, Allocate PROVE Consistent'
  OBVIOUS
<1>. DEFINE n == [vm |-> Holder, key |-> Here.toKey, name |-> Lowest(FreeNames(Holder)),
                  data |-> NoVolume, size |-> vol[att.vol].size]
<1>1. /\ att.step = "allocate" /\ att.action = "create" /\ Works
      /\ disks' = disks \cup {n} /\ att' = [att EXCEPT !.step = "found"]
      /\ UNCHANGED <<vol, inst>>
      /\ Here.name = NoSlot /\ Here.toVm = Holder /\ DiskAt(Holder, Here.toKey) = {}
      /\ TypeOK /\ WorldIsSound
  BY DEF Allocate, Consistent, AttemptIsSound, StepKnows
<1>. PICK v \in Volume : v = att.vol
  BY <1>1, OwnAttempt
<1>2. /\ Live(v) /\ Here = vol[v].loc /\ LocationFits(v) /\ vol[v].loc \in Location
      /\ vol[v].size \in 1..MaxSize
  BY <1>1, OwnAttempt, RowTyped DEF Here, WorldIsSound, Row
<1>3. /\ Lowest(FreeNames(Holder)) \in Slot
      /\ DiskNamed(Holder, Lowest(FreeNames(Holder))) = {}
      /\ ~Claimed(Holder, Lowest(FreeNames(Holder)), NoVolume)
  BY <1>1, <1>2, FreeName DEF Allocate
<1>4. Here.toKey \in Key
  BY <1>1, <1>2, VolumesAssumption DEF LocationFits, Location, NoKey
<1>5. /\ n \in Disk /\ n.vm = Holder /\ n.key = Here.toKey /\ n.data = NoVolume
      /\ n.name = Lowest(FreeNames(Holder))
  BY <1>2, <1>3, <1>4 DEF Disk, VM
<1>. HIDE DEF n
<1>6. Arriving(n, Here) /\ Unclaimed(n)
  BY <1>1, <1>3, <1>5 DEF Arriving, Unclaimed
<1>7. WorldIsSound'
  BY <1>1, <1>2, <1>3, <1>5, <1>6, DiskAdded
<1>8. "found" \in Step \ {"idle", "next"} /\ StepFits(att.action, "found")
  BY <1>1 DEF Step, StepFits
<1>9. /\ att'.step = "found" /\ att'.action = "create" /\ Here' = Here /\ AttemptIsSound'
      /\ \A vm, m, u : Claimed(vm, m, u)' <=> Claimed(vm, m, u)
      /\ TypeOK'
  BY <1>1, <1>5, <1>8, Changed DEF TypeOK
<1>10. StepKnows'
  BY <1>1, <1>5, <1>6, <1>9 DEF StepKnows, Arriving, Unclaimed
<1>. QED  BY <1>7, <1>9, <1>10 DEF Consistent

LEMMA FindAllocatedKeeps == Consistent /\ FindAllocated => Consistent'
<1> SUFFICES ASSUME Consistent, FindAllocated PROVE Consistent'
  OBVIOUS
<1>. DEFINE l == Located(att.vol, Here)
            s == ThenUnplug(l)
<1>1. /\ att.step = "found" /\ l.name # NoSlot /\ Record(l, s) /\ att.action = "create" /\ Works
      /\ Here.name = NoSlot /\ TypeOK /\ WorldIsSound
  BY DEF FindAllocated, Consistent, AttemptIsSound, StepKnows
<1>. PICK v \in Volume : v = att.vol
  BY <1>1, OwnAttempt
<1>2. /\ Live(v) /\ ~Kept(v) /\ Here = vol[v].loc
  BY <1>1, OwnAttempt DEF Here
<1>3. PICK d \in disks : l = Settle(d) /\ Finds(v, d)
  BY <1>1, <1>2, LocateFinds DEF Missing
<1>4. /\ l \in Location /\ l.toVm = NoVm /\ l.vm \in VM
      /\ l.vm = d.vm /\ l.name = d.name /\ At(d, l)
  BY <1>1, <1>3, SettleTyped DEF At
<1>. HIDE DEF l
<1>5. s = AfterUnplug(l) \/ s = "unlink"
  BY DEF ThenUnplug
<1>6. s \in Step
  BY <1>1, <1>5 DEF AfterUnplug, Step
<1>. HIDE DEF s
<1>7. /\ vol' = [vol EXCEPT ![v].loc = l] /\ inst' = inst /\ disks' = disks
      /\ att' = [att EXCEPT !.step = s]
      /\ Here' = l /\ vol'[v].loc = l /\ TypeOK'
      /\ \A u \in Volume : vol'[u].inst = vol[u].inst /\ vol'[u].action = vol[u].action
  BY <1>1, <1>4, <1>6, Recorded DEF Here
<1>8. WorldIsSound'
  BY <1>1, <1>2, <1>3, <1>4, <1>7, DiskRecorded
<1>9. l.vm = Holder
  <2>1. LocationFits(v)' /\ vol'[v].inst = vol[v].inst
    BY <1>7, <1>8 DEF WorldIsSound
  <2>. QED  BY <1>2, <1>4, <1>7, <2>1, OnHolder
<1>10. AttemptIsSound' /\ StepKnows'
  BY <1>1, <1>4, <1>5, <1>7, <1>9, AfterUnplugKnows
<1>. QED  BY <1>7, <1>8, <1>10 DEF Consistent

-----------------------------------------------------------------------------
(* Unplugging, plugging in and resizing                                     *)

\* Where the attempt's volume stands at a step that works on its disk.
LEMMA AtWork ==
  ASSUME Consistent, Works
  PROVE  /\ TypeOK /\ WorldIsSound /\ PlacesDiffer /\ AttemptIsSound /\ StepKnows
         /\ att.vol \in Volume /\ att.vol # NoVolume /\ Live(att.vol)
         /\ Here = vol[att.vol].loc /\ Here \in Location
         /\ vol[att.vol].inst = att.inst /\ LocationFits(att.vol) /\ RowFits(att.vol)
         /\ Here.vm \in {NoVm, Holder, att.inst} /\ att.inst \in Instance \cup {NoVm}
         /\ att.action \in {"create", "attach", "detach", "resize", "delete", "terminate"}
         /\ att.action \in {"attach", "detach", "terminate"} =>
               Kept(att.vol) /\ att.inst # NoVm /\ ~Steady(att.vol)
<1>1. /\ TypeOK /\ WorldIsSound /\ PlacesDiffer /\ AttemptIsSound /\ StepKnows
      /\ att.vol \in Volume /\ att.vol # NoVolume /\ Here = vol[att.vol].loc
  BY AttemptTyped DEF Consistent, WorldIsSound, Works, Here
<1>2. LocationFits(att.vol) /\ RowFits(att.vol) /\ Here \in Location
  BY <1>1, RowTyped DEF WorldIsSound
<1>3. CASE att.action # "terminate"
  BY <1>1, <1>2, <1>3, OwnAttempt, AttemptTyped DEF LocationFits, RowFits, Steady, Kept
<1>4. CASE att.action = "terminate"
  BY <1>1, <1>2, <1>4, Returning, AttemptTyped DEF LocationFits
<1>. QED  BY <1>1, <1>2, <1>3, <1>4

LEMMA TheOneHere ==
  ASSUME Consistent, Works, NEW d \in disks, At(d, Here)
  PROVE  /\ TheOne = d /\ d \in Disk /\ d.vm = Here.vm
         /\ Live(att.vol) /\ At(d, vol[att.vol].loc)
BY AtWork, Named, DiskTyped DEF TheOne, At

LEMMA UnlinkKeeps == Consistent /\ Unlink => Consistent'
<1> SUFFICES ASSUME Consistent, Unlink PROVE Consistent'
  OBVIOUS
<1>1. /\ att.step = "unlink" /\ Works /\ Held /\ att.action # "delete"
      /\ att.action \in {"create", "resize"} => Here.vm = Holder
  BY DEF Unlink, Consistent, AttemptIsSound, StepKnows
<1>2. PICK d \in disks : At(d, Here)
  BY <1>1 DEF Held
<1>. PICK v \in Volume : v = att.vol
  BY <1>1, AtWork
<1>. DEFINE key == <<"unused", Lowest(FreeSlots(d.vm, "unused"))>>
            n == [d EXCEPT !.key = key]
<1>3. /\ TheOne = d /\ d \in Disk /\ d.vm = Here.vm /\ At(d, vol[v].loc)
      /\ TypeOK /\ WorldIsSound /\ Live(v)
  BY <1>1, <1>2, TheOneHere, AtWork
<1>4. /\ disks' = (disks \ {d}) \cup {n} /\ att' = [att EXCEPT !.step = "unlinked"]
      /\ UNCHANGED <<vol, inst>> /\ FreeSlots(d.vm, "unused") # {}
  BY <1>3 DEF Unlink, Change
<1>5. key \in Key /\ DiskAt(d.vm, key) = {}
  BY <1>4, FreeSlot DEF Key
<1>6. n \in Disk /\ n.vm = d.vm /\ n.name = d.name /\ n.data = d.data /\ n.key = key
  BY <1>3, <1>5 DEF Disk
<1>. HIDE DEF key, n
<1>7. ~Steady(v)
  <2>1. CASE att.action \in {"attach", "detach", "terminate"}
    BY <1>1, <2>1, AtWork
  <2>2. CASE att.action \in {"create", "resize"}
    <3>1. /\ vol[v].loc.vm = Holder /\ RecordIsTrue(v) /\ PlacesDiffer /\ RowFits(v)
          /\ vol[v].inst \in Instance \cup {NoVm}
      BY <1>1, <1>3, <2>2, AtWork DEF WorldIsSound
    <3>. QED  BY <3>1, VolumesAssumption DEF RecordIsTrue, Steady, At, RowFits
  <2>. QED  BY <1>1, <2>1, <2>2, AtWork
<1>8. WorldIsSound'
  BY <1>3, <1>4, <1>5, <1>6, <1>7, DiskChanged DEF DiskAt
<1>9. "unlinked" \in Step \ {"idle", "next"} /\ StepFits(att.action, "unlinked")
  BY <1>1 DEF Step, StepFits
<1>10. /\ att'.step = "unlinked" /\ att'.action = att.action /\ Here' = Here /\ AttemptIsSound'
       /\ TypeOK'
  BY <1>1, <1>3, <1>4, <1>6, <1>9, Changed DEF TypeOK
<1>11. Held'
  BY <1>1, <1>2, <1>4, <1>6, <1>10 DEF Held, At
<1>12. StepKnows'
  BY <1>1, <1>10, <1>11 DEF StepKnows
<1>. QED  BY <1>8, <1>10, <1>12 DEF Consistent

\* The row gets the key its disk has.
LEMMA KeyRecorded ==
  ASSUME Consistent, Works, Held, NEW s \in Step,
         Record([Here EXCEPT !.key = TheOne.key], s), NEW l, l = [Here EXCEPT !.key = TheOne.key]
  PROVE  /\ l \in Location /\ l.vm = Here.vm /\ l.name = Here.name /\ l.toVm = NoVm
         /\ l.vm \in VM
         /\ \E d \in disks : TheOne = d /\ At(d, l) /\ l.key = d.key
         /\ WorldIsSound'
<1>1. PICK d \in disks : At(d, Here)
  BY DEF Held
<1>2. /\ TheOne = d /\ d \in Disk /\ At(d, vol[att.vol].loc)
      /\ TypeOK /\ WorldIsSound /\ Live(att.vol) /\ Here \in Location /\ att.vol \in Volume
  BY <1>1, TheOneHere, AtWork
<1>3. /\ l \in Location /\ l.vm = Here.vm /\ l.name = Here.name /\ l.toVm = NoVm /\ l.key = d.key
      /\ At(d, l) /\ l.vm = d.vm /\ l.name = d.name /\ l.vm \in VM
  BY <1>1, <1>2 DEF Location, Disk, Held, At
<1>4. vol' = [vol EXCEPT ![att.vol].loc = l] /\ disks' = disks /\ inst' = inst
  BY DEF Record
<1>5. WorldIsSound'
  BY <1>2, <1>3, <1>4, DiskRecorded DEF Finds
<1>. QED  BY <1>2, <1>3, <1>5

LEMMA RecordUnlinkedKeeps == Consistent /\ RecordUnlinked => Consistent'
<1> SUFFICES ASSUME Consistent, RecordUnlinked PROVE Consistent'
  OBVIOUS
<1>. DEFINE loc == [Here EXCEPT !.key = TheOne.key]
            step == AfterUnplug(loc)
<1>1. /\ att.step = "unlinked" /\ Works /\ Held /\ att.action # "delete"
      /\ att.action \in {"create", "resize"} => Here.vm = Holder
      /\ Record(loc, step)
  BY DEF RecordUnlinked, Consistent, AttemptIsSound, StepKnows
<1>. PICK l : l = loc
  OBVIOUS
<1>. PICK s : s = step
  OBVIOUS
<1>2. s = AfterUnplug(l) /\ s \in Step
  BY DEF AfterUnplug, Step
<1>3. /\ l \in Location /\ l.vm = Here.vm /\ l.name = Here.name /\ l.toVm = NoVm /\ l.vm \in VM
      /\ \E d \in disks : At(d, l)
      /\ WorldIsSound'
  BY <1>1, <1>2, KeyRecorded
<1>4. Record(l, s)
  BY <1>1
<1>. HIDE DEF loc, step
<1>5. /\ inst' = inst /\ disks' = disks
      /\ att' = [att EXCEPT !.step = s] /\ Here' = l /\ TypeOK'
      /\ \A u \in Volume : vol'[u].inst = vol[u].inst /\ vol'[u].action = vol[u].action
  BY <1>1, <1>2, <1>3, <1>4, Recorded
<1>6. AttemptIsSound' /\ StepKnows'
  BY <1>1, <1>2, <1>3, <1>5, AfterUnplugKnows
<1>. QED  BY <1>3, <1>5, <1>6 DEF Consistent

LEMMA PlugKeeps == Consistent /\ Plug => Consistent'
<1> SUFFICES ASSUME Consistent, Plug PROVE Consistent'
  OBVIOUS
<1>1. /\ att.step = "plug" /\ Works /\ Held /\ att.action \in {"attach", "resize"}
      /\ att.action = "attach" => Here.vm = att.inst /\ DeviceFree
      /\ att.action = "resize" => Here.vm = Holder /\ FreeSlots(Holder, "plugged") # {}
  BY DEF Plug, Consistent, AttemptIsSound, StepKnows
<1>2. PICK d \in disks : At(d, Here)
  BY <1>1 DEF Held
<1>. PICK v \in Volume : v = att.vol
  BY <1>1, AtWork
<1>. DEFINE slot == IF att.action = "attach" THEN vol[att.vol].device
                                             ELSE Lowest(FreeSlots(Holder, "plugged"))
            n == [d EXCEPT !.key = <<"plugged", slot>>]
<1>3. /\ TheOne = d /\ d \in Disk /\ d.vm = Here.vm /\ At(d, vol[v].loc)
      /\ TypeOK /\ WorldIsSound /\ Live(v) /\ RowFits(v) /\ vol[v].inst = att.inst
  BY <1>1, <1>2, TheOneHere, AtWork
<1>4. /\ disks' = (disks \ {d}) \cup {n} /\ att' = [att EXCEPT !.step = "recordPlug"]
      /\ UNCHANGED <<vol, inst>>
  BY <1>3 DEF Plug, Change
<1>5. slot \in Slot /\ DiskAt(d.vm, <<"plugged", slot>>) = {}
  <2>1. CASE att.action = "attach"
    <3>1. vol[v].device \in Slot
      BY <1>1, <1>3, <2>1, OwnAttempt DEF RowFits
    <3>. QED  BY <1>1, <1>3, <2>1, <3>1 DEF DeviceFree
  <2>2. CASE att.action = "resize"
    BY <1>1, <1>3, <2>2, FreeSlot
  <2>. QED  BY <1>1, <2>1, <2>2
<1>6. /\ n \in Disk /\ n.vm = d.vm /\ n.name = d.name /\ n.data = d.data
      /\ n.key = <<"plugged", slot>>
  BY <1>3, <1>5 DEF Disk, Key
<1>7. att.action = "attach" => slot = vol[v].device
  OBVIOUS
<1>. HIDE DEF slot, n
<1>8. ~Steady(v)
  <2>1. CASE att.action = "attach"
    BY <1>1, <2>1, AtWork
  <2>2. CASE att.action = "resize"
    <3>1. vol[v].loc.vm = Holder /\ RecordIsTrue(v) /\ vol[v].inst \in Instance \cup {NoVm}
      BY <1>1, <1>3, <2>2, AtWork DEF WorldIsSound
    <3>. QED  BY <1>3, <3>1, VolumesAssumption DEF RecordIsTrue, Steady, At, RowFits
  <2>. QED  BY <1>1, <2>1, <2>2
<1>9. WorldIsSound'
  BY <1>3, <1>4, <1>5, <1>6, <1>8, DiskChanged DEF DiskAt
<1>10. "recordPlug" \in Step \ {"idle", "next"} /\ StepFits(att.action, "recordPlug")
  BY <1>1 DEF Step, StepFits
<1>11. /\ att'.step = "recordPlug" /\ att'.action = att.action /\ Here' = Here /\ AttemptIsSound'
       /\ att'.inst = att.inst /\ att'.vol = v /\ TypeOK'
  BY <1>1, <1>3, <1>4, <1>6, <1>10, Changed DEF TypeOK
<1>12. Held'
  BY <1>1, <1>2, <1>4, <1>6, <1>11 DEF Held, At
<1>13. att.action = "attach" => PluggedIn'
  BY <1>1, <1>2, <1>4, <1>6, <1>7, <1>11 DEF PluggedIn, At
<1>14. StepKnows'
  BY <1>11, <1>12, <1>13 DEF StepKnows
<1>. QED  BY <1>9, <1>11, <1>14 DEF Consistent

LEMMA RecordPlugKeeps == Consistent /\ RecordPlug => Consistent'
<1> SUFFICES ASSUME Consistent, RecordPlug PROVE Consistent'
  OBVIOUS
<1>1. /\ att.step = "recordPlug" /\ Works /\ Held /\ att.action \in {"attach", "resize"}
      /\ att.action = "attach" => PluggedIn
  BY DEF RecordPlug, Consistent, AttemptIsSound, StepKnows
<1>. PICK s : s = IF att.action = "attach" THEN "finish" ELSE "resize"
  OBVIOUS
<1>. PICK l : l = [Here EXCEPT !.key = TheOne.key]
  OBVIOUS
<1>2. Record(l, s)
  BY DEF RecordPlug
<1>3. s \in Step \ {"idle", "next"} /\ StepFits(att.action, s)
  BY <1>1 DEF Step, StepFits
<1>4. /\ l \in Location /\ l.vm = Here.vm /\ l.name = Here.name /\ l.toVm = NoVm
      /\ \E d \in disks : At(d, l)
      /\ WorldIsSound'
  BY <1>1, <1>2, <1>3, KeyRecorded
<1>5. /\ inst' = inst /\ disks' = disks /\ att'.step = s /\ att'.action = att.action
      /\ att'.vol = att.vol /\ att'.inst = att.inst /\ vol'[att.vol].device = vol[att.vol].device
      /\ att' = [att EXCEPT !.step = s] /\ Here' = l /\ TypeOK'
      /\ \A u \in Volume : vol'[u].inst = vol[u].inst /\ vol'[u].action = vol[u].action
  BY <1>1, <1>2, <1>3, <1>4, Recorded
<1>6. AttemptIsSound'
  BY <1>1, <1>3, <1>5, StepSound
<1>7. Held'
  BY <1>4, <1>5 DEF Held
<1>8. att.action = "attach" => PluggedIn'
  BY <1>1, <1>4, <1>5 DEF PluggedIn, At
<1>9. StepKnows'
  BY <1>1, <1>5, <1>7, <1>8 DEF StepKnows
<1>. QED  BY <1>4, <1>5, <1>6, <1>9 DEF Consistent

LEMMA ResizeKeeps == Consistent /\ ResizeDisk => Consistent'
<1> SUFFICES ASSUME Consistent, ResizeDisk PROVE Consistent'
  OBVIOUS
<1>1. att.step = "resize" /\ Works /\ Held /\ att.action = "resize"
  BY DEF ResizeDisk, Consistent, AttemptIsSound, StepKnows
<1>2. PICK d \in disks : At(d, Here)
  BY <1>1 DEF Held
<1>. PICK v \in Volume : v = att.vol
  BY <1>1, AtWork
<1>. DEFINE n == [d EXCEPT !.size = vol[v].size]
<1>. PICK s : s = IF Here.vm = Holder THEN ThenUnplug(Here) ELSE "finish"
  OBVIOUS
<1>3. /\ TheOne = d /\ d \in Disk /\ d.vm = Here.vm /\ At(d, vol[v].loc)
      /\ TypeOK /\ WorldIsSound /\ PlacesDiffer /\ Live(v) /\ Here \in Location
  BY <1>1, <1>2, TheOneHere, AtWork
<1>4. /\ disks' = (disks \ {d}) \cup {n} /\ att' = [att EXCEPT !.step = s]
      /\ UNCHANGED <<vol, inst>>
  BY <1>3 DEF ResizeDisk, Change
<1>5. n \in Disk /\ n.vm = d.vm /\ n.name = d.name /\ n.data = d.data /\ n.key = d.key
  BY <1>3, RowTyped DEF Disk, Row
<1>. HIDE DEF n
<1>6. WorldIsSound'
  BY <1>3, <1>4, <1>5, DiskChanged DEF PlacesDiffer
<1>7. /\ s \in {"unlink", "finish"}
      /\ s = "unlink" => Here.vm = Holder
  BY <1>1 DEF ThenUnplug, AfterUnplug
<1>8. s \in Step \ {"idle", "next"} /\ StepFits(att.action, s)
  BY <1>1, <1>7 DEF Step, StepFits
<1>9. /\ att'.step = s /\ att'.action = "resize" /\ Here' = Here /\ AttemptIsSound' /\ TypeOK'
  BY <1>1, <1>3, <1>4, <1>5, <1>8, Changed DEF TypeOK
<1>10. Held'
  BY <1>1, <1>2, <1>4, <1>5, <1>9 DEF Held, At
<1>11. StepKnows'
  BY <1>7, <1>9, <1>10 DEF StepKnows
<1>. QED  BY <1>6, <1>9, <1>11 DEF Consistent

-----------------------------------------------------------------------------
(* Moving and deleting                                                      *)

LEMMA AimKeeps == Consistent /\ Aim => Consistent'
<1> SUFFICES ASSUME Consistent, Aim PROVE Consistent'
  OBVIOUS
<1>. PICK key : key = <<"unused", Lowest(FreeSlots(Target, "unused"))>>
  OBVIOUS
<1>. PICK l : l = [Here EXCEPT !.toVm = Target, !.toKey = key]
  OBVIOUS
<1>1. /\ att.step = "aim" /\ Works /\ Held /\ att.action \in {"attach", "detach", "terminate"}
      /\ FreeSlots(Target, "unused") # {} /\ Record(l, "move")
  BY DEF Aim, Consistent, AttemptIsSound, StepKnows
<1>. PICK v \in Volume : v = att.vol
  BY <1>1, AtWork
<1>2. /\ TypeOK /\ Live(v) /\ ~Steady(v) /\ Here = vol[v].loc /\ Here \in Location
      /\ vol[v].inst = att.inst /\ att.inst # NoVm /\ att.inst \in Instance
  BY <1>1, AtWork
<1>3. Target \in {Holder, att.inst} /\ Target \in VM
  BY <1>2 DEF Target, VM
<1>4. key \in Key /\ DiskAt(Target, key) = {} /\ key[1] = "unused"
  BY <1>1, FreeSlot DEF Key
<1>5. PICK d \in disks : At(d, Here)
  BY <1>1 DEF Held
<1>6. /\ l \in Location /\ l.vm = Here.vm /\ l.name = Here.name /\ l.toVm = Target
      /\ l.toKey = key /\ Here.name # NoSlot
  BY <1>2, <1>3, <1>4, <1>5, DiskTyped DEF Location, At
<1>7. NothingArrived(v)
  BY <1>1, <1>2, DiskTyped DEF NothingArrived, Arriving, Held
<1>8. "move" \in Step \ {"idle", "next"} /\ StepFits(att.action, "move")
  BY <1>1 DEF Step, StepFits
<1>9. WorldIsSound'
  BY <1>1, <1>2, <1>3, <1>4, <1>6, <1>7, <1>8, AimedAt
<1>10. /\ Here' = l /\ disks' = disks /\ inst' = inst /\ att' = [att EXCEPT !.step = "move"]
       /\ att'.step = "move" /\ att'.action = att.action /\ att'.inst = att.inst /\ TypeOK'
       /\ \A u \in Volume : vol'[u].inst = vol[u].inst /\ vol'[u].action = vol[u].action
  BY <1>1, <1>6, <1>8, Recorded
<1>11. AttemptIsSound'
  BY <1>1, <1>8, <1>10, StepSound
<1>12. Target' = Target
  BY <1>10 DEF Target
<1>13. /\ DiskAt(Target, Here.toKey)' = {}
       /\ (\E e \in disks : At(e, Here))'
  BY <1>4, <1>5, <1>6, <1>10, <1>12 DEF DiskAt, At
<1>14. StepKnows'
  BY <1>6, <1>10, <1>12, <1>13 DEF StepKnows
<1>. QED  BY <1>9, <1>10, <1>11, <1>14 DEF Consistent

LEMMA MoveKeeps == Consistent /\ NamesApart /\ MoveDisk => Consistent'
<1> SUFFICES ASSUME Consistent, NamesApart, MoveDisk PROVE Consistent'
  OBVIOUS
<1>1. /\ att.step = "move" /\ Works /\ att.action \in {"attach", "detach", "terminate"}
      /\ Here.toVm = Target /\ DiskAt(Target, Here.toKey) = {}
      /\ \E d \in disks : At(d, Here)
  BY DEF MoveDisk, Consistent, AttemptIsSound, StepKnows
<1>2. PICK d \in disks : At(d, Here)
  BY <1>1
<1>. PICK v \in Volume : v = att.vol
  BY <1>1, AtWork
<1>. DEFINE n == [d EXCEPT !.vm = Here.toVm, !.key = Here.toKey, !.name = Lowest(FreeNames(Here.toVm))]
<1>3. /\ TheOne = d /\ d \in Disk /\ At(d, vol[v].loc)
      /\ TypeOK /\ WorldIsSound /\ Kept(v) /\ ~Steady(v) /\ Here = vol[v].loc
      /\ Here \in Location /\ LocationFits(v) /\ PlacesDiffer
      /\ att.inst \in Instance
  BY <1>1, <1>2, TheOneHere, AtWork
<1>4. /\ disks' = (disks \ {d}) \cup {n} /\ att' = [att EXCEPT !.step = "moved"]
      /\ UNCHANGED <<vol, inst>> /\ FreeNames(Here.toVm) # {}
  BY <1>3 DEF MoveDisk, Change
<1>5. /\ Lowest(FreeNames(Here.toVm)) \in Slot
      /\ DiskNamed(Here.toVm, Lowest(FreeNames(Here.toVm))) = {}
      /\ ~Claimed(Here.toVm, Lowest(FreeNames(Here.toVm)), NoVolume)
  <2>1. DiskNamed(vol[v].loc.vm, vol[v].loc.name) # {}
    BY <1>3 DEF DiskNamed, At
  <2>. QED  BY <1>4, <2>1, FreeName
<1>6. Here.toVm \in VM /\ Here.toVm # NoVm
  BY <1>1, <1>3, VolumesAssumption DEF Target, VM
<1>7. Here.toKey \in Key
  BY <1>3, <1>6, VolumesAssumption DEF LocationFits, Location, NoKey
<1>8. /\ n \in Disk /\ n.vm = Here.toVm /\ n.key = Here.toKey /\ n.data = d.data
      /\ n.name = Lowest(FreeNames(Here.toVm))
  BY <1>3, <1>5, <1>6, <1>7 DEF Disk
<1>. HIDE DEF n
<1>9. Arriving(n, Here) /\ Unclaimed(n) /\ DiskAt(n.vm, n.key) = {} /\ DiskNamed(n.vm, n.name) = {}
  BY <1>1, <1>5, <1>8 DEF Arriving, Unclaimed
<1>10. WorldIsSound'
  BY <1>3, <1>4, <1>8, <1>9, DiskMoved
<1>11. "moved" \in Step \ {"idle", "next"} /\ StepFits(att.action, "moved")
  BY <1>1 DEF Step, StepFits
<1>12. /\ att'.step = "moved" /\ att'.action = att.action /\ Here' = Here /\ Target' = Target
       /\ AttemptIsSound' /\ TypeOK'
  BY <1>1, <1>3, <1>4, <1>8, <1>11, Changed DEF TypeOK
<1>13. DiskNamed(Here.vm, Here.name)' = {}
  <2>1. ~At(n, Here)
    BY <1>2, <1>9 DEF At, DiskNamed
  <2>2. \A e \in disks : At(e, Here) => e = d
    BY <1>2, <1>3 DEF At, PlacesDiffer
  <2>. QED  BY <1>4, <1>12, <2>1, <2>2 DEF DiskNamed, At
<1>14. StepKnows'
  BY <1>1, <1>12, <1>13 DEF StepKnows
<1>. QED  BY <1>10, <1>12, <1>14 DEF Consistent

LEMMA RecordMovedKeeps == Consistent /\ RecordMoved => Consistent'
<1> SUFFICES ASSUME Consistent, RecordMoved PROVE Consistent'
  OBVIOUS
<1>1. /\ att.step = "moved" /\ Works /\ att.action \in {"attach", "detach", "terminate"}
      /\ Here.toVm = Target /\ DiskNamed(Here.vm, Here.name) = {}
  BY DEF RecordMoved, Consistent, AttemptIsSound, StepKnows
<1>. PICK v \in Volume : v = att.vol
  BY <1>1, AtWork
<1>2. /\ TypeOK /\ WorldIsSound /\ PlacesDiffer /\ Live(v) /\ Kept(v) /\ v # NoVolume
      /\ Here = vol[v].loc /\ vol[v].inst = att.inst
  BY <1>1, AtWork
<1>3. PICK d \in disks : d.data = v
  BY <1>2 DEF WorldIsSound, HasData
<1>4. Arriving(d, Here) /\ Unclaimed(d) /\ ~At(d, Here)
  BY <1>1, <1>2, <1>3 DEF WorldIsSound, DataFindable, DiskNamed, At
<1>5. PICK l : l = Settle(d)
  OBVIOUS
<1>6. l = Settle(The(DiskAt(Here.toVm, Here.toKey)))
  BY <1>2, <1>4, <1>5, Placed
<1>. PICK s : s = AfterMove(l)
  OBVIOUS
<1>7. Record(l, s)
  BY <1>6 DEF RecordMoved
<1>8. /\ l \in Location /\ l.toVm = NoVm /\ l.vm \in VM /\ l.key = d.key
      /\ l.vm = d.vm /\ l.name = d.name /\ At(d, l) /\ l.vm = Target
  BY <1>1, <1>2, <1>4, <1>5, SettleTyped DEF At, Arriving
<1>9. /\ att.action = "attach" => s = ThenPlug(l)
      /\ att.action = "detach" => s = "finish"
      /\ att.action = "terminate" => s = "returned"
      /\ s \in Step
  BY <1>1 DEF AfterMove, ThenPlug, Step
<1>10. /\ vol' = [vol EXCEPT ![v].loc = l] /\ inst' = inst /\ disks' = disks
       /\ att' = [att EXCEPT !.step = s] /\ att'.step = s /\ att'.action = att.action
       /\ Here' = l /\ vol'[v].device = vol[v].device /\ TypeOK'
       /\ \A u \in Volume : vol'[u].inst = vol[u].inst /\ vol'[u].action = vol[u].action
  BY <1>1, <1>7, <1>8, <1>9, Recorded
<1>11. WorldIsSound'
  BY <1>2, <1>3, <1>4, <1>8, <1>10, DiskRecorded DEF Finds
<1>12. CASE att.action = "attach"
  <2>1. l.vm = att.inst
    BY <1>8, <1>12 DEF Target
  <2>2. AttemptIsSound' /\ StepKnows'
    BY <1>1, <1>8, <1>9, <1>10, <1>12, <2>1, ThenPlugKnows
  <2>. QED  BY <1>10, <1>11, <2>2 DEF Consistent
<1>13. CASE att.action \in {"detach", "terminate"}
  <2>1. l.vm = Holder
    BY <1>8, <1>13 DEF Target
  <2>2. s \in Step \ {"idle", "next"} /\ StepFits(att.action, s) /\ s \in {"finish", "returned"}
    BY <1>9, <1>13 DEF Step, StepFits
  <2>3. AttemptIsSound'
    BY <1>1, <1>10, <2>2, StepSound
  <2>4. Held'
    BY <1>8, <1>10 DEF Held
  <2>5. StepKnows'
    BY <1>8, <1>9, <1>10, <1>13, <2>1, <2>2, <2>4 DEF StepKnows
  <2>. QED  BY <1>10, <1>11, <2>3, <2>5 DEF Consistent
<1>. QED  BY <1>1, <1>12, <1>13

LEMMA DestroyKeeps == Consistent /\ Destroy => Consistent'
<1> SUFFICES ASSUME Consistent, Destroy PROVE Consistent'
  OBVIOUS
<1>1. att.step = "destroy" /\ Works /\ Held /\ att.action = "delete"
  BY DEF Destroy, Consistent, AttemptIsSound, StepKnows
<1>2. PICK d \in disks : At(d, Here)
  BY <1>1 DEF Held
<1>. PICK v \in Volume : v = att.vol
  BY <1>1, AtWork
<1>3. /\ TheOne = d /\ At(d, vol[v].loc) /\ vol[v].state = "deleting"
      /\ TypeOK /\ WorldIsSound /\ PlacesDiffer
  BY <1>1, <1>2, TheOneHere, AtWork, OwnAttempt
<1>4. /\ disks' = disks \ {d} /\ att' = [att EXCEPT !.step = "finish"] /\ UNCHANGED <<vol, inst>>
  BY <1>3 DEF Destroy
<1>5. WorldIsSound'
  BY <1>3, <1>4, DiskRemoved
<1>6. "finish" \in Step \ {"idle", "next"} /\ StepFits(att.action, "finish")
  BY <1>1 DEF Step, StepFits
<1>7. /\ att'.step = "finish" /\ att'.action = "delete" /\ Here' = Here /\ att'.vol = att.vol
      /\ AttemptIsSound' /\ TypeOK'
  BY <1>1, <1>3, <1>4, <1>6, Changed DEF TypeOK
<1>8. \A e \in disks' : ~At(e, Here) /\ e.vm # NoVm
  BY <1>2, <1>3, <1>4, DiskTyped DEF At, PlacesDiffer
<1>9. DiskNamed(Here.vm, Here.name)' = {} /\ Arrived(att.vol, Here)' = {}
  BY <1>1, <1>7, <1>8 DEF DiskNamed, At, Arrived, DiskAt, Held
<1>10. StepKnows'
  BY <1>7, <1>9 DEF StepKnows
<1>. QED  BY <1>5, <1>7, <1>10 DEF Consistent

-----------------------------------------------------------------------------
(* Terminating                                                              *)

LEMMA ReturnNextKeeps == ASSUME Consistent, NEW v \in Volume, ReturnNext(v) PROVE Consistent'
<1>1. /\ att.step = "next" /\ v \in att.todo /\ att.action = "terminate" /\ ~Works
      /\ att' = [att EXCEPT !.vol = v, !.todo = @ \ {v}, !.step = "locate"]
      /\ UNCHANGED <<vol, inst, disks>>
      /\ TypeOK /\ WorldIsSound /\ AttemptIsSound
  BY DEF ReturnNext, Consistent, AttemptIsSound
<1>2. /\ att'.step = "locate" /\ att'.action = "terminate" /\ att'.vol = v /\ att'.inst = att.inst
      /\ att'.todo = att.todo \ {v} /\ att' \in Attempt
  <2>1. att \in Attempt /\ att.todo \ {v} \in SUBSET Volume
    BY <1>1, AttemptTyped
  <2>2. "locate" \in Step
    BY DEF Step
  <2>. QED  BY <1>1, <2>1, <2>2 DEF Attempt
<1>3. TypeOK'
  BY <1>1, <1>2 DEF TypeOK
<1>4. WorldIsSound'
  BY <1>1, WorldSame
<1>5. AttemptIsSound'
  <2>1. /\ v # NoVolume /\ att.vol = NoVolume /\ att.inst # NoVm /\ inst[att.inst] = "shutting-down"
        /\ \A u \in Volume : vol[u].inst = att.inst <=> u \in att.todo
    BY <1>1, VolumesAssumption DEF AttemptIsSound, Works
  <2>2. \A u \in Volume : vol'[u].inst = att'.inst <=> u \in att'.todo \/ u = att'.vol
    BY <1>1, <1>2, <2>1
  <2>. QED  BY <1>1, <1>2, <2>1, <2>2 DEF AttemptIsSound, Works, Idle
<1>6. StepKnows'
  BY <1>2 DEF StepKnows
<1>. QED  BY <1>3, <1>4, <1>5, <1>6 DEF Consistent

LEMMA ReturnToHolderKeeps == Consistent /\ ReturnToHolder => Consistent'
<1> SUFFICES ASSUME Consistent, ReturnToHolder PROVE Consistent'
  OBVIOUS
<1>1. /\ att.step = "returned" /\ att.action = "terminate" /\ Works
      /\ Held /\ Here.vm = Holder
      /\ att' = [att EXCEPT !.vol = NoVolume, !.step = "next"] /\ UNCHANGED <<inst, disks>>
      /\ TypeOK /\ WorldIsSound /\ AttemptIsSound
  BY DEF ReturnToHolder, Consistent, AttemptIsSound, StepKnows
<1>. PICK v \in Volume : v = att.vol
  BY <1>1, AtWork
<1>2. /\ v # NoVolume /\ Live(v) /\ Kept(v) /\ Here = vol[v].loc /\ vol[v].inst = att.inst
      /\ att.inst # NoVm /\ inst[att.inst] = "shutting-down"
      /\ RowFits(v) /\ LocationFits(v) /\ vol[v] \in Row /\ Here \in Location
  BY <1>1, AtWork, Returning, RowTyped
<1>. DEFINE r == Detached(vol[v])
<1>3. vol' = [vol EXCEPT ![v] = r]
  BY <1>2 DEF ReturnToHolder
<1>4. PICK d \in disks : At(d, Here) /\ Here.toVm = NoVm
  BY <1>1 DEF Held
<1>5. /\ r \in Row /\ r.inst = NoVm /\ r.attachment = "none" /\ r.state = "available"
      /\ r.loc.vm = Here.vm /\ r.loc.name = Here.name /\ r.loc.toVm = NoVm
      /\ r.action \in {"none", "resize"}
  <2>1. vol[v].state \in {"available", "in-use"}
        /\ vol[v].action \in {"none", "resize", "attach", "detach"}
    BY <1>2 DEF Kept, RowFits
  <2>. DEFINE over == vol[v].action \in {"attach", "detach"}
              loc == [vol[v].loc EXCEPT !.toVm = NoVm, !.toKey = NoKey]
  <2>2. loc \in Location /\ loc.vm = Here.vm /\ loc.name = Here.name /\ loc.toVm = NoVm
    BY <1>2 DEF Location
  <2>. HIDE DEF loc
  <2>3. r = [vol[v] EXCEPT !.inst = NoVm, !.device = NoSlot, !.attachment = "none",
                !.state = "available", !.action = IF over THEN "none" ELSE vol[v].action,
                !.attempts = IF over THEN 0 ELSE vol[v].attempts, !.loc = loc]
    BY <1>2, <2>1 DEF Detached, loc, Row, Location
  <2>. QED  BY <1>2, <2>1, <2>2, <2>3, Counts DEF Row, VolumeAction
<1>. HIDE DEF r
<1>6. vol'[v] = r /\ vol' \in [Volume -> Row] /\ \A u \in Volume \ {v} : vol'[u] = vol[u]
  BY <1>1, <1>3, <1>5 DEF TypeOK
<1>7. /\ att'.step = "next" /\ att'.action = "terminate" /\ att'.vol = NoVolume
      /\ att'.inst = att.inst /\ att'.todo = att.todo /\ att' \in Attempt
  <2>1. att \in Attempt /\ {"next", "finish"} \subseteq Step
    BY <1>1, AttemptTyped DEF Step
  <2>. QED  BY <1>1, <2>1 DEF Attempt
<1>8. TypeOK'
  BY <1>1, <1>6, <1>7 DEF TypeOK
<1>9. RowFits(v)' /\ LocationFits(v)'
  BY <1>1, <1>2, <1>5, <1>6, VolumesAssumption DEF RowFits, LocationFits, Kept
<1>10. RecordIsTrue(v)'
  BY <1>1, <1>2, <1>4, <1>5, <1>6 DEF RecordIsTrue, Kept, Fresh, At
<1>11. NothingArrived(v)
  BY <1>1, <1>2, <1>4, DiskTyped DEF NothingArrived, Arriving
<1>12. WorldIsSound'
  BY <1>1, <1>2, <1>3, <1>5, <1>9, <1>10, <1>11, RowChanged
<1>13. AttemptIsSound'
  <2>1. /\ NoVolume \notin att.todo /\ v \notin att.todo
        /\ \A u \in Volume : vol[u].inst = att.inst <=> u \in att.todo \/ u = v
    BY <1>1, AttemptTyped, VolumesAssumption DEF AttemptIsSound
  <2>2. \A u \in Volume : vol'[u].inst = att'.inst <=> u \in att'.todo \/ u = att'.vol
    BY <1>2, <1>5, <1>6, <1>7, <2>1, VolumesAssumption
  <2>. QED  BY <1>1, <1>2, <1>7, <2>1, <2>2 DEF AttemptIsSound, Works, Idle
<1>14. StepKnows'
  BY <1>7 DEF StepKnows
<1>. QED  BY <1>8, <1>12, <1>13, <1>14 DEF Consistent

\* Once every volume is returned, no disk is left on the VM.
LEMMA NoDiskOnVm ==
  ASSUME Consistent, att.step = "next", att.todo = {}, NEW d \in disks
  PROVE  d.vm # att.inst
<1> SUFFICES ASSUME d.vm = att.inst PROVE FALSE
  OBVIOUS
<1>1. /\ TypeOK /\ WorldIsSound /\ AttemptIsSound /\ att.action = "terminate"
      /\ att.inst \in Instance /\ att.inst # NoVm
      /\ \A v \in Volume : vol[v].inst # att.inst
  BY AttemptTyped, VolumesAssumption DEF Consistent, AttemptIsSound, Works
<1>2. \A v \in Volume : vol[v].loc.vm # att.inst /\ vol[v].loc.toVm # att.inst
  BY <1>1, VolumesAssumption DEF WorldIsSound, LocationFits
<1>3. DataFindable(d) /\ BlankFindable(d) /\ d.data \in Volume \cup {NoVolume}
  BY <1>1, DiskTyped DEF WorldIsSound
<1>4. CASE d.data # NoVolume
  BY <1>2, <1>3, <1>4 DEF DataFindable, At, Arriving
<1>5. CASE d.data = NoVolume
  BY <1>1, <1>2, <1>3, <1>5, VolumesAssumption DEF BlankFindable, Unclaimed, Claimed
<1>. QED  BY <1>4, <1>5

LEMMA DeleteVMKeeps == Consistent /\ DeleteVM => Consistent'
<1> SUFFICES ASSUME Consistent, DeleteVM PROVE Consistent'
  OBVIOUS
<1>1. /\ att.step = "next" /\ att.todo = {} /\ att.action = "terminate" /\ ~Works
      /\ att' = [att EXCEPT !.step = "finish"] /\ UNCHANGED <<vol, inst>>
      /\ TypeOK /\ WorldIsSound /\ AttemptIsSound
  BY DEF DeleteVM, Consistent, AttemptIsSound
<1>2. disks' = disks
  BY <1>1, NoDiskOnVm DEF DeleteVM
<1>3. /\ att'.step = "finish" /\ att'.action = "terminate" /\ att'.vol = att.vol
      /\ att'.inst = att.inst /\ att'.todo = {} /\ att' \in Attempt
  <2>1. att \in Attempt /\ {"next", "finish"} \subseteq Step
    BY <1>1, AttemptTyped DEF Step
  <2>. QED  BY <1>1, <2>1 DEF Attempt
<1>4. TypeOK'
  BY <1>1, <1>2, <1>3 DEF TypeOK
<1>5. WorldIsSound'
  BY <1>1, <1>2, WorldSame
<1>6. AttemptIsSound'
  BY <1>1, <1>3 DEF AttemptIsSound, Works, Idle
<1>7. StepKnows'
  BY <1>3 DEF StepKnows
<1>. QED  BY <1>4, <1>5, <1>6, <1>7 DEF Consistent

-----------------------------------------------------------------------------
(* The invariant                                                            *)

LEMMA ConsistentAtFirst == Init => Consistent
<1> SUFFICES ASSUME Init PROVE Consistent
  OBVIOUS
<1>1. TypeOK
  BY NoRowTyped, IdleTyped DEF Init, TypeOK
<1>2. \A v \in Volume : vol[v] = NoRow
  BY DEF Init
<1>3. \A v \in Volume : ~Live(v) /\ ~Kept(v) /\ ~Fresh(v)
  BY <1>2 DEF NoRow, Live, Kept, Fresh
<1>4. \A v \in Volume : RowFits(v) /\ LocationFits(v) /\ RecordIsTrue(v) /\ HasData(v)
  BY <1>2, <1>3 DEF RowFits, LocationFits, RecordIsTrue, HasData, NoRow, Nowhere
<1>5. WorldIsSound
  BY <1>3, <1>4 DEF Init, WorldIsSound, PlacesDiffer, NamesDiffer
<1>6. AttemptIsSound
  BY DEF Init, AttemptIsSound, Works, Idle
<1>7. StepKnows
  BY DEF Init, StepKnows, Idle
<1>. QED  BY <1>1, <1>5, <1>6, <1>7 DEF Consistent

LEMMA AdvanceKeeps == Consistent /\ NamesApart /\ Advance => Consistent'
BY LocateKeeps, LocateRefusedKeeps, LocateDestroyedKeeps, ReserveKeeps, AllocateKeeps,
   FindAllocatedKeeps, UnlinkKeeps, RecordUnlinkedKeeps, AimKeeps, MoveKeeps, RecordMovedKeeps,
   PlugKeeps, RecordPlugKeeps, ResizeKeeps, DestroyKeeps, ReturnNextKeeps, ReturnToHolderKeeps,
   DeleteVMKeeps, FinishKeeps, FinishTerminateKeeps
   DEF Advance

LEMMA StutterKeeps == Consistent /\ UNCHANGED vars => Consistent'
<1> SUFFICES ASSUME Consistent, UNCHANGED vars PROVE Consistent'
  OBVIOUS
<1>1. UNCHANGED <<vol, inst, disks, att>>
  BY DEF vars
<1>2. inst \in [Instance -> {"settled", "busy", "shutting-down", "terminated"}]
  BY DEF Consistent, TypeOK
<1>. QED  BY <1>1, <1>2, InstancesMove

LEMMA ConsistentKept == Consistent /\ NamesApart /\ [Next]_vars => Consistent'
BY ApiKeeps, ClaimKeeps, AdvanceKeeps, FailureKeeps, AttemptEndsKeeps, StutterKeeps DEF Next

-----------------------------------------------------------------------------
(* The theorems.  That no moved disk gets a name a volume has on record is  *)
(* an assumption on Proxmox, which one volume can do without; a run shows   *)
(* what happens to two.                                                     *)

(* Whatever is asked, fails or crashes, every volume's disk is where its row *)
(* will look for it and the worker's attempt knows what its next call relies *)
(* on (volume_worker.go).                                                    *)
THEOREM VolumesConsistent == NamesApart => (Spec => []Consistent)
<1> SUFFICES ASSUME NamesApart PROVE Spec => []Consistent
  OBVIOUS
<1>1. Consistent /\ [Next]_vars => Consistent'
  BY ConsistentKept
<1>. QED  BY <1>1, ConsistentAtFirst, PTL DEF Spec

(* Rows, disks and the attempt keep their types.                             *)
THEOREM VolumesTyped == NamesApart => (Spec => []TypeOK)
<1>1. Consistent => TypeOK
  BY DEF Consistent
<1>. QED  BY <1>1, VolumesConsistent, PTL

LEMMA OneDiskKept == Consistent => NoDiskLost
<1> SUFFICES ASSUME Consistent, NEW v \in Volume, vol[v].state \in {"available", "in-use"}
             PROVE  Cardinality(Contents(v)) = 1
  BY DEF NoDiskLost
<1>1. PICK d \in disks : d.data = v
  BY DEF Consistent, WorldIsSound, HasData, Kept
<1>2. \A e \in disks : e.data = v => e = d
  BY <1>1, VolumesAssumption DEF Consistent, WorldIsSound, DataFindable
<1>3. Contents(v) = {d}
  BY <1>1, <1>2 DEF Contents
<1>. QED  BY <1>3, FS_Singleton

(* A volume's disk is never lost and there is never a second one: not by a   *)
(* crash, a failure, a move or a terminate (the header of volume_worker.go). *)
THEOREM DisksAreKept == NamesApart => (Spec => []NoDiskLost)
BY VolumesConsistent, OneDiskKept, PTL

LEMMA RestingDiskFound == Consistent => LocationIsTrue
<1> SUFFICES ASSUME Consistent, NEW v \in Volume, AtRest(v)
             PROVE  \E d \in disks :
                       /\ d.vm = vol[v].loc.vm /\ d.name = vol[v].loc.name
                       /\ d.data = v
                       /\ d.vm = IF vol[v].state = "in-use" THEN vol[v].inst ELSE Holder
                       /\ vol[v].state = "in-use" => d.key = <<"plugged", vol[v].device>>
  BY DEF LocationIsTrue
<1>1. /\ Kept(v) /\ Live(v) /\ ~Fresh(v) /\ vol[v].action = "none"
      /\ vol[v].inst # NoVm => inst[vol[v].inst] # "shutting-down"
      /\ RowFits(v) /\ LocationFits(v) /\ RecordIsTrue(v)
      /\ \A d \in disks : NotMistaken(d)
  BY DEF AtRest, Kept, Live, Fresh, Consistent, WorldIsSound
<1>2. CASE vol[v].state = "in-use"
  <2>1. vol[v].inst # NoVm
    BY <1>1, <1>2 DEF RowFits
  <2>2. PICK d \in disks : /\ At(d, vol[v].loc) /\ d.vm = vol[v].inst
                           /\ d.key = <<"plugged", vol[v].device>>
    BY <1>1, <1>2, <2>1 DEF RecordIsTrue
  <2>3. d.data = v
    BY <1>1, <2>2 DEF NotMistaken
  <2>. QED  BY <1>2, <2>2, <2>3 DEF At
<1>3. CASE vol[v].state = "available"
  <2>1. vol[v].inst = NoVm
    BY <1>1, <1>3 DEF RowFits
  <2>2. PICK d \in disks : At(d, vol[v].loc)
    BY <1>1, <2>1 DEF RecordIsTrue
  <2>3. d.data = v
    BY <1>1, <2>2 DEF NotMistaken
  <2>4. vol[v].loc.vm = Holder
    BY <1>1, <2>1 DEF LocationFits
  <2>. QED  BY <1>3, <2>2, <2>3, <2>4 DEF At
<1>. QED  BY <1>1, <1>2, <1>3 DEF Kept

(* What a settled row says of its disk is so, whatever was retried, resumed  *)
(* or overtaken before (locate and move in volume_worker.go).                *)
THEOREM LocationsAreTrue == NamesApart => (Spec => []LocationIsTrue)
BY VolumesConsistent, RestingDiskFound, PTL

LEMMA EveryDiskFound == Consistent => NoDiskStray
<1> SUFFICES ASSUME Consistent, NEW d \in disks
             PROVE  \E v \in Volume : Live(v) /\ (At(d, vol[v].loc) \/ Arriving(d, vol[v].loc))
  BY DEF NoDiskStray, At, Arriving
<1>1. DataFindable(d) /\ BlankFindable(d) /\ d.data \in Volume \cup {NoVolume}
  BY DiskTyped DEF Consistent, WorldIsSound
<1>2. CASE d.data # NoVolume
  BY <1>1, <1>2 DEF DataFindable
<1>3. CASE d.data = NoVolume /\ Unclaimed(d)
  BY <1>1, <1>3 DEF BlankFindable
<1>4. CASE ~Unclaimed(d)
  BY <1>4 DEF Unclaimed, Claimed, At
<1>. QED  BY <1>2, <1>3, <1>4

(* No disk is left behind for which no volume's row has a name or a place.   *)
THEOREM NoDiskIsStray == NamesApart => (Spec => []NoDiskStray)
BY VolumesConsistent, EveryDiskFound, PTL

-----------------------------------------------------------------------------
(* The ledger.  A create may take the disk another create allocated, so it  *)
(* takes that volumes are created with one size, or that there is no other. *)

OneSize == \A s, t \in CreatedSizes : s = t

Covered ==
    /\ LedgerCoversDisk
    /\ \A d \in disks : d.data = NoVolume => d.size \in CreatedSizes
    /\ \A v \in Volume : Fresh(v) => vol[v].size \in CreatedSizes
    /\ OneVolume => \A d \in disks, v \in Volume :
                       d.data = NoVolume /\ Fresh(v) => d.size = vol[v].size

StaysFresh(v) == Fresh(v) /\ vol'[v].size = vol[v].size
NoBlankDisk   == \A d \in disks : d.data # NoVolume

\* What an action has to leave: a disk as another was, or as it should be, and
\* sizes on record that do not shrink below their disks'.
LEMMA StaysCovered ==
  ASSUME Covered, TypeOK, TypeOK',
         \A d \in disks' : \/ \E e \in disks : e.data = d.data /\ e.size = d.size
                           \/ /\ d.data = NoVolume /\ d.size \in CreatedSizes
                              /\ OneVolume => \A v \in Volume : d.size = vol'[v].size
                           \/ d.data # NoVolume /\ d.size <= vol'[d.data].size,
         \A v \in Volume : \/ vol[v].size <= vol'[v].size
                           \/ \A d \in disks : d.data = v => d.size <= vol'[v].size,
         \A v \in Volume : Fresh(v)' =>
            \/ StaysFresh(v)
            \/ vol'[v].size \in CreatedSizes /\ (OneVolume => NoBlankDisk)
  PROVE  Covered'
<1>1. ASSUME NEW d \in disks', d.data # NoVolume PROVE d.size <= vol'[d.data].size
  <2>1. CASE \E e \in disks : e.data = d.data /\ e.size = d.size
    <3>1. PICK e \in disks : e.data = d.data /\ e.size = d.size
      BY <2>1
    <3>2. /\ e.data \in Volume /\ e.size \in Nat
          /\ vol[e.data].size \in Nat /\ vol'[e.data].size \in Nat
      BY <1>1, <3>1 DEF TypeOK, Disk, Row
    <3>3. e.size <= vol[e.data].size
      BY <1>1, <3>1 DEF Covered, LedgerCoversDisk
    <3>. QED  BY <3>1, <3>2, <3>3
  <2>. QED  BY <1>1, <2>1
<1>2. ASSUME NEW d \in disks', d.data = NoVolume PROVE d.size \in CreatedSizes
  BY <1>2 DEF Covered
<1>3. \A v \in Volume : Fresh(v)' => vol'[v].size \in CreatedSizes
  BY DEF Covered, StaysFresh
<1>4. ASSUME OneVolume, NEW d \in disks', NEW v \in Volume, d.data = NoVolume, Fresh(v)'
      PROVE  d.size = vol'[v].size
  <2>1. CASE \E e \in disks : e.data = d.data /\ e.size = d.size
    <3>1. StaysFresh(v)
      BY <1>4, <2>1 DEF NoBlankDisk
    <3>. QED  BY <1>4, <2>1, <3>1 DEF Covered, StaysFresh
  <2>. QED  BY <1>4, <2>1
<1>. QED  BY <1>1, <1>2, <1>3, <1>4 DEF Covered, LedgerCoversDisk

\* A row that keeps its size, and disks that are all left alone.
LEMMA RowCovered ==
  ASSUME Covered, TypeOK, TypeOK', disks' = disks, NEW v \in Volume, NEW r,
         vol' = [vol EXCEPT ![v] = r], r.size = vol[v].size,
         r.state \in {"creating", "error"} => Fresh(v)
  PROVE  Covered'
<1>1. vol'[v] = r /\ \A u \in Volume \ {v} : vol'[u] = vol[u]
  BY DEF TypeOK
<1>2. \A u \in Volume : vol'[u].size = vol[u].size /\ vol[u].size \in Nat
  BY <1>1 DEF TypeOK, Row
<1>3. \A u \in Volume : Fresh(u)' => StaysFresh(u)
  BY <1>1, <1>2 DEF Fresh, StaysFresh
<1>. QED  BY <1>2, <1>3, StaysCovered

\* Rows that are all left alone, and disks that get no data and no other size.
LEMMA DisksCovered ==
  ASSUME Covered, TypeOK, TypeOK', vol' = vol,
         \A d \in disks' : \E e \in disks : e.data = d.data /\ e.size = d.size
  PROVE  Covered'
<1>1. \A u \in Volume : vol[u].size \in Nat
  BY DEF TypeOK, Row
<1>2. \A u \in Volume : Fresh(u)' => StaysFresh(u)
  BY DEF Fresh, StaysFresh
<1>. QED  BY <1>1, <1>2, StaysCovered

LEMMA ApiCovers ==
  ASSUME Consistent, TypeOK', Covered, Api
  PROVE  Covered'
<1>1. TypeOK
  BY DEF Consistent
<1>2. ASSUME NEW v \in Volume, NEW size \in CreatedSizes, CreateVolume(v, size) PROVE Covered'
  <2>. DEFINE r == [NoRow EXCEPT !.state = "creating", !.action = "create", !.size = size]
  <2>1. vol' = [vol EXCEPT ![v] = r] /\ disks' = disks /\ vol[v].state = "absent"
    BY <1>2 DEF CreateVolume, Request
  <2>2. r.size = size
    BY DEF NoRow
  <2>. HIDE DEF r
  <2>3. vol'[v].size = size /\ \A u \in Volume \ {v} : vol'[u] = vol[u]
    BY <1>1, <2>1, <2>2 DEF TypeOK
  <2>4. \A d \in disks : d.data # v
    BY <2>1, VolumesAssumption DEF Consistent, WorldIsSound, DataFindable, Live
  <2>5. \A u \in Volume : vol[u].size \in Nat
    BY <1>1 DEF TypeOK, Row
  \* The only volume is none yet, and so no disk is.
  <2>9. OneVolume => NoBlankDisk
    BY <2>1, EveryDiskFound DEF OneVolume, NoBlankDisk, NoDiskStray, Live
  <2>6. \A u \in Volume : Fresh(u)' =>
           \/ StaysFresh(u)
           \/ vol'[u].size \in CreatedSizes /\ (OneVolume => NoBlankDisk)
    BY <2>3, <2>9 DEF Fresh, StaysFresh
  <2>7. \A u \in Volume : \/ vol[u].size <= vol'[u].size
                          \/ \A d \in disks : d.data = u => d.size <= vol'[u].size
    BY <2>3, <2>4, <2>5
  <2>. QED  BY <1>1, <2>1, <2>6, <2>7, StaysCovered
<1>3. ASSUME NEW v \in Volume, ModifyVolume(v) PROVE Covered'
  <2>. DEFINE r == [vol[v] EXCEPT !.size = @ + 1, !.action = "resize", !.attempts = 0]
  <2>1. vol' = [vol EXCEPT ![v] = r] /\ disks' = disks /\ vol[v].state \in {"available", "in-use"}
    BY <1>3 DEF ModifyVolume, Request
  <2>2. r.size = vol[v].size + 1 /\ r.state = vol[v].state
    BY <1>1 DEF TypeOK, Row
  <2>. HIDE DEF r
  <2>3. /\ vol'[v].size = vol[v].size + 1 /\ vol'[v].state = vol[v].state
        /\ \A u \in Volume \ {v} : vol'[u] = vol[u]
    BY <1>1, <2>1, <2>2 DEF TypeOK
  <2>4. \A u \in Volume : vol[u].size \in Nat
    BY <1>1 DEF TypeOK, Row
  <2>5. \A u \in Volume : Fresh(u)' => StaysFresh(u)
    BY <2>1, <2>3 DEF Fresh, StaysFresh
  <2>6. \A u \in Volume : vol[u].size <= vol'[u].size
    BY <2>3, <2>4
  <2>. QED  BY <1>1, <2>1, <2>5, <2>6, StaysCovered
<1>4. ASSUME NEW v \in Volume, DetachVolume(v) PROVE Covered'
  <2>. DEFINE r == [vol[v] EXCEPT !.attachment = "detaching", !.action = "detach", !.attempts = 0]
  <2>1. vol' = [vol EXCEPT ![v] = r] /\ disks' = disks
    BY <1>4 DEF DetachVolume, Request
  <2>2. r.size = vol[v].size /\ r.state = vol[v].state
    BY <1>1 DEF TypeOK, Row
  <2>. HIDE DEF r
  <2>. QED  BY <1>1, <2>1, <2>2, RowCovered DEF Fresh
<1>5. ASSUME NEW v \in Volume, DeleteVolume(v) PROVE Covered'
  <2>. DEFINE r == [vol[v] EXCEPT !.state = "deleting", !.action = "delete", !.attempts = 0]
  <2>1. vol' = [vol EXCEPT ![v] = r] /\ disks' = disks
    BY <1>5 DEF DeleteVolume, Request
  <2>2. r.size = vol[v].size /\ r.state = "deleting"
    BY <1>1 DEF TypeOK, Row
  <2>. HIDE DEF r
  <2>. QED  BY <1>1, <2>1, <2>2, RowCovered
<1>6. ASSUME NEW v \in Volume, NEW i \in Instance, NEW device \in Slot, AttachVolume(v, i, device)
      PROVE Covered'
  <2>. DEFINE r == [vol[v] EXCEPT !.inst = i, !.device = device, !.attachment = "attaching",
                                  !.action = "attach", !.attempts = 0]
  <2>1. vol' = [vol EXCEPT ![v] = r] /\ disks' = disks
    BY <1>6 DEF AttachVolume, Request
  <2>2. r.size = vol[v].size /\ r.state = vol[v].state
    BY <1>1 DEF TypeOK, Row
  <2>. HIDE DEF r
  <2>. QED  BY <1>1, <2>1, <2>2, RowCovered DEF Fresh
<1>7. ASSUME NEW i \in Instance, InstanceMoves(i) \/ RequestTerminate(i) PROVE Covered'
  BY <1>1, <1>7, DisksCovered DEF InstanceMoves, RequestTerminate
<1>. QED  BY <1>2, <1>3, <1>4, <1>5, <1>6, <1>7 DEF Api

\* A resize that is given up leaves the size asked for or the disk's own.
LEMMA FailureCovers ==
  ASSUME Consistent, TypeOK', Covered, VolumeFails
  PROVE  Covered'
<1>1. TypeOK /\ Works /\ att.action # "terminate" /\ disks' = disks
  BY DEF VolumeFails, Consistent, Works
<1>. PICK v \in Volume : v = att.vol
  BY <1>1, OwnAttempt
<1>2. /\ vol[v].action = att.action /\ vol[v] \in Row
      /\ att.action = "create" <=> vol[v].state = "creating"
      /\ att.action \in {"attach", "detach", "resize"} <=> Kept(v)
  BY <1>1, OwnAttempt, RowTyped
<1>3. CASE \E size \in Measured(vol[v]) :
             vol' = [vol EXCEPT ![v] = GivenUp(vol[v], size)] /\ att.action \in Abandonable
  <2>1. PICK size \in Measured(vol[v]) : vol' = [vol EXCEPT ![v] = GivenUp(vol[v], size)]
    BY <1>3
  <2>2. CASE att.action = "create"
    <3>. DEFINE r == GivenUp(vol[v], size)
    <3>1. r.size = vol[v].size
      BY <1>2, <2>2 DEF GivenUp, Row
    <3>. HIDE DEF r
    <3>. QED  BY <1>1, <1>2, <2>1, <2>2, <3>1, RowCovered DEF r, Fresh
  <2>3. CASE att.action = "attach"
    <3>. DEFINE r == GivenUp(vol[v], size)
    <3>1. r.size = vol[v].size /\ r.state = vol[v].state
      BY <1>2, <2>3 DEF GivenUp, Row
    <3>. HIDE DEF r
    <3>. QED  BY <1>1, <1>2, <2>1, <2>3, <3>1, RowCovered DEF r, Fresh
  <2>4. CASE att.action = "resize"
    <3>1. GivenUp(vol[v], size).size = size /\ GivenUp(vol[v], size).state = vol[v].state
      BY <1>2, <2>4 DEF GivenUp, Row
    <3>2. /\ vol'[v].size = size /\ vol'[v].state = vol[v].state
          /\ \A u \in Volume \ {v} : vol'[u] = vol[u]
      BY <1>1, <2>1, <3>1 DEF TypeOK
    <3>3. Kept(v) /\ \A u \in Volume : Fresh(u)' => StaysFresh(u)
      BY <1>2, <2>4, <3>2 DEF Fresh, Kept, StaysFresh
    <3>4. ASSUME NEW d \in disks, d.data = v PROVE d.size <= size
      <4>1. CASE size = vol[v].size
        BY <3>4, <4>1, VolumesAssumption DEF Covered, LedgerCoversDisk
      <4>2. CASE \E e \in DiskNamed(vol[v].loc.vm, vol[v].loc.name) : size = e.size
        <5>1. PICK e \in disks : At(e, vol[v].loc) /\ size = e.size
          BY <4>2 DEF DiskNamed, At
        <5>2. e.data = v
          BY <1>1, <3>3, <5>1, OwnAttempt DEF Consistent, WorldIsSound, NotMistaken
        <5>3. d = e
          BY <3>4, <5>2, VolumesAssumption DEF Consistent, WorldIsSound, DataFindable
        <5>. QED  BY <1>1, <5>1, <5>3, DiskTyped DEF Disk
      <4>. QED  BY <4>1, <4>2 DEF Measured
    <3>5. \A u \in Volume : vol[u].size \in Nat
      BY <1>1 DEF TypeOK, Row
    <3>6. \A u \in Volume : \/ vol[u].size <= vol'[u].size
                            \/ \A d \in disks : d.data = u => d.size <= vol'[u].size
      BY <3>2, <3>4, <3>5
    <3>. QED  BY <1>1, <3>3, <3>6, StaysCovered
  <2>. QED  BY <1>3, <2>2, <2>3, <2>4 DEF Abandonable
<1>4. CASE vol' = [vol EXCEPT ![v].attempts = Tries(vol[v])]
  <2>. DEFINE r == [vol[v] EXCEPT !.attempts = Tries(vol[v])]
  <2>1. vol' = [vol EXCEPT ![v] = r] /\ r.size = vol[v].size /\ r.state = vol[v].state
    BY <1>1, <1>2, <1>4 DEF TypeOK, Row
  <2>. HIDE DEF r
  <2>. QED  BY <1>1, <2>1, RowCovered DEF Fresh
<1>. QED  BY <1>3, <1>4 DEF VolumeFails

\* A volume is available with the disk its create found, which is of its size: of
\* the one size volumes are created with, or allocated for no other volume.
LEMMA FinishCovers ==
  ASSUME Consistent, OneSize \/ OneVolume, TypeOK', Covered, FinishVolumeAction
  PROVE  Covered'
<1>1. /\ TypeOK /\ att.step = "finish" /\ att.action # "terminate"
      /\ Works
  BY DEF FinishVolumeAction, Consistent, AttemptIsSound
<1>. PICK v \in Volume : v = att.vol
  BY <1>1, OwnAttempt
<1>2. /\ vol[v] \in Row
      /\ att.action = "create" => vol[v].state = "creating"
      /\ att.action \in {"create", "attach", "detach", "resize", "delete"}
      /\ att.action \in {"attach", "detach", "resize"} <=> Kept(v)
      /\ Here = vol[v].loc
  BY <1>1, OwnAttempt, RowTyped DEF Here
<1>. DEFINE r == Finished(vol[v], att.action)
<1>3. vol' = [vol EXCEPT ![v] = r]
  BY DEF FinishVolumeAction
<1>4. r.size = vol[v].size /\ r.state \notin {"creating", "error"}
  <2>1. CASE att.action \in {"create", "delete"}
    BY <1>2, <2>1 DEF Finished, Row
  <2>2. CASE att.action \in {"attach", "detach"}
    BY <1>2, <2>2 DEF Finished, Row
  <2>3. CASE att.action = "resize"
    BY <1>2, <2>3 DEF Finished, Row, Kept
  <2>. QED  BY <1>2, <2>1, <2>2, <2>3
<1>. HIDE DEF r
<1>5. CASE att.action # "create"
  <2>1. disks' = disks
    BY <1>5 DEF FinishVolumeAction
  <2>. QED  BY <1>1, <1>3, <1>4, <2>1, RowCovered
<1>6. CASE att.action = "create"
  <2>1. disks' = Written(v, vol[v].loc)
    BY <1>2, <1>6 DEF FinishVolumeAction
  <2>2. Fresh(v) /\ ~Kept(v) /\ Live(v)
    BY <1>2, <1>6 DEF Fresh, Kept, Live
  <2>3. vol[v].size \in CreatedSizes /\ vol'[v].size = vol[v].size /\ vol[v].size \in Nat
    BY <1>1, <1>2, <1>3, <1>4, <2>2 DEF Covered, TypeOK, Row
  <2>4. ASSUME NEW d \in disks, At(d, vol[v].loc) PROVE d.data = NoVolume
    <3>1. d.data = v \/ d.data = NoVolume
      BY <2>2, <2>4 DEF Consistent, WorldIsSound, NotMistaken
    <3>2. d.data = NoVolume \/ ~Fresh(d.data)
      BY DEF Consistent, WorldIsSound, DataFindable
    <3>. QED  BY <2>2, <3>1, <3>2
  <2>5. ASSUME NEW d \in disks'
        PROVE  \/ \E e \in disks : e.data = d.data /\ e.size = d.size
               \/ d.data # NoVolume /\ d.size <= vol'[d.data].size
    <3>1. PICK e \in disks : d = IF At(e, vol[v].loc) THEN [e EXCEPT !.data = v] ELSE e
      BY <2>1 DEF Written, At
    <3>2. CASE At(e, vol[v].loc)
      <4>1. e \in Disk /\ d = [e EXCEPT !.data = v]
        BY <1>1, <3>1, <3>2, DiskTyped
      <4>2. d.data = v /\ d.size = e.size
        BY <4>1 DEF Disk
      <4>3. e.size \in CreatedSizes
        BY <2>4, <3>2 DEF Covered
      <4>4. d.size = vol[v].size
        BY <2>2, <2>3, <2>4, <3>2, <4>2, <4>3 DEF OneSize, Covered
      <4>. QED  BY <2>3, <4>2, <4>4, VolumesAssumption
    <3>. QED  BY <3>1, <3>2
  <2>6. \A u \in Volume : vol'[u].size = vol[u].size /\ vol[u].size \in Nat
    BY <1>1, <1>3, <1>4 DEF TypeOK, Row
  <2>7. \A u \in Volume : Fresh(u)' => StaysFresh(u)
    BY <1>1, <1>3, <1>4, <2>6 DEF Fresh, StaysFresh, TypeOK
  <2>. QED  BY <1>1, <2>5, <2>6, <2>7, StaysCovered
<1>. QED  BY <1>5, <1>6

\* A disk is allocated with its volume's size, and made no larger than that.
LEMMA AllocateCovers ==
  ASSUME Consistent, TypeOK', Covered, Allocate
  PROVE  Covered'
<1>1. TypeOK /\ Works /\ att.action = "create"
  BY DEF Allocate, Consistent, AttemptIsSound
<1>. PICK v \in Volume : v = att.vol
  BY <1>1, OwnAttempt
<1>2. vol[v].size \in CreatedSizes
  BY <1>1, OwnAttempt DEF Covered, Fresh
<1>3. vol' = vol /\ \A d \in disks' :
         d \in disks \/ (d.data = NoVolume /\ d.size = vol[v].size)
  BY DEF Allocate
<1>4. \A u \in Volume : vol'[u].size = vol[u].size /\ vol[u].size \in Nat
  BY <1>1, <1>3 DEF TypeOK, Row
<1>5. \A u \in Volume : Fresh(u)' => StaysFresh(u)
  BY <1>3, <1>4 DEF Fresh, StaysFresh
<1>6. OneVolume => \A u \in Volume : vol'[u].size = vol[v].size
  BY <1>4 DEF OneVolume
<1>. QED  BY <1>1, <1>2, <1>3, <1>4, <1>5, <1>6, StaysCovered

LEMMA ResizeCovers ==
  ASSUME Consistent, TypeOK', Covered, ResizeDisk
  PROVE  Covered'
<1>1. att.step = "resize" /\ Works /\ Held /\ att.action = "resize"
  BY DEF ResizeDisk, Consistent, AttemptIsSound, StepKnows
<1>2. PICK d \in disks : At(d, Here)
  BY <1>1 DEF Held
<1>. PICK v \in Volume : v = att.vol
  BY <1>1, AtWork
<1>. DEFINE n == [d EXCEPT !.size = vol[v].size]
<1>3. TheOne = d /\ d \in Disk /\ At(d, vol[v].loc) /\ TypeOK /\ Live(v) /\ Kept(v)
  BY <1>1, <1>2, TheOneHere, AtWork, OwnAttempt
<1>4. vol' = vol /\ \A e \in disks' : e \in disks \/ e = n
  BY <1>3 DEF ResizeDisk, Change
<1>5. d.data = v
  BY <1>3 DEF Consistent, WorldIsSound, NotMistaken
<1>6. n.data = v /\ n.size = vol[v].size
  BY <1>3, <1>5 DEF Disk
<1>. HIDE DEF n
<1>7. \A u \in Volume : vol'[u].size = vol[u].size /\ vol[u].size \in Nat
  BY <1>3, <1>4 DEF TypeOK, Row
<1>8. \A u \in Volume : Fresh(u)' => StaysFresh(u)
  BY <1>4, <1>7 DEF Fresh, StaysFresh
<1>9. \A e \in disks' : \/ e \in disks
                        \/ e.data # NoVolume /\ e.size <= vol'[e.data].size
  BY <1>4, <1>6, <1>7, VolumesAssumption
<1>. QED  BY <1>3, <1>7, <1>8, <1>9, StaysCovered

\* What is recorded of a disk, and a disk's place, have nothing to do with sizes.
LEMMA RecordCovers ==
  ASSUME Consistent, TypeOK', Covered, Works, NEW l, NEW step, Record(l, step)
  PROVE  Covered'
<1>1. TypeOK /\ att.vol \in Volume /\ vol[att.vol] \in Row
  BY AtWork, RowTyped
<1>. PICK v \in Volume : v = att.vol
  BY <1>1
<1>. DEFINE r == [vol[v] EXCEPT !.loc = l]
<1>2. /\ vol' = [vol EXCEPT ![v] = r] /\ disks' = disks
      /\ r.size = vol[v].size /\ r.state = vol[v].state
  BY <1>1 DEF Record, TypeOK, Row
<1>. HIDE DEF r
<1>. QED  BY <1>1, <1>2, RowCovered DEF Fresh

LEMMA MoveCovers ==
  ASSUME Consistent, TypeOK', Covered, Works, NEW d \in disks, At(d, Here), NEW n, NEW step,
         n.data = d.data, n.size = d.size, Change(TheOne, n, step)
  PROVE  Covered'
<1>1. TypeOK /\ TheOne = d
  BY TheOneHere, AtWork
<1>2. vol' = vol /\ \A e \in disks' : e \in disks \/ e = n
  BY DEF Change
<1>. QED  BY <1>1, <1>2, DisksCovered

LEMMA AdvanceCovers ==
  ASSUME Consistent, OneSize \/ OneVolume, TypeOK', Covered, Advance
  PROVE  Covered'
<1>1. TypeOK /\ AttemptIsSound /\ StepKnows
  BY DEF Consistent
<1>2. att.step \notin {"idle", "next", "finish"} => Works
  BY <1>1 DEF AttemptIsSound
<1>3. CASE Locate \/ FindAllocated \/ RecordUnlinked \/ Aim \/ RecordMoved \/ RecordPlug \/ Reserve
  <2>1. Works /\ \E l, step : Record(l, step)
    BY <1>2, <1>3 DEF Locate, FindAllocated, RecordUnlinked, Aim, RecordMoved, RecordPlug, Reserve
  <2>. QED  BY <2>1, RecordCovers
<1>4. CASE UNCHANGED <<vol, disks>>
  BY <1>1, <1>4, DisksCovered
<1>5. CASE Destroy \/ DeleteVM
  <2>1. vol' = vol /\ \A d \in disks' : d \in disks
    BY <1>5 DEF Destroy, DeleteVM
  <2>. QED  BY <1>1, <2>1, DisksCovered
<1>6. CASE Unlink \/ MoveDisk \/ Plug
  <2>1. /\ Works
        /\ \E d \in disks : At(d, Here)
    BY <1>1, <1>2, <1>6 DEF Unlink, MoveDisk, Plug, StepKnows, Held
  <2>2. PICK d \in disks : At(d, Here)
    BY <2>1
  <2>3. TheOne = d /\ d \in Disk
    BY <2>1, <2>2, TheOneHere
  <2>4. \E n, step : n.data = d.data /\ n.size = d.size /\ Change(TheOne, n, step)
    <3>1. CASE Unlink
      <4>. DEFINE n == [d EXCEPT !.key = <<"unused", Lowest(FreeSlots(d.vm, "unused"))>>]
      <4>1. n.data = d.data /\ n.size = d.size
        BY <2>3 DEF Disk
      <4>. QED  BY <2>3, <3>1, <4>1 DEF Unlink
    <3>2. CASE MoveDisk
      <4>. DEFINE n == [d EXCEPT !.vm = Here.toVm, !.key = Here.toKey,
                                 !.name = Lowest(FreeNames(Here.toVm))]
      <4>1. n.data = d.data /\ n.size = d.size
        BY <2>3 DEF Disk
      <4>. QED  BY <2>3, <3>2, <4>1 DEF MoveDisk
    <3>3. CASE Plug
      <4>. DEFINE slot == IF att.action = "attach" THEN vol[att.vol].device
                                                   ELSE Lowest(FreeSlots(Holder, "plugged"))
                  n == [d EXCEPT !.key = <<"plugged", slot>>]
      <4>1. n.data = d.data /\ n.size = d.size
        BY <2>3 DEF Disk
      <4>. QED  BY <2>3, <3>3, <4>1 DEF Plug
    <3>. QED  BY <1>6, <3>1, <3>2, <3>3
  <2>. QED  BY <2>1, <2>2, <2>4, MoveCovers
<1>7. CASE ReturnToHolder
  <2>1. Works /\ disks' = disks
    BY <1>2, <1>7 DEF ReturnToHolder
  <2>. PICK v \in Volume : v = att.vol
    BY <2>1, AtWork
  <2>2. CASE vol' = vol
    BY <1>1, <2>1, <2>2, DisksCovered
  <2>3. CASE vol' = [vol EXCEPT ![v] = Detached(vol[v])]
    <3>1. vol[v] \in Row
      BY <1>1, RowTyped
    <3>2. /\ Detached(vol[v]).size = vol[v].size
          /\ Detached(vol[v]).state \in {vol[v].state, "available"}
      BY <3>1 DEF Detached, Row
    <3>. QED  BY <1>1, <2>1, <2>3, <3>2, RowCovered DEF Fresh
  <2>. QED  BY <1>7, <2>2, <2>3 DEF ReturnToHolder
<1>8. CASE Allocate
  BY <1>8, AllocateCovers
<1>9. CASE ResizeDisk
  BY <1>9, ResizeCovers
<1>10. CASE FinishVolumeAction
  BY <1>10, FinishCovers
<1>11. CASE \/ LocateRefused \/ LocateDestroyed \/ FinishTerminate
            \/ \E v \in Volume : ReturnNext(v)
  BY <1>4, <1>11 DEF LocateRefused, LocateDestroyed, FinishTerminate, ReturnNext
<1>. QED  BY <1>3, <1>5, <1>6, <1>7, <1>8, <1>9, <1>10, <1>11 DEF Advance

LEMMA CoveredKept ==
  ASSUME Consistent, OneSize \/ OneVolume, TypeOK', Covered, [Next]_vars
  PROVE  Covered'
<1>1. CASE Api
  BY <1>1, ApiCovers
<1>2. CASE Advance
  BY <1>2, AdvanceCovers
<1>3. CASE VolumeFails
  BY <1>3, FailureCovers
<1>4. CASE Claim \/ AttemptEnds \/ UNCHANGED vars
  <2>1. vol' = vol /\ disks' = disks
    BY <1>4 DEF Claim, ClaimVolume, ClaimTerminate, AttemptEnds, vars
  <2>. QED  BY <2>1, DisksCovered DEF Consistent
<1>. QED  BY <1>1, <1>2, <1>3, <1>4 DEF Next

(* The ledger covers every disk, however a resize fails or is given up       *)
(* (GiveUpResize), when volumes are created with one size or there is one    *)
(* volume, whatever names are reused; with two of each, a disk of the other  *)
(* size can be found by the wrong create.                                    *)
THEOREM LedgerCovers == NamesApart /\ (OneSize \/ OneVolume) => (Spec => []LedgerCoversDisk)
<1> SUFFICES ASSUME NamesApart, OneSize \/ OneVolume PROVE Spec => []LedgerCoversDisk
  OBVIOUS
<1>1. Init => Covered
  <2>1. Init => disks = {} /\ \A v \in Volume : vol[v].state = "absent"
    BY DEF Init, NoRow
  <2>. QED  BY <2>1 DEF Covered, LedgerCoversDisk, Fresh
<1>2. Consistent => TypeOK
  BY DEF Consistent
<1>3. TypeOK' /\ Consistent /\ Covered /\ [Next]_vars => Covered'
  BY CoveredKept
<1>4. Covered => LedgerCoversDisk
  BY DEF Covered
<1>. QED  BY <1>1, <1>2, <1>3, <1>4, VolumesConsistent, PTL DEF Spec

-----------------------------------------------------------------------------
(* What a volume's user sees of a step                                      *)

Simulates == \A v \in Volume : [Promise(v)!Next]_(Promise(v)!vars)

LEMMA ContentsShow ==
  ASSUME NEW v \in Volume
  PROVE  /\ Contents(v)' = Contents(v) => Home(v)' = Home(v) /\ Seen(v)' = Seen(v)
         /\ Contents(v) = {} => Home(v) = NoVm /\ Seen(v) = FALSE
         /\ Contents(v)' = {} => Home(v)' = NoVm /\ Seen(v)' = FALSE
BY DEF Home, Seen

LEMMA DiskShows ==
  ASSUME NEW v \in Volume, NEW d
  PROVE  /\ Contents(v) = {d}  => Home(v) = d.vm
         /\ Contents(v)' = {d} => Home(v)' = d.vm
         /\ d.vm # Holder /\ Plugged(d.key) =>
               /\ Contents(v) = {d}  => Seen(v) = TRUE
               /\ Contents(v)' = {d} => Seen(v)' = TRUE
         /\ d.vm = Holder \/ ~Plugged(d.key) =>
               /\ Contents(v) = {d}  => Seen(v) = FALSE
               /\ Contents(v)' = {d} => Seen(v)' = FALSE
<1>1. {d} # {} /\ The({d}) = d
  BY DEF The
<1>2. /\ Contents(v) = {d}  => Home(v) = d.vm
      /\ Contents(v)' = {d} => Home(v)' = d.vm
  BY <1>1 DEF Home
<1>3. ASSUME d.vm # Holder, Plugged(d.key)
      PROVE  /\ Contents(v) = {d}  => Seen(v) = TRUE
             /\ Contents(v)' = {d} => Seen(v)' = TRUE
  BY <1>3 DEF Seen
<1>4. ASSUME d.vm = Holder \/ ~Plugged(d.key)
      PROVE  /\ Contents(v) = {d}  => Seen(v) = FALSE
             /\ Contents(v)' = {d} => Seen(v)' = FALSE
  BY <1>4 DEF Seen
<1>. QED  BY <1>2, <1>3, <1>4

\* A step of which the volume's user sees nothing.
LEMMA Stutters ==
  ASSUME NEW v \in Volume, vol'[v].state = vol[v].state, vol'[v].action = vol[v].action,
         vol'[v].inst = vol[v].inst, Leaving(v)' = Leaving(v),
         Home(v)' = Home(v), Seen(v)' = Seen(v)
  PROVE  [Promise(v)!Next]_(Promise(v)!vars)
BY DEF Promise!vars

LEMMA NothingLeaves ==
  ASSUME NEW v \in Volume, inst' = inst, vol'[v].inst = vol[v].inst
  PROVE  Leaving(v)' = Leaving(v)
BY DEF Leaving

\* A volume that nothing was written on, or that is deleted, is on no disk.
LEMMA NoContents ==
  ASSUME Consistent, NEW v \in Volume, Fresh(v) \/ ~Live(v)
  PROVE  Contents(v) = {}
BY VolumesAssumption DEF Consistent, WorldIsSound, DataFindable, Contents

LEMMA OnlyContents ==
  ASSUME Consistent, NEW v \in Volume, NEW d \in disks, d.data = v
  PROVE  Contents(v) = {d}
BY VolumesAssumption DEF Consistent, WorldIsSound, DataFindable, Contents

\* A disk is changed: only the volume whose contents it has is concerned.
LEMMA ContentsChange ==
  ASSUME Consistent, NEW v \in Volume, NEW d \in disks, NEW e, e.data = d.data,
         disks' = (disks \ {d}) \cup {e}
  PROVE  /\ d.data # v => Contents(v)' = Contents(v)
         /\ d.data = v => Contents(v) = {d} /\ Contents(v)' = {e}
<1>1. CASE d.data # v
  BY <1>1 DEF Contents
<1>2. CASE d.data = v
  <2>1. Contents(v) = {d}
    BY <1>2, OnlyContents
  <2>. QED  BY <1>2, <2>1 DEF Contents
<1>. QED  BY <1>1, <1>2

\* The disk at hand has the contents of the attempt's volume, or none yet.
LEMMA ContentsAtHand ==
  ASSUME Consistent, Works, NEW d \in disks, At(d, Here)
  PROVE  /\ d.data \in {att.vol, NoVolume}
         /\ Kept(att.vol) => d.data = att.vol
         /\ TheOne = d
BY AtWork, TheOneHere DEF WorldIsSound, NotMistaken

LEMMA RowsSame ==
  ASSUME vol' = vol, inst' = inst, NEW v \in Volume, Contents(v)' = Contents(v)
  PROVE  [Promise(v)!Next]_(Promise(v)!vars)
BY NothingLeaves, ContentsShow, Stutters

LEMMA NothingSeen == ASSUME UNCHANGED <<vol, inst, disks>> PROVE Simulates
<1>1. ASSUME NEW v \in Volume PROVE Contents(v)' = Contents(v)
  BY DEF Contents
<1>. QED  BY <1>1, RowsSame DEF Simulates

LEMMA LocationsUnseen ==
  ASSUME TypeOK, NEW u, NEW l, UNCHANGED <<inst, disks>>, vol' = [vol EXCEPT ![u].loc = l]
  PROVE  Simulates
<1>1. ASSUME NEW v \in Volume PROVE [Promise(v)!Next]_(Promise(v)!vars)
  <2>1. vol'[v].state = vol[v].state /\ vol'[v].action = vol[v].action /\ vol'[v].inst = vol[v].inst
    BY DEF TypeOK, Row
  <2>2. Contents(v)' = Contents(v)
    BY DEF Contents
  <2>. QED  BY <2>1, <2>2, NothingLeaves, ContentsShow, Stutters
<1>. QED  BY <1>1 DEF Simulates

-----------------------------------------------------------------------------
(* Handlers                                                                 *)

\* One row is changed; nobody else sees anything.
LEMMA OneRow ==
  ASSUME TypeOK, NEW v \in Volume, NEW r, vol' = [vol EXCEPT ![v] = r], UNCHANGED <<inst, disks>>,
         [Promise(v)!Next]_(Promise(v)!vars)
  PROVE  Simulates
<1>1. ASSUME NEW u \in Volume, u # v PROVE [Promise(u)!Next]_(Promise(u)!vars)
  <2>1. vol'[u] = vol[u] /\ Contents(u)' = Contents(u)
    BY <1>1 DEF TypeOK, Contents
  <2>. QED  BY <2>1, NothingLeaves, ContentsShow, Stutters
<1>. QED  BY <1>1 DEF Simulates

LEMMA ApiSimulates == Consistent /\ Api => Simulates
<1> SUFFICES ASSUME Consistent, Api PROVE Simulates
  OBVIOUS
<1>1. TypeOK /\ WorldIsSound
  BY DEF Consistent
<1>2. ASSUME NEW v \in Volume, NEW r, Request(v, r)
      PROVE  /\ vol' = [vol EXCEPT ![v] = r] /\ UNCHANGED <<inst, disks>> /\ vol'[v] = r
             /\ Home(v)' = Home(v) /\ Seen(v)' = Seen(v)
  <2>1. vol' = [vol EXCEPT ![v] = r] /\ UNCHANGED <<inst, disks>> /\ vol'[v] = r
    BY <1>1, <1>2 DEF Request, TypeOK
  <2>2. Contents(v)' = Contents(v)
    BY <2>1 DEF Contents
  <2>. QED  BY <2>1, <2>2, ContentsShow
<1>3. ASSUME NEW v \in Volume
      PROVE  vol[v] \in Row /\ NoRow \in Row /\ NoRow.state = "absent" /\ NoRow.inst = NoVm
             /\ NoRow.action = "none" /\ RowFits(v)
  BY <1>1, NoRowTyped DEF TypeOK, WorldIsSound, NoRow
<1>4. ASSUME NEW v \in Volume, NEW size \in CreatedSizes, CreateVolume(v, size) PROVE Simulates
  <2>. DEFINE r == [NoRow EXCEPT !.state = "creating", !.action = "create", !.size = size]
  <2>1. Request(v, r) /\ vol[v].state = "absent" /\ vol[v] = NoRow
    BY <1>3, <1>4 DEF CreateVolume, RowFits
  <2>2. r.state = "creating" /\ r.action = "create" /\ r.inst = NoVm
    BY <1>3 DEF NoRow
  <2>. HIDE DEF r
  <2>3. Leaving(v)' = Leaving(v)
    BY <1>2, <1>3, <2>1, <2>2 DEF Leaving
  <2>4. Promise(v)!Asked
    BY <1>2, <1>3, <2>1, <2>2, <2>3 DEF Promise!Asked, Promise!Moves
  <2>. QED  BY <1>1, <1>2, <2>1, <2>4, OneRow DEF Promise!Next
<1>5. ASSUME NEW v \in Volume, NEW i \in Instance, NEW device \in Slot, AttachVolume(v, i, device)
      PROVE  Simulates
  <2>. DEFINE r == [vol[v] EXCEPT !.inst = i, !.device = device, !.attachment = "attaching",
                                  !.action = "attach", !.attempts = 0]
  <2>1. Request(v, r) /\ vol[v].state = "available" /\ vol[v].action = "none"
        /\ vol[v].inst = NoVm /\ inst[i] = "settled"
    BY <1>5 DEF AttachVolume
  <2>2. r.state = "available" /\ r.action = "attach" /\ r.inst = i
    BY <1>3, <2>1 DEF Row
  <2>. HIDE DEF r
  <2>3. Leaving(v)' = Leaving(v)
    BY <1>2, <2>1, <2>2 DEF Leaving
  <2>4. Promise(v)!Asked
    BY <1>2, <2>1, <2>2, <2>3 DEF Promise!Asked, Promise!Moves
  <2>. QED  BY <1>1, <1>2, <2>1, <2>4, OneRow DEF Promise!Next
<1>6. ASSUME NEW v \in Volume, DetachVolume(v) \/ ModifyVolume(v) \/ DeleteVolume(v)
      PROVE  Simulates
  <2>1. PICK r : /\ Request(v, r) /\ r.inst = vol[v].inst /\ vol[v].action = "none"
                 /\ \/ vol[v].state = "in-use" /\ r.state = "in-use" /\ r.action = "detach"
                    \/ /\ r.state = vol[v].state /\ r.action = "resize"
                       /\ r.state \in {"available", "in-use"}
                    \/ /\ vol[v].state \in {"available", "error"} /\ vol[v].inst = NoVm
                       /\ r.state = "deleting" /\ r.action = "delete"
    <3>1. CASE DetachVolume(v)
      <4>. DEFINE q == [vol[v] EXCEPT !.attachment = "detaching", !.action = "detach",
                                          !.attempts = 0]
      <4>1. Request(v, q)
        BY <3>1 DEF DetachVolume
      <4>2. vol[v].attachment = "attached" /\ vol[v].action = "none" /\ vol[v].state = "in-use"
        BY <1>3, <3>1 DEF DetachVolume, RowFits
      <4>3. q.inst = vol[v].inst /\ q.action = "detach" /\ q.state = vol[v].state
        BY <1>3 DEF Row
      <4>. HIDE DEF q
      <4>. QED  BY <4>1, <4>2, <4>3
    <3>2. CASE ModifyVolume(v)
      <4>. DEFINE q == [vol[v] EXCEPT !.size = @ + 1, !.action = "resize", !.attempts = 0]
      <4>1. Request(v, q)
        BY <3>2 DEF ModifyVolume
      <4>2. vol[v].state \in {"available", "in-use"} /\ vol[v].action = "none"
        BY <3>2 DEF ModifyVolume
      <4>3. q.inst = vol[v].inst /\ q.action = "resize" /\ q.state = vol[v].state
        BY <1>3 DEF Row
      <4>. HIDE DEF q
      <4>. QED  BY <4>1, <4>2, <4>3
    <3>3. CASE DeleteVolume(v)
      <4>. DEFINE q == [vol[v] EXCEPT !.state = "deleting", !.action = "delete", !.attempts = 0]
      <4>1. Request(v, q)
        BY <3>3 DEF DeleteVolume
      <4>2. vol[v].state \in {"available", "error"} /\ vol[v].action = "none" /\ vol[v].inst = NoVm
        BY <3>3 DEF DeleteVolume
      <4>3. q.inst = vol[v].inst /\ q.action = "delete" /\ q.state = "deleting"
        BY <1>3 DEF Row
      <4>. HIDE DEF q
      <4>. QED  BY <4>1, <4>2, <4>3
    <3>. QED  BY <1>6, <3>1, <3>2, <3>3
  <2>2. vol'[v] = r /\ inst' = inst /\ vol' = [vol EXCEPT ![v] = r] /\ disks' = disks
        /\ Home(v)' = Home(v) /\ Seen(v)' = Seen(v)
    BY <1>2, <2>1
  <2>3. Leaving(v)' = Leaving(v)
    BY <2>1, <2>2, NothingLeaves
  <2>4. Promise(v)!Asked
    BY <2>1, <2>2, <2>3 DEF Promise!Asked, Promise!Moves
  <2>. QED  BY <1>1, <2>2, <2>4, OneRow DEF Promise!Next
<1>7. ASSUME NEW i \in Instance, InstanceMoves(i) \/ RequestTerminate(i) PROVE Simulates
  <2>1. PICK s : /\ inst' = [inst EXCEPT ![i] = s] /\ UNCHANGED <<vol, disks>>
                 /\ inst[i] # "shutting-down"
                 /\ s = "shutting-down" \/ s \in {"settled", "busy"}
    BY <1>7 DEF InstanceMoves, RequestTerminate
  <2>2. ASSUME NEW v \in Volume PROVE [Promise(v)!Next]_(Promise(v)!vars)
    <3>1. vol'[v] = vol[v] /\ Home(v)' = Home(v) /\ Seen(v)' = Seen(v)
      BY <2>1, ContentsShow DEF Contents
    <3>2. \A j \in Instance : inst'[j] = IF j = i THEN s ELSE inst[j]
      BY <1>1, <2>1 DEF TypeOK
    <3>3. vol[v].inst \in Instance \cup {NoVm}
      BY <1>1, RowTyped
    <3>4. CASE vol[v].inst = i /\ s = "shutting-down"
      <4>1. vol[v].inst # NoVm /\ Leaving(v)'
        BY <3>1, <3>2, <3>4, VolumesAssumption DEF Leaving
      <4>. QED  BY <3>1, <4>1 DEF Promise!Next, Promise!Left
    <3>5. CASE ~(vol[v].inst = i /\ s = "shutting-down")
      <4>1. Leaving(v)' = Leaving(v)
        BY <2>1, <3>1, <3>2, <3>3, <3>5 DEF Leaving
      <4>. QED  BY <3>1, <4>1, Stutters
    <3>. QED  BY <3>4, <3>5
  <2>. QED  BY <2>2 DEF Simulates
<1>. QED  BY <1>4, <1>5, <1>6, <1>7 DEF Api

-----------------------------------------------------------------------------
(* Attempts that end                                                        *)

LEMMA FailureSimulates == Consistent /\ VolumeFails => Simulates
<1> SUFFICES ASSUME Consistent, VolumeFails PROVE Simulates
  OBVIOUS
<1>1. /\ TypeOK /\ WorldIsSound /\ Works /\ att.action # "terminate"
      /\ UNCHANGED <<inst, disks>>
  BY DEF VolumeFails, Consistent, Works
<1>. PICK v \in Volume : v = att.vol
  BY <1>1, OwnAttempt
<1>2. /\ vol[v].action = att.action /\ vol[v] \in Row /\ RowFits(v)
      /\ att.action = "create" <=> vol[v].state = "creating"
      /\ att.action \in {"create", "attach", "detach", "resize", "delete"}
  BY <1>1, OwnAttempt DEF TypeOK, WorldIsSound
<1>3. Home(v)' = Home(v) /\ Seen(v)' = Seen(v)
  BY <1>1, ContentsShow DEF Contents
<1>4. CASE \E size \in Measured(vol[v]) : /\ vol' = [vol EXCEPT ![v] = GivenUp(vol[v], size)]
                                          /\ att.action \in Abandonable
  <2>1. PICK size : /\ vol' = [vol EXCEPT ![v] = GivenUp(vol[v], size)]
                    /\ att.action \in Abandonable
    BY <1>4
  <2>. DEFINE r == GivenUp(vol[v], size)
  <2>2. /\ r.inst = vol[v].inst
        /\ att.action = "create" => r.state = "error" /\ r.action = "none"
        /\ att.action = "attach" => r.state = vol[v].state /\ r.action = "detach"
        /\ att.action = "resize" => r.state = vol[v].state /\ r.action = "none"
    BY <1>2, <2>1 DEF GivenUp, Abandonable, Row
  <2>. HIDE DEF r
  <2>3. vol' = [vol EXCEPT ![v] = r] /\ vol'[v] = r
    BY <1>1, <2>1 DEF r, TypeOK
  <2>4. Leaving(v)' = Leaving(v)
    BY <1>1, <2>2, <2>3, NothingLeaves
  <2>5. CASE att.action = "create"
    <3>1. Home(v) = NoVm
      BY <1>2, <2>5, NoContents, ContentsShow DEF Fresh
    <3>2. Promise(v)!GaveUp
      BY <1>2, <1>3, <2>2, <2>3, <2>4, <2>5, <3>1 DEF Promise!GaveUp, Promise!Moves
    <3>. QED  BY <1>1, <2>3, <3>2, OneRow DEF Promise!Next
  <2>6. CASE att.action = "attach"
    <3>1. vol[v].state = "available"
      BY <1>2, <2>6 DEF RowFits
    <3>2. Promise(v)!GaveUp
      BY <1>2, <1>3, <2>2, <2>3, <2>4, <2>6, <3>1 DEF Promise!GaveUp, Promise!Moves
    <3>. QED  BY <1>1, <2>3, <3>2, OneRow DEF Promise!Next
  <2>7. CASE att.action = "resize"
    <3>1. Promise(v)!Resized
      BY <1>2, <1>3, <2>2, <2>3, <2>4, <2>7 DEF Promise!Resized
    <3>. QED  BY <1>1, <2>3, <3>1, OneRow DEF Promise!Next
  <2>. QED  BY <1>2, <2>1, <2>5, <2>6, <2>7 DEF Abandonable
<1>5. CASE vol' = [vol EXCEPT ![v].attempts = Tries(vol[v])]
  <2>. DEFINE r == [vol[v] EXCEPT !.attempts = Tries(vol[v])]
  <2>1. vol' = [vol EXCEPT ![v] = r] /\ vol'[v] = r
    BY <1>1, <1>5 DEF TypeOK
  <2>2. r.state = vol[v].state /\ r.action = vol[v].action /\ r.inst = vol[v].inst
    BY <1>2 DEF Row
  <2>. HIDE DEF r
  <2>. QED  BY <1>1, <1>3, <2>1, <2>2, NothingLeaves, Stutters, OneRow
<1>. QED  BY <1>4, <1>5 DEF VolumeFails

LEMMA FinishSimulates == Consistent /\ FinishVolumeAction => Simulates
<1> SUFFICES ASSUME Consistent, FinishVolumeAction PROVE Simulates
  OBVIOUS
<1>1. /\ TypeOK /\ WorldIsSound /\ AttemptIsSound /\ StepKnows
      /\ att.step = "finish" /\ att.action # "terminate" /\ inst' = inst
  BY DEF FinishVolumeAction, Consistent
<1>2. Works
  BY <1>1 DEF AttemptIsSound
<1>. PICK v \in Volume : v = att.vol
  BY <1>1, <1>2, OwnAttempt
<1>3. /\ vol[v].action = att.action /\ vol[v].inst = att.inst /\ Live(v) /\ vol[v] \in Row
      /\ RowFits(v) /\ Here = vol[v].loc
      /\ att.action \in {"create", "attach", "detach", "resize", "delete"}
      /\ att.action = "create" <=> vol[v].state = "creating"
      /\ att.action = "delete" <=> vol[v].state = "deleting"
      /\ att.action \in {"attach", "detach", "resize"} <=> Kept(v)
  BY <1>1, <1>2, OwnAttempt DEF TypeOK, WorldIsSound, Here
<1>. DEFINE r == Finished(vol[v], att.action)
<1>4. vol' = [vol EXCEPT ![v] = r] /\ vol'[v] = r
  BY <1>1 DEF FinishVolumeAction, TypeOK
<1>5. /\ r.action = "none"
      /\ att.action = "create" => r.state = "available" /\ r.inst = vol[v].inst
      /\ att.action = "attach" => r.state = "in-use" /\ r.inst = vol[v].inst
      /\ att.action = "detach" => r.state = "available" /\ r.inst = NoVm
      /\ att.action = "resize" => r.state = vol[v].state /\ r.inst = vol[v].inst
      /\ att.action = "delete" => r.state = "deleted" /\ r.inst = vol[v].inst
  BY <1>3 DEF Finished, Row
<1>. HIDE DEF r
<1>6. CASE att.action = "create"
  <2>1. PICK d \in disks : At(d, Here) /\ d.vm = Holder
    BY <1>1, <1>6 DEF StepKnows, Held, At
  <2>2. d \in Disk /\ d.data = NoVolume /\ PlacesDiffer
    <3>1. Contents(v) = {}
      BY <1>3, <1>6, NoContents DEF Fresh
    <3>. QED  BY <1>1, <1>2, <2>1, <3>1, ContentsAtHand, DiskTyped DEF Contents, WorldIsSound
  <2>. DEFINE new == [d EXCEPT !.data = v]
  <2>3. disks' = (disks \ {d}) \cup {new}
    BY <1>6, <2>1, <2>2 DEF FinishVolumeAction, Written, At, PlacesDiffer
  <2>4. new.data = v /\ new.vm = Holder
    BY <2>1, <2>2 DEF Disk
  <2>. HIDE DEF new
  <2>5. Contents(v) = {} /\ Contents(v)' = {new}
    <3>1. Contents(v) = {}
      BY <1>3, <1>6, NoContents DEF Fresh
    <3>. QED  BY <2>3, <2>4, <3>1 DEF Contents
  <2>6. Promise(v)!Made
    <3>1. Home(v)' = Holder /\ Seen(v) = FALSE /\ Seen(v)' = FALSE
      BY <2>4, <2>5, DiskShows, ContentsShow
    <3>. QED  BY <1>1, <1>3, <1>4, <1>5, <1>6, <3>1, NothingLeaves DEF Promise!Made, Promise!Moves
  <2>7. ASSUME NEW u \in Volume, u # v PROVE [Promise(u)!Next]_(Promise(u)!vars)
    <3>1. Contents(u)' = Contents(u)
      BY <2>2, <2>3, <2>4, <2>7, VolumesAssumption DEF Contents
    <3>. QED  BY <1>1, <1>4, <2>7, <3>1, NothingLeaves, ContentsShow, Stutters DEF TypeOK
  <2>. QED  BY <2>6, <2>7 DEF Simulates, Promise!Next
<1>7. ASSUME att.action # "create"
      PROVE  /\ disks' = disks /\ Home(v)' = Home(v) /\ Seen(v)' = Seen(v)
             /\ r.inst = vol[v].inst => Leaving(v)' = Leaving(v)
  <2>1. disks' = disks
    BY <1>7 DEF FinishVolumeAction
  <2>. QED  BY <1>1, <1>4, <2>1, NothingLeaves, ContentsShow DEF Contents
<1>8. CASE att.action = "attach"
  <2>1. PICK d \in disks : /\ At(d, Here) /\ d.vm = att.inst
                           /\ d.key = <<"plugged", vol[v].device>>
    BY <1>1, <1>8 DEF StepKnows, PluggedIn
  <2>2. Contents(v) = {d}
    BY <1>2, <1>3, <1>8, <2>1, ContentsAtHand, OnlyContents
  <2>3. att.inst \in Instance /\ att.inst # Holder
    BY <1>1, <1>3, <1>8, RowTyped, VolumesAssumption DEF RowFits
  <2>4. Home(v) = att.inst /\ Seen(v) = TRUE
    <3>1. Plugged(d.key) /\ d.vm # Holder
      BY <2>1, <2>3 DEF Plugged
    <3>. QED  BY <2>1, <2>2, <3>1, DiskShows
  <2>5. vol[v].state = "available"
    BY <1>3, <1>8 DEF RowFits
  <2>6. Promise(v)!Attached
    BY <1>3, <1>4, <1>5, <1>7, <1>8, <2>4, <2>5 DEF Promise!Attached, Promise!Moves
  <2>. QED  BY <1>1, <1>4, <1>7, <1>8, <2>6, OneRow DEF Promise!Next
<1>9. CASE att.action = "detach"
  <2>1. PICK d \in disks : At(d, Here) /\ d.vm = Holder
    BY <1>1, <1>9 DEF StepKnows, Held, At
  <2>2. Contents(v) = {d}
    BY <1>2, <1>3, <1>9, <2>1, ContentsAtHand, OnlyContents
  <2>3. Home(v) = Holder /\ Seen(v) = FALSE
    BY <2>1, <2>2, DiskShows
  <2>4. Leaving(v)' = FALSE
    BY <1>4, <1>5, <1>9 DEF Leaving
  <2>5. Promise(v)!Detached
    BY <1>3, <1>4, <1>5, <1>7, <1>9, <2>3, <2>4 DEF Promise!Detached, Kept
  <2>. QED  BY <1>1, <1>4, <1>7, <1>9, <2>5, OneRow DEF Promise!Next
<1>10. CASE att.action = "resize"
  <2>1. Promise(v)!Resized
    BY <1>3, <1>4, <1>5, <1>7, <1>10 DEF Promise!Resized
  <2>. QED  BY <1>1, <1>4, <1>7, <1>10, <2>1, OneRow DEF Promise!Next
<1>11. CASE att.action = "delete"
  <2>1. Contents(v) = {}
    <3>1. SUFFICES ASSUME NEW d \in disks, d.data = v PROVE FALSE
      BY DEF Contents
    <3>2. DiskNamed(Here.vm, Here.name) = {} /\ Arrived(v, Here) = {}
      BY <1>1, <1>11 DEF StepKnows
    <3>3. At(d, Here) \/ (Arriving(d, Here) /\ Unclaimed(d))
      BY <1>1, <1>3, <3>1, VolumesAssumption DEF WorldIsSound, DataFindable
    <3>. QED  BY <3>2, <3>3, VolumesAssumption
              DEF DiskNamed, At, Arrived, DiskAt, Arriving, Unclaimed, Claimed
  <2>2. Home(v) = NoVm
    BY <2>1, ContentsShow
  <2>3. Promise(v)!Deleted
    BY <1>3, <1>4, <1>5, <1>7, <1>11, <2>2 DEF Promise!Deleted, Promise!Moves
  <2>. QED  BY <1>1, <1>4, <1>7, <1>11, <2>3, OneRow DEF Promise!Next
<1>. QED  BY <1>3, <1>6, <1>8, <1>9, <1>10, <1>11

-----------------------------------------------------------------------------
(* Steps on disks                                                           *)

\* An attach only unplugs, or moves, a disk that waits on the holder.
Outward ==
    att.action = "attach" /\ att.step \in {"unlink", "unlinked", "aim", "move"}
        => Here.vm = Holder

\* An attempt that comes to a disk: which it is, and of which volume.
LEMMA DiskAtHand ==
  ASSUME Consistent, att.step \in {"unlink", "plug", "resize", "destroy", "move", "returned"}
  PROVE  /\ Works /\ att.vol \in Volume /\ att.vol # NoVolume
         /\ TheOne \in disks /\ At(TheOne, Here) /\ TheOne \in Disk
         /\ TheOne.vm = Here.vm /\ Here.vm \in {Holder, att.inst}
         /\ TheOne.data \in {att.vol, NoVolume}
         /\ Kept(att.vol) => TheOne.data = att.vol
<1>1. Works /\ att.vol \in Volume /\ att.vol # NoVolume
  BY AtWork DEF Consistent, AttemptIsSound
<1>2. PICK d \in disks : At(d, Here)
  BY DEF Consistent, StepKnows, Held
<1>3. Here.vm \in {NoVm, Holder, att.inst} /\ Here.vm # NoVm
  BY <1>1, <1>2, AtWork, DiskTyped DEF At
<1>. QED  BY <1>1, <1>2, <1>3, ContentsAtHand, TheOneHere

\* A disk is changed for one volume's sake; the other volumes see nothing.
LEMMA DiskStep ==
  ASSUME Consistent, UNCHANGED <<vol, inst>>, NEW v \in Volume,
         NEW d \in disks, d.data \in {v, NoVolume}, NEW e, e.data = d.data,
         disks' = (disks \ {d}) \cup {e},
         d.data = v => [Promise(v)!Next]_(Promise(v)!vars)
  PROVE  Simulates
<1>1. ASSUME NEW u \in Volume, u # d.data PROVE [Promise(u)!Next]_(Promise(u)!vars)
  <2>1. Contents(u)' = Contents(u)
    BY <1>1, ContentsChange
  <2>. QED  BY <2>1, RowsSame
<1>2. \A u \in Volume : u = d.data => u = v
  BY VolumesAssumption
<1>. QED  BY <1>1, <1>2 DEF Simulates

\* A volume that is returned or detached has its disk taken away, or left where it is.
LEMMA TakenAway ==
  ASSUME Consistent, UNCHANGED <<vol, inst>>, Works, NEW v \in Volume, v = att.vol,
         att.action \in {"detach", "terminate"},
         Home(v)' \in {Home(v), Holder}, Seen(v)' = FALSE
  PROVE  Promise(v)!Next
<1>1. /\ vol[v].inst = att.inst /\ att.inst # NoVm
      /\ AttemptIsSound
  BY AtWork
<1>2. Leaving(v)' = Leaving(v)
  BY <1>1, NothingLeaves
<1>3. vol[v].action = "detach" \/ Leaving(v)
  BY <1>1 DEF AttemptIsSound, Leaving
<1>. QED  BY <1>2, <1>3 DEF Promise!Next, Promise!Taken

LEMMA UnlinkSimulates == Consistent /\ Outward /\ Unlink => Simulates
<1> SUFFICES ASSUME Consistent, Outward, Unlink PROVE Simulates
  OBVIOUS
<1>. PICK v \in Volume : v = att.vol
  BY DiskAtHand DEF Unlink
<1>. PICK d \in disks : d = TheOne
  BY DiskAtHand DEF Unlink
<1>. DEFINE e == [d EXCEPT !.key = <<"unused", Lowest(FreeSlots(d.vm, "unused"))>>]
<1>1. att.step = "unlink" /\ UNCHANGED <<vol, inst>> /\ disks' = (disks \ {d}) \cup {e}
  BY DEF Unlink, Change
<1>2. /\ Works /\ d \in Disk /\ d.vm = Here.vm
      /\ d.data \in {v, NoVolume}
  BY <1>1, DiskAtHand
<1>3. e.data = d.data /\ e.vm = d.vm /\ ~Plugged(e.key)
  BY <1>2 DEF Disk, Plugged
<1>. HIDE DEF e
<1>4. ASSUME d.data = v PROVE [Promise(v)!Next]_(Promise(v)!vars)
  <2>1. Contents(v) = {d} /\ Contents(v)' = {e}
    BY <1>1, <1>2, <1>3, <1>4, ContentsChange
  <2>2. Home(v)' = Home(v) /\ Seen(v)' = FALSE
    BY <1>2, <1>3, <2>1, DiskShows
  <2>3. CASE att.action \in {"detach", "terminate"}
    BY <1>1, <1>2, <2>2, <2>3, TakenAway
  <2>4. CASE att.action \in {"create", "attach", "resize"}
    <3>1. d.vm = Holder
      BY <1>1, <1>2, <2>4 DEF Consistent, StepKnows, Outward
    <3>2. Seen(v) = FALSE
      BY <2>1, <3>1, DiskShows
    <3>. QED  BY <1>1, <1>2, <2>2, <3>2, NothingLeaves, Stutters
  <2>. QED  BY <1>1, <1>2, <2>3, <2>4, AtWork DEF AttemptIsSound
<1>. QED  BY <1>1, <1>2, <1>3, <1>4, DiskStep

LEMMA MoveSimulates == Consistent /\ Outward /\ MoveDisk => Simulates
<1> SUFFICES ASSUME Consistent, Outward, MoveDisk PROVE Simulates
  OBVIOUS
<1>. PICK v \in Volume : v = att.vol
  BY DiskAtHand DEF MoveDisk
<1>. PICK d \in disks : d = TheOne
  BY DiskAtHand DEF MoveDisk
<1>. DEFINE e == [d EXCEPT !.vm = Here.toVm, !.key = Here.toKey,
                                !.name = Lowest(FreeNames(Here.toVm))]
<1>1. att.step = "move" /\ UNCHANGED <<vol, inst>> /\ disks' = (disks \ {d}) \cup {e}
  BY DEF MoveDisk, Change
<1>2. /\ Works /\ d \in Disk /\ d.vm = Here.vm
      /\ At(d, Here) /\ d.data \in {v, NoVolume}
  BY <1>1, DiskAtHand
<1>3. e.data = d.data /\ e.vm = Here.toVm /\ e.key = Here.toKey
  BY <1>2 DEF Disk
<1>. HIDE DEF e
<1>4. /\ Here.toVm = Target /\ att.action \in {"attach", "detach", "terminate"}
      /\ vol[v].inst = att.inst /\ att.inst \in Instance
  BY <1>1, <1>2, AtWork DEF StepKnows, AttemptIsSound
<1>5. ~Plugged(e.key)
  <2>1. Here.name # NoSlot /\ Here.toVm # NoVm
    BY <1>2, <1>4, DiskTyped, VolumesAssumption DEF At, Target, Consistent
  <2>2. LocationFits(v) /\ Here = vol[v].loc
    BY <1>2, AtWork
  <2>. QED  BY <1>3, <2>1, <2>2 DEF LocationFits, Plugged
<1>6. ASSUME d.data = v PROVE [Promise(v)!Next]_(Promise(v)!vars)
  <2>1. Contents(v) = {d} /\ Contents(v)' = {e}
    BY <1>1, <1>2, <1>3, <1>6, ContentsChange
  <2>2. Home(v)' = Here.toVm /\ Seen(v)' = FALSE
    BY <1>3, <1>5, <2>1, DiskShows
  <2>3. CASE att.action \in {"detach", "terminate"}
    BY <1>1, <1>2, <1>4, <2>2, <2>3, TakenAway DEF Target
  <2>4. CASE att.action = "attach"
    <3>1. Home(v) = Holder /\ Seen(v) = FALSE
      BY <1>1, <1>2, <2>1, <2>4, DiskShows DEF Outward
    <3>2. vol[v].action = "attach" /\ Leaving(v)' = Leaving(v)
      BY <1>1, <1>2, <2>4, OwnAttempt, NothingLeaves
    <3>3. Promise(v)!Given
      BY <1>1, <1>4, <2>2, <2>4, <3>1, <3>2 DEF Promise!Given, Target
    <3>. QED  BY <3>3 DEF Promise!Next
  <2>. QED  BY <1>4, <2>3, <2>4
<1>. QED  BY <1>1, <1>2, <1>3, <1>6, DiskStep

LEMMA PlugSimulates == Consistent /\ Plug => Simulates
<1> SUFFICES ASSUME Consistent, Plug PROVE Simulates
  OBVIOUS
<1>. PICK v \in Volume : v = att.vol
  BY DiskAtHand DEF Plug
<1>. PICK d \in disks : d = TheOne
  BY DiskAtHand DEF Plug
<1>1. PICK e : /\ att.step = "plug" /\ UNCHANGED <<vol, inst>>
               /\ disks' = (disks \ {d}) \cup {e}
               /\ \E slot : e = [d EXCEPT !.key = <<"plugged", slot>>]
               /\ att.action = "attach" \/ Here.vm = Holder
  BY DEF Plug, Change
<1>2. /\ Works /\ d \in Disk /\ d.vm = Here.vm
      /\ d.data \in {v, NoVolume}
  BY <1>1, DiskAtHand
<1>3. e.data = d.data /\ e.vm = d.vm /\ Plugged(e.key)
  BY <1>1, <1>2 DEF Disk, Plugged
<1>4. ASSUME d.data = v PROVE [Promise(v)!Next]_(Promise(v)!vars)
  <2>1. Contents(v) = {d} /\ Contents(v)' = {e}
    BY <1>1, <1>2, <1>3, <1>4, ContentsChange
  <2>2. Home(v)' = Home(v) /\ Home(v) = Here.vm
    BY <1>2, <1>3, <2>1, DiskShows
  <2>3. CASE Here.vm = Holder
    <3>1. Seen(v) = FALSE /\ Seen(v)' = FALSE
      BY <1>2, <1>3, <2>1, <2>3, DiskShows
    <3>. QED  BY <1>1, <1>2, <2>2, <2>3, <3>1, NothingLeaves, Stutters
  <2>4. CASE Here.vm # Holder
    <3>1. att.action = "attach" /\ Here.vm = att.inst
      BY <1>1, <2>4 DEF Consistent, StepKnows
    <3>4. Seen(v)' = TRUE
      BY <1>2, <1>3, <2>1, <2>4, DiskShows
    <3>2. vol[v].action = "attach" /\ vol[v].inst = att.inst /\ Leaving(v)' = Leaving(v)
      BY <1>1, <1>2, <3>1, OwnAttempt, NothingLeaves
    <3>3. Promise(v)!Shown
      BY <1>1, <2>2, <2>4, <3>1, <3>2, <3>4 DEF Promise!Shown
    <3>. QED  BY <3>3 DEF Promise!Next
  <2>. QED  BY <2>3, <2>4
<1>. QED  BY <1>1, <1>2, <1>3, <1>4, DiskStep

LEMMA ResizeSimulates == Consistent /\ ResizeDisk => Simulates
<1> SUFFICES ASSUME Consistent, ResizeDisk PROVE Simulates
  OBVIOUS
<1>. PICK v \in Volume : v = att.vol
  BY DiskAtHand DEF ResizeDisk
<1>. PICK d \in disks : d = TheOne
  BY DiskAtHand DEF ResizeDisk
<1>. DEFINE e == [d EXCEPT !.size = vol[att.vol].size]
<1>1. att.step = "resize" /\ UNCHANGED <<vol, inst>> /\ disks' = (disks \ {d}) \cup {e}
  BY DEF ResizeDisk, Change
<1>2. /\ Works /\ d \in Disk
      /\ d.data \in {v, NoVolume}
  BY <1>1, DiskAtHand
<1>3. e.data = d.data /\ e.vm = d.vm /\ e.key = d.key
  BY <1>2 DEF Disk
<1>. HIDE DEF e
<1>4. ASSUME d.data = v PROVE [Promise(v)!Next]_(Promise(v)!vars)
  <2>1. Contents(v) = {d} /\ Contents(v)' = {e}
    BY <1>1, <1>2, <1>3, <1>4, ContentsChange
  <2>2. Home(v)' = Home(v) /\ Seen(v)' = Seen(v)
    <3>1. CASE d.vm # Holder /\ Plugged(d.key)
      <4>1. e.vm # Holder /\ Plugged(e.key)
        BY <1>3, <3>1
      <4>2. Seen(v)' = TRUE
        BY <2>1, <4>1, DiskShows
      <4>3. Seen(v) = TRUE
        BY <2>1, <3>1, DiskShows
      <4>. QED  BY <1>3, <2>1, <4>2, <4>3, DiskShows
    <3>2. CASE d.vm = Holder \/ ~Plugged(d.key)
      BY <1>3, <2>1, <3>2, DiskShows
    <3>. QED  BY <3>1, <3>2
  <2>. QED  BY <1>1, <1>2, <2>2, NothingLeaves, Stutters
<1>. QED  BY <1>1, <1>2, <1>3, <1>4, DiskStep

LEMMA DestroySimulates == Consistent /\ Destroy => Simulates
<1> SUFFICES ASSUME Consistent, Destroy PROVE Simulates
  OBVIOUS
<1>. PICK v \in Volume : v = att.vol
  BY DiskAtHand DEF Destroy
<1>. PICK d \in disks : d = TheOne
  BY DiskAtHand DEF Destroy
<1>1. /\ att.step = "destroy" /\ UNCHANGED <<vol, inst>> /\ disks' = disks \ {d}
      /\ Here.vm = Holder
  BY DEF Destroy
<1>2. /\ Works /\ d.vm = Here.vm
      /\ d.data \in {v, NoVolume}
  BY <1>1, DiskAtHand
<1>3. ASSUME NEW u \in Volume PROVE [Promise(u)!Next]_(Promise(u)!vars)
  <2>1. CASE u = d.data
    <3>1. u = v /\ Contents(u) = {d}
      BY <1>2, <2>1, OnlyContents, VolumesAssumption
    <3>2. Contents(u)' = {}
      BY <1>1, <3>1 DEF Contents
    <3>3. Seen(u) = FALSE /\ Seen(u)' = FALSE /\ Home(u)' = NoVm
      BY <1>1, <1>2, <3>1, <3>2, DiskShows, ContentsShow
    <3>4. vol[u].state = "deleting"
      BY <1>1, <1>2, <3>1, OwnAttempt DEF Consistent, AttemptIsSound
    <3>5. Promise(u)!Destroyed
      BY <1>1, <3>3, <3>4, NothingLeaves DEF Promise!Destroyed
    <3>. QED  BY <3>5 DEF Promise!Next
  <2>2. CASE u # d.data
    <3>1. Contents(u)' = Contents(u)
      BY <1>1, <2>2 DEF Contents
    <3>. QED  BY <1>1, <3>1, RowsSame
  <2>. QED  BY <2>1, <2>2
<1>. QED  BY <1>3 DEF Simulates

LEMMA ReturnSimulates == Consistent /\ ReturnToHolder => Simulates
<1> SUFFICES ASSUME Consistent, ReturnToHolder PROVE Simulates
  OBVIOUS
<1>. PICK v \in Volume : v = att.vol
  BY DiskAtHand DEF ReturnToHolder
<1>. PICK d \in disks : d = TheOne
  BY DiskAtHand DEF ReturnToHolder
<1>. DEFINE r == Detached(vol[v])
<1>1. /\ att.step = "returned" /\ UNCHANGED <<inst, disks>> /\ TypeOK /\ WorldIsSound
      /\ att.action = "terminate" /\ StepKnows
  BY DEF ReturnToHolder, Consistent, AttemptIsSound
<1>2. /\ Works /\ d.vm = Here.vm
      /\ Kept(v) => d.data = v
  BY <1>1, DiskAtHand
<1>3. /\ Kept(v) /\ vol[v].inst = att.inst /\ att.inst # NoVm /\ inst[att.inst] = "shutting-down"
      /\ Here.vm = Holder /\ vol[v] \in Row
  BY <1>1, <1>2, AtWork DEF AttemptIsSound, StepKnows, TypeOK
<1>4. vol' = [vol EXCEPT ![v] = r] /\ vol'[v] = r
  BY <1>1, <1>2, <1>3 DEF ReturnToHolder, TypeOK
<1>5. /\ r.inst = NoVm /\ r.state = "available"
      /\ r.action = IF vol[v].action \in {"attach", "detach"} THEN "none" ELSE vol[v].action
  BY <1>3 DEF Detached, Row, Kept
<1>. HIDE DEF r
<1>6. Contents(v) = {d} /\ Contents(v)' = Contents(v)
  BY <1>1, <1>2, <1>3, OnlyContents DEF Contents
<1>7. Home(v) = Holder /\ Seen(v) = FALSE /\ Home(v)' = Home(v) /\ Seen(v)' = Seen(v)
  BY <1>2, <1>3, <1>6, DiskShows, ContentsShow
<1>8. Leaving(v) = TRUE /\ Leaving(v)' = FALSE
  BY <1>3, <1>4, <1>5 DEF Leaving
<1>9. Promise(v)!Returned
  BY <1>4, <1>5, <1>7, <1>8 DEF Promise!Returned
<1>. QED  BY <1>1, <1>2, <1>4, <1>9, OneRow DEF Promise!Next

LEMMA EndSimulates == Consistent /\ (FinishTerminate \/ DeleteVM \/ Allocate) => Simulates
<1> SUFFICES ASSUME Consistent, FinishTerminate \/ DeleteVM \/ Allocate PROVE Simulates
  OBVIOUS
<1>1. CASE FinishTerminate
  <2>1. UNCHANGED <<vol, disks>> /\ inst' = [inst EXCEPT ![att.inst] = "terminated"]
        /\ \A v \in Volume : vol[v].inst # att.inst
    <3>1. att.todo = {} /\ ~Works /\ \A v \in Volume : vol[v].inst = att.inst => v \in att.todo \/ v = att.vol
      BY <1>1 DEF FinishTerminate, Consistent, AttemptIsSound
    <3>. QED  BY <1>1, <3>1, VolumesAssumption DEF FinishTerminate, Works
  <2>2. ASSUME NEW v \in Volume PROVE [Promise(v)!Next]_(Promise(v)!vars)
    <3>1. Leaving(v)' = Leaving(v)
      BY <2>1 DEF Leaving, Consistent, TypeOK
    <3>2. Contents(v)' = Contents(v)
      BY <2>1 DEF Contents
    <3>. QED  BY <2>1, <3>1, <3>2, ContentsShow, Stutters
  <2>. QED  BY <2>2 DEF Simulates
<1>2. CASE DeleteVM
  <2>1. UNCHANGED <<vol, inst, disks>>
    BY <1>2, NoDiskOnVm DEF DeleteVM
  <2>. QED  BY <2>1, NothingSeen
<1>3. CASE Allocate
  <2>. DEFINE e == [vm |-> Holder, key |-> Here.toKey, name |-> Lowest(FreeNames(Holder)),
                    data |-> NoVolume, size |-> vol[att.vol].size]
  <2>1. disks' = disks \cup {e} /\ e.data = NoVolume /\ UNCHANGED <<vol, inst>>
    BY <1>3 DEF Allocate
  <2>. HIDE DEF e
  <2>2. ASSUME NEW v \in Volume PROVE Contents(v)' = Contents(v)
    BY <2>1, VolumesAssumption DEF Contents
  <2>. QED  BY <2>1, <2>2, RowsSame DEF Simulates
<1>. QED  BY <1>1, <1>2, <1>3

-----------------------------------------------------------------------------
(* Every step, and the refinement                                           *)

LEMMA RecordSimulates ==
  ASSUME Consistent, Locate \/ Reserve \/ FindAllocated \/ RecordUnlinked \/ Aim \/ RecordMoved
                       \/ RecordPlug
  PROVE  Simulates
<1>1. PICK l, s : Record(l, s)
  BY DEF Locate, Reserve, FindAllocated, RecordUnlinked, Aim, RecordMoved, RecordPlug
<1>2. TypeOK /\ UNCHANGED <<inst, disks>> /\ vol' = [vol EXCEPT ![att.vol].loc = l]
  BY <1>1 DEF Record, Consistent
<1>. QED  BY <1>2, LocationsUnseen

LEMMA StepSimulates == Consistent /\ Outward /\ [Next]_vars => Simulates
<1> SUFFICES ASSUME Consistent, Outward, [Next]_vars PROVE Simulates
  OBVIOUS
<1>1. CASE Locate \/ Reserve \/ FindAllocated \/ RecordUnlinked \/ Aim \/ RecordMoved \/ RecordPlug
  BY <1>1, RecordSimulates
<1>2. CASE Unlink \/ MoveDisk \/ Plug \/ ResizeDisk \/ Destroy \/ ReturnToHolder
  BY <1>2, UnlinkSimulates, MoveSimulates, PlugSimulates, ResizeSimulates, DestroySimulates,
     ReturnSimulates
<1>3. CASE FinishTerminate \/ DeleteVM \/ Allocate \/ FinishVolumeAction \/ VolumeFails \/ Api
  BY <1>3, EndSimulates, FinishSimulates, FailureSimulates, ApiSimulates
<1>4. CASE Claim \/ AttemptEnds \/ LocateRefused \/ LocateDestroyed
             \/ (\E v \in Volume : ReturnNext(v)) \/ UNCHANGED vars
  <2>1. UNCHANGED <<vol, inst, disks>>
    BY <1>4 DEF Claim, ClaimVolume, ClaimTerminate, AttemptEnds, LocateRefused, LocateDestroyed,
                ReturnNext, vars
  <2>. QED  BY <2>1, NothingSeen
<1>. QED  BY <1>1, <1>2, <1>3, <1>4 DEF Next, Advance

LEMMA LocateOutward ==
  ASSUME Consistent, Consistent', Locate
  PROVE  Outward'
<1>. DEFINE l == Located(att.vol, Here)
            s == AfterLocate(l)
<1>1. att.step = "locate" /\ Record(l, s) /\ Works
  BY DEF Locate, Consistent, AttemptIsSound
<1>. HIDE DEF l
<1>2. SUFFICES ASSUME att'.action = "attach", att'.step \in {"unlink", "unlinked", "aim", "move"}
               PROVE  Here'.vm = Holder
  BY DEF Outward
<1>3. att' = [att EXCEPT !.step = s] /\ vol' = [vol EXCEPT ![att.vol].loc = l]
  BY <1>1 DEF Record
<1>4. att.action = "attach" /\ att'.step = s /\ att'.inst = att.inst /\ att'.vol = att.vol
  BY <1>2, <1>3, AttemptTyped DEF Consistent, Attempt
<1>5. l.vm # att.inst
  BY <1>2, <1>4 DEF AfterLocate, ThenPlug
<1>6. Here' = l
  BY <1>1, <1>3, <1>4, AtWork DEF Here, TypeOK, Row
<1>7. \E d \in disks' : d.vm = l.vm
  BY <1>2, <1>4, <1>6 DEF Consistent, AttemptIsSound, AfterLocate, ThenUnplug, AfterUnplug,
                          ThenPlug, StepKnows, Held, At
<1>8. l.vm \in {NoVm, Holder, att.inst}
  <2>1. /\ \A v \in Volume : LocationFits(v)'
        /\ vol'[att.vol].inst = att.inst /\ vol'[att.vol].loc = l /\ att.vol \in Volume
    BY <1>1, <1>3, AtWork DEF Consistent, WorldIsSound, TypeOK, Row
  <2>. QED  BY <2>1 DEF LocationFits
<1>. QED  BY <1>5, <1>6, <1>7, <1>8, VolumesAssumption DEF Consistent, TypeOK, Disk, VM

\* A record that says no more than the one before of the VM the disk is on.
LEMMA RecordOutward ==
  ASSUME Consistent, Outward, RecordUnlinked \/ Aim \/ RecordMoved \/ RecordPlug \/ Reserve
                                \/ FindAllocated
  PROVE  Outward'
<1>1. CASE RecordUnlinked \/ Aim
  <2>1. PICK l, s : /\ Record(l, s) /\ l.vm = Here.vm /\ att.step \in {"unlinked", "aim"}
                    /\ Works
    <3>1. Works /\ Here \in Location
      BY <1>1, AtWork DEF RecordUnlinked, Aim, Consistent, AttemptIsSound
    <3>2. CASE RecordUnlinked
      <4>. DEFINE l == [Here EXCEPT !.key = TheOne.key]
      <4>1. l.vm = Here.vm
        BY <3>1 DEF Location
      <4>2. \E s : Record(l, s)
        BY <3>2 DEF RecordUnlinked
      <4>. HIDE DEF l
      <4>. QED  BY <3>1, <3>2, <4>1, <4>2 DEF RecordUnlinked
    <3>3. CASE Aim
      <4>. DEFINE l == [Here EXCEPT !.toVm = Target,
                                    !.toKey = <<"unused", Lowest(FreeSlots(Target, "unused"))>>]
      <4>1. l.vm = Here.vm
        BY <3>1 DEF Location
      <4>2. \E s : Record(l, s)
        BY <3>3 DEF Aim
      <4>. HIDE DEF l
      <4>. QED  BY <3>1, <3>3, <4>1, <4>2 DEF Aim
    <3>. QED  BY <1>1, <3>2, <3>3
  <2>2. att'.vol = att.vol /\ att'.action = att.action
    BY <2>1, AttemptTyped DEF Record, Consistent, Attempt
  <2>3. Here' = l
    BY <2>1, <2>2, AtWork DEF Record, Here, TypeOK, Row
  <2>. QED  BY <2>1, <2>2, <2>3 DEF Outward
<1>2. CASE RecordMoved \/ RecordPlug \/ Reserve \/ FindAllocated
  <2>1. att.step \in {"moved", "recordPlug", "reserve", "found"} /\ AttemptIsSound /\ att \in Attempt
    BY <1>2, AttemptTyped DEF RecordMoved, RecordPlug, Reserve, FindAllocated, Consistent
  <2>2. PICK s : /\ att' = [att EXCEPT !.step = s]
                 /\ \/ att.action = "create"
                    \/ \E l : s = AfterMove(l)
                    \/ s \in {"finish", "resize"}
    <3>1. CASE RecordMoved
      BY <3>1 DEF RecordMoved, Record
    <3>2. CASE RecordPlug
      BY <3>2 DEF RecordPlug, Record
    <3>3. CASE Reserve \/ FindAllocated
      BY <3>3, <2>1 DEF Reserve, FindAllocated, Record, AttemptIsSound
    <3>. QED  BY <1>2, <3>1, <3>2, <3>3
  <2>3. att'.action = att.action /\ att'.step = s
    BY <2>1, <2>2 DEF Attempt
  <2>4. att.action = "attach" => s \notin {"unlink", "unlinked", "aim", "move"}
    BY <2>2 DEF AfterMove, ThenPlug
  <2>. QED  BY <2>3, <2>4 DEF Outward
<1>. QED  BY <1>1, <1>2

LEMMA OutwardKept ==
  ASSUME Consistent, Consistent', Outward, [Next]_vars
  PROVE  Outward'
<1>1. att \in Attempt /\ TypeOK /\ AttemptIsSound
  BY AttemptTyped DEF Consistent
<1>2. CASE Locate
  BY <1>2, LocateOutward
<1>3. CASE RecordUnlinked \/ Aim \/ RecordMoved \/ RecordPlug \/ Reserve \/ FindAllocated
  BY <1>3, RecordOutward
<1>4. CASE Unlink
  <2>1. vol' = vol /\ att'.action = att.action /\ att'.vol = att.vol /\ att.step = "unlink"
    BY <1>1, <1>4 DEF Unlink, Change, Attempt
  <2>. QED  BY <2>1 DEF Outward, Here
<1>5. CASE \/ LocateRefused \/ LocateDestroyed \/ Allocate \/ MoveDisk \/ Plug \/ Destroy
           \/ ReturnToHolder \/ DeleteVM
           \/ \E v \in Volume : ReturnNext(v)
  <2>1. att'.step \notin {"unlink", "unlinked", "aim", "move"}
    BY <1>1, <1>5 DEF LocateRefused, LocateDestroyed, Allocate, MoveDisk, Plug, Destroy, Change,
                      ReturnToHolder, DeleteVM, ReturnNext, Attempt
  <2>. QED  BY <2>1 DEF Outward
<1>6. CASE ResizeDisk
  <2>1. att'.action = "resize"
    BY <1>1, <1>6 DEF ResizeDisk, Change, AttemptIsSound, Attempt
  <2>. QED  BY <2>1 DEF Outward
<1>7. CASE FinishVolumeAction \/ FinishTerminate \/ VolumeFails \/ AttemptEnds \/ Claim
  <2>1. att'.step \notin {"unlink", "unlinked", "aim", "move"}
    <3>1. ASSUME NEW v \in Volume, ClaimVolume(v) PROVE att'.step = "locate"
      BY <3>1 DEF ClaimVolume, Idle
    <3>2. ASSUME NEW i \in Instance, ClaimTerminate(i) PROVE att'.step = "next"
      BY <3>2 DEF ClaimTerminate, Idle
    <3>3. CASE FinishVolumeAction \/ FinishTerminate \/ VolumeFails \/ AttemptEnds
      BY <3>3 DEF FinishVolumeAction, FinishTerminate, VolumeFails, AttemptEnds, Idle
    <3>. QED  BY <1>7, <3>1, <3>2, <3>3 DEF Claim
  <2>. QED  BY <2>1 DEF Outward
<1>8. CASE Api
  <2>1. att' = att
    BY <1>8 DEF Api, CreateVolume, AttachVolume, DetachVolume, ModifyVolume, DeleteVolume, Request,
                InstanceMoves, RequestTerminate
  <2>2. CASE ~Works \/ att.action # "attach"
    BY <1>1, <2>1, <2>2 DEF Outward, AttemptIsSound
  <2>3. CASE Works /\ att.action = "attach"
    <3>1. vol[att.vol].action = "attach" /\ att.vol \in Volume /\ RowFits(att.vol)
      BY <2>3, OwnAttempt DEF Consistent, WorldIsSound
    <3>2. vol'[att.vol] = vol[att.vol]
      BY <1>1, <1>8, <3>1 DEF Api, CreateVolume, AttachVolume, DetachVolume, ModifyVolume,
                DeleteVolume, Request, InstanceMoves, RequestTerminate, TypeOK, RowFits, NoRow
    <3>. QED  BY <2>1, <3>2 DEF Outward, Here
  <2>. QED  BY <2>2, <2>3
<1>9. CASE UNCHANGED vars
  BY <1>9 DEF vars, Outward, Here
<1>. QED  BY <1>2, <1>3, <1>4, <1>5, <1>6, <1>7, <1>8, <1>9 DEF Next, Advance

LEMMA AlwaysOutward == NamesApart => (Spec => [](Consistent /\ Outward))
<1> SUFFICES ASSUME NamesApart PROVE Spec => [](Consistent /\ Outward)
  OBVIOUS
<1>1. Init => Consistent /\ Outward
  BY ConsistentAtFirst DEF Init, Outward, Idle
<1>2. Consistent /\ Outward /\ [Next]_vars => (Consistent /\ Outward)'
  BY ConsistentKept, OutwardKept
<1>. QED  BY <1>1, <1>2, PTL DEF Spec

(* Every volume keeps the lifecycle the API promises: whatever is asked, fails,  *)
(* crashes or is terminated, no guest sees it but that of the instance it was    *)
(* asked for, that one sees it as long as it is attached, and its data is        *)
(* somewhere until it is deleted.  The worker implements VolumeLife.             *)
THEOREM VolumeLifeImplemented == NamesApart => (Spec => ImplementsVolumeLife)
<1> SUFFICES ASSUME NamesApart PROVE Spec => ImplementsVolumeLife
  OBVIOUS
<1>1. Init => \A v \in Volume : Promise(v)!Init
  <2>1. ASSUME Init, NEW v \in Volume PROVE Promise(v)!Init
    <3>1. Contents(v) = {} /\ vol[v] = NoRow
      BY <2>1 DEF Init, Contents
    <3>2. Home(v) = NoVm /\ Seen(v) = FALSE
      BY <3>1, ContentsShow
    <3>3. vol[v].state = "absent" /\ vol[v].action = "none" /\ vol[v].inst = NoVm
      BY <3>1 DEF NoRow
    <3>4. Leaving(v) = FALSE
      BY <3>3 DEF Leaving
    <3>. QED  BY <3>2, <3>3, <3>4 DEF Promise!Init
  <2>. QED  BY <2>1
<1>2. Consistent /\ Outward /\ [Next]_vars
         => [\A v \in Volume : [Promise(v)!Next]_(Promise(v)!vars)]_vars
  BY StepSimulates DEF Simulates
<1>. QED  BY <1>1, <1>2, AlwaysOutward, PTL DEF Spec, ImplementsVolumeLife
=============================================================================
