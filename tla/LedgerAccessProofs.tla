------------------------- MODULE LedgerAccessProofs -------------------------
(***************************************************************************)
(* Proofs about the two parts that keep books: the NetBox mirror, and the  *)
(* keys, logins and consoles.                                              *)
(*                                                                         *)
(* The mirror, for any number of instances and of entries somebody else    *)
(* made: an entry is judged by rows that were read at the beginning of the *)
(* pass; the invariant says why that is safe: only the pass itself makes   *)
(* entries, of instances it has read, and an instance that read terminated *)
(* stays so.                                                               *)
(*                                                                         *)
(* Access, for any number of people, keys, attempts, URLs and requests:    *)
(* the invariant says who may still use what can be used once: a request   *)
(* that holds a login attempt has taken it out of the table, and a ticket  *)
(* is on one URL until a socket has it.                                    *)
(***************************************************************************)
EXTENDS Ledger, Access, FiniteSetTheorems, TLAPS

-----------------------------------------------------------------------------
(* The ledger: the invariant                                                *)

\* An entry is of an instance there has been.
EntriesKnown == \A i \in Mirrored : entry[i].there => vm[i].life # "none"

\* What the pass read is no further than what the rows say now.
RowsBehind ==
    \A i \in Mirrored :
       /\ sync.rows[i].life # "none" => vm[i].life # "none"
       /\ sync.rows[i].life = "terminated" => vm[i].life = "terminated"

\* The pass registers what it read, and has read what it found registered.
PassKnows ==
    /\ sync.step = "adopt" => \A i \in Mirrored : entry[i].there => sync.rows[i].life # "none"
    /\ sync.step = "entries" => \A i \in sync.todo : sync.rows[i].life # "none"
    /\ \A i \in Mirrored : i \in sync.seen => sync.rows[i].life # "none"

LedgerSound == TypeOKLedger /\ EntriesKnown /\ RowsBehind /\ PassKnows

-----------------------------------------------------------------------------
(* Access: types                                                            *)

LEMMA Constant ==
  /\ Untitled \in Title /\ NoVm \in VmRow /\ NoEntry \in Entry /\ Waiting \in Pass
<1>1. Untitled \in Title
  BY LedgerAssumption DEF Untitled
<1>2. NoVm \in VmRow
  BY <1>1 DEF NoVm, VmRow, Life
<1>3. NoEntry \in Entry
  BY <1>1 DEF NoEntry, Entry
<1>4. Waiting \in Pass
  BY <1>2 DEF Waiting, Pass, PassStep
<1>. QED  BY <1>1, <1>2, <1>3, <1>4

LEMMA LedgerTypedAtFirst == InitLedger => TypeOKLedger
<1> SUFFICES ASSUME InitLedger PROVE TypeOKLedger
  OBVIOUS
<1>1. PICK known \in SUBSET Mirrored :
        /\ vm = [i \in Mirrored |-> IF i \in known
                   THEN [NoVm EXCEPT !.life = "running", !.ip = TRUE] ELSE NoVm]
        /\ entry = [n \in Mirrored \cup Foreign |-> IF n \in known
                      THEN [NoEntry EXCEPT !.there = TRUE, !.active = TRUE, !.primary = TRUE]
                      ELSE [NoEntry EXCEPT !.there = n \in Foreign]]
        /\ address = [i \in Mirrored |-> [there |-> i \in known, dns |-> Untitled]]
        /\ sync = Waiting /\ woken = FALSE /\ events = 0 /\ faults = 0
  BY DEF InitLedger
<1>2. [NoVm EXCEPT !.life = "running", !.ip = TRUE] \in VmRow
  BY Constant DEF VmRow, Life
<1>3. /\ [NoEntry EXCEPT !.there = TRUE, !.active = TRUE, !.primary = TRUE] \in Entry
      /\ [NoEntry EXCEPT !.there = TRUE] \in Entry /\ [NoEntry EXCEPT !.there = FALSE] \in Entry
  BY Constant DEF Entry
<1>4. vm \in [Mirrored -> VmRow]
  BY <1>1, <1>2, Constant
<1>7. entry \in [Mirrored \cup Foreign -> Entry]
  <2>1. ASSUME NEW n \in Mirrored \cup Foreign PROVE entry[n] \in Entry
    <3>1. CASE n \in known
      BY <1>1, <1>3, <3>1
    <3>2. CASE n \notin known
      <4>1. entry[n] = [NoEntry EXCEPT !.there = n \in Foreign]
        BY <1>1, <3>2
      <4>2. CASE n \in Foreign
        <5>1. (n \in Foreign) = TRUE
          BY <4>2
        <5>. QED  BY <1>3, <4>1, <5>1
      <4>3. CASE n \notin Foreign
        <5>1. (n \in Foreign) = FALSE
          BY <4>3
        <5>. QED  BY <1>3, <4>1, <5>1
      <4>. QED  BY <4>2, <4>3
    <3>. QED  BY <3>1, <3>2
  <2>2. entry = [n \in Mirrored \cup Foreign |-> entry[n]]
    BY <1>1
  <2>. QED  BY <2>1, <2>2
<1>5. address \in [Mirrored -> Address]
  BY <1>1, Constant DEF Address
<1>6. woken \in BOOLEAN /\ events \in 0..MaxEvents /\ faults \in 0..MaxFaults
  <2>1. woken = FALSE /\ events = 0 /\ faults = 0
    BY <1>1
  <2>2. 0 \in 0..MaxEvents /\ 0 \in 0..MaxFaults
    BY LedgerAssumption
  <2>3. woken \in BOOLEAN
    BY <2>1
  <2>. QED  BY <2>1, <2>2, <2>3
<1>. QED  BY <1>1, <1>4, <1>5, <1>6, <1>7, Constant DEF TypeOKLedger

LEMMA LedgerTypesKept == TypeOKLedger /\ [NextLedger]_ledgervars => TypeOKLedger'
<1> SUFFICES ASSUME TypeOKLedger, [NextLedger]_ledgervars PROVE TypeOKLedger'
  OBVIOUS
<1> USE LedgerAssumption DEF TypeOKLedger, Quiet
<1>1. ASSUME NEW b \in BOOLEAN, Event(b)
      PROVE  events' \in 0..MaxEvents /\ woken' \in BOOLEAN /\ sync' = sync /\ faults' = faults
  BY <1>1 DEF Event
<1>2. ASSUME Fault PROVE faults' \in 0..MaxFaults /\ vm' = vm /\ events' = events
  BY <1>2 DEF Fault
<1>3. ASSUME NEW i \in Mirrored, NEW t \in Title, Launches(i, t) \/ Adopts(i, t) \/ Renames(i, t)
      PROVE  TypeOKLedger'
  <2>1. PICK r \in VmRow : vm' = [vm EXCEPT ![i] = r]
    <3>1. [NoVm EXCEPT !.life = "pending", !.title = t] \in VmRow
      BY Constant DEF VmRow, Life
    <3>2. [NoVm EXCEPT !.life = "running", !.title = t, !.brought = TRUE] \in VmRow
      BY Constant DEF VmRow, Life
    <3>3. [vm[i] EXCEPT !.title = t] \in VmRow
      BY DEF VmRow
    <3>. QED  BY <1>3, <3>1, <3>2, <3>3 DEF Launches, Adopts, Renames
  <2>2. \E b \in BOOLEAN : Event(b)
    BY <1>3 DEF Launches, Adopts, Renames
  <2>. QED  BY <1>1, <1>3, <2>1, <2>2 DEF Launches, Adopts, Renames
<1>4. ASSUME NEW i \in Mirrored, NEW life \in {"running", "stopped"}, Settles(i, life)
      PROVE  TypeOKLedger'
  <2>1. [vm[i] EXCEPT !.life = life] \in VmRow
    BY DEF VmRow, Life
  <2>2. vm' = [vm EXCEPT ![i] = [vm[i] EXCEPT !.life = life]] /\ Event(TRUE)
    BY <1>4 DEF Settles
  <2>. QED  BY <1>1, <1>4, <2>1, <2>2 DEF Settles
<1>5. ASSUME NEW i \in Mirrored, TakesAddress(i) PROVE TypeOKLedger'
  <2>1. [vm[i] EXCEPT !.ip = TRUE] \in VmRow /\ [there |-> TRUE, dns |-> vm[i].title] \in Address
    BY DEF VmRow, Address
  <2>2. /\ vm' = [vm EXCEPT ![i] = [vm[i] EXCEPT !.ip = TRUE]]
        /\ address' = [address EXCEPT ![i] = [there |-> TRUE, dns |-> vm[i].title]]
        /\ Event(FALSE)
    BY <1>5 DEF TakesAddress
  <2>. QED  BY <1>1, <1>5, <2>1, <2>2 DEF TakesAddress
<1>6. ASSUME NEW i \in Mirrored, AsksEnd(i) \/ EndsVm(i) PROVE TypeOKLedger'
  <2>1. PICK l \in {"ending", "terminated"} : vm' = [vm EXCEPT ![i] = [vm[i] EXCEPT !.life = l]]
    BY <1>6 DEF AsksEnd, EndsVm
  <2>2. [vm[i] EXCEPT !.life = l] \in VmRow
    BY DEF VmRow, Life
  <2>3. \E b \in BOOLEAN : Event(b)
    BY <1>6 DEF AsksEnd, EndsVm
  <2>. QED  BY <1>1, <1>6, <2>1, <2>2, <2>3 DEF AsksEnd, EndsVm
<1>7. ASSUME NEW i \in Mirrored, ReleasesAddress(i) PROVE TypeOKLedger'
  <2>1. /\ vm' = [vm EXCEPT ![i] = [vm[i] EXCEPT !.life = "released"]]
        /\ address' = [address EXCEPT ![i] = [address[i] EXCEPT !.there = FALSE]]
        /\ entry' = [entry EXCEPT ![i] = [entry[i] EXCEPT !.primary = FALSE]]
        /\ Event(FALSE)
    BY <1>7 DEF ReleasesAddress
  <2>2. [vm[i] EXCEPT !.life = "released"] \in VmRow
    BY DEF VmRow, Life
  <2>3. [address[i] EXCEPT !.there = FALSE] \in Address
    BY DEF Address
  <2>4. [entry[i] EXCEPT !.primary = FALSE] \in Entry
    BY DEF Entry
  <2>. QED  BY <1>1, <2>1, <2>2, <2>3, <2>4
<1>8. ASSUME StartsPass \/ ListsEntries \/ AllRegistered \/ AllNamed \/ EndsPass
      PROVE  TypeOKLedger'
  <2>1. sync' \in Pass
    <3>1. CASE StartsPass
      <4>1. Addressless(vm) \subseteq Mirrored
        BY DEF Addressless
      <4>2. [Waiting EXCEPT !.step = "adopt", !.rows = vm, !.todo = Addressless(vm)] \in Pass
        BY <4>1, Constant DEF Pass, PassStep
      <4>. QED  BY <3>1, <4>2 DEF StartsPass
    <3>2. ToRegister(sync.rows) \subseteq Mirrored
      BY DEF ToRegister
    <3>3. CASE ListsEntries
      <4>1. {n \in DOMAIN entry : entry[n].there} \subseteq Mirrored \cup Foreign
        OBVIOUS
      <4>. QED  BY <3>2, <3>3, <4>1 DEF ListsEntries, Pass, PassStep
    <3>4. CASE AllRegistered
      BY <3>2, <3>4 DEF AllRegistered, Pass, PassStep
    <3>5. CASE AllNamed
      BY <3>5 DEF AllNamed, Pass, PassStep
    <3>6. CASE EndsPass
      BY <3>6, Constant DEF EndsPass
    <3>. QED  BY <1>8, <3>1, <3>3, <3>4, <3>5, <3>6
  <2>. QED  BY <1>8, <2>1 DEF StartsPass, ListsEntries, AllRegistered, AllNamed, EndsPass
<1>9. ASSUME NEW i \in Mirrored, RecordsAdopted(i) PROVE TypeOKLedger'
  <2>1. [vm[i] EXCEPT !.ip = TRUE] \in VmRow /\ [sync.rows[i] EXCEPT !.ip = TRUE] \in VmRow
        /\ [there |-> TRUE, dns |-> sync.rows[i].title] \in Address
    <3>1. sync.rows[i] \in VmRow
      BY DEF Pass
    <3>. QED  BY <3>1 DEF VmRow, Address
  <2>2. vm' = [vm EXCEPT ![i] = [vm[i] EXCEPT !.ip = TRUE]]
        /\ sync' = [sync EXCEPT !.todo = @ \ {i}, !.rows = [@ EXCEPT ![i] = [sync.rows[i] EXCEPT !.ip = TRUE]]]
    BY <1>9 DEF RecordsAdopted
  <2>3. sync' \in Pass
    BY <2>1, <2>2 DEF Pass
  <2>4. address' \in [Mirrored -> Address]
    BY <1>9, <2>1 DEF RecordsAdopted
  <2>. QED  BY <1>9, <2>1, <2>2, <2>3, <2>4 DEF RecordsAdopted
<1>10. ASSUME NEW i \in Mirrored, Registers(i) \/ Links(i) \/ Names(i) PROVE TypeOKLedger'
  <2>1. sync.rows[i] \in VmRow
    BY DEF Pass
  <2>2. CASE Registers(i)
    <3>1. Written(i) \in Entry
      BY <2>1 DEF Written, Entry, VmRow
    <3>2. sync' \in Pass
      BY <2>2 DEF Registers, Pass
    <3>. QED  BY <2>2, <3>1, <3>2 DEF Registers
  <2>3. CASE Links(i)
    <3>1. sync' \in Pass
      BY <2>3 DEF Links, Pass
    <3>2. entry' = [entry EXCEPT ![i] = [entry[i] EXCEPT !.primary = @ \/ address[i].there]]
      BY <2>3 DEF Links
    <3>3. [entry[i] EXCEPT !.primary = @ \/ address[i].there] \in Entry
      BY DEF Entry, Address
    <3>. QED  BY <2>3, <3>1, <3>2, <3>3 DEF Links
  <2>4. CASE Names(i)
    <3>1. sync' \in Pass
      BY <2>4 DEF Names, Pass
    <3>2. [address[i] EXCEPT !.dns = sync.rows[i].title] \in Address
      BY <2>1 DEF Address, VmRow
    <3>3. address' \in [Mirrored -> Address]
      BY <2>4, <3>2 DEF Names
    <3>. QED  BY <2>4, <3>1, <3>3 DEF Names
  <2>. QED  BY <1>10, <2>2, <2>3, <2>4
<1>11. ASSUME NEW n \in Mirrored \cup Foreign, RemovesEntry(n) PROVE TypeOKLedger'
  BY <1>11, Constant DEF RemovesEntry, Pass
<1>12. ASSUME NEW i \in Mirrored, InstanceFails(i) PROVE TypeOKLedger'
  <2>1. sync' \in Pass
    BY <1>12 DEF InstanceFails, Pass
  <2>2. [there |-> TRUE, dns |-> sync.rows[i].title] \in Address
    <3>1. sync.rows[i] \in VmRow
      BY DEF Pass
    <3>. QED  BY <3>1 DEF Address, VmRow
  <2>3. address' = address \/ address' = [address EXCEPT ![i] = [there |-> TRUE, dns |-> sync.rows[i].title]]
    BY <1>12 DEF InstanceFails
  <2>. QED  BY <1>2, <1>12, <2>1, <2>2, <2>3 DEF InstanceFails
<1>13. ASSUME PassFails PROVE TypeOKLedger'
  <2>1. sync' \in Pass
    BY <1>13, Constant DEF PassFails, Pass, PassStep
  <2>. QED  BY <1>2, <1>13, <2>1 DEF PassFails
<1>14. CASE UNCHANGED ledgervars
  BY <1>14 DEF ledgervars
<1>. QED
  BY <1>3, <1>4, <1>5, <1>6, <1>7, <1>8, <1>9, <1>10, <1>11, <1>12, <1>13, <1>14 DEF NextLedger, PassSteps

-----------------------------------------------------------------------------
(* The ledger: rows, entries and what the pass has of them                  *)

\* A step that makes no entry and undoes no row, while the pass only forgets.
LEMMA NothingMade ==
  ASSUME LedgerSound,
         \A i \in Mirrored : entry'[i].there => entry[i].there,
         \A i \in Mirrored :
            /\ vm[i].life # "none" => vm'[i].life # "none"
            /\ vm[i].life = "terminated" => vm'[i].life = "terminated",
         \A i \in Mirrored : sync'.rows[i].life = sync.rows[i].life,
         sync'.seen \subseteq sync.seen, sync'.todo \subseteq sync.todo,
         sync'.step \in {sync.step, "names", "sweep", "wait"}
  PROVE  EntriesKnown' /\ RowsBehind' /\ PassKnows'
<1> USE DEF LedgerSound
<1>1. EntriesKnown' /\ RowsBehind'
  BY DEF EntriesKnown, RowsBehind
<1>2. PassKnows'
  <2>1. sync'.step = "adopt" => \A i \in Mirrored : entry'[i].there => sync'.rows[i].life # "none"
    BY DEF PassKnows
  <2>2. sync'.step = "entries" => \A i \in sync'.todo : sync'.rows[i].life # "none"
    BY DEF PassKnows, TypeOKLedger, Pass
  <2>3. \A i \in Mirrored : i \in sync'.seen => sync'.rows[i].life # "none"
    BY DEF PassKnows
  <2>. QED  BY <2>1, <2>2, <2>3 DEF PassKnows
<1>. QED  BY <1>1, <1>2

\* A pass that starts afresh has read nothing.
LEMMA Afresh ==
  ASSUME LedgerSound, sync' = Waiting,
         \A i \in Mirrored : entry'[i].there => entry[i].there, vm' = vm
  PROVE  EntriesKnown' /\ RowsBehind' /\ PassKnows'
BY DEF LedgerSound, EntriesKnown, RowsBehind, PassKnows, Waiting, NoVm

LEMMA LedgerKept == LedgerSound /\ [NextLedger]_ledgervars => LedgerSound'
<1> SUFFICES ASSUME LedgerSound, [NextLedger]_ledgervars PROVE LedgerSound'
  OBVIOUS
<1>0. TypeOKLedger /\ TypeOKLedger'
  BY LedgerTypesKept DEF LedgerSound
<1> DEFINE Kept == EntriesKnown' /\ RowsBehind' /\ PassKnows'
<1> SUFFICES Kept
  BY <1>0 DEF LedgerSound
<1> USE LedgerAssumption DEF Quiet
<1>1. ASSUME NEW i \in Mirrored, NEW t \in Title, Launches(i, t) \/ Adopts(i, t) \/ Renames(i, t)
      PROVE  Kept
  <2>1. /\ UNCHANGED <<entry, sync>>
        /\ \A j \in Mirrored : j # i => vm'[j] = vm[j]
    BY <1>0, <1>1 DEF Launches, Adopts, Renames, Event, TypeOKLedger
  <2>2. /\ vm[i].life # "none" => vm'[i].life # "none"
        /\ vm[i].life = "terminated" => vm'[i].life = "terminated"
    <3>1. vm[i] \in VmRow
      BY <1>0 DEF TypeOKLedger
    <3>. QED  BY <1>0, <1>1, <3>1 DEF Launches, Adopts, Renames, NoVm, TypeOKLedger, VmRow
  <2>. QED  BY <2>1, <2>2, NothingMade
<1>2. ASSUME NEW i \in Mirrored,
             \/ TakesAddress(i) \/ AsksEnd(i) \/ ReleasesAddress(i) \/ EndsVm(i)
             \/ \E life \in {"running", "stopped"} : Settles(i, life)
      PROVE  Kept
  <2>1. /\ UNCHANGED sync
        /\ \A j \in Mirrored : entry'[j].there = entry[j].there
        /\ \A j \in Mirrored : j # i => vm'[j] = vm[j]
    BY <1>0, <1>2 DEF TakesAddress, AsksEnd, ReleasesAddress, EndsVm, Settles, Event, TypeOKLedger, Entry
  <2>2. vm[i].life \notin {"none", "terminated"} /\ vm'[i].life # "none"
    <3>1. vm[i] \in VmRow
      BY <1>0 DEF TypeOKLedger
    <3>2. vm[i].life \notin {"none", "terminated"}
      BY <1>2 DEF TakesAddress, AsksEnd, ReleasesAddress, EndsVm, Settles
    <3>3. CASE TakesAddress(i)
      <4>1. vm' = [vm EXCEPT ![i] = [vm[i] EXCEPT !.ip = TRUE]]
        BY <3>3 DEF TakesAddress
      <4>. QED  BY <1>0, <3>1, <3>2, <4>1 DEF TypeOKLedger, VmRow
    <3>4. ASSUME NEW l \in {"ending", "released", "terminated", "running", "stopped"},
                 vm' = [vm EXCEPT ![i].life = l]
          PROVE  vm'[i].life # "none"
      <4>1. vm' = [vm EXCEPT ![i] = [vm[i] EXCEPT !.life = l]]
        BY <3>4
      <4>. QED  BY <1>0, <3>1, <4>1 DEF TypeOKLedger, VmRow
    <3>. QED  BY <1>2, <3>2, <3>3, <3>4 DEF AsksEnd, ReleasesAddress, EndsVm, Settles
  <2>. QED  BY <2>1, <2>2, NothingMade
<1>3. ASSUME StartsPass PROVE Kept
  <2>1. /\ UNCHANGED <<vm, entry>> /\ sync'.step = "adopt" /\ sync'.rows = vm /\ sync'.seen = {}
    BY <1>3, Constant DEF StartsPass, Waiting, Pass
  <2>. QED  BY <2>1 DEF LedgerSound, EntriesKnown, RowsBehind, PassKnows
<1>4. ASSUME NEW i \in Mirrored, RecordsAdopted(i) PROVE Kept
  <2>1. UNCHANGED entry /\ sync'.step = sync.step /\ sync'.seen = sync.seen /\ sync'.todo \subseteq sync.todo
    BY <1>0, <1>4 DEF RecordsAdopted, TypeOKLedger, Pass
  <2>2. \A j \in Mirrored : vm'[j].life = vm[j].life
    BY <1>0, <1>4 DEF RecordsAdopted, TypeOKLedger, VmRow
  <2>3. \A j \in Mirrored : sync'.rows[j].life = sync.rows[j].life
    <3>1. sync'.rows = [sync.rows EXCEPT ![i] = [sync.rows[i] EXCEPT !.ip = TRUE]]
      BY <1>0, <1>4 DEF RecordsAdopted, TypeOKLedger, Pass
    <3>2. sync.rows \in [Mirrored -> VmRow]
      BY <1>0 DEF TypeOKLedger, Pass
    <3>. QED  BY <3>1, <3>2 DEF VmRow
  <2>. QED  BY <2>1, <2>2, <2>3, NothingMade
<1>5. ASSUME ListsEntries PROVE Kept
  <2>1. /\ UNCHANGED <<vm, entry>> /\ sync.step = "adopt" /\ sync'.step = "entries" /\ sync'.rows = sync.rows
        /\ sync'.seen = {n \in DOMAIN entry : entry[n].there} /\ sync'.todo = ToRegister(sync.rows)
    BY <1>0, <1>5 DEF ListsEntries, TypeOKLedger, Pass
  <2>. QED  BY <2>1 DEF LedgerSound, EntriesKnown, RowsBehind, PassKnows, ToRegister, Existing
<1>6. ASSUME NEW i \in Mirrored, Registers(i) PROVE Kept
  <2>1. /\ UNCHANGED vm /\ i \in sync.todo /\ sync.step = "entries" /\ sync'.step = "entries"
        /\ sync'.rows = sync.rows /\ sync'.seen = sync.seen /\ sync'.todo = sync.todo
        /\ \A j \in Mirrored : j # i => entry'[j] = entry[j]
    BY <1>0, <1>6 DEF Registers, TypeOKLedger, Pass
  <2>2. sync.rows[i].life # "none" /\ vm[i].life # "none"
    BY <2>1 DEF LedgerSound, PassKnows, RowsBehind
  <2>. QED  BY <2>1, <2>2 DEF LedgerSound, EntriesKnown, RowsBehind, PassKnows
<1>7. ASSUME NEW i \in Mirrored, Links(i) \/ Names(i) \/ InstanceFails(i) PROVE Kept
  <2>1. /\ UNCHANGED vm /\ sync'.step = sync.step /\ sync'.rows = sync.rows /\ sync'.seen = sync.seen
        /\ sync'.todo \subseteq sync.todo
    <3>1. CASE Links(i)
      BY <1>0, <3>1 DEF Links, TypeOKLedger, Pass
    <3>2. CASE Names(i)
      BY <1>0, <3>2 DEF Names, TypeOKLedger, Pass
    <3>3. CASE InstanceFails(i)
      BY <1>0, <3>3 DEF InstanceFails, Fault, TypeOKLedger, Pass
    <3>. QED  BY <1>7, <3>1, <3>2, <3>3
  <2>2. \A j \in Mirrored : entry'[j].there = entry[j].there
    BY <1>0, <1>7 DEF Links, Names, InstanceFails, TypeOKLedger, Entry
  <2>. QED  BY <2>1, <2>2, NothingMade
<1>8. ASSUME AllRegistered \/ AllNamed PROVE Kept
  <2>1. /\ UNCHANGED <<vm, entry>> /\ sync'.step \in {"names", "sweep"} /\ sync'.rows = sync.rows
        /\ sync'.seen = sync.seen
    BY <1>0, <1>8 DEF AllRegistered, AllNamed, TypeOKLedger, Pass
  <2>. QED  BY <2>1 DEF LedgerSound, EntriesKnown, RowsBehind, PassKnows
<1>9. ASSUME NEW n \in Mirrored \cup Foreign, RemovesEntry(n) PROVE Kept
  <2>1. /\ UNCHANGED vm /\ sync'.step = sync.step /\ sync'.rows = sync.rows
        /\ sync'.seen \subseteq sync.seen /\ sync'.todo = sync.todo
    BY <1>0, <1>9 DEF RemovesEntry, TypeOKLedger, Pass
  <2>2. \A j \in Mirrored : entry'[j].there => entry[j].there
    BY <1>0, <1>9 DEF RemovesEntry, NoEntry, TypeOKLedger
  <2>. QED  BY <2>1, <2>2, NothingMade
<1>10. ASSUME EndsPass PROVE Kept
  BY <1>10, Afresh DEF EndsPass
<1>11. ASSUME PassFails PROVE Kept
  <2>1. UNCHANGED <<vm, entry>>
    BY <1>11 DEF PassFails, Fault
  <2>2. CASE sync' = Waiting
    BY <2>1, <2>2, Afresh
  <2>3. CASE sync' = [sync EXCEPT !.step = "sweep", !.todo = {}]
    <3>1. sync'.step = "sweep" /\ sync'.rows = sync.rows /\ sync'.seen = sync.seen /\ sync'.todo = {}
      BY <1>0, <2>3 DEF TypeOKLedger, Pass
    <3>. QED  BY <2>1, <3>1, NothingMade
  <2>. QED  BY <1>11, <2>2, <2>3 DEF PassFails
<1>12. CASE UNCHANGED ledgervars
  BY <1>12, NothingMade DEF ledgervars
<1>. QED
  BY <1>1, <1>2, <1>3, <1>4, <1>5, <1>6, <1>7, <1>8, <1>9, <1>10, <1>11, <1>12 DEF NextLedger, PassSteps

LEMMA LedgerSoundAtFirst == InitLedger => LedgerSound
<1> SUFFICES ASSUME InitLedger PROVE LedgerSound
  OBVIOUS
<1>1. TypeOKLedger
  BY LedgerTypedAtFirst
<1>2. PICK known \in SUBSET Mirrored :
        /\ vm = [i \in Mirrored |-> IF i \in known
                   THEN [NoVm EXCEPT !.life = "running", !.ip = TRUE] ELSE NoVm]
        /\ entry = [n \in Mirrored \cup Foreign |-> IF n \in known
                      THEN [NoEntry EXCEPT !.there = TRUE, !.active = TRUE, !.primary = TRUE]
                      ELSE [NoEntry EXCEPT !.there = n \in Foreign]]
        /\ sync = Waiting
  BY DEF InitLedger
<1>3. EntriesKnown
  <2>1. ASSUME NEW i \in Mirrored, entry[i].there PROVE vm[i].life # "none"
    <3>1. i \notin Foreign
      BY LedgerAssumption
    <3>2. i \in known
      BY <1>2, <2>1, <3>1 DEF NoEntry
    <3>. QED  BY <1>2, <3>2 DEF NoVm
  <2>. QED  BY <2>1 DEF EntriesKnown
<1>4. RowsBehind /\ PassKnows
  BY <1>2 DEF RowsBehind, PassKnows, Waiting, NoVm
<1>. QED  BY <1>1, <1>3, <1>4 DEF LedgerSound

LEMMA LedgerSoundAlways == SpecLedger => []LedgerSound
BY LedgerKept, LedgerSoundAtFirst, PTL DEF SpecLedger

-----------------------------------------------------------------------------
(* The ledger: the theorems                                                 *)

(* Every row, entry, address and pass stays in its type, whatever happens to   *)
(* the instances and whatever fails.                                           *)
THEOREM LedgerTyped == SpecLedger => []TypeOKLedger
<1>1. LedgerSound => TypeOKLedger
  BY DEF LedgerSound
<1>. QED  BY <1>1, LedgerSoundAlways, PTL

(* A pass that works on rows it read long ago removes no entry but of an       *)
(* instance that is terminated, and none that somebody else made               *)
(* (syncLedger's sweep), whatever is launched, adopted, ended or fails         *)
(* meanwhile.                                                                  *)
THEOREM DeadEntriesOnly == SpecLedger => OnlyDeadEntriesRemoved
<1>1. ASSUME LedgerSound, [NextLedger]_ledgervars,
             NEW n \in DOMAIN entry, entry[n].there, ~entry'[n].there
      PROVE  n \in Mirrored /\ vm[n].life = "terminated"
  <2>0. n \in Mirrored \cup Foreign /\ TypeOKLedger
    BY <1>1 DEF LedgerSound, TypeOKLedger
  <2>1. \E m \in Mirrored \cup Foreign : RemovesEntry(m)
    <3>1. CASE UNCHANGED entry
      BY <1>1, <3>1
    <3>2. ASSUME NEW i \in Mirrored, ReleasesAddress(i) \/ Links(i) PROVE FALSE
      <4>1. \E b \in BOOLEAN : entry' = [entry EXCEPT ![i] = [entry[i] EXCEPT !.primary = b]]
        <5>1. CASE ReleasesAddress(i)
          BY <5>1 DEF ReleasesAddress
        <5>2. CASE Links(i)
          <6>1. (entry[i].primary \/ address[i].there) \in BOOLEAN
            OBVIOUS
          <6>2. entry' = [entry EXCEPT ![i] = [entry[i] EXCEPT !.primary = entry[i].primary \/ address[i].there]]
            BY <2>0, <5>2 DEF Links, TypeOKLedger, Entry
          <6>. QED  BY <6>1, <6>2
        <5>. QED  BY <3>2, <5>1, <5>2
      <4>2. entry'[n].there = entry[n].there
        BY <2>0, <4>1 DEF TypeOKLedger, Entry
      <4>. QED  BY <1>1, <4>2
    <3>3. ASSUME NEW i \in Mirrored, Registers(i) PROVE FALSE
      <4>1. Written(i).there = TRUE
        BY <2>0 DEF Written, TypeOKLedger, Entry
      <4>2. entry' = [entry EXCEPT ![i] = Written(i)]
        BY <3>3 DEF Registers
      <4>. QED  BY <1>1, <2>0, <4>1, <4>2 DEF TypeOKLedger
    <3>. QED  BY <1>1, <3>1, <3>2, <3>3 DEF NextLedger, PassSteps, Launches, Adopts, TakesAddress,
      Settles, Renames, AsksEnd, EndsVm, StartsPass, RecordsAdopted, ListsEntries, AllRegistered,
      Names, AllNamed, EndsPass, InstanceFails, PassFails, ledgervars
  <2>2. PICK m \in Mirrored \cup Foreign : RemovesEntry(m)
    BY <2>1
  <2>3. n = m
    BY <1>1, <2>0, <2>2 DEF RemovesEntry, TypeOKLedger
  <2>4. n \in sync.seen /\ n \in Mirrored /\ ~Existing(sync.rows[n])
    BY <2>2, <2>3 DEF RemovesEntry, Orphans
  <2>. QED  BY <1>1, <2>4 DEF LedgerSound, PassKnows, RowsBehind, Existing
<1>2. LedgerSound /\ [NextLedger]_ledgervars =>
        [\A n \in DOMAIN entry : entry[n].there /\ ~entry'[n].there =>
            n \in Mirrored /\ vm[n].life = "terminated"]_ledgervars
  BY <1>1
<1>. QED  BY <1>2, LedgerSoundAlways, PTL DEF SpecLedger, OnlyDeadEntriesRemoved

-----------------------------------------------------------------------------
(* Access: the invariant                                                    *)

\* What a step of a request still needs of what the earlier ones found.
VisitsSound ==
    \A v \in Visitor :
       /\ visit[v].step \in {"exchange", "record", "session"} =>
             visit[v].who \in Person /\ visit[v].attempt \in Attempt
       /\ visit[v].step = "record" => visit[v].claim \in {"user", "admin"}
       /\ visit[v].step = "ticket" => visit[v].url \in Url

\* v's request has taken the attempt and not opened its session yet.
LogsIn(v, a) == visit[v].step \in {"exchange", "record", "session"} /\ visit[v].attempt = a

AttemptsSound ==
    \A a \in Attempt :
       /\ attempt[a] \in {"none", "open", "gone"} /\ opened[a] \in 0..1
       /\ attempt[a] # "gone" => opened[a] = 0
       /\ \A v \in Visitor : LogsIn(v, a) =>
             /\ attempt[a] = "gone" /\ opened[a] = 0
             /\ \A w \in Visitor : LogsIn(w, a) => w = v

TicketsSound ==
    /\ \A t \in Ticket : joined[t] = {} \/ \E v \in Visitor : joined[t] = {v}
    /\ \A u \in Url : console[u].ticket # NoTicket =>
          /\ console[u].ticket \in Ticket /\ joined[console[u].ticket] = {}
          /\ \A w \in Url : console[w].ticket = console[u].ticket => w = u

\* A request that holds an account's lock for a new key.
MakesKey(v) == visit[v].step \in {"count", "insert"}

KeysSound ==
    /\ \A k \in Key : key[k].state = "none" => key[k].owner = Nobody
    /\ \A p \in Person : Cardinality(Active(p)) <= MaxActive
    /\ \A v \in Visitor : MakesKey(v) =>
          /\ visit[v].who \in Person
          /\ visit[v].key \in Key /\ key[visit[v].key].state = "none"
          /\ visit[v].key # keyfile
          /\ \A w \in Visitor : MakesKey(w) /\ w # v =>
                visit[w].who # visit[v].who /\ visit[w].key # visit[v].key
          /\ visit[v].step = "insert" => Cardinality(Active(visit[v].who)) < MaxActive

Typed == TypeOKAccess /\ VisitsSound

AccessSound == Typed /\ AttemptsSound /\ TicketsSound /\ KeysSound

-----------------------------------------------------------------------------
(* Access: types                                                            *)

LEMMA RowTyped ==
  ASSUME NEW r \in ConsoleRow, NEW t \in Ticket \cup {NoTicket}
  PROVE  /\ [r EXCEPT !.ticket = t] \in ConsoleRow
         /\ [r EXCEPT !.live = FALSE, !.ticket = NoTicket] \in ConsoleRow
BY DEF ConsoleRow

LEMMA NoVisitTyped == NoVisit \in Visit
BY DEF NoVisit, Visit

LEMMA VisitStepTyped ==
  ASSUME NEW r \in Visit, NEW s \in {"insert", "record", "session"}
  PROVE  [r EXCEPT !.step = s] \in Visit
BY DEF Visit

LEMMA AccessTypedAtFirst == InitAccess => Typed
<1> SUFFICES ASSUME InitAccess PROVE Typed
  OBVIOUS
<1> USE AccessAssumption DEF InitAccess
<1>1. key \in [Key -> KeyRow]
  BY DEF KeyRow
<1>2. console \in [Url -> ConsoleRow]
  BY DEF NoConsole, ConsoleRow
<1>3. visit \in [Visitor -> Visit]
  BY NoVisitTyped
<1>4. account \in [Person -> {"none", "user", "admin"}] /\ session \subseteq Person
  OBVIOUS
<1>5. VisitsSound
  BY DEF VisitsSound, NoVisit
<1>6. joined \in [Ticket -> SUBSET Visitor] /\ opened \in [Attempt -> Nat]
  OBVIOUS
<1>7. visits \in 0..MaxVisits /\ attempt \in [Attempt -> {"none", "open", "gone"}]
  OBVIOUS
<1>8. group \in [Person -> {"out", "user", "admin"}] /\ serving \in BOOLEAN
  OBVIOUS
<1>. QED  BY <1>1, <1>2, <1>3, <1>4, <1>5, <1>6, <1>7, <1>8 DEF Typed, TypeOKAccess

LEMMA ComesTyped ==
  ASSUME TypeOKAccess, NEW v \in Visitor, NEW w \in Visit, Comes(v, w)
  PROVE  /\ visit' \in [Visitor -> Visit] /\ visits' \in 0..MaxVisits
         /\ visit'[v] = w /\ \A u \in Visitor : u # v => visit'[u] = visit[u]
BY AccessAssumption DEF TypeOKAccess, Comes, Visited

LEMMA VisitedTyped ==
  ASSUME TypeOKAccess, Visited
  PROVE  visits' \in 0..MaxVisits
BY AccessAssumption DEF TypeOKAccess, Visited

LEMMA LeavesTyped ==
  ASSUME TypeOKAccess, NEW v \in Visitor, Leaves(v)
  PROVE  /\ visit' \in [Visitor -> Visit] /\ visits' \in 0..MaxVisits
         /\ visit'[v] = NoVisit /\ \A u \in Visitor : u # v => visit'[u] = visit[u]
BY NoVisitTyped DEF TypeOKAccess, Leaves

LEMMA MovesTyped ==
  ASSUME TypeOKAccess, NEW v \in Visitor, NEW s \in {"insert", "session"}, Moves(v, s)
  PROVE  /\ visit' \in [Visitor -> Visit] /\ visits' \in 0..MaxVisits
         /\ visit'[v].step = s /\ visit'[v].who = visit[v].who
         /\ visit'[v].key = visit[v].key /\ visit'[v].attempt = visit[v].attempt
         /\ \A u \in Visitor : u # v => visit'[u] = visit[u]
<1>1. visit[v] \in Visit
  BY DEF TypeOKAccess
<1>2. [visit[v] EXCEPT !.step = s] \in Visit
  BY <1>1, VisitStepTyped
<1>3. visit' = [visit EXCEPT ![v] = [visit[v] EXCEPT !.step = s]]
  BY DEF Moves
<1>4. visit'[v] = [visit[v] EXCEPT !.step = s]
  BY <1>3 DEF TypeOKAccess
<1>5. visit'[v].step = s /\ visit'[v].who = visit[v].who /\ visit'[v].key = visit[v].key
      /\ visit'[v].attempt = visit[v].attempt
  BY <1>1, <1>4 DEF Visit
<1>. QED  BY <1>2, <1>3, <1>5 DEF Moves, TypeOKAccess

\* What a request reads of itself.
LEMMA VisitParts ==
  ASSUME TypeOKAccess, NEW v \in Visitor
  PROVE  /\ visit[v] \in Visit /\ visit[v].who \in Person \cup {Nobody}
         /\ visit[v].url \in Url \cup {Nobody} /\ visit[v].attempt \in Attempt \cup {Nobody}
         /\ visit[v].key \in Key \cup {NoFile} /\ visit[v].claim \in {"out", "user", "admin"}
BY DEF TypeOKAccess, Visit

LEMMA LeavesSound ==
  ASSUME Typed, NEW v \in Visitor, Leaves(v)
  PROVE  VisitsSound'
<1>1. visit'[v].step = "idle" /\ \A u \in Visitor : u # v => visit'[u] = visit[u]
  BY LeavesTyped DEF Typed, NoVisit
<1>2. ASSUME NEW u \in Visitor
      PROVE  /\ visit'[u].step \in {"exchange", "record", "session"} =>
                  visit'[u].who \in Person /\ visit'[u].attempt \in Attempt
             /\ visit'[u].step = "record" => visit'[u].claim \in {"user", "admin"}
             /\ visit'[u].step = "ticket" => visit'[u].url \in Url
  <2>1. CASE u = v
    BY <1>1, <2>1
  <2>2. CASE u # v
    BY <1>1, <2>2 DEF Typed, VisitsSound
  <2>. QED  BY <2>1, <2>2
<1>. QED  BY <1>2 DEF VisitsSound

LEMMA AccessTypesKept == Typed /\ [NextAccess]_accessvars => Typed'
<1> SUFFICES ASSUME Typed, [NextAccess]_accessvars PROVE Typed'
  OBVIOUS
<1> USE AccessAssumption DEF Keys, Logins, Consoles, Typed
<1>1. CASE ReconcilesBootstrapKey
  BY <1>1 DEF ReconcilesBootstrapKey, TypeOKAccess, KeyRow, VisitsSound
<1>2. CASE Restarts
  <2>1. visit' \in [Visitor -> Visit] /\ VisitsSound'
    BY <1>2, NoVisitTyped DEF Restarts, VisitsSound, NoVisit
  <2>2. console' \in [Url -> ConsoleRow]
    BY <1>2 DEF Restarts, NoConsole, ConsoleRow
  <2>. QED  BY <1>2, <2>1, <2>2, VisitedTyped DEF Restarts, TypeOKAccess
<1>3. CASE \E k \in Key \cup {NoFile} : WritesFile(k)
  BY <1>3, VisitedTyped DEF WritesFile, TypeOKAccess, VisitsSound
<1>4. CASE \E k \in Key : KeyExpires(k)
  BY <1>4, VisitedTyped DEF KeyExpires, TypeOKAccess, KeyRow, VisitsSound
<1>5. CASE \E k \in Key, p \in Person : DeletesKey(p, k)
  BY <1>5, VisitedTyped DEF DeletesKey, TypeOKAccess, KeyRow, VisitsSound
<1>6. CASE \E a \in Attempt : StartsLogin(a) \/ AttemptExpires(a)
  BY <1>6, VisitedTyped DEF StartsLogin, AttemptExpires, TypeOKAccess, VisitsSound
<1>7. CASE \E p \in Person : EndsSession(p) \/ \E g \in {"out", "user", "admin"} : ChangesGroup(p, g)
  BY <1>7, VisitedTyped DEF EndsSession, ChangesGroup, TypeOKAccess, VisitsSound
<1>8. CASE \E u \in Url : UrlExpires(u) \/ \E p \in Person : PutsConsole(p, u)
  <2>1. PICK u \in Url : UrlExpires(u) \/ \E p \in Person : PutsConsole(p, u)
    BY <1>8
  <2>2. CASE UrlExpires(u)
    <3>1. console' = [console EXCEPT ![u] = [console[u] EXCEPT !.live = FALSE, !.ticket = NoTicket]]
      BY <2>2 DEF UrlExpires, TypeOKAccess
    <3>2. [console[u] EXCEPT !.live = FALSE, !.ticket = NoTicket]
            \in ConsoleRow
      BY RowTyped DEF TypeOKAccess, ConsoleRow
    <3>3. console' \in [Url -> ConsoleRow]
      BY <3>1, <3>2 DEF TypeOKAccess
    <3>. QED  BY <2>2, <3>3, VisitedTyped DEF UrlExpires, TypeOKAccess, VisitsSound
  <2>3. ASSUME NEW p \in Person, PutsConsole(p, u) PROVE Typed'
    <3>1. console' \in [Url -> ConsoleRow]
      BY <2>3 DEF PutsConsole, TypeOKAccess, ConsoleRow
    <3>. QED  BY <2>3, <3>1, VisitedTyped DEF PutsConsole, TypeOKAccess, VisitsSound
  <2>. QED  BY <2>1, <2>2, <2>3
<1>9. ASSUME NEW v \in Visitor, Abandons(v) \/ CountsKeys(v) \/ InsertsKey(v)
      PROVE  Typed'
  <2>1. CASE Abandons(v)
    BY <2>1, LeavesTyped, LeavesSound DEF Abandons, TypeOKAccess
  <2>2. CASE CountsKeys(v)
    <3>1. VisitsSound'
      BY <2>2, MovesTyped DEF CountsKeys, VisitsSound
    <3>. QED  BY <2>2, <3>1, MovesTyped DEF CountsKeys, TypeOKAccess
  <2>3. CASE InsertsKey(v)
    <3>1. VisitsSound'
      BY <2>3, LeavesSound DEF InsertsKey
    <3>2. key' \in [Key -> KeyRow]
      BY <2>3, VisitParts DEF InsertsKey, TypeOKAccess, KeyRow
    <3>. QED  BY <2>3, <3>1, <3>2, LeavesTyped DEF InsertsKey, TypeOKAccess
  <2>. QED  BY <1>9, <2>1, <2>2, <2>3
<1>10. ASSUME NEW v \in Visitor,
              Exchanges(v) \/ RecordsLogin(v) \/ CreatesSession(v) \/ SetsTicket(v)
       PROVE  Typed'
  <2>1. CASE Exchanges(v)
    <3> DEFINE p == visit[v].who
               r == [visit[v] EXCEPT !.step = "record", !.claim = group[p]]
    <3>1. p \in Person /\ visit[v].attempt \in Attempt /\ group[p] \in {"user", "admin"}
      BY <2>1 DEF Exchanges, VisitsSound, TypeOKAccess
    <3>2. r \in Visit /\ r.step = "record" /\ r.claim = group[p] /\ r.who = p /\ r.attempt = visit[v].attempt
      BY <3>1, VisitParts DEF Visit
    <3>3. visit' = [visit EXCEPT ![v] = r]
      BY <2>1 DEF Exchanges
    <3>4. visit' \in [Visitor -> Visit] /\ VisitsSound'
      BY <3>1, <3>2, <3>3 DEF TypeOKAccess, VisitsSound
    <3>. QED  BY <2>1, <3>4 DEF Exchanges, TypeOKAccess
  <2>2. CASE RecordsLogin(v)
    <3>1. account' \in [Person -> {"none", "user", "admin"}]
      BY <2>2 DEF RecordsLogin, TypeOKAccess, VisitsSound
    <3>2. VisitsSound'
      BY <2>2, MovesTyped DEF RecordsLogin, VisitsSound
    <3>. QED  BY <2>2, <3>1, <3>2, MovesTyped DEF RecordsLogin, TypeOKAccess
  <2>3. CASE CreatesSession(v)
    <3>1. session' \subseteq Person /\ opened' \in [Attempt -> Nat]
      BY <2>3 DEF CreatesSession, TypeOKAccess, VisitsSound
    <3>2. VisitsSound'
      BY <2>3, LeavesSound DEF CreatesSession
    <3>. QED  BY <2>3, <3>1, <3>2, LeavesTyped DEF CreatesSession, TypeOKAccess
  <2>4. CASE SetsTicket(v)
    <3>1. console' \in [Url -> ConsoleRow]
      <4>1. PICK t \in Ticket : console' = [console EXCEPT ![visit[v].url].ticket = t]
        BY <2>4 DEF SetsTicket
      <4>2. visit[v].url \in Url
        BY <2>4 DEF SetsTicket, VisitsSound
      <4>3. console' = [console EXCEPT ![visit[v].url] = [console[visit[v].url] EXCEPT !.ticket = t]]
        BY <4>1
      <4>. QED  BY <4>2, <4>3, RowTyped DEF TypeOKAccess, ConsoleRow
    <3>2. VisitsSound'
      BY <2>4, LeavesSound DEF SetsTicket
    <3>. QED  BY <2>4, <3>1, <3>2, LeavesTyped DEF SetsTicket, TypeOKAccess
  <2>. QED  BY <1>10, <2>1, <2>2, <2>3, <2>4
<1>11. ASSUME NEW v \in Visitor, NEW p \in Person,
              \/ \E k \in Key : AsksKey(v, p, k)
              \/ \E a \in Attempt : TakesAttempt(v, a, p)
              \/ \E u \in Url : LoadsPage(v, p, u) \/ TakesTicket(v, p, u)
       PROVE  Typed'
  <2>1. ASSUME NEW k \in Key, AsksKey(v, p, k) PROVE Typed'
    <3> DEFINE w == [NoVisit EXCEPT !.step = "count", !.who = p, !.key = k]
    <3>1. w \in Visit /\ w.step = "count"
      BY DEF NoVisit, Visit
    <3>2. Comes(v, w)
      BY <2>1 DEF AsksKey, AsksKeyUnlocked
    <3> HIDE DEF w
    <3>3. VisitsSound'
      BY <3>1, <3>2, ComesTyped DEF VisitsSound
    <3>. QED  BY <2>1, <3>1, <3>2, <3>3, ComesTyped DEF AsksKey, AsksKeyUnlocked, TypeOKAccess
  <2>2. ASSUME NEW a \in Attempt, TakesAttempt(v, a, p) PROVE Typed'
    <3> DEFINE w == [NoVisit EXCEPT !.step = "exchange", !.who = p, !.attempt = a]
    <3>1. w \in Visit /\ w.step = "exchange" /\ w.who \in Person /\ w.attempt \in Attempt
      BY DEF NoVisit, Visit
    <3>2. Comes(v, w)
      BY <2>2 DEF TakesAttempt
    <3> HIDE DEF w
    <3>3. VisitsSound'
      BY <3>1, <3>2, ComesTyped DEF VisitsSound
    <3>. QED  BY <2>2, <3>1, <3>2, <3>3, ComesTyped DEF TakesAttempt, TypeOKAccess
  <2>3. ASSUME NEW u \in Url, LoadsPage(v, p, u) PROVE Typed'
    <3> DEFINE w == [NoVisit EXCEPT !.step = "ticket", !.who = p, !.url = u]
    <3>1. w \in Visit /\ w.step = "ticket" /\ w.url \in Url
      BY DEF NoVisit, Visit
    <3>2. Comes(v, w)
      BY <2>3 DEF LoadsPage
    <3> HIDE DEF w
    <3>3. VisitsSound'
      BY <3>1, <3>2, ComesTyped DEF VisitsSound
    <3>. QED  BY <2>3, <3>1, <3>2, <3>3, ComesTyped DEF LoadsPage, TypeOKAccess
  <2>4. ASSUME NEW u \in Url, TakesTicket(v, p, u) PROVE Typed'
    <3>1. console' \in [Url -> ConsoleRow]
      BY <2>4, RowTyped DEF TakesTicket, TypeOKAccess, ConsoleRow
    <3>2. joined' \in [Ticket -> SUBSET Visitor]
      BY <2>4 DEF TakesTicket, TypeOKAccess
    <3>. QED  BY <2>4, <3>1, <3>2, VisitedTyped DEF TakesTicket, TypeOKAccess, VisitsSound
  <2>. QED  BY <1>11, <2>1, <2>2, <2>3, <2>4
<1>12. CASE UNCHANGED accessvars
  BY <1>12 DEF accessvars, TypeOKAccess, VisitsSound
<1>. QED
  BY <1>1, <1>2, <1>3, <1>4, <1>5, <1>6, <1>7, <1>8, <1>9, <1>10, <1>11, <1>12 DEF NextAccess

-----------------------------------------------------------------------------
(* Access: what is used once                                                *)

\* A step that leaves the attempts alone only moves requests on or ends them.
LEMMA AttemptsKeptBy ==
  ASSUME AttemptsSound, UNCHANGED <<attempt, opened>>,
         \A v \in Visitor, a \in Attempt : LogsIn(v, a)' => LogsIn(v, a)
  PROVE  AttemptsSound'
BY DEF AttemptsSound

LEMMA AttemptsKept ==
  ASSUME AccessSound, [NextAccess]_accessvars
  PROVE  AttemptsSound'
<1> USE DEF AccessSound, Typed
<1>1. CASE UNCHANGED <<attempt, opened, visit>>
  BY <1>1, AttemptsKeptBy DEF LogsIn
<1>2. CASE Restarts
  BY <1>2, AttemptsKeptBy DEF Restarts, Logins, LogsIn, NoVisit
<1>3. CASE \E a \in Attempt : StartsLogin(a) \/ AttemptExpires(a)
  <2>1. PICK a \in Attempt : StartsLogin(a) \/ AttemptExpires(a)
    BY <1>3
  <2>2. CASE StartsLogin(a)
    <3>1. attempt' = [attempt EXCEPT ![a] = "open"] /\ UNCHANGED <<opened, visit>> /\ attempt[a] = "none"
      BY <2>2 DEF StartsLogin
    <3>. QED  BY <3>1 DEF AttemptsSound, LogsIn, TypeOKAccess
  <2>3. CASE AttemptExpires(a)
    <3>1. attempt' = [attempt EXCEPT ![a] = "gone"] /\ UNCHANGED <<opened, visit>> /\ attempt[a] = "open"
      BY <2>3 DEF AttemptExpires
    <3>. QED  BY <3>1 DEF AttemptsSound, LogsIn, TypeOKAccess
  <2>. QED  BY <2>1, <2>2, <2>3
<1>4. ASSUME NEW v \in Visitor, Abandons(v) \/ CountsKeys(v) \/ InsertsKey(v) \/ SetsTicket(v)
      PROVE  AttemptsSound'
  <2>1. UNCHANGED <<attempt, opened>>
    BY <1>4 DEF Abandons, CountsKeys, InsertsKey, SetsTicket, Logins
  <2>2. Leaves(v) \/ Moves(v, "insert")
    BY <1>4 DEF Abandons, CountsKeys, InsertsKey, SetsTicket
  <2>. QED  BY <2>1, <2>2, LeavesTyped, MovesTyped, AttemptsKeptBy DEF LogsIn, NoVisit
<1>5. ASSUME NEW v \in Visitor, Exchanges(v) PROVE AttemptsSound'
  <2>1. visit'[v].attempt = visit[v].attempt /\ \A w \in Visitor : w # v => visit'[w] = visit[w]
    <3>1. visit[v] \in Visit
      BY VisitParts
    <3>. QED  BY <1>5, <3>1 DEF Exchanges, TypeOKAccess, Visit
  <2>. QED  BY <1>5, <2>1, AttemptsKeptBy DEF Exchanges, Logins, LogsIn
<1>6. ASSUME NEW v \in Visitor, RecordsLogin(v) PROVE AttemptsSound'
  BY <1>6, MovesTyped, AttemptsKeptBy DEF RecordsLogin, LogsIn
<1>7. ASSUME NEW v \in Visitor, CreatesSession(v) PROVE AttemptsSound'
  <2> DEFINE a == visit[v].attempt
  <2>1. a \in Attempt /\ LogsIn(v, a)
    BY <1>7 DEF CreatesSession, VisitsSound, LogsIn
  <2>2. attempt[a] = "gone" /\ opened[a] = 0 /\ \A w \in Visitor : LogsIn(w, a) => w = v
    BY <2>1 DEF AttemptsSound
  <2>3. opened' = [opened EXCEPT ![a] = @ + 1] /\ attempt' = attempt
    BY <1>7 DEF CreatesSession
  <2>4. visit'[v] = NoVisit /\ \A w \in Visitor : w # v => visit'[w] = visit[w]
    BY <1>7, LeavesTyped DEF CreatesSession
  <2>5. \A w \in Visitor, b \in Attempt : LogsIn(w, b)' <=> w # v /\ LogsIn(w, b)
    BY <2>4 DEF LogsIn, NoVisit
  <2>6. \A b \in Attempt : opened'[b] = IF b = a THEN 1 ELSE opened[b]
    BY <2>2, <2>3 DEF TypeOKAccess
  <2>. QED  BY <2>1, <2>2, <2>3, <2>5, <2>6 DEF AttemptsSound
<1>8. ASSUME NEW v \in Visitor, NEW p \in Person, NEW a \in Attempt, TakesAttempt(v, a, p)
      PROVE  AttemptsSound'
  <2> DEFINE w == [NoVisit EXCEPT !.step = "exchange", !.who = p, !.attempt = a]
  <2>1. w \in Visit /\ w.step = "exchange" /\ w.attempt = a
    BY DEF NoVisit, Visit
  <2>2. Comes(v, w)
    BY <1>8 DEF TakesAttempt
  <2> HIDE DEF w
  <2>3. visit'[v] = w /\ \A u \in Visitor : u # v => visit'[u] = visit[u]
    BY <2>1, <2>2, ComesTyped
  <2>4. visit[v].step = "idle" /\ ~\E b \in Attempt : LogsIn(v, b)
    BY <2>2 DEF Comes, LogsIn
  <2>5. attempt[a] = "open" /\ attempt' = [attempt EXCEPT ![a] = "gone"] /\ opened' = opened
    BY <1>8 DEF TakesAttempt
  <2>6. \A u \in Visitor, b \in Attempt : LogsIn(u, b)' <=> LogsIn(u, b) \/ (u = v /\ b = a)
    BY <2>1, <2>3, <2>4 DEF LogsIn
  <2>. QED  BY <2>5, <2>6 DEF AttemptsSound, TypeOKAccess
<1>9. ASSUME NEW v \in Visitor, NEW p \in Person,
             \/ \E k \in Key : AsksKey(v, p, k)
             \/ \E u \in Url : LoadsPage(v, p, u)
      PROVE  AttemptsSound'
  <2>1. PICK w \in Visit : Comes(v, w) /\ w.step \in {"count", "ticket"}
    <3>1. ASSUME NEW k \in Key, AsksKey(v, p, k)
          PROVE  \E w \in Visit : Comes(v, w) /\ w.step \in {"count", "ticket"}
      <4> DEFINE w == [NoVisit EXCEPT !.step = "count", !.who = p, !.key = k]
      <4>1. w \in Visit /\ w.step = "count"
        BY DEF NoVisit, Visit
      <4>. QED  BY <3>1, <4>1 DEF AsksKey, AsksKeyUnlocked
    <3>2. ASSUME NEW u \in Url, LoadsPage(v, p, u)
          PROVE  \E w \in Visit : Comes(v, w) /\ w.step \in {"count", "ticket"}
      <4> DEFINE w == [NoVisit EXCEPT !.step = "ticket", !.who = p, !.url = u]
      <4>1. w \in Visit /\ w.step = "ticket"
        BY DEF NoVisit, Visit
      <4>. QED  BY <3>2, <4>1 DEF LoadsPage
    <3>. QED  BY <1>9, <3>1, <3>2
  <2>2. UNCHANGED <<attempt, opened>>
    BY <1>9 DEF AsksKey, AsksKeyUnlocked, LoadsPage, Logins
  <2>. QED  BY <2>1, <2>2, ComesTyped, AttemptsKeptBy DEF LogsIn
<1>. QED
  <2>1. CASE \/ ReconcilesBootstrapKey
             \/ \E k \in Key \cup {NoFile} : WritesFile(k)
             \/ \E k \in Key : KeyExpires(k) \/ \E p \in Person : DeletesKey(p, k)
             \/ \E p \in Person : EndsSession(p) \/ \E g \in {"out", "user", "admin"} : ChangesGroup(p, g)
             \/ \E u \in Url : UrlExpires(u) \/ \E p \in Person : PutsConsole(p, u)
             \/ \E v \in Visitor, p \in Person, u \in Url : TakesTicket(v, p, u)
             \/ UNCHANGED accessvars
    BY <1>1, <2>1 DEF ReconcilesBootstrapKey, WritesFile, KeyExpires, DeletesKey, EndsSession,
      ChangesGroup, UrlExpires, PutsConsole, TakesTicket, Logins, accessvars
  <2>. QED  BY <1>2, <1>3, <1>4, <1>5, <1>6, <1>7, <1>8, <1>9, <2>1 DEF NextAccess

LEMMA TicketsKept ==
  ASSUME AccessSound, [NextAccess]_accessvars
  PROVE  TicketsSound'
<1> USE AccessAssumption DEF AccessSound, Typed
<1>1. CASE UNCHANGED <<console, joined>>
  BY <1>1 DEF TicketsSound
<1>2. CASE Restarts
  BY <1>2 DEF Restarts, TicketsSound, NoConsole
<1>3. ASSUME NEW u \in Url, UrlExpires(u) PROVE TicketsSound'
  <2>1. joined' = joined /\ \A w \in Url : console'[w].ticket = IF w = u THEN NoTicket ELSE console[w].ticket
    BY <1>3 DEF UrlExpires, TypeOKAccess, ConsoleRow
  <2>. QED  BY <2>1 DEF TicketsSound
<1>4. ASSUME NEW u \in Url, NEW p \in Person, PutsConsole(p, u) PROVE TicketsSound'
  <2>1. joined' = joined /\ \A w \in Url : console'[w].ticket = IF w = u THEN NoTicket ELSE console[w].ticket
    BY <1>4 DEF PutsConsole, TypeOKAccess, ConsoleRow
  <2>. QED  BY <2>1 DEF TicketsSound
<1>5. ASSUME NEW v \in Visitor, SetsTicket(v) PROVE TicketsSound'
  <2> DEFINE u == visit[v].url
  <2>1. PICK t \in Ticket : /\ joined[t] = {} /\ \A w \in Url : console[w].ticket # t
                            /\ console' = [console EXCEPT ![u].ticket = t]
    BY <1>5 DEF SetsTicket
  <2>2. joined' = joined /\ u \in Url
    BY <1>5 DEF SetsTicket, VisitsSound
  <2>3. \A w \in Url : console'[w].ticket = IF w = u THEN t ELSE console[w].ticket
    BY <2>1, <2>2 DEF TypeOKAccess, ConsoleRow
  <2>. QED  BY <2>1, <2>2, <2>3 DEF TicketsSound
<1>6. ASSUME NEW v \in Visitor, NEW p \in Person, NEW u \in Url, TakesTicket(v, p, u)
      PROVE  TicketsSound'
  <2> DEFINE t == console[u].ticket
  <2>1. t # NoTicket /\ joined' = [joined EXCEPT ![t] = @ \cup {v}]
        /\ console' = [console EXCEPT ![u].ticket = NoTicket]
    BY <1>6 DEF TakesTicket
  <2>2. t \in Ticket /\ joined[t] = {} /\ \A w \in Url : console[w].ticket = t => w = u
    BY <2>1 DEF TicketsSound
  <2>3. \A w \in Url : console'[w].ticket = IF w = u THEN NoTicket ELSE console[w].ticket
    BY <2>1 DEF TypeOKAccess, ConsoleRow
  <2>4. \A s \in Ticket : joined'[s] = IF s = t THEN {v} ELSE joined[s]
    BY <2>1, <2>2 DEF TypeOKAccess
  <2>5. \A s \in Ticket : joined'[s] = {} \/ \E w \in Visitor : joined'[s] = {w}
    <3>1. ASSUME NEW s \in Ticket, s # t PROVE joined'[s] = joined[s]
      BY <2>4, <3>1
    <3>2. joined'[t] = {v}
      BY <2>2, <2>4
    <3>. QED  BY <3>1, <3>2 DEF TicketsSound
  <2>6. ASSUME NEW w \in Url, console'[w].ticket # NoTicket
        PROVE  /\ console'[w].ticket \in Ticket /\ joined'[console'[w].ticket] = {}
               /\ \A x \in Url : console'[x].ticket = console'[w].ticket => x = w
    <3>1. w # u /\ console'[w].ticket = console[w].ticket
      BY <2>3, <2>6
    <3>2. console[w].ticket # t
      BY <2>2, <3>1
    <3>3. /\ console[w].ticket \in Ticket /\ joined[console[w].ticket] = {}
          /\ \A x \in Url : console[x].ticket = console[w].ticket => x = w
      BY <2>6, <3>1 DEF TicketsSound
    <3>4. joined'[console[w].ticket] = {}
      BY <2>4, <3>2, <3>3
    <3>5. ASSUME NEW x \in Url, console'[x].ticket = console[w].ticket PROVE x = w
      BY <2>3, <2>6, <3>1, <3>3, <3>5
    <3>. QED  BY <3>1, <3>3, <3>4, <3>5
  <2>. QED  BY <2>5, <2>6 DEF TicketsSound
<1>. QED
  <2>1. CASE \/ ReconcilesBootstrapKey
             \/ \E k \in Key \cup {NoFile} : WritesFile(k)
             \/ \E k \in Key : KeyExpires(k) \/ \E p \in Person : DeletesKey(p, k)
             \/ \E a \in Attempt : StartsLogin(a) \/ AttemptExpires(a)
             \/ \E p \in Person : EndsSession(p) \/ \E g \in {"out", "user", "admin"} : ChangesGroup(p, g)
             \/ UNCHANGED accessvars
    BY <1>1, <2>1 DEF ReconcilesBootstrapKey, WritesFile, KeyExpires, DeletesKey, StartsLogin,
      AttemptExpires, EndsSession, ChangesGroup, Consoles, accessvars
  <2>2. ASSUME NEW v \in Visitor,
               \/ Abandons(v) \/ CountsKeys(v) \/ InsertsKey(v)
               \/ Exchanges(v) \/ RecordsLogin(v) \/ CreatesSession(v)
        PROVE  TicketsSound'
    BY <1>1, <2>2 DEF Abandons, CountsKeys, InsertsKey, Exchanges, RecordsLogin, CreatesSession, Consoles
  <2>3. ASSUME NEW v \in Visitor, NEW p \in Person,
               \/ \E k \in Key : AsksKey(v, p, k)
               \/ \E a \in Attempt : TakesAttempt(v, a, p)
               \/ \E u \in Url : LoadsPage(v, p, u)
        PROVE  TicketsSound'
    BY <1>1, <2>3 DEF AsksKey, AsksKeyUnlocked, TakesAttempt, LoadsPage, Consoles
  <2>. QED  BY <1>2, <1>3, <1>4, <1>5, <1>6, <2>1, <2>2, <2>3 DEF NextAccess

-----------------------------------------------------------------------------
(* Access: keys                                                             *)

LEMMA ActiveFinite ==
  ASSUME NEW p
  PROVE  IsFiniteSet(Active(p)) /\ Cardinality(Active(p)) \in Nat
<1>1. Active(p) \subseteq Key
  BY DEF Active
<1>. QED  BY <1>1, FS_Subset, FS_CardinalityType, AccessAssumption

\* No person's live keys grow and no key that is being made is touched.
LEMMA KeysKeptBy ==
  ASSUME Typed, KeysSound,
         \A k \in Key : key'[k].state = "none" => key'[k].owner = Nobody,
         \A p \in Person : Active(p)' \subseteq Active(p),
         \A v \in Visitor : MakesKey(v)' =>
            /\ MakesKey(v) /\ visit'[v] = visit[v]
            /\ key'[visit[v].key].state = "none" /\ visit[v].key # keyfile'
  PROVE  KeysSound'
<1>1. ASSUME NEW p \in Person
      PROVE  Cardinality(Active(p)') <= Cardinality(Active(p)) /\ Cardinality(Active(p)') \in Nat
  <2>1. Active(p)' \subseteq Active(p)
    OBVIOUS
  <2>. QED  BY <2>1, ActiveFinite, FS_Subset, FS_CardinalityType
<1>2. \A p \in Person : Cardinality(Active(p)') <= MaxActive
  BY <1>1, ActiveFinite, AccessAssumption DEF KeysSound
<1>3. \A v \in Visitor : visit'[v].step = "insert" /\ visit'[v] = visit[v] /\ visit[v].who \in Person
                            /\ Cardinality(Active(visit[v].who)) < MaxActive
        => Cardinality(Active(visit[v].who)') < MaxActive
  BY <1>1, ActiveFinite, AccessAssumption
<1>. QED  BY <1>2, <1>3 DEF KeysSound, MakesKey

\* The keys that are live afterwards, when one row of another key changes.
LEMMA KeyChanges ==
  ASSUME Typed, NEW k \in Key, NEW s \in {"expired", "revoked"}, key[k].state # "none",
         key' = [key EXCEPT ![k].state = s], UNCHANGED <<keyfile, visit>>, KeysSound
  PROVE  KeysSound'
<1>1. \A j \in Key : /\ key'[j].owner = key[j].owner
                     /\ key'[j].state = IF j = k THEN s ELSE key[j].state
  BY DEF Typed, TypeOKAccess, KeyRow
<1>2. \A p \in Person : Active(p)' \subseteq Active(p)
  BY <1>1 DEF Active
<1>3. \A j \in Key : key'[j].state = "none" => key'[j].owner = Nobody
  BY <1>1 DEF KeysSound
<1>4. \A v \in Visitor : MakesKey(v)' =>
         /\ MakesKey(v) /\ visit'[v] = visit[v]
         /\ key'[visit[v].key].state = "none" /\ visit[v].key # keyfile'
  BY <1>1 DEF KeysSound, MakesKey
<1>. QED  BY <1>2, <1>3, <1>4, KeysKeptBy

LEMMA KeysKeptStep ==
  ASSUME AccessSound, [NextAccess]_accessvars
  PROVE  KeysSound'
<1> USE AccessAssumption DEF AccessSound, Typed
<1>0. ASSUME UNCHANGED key PROVE /\ \A p \in Person : Active(p)' = Active(p)
                                 /\ \A k \in Key : key'[k].state = "none" => key'[k].owner = Nobody
  BY <1>0 DEF Active, KeysSound
<1>1. CASE UNCHANGED <<key, keyfile, visit>>
  BY <1>0, <1>1, KeysKeptBy DEF KeysSound, MakesKey
<1>2. CASE ReconcilesBootstrapKey
  <2>1. \A k \in Key :
           \/ key'[k] = key[k]
           \/ k = keyfile /\ key[k].state = "none" /\ key'[k] = [owner |-> Bootstrap, state |-> "live"]
           \/ k # keyfile /\ key[k].owner = Bootstrap /\ key'[k].owner = Bootstrap /\ key'[k].state = "revoked"
    BY <1>2 DEF ReconcilesBootstrapKey, TypeOKAccess, KeyRow
  <2>2. \A p \in Person : Active(p)' \subseteq Active(p)
    BY <2>1 DEF Active
  <2>3. \A k \in Key : key'[k].state = "none" => key'[k].owner = Nobody
    BY <2>1 DEF KeysSound
  <2>4. \A k \in Key : key[k].state = "none" /\ k # keyfile => key'[k].state = "none"
    BY <2>1 DEF KeysSound, Nobody, Bootstrap
  <2>5. UNCHANGED <<keyfile, visit>>
    BY <1>2 DEF ReconcilesBootstrapKey
  <2>6. \A v \in Visitor : MakesKey(v)' =>
           /\ MakesKey(v) /\ visit'[v] = visit[v]
           /\ key'[visit[v].key].state = "none" /\ visit[v].key # keyfile'
    BY <2>4, <2>5 DEF KeysSound, MakesKey
  <2>. QED  BY <2>2, <2>3, <2>6, KeysKeptBy
<1>3. CASE Restarts
  BY <1>0, <1>3, KeysKeptBy DEF Restarts, MakesKey, NoVisit
<1>4. ASSUME NEW k \in Key \cup {NoFile}, WritesFile(k) PROVE KeysSound'
  BY <1>0, <1>4, KeysKeptBy DEF WritesFile, MakesKey, KeysSound
<1>5. ASSUME NEW k \in Key, KeyExpires(k) PROVE KeysSound'
  BY <1>5, KeyChanges DEF KeyExpires
<1>6. ASSUME NEW k \in Key, NEW p \in Person, DeletesKey(p, k) PROVE KeysSound'
  BY <1>6, KeyChanges DEF DeletesKey
<1>7. ASSUME NEW v \in Visitor,
             \/ Abandons(v) \/ Exchanges(v) \/ RecordsLogin(v) \/ CreatesSession(v) \/ SetsTicket(v)
      PROVE  KeysSound'
  <2>1. UNCHANGED <<key, keyfile>>
    BY <1>7 DEF Abandons, Exchanges, RecordsLogin, CreatesSession, SetsTicket, Keys
  <2>2. ~MakesKey(v)' /\ \A w \in Visitor : w # v => visit'[w] = visit[w]
    <3>1. CASE Exchanges(v)
      <4>1. visit[v] \in Visit
        BY VisitParts
      <4>. QED  BY <3>1, <4>1 DEF Exchanges, TypeOKAccess, Visit, MakesKey
    <3>2. CASE Leaves(v) \/ Moves(v, "session")
      BY <3>2, LeavesTyped, MovesTyped DEF MakesKey, NoVisit
    <3>. QED  BY <1>7, <3>1, <3>2 DEF Abandons, RecordsLogin, CreatesSession, SetsTicket
  <2>3. \A w \in Visitor : MakesKey(w)' => w # v /\ MakesKey(w) /\ visit'[w] = visit[w]
    BY <2>2 DEF MakesKey
  <2>. QED  BY <1>0, <2>1, <2>3, KeysKeptBy DEF KeysSound
<1>8. ASSUME NEW v \in Visitor, CountsKeys(v) PROVE KeysSound'
  <2>1. UNCHANGED <<key, keyfile>> /\ visit[v].step = "count" /\ Cardinality(Active(visit[v].who)) < MaxActive
    BY <1>8 DEF CountsKeys, Keys
  <2>2. /\ visit'[v].who = visit[v].who /\ visit'[v].key = visit[v].key
        /\ \A w \in Visitor : w # v => visit'[w] = visit[w]
    BY <1>8, MovesTyped DEF CountsKeys
  <2>3. \A w \in Visitor : MakesKey(w)' => MakesKey(w)
    BY <2>1, <2>2 DEF MakesKey
  <2>4. \A w \in Visitor : visit'[w].who = visit[w].who /\ visit'[w].key = visit[w].key
    BY <2>2
  <2>5. \A p \in Person : Cardinality(Active(p)') <= MaxActive
    BY <1>0, <2>1 DEF KeysSound
  <2>6. ASSUME NEW w \in Visitor, MakesKey(w)'
        PROVE  /\ visit'[w].who \in Person
               /\ visit'[w].key \in Key /\ key'[visit'[w].key].state = "none"
               /\ visit'[w].key # keyfile'
               /\ \A u \in Visitor : MakesKey(u)' /\ u # w =>
                     visit'[u].who # visit'[w].who /\ visit'[u].key # visit'[w].key
    BY <2>1, <2>3, <2>4, <2>6 DEF KeysSound
  <2>7. ASSUME NEW w \in Visitor, visit'[w].step = "insert"
        PROVE  Cardinality(Active(visit[w].who)') < MaxActive
    <3>1. MakesKey(w) /\ visit[w].who \in Person
      BY <2>3, <2>7 DEF MakesKey, KeysSound
    <3>2. Cardinality(Active(visit[w].who)) < MaxActive
      <4>1. CASE w = v
        BY <2>1, <4>1
      <4>2. CASE w # v
        BY <2>2, <2>7, <3>1, <4>2 DEF KeysSound
      <4>. QED  BY <4>1, <4>2
    <3>. QED  BY <1>0, <2>1, <2>4, <3>1, <3>2
  <2>. QED  BY <1>0, <2>1, <2>5, <2>6, <2>7 DEF KeysSound
<1>9. ASSUME NEW v \in Visitor, InsertsKey(v) PROVE KeysSound'
  <2>0. PICK p, k : p = visit[v].who /\ k = visit[v].key
    OBVIOUS
  <2>1. /\ p \in Person /\ k \in Key /\ key[k].state = "none" /\ MakesKey(v)
        /\ Cardinality(Active(p)) < MaxActive
        /\ \A w \in Visitor : MakesKey(w) /\ w # v => visit[w].who # p /\ visit[w].key # k
    BY <1>9, <2>0 DEF InsertsKey, KeysSound, MakesKey
  <2>2. key' = [key EXCEPT ![k] = [owner |-> p, state |-> "live"]] /\ keyfile' = keyfile
    BY <1>9, <2>0 DEF InsertsKey
  <2>3. visit'[v] = NoVisit /\ \A w \in Visitor : w # v => visit'[w] = visit[w]
    BY <1>9, LeavesTyped DEF InsertsKey
  <2>4. \A j \in Key : key'[j] = IF j = k THEN [owner |-> p, state |-> "live"] ELSE key[j]
    BY <2>1, <2>2 DEF TypeOKAccess
  <2>5. Active(p)' = Active(p) \cup {k} /\ k \notin Active(p)
    BY <2>1, <2>4 DEF Active
  <2>6. Cardinality(Active(p)') <= MaxActive
    <3>1. Cardinality(Active(p)') = Cardinality(Active(p)) + 1
      BY <2>5, ActiveFinite, FS_AddElement
    <3>. QED  BY <2>1, <3>1, ActiveFinite
  <2>7. \A q \in Person : q # p => Active(q)' = Active(q)
    BY <2>1, <2>4 DEF Active
  <2>8. \A q \in Person : Cardinality(Active(q)') <= MaxActive
    BY <2>6, <2>7 DEF KeysSound
  <2>9. \A w \in Visitor : MakesKey(w)' => w # v /\ MakesKey(w) /\ visit'[w] = visit[w]
    <3>1. ~MakesKey(v)'
      BY <2>3 DEF MakesKey, NoVisit
    <3>. QED  BY <2>3, <3>1 DEF MakesKey
  <2>10. \A w \in Visitor : MakesKey(w)' =>
            key'[visit[w].key].state = "none" /\ Active(visit[w].who)' = Active(visit[w].who)
    BY <2>1, <2>4, <2>7, <2>9 DEF KeysSound
  <2>11. \A j \in Key : key'[j].state = "none" => key'[j].owner = Nobody
    BY <2>4 DEF KeysSound
  <2>. QED  BY <2>2, <2>8, <2>9, <2>10, <2>11 DEF KeysSound
<1>10. ASSUME NEW v \in Visitor, NEW p \in Person, NEW k \in Key, AsksKey(v, p, k) PROVE KeysSound'
  <2> DEFINE w == [NoVisit EXCEPT !.step = "count", !.who = p, !.key = k]
  <2>1. w \in Visit /\ w.step = "count" /\ w.who = p /\ w.key = k
    BY DEF NoVisit, Visit
  <2>2. /\ Comes(v, w) /\ UNCHANGED <<key, keyfile>> /\ key[k].state = "none" /\ k # keyfile
        /\ \A u \in Visitor : visit[u].key # k /\ (MakesKey(u) => visit[u].who # p)
    BY <1>10 DEF AsksKey, AsksKeyUnlocked, Keys, MakesKey
  <2> HIDE DEF w
  <2>3. visit'[v] = w /\ \A u \in Visitor : u # v => visit'[u] = visit[u]
    BY <2>1, <2>2, ComesTyped
  <2>. QED  BY <1>0, <2>1, <2>2, <2>3 DEF KeysSound, MakesKey
<1>11. ASSUME NEW v \in Visitor, NEW p \in Person,
              \/ \E a \in Attempt : TakesAttempt(v, a, p)
              \/ \E u \in Url : LoadsPage(v, p, u)
       PROVE  KeysSound'
  <2>1. PICK w \in Visit : Comes(v, w) /\ w.step \in {"exchange", "ticket"}
    <3>1. ASSUME NEW a \in Attempt, TakesAttempt(v, a, p)
          PROVE  \E w \in Visit : Comes(v, w) /\ w.step \in {"exchange", "ticket"}
      <4> DEFINE w == [NoVisit EXCEPT !.step = "exchange", !.who = p, !.attempt = a]
      <4>1. w \in Visit /\ w.step = "exchange"
        BY DEF NoVisit, Visit
      <4>. QED  BY <3>1, <4>1 DEF TakesAttempt
    <3>2. ASSUME NEW u \in Url, LoadsPage(v, p, u)
          PROVE  \E w \in Visit : Comes(v, w) /\ w.step \in {"exchange", "ticket"}
      <4> DEFINE w == [NoVisit EXCEPT !.step = "ticket", !.who = p, !.url = u]
      <4>1. w \in Visit /\ w.step = "ticket"
        BY DEF NoVisit, Visit
      <4>. QED  BY <3>2, <4>1 DEF LoadsPage
    <3>. QED  BY <1>11, <3>1, <3>2
  <2>2. UNCHANGED <<key, keyfile>>
    BY <1>11 DEF TakesAttempt, LoadsPage, Keys
  <2>3. \A u \in Visitor : MakesKey(u)' => MakesKey(u) /\ visit'[u] = visit[u]
    BY <2>1, ComesTyped DEF MakesKey
  <2>. QED  BY <1>0, <2>2, <2>3, KeysKeptBy DEF KeysSound
<1>. QED
  <2>1. CASE \/ \E a \in Attempt : StartsLogin(a) \/ AttemptExpires(a)
             \/ \E p \in Person : EndsSession(p) \/ \E g \in {"out", "user", "admin"} : ChangesGroup(p, g)
             \/ \E u \in Url : UrlExpires(u) \/ \E p \in Person : PutsConsole(p, u)
             \/ \E v \in Visitor, p \in Person, u \in Url : TakesTicket(v, p, u)
             \/ UNCHANGED accessvars
    BY <1>1, <2>1 DEF StartsLogin, AttemptExpires, EndsSession, ChangesGroup, UrlExpires, PutsConsole,
      TakesTicket, Keys, accessvars
  <2>. QED  BY <1>2, <1>3, <1>4, <1>5, <1>6, <1>7, <1>8, <1>9, <1>10, <1>11, <2>1 DEF NextAccess

-----------------------------------------------------------------------------
(* Access: the theorems                                                     *)

LEMMA AccessSoundAtFirst == InitAccess => AccessSound
<1> SUFFICES ASSUME InitAccess PROVE AccessSound
  OBVIOUS
<1>1. Typed
  BY AccessTypedAtFirst
<1>2. AttemptsSound
  BY DEF InitAccess, AttemptsSound, LogsIn, NoVisit
<1>3. TicketsSound
  BY DEF InitAccess, TicketsSound, NoConsole
<1>4. \A p \in Person : Active(p) = {}
  BY DEF InitAccess, Active
<1>5. KeysSound
  <2>1. \A p \in Person : Cardinality(Active(p)) <= MaxActive
    BY <1>4, FS_EmptySet, AccessAssumption
  <2>2. \A v \in Visitor : ~MakesKey(v)
    BY DEF InitAccess, MakesKey, NoVisit
  <2>3. \A k \in Key : key[k].state = "none" => key[k].owner = Nobody
    BY DEF InitAccess
  <2>. QED  BY <2>1, <2>2, <2>3 DEF KeysSound
<1>. QED  BY <1>1, <1>2, <1>3, <1>5 DEF AccessSound

LEMMA SoundAlways == SpecAccess => []AccessSound
<1>1. AccessSound /\ [NextAccess]_accessvars => AccessSound'
  BY AccessTypesKept, AttemptsKept, TicketsKept, KeysKeptStep DEF AccessSound
<1>. QED  BY <1>1, AccessSoundAtFirst, PTL DEF SpecAccess

(* Every row, login, session, URL and request stays in its type, whatever the  *)
(* requests, the clock, the group service and restarts do.                     *)
THEOREM AccessTyped == SpecAccess => []TypeOKAccess
<1>1. AccessSound => TypeOKAccess
  BY DEF AccessSound, Typed
<1>. QED  BY <1>1, SoundAlways, PTL

(* An attempt opens at most one session and a ticket lets at most one socket   *)
(* in (TakeLoginAttempt, takeTicket), with any number of callbacks, page loads *)
(* and sockets at once.                                                        *)
THEOREM NothingTakenTwice == SpecAccess => []TakenOnce
<1>1. ASSUME AccessSound PROVE TakenOnce
  <2>1. \A a \in Attempt : opened[a] <= 1
    BY <1>1 DEF AccessSound, AttemptsSound
  <2>2. \A t \in Ticket : Cardinality(joined[t]) <= 1
    <3>1. ASSUME NEW t \in Ticket PROVE Cardinality(joined[t]) <= 1
      <4>1. CASE joined[t] = {}
        BY <4>1, FS_EmptySet
      <4>2. ASSUME NEW v \in Visitor, joined[t] = {v} PROVE Cardinality(joined[t]) <= 1
        <5>1. Cardinality({v}) = 1
          BY FS_Singleton
        <5>. QED  BY <4>2, <5>1
      <4>. QED  BY <1>1, <4>1, <4>2 DEF AccessSound, TicketsSound
    <3>. QED  BY <3>1
  <2>. QED  BY <2>1, <2>2 DEF TakenOnce
<1>. QED  BY <1>1, SoundAlways, PTL

(* A person's live keys stay within the limit, a revoked key stays revoked and *)
(* a start leaves the bootstrap account only the file's key, however many      *)
(* requests make keys at once (createAccessKey, ReconcileBootstrapKey).        *)
THEOREM KeysKeptAlways == SpecAccess => KeysKept
<1>1. ASSUME AccessSound, AccessSound', [NextAccess]_accessvars
      PROVE  /\ \A p \in Person : Cardinality(Active(p)') <= MaxActive
             /\ \A k \in Key : key[k].state = "revoked" => key'[k].state = "revoked"
             /\ ~serving /\ serving' =>
                   {k \in Key : key'[k].owner = Bootstrap /\ key'[k].state = "live"} \subseteq {keyfile}
  <2> USE AccessAssumption
  <2>1. \A p \in Person : Cardinality(Active(p)') <= MaxActive
    BY <1>1 DEF AccessSound, KeysSound
  <2>2. CASE ReconcilesBootstrapKey
    BY <2>1, <2>2 DEF ReconcilesBootstrapKey
  <2>3. CASE UNCHANGED serving \/ serving' = FALSE
    <3>1. \A k \in Key : key[k].state = "revoked" => key'[k].state = "revoked"
      <4>1. CASE UNCHANGED key
        BY <4>1
      <4>2. ASSUME NEW v \in Visitor, InsertsKey(v)
            PROVE  \A k \in Key : key[k].state = "revoked" => key'[k].state = "revoked"
        <5>1. visit[v].key \in Key /\ key[visit[v].key].state = "none"
          BY <1>1, <4>2 DEF AccessSound, KeysSound, MakesKey, InsertsKey
        <5>. QED  BY <1>1, <4>2, <5>1 DEF InsertsKey, AccessSound, Typed, TypeOKAccess
      <4>3. CASE \E k \in Key : KeyExpires(k) \/ \E p \in Person : DeletesKey(p, k)
        BY <1>1, <4>3 DEF KeyExpires, DeletesKey, AccessSound, Typed, TypeOKAccess, KeyRow
      <4>4. CASE ReconcilesBootstrapKey
        BY <4>4 DEF ReconcilesBootstrapKey
      <4>. QED  BY <1>1, <4>1, <4>2, <4>3, <4>4 DEF NextAccess, Restarts, WritesFile, StartsLogin,
        AttemptExpires, EndsSession, ChangesGroup, UrlExpires, PutsConsole, Abandons, CountsKeys,
        Exchanges, RecordsLogin, CreatesSession, SetsTicket, AsksKey, AsksKeyUnlocked, TakesAttempt,
        LoadsPage, TakesTicket, Keys, accessvars
    <3>. QED  BY <2>1, <2>3, <3>1
  <2>4. ReconcilesBootstrapKey \/ UNCHANGED serving \/ serving' = FALSE
    BY <1>1 DEF NextAccess, Restarts, WritesFile, KeyExpires, DeletesKey, StartsLogin,
      AttemptExpires, EndsSession, ChangesGroup, UrlExpires, PutsConsole, Abandons, CountsKeys, InsertsKey,
      Exchanges, RecordsLogin, CreatesSession, SetsTicket, AsksKey, AsksKeyUnlocked, TakesAttempt,
      LoadsPage, TakesTicket, Keys, accessvars
  <2>. QED  BY <2>2, <2>3, <2>4
<1>. QED  BY <1>1, SoundAlways, PTL DEF SpecAccess, KeysKept
=============================================================================
