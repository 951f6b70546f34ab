-------------------------- MODULE ResourcesProofs --------------------------
(***************************************************************************)
(* Proofs about rows and the things they stand for, for any number of      *)
(* accounts, things and requests at once.  Calls to the other system are   *)
(* made inside a transaction that may yet fail or lose its name; the       *)
(* invariant says what each open request may rely on meanwhile: a creation *)
(* has its thing to itself, what a deletion removed stays removed, and the *)
(* lock of a service's row keeps its changes and its deletion apart.       *)
(***************************************************************************)
EXTENDS Resources, FiniteSetTheorems, FunctionTheorems, WellFoundedInduction, TLAPS

-----------------------------------------------------------------------------
(* The invariant                                                            *)

\* The row of a creation before the thing has its ID.
Asking == [family: Family, account: Tenant, serial: {0}, spec: {Spec0}]

Demand == [kind: Kind, step: Step, row: Record \cup Asking \cup {NoRecord},
           key: Record \cup {NoRecord}, gone: SUBSET Record, field: Field, holds: BOOLEAN]

\* A row of the thing with its ID, present or past.
Known(x) == /\ x \in Record
            /\ thing[x.serial].family = x.family /\ thing[x.serial].owner = x.account

TakesNumber(d) == d.step = "make" \/ (d.step = "insert" /\ d.row.family = "service")

\* A creation that has its ID, and so a thing no row is about.
Made(d) == d.kind = "create" /\ ~TakesNumber(d)

MadeSound(d) ==
    /\ Known(d.row) /\ d.row.spec = Spec0 /\ thing[d.row.serial].spec = Spec0
    /\ \A x \in record : x.serial # d.row.serial
    /\ d.step \in {"insert", "commit"} => thing[d.row.serial].there

Creates(d) ==
    /\ d.kind = "create" /\ d.step \in {"make", "insert", "undo", "apply", "commit"}
    /\ ~d.holds
    /\ TakesNumber(d) => d.row \in Asking
    /\ d.step = "make" => d.row.family # "service"
    /\ ~TakesNumber(d) => MadeSound(d)

\* A deletion's thing is gone once it was removed.
Deletes(d) ==
    /\ d.kind = "delete" /\ d.step \in {"remove", "forget", "commit"}
    /\ Known(d.row)
    /\ d.row.family = "service" => d.holds
    /\ d.step # "remove" => ~thing[d.row.serial].there
    /\ \A y \in d.gone : \/ y.serial = d.row.serial
                         \/ y.family = "bucket" /\ d.row.family = "bucket"

\* A change is of the row as it is, and of one field.
Modifies(d) ==
    /\ d.kind = "modify" /\ d.step \in {"update", "apply", "commit"}
    /\ Known(d.row) /\ d.row.family = "service" /\ d.holds
    /\ d.step = "update" => d.row \in record
    /\ d.step # "update" => \E y \in record : /\ y.serial = d.row.serial
                                              /\ d.row = [y EXCEPT !.spec[d.field] = 1 - @]
    /\ d.step = "commit" => thing[d.row.serial].spec = d.row.spec

Lets(d) ==
    /\ \/ d.kind = "grant" /\ d.step \in {"allow", "note"} /\ d.key.account = d.row.account
       \/ d.kind = "revoke" /\ d.step \in {"deny", "note"}
    /\ Known(d.row) /\ Known(d.key) /\ ~d.holds

DemandSound(d) == d = Idle \/ Creates(d) \/ Deletes(d) \/ Modifies(d) \/ Lets(d)

\* A creation shares its thing with no request, a locked row has one holder.
Apart(d, e) ==
    /\ Made(d) /\ e # Idle => d.row.serial # e.row.serial
    /\ d.holds /\ e.holds => d.row.serial # e.row.serial

Changing(d, s) == d.kind = "modify" /\ d.step = "commit" /\ d.row.serial = s

DemandsSound ==
    /\ demand \in [Requester -> Demand]
    /\ \A r \in Requester : DemandSound(demand[r])
    /\ \A r, q \in Requester : r # q => Apart(demand[r], demand[q])

RowsSound ==
    /\ \A x \in record : Known(x)
    /\ \A x \in record : thing[x.serial].there \/ x.serial \in doomed
    /\ \A x, y \in record : x.serial = y.serial => x = y

ThingsSound ==
    \A s \in Serial : thing[s].there =>
       \/ \E x \in record : x.serial = s
       \/ \E r \in Requester : Made(demand[r]) /\ demand[r].row.serial = s
       \/ s \in cut \/ s \in mistaken

SpecsSound ==
    \A x \in record : \/ thing[x.serial].spec = x.spec
                      \/ \E r \in Requester : Changing(demand[r], x.serial)
                      \/ x.serial \in cut

AllowedSound ==
    \A p \in allowed : /\ thing[p[1]].family # "none" /\ thing[p[2]].family # "none"
                       /\ thing[p[1]].owner = thing[p[2]].owner

ResourcesSound ==
    /\ TypeOKResources /\ DemandsSound
    /\ RowsSound /\ ThingsSound /\ SpecsSound /\ AllowedSound

-----------------------------------------------------------------------------
(* IDs                                                                      *)

LEMMA SerialsAreNumbers == Serial \subseteq Nat \ {0} /\ Cardinality(Serial) \in Nat
<1>1. Cardinality(Serial) \in Nat
  BY ResourcesAssumption, FS_CardinalityType
<1>. QED  BY <1>1, ResourcesAssumption

LEMMA FreshIs ==
  ASSUME Numbered
  PROVE  Fresh \in Serial /\ thing[Fresh].family = "none"
<1>. DEFINE T == {s \in Serial : thing[s].family = "none"}
            Less == {p \in Nat \X Nat : p[1] < p[2]}
<1>1. IsWellFoundedOn(Less, Nat)
  BY NatLessThanWellFounded DEF OpToRel
<1>2. T \subseteq Nat /\ T # {}
  BY SerialsAreNumbers DEF Numbered
<1>3. PICK s \in T : \A t \in T : ~ (<<t, s>> \in Less)
  <2>. HIDE DEF T, Less
  <2>. QED  BY <1>1, <1>2, WFMin
<1>4. ASSUME NEW t \in T PROVE s <= t
  <2>1. s \in Nat /\ t \in Nat
    BY <1>2
  <2>2. ~ (t < s)
    BY <1>3, <2>1
  <2>. QED  BY <2>1, <2>2
<1>5. \E m \in Serial : thing[m].family = "none" /\ \A t \in Serial : thing[t].family = "none" => m <= t
  BY <1>3, <1>4
<1>. QED  BY <1>5 DEF Fresh

LEMMA ConstantRecords ==
  /\ Spec0 \in [Field -> 0..1] /\ "none" \notin Family /\ NoRecord \notin Record
  /\ Idle \in Demand /\ NoThing \in Thing
  /\ Asking \cap Record = {}
<1>1. Spec0 \in [Field -> 0..1]
  BY DEF Spec0
<1>2. "none" \notin Family
  BY ResourcesAssumption
<1>3. NoRecord \notin Record
  BY <1>2 DEF NoRecord, Record
<1>4. Idle \in Demand
  BY DEF Idle, Demand, Kind, Step, Field
<1>5. NoThing \in Thing
  BY <1>1 DEF NoThing, Thing
<1>6. Asking \cap Record = {}
  BY SerialsAreNumbers DEF Asking, Record
<1>. QED  BY <1>1, <1>2, <1>3, <1>4, <1>5, <1>6

-----------------------------------------------------------------------------
(* Steps that change one request and nothing it works on                    *)

LEMMA DemandTypes ==
  ASSUME DemandsSound
  PROVE  \A r \in Requester :
            /\ demand[r].kind \in Kind /\ demand[r].step \in Step
            /\ demand[r].gone \subseteq Record /\ demand[r].holds \in BOOLEAN
<1>. QED  BY DEF DemandsSound, Demand

\* What is said of a request is said of the value its variable has.
LEMMA SaidOfValue ==
  ASSUME NEW q \in Requester, NEW e, demand'[q] = e, DemandSound(e)'
  PROVE  DemandSound(demand[q])'
<1>1. Creates(e)' => Creates(demand[q])'
  <2>1. TakesNumber(e)' = TakesNumber(demand[q])'
    BY DEF TakesNumber
  <2>2. MadeSound(e)' => MadeSound(demand[q])'
    BY DEF MadeSound, Known
  <2>. QED  BY <2>1, <2>2 DEF Creates
<1>2. Deletes(e)' => Deletes(demand[q])'
  BY DEF Deletes, Known
<1>3. Modifies(e)' => Modifies(demand[q])'
  BY DEF Modifies, Known
<1>4. Lets(e)' => Lets(demand[q])'
  BY DEF Lets, Known
<1>. QED  BY <1>1, <1>2, <1>3, <1>4 DEF DemandSound

\* And holds as long as nothing it speaks of changes.
LEMMA SaidOfSame ==
  ASSUME NEW d, DemandSound(d), thing' = thing, record' = record
  PROVE  DemandSound(d)'
<1>1. Creates(d) => Creates(d)'
  BY DEF Creates, TakesNumber, MadeSound, Known
<1>2. Deletes(d) => Deletes(d)'
  BY DEF Deletes, Known
<1>3. Modifies(d) => Modifies(d)'
  BY DEF Modifies, Known
<1>4. Lets(d) => Lets(d)'
  BY DEF Lets, Known
<1>. QED  BY <1>1, <1>2, <1>3, <1>4 DEF DemandSound

LEMMA OneDemand ==
  ASSUME NEW r \in Requester, NEW e, DemandSound(e), e \in Demand,
         demand \in [Requester -> Demand], demand' = [demand EXCEPT ![r] = e],
         \A q \in Requester \ {r} : DemandSound(demand[q])',
         DemandSound(e)',
         \A p, q \in Requester : p # q => Apart(demand[p], demand[q]),
         \A q \in Requester \ {r} : Apart(e, demand[q]) /\ Apart(demand[q], e)
  PROVE  DemandsSound'
<1>1. demand' \in [Requester -> Demand]
  OBVIOUS
<1>2. \A q \in Requester : demand'[q] = IF q = r THEN e ELSE demand[q]
  OBVIOUS
<1>3. ASSUME NEW q \in Requester PROVE DemandSound(demand[q])'
  <2>1. CASE q = r
    <3>1. demand'[q] = e
      BY <1>2, <2>1
    <3>. QED  BY <3>1, SaidOfValue
  <2>. QED  BY <2>1
<1>4. ASSUME NEW p \in Requester, NEW q \in Requester, p # q
      PROVE  Apart(demand[p], demand[q])'
  <2>1. Apart(demand'[p], demand'[q])
    BY <1>2, <1>4
  <2>. QED  BY <2>1 DEF Apart, Made, TakesNumber
<1>. QED  BY <1>1, <1>3, <1>4 DEF DemandsSound

LEMMA DemandStep ==
  ASSUME ResourcesSound, NEW r \in Requester, NEW e, e \in Demand, DemandSound(e),
         demand' = [demand EXCEPT ![r] = e],
         thing' = thing, record' = record, doomed' = doomed,
         AllowedSound', allowed' \subseteq Serial \X Serial,
         granted' \subseteq Serial \X Serial, demands' \in 0..MaxDemands,
         cut \subseteq cut', cut' \subseteq Serial, mistaken' = mistaken,
         \A q \in Requester \ {r} : Apart(e, demand[q]) /\ Apart(demand[q], e),
         Made(demand[r]) => \/ demand[r].row.serial \in cut'
                            \/ Made(e) /\ e.row.serial = demand[r].row.serial,
         \A s \in Serial : Changing(demand[r], s) => s \in cut' \/ Changing(e, s)
  PROVE  ResourcesSound'
<1>. USE DEF ResourcesSound
<1>1. demand \in [Requester -> Demand]
  BY DEF DemandsSound
<1>2. \A q \in Requester : demand'[q] = IF q = r THEN e ELSE demand[q]
  BY <1>1
<1>3. DemandsSound'
  <2>1. DemandSound(e)'
    BY SaidOfSame
  <2>2. ASSUME NEW q \in Requester \ {r} PROVE DemandSound(demand[q])'
    <3>1. PICK d : d = demand[q]
      OBVIOUS
    <3>2. demand'[q] = d /\ DemandSound(d)
      BY <1>2, <3>1 DEF DemandsSound
    <3>3. DemandSound(d)'
      BY <3>2, SaidOfSame
    <3>. QED  BY <3>2, <3>3, SaidOfValue
  <2>. QED  BY <1>1, <2>1, <2>2, OneDemand DEF DemandsSound
<1>4. RowsSound'
  BY DEF RowsSound, Known
<1>5. ThingsSound'
  <2>1. ASSUME NEW s \in Serial, thing[s].there, NEW q \in Requester,
               Made(demand[q]), demand[q].row.serial = s
        PROVE  s \in cut' \/ (Made(demand'[q]) /\ demand'[q].row.serial = s)
    <3>1. CASE q = r
      <4>1. demand'[q] = e
        BY <1>2, <3>1
      <4>2. Made(demand[r]) /\ demand[r].row.serial = s
        BY <2>1, <3>1
      <4>. QED  BY <4>1, <4>2
    <3>2. CASE q # r
      BY <1>2, <2>1, <3>2
    <3>. QED  BY <3>1, <3>2
  <2>2. ASSUME NEW q \in Requester PROVE Made(demand[q])' = Made(demand'[q])
    BY DEF Made, TakesNumber
  <2>. QED  BY <2>1, <2>2 DEF ThingsSound
<1>6. SpecsSound'
  <2>1. ASSUME NEW x \in record, NEW q \in Requester, Changing(demand[q], x.serial)
        PROVE  x.serial \in cut' \/ Changing(demand'[q], x.serial)
    <3>1. x.serial \in Serial
      BY DEF RowsSound, Known, Record
    <3>. QED  BY <1>2, <2>1, <3>1
  <2>2. ASSUME NEW q \in Requester, NEW x \in record
        PROVE  Changing(demand[q], x.serial)' = Changing(demand'[q], x.serial)
    BY DEF Changing
  <2>. QED  BY <2>1, <2>2 DEF SpecsSound
<1>8. TypeOKResources'
  <2>1. \A q \in Requester :
            /\ demand'[q].kind \in Kind /\ demand'[q].step \in Step
            /\ demand'[q].gone \subseteq Record /\ demand'[q].holds \in BOOLEAN
    BY <1>3 DEF DemandsSound, Demand
  <2>. QED  BY <2>1 DEF TypeOKResources
<1>. QED  BY <1>3, <1>4, <1>5, <1>6, <1>8

LEMMA AllowedAsBefore ==
  ASSUME ResourcesSound, thing' = thing, allowed' = allowed
  PROVE  AllowedSound' /\ allowed' \subseteq Serial \X Serial
<1>. QED  BY DEF ResourcesSound, TypeOKResources, AllowedSound

LEMMA IdleIs ==
  ASSUME NEW d, DemandSound(d), d.step = "idle"
  PROVE  d = Idle
<1>. QED  BY DEF DemandSound, Creates, Deletes, Modifies, Lets

LEMMA IdleIsApart ==
  /\ DemandSound(Idle) /\ ~Made(Idle) /\ \A s : ~Changing(Idle, s)
  /\ \A d : Apart(Idle, d) /\ Apart(d, Idle)
<1>1. Idle.kind = "none" /\ Idle.holds = FALSE
  BY DEF Idle
<1>2. ~Made(Idle) /\ \A s : ~Changing(Idle, s)
  BY <1>1 DEF Made, Changing
<1>3. DemandSound(Idle)
  BY DEF DemandSound
<1>4. \A d : Apart(Idle, d) /\ Apart(d, Idle)
  BY <1>1, <1>2 DEF Apart
<1>. QED  BY <1>2, <1>3, <1>4

\* A request's own values, and what the others are to it.
LEMMA OwnFacts ==
  ASSUME ResourcesSound, NEW r \in Requester
  PROVE  /\ demand[r] \in Demand /\ DemandSound(demand[r])
         /\ \A q \in Requester \ {r} : /\ Apart(demand[r], demand[q]) /\ Apart(demand[q], demand[r])
                                       /\ demand[q] \in Demand /\ DemandSound(demand[q])
<1>. QED  BY DEF ResourcesSound, DemandsSound

LEMMA Opening ==
  ASSUME ResourcesSound, NEW r \in Requester, NEW d, d \in Demand, DemandSound(d),
         Demands(r, d), \A q \in Requester \ {r} : Apart(d, demand[q]) /\ Apart(demand[q], d)
  PROVE  ResourcesSound'
<1>1. demand[r] = Idle
  BY OwnFacts, IdleIs DEF Demands
<1>2. /\ demand' = [demand EXCEPT ![r] = d]
      /\ thing' = thing /\ record' = record /\ allowed' = allowed /\ doomed' = doomed
      /\ granted' = granted /\ cut' = cut /\ mistaken' = mistaken
  BY DEF Demands, External, Rows, Ghosts
<1>3. granted' \subseteq Serial \X Serial /\ cut' \subseteq Serial
  BY <1>2 DEF ResourcesSound, TypeOKResources
<1>4. demands' \in 0..MaxDemands
  BY ResourcesAssumption DEF Demands, ResourcesSound, TypeOKResources
<1>5. ~Made(demand[r]) /\ \A s \in Serial : ~Changing(demand[r], s)
  BY <1>1, IdleIsApart
<1>. QED  BY <1>2, <1>3, <1>4, <1>5, AllowedAsBefore, DemandStep

LEMMA Closing ==
  ASSUME ResourcesSound, NEW r \in Requester, Closes(r),
         thing' = thing, record' = record, allowed' = allowed, doomed' = doomed,
         granted' \subseteq Serial \X Serial, cut \subseteq cut', cut' \subseteq Serial,
         mistaken' = mistaken,
         Made(demand[r]) => demand[r].row.serial \in cut',
         \A s \in Serial : Changing(demand[r], s) => s \in cut'
  PROVE  ResourcesSound'
<1>1. demand' = [demand EXCEPT ![r] = Idle] /\ demands' = demands
  BY DEF Closes
<1>2. demands' \in 0..MaxDemands
  BY <1>1 DEF ResourcesSound, TypeOKResources
<1>. QED  BY <1>1, <1>2, IdleIsApart, ConstantRecords, AllowedAsBefore, DemandStep

\* A request that goes on, still about the same thing.
LEMMA GoingOn ==
  ASSUME ResourcesSound, NEW r \in Requester, NEW e, e \in Demand, DemandSound(e),
         e.kind = demand[r].kind, e.row.serial = demand[r].row.serial,
         e.holds = demand[r].holds, Made(e) <=> Made(demand[r]),
         demand' = [demand EXCEPT ![r] = e], demands' = demands,
         thing' = thing, record' = record, doomed' = doomed,
         AllowedSound', allowed' \subseteq Serial \X Serial,
         granted' = granted, cut' = cut, mistaken' = mistaken,
         demand[r].step \notin {"idle", "commit"}
  PROVE  ResourcesSound'
<1>1. /\ demands' \in 0..MaxDemands /\ granted' \subseteq Serial \X Serial
      /\ cut' \subseteq Serial
  BY DEF ResourcesSound, TypeOKResources
<1>2. demand[r] # Idle
  BY DEF Idle
<1>3. ASSUME NEW q \in Requester \ {r} PROVE Apart(e, demand[q]) /\ Apart(demand[q], e)
  <2>1. Apart(demand[r], demand[q]) /\ Apart(demand[q], demand[r])
    BY OwnFacts
  <2>. HIDE DEF Made
  <2>. QED  BY <1>2, <2>1 DEF Apart
<1>4. \A s \in Serial : ~Changing(demand[r], s)
  BY DEF Changing
<1>. QED  BY <1>1, <1>3, <1>4, DemandStep

LEMMA Turning ==
  ASSUME ResourcesSound, NEW r \in Requester, NEW step \in Step, Turns(r, step),
         thing' = thing, record' = record, allowed' = allowed, doomed' = doomed,
         granted' = granted, cut' = cut, mistaken' = mistaken,
         DemandSound([demand[r] EXCEPT !.step = step]),
         Made(demand[r]) <=> Made([demand[r] EXCEPT !.step = step]),
         demand[r].step \notin {"idle", "commit"}
  PROVE  ResourcesSound'
<1>1. PICK e : e = [demand[r] EXCEPT !.step = step]
  OBVIOUS
<1>2. demand[r] \in Demand
  BY OwnFacts
<1>3. /\ e \in Demand /\ e.kind = demand[r].kind /\ e.row = demand[r].row
      /\ e.holds = demand[r].holds
  BY <1>1, <1>2 DEF Demand
<1>4. demand' = [demand EXCEPT ![r] = e] /\ demands' = demands
  BY <1>1 DEF Turns
<1>5. DemandSound(e) /\ (Made(e) <=> Made(demand[r]))
  BY <1>1
<1>. QED  BY <1>3, <1>4, <1>5, AllowedAsBefore, GoingOn

-----------------------------------------------------------------------------
(* One lemma per action: first those that only ask, read or give up         *)

\* The others as a request sees them that works on a row of its choice.
LEMMA ApartFromOthers ==
  ASSUME ResourcesSound, NEW r \in Requester, NEW d, NEW q \in Requester \ {r},
         ~Made(d), d.row \in record \/ d.row \in Asking,
         d.holds => q \notin LockedBy(d.row.serial)
  PROVE  Apart(d, demand[q]) /\ Apart(demand[q], d)
<1>1. DemandSound(demand[q]) /\ demand[q] \in Demand
  BY OwnFacts
<1>2. ASSUME Made(demand[q]) PROVE demand[q].row.serial # d.row.serial
  <2>1. demand[q].kind = "create"
    BY <1>2 DEF Made
  <2>2. demand[q] # Idle
    BY <2>1 DEF Idle
  <2>3. Creates(demand[q])
    BY <1>1, <2>1, <2>2 DEF DemandSound, Deletes, Modifies, Lets
  <2>4. MadeSound(demand[q])
    BY <1>2, <2>3 DEF Creates, Made
  <2>5. demand[q].row.serial \in Serial /\ \A x \in record : x.serial # demand[q].row.serial
    BY <2>4 DEF MadeSound, Known, Record
  <2>6. d.row \in Asking => d.row.serial \notin Serial
    BY SerialsAreNumbers DEF Asking
  <2>. QED  BY <2>5, <2>6
<1>3. ASSUME d.holds, demand[q].holds PROVE demand[q].row.serial # d.row.serial
  BY <1>3 DEF LockedBy
<1>. QED  BY <1>2, <1>3 DEF Apart

LEMMA AsksThingSound ==
  ASSUME ResourcesSound, NEW r \in Requester, NEW f \in Family, NEW a \in Tenant,
         AsksThing(r, f, a)
  PROVE  ResourcesSound'
<1>1. PICK d : d = [Idle EXCEPT !.kind = "create",
                      !.step = IF f = "service" THEN "insert" ELSE "make",
                      !.row = [family |-> f, account |-> a, serial |-> 0, spec |-> Spec0]]
  OBVIOUS
<1>2. /\ d.kind = "create" /\ d.step = (IF f = "service" THEN "insert" ELSE "make")
      /\ d.row = [family |-> f, account |-> a, serial |-> 0, spec |-> Spec0]
      /\ d.holds = FALSE
  BY <1>1 DEF Idle
<1>3. d.row \in Asking
  BY <1>2 DEF Asking
<1>4. d \in Demand
  BY <1>1, <1>3, ConstantRecords DEF Demand, Idle, Kind, Step, Field
<1>5. TakesNumber(d)
  BY <1>2 DEF TakesNumber
<1>6. DemandSound(d)
  BY <1>2, <1>3, <1>5 DEF DemandSound, Creates
<1>7. ~Made(d)
  BY <1>5 DEF Made
<1>8. Demands(r, d)
  BY <1>1 DEF AsksThing
<1>. QED  BY <1>2, <1>3, <1>4, <1>6, <1>7, <1>8, Opening, ApartFromOthers

LEMMA AsksLocked ==
  ASSUME ResourcesSound, NEW r \in Requester, NEW x \in record, NEW d0,
         LocksOrReads(r, x, d0),
         \/ d0 = [Idle EXCEPT !.kind = "delete", !.step = "remove"]
         \/ /\ x.family = "service"
            /\ \E f \in Field : d0 = [Idle EXCEPT !.kind = "modify", !.step = "update", !.field = f]
  PROVE  ResourcesSound'
<1>1. PICK d : d = [d0 EXCEPT !.row = x, !.holds = x.family = "service"]
  OBVIOUS
<1>2. Known(x) /\ x \in Record
  BY DEF ResourcesSound, RowsSound, Known
<1>3. /\ d.row = x /\ d.gone = {} /\ d \in Demand
      /\ d.holds <=> x.family = "service"
  <2>1. CASE x.family = "service"
    <3>1. (x.family = "service") = TRUE
      BY <2>1
    <3>2. d = [d0 EXCEPT !.row = x, !.holds = TRUE]
      BY <1>1, <3>1
    <3>. QED  BY <1>2, <2>1, <3>2, ConstantRecords DEF Demand, Idle, Kind, Step, Field
  <2>2. CASE x.family # "service"
    <3>1. (x.family = "service") = FALSE
      BY <2>2
    <3>2. d = [d0 EXCEPT !.row = x, !.holds = FALSE]
      BY <1>1, <3>1
    <3>. QED  BY <1>2, <2>2, <3>2, ConstantRecords DEF Demand, Idle, Kind, Step, Field
  <2>. QED  BY <2>1, <2>2
<1>4. \/ d.kind = "delete" /\ d.step = "remove"
      \/ d.kind = "modify" /\ d.step = "update" /\ x.family = "service"
  BY <1>1 DEF Idle
<1>5. DemandSound(d)
  <2>1. CASE d.kind = "delete" /\ d.step = "remove"
    BY <1>2, <1>3, <2>1 DEF DemandSound, Deletes
  <2>2. CASE d.kind = "modify" /\ d.step = "update" /\ x.family = "service"
    BY <1>2, <1>3, <2>2 DEF DemandSound, Modifies
  <2>. QED  BY <1>4, <2>1, <2>2
<1>6. ~Made(d)
  BY <1>4 DEF Made
<1>7. Demands(r, d) /\ (x.family = "service" => LockedBy(x.serial) = {})
  BY <1>1 DEF LocksOrReads
<1>. QED  BY <1>3, <1>5, <1>6, <1>7, Opening, ApartFromOthers

LEMMA AsksLettingSound ==
  ASSUME ResourcesSound, NEW r \in Requester, NEW b \in record, NEW k \in record,
         AsksGrant(r, b, k) \/ AsksRevocation(r, b, k)
  PROVE  ResourcesSound'
<1>1. PICK d : /\ Demands(r, d)
               /\ \/ /\ d = [Idle EXCEPT !.kind = "grant", !.step = "allow", !.row = b, !.key = k]
                     /\ k.account = b.account
                  \/ d = [Idle EXCEPT !.kind = "revoke", !.step = "deny", !.row = b, !.key = k]
  BY DEF AsksGrant, AsksRevocation
<1>2. Known(b) /\ b \in Record /\ Known(k) /\ k \in Record
  BY DEF ResourcesSound, RowsSound, Known
<1>3. /\ d.row = b /\ d.key = k /\ d.holds = FALSE /\ d \in Demand
      /\ \/ d.kind = "grant" /\ d.step = "allow" /\ k.account = b.account
         \/ d.kind = "revoke" /\ d.step = "deny"
  BY <1>1, <1>2, ConstantRecords DEF Demand, Idle, Kind, Step, Field
<1>4. DemandSound(d)
  BY <1>2, <1>3 DEF DemandSound, Lets
<1>5. ~Made(d)
  BY <1>3 DEF Made
<1>. QED  BY <1>1, <1>3, <1>4, <1>5, Opening, ApartFromOthers

\* What each kind of request is about, by its step.
LEMMA DemandKindByStep ==
  ASSUME NEW d, DemandSound(d)
  PROVE  /\ d.kind = "create" => Creates(d)
         /\ d.kind = "delete" => Deletes(d)
         /\ d.kind = "modify" => Modifies(d)
         /\ d.kind \in {"grant", "revoke"} => Lets(d)
         /\ d.step \in {"undo", "make", "insert"} => Creates(d)
         /\ d.step \in {"remove", "forget"} => Deletes(d)
         /\ d.step = "note" => Lets(d)
<1>1. Idle.kind = "none" /\ Idle.step = "idle"
  BY DEF Idle
<1>. QED  BY <1>1 DEF DemandSound, Creates, Deletes, Modifies, Lets

LEMMA BreaksSound ==
  ASSUME ResourcesSound, NEW r \in Requester, Breaks(r)
  PROVE  ResourcesSound'
<1>1. /\ Closes(r) /\ thing' = thing /\ record' = record /\ allowed' = allowed
      /\ doomed' = doomed /\ granted' = granted /\ mistaken' = mistaken
  BY DEF Breaks, External, Rows
<1>2. cut' = IF /\ demand[r].kind \in {"create", "modify"}
                /\ demand[r].step \in {"insert", "undo", "apply", "commit"}
             THEN cut \cup ({demand[r].row.serial} \cap Serial) ELSE cut
  BY DEF Breaks
<1>3. /\ cut \subseteq cut' /\ cut' \subseteq Serial /\ granted' \subseteq Serial \X Serial
  BY <1>1, <1>2 DEF ResourcesSound, TypeOKResources
<1>4. Made(demand[r]) => demand[r].row.serial \in cut'
  <2>1. ASSUME Made(demand[r]) PROVE demand[r].row.serial \in cut'
    <3>1. Creates(demand[r]) /\ MadeSound(demand[r])
      BY <2>1, OwnFacts, DemandKindByStep DEF Made, Creates
    <3>2. /\ demand[r].kind = "create" /\ demand[r].step \in {"insert", "undo", "apply", "commit"}
          /\ demand[r].row.serial \in Serial
      BY <2>1, <3>1 DEF Made, TakesNumber, Creates, MadeSound, Known, Record
    <3>. QED  BY <1>2, <3>2
  <2>. QED  BY <2>1
<1>5. ASSUME NEW s \in Serial, Changing(demand[r], s) PROVE s \in cut'
  BY <1>2, <1>5 DEF Changing
<1>. QED  BY <1>1, <1>3, <1>4, <1>5, Closing

LEMMA InsertsRowSound ==
  ASSUME ResourcesSound, NEW r \in Requester, InsertsRow(r) \/ InsertBreaks(r)
  PROVE  ResourcesSound'
<1>1. PICK step \in {"commit", "undo"} : Turns(r, step)
  BY DEF InsertsRow, InsertBreaks
<1>2. /\ demand[r].kind = "create" /\ demand[r].step = "insert"
      /\ demand[r].row.family # "service"
      /\ thing' = thing /\ record' = record /\ allowed' = allowed /\ doomed' = doomed
      /\ granted' = granted /\ cut' = cut /\ mistaken' = mistaken
  BY DEF InsertsRow, InsertBreaks, At, External, Rows, Ghosts
<1>3. Creates(demand[r]) /\ demand[r] \in Demand
  BY <1>2, OwnFacts, DemandKindByStep
<1>4. PICK e : e = [demand[r] EXCEPT !.step = step]
  OBVIOUS
<1>5. /\ e.kind = demand[r].kind /\ e.row = demand[r].row /\ e.holds = demand[r].holds
      /\ e.step = step
  BY <1>3, <1>4 DEF Demand
<1>6. ~TakesNumber(demand[r]) /\ ~TakesNumber(e)
  BY <1>2, <1>5 DEF TakesNumber
<1>7. MadeSound(e)
  BY <1>2, <1>3, <1>5, <1>6 DEF Creates, MadeSound
<1>8. DemandSound(e)
  BY <1>2, <1>3, <1>5, <1>6, <1>7 DEF DemandSound, Creates
<1>9. Made(e) <=> Made(demand[r])
  BY <1>2, <1>5, <1>6 DEF Made
<1>10. step \in Step
  BY DEF Step
<1>. QED  BY <1>1, <1>2, <1>4, <1>8, <1>9, <1>10, Turning

LEMMA ForgetsSound ==
  ASSUME ResourcesSound, NEW r \in Requester, Forgets(r)
  PROVE  ResourcesSound'
<1>1. /\ demand[r].kind = "delete" /\ demand[r].step = "forget"
      /\ demand' = [demand EXCEPT ![r].step = "commit", ![r].gone = Rowed(demand[r].row)]
      /\ thing' = thing /\ record' = record /\ allowed' = allowed /\ doomed' = doomed
      /\ granted' = granted /\ cut' = cut /\ mistaken' = mistaken /\ demands' = demands
  BY DEF Forgets, At, External, Rows, Ghosts
<1>2. Deletes(demand[r]) /\ demand[r] \in Demand
  BY <1>1, OwnFacts, DemandKindByStep
<1>3. PICK gone : gone = Rowed(demand[r].row)
  OBVIOUS
<1>4. /\ gone \subseteq record
      /\ \A y \in gone : \/ y.serial = demand[r].row.serial
                         \/ y.family = "bucket" /\ demand[r].row.family = "bucket"
  BY <1>3 DEF Rowed, SameKey
<1>5. gone \subseteq Record
  BY <1>4 DEF ResourcesSound, TypeOKResources
<1>6. PICK e : e = [demand[r] EXCEPT !.step = "commit", !.gone = gone]
  OBVIOUS
<1>7. /\ e \in Demand /\ e.kind = "delete" /\ e.row = demand[r].row
      /\ e.holds = demand[r].holds /\ e.step = "commit" /\ e.gone = gone
  BY <1>1, <1>2, <1>5, <1>6 DEF Demand, Step
<1>8. demand' = [demand EXCEPT ![r] = e]
  BY <1>1, <1>3, <1>6
<1>9. DemandSound(e)
  BY <1>1, <1>2, <1>4, <1>7 DEF DemandSound, Deletes
<1>10. ~Made(e) /\ ~Made(demand[r])
  BY <1>1, <1>7 DEF Made
<1>. QED  BY <1>1, <1>7, <1>8, <1>9, <1>10, AllowedAsBefore, GoingOn

LEMMA UpdatesRowSound ==
  ASSUME ResourcesSound, NEW r \in Requester, UpdatesRow(r)
  PROVE  ResourcesSound'
<1>1. /\ demand[r].kind = "modify" /\ demand[r].step = "update"
      /\ demand' = [demand EXCEPT ![r].step = "apply", ![r].holds = TRUE,
                                  ![r].row = Changed(demand[r])]
      /\ thing' = thing /\ record' = record /\ allowed' = allowed /\ doomed' = doomed
      /\ granted' = granted /\ cut' = cut /\ mistaken' = mistaken /\ demands' = demands
  BY DEF UpdatesRow, At, External, Rows, Ghosts
<1>2. Modifies(demand[r]) /\ demand[r] \in Demand
  BY <1>1, OwnFacts, DemandKindByStep
<1>3. /\ demand[r].row \in record /\ demand[r].row \in Record /\ demand[r].field \in Field
      /\ demand[r].holds = TRUE
  BY <1>1, <1>2 DEF Modifies, Known, Demand
<1>4. PICK x : x = [demand[r].row EXCEPT !.spec[demand[r].field] = 1 - @]
  OBVIOUS
<1>5. /\ x \in Record /\ x.serial = demand[r].row.serial /\ x.family = demand[r].row.family
      /\ x.account = demand[r].row.account
  BY <1>3, <1>4 DEF Record
<1>6. PICK e : e = [demand[r] EXCEPT !.step = "apply", !.holds = TRUE, !.row = x]
  OBVIOUS
<1>7. /\ e \in Demand /\ e.kind = "modify" /\ e.row = x /\ e.holds = TRUE
      /\ e.step = "apply" /\ e.field = demand[r].field
  BY <1>1, <1>2, <1>5, <1>6 DEF Demand, Step
<1>8. demand' = [demand EXCEPT ![r] = e]
  BY <1>1, <1>4, <1>6 DEF Changed
<1>9. DemandSound(e)
  <2>1. \E y \in record : y.serial = e.row.serial /\ e.row = [y EXCEPT !.spec[e.field] = 1 - @]
    BY <1>3, <1>4, <1>5, <1>7
  <2>2. Known(e.row)
    BY <1>2, <1>5, <1>7 DEF Modifies, Known
  <2>3. e.row.family = "service"
    BY <1>2, <1>5, <1>7 DEF Modifies
  <2>. QED  BY <1>7, <2>1, <2>2, <2>3 DEF DemandSound, Modifies
<1>10. ~Made(e) /\ ~Made(demand[r])
  BY <1>1, <1>7 DEF Made
<1>. QED  BY <1>1, <1>3, <1>5, <1>7, <1>8, <1>9, <1>10, AllowedAsBefore, GoingOn

LEMMA NotesGrantSound ==
  ASSUME ResourcesSound, NEW r \in Requester, NotesGrant(r)
  PROVE  ResourcesSound'
<1>1. /\ demand[r].step = "note" /\ Closes(r)
      /\ thing' = thing /\ record' = record /\ allowed' = allowed /\ doomed' = doomed
      /\ cut' = cut /\ mistaken' = mistaken
  BY DEF NotesGrant, External, Ghosts
<1>2. Lets(demand[r])
  BY <1>1, OwnFacts, DemandKindByStep
<1>3. granted' \subseteq Serial \X Serial
  <2>1. CASE demand[r].kind = "grant"
    <3>1. PICK x \in record : granted' = granted \cup {<<x.serial, demand[r].key.serial>>}
      BY <2>1 DEF NotesGrant
    <3>2. x.serial \in Serial /\ demand[r].key.serial \in Serial
      BY <1>2 DEF Lets, Known, Record, ResourcesSound, RowsSound
    <3>. QED  BY <3>1, <3>2 DEF ResourcesSound, TypeOKResources
  <2>2. CASE demand[r].kind # "grant"
    BY <2>2 DEF NotesGrant, ResourcesSound, TypeOKResources
  <2>. QED  BY <2>1, <2>2
<1>4. ~Made(demand[r]) /\ \A s \in Serial : ~Changing(demand[r], s)
  BY <1>1, <1>2 DEF Made, Changing, Lets
<1>5. cut \subseteq cut' /\ cut' \subseteq Serial
  BY <1>1 DEF ResourcesSound, TypeOKResources
<1>. QED  BY <1>1, <1>3, <1>4, <1>5, Closing

-----------------------------------------------------------------------------
(* Actions that change things or rows                                       *)

\* What may change beside a request that is not about it.
Beside(d) ==
    /\ Made(d) => /\ thing'[d.row.serial].spec = thing[d.row.serial].spec
                  /\ thing[d.row.serial].there => thing'[d.row.serial].there
                  /\ \A x \in record' : x.serial # d.row.serial
    /\ d.kind = "delete" /\ ~thing[d.row.serial].there => ~thing'[d.row.serial].there
    /\ d.kind = "modify" => /\ thing'[d.row.serial].spec = thing[d.row.serial].spec
                            /\ \A y \in record : y.serial = d.row.serial => y \in record'

LEMMA SaidOfOther ==
  ASSUME NEW d, DemandSound(d), \A x : Known(x) => Known(x)', Beside(d)
  PROVE  DemandSound(d)'
<1>1. Creates(d) => Creates(d)'
  BY DEF Creates, TakesNumber, MadeSound, Beside, Made
<1>2. Deletes(d) => Deletes(d)'
  BY DEF Deletes, Beside
<1>3. Modifies(d) => Modifies(d)'
  BY DEF Modifies, Beside
<1>4. Lets(d) => Lets(d)'
  BY DEF Lets
<1>. QED  BY <1>1, <1>2, <1>3, <1>4 DEF DemandSound

LEMMA WorldStep ==
  ASSUME ResourcesSound, NEW r \in Requester, NEW e, e \in Demand, DemandSound(e)',
         demand' = [demand EXCEPT ![r] = e],
         \A x : Known(x) => Known(x)',
         \A q \in Requester \ {r} : Beside(demand[q]),
         \A q \in Requester \ {r} : Apart(e, demand[q]) /\ Apart(demand[q], e)
  PROVE  DemandsSound' /\ \A q \in Requester : demand'[q] = IF q = r THEN e ELSE demand[q]
<1>1. demand \in [Requester -> Demand]
  BY DEF ResourcesSound, DemandsSound
<1>2. \A q \in Requester : demand'[q] = IF q = r THEN e ELSE demand[q]
  BY <1>1
<1>3. ASSUME NEW q \in Requester PROVE DemandSound(demand[q])'
  <2>1. CASE q = r
    <3>1. demand'[q] = e
      BY <1>2, <2>1
    <3>. QED  BY <3>1, SaidOfValue
  <2>2. CASE q # r
    <3>1. PICK d : d = demand[q]
      OBVIOUS
    <3>2. demand'[q] = d /\ DemandSound(d) /\ Beside(d)
      BY <1>2, <2>2, <3>1, OwnFacts
    <3>3. DemandSound(d)'
      BY <3>2, SaidOfOther
    <3>. QED  BY <3>2, <3>3, SaidOfValue
  <2>. QED  BY <2>1, <2>2
<1>4. ASSUME NEW p \in Requester, NEW q \in Requester, p # q
      PROVE  Apart(demand[p], demand[q])'
  <2>1. Apart(demand'[p], demand'[q])
    BY <1>2, <1>4, OwnFacts
  <2>. QED  BY <2>1 DEF Apart, Made, TakesNumber
<1>5. demand' \in [Requester -> Demand]
  BY <1>1
<1>. QED  BY <1>2, <1>3, <1>4, <1>5 DEF DemandsSound

\* The type invariant but for the demands, which DemandsSound has.
LEMMA TypesFollow ==
  ASSUME DemandsSound', thing' \in [Serial -> Thing], record' \subseteq Record,
         allowed' \subseteq Serial \X Serial, granted' \subseteq Serial \X Serial,
         demands' \in 0..MaxDemands, doomed' \subseteq Serial, cut' \subseteq Serial,
         mistaken' \subseteq Serial
  PROVE  TypeOKResources'
<1>1. \A q \in Requester :
          /\ demand'[q].kind \in Kind /\ demand'[q].step \in Step
          /\ demand'[q].gone \subseteq Record /\ demand'[q].holds \in BOOLEAN
  BY DEF DemandsSound, Demand
<1>. QED  BY <1>1 DEF TypeOKResources

\* The things stay accounted for when a request keeps its role, or drops it for a row.
LEMMA RolesFollow ==
  ASSUME ResourcesSound, NEW r \in Requester, NEW e,
         \A q \in Requester : demand'[q] = IF q = r THEN e ELSE demand[q]
  PROVE  /\ \A q \in Requester \ {r} : Made(demand[q])' <=> Made(demand[q])
         /\ Made(demand[r])' <=> Made(e)
         /\ \A q \in Requester \ {r}, s \in Serial : Changing(demand[q], s)' <=> Changing(demand[q], s)
         /\ \A s \in Serial : Changing(demand[r], s)' <=> Changing(e, s)
<1>1. demand'[r] = e /\ \A q \in Requester \ {r} : demand'[q] = demand[q]
  OBVIOUS
<1>2. \A q \in Requester \ {r} : Made(demand[q])' <=> Made(demand[q])
  BY <1>1 DEF Made, TakesNumber
<1>3. Made(demand[r])' <=> Made(e)
  BY <1>1 DEF Made, TakesNumber
<1>4. \A q \in Requester \ {r}, s \in Serial : Changing(demand[q], s)' <=> Changing(demand[q], s)
  BY <1>1 DEF Changing
<1>5. \A s \in Serial : Changing(demand[r], s)' <=> Changing(e, s)
  BY <1>1 DEF Changing
<1>. QED  BY <1>2, <1>3, <1>4, <1>5

\* A thing that has no family yet is nobody's: nothing speaks of it.
LEMMA NumberingSound ==
  ASSUME ResourcesSound, NEW r \in Requester, Numbered, NEW e, e \in Demand,
         NEW f \in Family, NEW a \in Tenant, NEW t \in Thing,
         t.family = f, t.owner = a, t.spec = Spec0,
         thing' = [thing EXCEPT ![Fresh] = t],
         demand' = [demand EXCEPT ![r] = e], Made(e), ~e.holds,
         e.row = [family |-> f, account |-> a, serial |-> Fresh, spec |-> Spec0],
         e.step = "insert" => t.there, e.step \in {"insert", "apply"},
         demand[r].kind = "create", TakesNumber(demand[r]),
         record' = record, granted' = granted, allowed' = allowed, demands' = demands,
         doomed' = doomed, cut' = cut, mistaken' = mistaken
  PROVE  ResourcesSound'
<1>1. PICK s \in Serial : s = Fresh /\ thing[s].family = "none"
  BY FreshIs
<1>2. thing \in [Serial -> Thing]
  BY DEF ResourcesSound, TypeOKResources
<1>3. thing' = [thing EXCEPT ![s] = t] /\ thing'[s] = t
      /\ \A u \in Serial \ {s} : thing'[u] = thing[u]
  BY <1>1, <1>2
<1>4. \A x : Known(x) => x.serial # s /\ x.serial \in Serial
  BY <1>1, ConstantRecords DEF Known, Record
<1>5. \A x : Known(x) => Known(x)'
  BY <1>3, <1>4 DEF Known
<1>6. ASSUME NEW q \in Requester \ {r}
      PROVE  /\ Beside(demand[q])
             /\ Apart(e, demand[q]) /\ Apart(demand[q], e)
  <2>1. DemandSound(demand[q])
    BY OwnFacts
  <2>2. CASE demand[q] = Idle
    <3>1. demand[q].kind = "none" /\ demand[q].holds = FALSE
      BY <2>2 DEF Idle
    <3>. QED  BY <2>2, <3>1 DEF Beside, Apart, Made
  <2>3. CASE Creates(demand[q]) /\ TakesNumber(demand[q])
    <3>1. demand[q].row.serial # s
      BY <2>3, SerialsAreNumbers DEF Creates, Asking
    <3>. QED  BY <1>1, <2>3, <3>1 DEF Creates, Beside, Apart, Made
  <2>4. CASE DemandSound(demand[q]) /\ demand[q] # Idle /\ ~(Creates(demand[q]) /\ TakesNumber(demand[q]))
    <3>1. Known(demand[q].row)
      BY <2>4 DEF DemandSound, Creates, MadeSound, Deletes, Modifies, Lets
    <3>2. demand[q].row.serial \in Serial \ {s}
      BY <1>4, <3>1
    <3>3. thing'[demand[q].row.serial] = thing[demand[q].row.serial]
      BY <1>3, <3>2
    <3>4. Made(demand[q]) => \A x \in record : x.serial # demand[q].row.serial
      BY <2>1, DemandKindByStep DEF Made, Creates, MadeSound
    <3>5. Beside(demand[q])
      BY <3>3, <3>4 DEF Beside
    <3>6. Apart(e, demand[q]) /\ Apart(demand[q], e)
      BY <1>1, <3>2 DEF Apart
    <3>. QED  BY <3>5, <3>6
  <2>. QED  BY <2>1, <2>2, <2>3, <2>4
<1>7. DemandSound(e)'
  <2>1. e.row.spec = Spec0 /\ e.row.serial = s /\ Known(e.row)'
    BY <1>1, <1>3, ConstantRecords DEF Known, Record
  <2>2. \A x \in record' : x.serial # s
    BY <1>4 DEF ResourcesSound, RowsSound
  <2>3. MadeSound(e)'
    BY <1>3, <2>1, <2>2 DEF MadeSound
  <2>4. Creates(e)'
    BY <2>3 DEF Creates, Made, TakesNumber
  <2>. QED  BY <2>4 DEF DemandSound
<1>8. DemandsSound' /\ \A q \in Requester : demand'[q] = IF q = r THEN e ELSE demand[q]
  BY <1>5, <1>6, <1>7, WorldStep
<1>9. \A x \in record : thing'[x.serial] = thing[x.serial]
  BY <1>3, <1>4 DEF ResourcesSound, RowsSound
<1>10. RowsSound'
  BY <1>5, <1>9 DEF ResourcesSound, RowsSound
<1>11. ThingsSound'
  <2>1. ~Made(demand[r])
    BY DEF Made
  <2>2. ASSUME NEW u \in Serial, thing'[u].there, u # s
        PROVE  \/ \E x \in record : x.serial = u
               \/ \E q \in Requester \ {r} : Made(demand[q]) /\ demand[q].row.serial = u
               \/ u \in cut \/ u \in mistaken
    BY <1>3, <2>1, <2>2 DEF ResourcesSound, ThingsSound
  <2>3. \A q \in Requester \ {r} : (Made(demand[q]) <=> Made(demand[q])') /\ demand'[q] = demand[q]
    BY <1>8, RolesFollow
  <2>4. Made(demand[r])' /\ demand'[r].row.serial = s
    BY <1>1, <1>8, RolesFollow
  <2>. QED  BY <2>2, <2>3, <2>4 DEF ThingsSound
<1>12. SpecsSound'
  <2>1. \A u \in Serial : ~Changing(demand[r], u)
    BY DEF Changing
  <2>2. \A x \in record : x.serial \in Serial
    BY <1>4 DEF ResourcesSound, RowsSound
  <2>3. \A q \in Requester \ {r}, u \in Serial : Changing(demand[q], u)' <=> Changing(demand[q], u)
    BY <1>8, RolesFollow
  <2>. QED  BY <1>9, <2>1, <2>2, <2>3 DEF ResourcesSound, SpecsSound
<1>13. AllowedSound'
  <2>1. ASSUME NEW p \in allowed
        PROVE  p[1] \in Serial \ {s} /\ p[2] \in Serial \ {s}
    BY <1>1 DEF ResourcesSound, AllowedSound, TypeOKResources
  <2>. QED  BY <1>3, <2>1 DEF ResourcesSound, AllowedSound
<1>14. TypeOKResources'
  <2>1. thing' \in [Serial -> Thing]
    BY <1>2, <1>3
  <2>. QED  BY <1>8, <2>1, TypesFollow DEF ResourcesSound, TypeOKResources
<1>. QED  BY <1>8, <1>10, <1>11, <1>12, <1>13, <1>14 DEF ResourcesSound

LEMMA MakesSound ==
  ASSUME ResourcesSound, NEW r \in Requester, Makes(r)
  PROVE  ResourcesSound'
<1>1. /\ demand[r].kind = "create" /\ demand[r].step = "make" /\ Numbered
      /\ thing' = [thing EXCEPT ![Fresh] = Thinged(demand[r].row.family, demand[r].row.account)]
      /\ demand' = [demand EXCEPT ![r].step = "insert", ![r].row.serial = Fresh]
      /\ record' = record /\ granted' = granted /\ allowed' = allowed /\ demands' = demands
      /\ doomed' = doomed /\ cut' = cut /\ mistaken' = mistaken
  BY DEF Makes, At, Rows, Ghosts
<1>2. Creates(demand[r]) /\ demand[r] \in Demand
  BY <1>1, OwnFacts, DemandKindByStep
<1>3. TakesNumber(demand[r])
  BY <1>1 DEF TakesNumber
<1>4. demand[r].row \in Asking /\ demand[r].row.family # "service" /\ ~demand[r].holds
  BY <1>1, <1>2, <1>3 DEF Creates
<1>5. PICK f \in Family, a \in Tenant : f = demand[r].row.family /\ a = demand[r].row.account
  BY <1>4 DEF Asking
<1>6. demand[r].row = [family |-> f, account |-> a, serial |-> 0, spec |-> Spec0]
  BY <1>4, <1>5 DEF Asking
<1>7. PICK s \in Serial : s = Fresh
  BY <1>1, FreshIs
<1>8. PICK x : x = [family |-> f, account |-> a, serial |-> s, spec |-> Spec0]
  OBVIOUS
<1>9. x \in Record /\ x = [demand[r].row EXCEPT !.serial = s]
  BY <1>6, <1>8, ConstantRecords DEF Record
<1>10. PICK e : e = [demand[r] EXCEPT !.step = "insert", !.row = x]
  OBVIOUS
<1>11. /\ e \in Demand /\ e.kind = "create" /\ e.step = "insert" /\ e.row = x
       /\ ~e.holds
  BY <1>1, <1>2, <1>4, <1>9, <1>10 DEF Demand, Step
<1>12. demand' = [demand EXCEPT ![r] = e]
  BY <1>1, <1>7, <1>9, <1>10
<1>13. Made(e)
  BY <1>4, <1>5, <1>8, <1>11 DEF Made, TakesNumber
<1>14. PICK t : t = Thinged(f, a)
  OBVIOUS
<1>15. t \in Thing /\ t.family = f /\ t.owner = a /\ t.spec = Spec0 /\ t.there
  BY <1>14, ConstantRecords DEF Thinged, Thing
<1>16. thing' = [thing EXCEPT ![Fresh] = t]
  BY <1>1, <1>5, <1>14
<1>17. /\ e.row = [family |-> f, account |-> a, serial |-> Fresh, spec |-> Spec0]
       /\ e.step \in {"insert", "apply"} /\ (e.step = "insert" => t.there)
  BY <1>7, <1>8, <1>11, <1>15
<1>. HIDE DEF Made, TakesNumber, Numbered, Fresh
<1>. QED  BY <1>1, <1>3, <1>11, <1>12, <1>13, <1>15, <1>16, <1>17, NumberingSound

LEMMA InsertsServiceSound ==
  ASSUME ResourcesSound, NEW r \in Requester, InsertsService(r)
  PROVE  ResourcesSound'
<1>1. /\ demand[r].kind = "create" /\ demand[r].step = "insert" /\ Numbered
      /\ demand[r].row.family = "service"
      /\ record' = record /\ granted' = granted /\ allowed' = allowed
      /\ doomed' = doomed /\ cut' = cut /\ mistaken' = mistaken
  BY DEF InsertsService, At, Rows, Ghosts
<1>2. Creates(demand[r]) /\ demand[r] \in Demand
  BY <1>1, OwnFacts, DemandKindByStep
<1>3. TakesNumber(demand[r])
  BY <1>1 DEF TakesNumber
<1>4. CASE Closes(r) /\ thing' = thing
  <2>1. ~Made(demand[r]) /\ \A s \in Serial : ~Changing(demand[r], s)
    BY <1>1, <1>3 DEF Made, Changing
  <2>2. cut \subseteq cut' /\ cut' \subseteq Serial /\ granted' \subseteq Serial \X Serial
    BY <1>1 DEF ResourcesSound, TypeOKResources
  <2>. QED  BY <1>1, <1>4, <2>1, <2>2, Closing
<1>5. CASE /\ thing' = [thing EXCEPT ![Fresh] = [Thinged("service", demand[r].row.account)
                                                    EXCEPT !.there = FALSE]]
           /\ demand' = [demand EXCEPT ![r].step = "apply", ![r].row.serial = Fresh]
           /\ demands' = demands
  <2>1. demand[r].row \in Asking /\ ~demand[r].holds
    BY <1>2, <1>3 DEF Creates
  <2>2. PICK f \in Family, a \in Tenant : f = demand[r].row.family /\ a = demand[r].row.account
    BY <2>1 DEF Asking
  <2>3. demand[r].row = [family |-> f, account |-> a, serial |-> 0, spec |-> Spec0]
    BY <2>1, <2>2 DEF Asking
  <2>4. PICK s \in Serial : s = Fresh
    BY <1>1, FreshIs
  <2>5. PICK x : x = [family |-> f, account |-> a, serial |-> s, spec |-> Spec0]
    OBVIOUS
  <2>6. x \in Record /\ x = [demand[r].row EXCEPT !.serial = s]
    BY <2>3, <2>5, ConstantRecords DEF Record
  <2>7. PICK e : e = [demand[r] EXCEPT !.step = "apply", !.row = x]
    OBVIOUS
  <2>8. /\ e \in Demand /\ e.kind = "create" /\ e.step = "apply" /\ e.row = x
        /\ ~e.holds
    BY <1>1, <1>2, <2>1, <2>6, <2>7 DEF Demand, Step
  <2>9. demand' = [demand EXCEPT ![r] = e]
    BY <1>5, <2>4, <2>6, <2>7
  <2>10. Made(e)
    BY <2>8 DEF Made, TakesNumber
  <2>11. PICK t : t = [Thinged(f, a) EXCEPT !.there = FALSE]
    OBVIOUS
  <2>12. t \in Thing /\ t.family = f /\ t.owner = a /\ t.spec = Spec0
    BY <2>11, ConstantRecords DEF Thinged, Thing
  <2>13. thing' = [thing EXCEPT ![Fresh] = t]
    BY <1>1, <1>5, <2>2, <2>11
  <2>14. /\ e.row = [family |-> f, account |-> a, serial |-> Fresh, spec |-> Spec0]
         /\ e.step \in {"insert", "apply"} /\ (e.step = "insert" => t.there)
    BY <2>4, <2>5, <2>8
  <2>. QED  BY <1>1, <1>3, <1>5, <2>8, <2>10, <2>9, <2>12, <2>13, <2>14, NumberingSound
<1>. QED  BY <1>4, <1>5 DEF InsertsService

\* A change of one thing that leaves it whose it is.
LEMMA ThingStep ==
  ASSUME ResourcesSound, NEW r \in Requester, NEW e, e \in Demand, NEW s \in Serial, NEW t \in Thing,
         t.family = thing[s].family, t.owner = thing[s].owner,
         thing' = [thing EXCEPT ![s] = t], record' = record,
         demand' = [demand EXCEPT ![r] = e], DemandSound(e)',
         \A q \in Requester \ {r} : Apart(e, demand[q]) /\ Apart(demand[q], e),
         \A q \in Requester \ {r} : demand[q].row.serial = s => Beside(demand[q]),
         allowed' \subseteq allowed, granted' = granted, demands' = demands,
         cut' = cut, mistaken' = mistaken,
         doomed \subseteq doomed', doomed' \subseteq Serial,
         \A x \in record : x.serial = s => t.there \/ s \in doomed',
         t.there => \/ \E x \in record : x.serial = s
                    \/ Made(e) /\ e.row.serial = s
                    \/ s \in cut,
         Made(demand[r]) => \/ demand[r].row.serial = s
                            \/ Made(e) /\ e.row.serial = demand[r].row.serial,
         t.spec = thing[s].spec \/ Changing(e, s),
         \A u \in Serial : ~Changing(demand[r], u)
  PROVE  ResourcesSound'
<1>1. thing \in [Serial -> Thing]
  BY DEF ResourcesSound, TypeOKResources
<1>2. /\ thing'[s] = t /\ \A u \in Serial \ {s} : thing'[u] = thing[u]
      /\ thing' \in [Serial -> Thing]
  BY <1>1
<1>3. /\ \A x : Known(x) => x.serial \in Serial
      /\ \A x : Known(x) => Known(x)'
  BY <1>2 DEF Known, Record
<1>4. ASSUME NEW q \in Requester \ {r} PROVE Beside(demand[q])
  <2>1. CASE demand[q].row.serial = s
    BY <2>1
  <2>2. CASE demand[q].row.serial # s
    <3>1. DemandSound(demand[q])
      BY OwnFacts
    <3>2. ASSUME Made(demand[q]) \/ demand[q].kind \in {"delete", "modify"}
          PROVE  Known(demand[q].row)
      BY <3>1, <3>2, DemandKindByStep DEF Made, Creates, MadeSound, Deletes, Modifies
    <3>3. Made(demand[q]) => \A x \in record : x.serial # demand[q].row.serial
      BY <3>1, DemandKindByStep DEF Made, Creates, MadeSound
    <3>4. ASSUME Made(demand[q]) \/ demand[q].kind \in {"delete", "modify"}
          PROVE  thing'[demand[q].row.serial] = thing[demand[q].row.serial]
      BY <1>2, <1>3, <2>2, <3>2, <3>4
    <3>. QED  BY <3>3, <3>4 DEF Beside
  <2>. QED  BY <2>1, <2>2
<1>5. DemandsSound' /\ \A q \in Requester : demand'[q] = IF q = r THEN e ELSE demand[q]
  BY <1>3, <1>4, WorldStep
<1>6. /\ \A q \in Requester \ {r} : (Made(demand[q]) <=> Made(demand[q])') /\ demand'[q] = demand[q]
      /\ (Made(demand[r])' <=> Made(e)) /\ demand'[r] = e
      /\ \A q \in Requester \ {r}, u \in Serial : Changing(demand[q], u)' <=> Changing(demand[q], u)
      /\ \A u \in Serial : Changing(demand[r], u)' <=> Changing(e, u)
  BY <1>5, RolesFollow
<1>7. \A x \in record : x.serial \in Serial
  BY <1>3 DEF ResourcesSound, RowsSound
<1>8. RowsSound'
  <2>1. ASSUME NEW x \in record PROVE thing'[x.serial].there \/ x.serial \in doomed'
    <3>1. thing[x.serial].there \/ x.serial \in doomed
      BY DEF ResourcesSound, RowsSound
    <3>. QED  BY <1>2, <1>7, <3>1
  <2>. QED  BY <1>3, <2>1 DEF ResourcesSound, RowsSound
<1>9. ThingsSound'
  <2>1. ASSUME NEW u \in Serial, thing'[u].there
        PROVE  \/ \E x \in record : x.serial = u
               \/ \E q \in Requester : Made(demand[q])' /\ demand'[q].row.serial = u
               \/ u \in cut \/ u \in mistaken
    <3>1. CASE u = s
      BY <1>2, <1>6, <2>1, <3>1
    <3>2. CASE u # s
      <4>1. thing[u].there
        BY <1>2, <2>1, <3>2
      <4>2. CASE \E q \in Requester : Made(demand[q]) /\ demand[q].row.serial = u
        <5>1. PICK q \in Requester : Made(demand[q]) /\ demand[q].row.serial = u
          BY <4>2
        <5>2. CASE q = r
          <6>1. Made(demand[r]) /\ demand[r].row.serial = u
            BY <5>1, <5>2
          <6>. QED  BY <1>6, <3>2, <6>1
        <5>3. CASE q # r
          BY <1>6, <5>1, <5>3
        <5>. QED  BY <5>2, <5>3
      <4>. QED  BY <4>1, <4>2 DEF ResourcesSound, ThingsSound
    <3>. QED  BY <3>1, <3>2
  <2>. QED  BY <2>1 DEF ThingsSound
<1>10. SpecsSound'
  <2>1. ASSUME NEW x \in record
        PROVE  \/ thing'[x.serial].spec = x.spec
               \/ \E q \in Requester : Changing(demand[q], x.serial)'
               \/ x.serial \in cut
    <3>1. \/ thing[x.serial].spec = x.spec
          \/ \E q \in Requester \ {r} : Changing(demand[q], x.serial)
          \/ x.serial \in cut
      BY <1>7 DEF ResourcesSound, SpecsSound
    <3>2. thing'[x.serial].spec = thing[x.serial].spec \/ (x.serial = s /\ Changing(e, s))
      BY <1>2, <1>7
    <3>. QED  BY <1>6, <1>7, <3>1, <3>2
  <2>. QED  BY <2>1 DEF SpecsSound
<1>11. AllowedSound'
  <2>1. ASSUME NEW p \in allowed PROVE p[1] \in Serial /\ p[2] \in Serial
    BY DEF ResourcesSound, TypeOKResources
  <2>2. \A u \in Serial : thing'[u].family = thing[u].family /\ thing'[u].owner = thing[u].owner
    BY <1>2
  <2>. QED  BY <2>1, <2>2 DEF ResourcesSound, AllowedSound
<1>12. TypeOKResources'
  BY <1>2, <1>5, TypesFollow DEF ResourcesSound, TypeOKResources
<1>. QED  BY <1>5, <1>8, <1>9, <1>10, <1>11, <1>12 DEF ResourcesSound

LEMMA BesideAsleep ==
  ASSUME NEW d, d.kind \notin {"create", "delete", "modify"} PROVE Beside(d)
<1>. QED  BY DEF Beside, Made

\* Nobody else is about the thing of a creation.
LEMMA AloneWithThing ==
  ASSUME ResourcesSound, NEW r \in Requester, Made(demand[r]),
         NEW q \in Requester \ {r}, demand[q].row.serial = demand[r].row.serial
  PROVE  Beside(demand[q])
<1>1. demand[q] = Idle
  BY OwnFacts DEF Apart
<1>2. demand[q].kind = "none"
  BY <1>1 DEF Idle
<1>. QED  BY <1>2, BesideAsleep

LEMMA MadeFacts ==
  ASSUME ResourcesSound, NEW r \in Requester, Made(demand[r])
  PROVE  /\ Creates(demand[r]) /\ MadeSound(demand[r])
         /\ demand[r].row \in Record /\ demand[r].row.serial \in Serial
         /\ \A x \in record : x.serial # demand[r].row.serial
<1>1. Creates(demand[r]) /\ MadeSound(demand[r])
  BY OwnFacts, DemandKindByStep DEF Made, Creates
<1>. QED  BY <1>1 DEF MadeSound, Known, Record

LEMMA WithThere ==
  ASSUME ResourcesSound, NEW s \in Serial, NEW there \in BOOLEAN, NEW t,
         t = [thing[s] EXCEPT !.there = there]
  PROVE  /\ t \in Thing /\ t.family = thing[s].family /\ t.owner = thing[s].owner
         /\ t.spec = thing[s].spec /\ (t.there <=> there)
<1>1. thing[s] \in Thing
  BY DEF ResourcesSound, TypeOKResources
<1>. QED  BY <1>1 DEF Thing

LEMMA CleansUpSound ==
  ASSUME ResourcesSound, NEW r \in Requester, CleansUp(r)
  PROVE  ResourcesSound'
<1>1. /\ demand[r].step = "undo"
      /\ thing' = [thing EXCEPT ![demand[r].row.serial].there = FALSE]
      /\ demand' = [demand EXCEPT ![r] = Idle] /\ demands' = demands
      /\ allowed' = allowed /\ record' = record /\ granted' = granted
      /\ doomed' = doomed /\ cut' = cut /\ mistaken' = mistaken
  BY DEF CleansUp, Closes, Rows, Ghosts
<1>2. Made(demand[r])
  BY <1>1, OwnFacts, DemandKindByStep DEF Made, TakesNumber, Creates
<1>3. PICK s \in Serial : s = demand[r].row.serial
  BY <1>2, MadeFacts
<1>4. PICK t : t = [thing[s] EXCEPT !.there = FALSE]
  OBVIOUS
<1>5. /\ t \in Thing /\ t.family = thing[s].family /\ t.owner = thing[s].owner
      /\ t.spec = thing[s].spec /\ ~t.there
  BY <1>4, WithThere
<1>6. thing' = [thing EXCEPT ![s] = t]
  BY <1>1, <1>3, <1>4
<1>7. \A q \in Requester \ {r} : demand[q].row.serial = s => Beside(demand[q])
  BY <1>2, <1>3, AloneWithThing
<1>13. PICK e : e = Idle
  OBVIOUS
<1>8. DemandSound(e)' /\ e \in Demand
  BY <1>13, ConstantRecords DEF DemandSound
<1>9. \A u \in Serial : ~Changing(demand[r], u)
  BY <1>1 DEF Changing
<1>10. \A q \in Requester \ {r} : Apart(e, demand[q]) /\ Apart(demand[q], e)
  BY <1>13, IdleIsApart
<1>11. \A x \in record : x.serial # s
  BY <1>2, <1>3, MadeFacts
<1>12. doomed' \subseteq Serial
  BY <1>1 DEF ResourcesSound, TypeOKResources
<1>14. /\ demand' = [demand EXCEPT ![r] = e] /\ demands' = demands
       /\ allowed' \subseteq allowed /\ doomed \subseteq doomed'
       /\ record' = record /\ granted' = granted /\ cut' = cut /\ mistaken' = mistaken
  BY <1>1, <1>13
<1>15. \A x \in record : x.serial = s => t.there \/ s \in doomed'
  BY <1>11
<1>. HIDE DEF Made, Changing, Idle
<1>. QED  BY <1>3, <1>5, <1>6, <1>7, <1>8, <1>9, <1>10, <1>12, <1>14, <1>15, ThingStep

LEMMA AppliesSound ==
  ASSUME ResourcesSound, NEW r \in Requester, Applies(r)
  PROVE  ResourcesSound'
<1>1. /\ demand[r].kind = "create" /\ demand[r].step = "apply"
      /\ allowed' = allowed /\ record' = record /\ granted' = granted
      /\ doomed' = doomed /\ cut' = cut /\ mistaken' = mistaken
  BY DEF Applies, At, Rows, Ghosts
<1>2. PICK step \in {"commit", "undo"}, some \in BOOLEAN :
        /\ thing' = [thing EXCEPT ![demand[r].row.serial].there = some]
        /\ step = "commit" => some
        /\ Turns(r, step)
  BY DEF Applies
<1>3. Made(demand[r])
  BY <1>1 DEF Made, TakesNumber
<1>4. PICK s \in Serial : s = demand[r].row.serial
  BY <1>3, MadeFacts
<1>5. PICK t : t = [thing[s] EXCEPT !.there = some]
  OBVIOUS
<1>6. /\ t \in Thing /\ t.family = thing[s].family /\ t.owner = thing[s].owner
      /\ t.spec = thing[s].spec /\ (t.there <=> some)
  BY <1>5, WithThere
<1>7. thing' = [thing EXCEPT ![s] = t]
  BY <1>2, <1>4, <1>5
<1>8. thing'[s] = t
  BY <1>7 DEF ResourcesSound, TypeOKResources
<1>9. PICK e : e = [demand[r] EXCEPT !.step = step]
  OBVIOUS
<1>10. /\ e \in Demand /\ e.kind = "create" /\ e.row = demand[r].row /\ e.step = step
       /\ e.holds = demand[r].holds
  BY <1>1, <1>9, OwnFacts DEF Demand, Step
<1>11. demand' = [demand EXCEPT ![r] = e] /\ demands' = demands
  BY <1>2, <1>9 DEF Turns
<1>12. Made(e)
  BY <1>10 DEF Made, TakesNumber
<1>13. DemandSound(e)'
  <2>1. MadeSound(e)'
    BY <1>1, <1>2, <1>3, <1>4, <1>6, <1>8, <1>10, MadeFacts DEF MadeSound, Known
  <2>2. Creates(e)'
    BY <1>3, <1>10, <1>12, <2>1, MadeFacts DEF Creates, Made, TakesNumber
  <2>. QED  BY <2>2 DEF DemandSound
<1>14. \A q \in Requester \ {r} : demand[q].row.serial = s => Beside(demand[q])
  BY <1>3, <1>4, AloneWithThing
<1>15. \A u \in Serial : ~Changing(demand[r], u)
  BY <1>1 DEF Changing
<1>16. \A q \in Requester \ {r} : Apart(e, demand[q]) /\ Apart(demand[q], e)
  <2>1. demand[r] # Idle
    BY <1>1 DEF Idle
  <2>. QED  BY <1>3, <1>10, <1>12, <2>1, OwnFacts DEF Apart
<1>17. \A x \in record : x.serial # s
  BY <1>3, <1>4, MadeFacts
<1>18. doomed' \subseteq Serial
  BY <1>1 DEF ResourcesSound, TypeOKResources
<1>19. e.row.serial = s
  BY <1>4, <1>10
<1>. HIDE DEF Made, Changing
<1>. QED  BY <1>1, <1>4, <1>6, <1>7, <1>10, <1>11, <1>12, <1>13, <1>14, <1>15, <1>16, <1>17, <1>18, <1>19, ThingStep

LEMMA RemovesSound ==
  ASSUME ResourcesSound, NEW r \in Requester, Removes(r)
  PROVE  ResourcesSound'
<1>1. /\ demand[r].kind = "delete" /\ demand[r].step = "remove" /\ Turns(r, "forget")
      /\ thing' = [thing EXCEPT ![demand[r].row.serial].there = FALSE]
      /\ doomed' = doomed \cup {demand[r].row.serial}
      /\ allowed' \subseteq allowed /\ record' = record /\ granted' = granted /\ cut' = cut
      /\ mistaken' = mistaken
  BY DEF Removes, At, Rows
<1>2. Deletes(demand[r]) /\ demand[r] \in Demand
  BY <1>1, OwnFacts, DemandKindByStep
<1>3. PICK s \in Serial : s = demand[r].row.serial
  BY <1>2 DEF Deletes, Known, Record
<1>4. PICK t : t = [thing[s] EXCEPT !.there = FALSE]
  OBVIOUS
<1>5. /\ t \in Thing /\ t.family = thing[s].family /\ t.owner = thing[s].owner
      /\ t.spec = thing[s].spec /\ ~t.there
  BY <1>4, WithThere
<1>6. thing' = [thing EXCEPT ![s] = t]
  BY <1>1, <1>3, <1>4
<1>7. thing'[s] = t
  BY <1>6 DEF ResourcesSound, TypeOKResources
<1>8. PICK e : e = [demand[r] EXCEPT !.step = "forget"]
  OBVIOUS
<1>9. /\ e \in Demand /\ e.kind = "delete" /\ e.row = demand[r].row /\ e.step = "forget"
      /\ e.holds = demand[r].holds /\ e.gone = demand[r].gone
  BY <1>1, <1>2, <1>8 DEF Demand, Step
<1>10. demand' = [demand EXCEPT ![r] = e] /\ demands' = demands
  BY <1>1, <1>8 DEF Turns
<1>11. DemandSound(e)'
  <2>1. Known(e.row)'
    BY <1>2, <1>3, <1>5, <1>7, <1>9 DEF Deletes, Known
  <2>2. ~thing'[e.row.serial].there
    BY <1>3, <1>5, <1>7, <1>9
  <2>. QED  BY <1>2, <1>9, <2>1, <2>2 DEF DemandSound, Deletes
<1>12. ~Made(e) /\ ~Made(demand[r]) /\ demand[r] # Idle
  BY <1>1, <1>9 DEF Made, Idle
<1>13. \A q \in Requester \ {r} : Apart(e, demand[q]) /\ Apart(demand[q], e)
  BY <1>9, <1>12, OwnFacts DEF Apart
<1>14. ASSUME NEW q \in Requester \ {r}, demand[q].row.serial = s PROVE Beside(demand[q])
  <2>1. ~Made(demand[q])
    BY <1>3, <1>12, <1>14, OwnFacts DEF Apart
  <2>. QED  BY <1>1, <1>5, <1>7, <1>14, <2>1 DEF Beside
<1>15. \A u \in Serial : ~Changing(demand[r], u)
  BY <1>1 DEF Changing
<1>16. doomed \subseteq doomed' /\ doomed' \subseteq Serial /\ s \in doomed'
  BY <1>1, <1>3 DEF ResourcesSound, TypeOKResources
<1>. HIDE DEF Made, Changing
<1>. QED  BY <1>1, <1>3, <1>5, <1>6, <1>9, <1>10, <1>11, <1>12, <1>13, <1>14, <1>15, <1>16, ThingStep

LEMMA AppliesChangeSound ==
  ASSUME ResourcesSound, NEW r \in Requester, AppliesChange(r)
  PROVE  ResourcesSound'
<1>1. /\ demand[r].kind = "modify" /\ demand[r].step = "apply" /\ Turns(r, "commit")
      /\ thing' = [thing EXCEPT ![demand[r].row.serial].there = TRUE,
                                ![demand[r].row.serial].spec = demand[r].row.spec]
      /\ allowed' = allowed /\ record' = record /\ granted' = granted
      /\ doomed' = doomed /\ cut' = cut /\ mistaken' = mistaken
  BY DEF AppliesChange, At, Rows, Ghosts
<1>2. Modifies(demand[r]) /\ demand[r] \in Demand
  BY <1>1, OwnFacts, DemandKindByStep
<1>3. PICK s \in Serial : s = demand[r].row.serial
  BY <1>2 DEF Modifies, Known, Record
<1>4. PICK t : t = [thing[s] EXCEPT !.there = TRUE, !.spec = demand[r].row.spec]
  OBVIOUS
<1>5. /\ t \in Thing /\ t.family = thing[s].family /\ t.owner = thing[s].owner
      /\ t.spec = demand[r].row.spec /\ t.there
  <2>1. thing[s] \in Thing
    BY DEF ResourcesSound, TypeOKResources
  <2>2. demand[r].row.spec \in [Field -> 0..1]
    BY <1>2 DEF Modifies, Known, Record
  <2>. QED  BY <1>4, <2>1, <2>2 DEF Thing
<1>6. thing' = [thing EXCEPT ![s] = t]
  <2>1. thing \in [Serial -> Thing]
    BY DEF ResourcesSound, TypeOKResources
  <2>. QED  BY <1>1, <1>3, <1>4, <2>1
<1>7. thing'[s] = t
  BY <1>6 DEF ResourcesSound, TypeOKResources
<1>8. PICK e : e = [demand[r] EXCEPT !.step = "commit"]
  OBVIOUS
<1>9. /\ e \in Demand /\ e.kind = "modify" /\ e.row = demand[r].row /\ e.step = "commit"
      /\ e.holds = demand[r].holds /\ e.field = demand[r].field
  BY <1>1, <1>2, <1>8 DEF Demand, Step
<1>10. demand' = [demand EXCEPT ![r] = e] /\ demands' = demands
  BY <1>1, <1>8 DEF Turns
<1>11. PICK y \in record : /\ y.serial = s
                           /\ demand[r].row = [y EXCEPT !.spec[demand[r].field] = 1 - @]
  BY <1>1, <1>2, <1>3 DEF Modifies
<1>12. DemandSound(e)'
  <2>1. Known(e.row)'
    BY <1>2, <1>3, <1>5, <1>7, <1>9 DEF Modifies, Known
  <2>2. thing'[e.row.serial].spec = e.row.spec
    BY <1>3, <1>5, <1>7, <1>9
  <2>3. \E z \in record' : z.serial = e.row.serial /\ e.row = [z EXCEPT !.spec[e.field] = 1 - @]
    BY <1>1, <1>3, <1>9, <1>11
  <2>4. e.row.family = "service" /\ e.holds
    BY <1>2, <1>9 DEF Modifies
  <2>. QED  BY <1>9, <2>1, <2>2, <2>3, <2>4 DEF DemandSound, Modifies
<1>13. ~Made(e) /\ ~Made(demand[r]) /\ demand[r] # Idle
  BY <1>1, <1>9 DEF Made, Idle
<1>14. \A q \in Requester \ {r} : Apart(e, demand[q]) /\ Apart(demand[q], e)
  BY <1>9, <1>13, OwnFacts DEF Apart
<1>15. ASSUME NEW q \in Requester \ {r}, demand[q].row.serial = s PROVE Beside(demand[q])
  <2>1. ~Made(demand[q])
    BY <1>3, <1>13, <1>15, OwnFacts DEF Apart
  <2>2. ~demand[q].holds
    BY <1>2, <1>3, <1>15, OwnFacts DEF Apart, Modifies
  <2>3. demand[q].kind # "modify"
    BY <2>2, OwnFacts, DemandKindByStep DEF Modifies
  <2>4. ASSUME demand[q].kind = "delete" PROVE FALSE
    <3>1. Deletes(demand[q])
      BY <2>4, OwnFacts, DemandKindByStep
    <3>2. demand[q].row.family = thing[s].family /\ demand[r].row.family = thing[s].family
      BY <1>2, <1>3, <1>15, <3>1 DEF Deletes, Modifies, Known
    <3>. QED  BY <1>2, <2>2, <3>1, <3>2 DEF Deletes, Modifies
  <2>. QED  BY <2>1, <2>3, <2>4 DEF Beside
<1>16. \A u \in Serial : ~Changing(demand[r], u)
  BY <1>1 DEF Changing
<1>17. Changing(e, s)
  BY <1>3, <1>9 DEF Changing
<1>18. doomed' \subseteq Serial
  BY <1>1 DEF ResourcesSound, TypeOKResources
<1>19. /\ \E x \in record : x.serial = s
       /\ doomed \subseteq doomed' /\ allowed' \subseteq allowed
  BY <1>1, <1>11
<1>20. /\ t \in Thing /\ t.family = thing[s].family /\ t.owner = thing[s].owner
       /\ \A x \in record : x.serial = s => t.there \/ s \in doomed'
  BY <1>5
<1>. HIDE DEF Made, Changing
<1>. QED  BY <1>1, <1>6, <1>9, <1>10, <1>12, <1>13, <1>14, <1>15, <1>16, <1>17, <1>18, <1>19, <1>20, ThingStep

LEMMA LetsSound ==
  ASSUME ResourcesSound, NEW r \in Requester, Allows(r) \/ Denies(r)
  PROVE  ResourcesSound'
<1>1. /\ Turns(r, "note") /\ demand[r].step \in {"allow", "deny"}
      /\ demand[r].kind \in {"grant", "revoke"}
      /\ demand[r].kind = "revoke" => allowed' \subseteq allowed
      /\ demand[r].kind = "grant" => allowed' = allowed \cup {Pair(r)}
      /\ thing' = thing /\ record' = record /\ granted' = granted /\ doomed' = doomed
      /\ cut' = cut /\ mistaken' = mistaken
  BY DEF Allows, Denies, At, Rows, Ghosts
<1>2. Lets(demand[r]) /\ demand[r] \in Demand
  BY <1>1, OwnFacts, DemandKindByStep
<1>3. PICK b, k : b = demand[r].row /\ k = demand[r].key
  OBVIOUS
<1>4. /\ Known(b) /\ Known(k) /\ b.serial \in Serial /\ k.serial \in Serial
      /\ demand[r].kind = "grant" => k.account = b.account
  BY <1>2, <1>3 DEF Lets, Known, Record
<1>5. demand[r].kind = "grant" =>
         /\ thing[b.serial].owner = thing[k.serial].owner
         /\ thing[b.serial].family # "none" /\ thing[k.serial].family # "none"
  BY <1>4, ConstantRecords DEF Known, Record
<1>6. AllowedSound' /\ allowed' \subseteq Serial \X Serial
  <2>1. AllowedSound /\ allowed \subseteq Serial \X Serial
    BY DEF ResourcesSound, TypeOKResources
  <2>2. CASE demand[r].kind = "revoke"
    BY <1>1, <2>1, <2>2 DEF AllowedSound
  <2>3. CASE demand[r].kind = "grant"
    <3>1. allowed' = allowed \cup {<<b.serial, k.serial>>}
      BY <1>1, <1>3, <2>3 DEF Pair
    <3>. QED  BY <1>1, <1>4, <1>5, <2>1, <2>3, <3>1 DEF AllowedSound
  <2>. QED  BY <1>1, <2>2, <2>3
<1>7. PICK e : e = [demand[r] EXCEPT !.step = "note"]
  OBVIOUS
<1>8. /\ e \in Demand /\ e.kind = demand[r].kind /\ e.row = demand[r].row /\ e.step = "note"
      /\ e.holds = demand[r].holds /\ e.key = demand[r].key
  BY <1>2, <1>7 DEF Demand, Step
<1>9. demand' = [demand EXCEPT ![r] = e] /\ demands' = demands
  BY <1>1, <1>7 DEF Turns
<1>10. DemandSound(e)
  BY <1>2, <1>8 DEF DemandSound, Lets
<1>11. ~Made(e) /\ ~Made(demand[r])
  BY <1>1, <1>8 DEF Made
<1>. HIDE DEF Made
<1>. QED  BY <1>1, <1>6, <1>8, <1>9, <1>10, <1>11, GoingOn

\* A change of the rows when a request ends.
LEMMA RowsStep ==
  ASSUME ResourcesSound, NEW r \in Requester, Closes(r),
         record' \subseteq Record, thing' = thing, allowed' = allowed,
         granted' \subseteq Serial \X Serial, doomed' = doomed,
         cut \subseteq cut', cut' \subseteq Serial,
         mistaken \subseteq mistaken', mistaken' \subseteq Serial,
         \A q \in Requester \ {r} : Beside(demand[q]), RowsSound',
         \A x \in record : \/ \E y \in record' : y.serial = x.serial
                          \/ ~thing[x.serial].there
                          \/ x.serial \in mistaken',
         Made(demand[r]) => \E x \in record' : x.serial = demand[r].row.serial,
         \A x \in record' : \/ x \in record /\ ~Changing(demand[r], x.serial)
                           \/ thing[x.serial].spec = x.spec
  PROVE  ResourcesSound'
<1>1. demand' = [demand EXCEPT ![r] = Idle] /\ demands' = demands
  BY DEF Closes
<1>2. PICK e : e = Idle
  OBVIOUS
<1>3. e \in Demand /\ DemandSound(e)' /\ demand' = [demand EXCEPT ![r] = e]
  BY <1>1, <1>2, ConstantRecords DEF DemandSound
<1>4. \A x : Known(x) => Known(x)'
  BY DEF Known
<1>5. \A q \in Requester \ {r} : Apart(e, demand[q]) /\ Apart(demand[q], e)
  BY <1>2, IdleIsApart
<1>6. DemandsSound' /\ \A q \in Requester : demand'[q] = IF q = r THEN e ELSE demand[q]
  <2>1. ResourcesSound /\ r \in Requester /\ \A q \in Requester \ {r} : Beside(demand[q])
    OBVIOUS
  <2>. QED  BY ONLY <1>3, <1>4, <1>5, <2>1, WorldStep
<1>7. /\ \A q \in Requester \ {r} : (Made(demand[q]) <=> Made(demand[q])') /\ demand'[q] = demand[q]
      /\ \A q \in Requester \ {r}, u \in Serial : Changing(demand[q], u)' <=> Changing(demand[q], u)
  BY <1>6, RolesFollow
<1>8. ThingsSound'
  <2>1. ASSUME NEW u \in Serial, thing'[u].there
        PROVE  \/ \E x \in record' : x.serial = u
               \/ \E q \in Requester : Made(demand[q])' /\ demand'[q].row.serial = u
               \/ u \in cut' \/ u \in mistaken'
    <3>1. CASE \E q \in Requester : Made(demand[q]) /\ demand[q].row.serial = u
      <4>1. PICK q \in Requester : Made(demand[q]) /\ demand[q].row.serial = u
        BY <3>1
      <4>2. CASE q = r
        <5>1. Made(demand[r]) /\ demand[r].row.serial = u
          BY <4>1, <4>2
        <5>. QED  BY <5>1
      <4>3. CASE q # r
        BY <1>7, <4>1, <4>3
      <4>. QED  BY <4>2, <4>3
    <3>2. CASE \E x \in record : x.serial = u
      BY <2>1, <3>2
    <3>. QED  BY <2>1, <3>1, <3>2 DEF ResourcesSound, ThingsSound
  <2>. QED  BY <2>1 DEF ThingsSound
<1>9. SpecsSound'
  <2>1. ASSUME NEW x \in record'
        PROVE  \/ thing'[x.serial].spec = x.spec
               \/ \E q \in Requester : Changing(demand[q], x.serial)'
               \/ x.serial \in cut'
    <3>1. CASE thing[x.serial].spec = x.spec
      BY <3>1
    <3>2. CASE x \in record /\ ~Changing(demand[r], x.serial)
      <4>1. x.serial \in Serial
        BY <3>2 DEF ResourcesSound, RowsSound, Known, Record
      <4>2. CASE \E q \in Requester : Changing(demand[q], x.serial)
        <5>1. PICK q \in Requester : Changing(demand[q], x.serial)
          BY <4>2
        <5>2. CASE q = r
          <6>1. Changing(demand[r], x.serial)
            BY <5>1, <5>2
          <6>. QED  BY <3>2, <6>1
        <5>3. CASE q # r
          BY <1>7, <4>1, <5>1, <5>3
        <5>. QED  BY <5>2, <5>3
      <4>. QED  BY <3>2, <4>2 DEF ResourcesSound, SpecsSound
    <3>. QED  BY <3>1, <3>2
  <2>. QED  BY <2>1 DEF SpecsSound
<1>10. AllowedSound' /\ allowed' \subseteq Serial \X Serial
  BY AllowedAsBefore
<1>11. TypeOKResources'
  BY <1>1, <1>6, <1>10, TypesFollow DEF ResourcesSound, TypeOKResources
<1>. QED  BY <1>6, <1>8, <1>9, <1>10, <1>11 DEF ResourcesSound

LEMMA CommitsCreationSound ==
  ASSUME ResourcesSound, NEW r \in Requester, CommitsCreation(r)
  PROVE  ResourcesSound'
<1>1. /\ demand[r].kind = "create" /\ demand[r].step = "commit" /\ Closes(r)
      /\ record' = record \cup {demand[r].row}
      /\ thing' = thing /\ allowed' = allowed /\ granted' = granted
      /\ doomed' = doomed /\ cut' = cut /\ mistaken' = mistaken
  BY DEF CommitsCreation, At, External, Ghosts
<1>2. Made(demand[r])
  BY <1>1 DEF Made, TakesNumber
<1>3. PICK x : x = demand[r].row
  OBVIOUS
<1>4. /\ x \in Record /\ x.serial \in Serial /\ Known(x) /\ thing[x.serial].spec = x.spec
      /\ thing[x.serial].there /\ \A y \in record : y.serial # x.serial
  BY <1>1, <1>2, <1>3, MadeFacts DEF MadeSound
<1>5. RowsSound'
  <2>1. \A y : Known(y) => Known(y)'
    BY <1>1 DEF Known
  <2>. QED  BY <1>1, <1>3, <1>4, <2>1 DEF ResourcesSound, RowsSound
<1>6. ASSUME NEW q \in Requester \ {r} PROVE Beside(demand[q])
  <2>1. Made(demand[q]) => demand[q].row.serial # x.serial
    <3>1. demand[r] # Idle
      BY <1>1 DEF Idle
    <3>. QED  BY <1>3, <3>1, OwnFacts DEF Apart
  <2>2. Made(demand[q]) => \A y \in record : y.serial # demand[q].row.serial
    BY MadeFacts
  <2>. QED  BY <1>1, <1>3, <2>1, <2>2 DEF Beside
<1>7. /\ record' \subseteq Record /\ granted' \subseteq Serial \X Serial
      /\ cut' \subseteq Serial /\ mistaken' \subseteq Serial
  BY <1>1, <1>3, <1>4 DEF ResourcesSound, TypeOKResources
<1>8. \A u : ~Changing(demand[r], u)
  BY <1>1 DEF Changing
<1>. QED  BY <1>1, <1>3, <1>4, <1>5, <1>6, <1>7, <1>8, RowsStep

LEMMA CommitsRemovalSound ==
  ASSUME ResourcesSound, NEW r \in Requester, CommitsRemoval(r)
  PROVE  ResourcesSound'
<1>1. PICK serials : serials = {x.serial : x \in demand[r].gone}
  OBVIOUS
<1>2. /\ demand[r].kind = "delete" /\ demand[r].step = "commit" /\ Closes(r)
      /\ record' = record \ demand[r].gone /\ granted' \subseteq granted
      /\ mistaken' = mistaken \cup (serials \ {demand[r].row.serial})
      /\ thing' = thing /\ allowed' = allowed /\ doomed' = doomed /\ cut' = cut
  BY <1>1 DEF CommitsRemoval, At, External
<1>3. Deletes(demand[r]) /\ demand[r] \in Demand
  BY <1>2, OwnFacts, DemandKindByStep
<1>4. serials \subseteq Serial
  BY <1>1, <1>3 DEF Demand, Record
<1>5. ASSUME NEW q \in Requester \ {r} PROVE Beside(demand[q])
  <2>1. Made(demand[q]) => \A y \in record : y.serial # demand[q].row.serial
    BY MadeFacts
  <2>2. ASSUME demand[q].kind = "modify", NEW y \in record, y.serial = demand[q].row.serial,
               y \in demand[r].gone
        PROVE  FALSE
    <3>1. Modifies(demand[q])
      BY <2>2, OwnFacts, DemandKindByStep
    <3>2. y.family = "service"
      BY <2>2, <3>1 DEF Modifies, Known, ResourcesSound, RowsSound
    <3>3. y.serial = demand[r].row.serial
      BY <1>3, <2>2, <3>2 DEF Deletes
    <3>4. demand[r].row.family = "service"
      BY <1>3, <2>2, <3>2, <3>3 DEF Deletes, Known, ResourcesSound, RowsSound
    <3>. QED  BY <1>3, <2>2, <3>1, <3>3, <3>4, OwnFacts DEF Deletes, Modifies, Apart
  <2>. QED  BY <1>2, <2>1, <2>2 DEF Beside
<1>6. RowsSound'
  <2>1. \A y : Known(y) => Known(y)'
    BY <1>2 DEF Known
  <2>. QED  BY <1>2, <2>1 DEF ResourcesSound, RowsSound
<1>7. ASSUME NEW x \in record
      PROVE  (\E y \in record' : y.serial = x.serial) \/ ~thing[x.serial].there \/ x.serial \in mistaken'
  <2>1. CASE x \notin demand[r].gone
    BY <1>2, <2>1
  <2>2. CASE x \in demand[r].gone /\ x.serial = demand[r].row.serial
    BY <1>2, <1>3, <2>2 DEF Deletes
  <2>3. CASE x \in demand[r].gone /\ x.serial # demand[r].row.serial
    BY <1>1, <1>2, <2>3
  <2>. QED  BY <2>1, <2>2, <2>3
<1>8. /\ record' \subseteq Record /\ granted' \subseteq Serial \X Serial
      /\ cut \subseteq cut' /\ cut' \subseteq Serial
      /\ mistaken \subseteq mistaken' /\ mistaken' \subseteq Serial
  BY <1>2, <1>4 DEF ResourcesSound, TypeOKResources
<1>9. ~Made(demand[r]) /\ \A u : ~Changing(demand[r], u)
  BY <1>2 DEF Changing, Made
<1>10. \A x \in record' : x \in record /\ ~Changing(demand[r], x.serial)
  BY <1>2, <1>9
<1>. QED  BY <1>2, <1>5, <1>6, <1>7, <1>8, <1>9, <1>10, RowsStep

LEMMA ChangeFacts ==
  ASSUME ResourcesSound, NEW r \in Requester, CommitsChange(r)
  PROVE  LET x == demand[r].row
         IN  /\ Modifies(demand[r]) /\ demand[r].step = "commit" /\ demand[r].field \in Field
             /\ x.serial \in Serial /\ x \in Record /\ Known(x)
             /\ \E y \in record : y.serial = x.serial /\ x = [y EXCEPT !.spec[demand[r].field] = 1 - @]
             /\ record' = {y \in record : y.serial # x.serial} \cup {x}
<1>1. demand[r].kind = "modify" /\ demand[r].step = "commit"
  BY DEF CommitsChange, At
<1>2. Modifies(demand[r]) /\ demand[r] \in Demand
  BY <1>1, OwnFacts, DemandKindByStep
<1>3. PICK x : x = demand[r].row
  OBVIOUS
<1>4. \E y \in record : y.serial = x.serial /\ x = [y EXCEPT !.spec[demand[r].field] = 1 - @]
  BY <1>1, <1>2, <1>3 DEF Modifies
<1>5. record' = {IF y.serial = x.serial THEN x ELSE y : y \in record}
  BY <1>3 DEF CommitsChange
<1>6. record' = {y \in record : y.serial # x.serial} \cup {x}
  BY <1>4, <1>5
<1>7. x \in Record /\ x.serial \in Serial /\ Known(x)
  BY <1>2, <1>3 DEF Modifies, Known, Record
<1>8. demand[r].field \in Field
  BY <1>2 DEF Demand
<1>. QED  BY <1>1, <1>2, <1>3, <1>4, <1>6, <1>7, <1>8

LEMMA CommitsChangeSound ==
  ASSUME ResourcesSound, NEW r \in Requester, CommitsChange(r)
  PROVE  ResourcesSound'
<1>1. PICK x : x = demand[r].row
  OBVIOUS
<1>2. /\ Modifies(demand[r]) /\ demand[r].step = "commit"
      /\ x.serial \in Serial /\ x \in Record /\ Known(x)
      /\ record' = {y \in record : y.serial # x.serial} \cup {x}
  BY <1>1, ChangeFacts
<1>3. PICK y0 \in record : y0.serial = x.serial
  BY <1>1, ChangeFacts
<1>4. /\ Closes(r) /\ thing' = thing /\ allowed' = allowed /\ granted' = granted
      /\ doomed' = doomed /\ cut' = cut /\ mistaken' = mistaken
  BY DEF CommitsChange, External, Ghosts
<1>5. RowsSound'
  <2>1. \A y : Known(y) => Known(y)'
    BY <1>4 DEF Known
  <2>2. \A y \in record' : Known(y)'
    BY <1>2, <2>1 DEF ResourcesSound, RowsSound
  <2>3. \A y \in record' : thing'[y.serial].there \/ y.serial \in doomed'
    BY <1>2, <1>3, <1>4 DEF ResourcesSound, RowsSound
  <2>4. \A y, z \in record' : y.serial = z.serial => y = z
    BY <1>2 DEF ResourcesSound, RowsSound
  <2>. QED  BY <2>2, <2>3, <2>4 DEF RowsSound
<1>6. ASSUME NEW q \in Requester \ {r} PROVE Beside(demand[q])
  <2>1. Made(demand[q]) => \A y \in record : y.serial # demand[q].row.serial
    BY MadeFacts
  <2>2. Made(demand[q]) => \A y \in record' : y.serial # demand[q].row.serial
    BY <1>2, <1>3, <2>1
  <2>3. ASSUME demand[q].kind = "modify" PROVE demand[q].row.serial # x.serial
    <3>1. Modifies(demand[q])
      BY <2>3, OwnFacts, DemandKindByStep
    <3>. QED  BY <1>1, <1>2, <3>1, OwnFacts DEF Modifies, Apart
  <2>. QED  BY <1>2, <1>4, <2>2, <2>3 DEF Beside
<1>7. \A y \in record : \E z \in record' : z.serial = y.serial
  BY <1>2
<1>8. ASSUME NEW y \in record'
      PROVE  \/ y \in record /\ ~Changing(demand[r], y.serial)
             \/ thing[y.serial].spec = y.spec
  <2>1. CASE y = x
    BY <1>1, <1>2, <2>1 DEF Modifies
  <2>2. CASE y \in record /\ y.serial # x.serial
    BY <1>1, <2>2 DEF Changing
  <2>. QED  BY <1>2, <2>1, <2>2
<1>9. ~Made(demand[r])
  BY <1>2 DEF Made, Modifies
<1>10. /\ record' \subseteq Record /\ granted' \subseteq Serial \X Serial
       /\ cut \subseteq cut' /\ cut' \subseteq Serial
       /\ mistaken \subseteq mistaken' /\ mistaken' \subseteq Serial
  BY <1>2, <1>4 DEF ResourcesSound, TypeOKResources
<1>. QED  BY <1>4, <1>5, <1>6, <1>7, <1>8, <1>9, <1>10, RowsStep

-----------------------------------------------------------------------------
(* The invariant holds                                                      *)

LEMMA ResourcesSoundAtFirst == InitResources => ResourcesSound
<1> SUFFICES ASSUME InitResources PROVE ResourcesSound
  OBVIOUS
<1>1. PICK had \in SUBSET Family, a \in Tenant :
        LET number == CHOOSE n \in [had -> 1..Cardinality(had)] :
                         \A f, g \in had : n[f] = n[g] => f = g
        IN  /\ record = {[family |-> f, account |-> a, serial |-> number[f],
                          spec |-> Spec0] : f \in had}
            /\ thing = [s \in Serial |-> IF \E f \in had : number[f] = s
                          THEN Thinged(CHOOSE f \in had : number[f] = s, a) ELSE NoThing]
  BY DEF InitResources
<1>2. PICK number : number = CHOOSE n \in [had -> 1..Cardinality(had)] :
                                \A f, g \in had : n[f] = n[g] => f = g
  OBVIOUS
<1>3. IsFiniteSet(Family)
  <2>1. IsFiniteSet({"bucket", "key", "database", "service"})
    <3>1. IsFiniteSet({"bucket"})
      BY FS_Singleton
    <3>2. IsFiniteSet({"bucket"} \cup {"key"})
      BY <3>1, FS_AddElement
    <3>3. IsFiniteSet(({"bucket"} \cup {"key"}) \cup {"database"})
      BY <3>2, FS_AddElement
    <3>4. IsFiniteSet((({"bucket"} \cup {"key"}) \cup {"database"}) \cup {"service"})
      BY <3>3, FS_AddElement
    <3>5. {"bucket", "key", "database", "service"} =
             (({"bucket"} \cup {"key"}) \cup {"database"}) \cup {"service"}
      OBVIOUS
    <3>. QED  BY <3>4, <3>5
  <2>. QED  BY <2>1, FS_Subset, ResourcesAssumption
<1>4. IsFiniteSet(had) /\ Cardinality(had) \in Nat /\ Cardinality(had) <= Cardinality(Serial)
  <2>1. IsFiniteSet(had) /\ Cardinality(had) <= Cardinality(Family)
    BY <1>3, FS_Subset
  <2>2. Cardinality(had) \in Nat /\ Cardinality(Family) \in Nat
    BY <1>3, <2>1, FS_CardinalityType
  <2>. QED  BY <2>1, <2>2, ResourcesAssumption, SerialsAreNumbers
<1>5. number \in [had -> 1..Cardinality(had)] /\ \A f, g \in had : number[f] = number[g] => f = g
  <2>1. ExistsBijection(1..Cardinality(had), had)
    BY <1>4, FS_CardinalityType
  <2>2. ExistsBijection(had, 1..Cardinality(had))
    BY <2>1, Fun_ExistsBijSymmetric
  <2>3. PICK n \in Bijection(had, 1..Cardinality(had)) : TRUE
    BY <2>2 DEF ExistsBijection
  <2>4. n \in [had -> 1..Cardinality(had)] /\ \A f, g \in had : n[f] = n[g] => f = g
    BY <2>3 DEF Bijection, Injection, IsInjective
  <2>. QED  BY <1>2, <2>4
<1>6. \A f \in had : number[f] \in Serial
  BY <1>4, <1>5, ResourcesAssumption, SerialsAreNumbers
<1>7. /\ record = {[family |-> f, account |-> a, serial |-> number[f], spec |-> Spec0] : f \in had}
      /\ thing = [s \in Serial |-> IF \E f \in had : number[f] = s
                    THEN Thinged(CHOOSE f \in had : number[f] = s, a) ELSE NoThing]
  BY <1>1, <1>2
<1>8. ASSUME NEW f \in had PROVE thing[number[f]] = Thinged(f, a)
  <2>1. (CHOOSE g \in had : number[g] = number[f]) = f
    BY <1>5
  <2>. QED  BY <1>6, <1>7, <2>1
<1>9. ASSUME NEW s \in Serial
      PROVE  thing[s] \in Thing /\ (thing[s].there => \E f \in had : number[f] = s)
  <2>1. CASE \E f \in had : number[f] = s
    <3>1. PICK f \in had : number[f] = s
      BY <2>1
    <3>2. Thinged(f, a) \in Thing
      BY ConstantRecords DEF Thinged, Thing
    <3>. QED  BY <1>8, <3>1, <3>2
  <2>2. CASE ~ \E f \in had : number[f] = s
    <3>1. thing[s] = NoThing
      BY <1>7, <2>2
    <3>. QED  BY <3>1, ConstantRecords DEF NoThing
  <2>. QED  BY <2>1, <2>2
<1>10. /\ allowed = {} /\ granted = {} /\ demand = [r \in Requester |-> Idle]
       /\ demands = 0 /\ doomed = {} /\ cut = {} /\ mistaken = {}
  BY DEF InitResources
<1>11. thing \in [Serial -> Thing]
  <2>1. thing = [s \in Serial |-> thing[s]]
    BY <1>7
  <2>. QED  BY <1>9, <2>1
<1>12. ASSUME NEW x \in record
       PROVE  /\ x \in Record /\ Known(x) /\ thing[x.serial].there
              /\ thing[x.serial].spec = x.spec
  <2>1. PICK f \in had : x = [family |-> f, account |-> a, serial |-> number[f], spec |-> Spec0]
    BY <1>7
  <2>2. x \in Record
    BY <1>6, <2>1, ConstantRecords DEF Record
  <2>3. thing[x.serial] = [family |-> f, owner |-> a, there |-> TRUE, spec |-> Spec0]
    BY <1>8, <2>1 DEF Thinged
  <2>. QED  BY <2>1, <2>2, <2>3 DEF Known
<1>13. \A x, y \in record : x.serial = y.serial => x = y
  BY <1>5, <1>7
<1>14. DemandsSound
  <2>1. \A q \in Requester : demand[q] = Idle
    BY <1>10
  <2>2. demand \in [Requester -> Demand]
    BY <1>10, ConstantRecords
  <2>. QED  BY <2>1, <2>2, IdleIsApart DEF DemandsSound
<1>15. RowsSound /\ SpecsSound
  BY <1>12, <1>13 DEF RowsSound, SpecsSound
<1>16. ThingsSound
  <2>1. ASSUME NEW f \in had PROVE \E x \in record : x.serial = number[f]
    <3>. DEFINE x == [family |-> f, account |-> a, serial |-> number[f], spec |-> Spec0]
    <3>1. x \in record /\ x.serial = number[f]
      BY <1>7
    <3>. QED  BY <3>1
  <2>. QED  BY <1>9, <2>1 DEF ThingsSound
<1>17. AllowedSound
  BY <1>10 DEF AllowedSound
<1>18. TypeOKResources
  <2>1. 0 \in 0..MaxDemands
    BY ResourcesAssumption
  <2>2. \A r \in Requester :
          /\ demand[r].kind \in Kind /\ demand[r].step \in Step
          /\ demand[r].gone \subseteq Record /\ demand[r].holds \in BOOLEAN
    BY <1>14, DemandTypes
  <2>. QED  BY <1>10, <1>11, <1>12, <2>1, <2>2 DEF TypeOKResources
<1>. QED  BY <1>14, <1>15, <1>16, <1>17, <1>18 DEF ResourcesSound

LEMMA SoundKept == ResourcesSound /\ [NextResources]_resourcesvars => ResourcesSound'
<1> SUFFICES ASSUME ResourcesSound, [NextResources]_resourcesvars PROVE ResourcesSound'
  OBVIOUS
<1>1. CASE UNCHANGED resourcesvars
  <2>1. /\ thing' = thing /\ record' = record /\ allowed' = allowed /\ granted' = granted
        /\ demand' = demand /\ demands' = demands /\ doomed' = doomed /\ cut' = cut
        /\ mistaken' = mistaken
    BY <1>1 DEF resourcesvars
  <2>2. TypeOKResources'
    BY <2>1 DEF ResourcesSound, TypeOKResources
  <2>3. ASSUME NEW r \in Requester PROVE DemandSound(demand[r])'
    <3>1. PICK d : d = demand[r]
      OBVIOUS
    <3>2. demand'[r] = d /\ DemandSound(d)
      BY <2>1, <3>1 DEF ResourcesSound, DemandsSound
    <3>. QED  BY <2>1, <3>2, SaidOfSame, SaidOfValue
  <2>4. ASSUME NEW r \in Requester, NEW q \in Requester, r # q
        PROVE  Apart(demand[r], demand[q])'
    BY <2>1, <2>4 DEF ResourcesSound, DemandsSound, Apart, Made, TakesNumber
  <2>5. DemandsSound'
    BY <2>1, <2>3, <2>4 DEF ResourcesSound, DemandsSound
  <2>6. RowsSound' /\ AllowedSound'
    BY <2>1 DEF ResourcesSound, RowsSound, Known, AllowedSound
  <2>7. ThingsSound' /\ SpecsSound'
    BY <2>1 DEF ResourcesSound, ThingsSound, SpecsSound, Made, TakesNumber, Changing
  <2>. QED  BY <2>2, <2>5, <2>6, <2>7 DEF ResourcesSound
<1>2. ASSUME NEW r \in Requester, Serves(r) PROVE ResourcesSound'
  BY <1>2, MakesSound, InsertsRowSound, CleansUpSound, InsertsServiceSound, AppliesSound,
     CommitsCreationSound, RemovesSound, ForgetsSound, CommitsRemovalSound, UpdatesRowSound,
     AppliesChangeSound, CommitsChangeSound, LetsSound, NotesGrantSound DEF Serves
<1>3. ASSUME NEW r \in Requester, NEW x \in record, AsksRemoval(r, x) PROVE ResourcesSound'
  BY <1>3, AsksLocked DEF AsksRemoval
<1>4. ASSUME NEW r \in Requester, NEW x \in record, NEW f \in Field, AsksChange(r, x, f)
      PROVE  ResourcesSound'
  BY <1>4, AsksLocked DEF AsksChange
<1>. QED  BY <1>1, <1>2, <1>3, <1>4, BreaksSound, AsksThingSound, AsksLettingSound DEF NextResources

-----------------------------------------------------------------------------
(* Whose rows a deletion takes by mistake                                   *)

\* A deletion past Garage has doomed its own thing, and what it is about to delete
\* were rows of things.
Dooms(d) ==
    d.kind = "delete" => /\ d.step # "remove" => d.row.serial \in doomed
                         /\ \A y \in d.gone : Known(y)

NamesakesSound == MistakenAreNamesakes /\ \A r \in Requester : Dooms(demand[r])

\* A step opens a request, carries it on or breaks it off.
LEMMA StepsAreOfRequests ==
  ASSUME NextResources
  PROVE  \E r \in Requester :
            \/ Serves(r) \/ Breaks(r)
            \/ \E d : Demands(r, d) /\ (d.kind = "delete" => d.step = "remove" /\ d.gone = {})
<1>. DEFINE FromNothing(d) == d.kind = "delete" => d.step = "remove" /\ d.gone = {}
<1>1. PICK r \in Requester :
         \/ Serves(r) \/ Breaks(r)
         \/ \E f \in Family, a \in Tenant : AsksThing(r, f, a)
         \/ \E x \in record : AsksRemoval(r, x)
         \/ \E x \in record, f \in Field : AsksChange(r, x, f)
         \/ \E b, k \in record : AsksGrant(r, b, k) \/ AsksRevocation(r, b, k)
  BY DEF NextResources
<1>2. ASSUME NEW f \in Family, NEW a \in Tenant, AsksThing(r, f, a)
      PROVE  \E d : Demands(r, d) /\ FromNothing(d)
  <2>1. PICK d : /\ d = [Idle EXCEPT !.kind = "create",
                          !.step = IF f = "service" THEN "insert" ELSE "make",
                          !.row = [family |-> f, account |-> a, serial |-> 0, spec |-> Spec0]]
                 /\ Demands(r, d)
    BY <1>2 DEF AsksThing
  <2>2. d.kind = "create"
    BY <2>1 DEF Idle
  <2>. QED  BY <2>1, <2>2
<1>3. ASSUME NEW x \in record, AsksRemoval(r, x)
      PROVE  \E d : Demands(r, d) /\ FromNothing(d)
  <2>1. PICK d0 : d0 = [Idle EXCEPT !.kind = "delete", !.step = "remove"] /\ LocksOrReads(r, x, d0)
    BY <1>3 DEF AsksRemoval
  <2>2. PICK d : d = [d0 EXCEPT !.row = x, !.holds = x.family = "service"] /\ Demands(r, d)
    BY <2>1 DEF LocksOrReads
  <2>3. d.step = "remove" /\ d.gone = {}
    BY <2>1, <2>2 DEF Idle
  <2>. QED  BY <2>2, <2>3
<1>4. ASSUME NEW x \in record, NEW f \in Field, AsksChange(r, x, f)
      PROVE  \E d : Demands(r, d) /\ FromNothing(d)
  <2>1. PICK d0 : /\ d0 = [Idle EXCEPT !.kind = "modify", !.step = "update", !.field = f]
                  /\ LocksOrReads(r, x, d0)
    BY <1>4 DEF AsksChange
  <2>2. PICK d : d = [d0 EXCEPT !.row = x, !.holds = x.family = "service"] /\ Demands(r, d)
    BY <2>1 DEF LocksOrReads
  <2>3. d.kind = "modify"
    BY <2>1, <2>2 DEF Idle
  <2>. QED  BY <2>2, <2>3
<1>5. ASSUME NEW b \in record, NEW k \in record, AsksGrant(r, b, k) \/ AsksRevocation(r, b, k)
      PROVE  \E d : Demands(r, d) /\ FromNothing(d)
  <2>1. PICK d : /\ Demands(r, d)
                 /\ \/ d = [Idle EXCEPT !.kind = "grant", !.step = "allow", !.row = b, !.key = k]
                    \/ d = [Idle EXCEPT !.kind = "revoke", !.step = "deny", !.row = b, !.key = k]
    BY <1>5 DEF AsksGrant, AsksRevocation
  <2>2. d.kind \in {"grant", "revoke"}
    BY <2>1 DEF Idle
  <2>. QED  BY <2>1, <2>2
<1>6. Serves(r) \/ Breaks(r) \/ \E d : Demands(r, d) /\ FromNothing(d)
  <2>. HIDE DEF FromNothing
  <2>. QED  BY <1>1, <1>2, <1>3, <1>4, <1>5
<1>. QED  BY <1>6

\* A thing keeps its family and its owner, and a removal that was begun was begun.
LEMMA ThingsKeepTheirNature ==
  ASSUME ResourcesSound, [NextResources]_resourcesvars
  PROVE  /\ \A s \in Serial : thing[s].family # "none" =>
               thing'[s].family = thing[s].family /\ thing'[s].owner = thing[s].owner
         /\ doomed \subseteq doomed'
<1>. DEFINE Keeps == /\ \A s \in Serial : thing[s].family # "none" =>
                          thing'[s].family = thing[s].family /\ thing'[s].owner = thing[s].owner
                     /\ doomed \subseteq doomed'
<1>0. thing \in [Serial -> Thing]
  BY DEF ResourcesSound, TypeOKResources
<1>1. CASE thing' = thing /\ doomed' = doomed
  BY <1>1
<1>2. ASSUME NEW r \in Requester, Makes(r) \/ InsertsService(r) PROVE Keeps
  BY <1>0, <1>2, FreshIs DEF Makes, InsertsService, Ghosts
<1>3. ASSUME NEW r \in Requester, CleansUp(r) \/ Applies(r) \/ Removes(r) \/ AppliesChange(r)
      PROVE  Keeps
  <2>1. doomed \subseteq doomed'
    BY <1>3 DEF CleansUp, Applies, Removes, AppliesChange, Ghosts
  <2>2. PICK s : s = demand[r].row.serial
    OBVIOUS
  <2>3. CASE \E b : thing' = [thing EXCEPT ![s].there = b]
    BY <1>0, <2>1, <2>3 DEF Thing
  <2>4. CASE AppliesChange(r)
    <3>1. PICK b, c : thing' = [thing EXCEPT ![s].there = b, ![s].spec = c]
      BY <2>2, <2>4 DEF AppliesChange
    <3>. QED  BY <1>0, <2>1, <3>1 DEF Thing
  <2>5. AppliesChange(r) \/ \E b : thing' = [thing EXCEPT ![s].there = b]
    BY <1>3, <2>2 DEF CleansUp, Applies, Removes
  <2>. QED  BY <2>3, <2>4, <2>5
<1>4. ASSUME NEW r \in Requester, Serves(r) PROVE Keeps
  <2>1. CASE \/ Makes(r) \/ InsertsService(r)
             \/ CleansUp(r) \/ Applies(r) \/ Removes(r) \/ AppliesChange(r)
    BY <1>2, <1>3, <2>1
  <2>2. CASE \/ InsertsRow(r) \/ InsertBreaks(r) \/ CommitsCreation(r)
             \/ Forgets(r) \/ CommitsRemoval(r) \/ UpdatesRow(r) \/ CommitsChange(r)
             \/ Allows(r) \/ Denies(r) \/ NotesGrant(r)
    BY <1>1, <2>2 DEF InsertsRow, InsertBreaks, CommitsCreation, Forgets, CommitsRemoval,
       UpdatesRow, CommitsChange, Allows, Denies, NotesGrant, External, Ghosts
  <2>. QED  BY <1>4, <2>1, <2>2 DEF Serves
<1>5. ASSUME NEW r, NEW d, Demands(r, d) PROVE Keeps
  BY <1>1, <1>5 DEF Demands, External, Ghosts
<1>6. ASSUME NEW r \in Requester, Breaks(r) PROVE Keeps
  BY <1>1, <1>6 DEF Breaks, External
<1>7. CASE UNCHANGED resourcesvars
  BY <1>1, <1>7 DEF resourcesvars
<1>8. CASE NextResources
  <2>1. PICK r \in Requester : Serves(r) \/ Breaks(r) \/ \E d : Demands(r, d)
    BY <1>8, StepsAreOfRequests
  <2>. QED  BY <1>4, <1>5, <1>6, <2>1
<1>. QED  BY <1>7, <1>8

LEMMA KnownStays ==
  ASSUME ResourcesSound, [NextResources]_resourcesvars, NEW x, Known(x)
  PROVE  Known(x)'
<1>1. x.serial \in Serial /\ thing[x.serial].family # "none"
  BY ConstantRecords DEF Known, Record
<1>. QED  BY <1>1, ThingsKeepTheirNature DEF Known

\* How a deletion comes about and gets on.
LEMMA DeletionsStep ==
  ASSUME ResourcesSound, [NextResources]_resourcesvars,
         NEW q \in Requester, demand'[q].kind = "delete"
  PROVE  \/ demand'[q] = demand[q]
         \/ demand'[q].step = "remove" /\ demand'[q].gone = {}
         \/ /\ demand[q].kind = "delete" /\ demand'[q].row = demand[q].row
            /\ \/ /\ demand[q].step = "remove" /\ demand'[q].gone = demand[q].gone
                  /\ demand[q].row.serial \in doomed'
               \/ demand[q].step = "forget" /\ demand'[q].gone \subseteq record
<1>. DEFINE Gets == \/ demand'[q] = demand[q]
                    \/ demand'[q].step = "remove" /\ demand'[q].gone = {}
                    \/ /\ demand[q].kind = "delete" /\ demand'[q].row = demand[q].row
                       /\ \/ /\ demand[q].step = "remove" /\ demand'[q].gone = demand[q].gone
                             /\ demand[q].row.serial \in doomed'
                          \/ demand[q].step = "forget" /\ demand'[q].gone \subseteq record
<1>0. demand \in [Requester -> Demand]
  BY DEF ResourcesSound, DemandsSound
<1>1. ASSUME NEW r \in Requester, NEW e, demand' = [demand EXCEPT ![r] = e], e.kind # "delete"
      PROVE  Gets
  BY <1>0, <1>1
<1>2. ASSUME NEW r \in Requester, Closes(r) PROVE Gets
  BY <1>1, <1>2 DEF Closes, Idle
<1>3. ASSUME NEW r \in Requester, NEW step, Turns(r, step), demand[r].kind # "delete"
      PROVE  Gets
  <2>1. PICK e : e = [demand[r] EXCEPT !.step = step]
    OBVIOUS
  <2>2. e.kind = demand[r].kind /\ demand' = [demand EXCEPT ![r] = e]
    BY <1>0, <1>3, <2>1 DEF Turns, Demand
  <2>. QED  BY <1>1, <1>3, <2>2
<1>4. ASSUME NEW r \in Requester, NEW d, Demands(r, d),
             d.kind = "delete" => d.step = "remove" /\ d.gone = {}
      PROVE  Gets
  BY <1>0, <1>4 DEF Demands
<1>5. ASSUME NEW r \in Requester, Makes(r) \/ InsertsService(r) \/ UpdatesRow(r) PROVE Gets
  <2>1. CASE q = r
    BY <1>0, <1>2, <1>5, <2>1 DEF Makes, InsertsService, UpdatesRow, At, Demand
  <2>2. CASE q # r
    BY <1>0, <1>2, <1>5, <2>2 DEF Makes, InsertsService, UpdatesRow
  <2>. QED  BY <2>1, <2>2
<1>6. ASSUME NEW r \in Requester, Removes(r) PROVE Gets
  BY <1>0, <1>6 DEF Removes, At, Turns, Demand
<1>7. ASSUME NEW r \in Requester, Forgets(r) PROVE Gets
  <2>1. Rowed(demand[r].row) \subseteq record
    BY DEF Rowed
  <2>. QED  BY <1>0, <1>7, <2>1 DEF Forgets, At, Demand
<1>8. ASSUME NEW r \in Requester, Serves(r) PROVE Gets
  <2>1. CASE Makes(r) \/ InsertsService(r) \/ UpdatesRow(r) \/ Removes(r) \/ Forgets(r)
    BY <1>5, <1>6, <1>7, <2>1
  <2>2. CASE \/ CleansUp(r) \/ CommitsCreation(r) \/ CommitsRemoval(r)
             \/ CommitsChange(r) \/ NotesGrant(r)
    BY <1>2, <2>2 DEF CleansUp, CommitsCreation, CommitsRemoval, CommitsChange, NotesGrant
  <2>3. CASE \/ InsertsRow(r) \/ InsertBreaks(r) \/ Applies(r)
             \/ AppliesChange(r) \/ Allows(r) \/ Denies(r)
    <3>1. demand[r].kind # "delete" /\ \E step : Turns(r, step)
      BY <2>3 DEF InsertsRow, InsertBreaks, Applies, AppliesChange, Allows, Denies, At
    <3>. QED  BY <1>3, <3>1
  <2>. HIDE DEF Gets
  <2>. QED  BY <1>8, <2>1, <2>2, <2>3 DEF Serves
<1>9. CASE UNCHANGED resourcesvars
  BY <1>9 DEF resourcesvars
<1>10. ASSUME NEW r \in Requester, Breaks(r) PROVE Gets
  BY <1>2, <1>10 DEF Breaks
<1>11. CASE NextResources
  <2>1. PICK r \in Requester :
           \/ Serves(r) \/ Breaks(r)
           \/ \E d : Demands(r, d) /\ (d.kind = "delete" => d.step = "remove" /\ d.gone = {})
    BY <1>11, StepsAreOfRequests
  <2>. QED  BY <1>4, <1>8, <1>10, <2>1
<1>. QED  BY <1>9, <1>11

\* What a deletion commits beside its own row are rows of other buckets.
LEMMA NamesakesOfRemoval ==
  ASSUME ResourcesSound, NamesakesSound, NEW r \in Requester, CommitsRemoval(r),
         NEW s \in mistaken' \ mistaken
  PROVE  /\ thing[s].family = "bucket" /\ s \in Serial
         /\ \E t \in doomed \ {s} : t \in Serial /\ thing[t].family = "bucket"
<1>1. PICK d : d = demand[r]
  OBVIOUS
<1>2. /\ d.kind = "delete" /\ d.step = "commit"
      /\ mistaken' = mistaken \cup ({y.serial : y \in d.gone} \ {d.row.serial})
  BY <1>1 DEF CommitsRemoval, At
<1>3. Deletes(d)
  BY <1>1, <1>2, OwnFacts, DemandKindByStep
<1>4. PICK y \in d.gone : y.serial = s /\ s # d.row.serial
  BY <1>2
<1>5. Known(y) /\ Known(d.row) /\ d.row.serial \in doomed
  BY <1>1, <1>2, <1>3, <1>4 DEF NamesakesSound, Dooms, Deletes
<1>6. y.family = "bucket" /\ d.row.family = "bucket"
  BY <1>3, <1>4 DEF Deletes
<1>7. thing[s].family = "bucket" /\ thing[d.row.serial].family = "bucket"
  BY <1>4, <1>5, <1>6 DEF Known
<1>8. s \in Serial /\ d.row.serial \in Serial
  BY <1>4, <1>5 DEF Known, Record
<1>. QED  BY <1>4, <1>5, <1>7, <1>8

LEMMA MistakesAreOfRemovals ==
  ASSUME [NextResources]_resourcesvars
  PROVE  mistaken' = mistaken \/ \E r \in Requester : CommitsRemoval(r)
<1>1. ASSUME NEW r \in Requester, Serves(r) PROVE mistaken' = mistaken \/ CommitsRemoval(r)
  BY <1>1 DEF Serves, Makes, InsertsRow, InsertBreaks, CleansUp, InsertsService, Applies,
     CommitsCreation, Removes, Forgets, UpdatesRow, AppliesChange, CommitsChange,
     Allows, Denies, NotesGrant, Ghosts
<1>2. ASSUME NEW r, NEW d, Demands(r, d) PROVE mistaken' = mistaken
  BY <1>2 DEF Demands, Ghosts
<1>3. ASSUME NEW r, Breaks(r) PROVE mistaken' = mistaken
  BY <1>3 DEF Breaks
<1>4. CASE UNCHANGED resourcesvars
  BY <1>4 DEF resourcesvars
<1>. QED  BY <1>1, <1>2, <1>3, <1>4, StepsAreOfRequests

LEMMA NamesakesKept ==
  ResourcesSound /\ NamesakesSound /\ [NextResources]_resourcesvars => NamesakesSound'
<1> SUFFICES ASSUME ResourcesSound, NamesakesSound, [NextResources]_resourcesvars
             PROVE  NamesakesSound'
  OBVIOUS
<1>1. MistakenAreNamesakes'
  <2> SUFFICES ASSUME NEW s \in mistaken'
               PROVE  /\ thing'[s].family = "bucket"
                      /\ \E t \in doomed' \ {s} : thing'[t].family = "bucket"
    BY DEF MistakenAreNamesakes
  <2>1. /\ thing[s].family = "bucket" /\ s \in Serial
        /\ \E t \in doomed \ {s} : t \in Serial /\ thing[t].family = "bucket"
    <3>1. CASE s \in mistaken
      BY <3>1 DEF NamesakesSound, MistakenAreNamesakes, ResourcesSound, TypeOKResources
    <3>2. CASE s \notin mistaken
      BY <3>2, MistakesAreOfRemovals, NamesakesOfRemoval
    <3>. QED  BY <3>1, <3>2
  <2>. QED  BY <2>1, ThingsKeepTheirNature
<1>2. ASSUME NEW q \in Requester PROVE Dooms(demand[q])'
  <2> SUFFICES ASSUME demand'[q].kind = "delete"
               PROVE  /\ demand'[q].step # "remove" => demand'[q].row.serial \in doomed'
                      /\ \A y \in demand'[q].gone : Known(y)'
    BY DEF Dooms, Known
  <2>1. Dooms(demand[q]) /\ doomed \subseteq doomed'
    BY ThingsKeepTheirNature DEF NamesakesSound
  <2>2. \A x \in record : Known(x)
    BY DEF ResourcesSound, RowsSound
  <2>3. \A y : Known(y) => Known(y)'
    BY KnownStays
  <2>. QED  BY <2>1, <2>2, <2>3, DeletionsStep DEF Dooms
<1>. QED  BY <1>1, <1>2 DEF NamesakesSound

LEMMA NamesakesAtFirst == InitResources => NamesakesSound
<1>. QED  BY DEF InitResources, NamesakesSound, MistakenAreNamesakes, Dooms, Idle

-----------------------------------------------------------------------------
(* What it shows                                                            *)

LEMMA SoundAccounts == ResourcesSound => Accounted
<1> SUFFICES ASSUME ResourcesSound PROVE Accounted
  OBVIOUS
<1>. USE DEF ResourcesSound
<1>1. ASSUME NEW s, NEW r \in Requester,
             Made(demand[r]) \/ Modifies(demand[r]), demand[r].row.serial = s
      PROVE  Working(s)
  <2>1. demand[r].kind = "create" \/ demand[r].kind = "modify"
    BY <1>1 DEF Made, Modifies
  <2>2. DemandSound(demand[r])
    BY OwnFacts
  <2>3. demand[r].row \in Record
    <3>1. CASE Made(demand[r])
      BY <2>2, <3>1 DEF DemandSound, Made, Idle, Creates, MadeSound, Known, Deletes, Modifies, Lets
    <3>2. CASE Modifies(demand[r])
      BY <3>2 DEF Modifies, Known
    <3>. QED  BY <1>1, <3>1, <3>2
  <2>. QED  BY <1>1, <2>3, ConstantRecords DEF Working
<1>2. \A x \in record : thing[x.serial].there \/ x.serial \in doomed
  BY DEF RowsSound
<1>3. \A s \in Serial : thing[s].there =>
         (\E x \in record : x.serial = s) \/ Working(s) \/ s \in cut \/ s \in mistaken
  BY <1>1 DEF ThingsSound
<1>4. \A x \in record : thing[x.serial].spec = x.spec \/ Working(x.serial) \/ x.serial \in cut
  <2>1. ASSUME NEW r \in Requester, NEW s, Changing(demand[r], s)
        PROVE  Modifies(demand[r])
    BY <2>1, OwnFacts DEF Changing, DemandSound, Idle, Creates, Deletes, Lets
  <2>. QED  BY <1>1, <2>1 DEF SpecsSound, Changing
<1>5. \A p \in allowed : thing[p[1]].owner = thing[p[2]].owner
  BY DEF AllowedSound
<1>. QED  BY <1>2, <1>3, <1>4, <1>5 DEF Accounted

\* Rows that stay are as they were, but for the one a change commits.
LEMMA RowsAreKept ==
  ASSUME ResourcesSound, [NextResources]_resourcesvars,
         \A r \in Requester : ~CommitsChange(r)
  PROVE  \A x \in record, y \in record' : x.serial = y.serial => x = y
<1>1. \A x, y \in record : x.serial = y.serial => x = y
  BY DEF ResourcesSound, RowsSound
<1>2. CASE record' \subseteq record
  BY <1>1, <1>2
<1>3. ASSUME NEW r \in Requester, CommitsCreation(r)
      PROVE  \A x \in record, y \in record' : x.serial = y.serial => x = y
  <2>1. record' = record \cup {demand[r].row} /\ Made(demand[r])
    BY <1>3 DEF CommitsCreation, At, Made, TakesNumber
  <2>2. \A x \in record : x.serial # demand[r].row.serial
    BY <2>1, OwnFacts
       DEF DemandSound, Made, Idle, Creates, MadeSound, Deletes, Modifies, Lets
  <2>. QED  BY <1>1, <2>1, <2>2
<1>4. ASSUME NEW r \in Requester, CommitsRemoval(r) PROVE record' \subseteq record
  BY <1>4 DEF CommitsRemoval
<1>5. \/ \E r \in Requester : CommitsCreation(r) \/ CommitsRemoval(r)
      \/ record' = record
  <2>1. ASSUME NEW r \in Requester, Serves(r), ~CommitsCreation(r), ~CommitsRemoval(r)
        PROVE  record' = record
    BY <2>1 DEF Serves, Makes, InsertsRow, InsertBreaks, CleansUp, InsertsService, Applies,
       Removes, Forgets, UpdatesRow, AppliesChange, Allows, Denies, NotesGrant, Rows
  <2>2. ASSUME NEW r, NEW d, Demands(r, d) PROVE record' = record
    BY <2>2 DEF Demands, Rows
  <2>3. ASSUME NEW r \in Requester, Breaks(r) PROVE record' = record
    BY <2>3 DEF Breaks, Rows
  <2>4. ASSUME NEW r \in Requester, NEW f \in Family, NEW a \in Tenant, AsksThing(r, f, a)
        PROVE  record' = record
    BY <2>2, <2>4 DEF AsksThing
  <2>5. ASSUME NEW r \in Requester, NEW x \in record,
               AsksRemoval(r, x) \/ \E f \in Field : AsksChange(r, x, f)
        PROVE  record' = record
    BY <2>2, <2>5 DEF AsksRemoval, AsksChange, LocksOrReads
  <2>6. ASSUME NEW r \in Requester, NEW b \in record, NEW k \in record,
               AsksGrant(r, b, k) \/ AsksRevocation(r, b, k)
        PROVE  record' = record
    BY <2>2, <2>6 DEF AsksGrant, AsksRevocation
  <2>. QED  BY <2>1, <2>3, <2>4, <2>5, <2>6 DEF NextResources, resourcesvars
<1>. QED  BY <1>2, <1>3, <1>4, <1>5

LEMMA OneFieldChanges ==
  ASSUME ResourcesSound, NEW r \in Requester, CommitsChange(r),
         NEW x \in record, NEW y \in record', x.serial = y.serial
  PROVE  \E g \in Field : {f \in Field : y.spec[f] # x.spec[f]} \subseteq {g}
<1>1. \A u, v \in record : u.serial = v.serial => u = v
  BY DEF ResourcesSound, RowsSound
<1>2. PICK g : g = demand[r].field
  OBVIOUS
<1>3. PICK z : z = demand[r].row
  OBVIOUS
<1>4. g \in Field /\ record' = {u \in record : u.serial # z.serial} \cup {z}
  BY <1>2, <1>3, ChangeFacts
<1>5. PICK u \in record : u.serial = z.serial /\ z = [u EXCEPT !.spec[g] = 1 - @]
  BY <1>2, <1>3, ChangeFacts
<1>6. CASE y # z
  BY <1>1, <1>4, <1>6
<1>7. CASE y = z
  <2>1. x = u
    BY <1>1, <1>5, <1>7
  <2>2. x \in Record
    BY DEF ResourcesSound, TypeOKResources
  <2>3. y.spec = [x.spec EXCEPT ![g] = 1 - @]
    BY <1>5, <1>7, <2>1, <2>2 DEF Record
  <2>4. \A f \in Field : f # g => y.spec[f] = x.spec[f]
    BY <2>2, <2>3 DEF Record
  <2>. QED  BY <1>4, <2>4
<1>. QED  BY <1>6, <1>7

LEMMA ChangesAreKept ==
  ResourcesSound /\ [NextResources]_resourcesvars => ChangesKept
<1> SUFFICES ASSUME ResourcesSound, [NextResources]_resourcesvars,
                    NEW x \in record, NEW y \in record', x.serial = y.serial
             PROVE  Cardinality({f \in Field : y.spec[f] # x.spec[f]}) <= 1
  BY DEF ChangesKept
<1>. DEFINE D == {f \in Field : y.spec[f] # x.spec[f]}
<1>1. CASE \E r \in Requester : CommitsChange(r)
  <2>1. PICK g \in Field : D \subseteq {g}
    BY <1>1, OneFieldChanges
  <2>2. IsFiniteSet({g}) /\ Cardinality({g}) = 1
    BY FS_Singleton
  <2>3. Cardinality(D) <= Cardinality({g})
    BY <2>1, <2>2, FS_Subset
  <2>. QED  BY <2>2, <2>3
<1>2. CASE ~ \E r \in Requester : CommitsChange(r)
  <2>1. x = y
    BY <1>2, RowsAreKept
  <2>2. D = {}
    BY <2>1
  <2>3. Cardinality(D) = 0
    BY <2>2, FS_EmptySet
  <2>. QED  BY <2>3
<1>. QED  BY <1>1, <1>2

\* Rows, things and requests have their types: what is made has the family and
\* the account of who asked, the rows and IDs are the model's.
THEOREM ResourcesTyped == SpecResources => []TypeOKResources
<1>1. ResourcesSound => TypeOKResources
  BY DEF ResourcesSound
<1>. QED  BY <1>1, ResourcesSoundAtFirst, SoundKept, PTL DEF SpecResources

\* After every step rows and things agree, but for what a failure cut short and for a
\* bucket that an earlier deletion of its name took the row of, without a failure;
\* that is so of a bucket only, and only once the removal of another was begun.
\* Whoever loses a name removes what it made and nothing else, and of two changes of
\* a service made at once both are kept (CreateBucket, CreateDatabase, CreateService,
\* ModifyService's lock, the deletions).
THEOREM ResourcesAreAccounted == SpecResources => ResourcesAccounted
<1>1. ResourcesSound /\ NamesakesSound => Accounted /\ MistakenAreNamesakes
  BY SoundAccounts DEF NamesakesSound
<1>. QED  BY <1>1, ResourcesSoundAtFirst, NamesakesAtFirst, SoundKept, NamesakesKept,
          ChangesAreKept, PTL DEF SpecResources, ResourcesAccounted

=============================================================================
