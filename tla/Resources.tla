----------------------------- MODULE Resources -----------------------------
(***************************************************************************)
(* What the API keeps for accounts in other systems: buckets and S3 keys   *)
(* (Garage), databases (CloudNativePG), functions (Knative) and container  *)
(* services (Kubernetes).  Each is a row here and a thing there, made and  *)
(* removed by one request inside one transaction, which only covers the    *)
(* row.  Functions are made and removed exactly as databases are.          *)
(*                                                                         *)
(* One name stands for all: a bucket's is unique in the cloud, the others' *)
(* in their account.  Limits on their number are not modelled.             *)
(***************************************************************************)
EXTENDS Integers, FiniteSets

CONSTANTS Tenant,
          Family,      \* some of "bucket", "key", "database", "service"
          Serial,      \* the IDs things get, in order
          Requester,   \* requests served at once
          MaxDemands   \* bound on the requests made

ASSUME ResourcesAssumption ==
    /\ Family \subseteq {"bucket", "key", "database", "service"}
    /\ Requester \subseteq Nat
    /\ IsFiniteSet(Serial) /\ Serial = 1..Cardinality(Serial)
    /\ Cardinality(Family) <= Cardinality(Serial)   \* IDs for what is there at first
    /\ MaxDemands \in Nat

VARIABLES thing,     \* the other systems
          record,    \* the committed rows
          allowed,   \* the permissions Garage holds: <<bucket, key>>
          granted,   \* the rows of bucket_keys
          demand,    \* the request each requester serves
          demands,   \* how many were made so far
          doomed,    \* things whose removal was begun
          cut,       \* things a request failed or stopped on
          mistaken   \* buckets whose row was deleted for an earlier one of the name

resourcesvars == <<thing, record, allowed, granted, demand, demands, doomed, cut, mistaken>>

Field == {"image", "memory"}
Spec0 == [f \in Field |-> 0]

\* owner is who the thing was made for, which the other system is not asked.
Thing == [family: Family \cup {"none"}, owner: Tenant \cup {"nobody"},
          there: BOOLEAN, spec: [Field -> 0..1]]

Record == [family: Family, account: Tenant, serial: Serial, spec: [Field -> 0..1]]

NoRecord == [family |-> "none"]

\* row is the row the request read or is about to commit; key the S3 key's row;
\* holds whether it holds the row's lock.
Idle == [kind |-> "none", step |-> "idle", row |-> NoRecord, key |-> NoRecord,
         gone |-> {}, field |-> "image", holds |-> FALSE]

Kind == {"none", "create", "delete", "modify", "grant", "revoke"}
Step == {"idle", "make", "insert", "apply", "undo", "remove", "forget", "update",
         "allow", "deny", "note", "commit"}

TypeOKResources ==
    /\ thing \in [Serial -> Thing]
    /\ record \subseteq Record
    /\ allowed \subseteq Serial \X Serial /\ granted \subseteq Serial \X Serial
    /\ \A r \in Requester :
          /\ demand[r].kind \in Kind /\ demand[r].step \in Step
          /\ demand[r].gone \subseteq Record /\ demand[r].holds \in BOOLEAN
    /\ demands \in 0..MaxDemands
    /\ doomed \subseteq Serial /\ cut \subseteq Serial /\ mistaken \subseteq Serial

Thinged(f, a) == [family |-> f, owner |-> a, there |-> TRUE, spec |-> Spec0]
NoThing == [family |-> "none", owner |-> "nobody", there |-> FALSE, spec |-> Spec0]

\* At first the first account may have one resource of each family.
InitResources ==
    /\ \E had \in SUBSET Family, a \in Tenant :
          LET number == CHOOSE n \in [had -> 1..Cardinality(had)] :
                           \A f, g \in had : n[f] = n[g] => f = g
          IN  /\ record = {[family |-> f, account |-> a, serial |-> number[f],
                            spec |-> Spec0] : f \in had}
              /\ thing = [s \in Serial |-> IF \E f \in had : number[f] = s
                            THEN Thinged(CHOOSE f \in had : number[f] = s, a) ELSE NoThing]
    /\ allowed = {} /\ granted = {}
    /\ demand = [r \in Requester |-> Idle] /\ demands = 0
    /\ doomed = {} /\ cut = {} /\ mistaken = {}

-----------------------------------------------------------------------------
(* Requests and their transactions *)

SameKey(x, y) == x.family = y.family /\ (x.family = "bucket" \/ x.account = y.account)

Named(f, a) == {x \in record : SameKey(x, [family |-> f, account |-> a])}

\* The unique index makes whoever inserts or deletes the same key wait for a
\* transaction that has done so.
Pending(x) == {r \in Requester : demand[r].step \in {"apply", "commit"}
                  /\ \/ demand[r].kind = "create" /\ SameKey(demand[r].row, x)
                     \/ \E y \in demand[r].gone : SameKey(y, x)}

LockedBy(s) == {r \in Requester : demand[r].holds /\ demand[r].row.serial = s}

External == <<thing, allowed>>
Rows == <<record, granted>>
Ghosts == <<doomed, cut, mistaken>>

Demands(r, d) ==
    /\ demand[r].step = "idle" /\ \A q \in Requester : demand[q].step = "idle" => r <= q
    /\ demands < MaxDemands /\ demands' = demands + 1
    /\ demand' = [demand EXCEPT ![r] = d]
    /\ UNCHANGED <<External, Rows, Ghosts>>

At(r, kind, step) == demand[r].kind = kind /\ demand[r].step = step
Turns(r, step) == demand' = [demand EXCEPT ![r].step = step] /\ UNCHANGED demands
Closes(r) == demand' = [demand EXCEPT ![r] = Idle] /\ UNCHANGED demands

\* A failing step, an audit or commit that fails, a client or API that is gone:
\* the transaction rolls back and what was done elsewhere stays done.
Breaks(r) ==
    /\ demand[r].step # "idle"
    /\ Closes(r)
    /\ cut' = IF /\ demand[r].kind \in {"create", "modify"}
                  /\ demand[r].step \in {"insert", "undo", "apply", "commit"}
               THEN cut \cup ({demand[r].row.serial} \cap Serial) ELSE cut
    /\ UNCHANGED <<External, Rows, doomed, mistaken>>

-----------------------------------------------------------------------------
(* Making *)

\* What exists under the name is returned or refused; nothing is begun.
AsksThing(r, f, a) ==
    /\ Named(f, a) = {}
    /\ \E s \in Serial : thing[s].family = "none"
    /\ Demands(r, [Idle EXCEPT !.kind = "create",
                      !.step = IF f = "service" THEN "insert" ELSE "make",
                      !.row = [family |-> f, account |-> a, serial |-> 0, spec |-> Spec0]])

Fresh == CHOOSE s \in Serial : /\ thing[s].family = "none"
                               /\ \A t \in Serial : thing[t].family = "none" => s <= t

Numbered == \E s \in Serial : thing[s].family = "none"

\* Garage refuses an alias in use; the others are known by their ID.
AliasFree(f) == f = "bucket" => \A s \in Serial : thing[s].there => thing[s].family # "bucket"

\* CreateBucket, CreateKey, CreateCluster, CreateService.
Makes(r) ==
    /\ At(r, "create", "make") /\ Numbered /\ AliasFree(demand[r].row.family)
    /\ thing' = [thing EXCEPT ![Fresh] = Thinged(demand[r].row.family, demand[r].row.account)]
    /\ demand' = [demand EXCEPT ![r].step = "insert", ![r].row.serial = Fresh]
    /\ UNCHANGED <<allowed, Rows, demands, Ghosts>>

\* The row is inserted, or somebody else's row is found.
InsertsRow(r) ==
    /\ At(r, "create", "insert") /\ demand[r].row.family # "service"
    /\ Pending(demand[r].row) = {}
    /\ Turns(r, IF Named(demand[r].row.family, demand[r].row.account) = {} THEN "commit" ELSE "undo")
    /\ UNCHANGED <<External, Rows, Ghosts>>

InsertBreaks(r) == /\ At(r, "create", "insert") /\ demand[r].row.family # "service"
                   /\ Turns(r, "undo")
                   /\ UNCHANGED <<External, Rows, Ghosts>>

\* Mutant: a request that lost the name leaves what it made.
LeavesIt(r) ==
    /\ demand[r].step = "undo"
    /\ Closes(r)
    /\ UNCHANGED <<External, Rows, Ghosts>>

\* The thing just made is removed, by its own ID.
CleansUp(r) ==
    /\ demand[r].step = "undo"
    /\ thing' = [thing EXCEPT ![demand[r].row.serial].there = FALSE]
    /\ Closes(r)
    /\ UNCHANGED <<allowed, Rows, Ghosts>>

\* A service's row comes first; the ID in it is new.
InsertsService(r) ==
    /\ At(r, "create", "insert") /\ demand[r].row.family = "service" /\ Numbered
    /\ Pending(demand[r].row) = {}
    /\ IF Named("service", demand[r].row.account) = {}
       THEN /\ thing' = [thing EXCEPT ![Fresh] = [Thinged("service", demand[r].row.account)
                                                    EXCEPT !.there = FALSE]]
            /\ demand' = [demand EXCEPT ![r].step = "apply", ![r].row.serial = Fresh]
            /\ UNCHANGED demands
       ELSE Closes(r) /\ UNCHANGED thing
    /\ UNCHANGED <<allowed, Rows, Ghosts>>

\* Apply may fail half way: then all of it is removed.
Applies(r) ==
    /\ At(r, "create", "apply")
    /\ \/ /\ thing' = [thing EXCEPT ![demand[r].row.serial].there = TRUE] /\ Turns(r, "commit")
       \/ /\ \E some \in BOOLEAN : thing' = [thing EXCEPT ![demand[r].row.serial].there = some]
          /\ Turns(r, "undo")
    /\ UNCHANGED <<allowed, Rows, Ghosts>>

CommitsCreation(r) ==
    /\ At(r, "create", "commit")
    /\ record' = record \cup {demand[r].row}
    /\ Closes(r)
    /\ UNCHANGED <<External, granted, Ghosts>>

-----------------------------------------------------------------------------
(* Removing *)

\* GetServiceForUpdate; the other families' rows are read without a lock.
LocksOrReads(r, x, d) ==
    /\ x.family = "service" => LockedBy(x.serial) = {}
    /\ Demands(r, [d EXCEPT !.row = x, !.holds = x.family = "service"])

AsksRemoval(r, x) == LocksOrReads(r, x, [Idle EXCEPT !.kind = "delete", !.step = "remove"])

\* What is gone already is no error; Garage drops a bucket's or key's permissions
\* with it.
Removes(r) ==
    LET s == demand[r].row.serial IN
    /\ At(r, "delete", "remove")
    /\ thing' = [thing EXCEPT ![s].there = FALSE]
    /\ allowed' = {p \in allowed : p[1] # s /\ p[2] # s}
    /\ doomed' = doomed \cup {s}
    /\ Turns(r, "forget")
    /\ UNCHANGED <<Rows, cut, mistaken>>

\* A bucket's row is deleted by the bucket's name, whoever's it is by now; the
\* others' by the ID.
Rowed(x) == IF x.family = "bucket" THEN {y \in record : SameKey(x, y)}
            ELSE {y \in record : y.serial = x.serial}

Forgets(r) ==
    /\ At(r, "delete", "forget")
    /\ Pending(demand[r].row) = {} /\ LockedBy(demand[r].row.serial) \subseteq {r}
    /\ demand' = [demand EXCEPT ![r].step = "commit", ![r].gone = Rowed(demand[r].row)]
    /\ UNCHANGED <<External, Rows, demands, Ghosts>>

\* The permissions' rows go with the bucket's or the key's.
CommitsRemoval(r) ==
    LET serials == {x.serial : x \in demand[r].gone} IN
    /\ At(r, "delete", "commit")
    /\ record' = record \ demand[r].gone
    /\ granted' = {p \in granted : p[1] \notin serials /\ p[2] \notin serials}
    /\ mistaken' = mistaken \cup (serials \ {demand[r].row.serial})
    /\ Closes(r)
    /\ UNCHANGED <<External, doomed, cut>>

-----------------------------------------------------------------------------
(* Changing a service: the image or the memory; the rest is as the row says. *)

AsksChange(r, x, f) ==
    /\ x.family = "service"
    /\ LocksOrReads(r, x, [Idle EXCEPT !.kind = "modify", !.step = "update", !.field = f])

Changed(d) == [d.row EXCEPT !.spec[d.field] = 1 - @]

\* UpdateService, which holds the row from here at the latest.
UpdatesRow(r) ==
    /\ At(r, "modify", "update") /\ LockedBy(demand[r].row.serial) \subseteq {r}
    /\ \E x \in record : x.serial = demand[r].row.serial
    /\ demand' = [demand EXCEPT ![r].step = "apply", ![r].holds = TRUE,
                                ![r].row = Changed(demand[r])]
    /\ UNCHANGED <<External, Rows, demands, Ghosts>>

\* Kubernetes has the change before the row does.
AppliesChange(r) ==
    LET x == demand[r].row IN
    /\ At(r, "modify", "apply")
    /\ thing' = [thing EXCEPT ![x.serial].there = TRUE, ![x.serial].spec = x.spec]
    /\ Turns(r, "commit")
    /\ UNCHANGED <<allowed, Rows, Ghosts>>

CommitsChange(r) ==
    LET x == demand[r].row IN
    /\ At(r, "modify", "commit")
    /\ record' = {IF y.serial = x.serial THEN x ELSE y : y \in record}
    /\ Closes(r)
    /\ UNCHANGED <<External, granted, Ghosts>>

-----------------------------------------------------------------------------
(* Letting a key use a bucket *)

\* The bucket is the caller's; the key is of the bucket's account.
AsksGrant(r, b, k) ==
    /\ b.family = "bucket" /\ k.family = "key" /\ k.account = b.account
    /\ Demands(r, [Idle EXCEPT !.kind = "grant", !.step = "allow", !.row = b, !.key = k])

AsksRevocation(r, b, k) ==
    /\ b.family = "bucket" /\ k.family = "key"
    /\ Demands(r, [Idle EXCEPT !.kind = "revoke", !.step = "deny", !.row = b, !.key = k])

Pair(r) == <<demand[r].row.serial, demand[r].key.serial>>

Allows(r) ==
    /\ At(r, "grant", "allow")
    /\ thing[demand[r].row.serial].there /\ thing[demand[r].key.serial].there
    /\ allowed' = allowed \cup {Pair(r)}
    /\ Turns(r, "note")
    /\ UNCHANGED <<thing, Rows, Ghosts>>

Denies(r) ==
    /\ At(r, "revoke", "deny")
    /\ allowed' = allowed \ {Pair(r)}
    /\ Turns(r, "note")
    /\ UNCHANGED <<thing, Rows, Ghosts>>

\* The row names the bucket by its name; both rows must still be there.
NotesGrant(r) ==
    /\ demand[r].step = "note"
    /\ IF demand[r].kind = "grant"
       THEN \E x \in record : /\ SameKey(x, demand[r].row) /\ demand[r].key \in record
                              /\ granted' = granted \cup {<<x.serial, demand[r].key.serial>>}
       ELSE granted' = granted \ {p \in granted : p[2] = demand[r].key.serial}
    /\ Closes(r)
    /\ UNCHANGED <<External, record, Ghosts>>

-----------------------------------------------------------------------------

Serves(r) ==
    \/ Makes(r) \/ InsertsRow(r) \/ InsertBreaks(r) \/ CleansUp(r)
    \/ InsertsService(r) \/ Applies(r) \/ CommitsCreation(r)
    \/ Removes(r) \/ Forgets(r) \/ CommitsRemoval(r)
    \/ UpdatesRow(r) \/ AppliesChange(r) \/ CommitsChange(r)
    \/ Allows(r) \/ Denies(r) \/ NotesGrant(r)

NextResources ==
    \E r \in Requester :
       \/ Serves(r) \/ Breaks(r)
       \/ \E f \in Family, a \in Tenant : AsksThing(r, f, a)
       \/ \E x \in record : AsksRemoval(r, x)
       \/ \E x \in record, f \in Field : AsksChange(r, x, f)
       \/ \E b, k \in record : AsksGrant(r, b, k) \/ AsksRevocation(r, b, k)

SpecResources == InitResources /\ [][NextResources]_resourcesvars

-----------------------------------------------------------------------------
(* Properties *)

Working(s) == \E r \in Requester : demand[r].row # NoRecord /\ demand[r].row.serial = s

\* A row's thing is there unless its removal was begun; nothing is there without
\* a row but what a request works on or was stopped on, and a bucket that lost its
\* row to the deletion of an earlier one of its name; a service runs what its row
\* says, with the first two exceptions; a key is let into its account's buckets.
Accounted ==
    /\ \A x \in record : thing[x.serial].there \/ x.serial \in doomed
    /\ \A s \in Serial : thing[s].there =>
          (\E x \in record : x.serial = s) \/ Working(s) \/ s \in cut \/ s \in mistaken
    /\ \A x \in record : thing[x.serial].spec = x.spec \/ Working(x.serial) \/ x.serial \in cut
    /\ \A p \in allowed : thing[p[1]].owner = thing[p[2]].owner

\* Only a bucket loses its row so, and only after the removal of another was begun.
MistakenAreNamesakes ==
    \A s \in mistaken : /\ thing[s].family = "bucket"
                        /\ \E t \in doomed \ {s} : thing[t].family = "bucket"

ChangesKept ==
    \A x \in record, y \in record' : x.serial = y.serial =>
       Cardinality({f \in Field : y.spec[f] # x.spec[f]}) <= 1

(* Rows and things agree after every step, with two exceptions: what a        *)
(* failure cut short (cut), and a bucket made under a name while an earlier   *)
(* deletion of that name was under way (mistaken), which deletes the new      *)
(* one's row, by its name, without any failure (DeleteBucket).                *)
(* Whoever loses a name removes what it made and nothing else, and of two     *)
(* changes of a service made at once both are kept (CreateBucket,             *)
(* CreateDatabase, CreateService, ModifyService's lock, the deletions).       *)
ResourcesAccounted == [][(Accounted /\ MistakenAreNamesakes)' /\ ChangesKept]_resourcesvars
=============================================================================
