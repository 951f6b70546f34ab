------------------------------ MODULE Firewall ------------------------------
(***************************************************************************)
(* Security groups, and the VM firewall the worker writes from them.       *)
(*                                                                         *)
(* Requests change groups, rules and memberships in transactions that hold *)
(* row locks while others run; each moves the firewall generation of the   *)
(* instances it concerns.  One worker brings each VM up to its generation, *)
(* call by call: the rules one at a time, then the address, the policies   *)
(* and the NIC.  A call may fail, or take effect and lose its answer.      *)
(*                                                                         *)
(* A rule is the traffic it allows; its ports and addresses are not told   *)
(* apart.  One account: a group of another is refused like a missing one.  *)
(***************************************************************************)
EXTENDS Integers, FiniteSets, SequencesExt

CONSTANTS Machine,        \* instances
          Group,          \* security groups, numbered in the order they sort
          Traffic,        \* what a rule may allow, numbered likewise
          Handler,        \* requests served at once
          Kinds,          \* the requests that are made
          MaxRequests,    \* bound on the requests made
          MaxRules,       \* maxRulesPerDirection
          MaxGeneration,  \* bound on the generations of one instance
          MaxListed,      \* bound on the rules failed writes leave behind
          NoMachine

Default == 1              \* the group every account has

ASSUME FirewallAssumption ==
    /\ Handler \subseteq Nat
    /\ Group \subseteq Nat \ {0} /\ IsFiniteSet(Group) /\ Default \in Group
    /\ Traffic \subseteq Nat /\ IsFiniteSet(Traffic) /\ {0, 1} \subseteq Traffic
    /\ MaxRequests \in Nat /\ MaxRules \in Nat /\ MaxGeneration \in Nat \ {0}
    /\ MaxListed \in Nat /\ NoMachine \notin Machine
    /\ NoMachine \notin Machine

Ingress == 0              \* ORDER BY direction DESC
Egress  == 1              \* what every new group allows

VARIABLES sg,      \* the groups: whether they exist and what they allow
          member,  \* the instance rows: lifecycle, groups, firewall columns
          fw,      \* what Proxmox holds for each instance's VM
          writer,  \* the worker's current write
          tx,      \* the transaction each handler has open
          asked    \* how many were opened so far

fwvars == <<sg, member, fw, writer, tx, asked>>

Rule == (Group \cup {0}) \X Traffic  \* 0: written by hand, for no group

Membership == [state: {"none", "launch", "live", "ending", "terminated"},
               groups: SUBSET Group, gen: 0..MaxGeneration, applied: 0..MaxGeneration,
               leased: BOOLEAN, address: BOOLEAN]

Filter == [made: BOOLEAN, rules: Seq(Rule), enabled: BOOLEAN, pinned: BOOLEAN,
           nic: BOOLEAN, on: BOOLEAN]

Write == [step: {"idle", "make", "read", "groups", "disable", "rules", "insert",
                 "delete", "pin", "options", "nic", "record", "boot"},
          inst: Machine \cup {NoMachine}, launch: BOOLEAN, gen: 0..MaxGeneration,
          groups: SUBSET Group, current: Seq(Rule), desired: Seq(Rule), left: Nat]

Transaction == [kind: {"none", "authorize", "revoke", "create", "delete", "set",
                       "run", "adopt", "describe"},
                step: {"idle", "group", "check", "bump", "insert", "rules", "commit"},
                on: Machine \cup {NoMachine}, groups: SUBSET Group, rule: Traffic,
                locked: SUBSET Group, shared: SUBSET Group, rows: SUBSET Machine,
                todo: SUBSET Machine, made: BOOLEAN]

TypeOKFirewall ==
    /\ sg \in [Group -> [exists: BOOLEAN, rules: SUBSET Traffic, torn: BOOLEAN]]
    /\ member \in [Machine -> Membership]
    /\ fw \in [Machine -> Filter]
    /\ writer \in Write
    /\ tx \in [Handler -> Transaction]
    /\ asked \in 0..MaxRequests

NoFilter == [made |-> FALSE, rules |-> <<>>, enabled |-> FALSE, pinned |-> FALSE,
             nic |-> FALSE, on |-> FALSE]

NoWrite == [step |-> "idle", inst |-> NoMachine, launch |-> FALSE, gen |-> 0,
            groups |-> {}, current |-> <<>>, desired |-> <<>>, left |-> 0]

NoTransaction == [kind |-> "none", step |-> "idle", on |-> NoMachine, groups |-> {},
                  rule |-> Egress, locked |-> {}, shared |-> {}, rows |-> {},
                  todo |-> {}, made |-> FALSE]

Absent == [state |-> "none", groups |-> {}, gen |-> 0, applied |-> 0,
           leased |-> FALSE, address |-> FALSE]

\* An instance from before groups existed: none of them, and in step at 0.
Ungrouped == [Absent EXCEPT !.state = "launch", !.address = TRUE]

\* One in a group of its account's own, in step at 1.
Settled(g) == [Ungrouped EXCEPT !.state = "live", !.groups = {g}, !.gen = 1, !.applied = 1]

\* torn: used by an instance before all its first rules were there.
NoGroup == [exists |-> FALSE, rules |-> {}, torn |-> FALSE]
NewGroup(rules) == [exists |-> TRUE, rules |-> rules, torn |-> FALSE]

InitFirewall ==
    /\ \E default \in {NoGroup, NewGroup({Egress, Ingress})} :
          sg = [g \in Group |-> IF g = Default THEN default ELSE NewGroup({Egress})]
    /\ member \in [Machine -> {Absent, Ungrouped} \cup {Settled(g) : g \in Group \ {Default}}]
    /\ fw = [m \in Machine |->
               IF member[m].groups = {} THEN NoFilter
               ELSE [made |-> TRUE,
                     rules |-> << <<CHOOSE g \in member[m].groups : TRUE, Egress>> >>,
                     enabled |-> TRUE, pinned |-> TRUE, nic |-> TRUE, on |-> TRUE]]
    /\ writer = NoWrite
    /\ tx = [h \in Handler |-> NoTransaction]
    /\ asked = 0

-----------------------------------------------------------------------------
(* What a VM's firewall should be: a function of its groups alone.          *)

\* RulesOfGroups: the rules of the groups.
RulesOfGroups(gs) == {r \in Rule : r[1] \in gs /\ sg[r[1]].exists /\ r[2] \in sg[r[1]].rules}

\* Two groups may allow the same traffic; the first one's rule is enough.
Needed(rules) == {r \in rules : \A q \in rules : q[2] = r[2] => q[1] >= r[1]}

ReadBefore(q, r) == q[1] < r[1] \/ (q[1] = r[1] /\ q[2] < r[2])

Place(r, rules) == Cardinality({q \in rules : ReadBefore(q, r)}) + 1

\* renderFirewall, in the order RulesOfGroups reads the rules, which is stable.
Rendered(rules) == [n \in 1..Cardinality(Needed(rules)) |->
                      CHOOSE r \in Needed(rules) : Place(r, Needed(rules)) = n]

Allowed(rules) == {r[2] : r \in ToSet(rules)}

-----------------------------------------------------------------------------
(* Row locks.  FOR UPDATE on a group excludes every other lock on it; the   *)
(* foreign key of a membership takes a share lock, which others may share.  *)

GroupFree(h, g) == \A k \in Handler \ {h} : g \notin tx[k].locked \cup tx[k].shared
ShareFree(h, g) == \A k \in Handler \ {h} : g \notin tx[k].locked
RowFree(h, m)   == \A k \in Handler \ {h} : m \notin tx[k].rows
RowUnlocked(m)  == \A k \in Handler : m \notin tx[k].rows

\* LockCapacity: one launch, adoption or new group is admitted at a time.
Serialised == {"run", "adopt", "create"}
CapacityFree(h) == \A k \in Handler \ {h} : tx[k].kind \notin Serialised

MembersOf(g) == {m \in Machine : g \in member[m].groups /\ member[m].state # "terminated"}

\* A transaction and what it holds after its first statement; one that is still
\* waiting for that has not begun.
Opens(h, kind, t) ==
    /\ kind \in Kinds /\ tx[h].step = "idle"
    /\ \A k \in Handler : tx[k].step = "idle" => h <= k
    /\ asked < MaxRequests /\ asked' = asked + 1
    /\ tx' = [tx EXCEPT ![h] = [t EXCEPT !.kind = kind]]
    /\ UNCHANGED <<sg, member, fw, writer>>

\* Every transaction may be refused or fail at any statement, its audit and
\* its commit included, or be the one a deadlock is resolved against.
RollsBack(h) ==
    /\ tx[h].step # "idle"
    /\ tx' = [tx EXCEPT ![h] = NoTransaction]
    /\ UNCHANGED <<sg, member, fw, writer, asked>>

Advances(h, t) == /\ tx' = [tx EXCEPT ![h] = t]
                  /\ UNCHANGED <<sg, member, fw, writer, asked>>

-----------------------------------------------------------------------------
(* Requests *)

\* Mutant: the group is read without being locked.
ReadsForChange(h, kind, g, t) ==
    /\ sg[g].exists
    /\ Opens(h, kind, [NoTransaction EXCEPT !.step = "check", !.groups = {g}, !.rule = t])

\* LockSecurityGroup of the group that is to change; a missing one is refused.
LocksForChange(h, kind, g, t) ==
    /\ GroupFree(h, g) /\ sg[g].exists
    /\ Opens(h, kind, [NoTransaction EXCEPT !.step = "check", !.groups = {g}, !.rule = t,
                                            !.locked = {g}])

\* LockInstance, of an instance that is not going away.
LocksInstance(h, m, gs) ==
    /\ RowFree(h, m) /\ member[m].state \in {"launch", "live"}
    /\ Opens(h, "set", [NoTransaction EXCEPT !.step = "group", !.groups = gs, !.on = m,
                                             !.rows = {m}])

\* resolveGroups locks the groups named, in the order they sort.
LocksGroup(h) ==
    /\ tx[h].step = "group" /\ tx[h].kind # "create"
    /\ \E g \in tx[h].groups \ tx[h].locked :
          /\ \A q \in tx[h].groups \ tx[h].locked : g <= q
          /\ GroupFree(h, g) /\ sg[g].exists
          /\ LET t == [tx[h] EXCEPT !.locked = @ \cup {g}] IN
             Advances(h, IF t.locked # t.groups THEN t ELSE [t EXCEPT !.step = "insert"])

\* EnsureDefaultSecurityGroup: ON CONFLICT DO NOTHING waits for whoever is
\* inserting the same group.
EnsuresDefault(h) ==
    /\ tx[h].step = "group"
    /\ tx[h].kind = "create" \/ (tx[h].kind \in {"run", "adopt"} /\ tx[h].groups = {})
    /\ \A k \in Handler : ~tx[k].made
    /\ LET t == [tx[h] EXCEPT !.made = ~sg[Default].exists] IN
       IF t.kind = "create"
         THEN /\ \A g \in t.groups : ~sg[g].exists  \* InvalidGroup.Duplicate
              /\ Advances(h, [t EXCEPT !.step = "commit"])
         ELSE Advances(h, [t EXCEPT !.step = "insert", !.groups = {Default}])

\* SetInstanceGroups writes the memberships, whose foreign keys must hold.
InsertsMembership(h) ==
    /\ tx[h].step = "insert"
    /\ \A g \in tx[h].groups : /\ ShareFree(h, g)
                               /\ sg[g].exists \/ (g = Default /\ tx[h].made)
    /\ Advances(h, [tx[h] EXCEPT !.step = "commit", !.shared = tx[h].groups])

\* What a change of rules, or a deletion, is refused for; then the rows whose
\* generation BumpFirewallOfGroup is to move, as committed at that moment.
ChecksGroup(h) ==
    /\ tx[h].step = "check"
    /\ \E g \in tx[h].groups :
          /\ CASE tx[h].kind = "authorize" -> /\ Cardinality(sg[g].rules) < MaxRules
                                              /\ tx[h].rule \notin sg[g].rules
               [] tx[h].kind = "revoke"    -> tx[h].rule \in sg[g].rules
               [] tx[h].kind = "delete"    -> g # Default /\ MembersOf(g) = {}
          /\ Advances(h, [tx[h] EXCEPT !.step = "bump", !.todo = MembersOf(g)])

\* Its UPDATE locks the rows one by one, in no order, and looks at each again.
BumpsRow(h, m) ==
    /\ tx[h].step = "bump" /\ m \in tx[h].todo
    /\ RowFree(h, m)
    /\ Advances(h, [tx[h] EXCEPT !.todo = @ \ {m},
                                 !.rows = IF member[m].state = "terminated" THEN @
                                                                            ELSE @ \cup {m}])

Bumped(rows) ==
    [m \in Machine |-> IF m \in rows THEN [member[m] EXCEPT !.gen = @ + 1] ELSE member[m]]

WithDefault(made) ==
    IF made THEN [sg EXCEPT ![Default] = NewGroup({Egress, Ingress})] ELSE sg

\* InsertSecurityGroupRules, DeleteSecurityGroupRule.
RulesAfter(t, rules) == IF t.kind = "authorize" THEN rules \cup {t.rule} ELSE rules \ {t.rule}

\* AuthorizeRules, RevokeRule.
CommitsRules(h) ==
    /\ tx[h].kind \in {"authorize", "revoke"} /\ tx[h].step = "bump" /\ tx[h].todo = {}
    /\ \A m \in tx[h].rows : member[m].gen < MaxGeneration
    /\ sg' = [g \in Group |-> IF g \in tx[h].groups
                                THEN [sg[g] EXCEPT !.rules = RulesAfter(tx[h], @)] ELSE sg[g]]
    /\ member' = Bumped(tx[h].rows)
    /\ UNCHANGED fw

\* CreateSecurityGroup: all egress, no ingress.
CommitsGroup(h) ==
    /\ tx[h].kind = "create" /\ tx[h].step = "commit"
    /\ sg' = [g \in Group |-> IF g \in tx[h].groups THEN NewGroup({Egress})
                                                   ELSE WithDefault(tx[h].made)[g]]
    /\ UNCHANGED <<member, fw>>

\* DeleteSecurityGroup: terminated instances lose their memberships with it.
CommitsDeletion(h) ==
    /\ tx[h].kind = "delete" /\ tx[h].step = "bump"
    /\ sg' = [g \in Group |-> IF g \in tx[h].groups THEN NoGroup ELSE sg[g]]
    /\ member' = [m \in Machine |-> IF member[m].state = "terminated"
                                      THEN [member[m] EXCEPT !.groups = @ \ tx[h].groups]
                                      ELSE member[m]]
    /\ UNCHANGED fw

\* SetInstanceSecurityGroups.
CommitsMembership(h) ==
    /\ tx[h].kind = "set" /\ tx[h].step = "commit"
    /\ member[tx[h].on].gen < MaxGeneration
    /\ member' = [member EXCEPT ![tx[h].on].groups = tx[h].groups, ![tx[h].on].gen = @ + 1]
    /\ UNCHANGED <<sg, fw>>

\* Run: the row, its memberships, and the first generation.
CommitsLaunch(h) ==
    /\ tx[h].kind = "run" /\ tx[h].step = "commit"
    /\ sg' = WithDefault(tx[h].made)
    /\ member' = [member EXCEPT ![tx[h].on] =
                    [Absent EXCEPT !.state = "launch", !.groups = tx[h].groups, !.gen = 1]]
    /\ UNCHANGED fw

\* Adopt: a VM that is there already, with whatever rules it has, its NIC
\* perhaps unfiltered and its address perhaps unknown.
CommitsAdoption(h) ==
    /\ tx[h].kind = "adopt" /\ tx[h].step = "commit"
    /\ sg' = WithDefault(tx[h].made)
    /\ \E known, nic, on \in BOOLEAN, rules \in {<<>>, << <<0, Ingress>> >>} :
          /\ member' = [member EXCEPT ![tx[h].on] =
                          [Absent EXCEPT !.state = "live", !.groups = tx[h].groups,
                                         !.gen = 1, !.address = known]]
          /\ fw' = [fw EXCEPT ![tx[h].on] =
                      [NoFilter EXCEPT !.made = TRUE, !.rules = rules, !.nic = nic, !.on = on]]

\* describeSecurityGroups makes the default group as well, but in no transaction:
\* the row first.
MakesDefault(h) ==
    /\ tx[h].kind = "describe" /\ tx[h].step = "group"
    /\ \A k \in Handler : ~tx[k].made
    /\ IF sg[Default].exists
       THEN tx' = [tx EXCEPT ![h] = NoTransaction] /\ UNCHANGED sg
       ELSE /\ tx' = [tx EXCEPT ![h].step = "rules"]
            /\ sg' = [sg EXCEPT ![Default] = NewGroup({})]
    /\ UNCHANGED <<member, fw, writer, asked>>

\* Then its rules, one at a time; an instance may have it already.
MakesDefaultRule(h) ==
    /\ tx[h].step = "rules" /\ ShareFree(h, Default)
    /\ tx[h].rule \notin sg[Default].rules
    /\ sg' = [sg EXCEPT ![Default].rules = @ \cup {tx[h].rule},
                        ![Default].torn = @ \/ MembersOf(Default) # {}
                              \/ \E k \in Handler : Default \in tx[k].shared]
    /\ tx' = [tx EXCEPT ![h] = IF @.rule = Ingress THEN [@ EXCEPT !.rule = Egress]
                                                   ELSE NoTransaction]
    /\ UNCHANGED <<member, fw, writer, asked>>

Commits(h) ==
    /\ \/ CommitsRules(h) \/ CommitsGroup(h) \/ CommitsDeletion(h)
       \/ CommitsMembership(h) \/ CommitsLaunch(h) \/ CommitsAdoption(h)
    /\ tx' = [tx EXCEPT ![h] = NoTransaction]
    /\ UNCHANGED <<writer, asked>>

Begins(h) ==
    \/ \E g \in Group, t \in Traffic, kind \in {"authorize", "revoke"} :
          LocksForChange(h, kind, g, t)
    \/ \E g \in Group : LocksForChange(h, "delete", g, Egress)
    \/ \E m \in Machine, gs \in SUBSET Group \ {{}} : LocksInstance(h, m, gs)
    \/ Opens(h, "describe", [NoTransaction EXCEPT !.step = "group", !.rule = Ingress])
    \/ /\ CapacityFree(h)
       /\ \/ \E g \in Group \ {Default} :
                Opens(h, "create", [NoTransaction EXCEPT !.step = "group", !.groups = {g}])
          \/ \E m \in Machine, gs \in SUBSET Group, kind \in {"run", "adopt"} :
                /\ member[m].state = "none"
                /\ Opens(h, kind, [NoTransaction EXCEPT !.step = "group", !.groups = gs,
                                                        !.on = m])

Proceeds(h) ==
    \/ LocksGroup(h) \/ EnsuresDefault(h) \/ InsertsMembership(h)
    \/ ChecksGroup(h) \/ (\E m \in Machine : BumpsRow(h, m)) \/ Commits(h)
    \/ MakesDefault(h) \/ MakesDefaultRule(h)

-----------------------------------------------------------------------------
(* The worker: launches write the firewall before the first boot, and then  *)
(* whatever is behind its groups is written.                                *)

\* Mutant: only the firewall of a VM that is switched on is written.
ClaimsRunning(m) ==
    /\ writer.step = "idle"
    /\ member[m].state = "live" /\ fw[m].made /\ fw[m].on
    /\ member[m].gen # member[m].applied
    /\ ~member[m].leased /\ RowUnlocked(m)
    /\ member' = [member EXCEPT ![m].leased = TRUE]
    /\ writer' = [NoWrite EXCEPT !.step = "groups", !.inst = m, !.gen = member[m].gen]
    /\ UNCHANGED <<sg, fw, tx, asked>>

\* ClaimFirewallWork leases one that is behind, passing over locked rows.
ClaimsWrite(m) ==
    /\ writer.step = "idle"
    /\ member[m].state = "live" /\ fw[m].made
    /\ member[m].gen # member[m].applied
    /\ ~member[m].leased /\ RowUnlocked(m)
    /\ member' = [member EXCEPT ![m].leased = TRUE]
    /\ writer' = [NoWrite EXCEPT !.step = "groups", !.inst = m, !.gen = member[m].gen]
    /\ UNCHANGED <<sg, fw, tx, asked>>

LaunchTaken(m) ==
    /\ writer.step = "idle" /\ member[m].state = "launch"
    /\ writer' = [NoWrite EXCEPT !.step = "make", !.inst = m, !.launch = TRUE]
    /\ UNCHANGED <<sg, member, fw, tx, asked>>

\* The VM, its NIC behind the firewall, after the address it is given.
MakesVM ==
    /\ writer.step = "make" /\ RowUnlocked(writer.inst)
    /\ fw' = [fw EXCEPT ![writer.inst] =
                IF @.made THEN @ ELSE [NoFilter EXCEPT !.made = TRUE, !.nic = TRUE]]
    /\ member' = [member EXCEPT ![writer.inst].address = TRUE]
    /\ writer' = [writer EXCEPT !.step = "read"]
    /\ UNCHANGED <<sg, tx, asked>>

\* The generation is read before the groups and the rules.
ReadsGeneration ==
    /\ writer.step = "read"
    /\ writer' = [writer EXCEPT !.step = "groups", !.gen = member[writer.inst].gen]
    /\ UNCHANGED <<sg, member, fw, tx, asked>>

\* InstanceGroups, and the rules the VM has: only this worker writes those.
ReadsGroups ==
    /\ writer.step = "groups"
    /\ LET gs == member[writer.inst].groups IN
       writer' = [writer EXCEPT !.step = IF gs = {} THEN "disable" ELSE "rules",
                                !.groups = gs, !.current = fw[writer.inst].rules]
    /\ UNCHANGED <<sg, member, fw, tx, asked>>

\* What follows the rules: the address, or nothing for an unfiltered VM.
AfterRules(w) == [w EXCEPT !.step = IF w.groups = {} THEN "record" ELSE "pin"]

\* replaceRules: the new ones last to first, each landing on top; then the old
\* ones last to first, from below.
Replaces(w) ==
    IF w.current = w.desired THEN AfterRules(w)
    ELSE IF w.desired # <<>> THEN [w EXCEPT !.step = "insert", !.left = Len(w.desired)]
    ELSE [w EXCEPT !.step = "delete", !.left = Len(w.current)]

ReadsRules ==
    /\ writer.step = "rules"
    /\ writer' = Replaces([writer EXCEPT !.desired = Rendered(RulesOfGroups(writer.groups))])
    /\ UNCHANGED <<sg, member, fw, tx, asked>>

\* The write is given up, to be tried again; its lease is kept only when even
\* that could not be recorded (FirewallRetryLater).
StopsWriting ==
    /\ writer.inst # NoMachine
    /\ writer' = NoWrite
    /\ \/ RowUnlocked(writer.inst) /\ member' = [member EXCEPT ![writer.inst].leased = FALSE]
       \/ UNCHANGED member
    /\ UNCHANGED <<sg, tx, asked>>

\* A call that took effect on the VM: the answer came, or was lost.
Answered(next) ==
    \/ writer' = next /\ UNCHANGED <<sg, member, tx, asked>>
    \/ Len(fw'[writer.inst].rules) <= MaxListed /\ StopsWriting

Disables ==
    /\ writer.step = "disable"
    /\ fw' = [fw EXCEPT ![writer.inst].enabled = FALSE]
    /\ Answered(Replaces([writer EXCEPT !.desired = <<>>]))

\* InsertFirewallRule: Proxmox puts it at the top.
InsertsRule ==
    /\ writer.step = "insert"
    /\ fw' = [fw EXCEPT ![writer.inst].rules = <<writer.desired[writer.left]>> \o @]
    /\ Answered(IF writer.left > 1 THEN [writer EXCEPT !.left = @ - 1]
                ELSE IF writer.current = <<>> THEN AfterRules([writer EXCEPT !.left = 0])
                ELSE [writer EXCEPT !.step = "delete", !.left = Len(writer.current)])

\* Mutant: by the position the rule had before the new ones came on top.
DeletesOldPosition ==
    /\ writer.step = "delete"
    /\ fw' = [fw EXCEPT ![writer.inst].rules = RemoveAt(@, writer.left)]
    /\ Answered(IF writer.left > 1 THEN [writer EXCEPT !.left = @ - 1]
                ELSE AfterRules([writer EXCEPT !.left = 0]))

\* DeleteFirewallRule, by position: below the new rules.
DeletesRule ==
    /\ writer.step = "delete"
    /\ fw' = [fw EXCEPT ![writer.inst].rules = RemoveAt(@, Len(writer.desired) + writer.left)]
    /\ Answered(IF writer.left > 1 THEN [writer EXCEPT !.left = @ - 1]
                ELSE AfterRules([writer EXCEPT !.left = 0]))

\* pinAddress: an instance without an address cannot be filtered.
PinsAddress ==
    /\ writer.step = "pin" /\ member[writer.inst].address
    /\ fw' = [fw EXCEPT ![writer.inst].pinned = TRUE]
    /\ Answered([writer EXCEPT !.step = "options"])

SetsOptions ==
    /\ writer.step = "options"
    /\ fw' = [fw EXCEPT ![writer.inst].enabled = TRUE]
    /\ Answered([writer EXCEPT !.step = "nic"])

FiltersNIC ==
    /\ writer.step = "nic"
    /\ fw' = [fw EXCEPT ![writer.inst].nic = TRUE]
    /\ Answered([writer EXCEPT !.step = "record"])

Greatest(a, b) == IF a > b THEN a ELSE b

\* RecordFirewallApplied: the generation read at the start, never backwards.
RecordsWrite ==
    /\ writer.step = "record" /\ RowUnlocked(writer.inst)
    /\ member' = [member EXCEPT ![writer.inst].applied = Greatest(@, writer.gen),
                                ![writer.inst].leased  = FALSE]
    /\ writer' = IF writer.launch THEN [writer EXCEPT !.step = "boot"] ELSE NoWrite
    /\ UNCHANGED <<sg, fw, tx, asked>>

\* The first boot.  A terminate asked for meanwhile stays asked for.
Boots ==
    /\ writer.step = "boot" /\ RowUnlocked(writer.inst)
    /\ fw' = [fw EXCEPT ![writer.inst].on = TRUE]
    /\ writer' = NoWrite
    /\ \/ member' = [member EXCEPT ![writer.inst].state = IF @ = "launch" THEN "live" ELSE @]
       \/ UNCHANGED member  \* the answer was lost: the launch is tried again
    /\ UNCHANGED <<sg, tx, asked>>

Writes ==
    \/ MakesVM \/ ReadsGeneration \/ ReadsGroups \/ ReadsRules \/ Disables \/ InsertsRule
    \/ DeletesRule \/ PinsAddress \/ SetsOptions \/ FiltersNIC \/ RecordsWrite \/ Boots

\* A call fails without effect, or the VM is not the instance's (owns).
WriteFails ==
    /\ writer.step # "idle" /\ Len(fw[writer.inst].rules) <= MaxListed
    /\ StopsWriting /\ UNCHANGED fw

WriteLeaseExpires(m) ==
    /\ member[m].leased /\ writer.inst # m /\ RowUnlocked(m)
    /\ member' = [member EXCEPT ![m].leased = FALSE]
    /\ UNCHANGED <<sg, fw, writer, tx, asked>>

\* A user terminates, or the worker abandons a launch (see Instances).
Ends(m) ==
    /\ member[m].state \in {"launch", "live"} /\ RowUnlocked(m)
    /\ member' = [member EXCEPT ![m].state = "ending"]
    /\ UNCHANGED <<sg, fw, writer, tx, asked>>

Terminates(m) ==
    /\ writer.step = "idle" /\ member[m].state = "ending" /\ RowUnlocked(m)
    /\ member' = [member EXCEPT ![m].state = "terminated", ![m].leased = FALSE]
    /\ fw' = [fw EXCEPT ![m] = NoFilter]
    /\ UNCHANGED <<sg, writer, tx, asked>>

\* The process restarts: transactions are rolled back, the write is dropped
\* with its lease held, and every grouped instance is to be written again
\* (BumpFirewallOfAllGrouped).
RestartsApi ==
    /\ writer.step # "idle" => Len(fw[writer.inst].rules) <= MaxListed
    /\ LET grouped == {m \in Machine : member[m].state \notin {"none", "terminated"}
                                       /\ member[m].groups # {}} IN
       /\ \A m \in grouped : member[m].gen < MaxGeneration
       /\ member' = Bumped(grouped)
    /\ writer' = NoWrite
    /\ tx' = [h \in Handler |-> NoTransaction]
    /\ UNCHANGED <<sg, fw, asked>>

NextFirewall ==
    \/ \E h \in Handler : Begins(h) \/ Proceeds(h) \/ RollsBack(h)
    \/ \E m \in Machine : \/ ClaimsWrite(m) \/ LaunchTaken(m) \/ Ends(m) \/ Terminates(m)
                          \/ WriteLeaseExpires(m)
    \/ Writes \/ WriteFails
    \/ RestartsApi

SpecFirewall == InitFirewall /\ [][NextFirewall]_fwvars

-----------------------------------------------------------------------------
(* Properties *)

\* What every filtered instance should have.
Filtered(m) ==
    /\ fw[m].rules = Rendered(RulesOfGroups(member[m].groups))
    /\ fw[m].enabled /\ fw[m].pinned /\ fw[m].nic

(* An instance whose applied generation is its generation has exactly its   *)
(* groups' rules on its VM, switched on, address pinned and NIC filtered:   *)
(* no rule change, group change or restart between the writer's reads and   *)
(* its record is taken for written (writeFirewall, workFirewallOnce, and    *)
(* the locks of AuthorizeRules, RevokeRule and resolveGroups).  The one     *)
(* exception is an instance that had the default group while                *)
(* describeSecurityGroups was still giving it its rules.                    *)
FirewallIsTrue ==
    \A m \in Machine :
        /\ member[m].state \in {"launch", "live"} /\ member[m].groups # {}
        /\ \A g \in member[m].groups : ~sg[g].torn
        /\ member[m].gen = member[m].applied
        => Filtered(m)

(* While rules are replaced, traffic that both the old and the new rules    *)
(* allow stays allowed; filtering is never switched on over a list that     *)
(* lacks what the groups allow; and a VM launched into groups is filtered   *)
(* before its first boot (replaceRules, applyFirewall, launch).             *)
NeverShutNorOpen ==
    [][\A m \in Machine : writer.inst = m =>
          /\ writer.step \in {"insert", "delete"} =>
                Allowed(writer.current) \cap Allowed(writer.desired) \subseteq Allowed(fw'[m].rules)
          /\ ~fw[m].enabled /\ fw'[m].enabled =>
                Allowed(writer.desired) \subseteq Allowed(fw[m].rules)
          /\ ~fw[m].on /\ fw'[m].on /\ writer.groups # {} =>
                fw[m].enabled /\ fw[m].pinned /\ fw[m].nic]_fwvars

(* Fairness: a transaction ends, one that waits for ever being rolled back; *)
(* the worker goes on, giving up what cannot; leases run out; outages and   *)
(* restarts stop.                                                           *)
IsCancelled(h) == RollsBack(h) /\ ~ENABLED Proceeds(h)
CannotGoOn     == WriteFails /\ ~ENABLED Writes
Outage         == RestartsApi \/ (StopsWriting /\ ENABLED Writes)

FairnessFirewall ==
    /\ \A h \in Handler : WF_fwvars(Proceeds(h)) /\ WF_fwvars(IsCancelled(h))
    /\ WF_fwvars(Writes) /\ WF_fwvars(CannotGoOn)
    /\ \A m \in Machine : /\ SF_fwvars(ClaimsWrite(m)) /\ WF_fwvars(LaunchTaken(m))
                          /\ WF_fwvars(WriteLeaseExpires(m))
    /\ <>[][~Outage]_fwvars

FairSpecFirewall == SpecFirewall /\ FairnessFirewall

(* Once requests and outages let go, every instance that has an address     *)
(* gets the rules its groups came to have (workFirewallOnce, the retries    *)
(* and the lease of ClaimFirewallWork).                                     *)
Behind(m) == /\ member[m].state = "live" /\ member[m].address
             /\ member[m].gen # member[m].applied

FirewallCatchesUp == \A m \in Machine : Behind(m) ~> ~Behind(m)
=============================================================================
