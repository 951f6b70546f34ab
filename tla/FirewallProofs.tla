-------------------------- MODULE FirewallProofs ---------------------------
(***************************************************************************)
(* FirewallIsTrue, that no step of the writer shuts or opens a VM, and     *)
(* what is rendered, for any groups, rules, instances and requests.        *)
(*                                                                         *)
(* The invariant joins what the row locks of the transactions exclude, how *)
(* far the writer is in its list, and that what it has read holds unless   *)
(* the generation has moved on since.                                      *)
(***************************************************************************)
EXTENDS Firewall, FiniteSetTheorems, FunctionTheorems, SequenceTheorems, WellFoundedInduction, TLAPS

-----------------------------------------------------------------------------
(* The invariant                                                            *)

Untorn(gs) == \A g \in gs : ~sg[g].torn

Exists(m) == member[m].state \notin {"none", "terminated"}

HoldsNothing(h) == tx[h].locked = {} /\ tx[h].shared = {} /\ tx[h].rows = {} /\ tx[h].todo = {}

\* A change of a group holds its lock, so that nobody becomes a member, and the
\* row of every member it has looked at.
ChangeSound(h) ==
    LET t == tx[h] IN
    /\ t.kind \in {"authorize", "revoke", "delete"} /\ t.step \in {"check", "bump"}
    /\ ~t.made /\ t.shared = {}
    /\ \E g \in Group :
          /\ t.groups = {g} /\ t.locked = {g}
          /\ t.step = "bump" => MembersOf(g) \subseteq t.todo \cup t.rows
          /\ t.step = "bump" /\ t.kind = "delete" => g # Default /\ MembersOf(g) = {}

\* A transaction that is to commit memberships holds share locks on groups that exist, or
\* that it makes itself; an instance that is to be made is nobody else's.
MembershipSound(h) ==
    LET t == tx[h] IN
    /\ t.kind \in {"set", "run", "adopt"} /\ t.step \in {"group", "insert", "commit"}
    /\ t.on \in Machine
    /\ t.made => t.kind # "set" /\ ~sg[Default].exists
    /\ t.kind # "set" => member[t.on].state = "none"
    /\ t.step # "commit" => t.shared = {}
    /\ t.step = "commit" => /\ t.shared = t.groups
                            /\ \A g \in t.groups : sg[g].exists \/ (g = Default /\ t.made)

CreationSound(h) ==
    LET t == tx[h] IN
    /\ t.kind = "create" /\ t.step \in {"group", "commit"} /\ HoldsNothing(h)
    /\ t.made => ~sg[Default].exists
    /\ \E g \in Group \ {Default} : t.groups = {g} /\ (t.step = "commit" => ~sg[g].exists)

DescribeSound(h) ==
    /\ tx[h].kind = "describe" /\ tx[h].step \in {"group", "rules"} /\ tx[h].groups = {}
    /\ HoldsNothing(h) /\ ~tx[h].made

TxSound(h) == \/ tx[h] = NoTransaction
              \/ ChangeSound(h) \/ MembershipSound(h) \/ CreationSound(h) \/ DescribeSound(h)

LocksApart(h, k) ==
    /\ tx[h].locked \cap (tx[k].locked \cup tx[k].shared) = {}
    /\ ~(tx[h].kind \in Serialised /\ tx[k].kind \in Serialised)

TxsSound == /\ \A h \in Handler : TxSound(h)
            /\ \A h, k \in Handler : h # k => LocksApart(h, k)

Replacing == {"insert", "delete"}
RulesThere == {"pin", "options", "nic", "record", "boot"}

\* Where the write is in its list of rules.
ListSound ==
    LET w == writer
        now == fw[w.inst].rules IN
    /\ w.step \in {"disable", "rules"} => now = w.current
    /\ w.step = "insert" => /\ w.left \in 1..Len(w.desired)
                            /\ now = SubSeq(w.desired, w.left + 1, Len(w.desired)) \o w.current
    /\ w.step = "delete" => /\ w.left \in 1..Len(w.current)
                            /\ now = w.desired \o SubSeq(w.current, 1, w.left)
    /\ w.step \in RulesThere => now = w.desired

\* And in what follows the rules.
FlagsSound ==
    LET f == fw[writer.inst] IN
    /\ writer.step # "make" => f.made
    /\ writer.step \in {"options", "nic"} => f.pinned
    /\ writer.step = "nic" => f.enabled
    /\ writer.step \in {"record", "boot"} /\ writer.groups # {} => f.pinned /\ f.enabled /\ f.nic

\* What the write has read is so unless the generation has moved on; what is
\* already written is not replaced.
ReadSound ==
    LET w == writer
        m == member[w.inst] IN
    /\ ~w.launch => w.step \notin {"make", "read", "boot"} /\ m.applied < w.gen
    /\ w.step \notin {"make", "read"} => m.applied <= w.gen /\ w.gen <= m.gen
    /\ w.step = "disable" => w.groups = {}
    /\ w.step \in {"rules", "pin", "options", "nic"} => w.groups # {}
    /\ w.step \notin {"make", "read", "groups"} /\ w.gen = m.gen => w.groups = m.groups
    /\ w.step \in Replacing \cup RulesThere =>
          /\ w.groups = {} => w.desired = <<>>
          /\ w.groups # {} /\ w.gen = m.gen /\ Untorn(w.groups) =>
                w.desired = Rendered(RulesOfGroups(w.groups))
    /\ w.step \in Replacing => ~(m.gen = m.applied /\ m.groups # {} /\ Untorn(m.groups))

WriterSound ==
    \/ writer = NoWrite
    \/ /\ writer.inst \in Machine /\ writer.step # "idle" /\ Exists(writer.inst)
       /\ ListSound /\ FlagsSound /\ ReadSound

MemberSound(m) ==
    /\ member[m].applied <= member[m].gen
    /\ Exists(m) => \A g \in member[m].groups : sg[g].exists
    /\ ~fw[m].made => ~fw[m].enabled

\* FirewallIsTrue, of one instance, until it is terminated.
Due(m) == /\ Exists(m) /\ member[m].groups # {} /\ Untorn(member[m].groups)
          /\ member[m].gen = member[m].applied

IsTrue(m) == Due(m) => Filtered(m)

FirewallSound ==
    /\ TypeOKFirewall /\ TxsSound /\ WriterSound
    /\ \A m \in Machine : MemberSound(m) /\ IsTrue(m)

-----------------------------------------------------------------------------
(* What is rendered                                                         *)

Ranked(rules) == rules \subseteq Nat \X Nat /\ IsFiniteSet(rules)

LEMMA UpTo == \A n \in Nat : IsFiniteSet(1..n) /\ Cardinality(1..n) = n
<1> SUFFICES ASSUME NEW n \in Nat PROVE IsFiniteSet(1..n) /\ Cardinality(1..n) = n
  OBVIOUS
<1>1. IsFiniteSet(1..n) /\ Cardinality(1..n) = IF 1 > n THEN 0 ELSE n - 1 + 1
  BY FS_Interval
<1>. QED  BY <1>1

\* Reading the rules in order numbers them: each place has one rule.
LEMMA PlacesAreTaken ==
  ASSUME NEW rules, Ranked(rules), NEW n \in 1..Cardinality(rules)
  PROVE  \E r \in rules : Place(r, rules) = n
<1>. DEFINE N == Cardinality(rules)
            Earlier(r) == {q \in rules : ReadBefore(q, r)}
            place == [r \in rules |-> Place(r, rules)]
<1>1. N \in Nat /\ \A r \in rules : r[1] \in Nat /\ r[2] \in Nat /\ r = <<r[1], r[2]>>
  BY FS_CardinalityType DEF Ranked
<1>2. ASSUME NEW r \in rules PROVE IsFiniteSet(Earlier(r)) /\ Cardinality(Earlier(r)) \in 0..N - 1
  <2>1. Earlier(r) \subseteq rules /\ r \notin Earlier(r)
    BY <1>1 DEF ReadBefore
  <2>2. IsFiniteSet(Earlier(r)) /\ Cardinality(Earlier(r)) <= N /\ Cardinality(Earlier(r)) # N
    BY <2>1, FS_Subset DEF Ranked
  <2>3. Cardinality(Earlier(r)) \in Nat
    BY <2>2, FS_CardinalityType
  <2>. QED  BY <1>1, <2>2, <2>3
<1>3. place \in [rules -> 1..N]
  BY <1>1, <1>2 DEF Place
<1>4. ASSUME NEW q \in rules, NEW r \in rules, ReadBefore(q, r) PROVE place[q] # place[r]
  <2>1. Earlier(q) \subseteq Earlier(r) /\ q \in Earlier(r) /\ q \notin Earlier(q)
    BY <1>1, <1>4 DEF ReadBefore
  <2>2. Cardinality(Earlier(q)) # Cardinality(Earlier(r))
    BY <1>2, <2>1, FS_Subset
  <2>3. Cardinality(Earlier(q)) \in Nat /\ Cardinality(Earlier(r)) \in Nat
    BY <1>2, FS_CardinalityType
  <2>. QED  BY <2>2, <2>3 DEF Place
<1>5. ASSUME NEW q \in rules, NEW r \in rules, q # r PROVE place[q] # place[r]
  <2>1. ReadBefore(q, r) \/ ReadBefore(r, q)
    BY <1>1, <1>5 DEF ReadBefore
  <2>. QED  BY <1>4, <2>1
<1>6. SUFFICES ASSUME \A r \in rules : place[r] # n PROVE FALSE
  BY DEF Place
<1>7. place \in [rules -> (1..N) \ {n}]
  BY <1>3, <1>6
<1>8. IsFiniteSet(1..N) /\ Cardinality(1..N) = N
  BY <1>1, UpTo
<1>9. IsFiniteSet((1..N) \ {n}) /\ Cardinality((1..N) \ {n}) < N
  <2>1. IsFiniteSet((1..N) \ {n}) /\ Cardinality((1..N) \ {n}) = N - 1
    <3>. HIDE DEF N
    <3>. QED  BY <1>8, FS_RemoveElement DEF N
  <2>. QED  BY <1>1, <2>1
<1>10. \E q, r \in rules : q # r /\ place[q] = place[r]
  <2>. HIDE DEF place, N
  <2>. QED  BY <1>7, <1>9, FS_PigeonHole DEF Ranked, N
<1>. QED  BY <1>5, <1>10

LEMMA RenderedIs ==
  ASSUME NEW rules, Ranked(rules)
  PROVE  /\ Rendered(rules) \in Seq(Needed(rules))
         /\ \A r \in Needed(rules) : \E n \in DOMAIN Rendered(rules) : Rendered(rules)[n] = r
<1>. DEFINE S == Needed(rules)
            N == Cardinality(S)
            at(n) == CHOOSE r \in S : Place(r, S) = n
<1>1. S \subseteq rules /\ Ranked(S) /\ N \in Nat
  BY FS_Subset, FS_CardinalityType DEF Needed, Ranked
<1>2. ASSUME NEW n \in 1..N PROVE at(n) \in S /\ Place(at(n), S) = n
  <2>1. \E r \in S : Place(r, S) = n
    BY <1>1, PlacesAreTaken
  <2>. QED  BY <2>1
<1>3. Rendered(rules) = [n \in 1..N |-> at(n)]
  BY DEF Rendered
<1>4. Rendered(rules) \in [1..N -> S]
  BY <1>2, <1>3
<1>5. Rendered(rules) \in Seq(S)
  BY <1>1, <1>4
<1>6. ASSUME NEW r \in S PROVE \E n \in 1..N : at(n) = r
  <2>1. ASSUME NEW n \in 1..N, NEW k \in 1..N, at(n) = at(k) PROVE n = k
    BY <1>2, <2>1
  <2>. DEFINE f == [n \in 1..N |-> at(n)]
  <2>2. SUFFICES ASSUME \A n \in 1..N : f[n] # r PROVE FALSE
    OBVIOUS
  <2>3. f \in [1..N -> S \ {r}]
    BY <1>2, <2>2
  <2>4. IsFiniteSet(1..N) /\ Cardinality(1..N) = N
    BY <1>1, UpTo
  <2>5. IsFiniteSet(S \ {r}) /\ Cardinality(S \ {r}) < N
    <3>1. IsFiniteSet(S \ {r}) /\ Cardinality(S \ {r}) = N - 1
      <4>. HIDE DEF S
      <4>. QED  BY <1>1, FS_RemoveElement DEF Ranked
    <3>. QED  BY <1>1, <3>1
  <2>6. \E n, k \in 1..N : n # k /\ f[n] = f[k]
    <3>. HIDE DEF f, S, N
    <3>. QED  BY <2>3, <2>4, <2>5, FS_PigeonHole
  <2>. QED  BY <2>1, <2>6
<1>. QED  BY <1>3, <1>4, <1>5, <1>6

LEMMA RulesOfGroupsRanked ==
  ASSUME NEW gs
  PROVE  RulesOfGroups(gs) \subseteq Rule /\ Ranked(RulesOfGroups(gs)) /\ IsFiniteSet(Rule)
<1>1. IsFiniteSet(Group \cup {0})
  BY FirewallAssumption, FS_AddElement
<1>2. IsFiniteSet(Rule)
  BY <1>1, FirewallAssumption, FS_Product DEF Rule
<1>3. Rule \subseteq Nat \X Nat
  BY FirewallAssumption DEF Rule
<1>4. RulesOfGroups(gs) \subseteq Rule
  BY DEF RulesOfGroups
<1>. QED  BY <1>2, <1>3, <1>4, FS_Subset DEF Ranked

LEMMA RenderedTyped ==
  ASSUME NEW gs
  PROVE  Rendered(RulesOfGroups(gs)) \in Seq(Rule)
<1>1. Rendered(RulesOfGroups(gs)) \in Seq(Needed(RulesOfGroups(gs)))
  BY RulesOfGroupsRanked, RenderedIs
<1>2. Needed(RulesOfGroups(gs)) \subseteq Rule
  BY DEF Needed, RulesOfGroups
<1>. QED  BY <1>1, <1>2, SeqMonotonic

\* One group with one rule.
LEMMA RenderedOne ==
  ASSUME NEW g \in Group, NEW t \in Traffic
  PROVE  Rendered({<<g, t>>}) = << <<g, t>> >>
<1>. DEFINE R == {<<g, t>>}
<1>1. g \in Nat /\ t \in Nat
  BY FirewallAssumption
<1>2. Needed(R) = R
  BY <1>1 DEF Needed
<1>3. Cardinality(R) = 1
  BY FS_Singleton
<1>4. {q \in R : ReadBefore(q, <<g, t>>)} = {}
  BY <1>1 DEF ReadBefore
<1>5. Place(<<g, t>>, R) = 1
  <2>1. Cardinality({}) = 0
    BY FS_EmptySet
  <2>. QED  BY <1>4, <2>1 DEF Place
<1>6. (CHOOSE r \in R : Place(r, R) = 1) = <<g, t>>
  BY <1>5
<1>7. Rendered(R) = [n \in 1..1 |-> CHOOSE r \in R : Place(r, R) = n]
  BY <1>2, <1>3 DEF Rendered
<1>8. \A n \in 1..1 : (CHOOSE r \in R : Place(r, R) = n) = <<g, t>>
  BY <1>6
<1>9. Rendered(R) = [n \in 1..1 |-> <<g, t>>]
  <2>. HIDE DEF R
  <2>. QED  BY <1>7, <1>8
<1>. QED  BY <1>9

\* Leaving out rules whose traffic another group allows takes nothing away
\* (renderFirewall): what is written allows what the groups allow, no less and
\* no more.
THEOREM RenderedAllowsAll ==
  \A rules : Ranked(rules) => Allowed(Rendered(rules)) = {r[2] : r \in rules}
<1> SUFFICES ASSUME NEW rules, Ranked(rules)
             PROVE  Allowed(Rendered(rules)) = {r[2] : r \in rules}
  OBVIOUS
<1>. DEFINE Less == {p \in Nat \X Nat : p[1] < p[2]}
<1>1. ASSUME NEW t \in Allowed(Rendered(rules)) PROVE \E r \in rules : r[2] = t
  <2>1. PICK n \in DOMAIN Rendered(rules) : t = Rendered(rules)[n][2]
    BY DEF Allowed, ToSet
  <2>2. Rendered(rules)[n] \in Needed(rules)
    BY <2>1, RenderedIs, LenProperties, ElementOfSeq
  <2>. QED  BY <2>1, <2>2 DEF Needed
<1>2. ASSUME NEW r \in rules PROVE r[2] \in Allowed(Rendered(rules))
  <2>. DEFINE T == {q[1] : q \in {q \in rules : q[2] = r[2]}}
  <2>1. T \subseteq Nat /\ r[1] \in T
    BY DEF Ranked
  <2>2. IsWellFoundedOn(Less, Nat)
    BY NatLessThanWellFounded DEF OpToRel
  <2>3. PICK x \in T : \A y \in T : ~ (<<y, x>> \in Less)
    <3>. HIDE DEF T, Less
    <3>. QED  BY <2>1, <2>2, WFMin
  <2>4. PICK q \in rules : q[2] = r[2] /\ q[1] = x
    OBVIOUS
  <2>5. ASSUME NEW p \in rules, p[2] = q[2] PROVE p[1] >= q[1]
    <3>1. p[1] \in T
      BY <2>4, <2>5
    <3>2. ~ (<<p[1], x>> \in Less) /\ p[1] \in Nat /\ x \in Nat
      BY <2>1, <2>3, <3>1
    <3>. QED  BY <2>4, <3>2
  <2>6. q \in Needed(rules)
    BY <2>5 DEF Needed
  <2>7. PICK n \in DOMAIN Rendered(rules) : Rendered(rules)[n] = q
    BY <2>6, RenderedIs
  <2>. QED  BY <2>4, <2>7 DEF Allowed, ToSet
<1>. QED  BY <1>1, <1>2

-----------------------------------------------------------------------------
(* The list a VM has, while it is rewritten.                                *)

\* InsertFirewallRule puts a rule on top.
LEMMA OnTop ==
  ASSUME NEW S, NEW d \in Seq(S), NEW c \in Seq(S), NEW n \in 1..Len(d)
  PROVE  <<d[n]>> \o (SubSeq(d, n + 1, Len(d)) \o c) = SubSeq(d, n, Len(d)) \o c
<1>1. Len(d) \in Nat /\ SubSeq(d, n + 1, Len(d)) \in Seq(S) /\ <<d[n]>> \in Seq(S)
  <2>1. d[n] \in S
    BY ElementOfSeq
  <2>. QED  BY <2>1, LenProperties, SubSeqProperties
<1>2. SubSeq(d, n, Len(d)) = <<d[n]>> \o SubSeq(d, n + 1, Len(d))
  BY <1>1, SubSeqRecursiveFirst
<1>3. \A x, y \in Seq(S) : (x \o y) \o c = x \o (y \o c)
  BY ConcatAssociative
<1>. QED  BY <1>1, <1>2, <1>3

\* DeleteFirewallRule takes the last of the old ones, below the new ones.
LEMMA FromBelow ==
  ASSUME NEW S, NEW d \in Seq(S), NEW c \in Seq(S), NEW n \in 1..Len(c)
  PROVE  RemoveAt(d \o SubSeq(c, 1, n), Len(d) + n) = d \o SubSeq(c, 1, n - 1)
<1>. DEFINE s == d \o SubSeq(c, 1, n)
<1>1. Len(c) \in Nat /\ Len(d) \in Nat /\ n \in Nat /\ n <= Len(c)
  BY LenProperties
<1>2. SubSeq(c, 1, n) \in Seq(S) /\ Len(SubSeq(c, 1, n)) = n
      /\ \A j \in 1..n : SubSeq(c, 1, n)[j] = c[j]
  BY <1>1, SubSeqProperties
<1>3. SubSeq(c, 1, n - 1) \in Seq(S) /\ Len(SubSeq(c, 1, n - 1)) = n - 1
      /\ \A j \in 1..n - 1 : SubSeq(c, 1, n - 1)[j] = c[j]
  BY <1>1, SubSeqProperties
<1>4. s \in Seq(S) /\ Len(s) = Len(d) + n
      /\ \A j \in 1..Len(d) + n : s[j] = IF j <= Len(d) THEN d[j] ELSE c[j - Len(d)]
  BY <1>1, <1>2, ConcatProperties
<1>. DEFINE a == SubSeq(s, 1, Len(d) + n - 1)
            b == SubSeq(s, Len(d) + n + 1, Len(s))
<1>5. RemoveAt(s, Len(d) + n) = a \o b
  BY DEF RemoveAt
<1>6. b = <<>>
  BY <1>1, <1>4, SubSeqEmpty
<1>7. a \in Seq(S) /\ Len(a) = Len(d) + n - 1 /\ \A j \in 1..Len(d) + n - 1 : a[j] = s[j]
  <2>1. 1 \in 1..Len(s) + 1 /\ Len(d) + n - 1 \in 0..Len(s)
    BY <1>1, <1>4
  <2>. HIDE DEF s
  <2>. QED  BY <1>1, <1>4, <2>1, SubSeqProperties
<1>8. d \o SubSeq(c, 1, n - 1) \in Seq(S) /\ Len(d \o SubSeq(c, 1, n - 1)) = Len(d) + n - 1
      /\ \A j \in 1..Len(d) + n - 1 :
            (d \o SubSeq(c, 1, n - 1))[j] = IF j <= Len(d) THEN d[j] ELSE c[j - Len(d)]
  BY <1>1, <1>3, ConcatProperties
<1>9. a = d \o SubSeq(c, 1, n - 1)
  <2>. HIDE DEF a
  <2>1. \A j \in 1..Len(d) + n - 1 : a[j] = (d \o SubSeq(c, 1, n - 1))[j]
    BY <1>1, <1>4, <1>7, <1>8
  <2>. QED  BY <1>1, <1>7, <1>8, <2>1, SeqEqual
<1>. QED  BY <1>5, <1>6, <1>7, <1>9, ConcatEmptySeq

-----------------------------------------------------------------------------
(* Transactions                                                             *)

LEMMA Constants ==
  /\ NoTransaction \in Transaction /\ NoWrite \in Write /\ NoFilter \in Filter
  /\ Egress \in Traffic /\ Ingress \in Traffic /\ Default \in Group
  /\ {} \in SUBSET Group /\ <<>> \in Seq(Rule) /\ 0 \in 0..MaxGeneration /\ 1 \in 0..MaxGeneration
<1>1. Egress \in Traffic /\ Ingress \in Traffic /\ Default \in Group
  BY FirewallAssumption DEF Egress, Ingress
<1>2. 0 \in 0..MaxGeneration /\ 1 \in 0..MaxGeneration
  BY FirewallAssumption
<1>3. <<>> \in Seq(Rule)
  OBVIOUS
<1>4. NoTransaction \in Transaction
  BY <1>1 DEF NoTransaction, Transaction
<1>5. NoWrite \in Write
  BY <1>2, <1>3 DEF NoWrite, Write
<1>6. NoFilter \in Filter
  BY <1>3 DEF NoFilter, Filter
<1>. QED  BY <1>1, <1>2, <1>3, <1>4, <1>5, <1>6

LEMMA NothingHeld ==
  NoTransaction.locked = {} /\ NoTransaction.shared = {} /\ NoTransaction.rows = {}
  /\ NoTransaction.todo = {} /\ ~NoTransaction.made /\ NoTransaction.kind = "none"
  /\ NoTransaction.step = "idle"
<1>. QED  BY DEF NoTransaction

\* What a transaction relies on while others go on.
Relies(k) ==
    /\ \A g \in tx[k].shared : sg[g].exists => sg'[g].exists
    /\ \A g \in tx[k].locked : MembersOf(g)' \subseteq MembersOf(g)
    /\ tx[k].made => ~sg'[Default].exists
    /\ tx[k].kind = "create" /\ tx[k].step = "commit" => \A g \in tx[k].groups : ~sg'[g].exists
    /\ tx[k].kind \in {"run", "adopt"} => member'[tx[k].on].state = "none"

LEMMA TxSoundKept ==
  ASSUME NEW k \in Handler, TxSound(k), tx'[k] = tx[k], Relies(k)
  PROVE  TxSound(k)'
<1>1. ChangeSound(k) => ChangeSound(k)'
  <2> SUFFICES ASSUME ChangeSound(k) PROVE ChangeSound(k)'
    OBVIOUS
  <2>1. PICK g \in Group :
          /\ tx[k].groups = {g} /\ tx[k].locked = {g}
          /\ tx[k].step = "bump" => MembersOf(g) \subseteq tx[k].todo \cup tx[k].rows
          /\ tx[k].step = "bump" /\ tx[k].kind = "delete" => g # Default /\ MembersOf(g) = {}
    BY DEF ChangeSound
  <2>2. MembersOf(g)' \subseteq MembersOf(g)
    BY <2>1 DEF Relies
  <2>. QED  BY <2>1, <2>2 DEF ChangeSound
<1>2. MembershipSound(k) => MembershipSound(k)'
  BY DEF MembershipSound, Relies
<1>3. CreationSound(k) => CreationSound(k)'
  BY DEF CreationSound, Relies, HoldsNothing
<1>4. DescribeSound(k) => DescribeSound(k)'
  BY DEF DescribeSound, HoldsNothing
<1>. QED  BY <1>1, <1>2, <1>3, <1>4 DEF TxSound

\* The rest of the state knows nothing of a transaction before its commit.
LEMMA RestKept ==
  ASSUME FirewallSound, UNCHANGED <<sg, member, fw, writer>>
  PROVE  WriterSound' /\ \A m \in Machine : MemberSound(m)' /\ IsTrue(m)'
<1>1. \A gs : RulesOfGroups(gs)' = RulesOfGroups(gs) /\ Untorn(gs)' = Untorn(gs)
  BY DEF RulesOfGroups, Untorn
<1>2. WriterSound'
  BY <1>1 DEF FirewallSound, WriterSound, ListSound, FlagsSound, ReadSound, Exists
<1>3. ASSUME NEW m \in Machine PROVE MemberSound(m)' /\ IsTrue(m)'
  BY <1>1 DEF FirewallSound, MemberSound, IsTrue, Due, Filtered, Exists
<1>. QED  BY <1>2, <1>3

LEMMA TxStep ==
  ASSUME FirewallSound, NEW h \in Handler, NEW t \in Transaction,
         tx' = [tx EXCEPT ![h] = t], UNCHANGED <<sg, member, fw, writer>>,
         asked' \in 0..MaxRequests, TxSound(h)',
         \A k \in Handler \ {h} : LocksApart(h, k)' /\ LocksApart(k, h)'
  PROVE  FirewallSound'
<1>1. tx \in [Handler -> Transaction]
  BY DEF FirewallSound, TypeOKFirewall
<1>2. tx' \in [Handler -> Transaction] /\ \A k \in Handler \ {h} : tx'[k] = tx[k]
  BY <1>1
<1>3. TypeOKFirewall'
  BY <1>2 DEF FirewallSound, TypeOKFirewall
<1>4. ASSUME NEW k \in Handler \ {h} PROVE TxSound(k)'
  <2>1. TxSound(k)
    BY DEF FirewallSound, TxsSound
  <2>2. \A g : MembersOf(g)' = MembersOf(g)
    BY DEF MembersOf
  <2>3. Relies(k)
    BY <2>1, <2>2, NothingHeld DEF Relies, TxSound, ChangeSound, MembershipSound, CreationSound, DescribeSound
  <2>. QED  BY <1>2, <2>1, <2>3, TxSoundKept
<1>5. ASSUME NEW j \in Handler, NEW k \in Handler, j # k PROVE LocksApart(j, k)'
  <2>1. CASE j # h /\ k # h
    <3>1. LocksApart(j, k)
      BY <1>5 DEF FirewallSound, TxsSound
    <3>. QED  BY <1>2, <2>1, <3>1 DEF LocksApart
  <2>. QED  BY <1>5, <2>1
<1>6. TxsSound'
  BY <1>4, <1>5 DEF TxsSound
<1>. QED  BY <1>3, <1>6, RestKept DEF FirewallSound

LEMMA LocksStep ==
  ASSUME FirewallSound, NEW h \in Handler, NEW t \in Transaction,
         tx' = [tx EXCEPT ![h] = t], UNCHANGED <<sg, member, fw, writer>>,
         asked' \in 0..MaxRequests, TxSound(h)',
         \A k \in Handler \ {h} :
            /\ t.locked \cap (tx[k].locked \cup tx[k].shared) = {} /\ t.shared \cap tx[k].locked = {}
            /\ ~(t.kind \in Serialised /\ tx[k].kind \in Serialised)
  PROVE  FirewallSound'
<1>1. tx'[h] = t /\ \A k \in Handler \ {h} : tx'[k] = tx[k]
  BY DEF FirewallSound, TypeOKFirewall
<1>2. \A k \in Handler \ {h} : LocksApart(h, k)' /\ LocksApart(k, h)'
  <2>1. \A k \in Handler \ {h} : LocksApart(k, h)
    BY DEF FirewallSound, TxsSound
  <2>. QED  BY <1>1, <2>1 DEF LocksApart
<1>. QED  BY <1>2, TxStep

\* A step of a transaction that takes no locks on groups.
LEMMA QuietStep ==
  ASSUME FirewallSound, NEW h \in Handler, NEW t \in Transaction, Advances(h, t), TxSound(h)',
         t.locked \subseteq tx[h].locked, t.shared \subseteq tx[h].shared, t.kind = tx[h].kind
  PROVE  FirewallSound'
<1>1. \A k \in Handler \ {h} : LocksApart(h, k) /\ LocksApart(k, h)
  BY DEF FirewallSound, TxsSound
<1>2. /\ tx' = [tx EXCEPT ![h] = t] /\ UNCHANGED <<sg, member, fw, writer>>
      /\ asked' \in 0..MaxRequests
  BY DEF Advances, FirewallSound, TypeOKFirewall
<1>3. \A k \in Handler \ {h} :
         /\ t.locked \cap (tx[k].locked \cup tx[k].shared) = {} /\ t.shared \cap tx[k].locked = {}
         /\ ~(t.kind \in Serialised /\ tx[k].kind \in Serialised)
  BY <1>1 DEF LocksApart
<1>. QED  BY <1>2, <1>3, LocksStep

LEMMA OpensSound ==
  ASSUME FirewallSound, NEW h \in Handler, NEW kind, NEW t, t \in Transaction,
         [t EXCEPT !.kind = kind] \in Transaction,
         Opens(h, kind, t), TxSound(h)', t.shared = {},
         \A k \in Handler \ {h} :
            /\ t.locked \cap (tx[k].locked \cup tx[k].shared) = {}
            /\ ~(kind \in Serialised /\ tx[k].kind \in Serialised)
  PROVE  FirewallSound'
<1>1. asked' \in 0..MaxRequests
  BY FirewallAssumption DEF Opens, FirewallSound, TypeOKFirewall
<1>2. PICK u : u = [t EXCEPT !.kind = kind]
  OBVIOUS
<1>3. u \in Transaction /\ u.locked = t.locked /\ u.shared = {} /\ u.kind = kind
  BY <1>2 DEF Transaction
<1>4. tx' = [tx EXCEPT ![h] = u] /\ UNCHANGED <<sg, member, fw, writer>>
  BY <1>2 DEF Opens
<1>5. \A k \in Handler \ {h} :
         /\ u.locked \cap (tx[k].locked \cup tx[k].shared) = {} /\ u.shared \cap tx[k].locked = {}
         /\ ~(u.kind \in Serialised /\ tx[k].kind \in Serialised)
  BY <1>3
<1>. QED  BY <1>1, <1>3, <1>4, <1>5, LocksStep

LEMMA LocksForChangeSound ==
  ASSUME FirewallSound, NEW h \in Handler, NEW g \in Group, NEW r \in Traffic,
         NEW kind \in {"authorize", "revoke", "delete"}, LocksForChange(h, kind, g, r)
  PROVE  FirewallSound'
<1>. DEFINE t == [NoTransaction EXCEPT !.step = "check", !.groups = {g}, !.rule = r, !.locked = {g}]
<1>1. Opens(h, kind, t) /\ GroupFree(h, g)
  BY DEF LocksForChange
<1>2. t \in Transaction /\ [t EXCEPT !.kind = kind] \in Transaction
  BY Constants DEF Transaction
<1>3. t.shared = {} /\ t.locked = {g}
  BY DEF NoTransaction
<1>4. tx'[h] = [t EXCEPT !.kind = kind]
  BY <1>1 DEF Opens, FirewallSound, TypeOKFirewall
<1>5. ChangeSound(h)'
  BY <1>4 DEF ChangeSound, NoTransaction
<1>6. \A k \in Handler \ {h} :
            /\ t.locked \cap (tx[k].locked \cup tx[k].shared) = {}
            /\ ~(kind \in Serialised /\ tx[k].kind \in Serialised)
  BY <1>1, <1>3 DEF GroupFree, Serialised
<1>. HIDE DEF t
<1>. QED  BY <1>1, <1>2, <1>3, <1>5, <1>6, OpensSound DEF TxSound

LEMMA LocksInstanceSound ==
  ASSUME FirewallSound, NEW h \in Handler, NEW m \in Machine, NEW gs \in SUBSET Group,
         LocksInstance(h, m, gs)
  PROVE  FirewallSound'
<1>. DEFINE t == [NoTransaction EXCEPT !.step = "group", !.groups = gs, !.on = m, !.rows = {m}]
<1>1. Opens(h, "set", t)
  BY DEF LocksInstance
<1>2. t \in Transaction /\ [t EXCEPT !.kind = "set"] \in Transaction
  BY Constants DEF Transaction
<1>3. t.shared = {} /\ t.locked = {}
  BY DEF NoTransaction
<1>4. tx'[h] = [t EXCEPT !.kind = "set"]
  BY <1>1 DEF Opens, FirewallSound, TypeOKFirewall
<1>5. MembershipSound(h)'
  BY <1>4 DEF MembershipSound, NoTransaction
<1>. HIDE DEF t
<1>. QED  BY <1>1, <1>2, <1>3, <1>5, OpensSound DEF TxSound, Serialised

LEMMA BeginsSound ==
  ASSUME FirewallSound, NEW h \in Handler, Begins(h)
  PROVE  FirewallSound'
<1>1. ASSUME Opens(h, "describe", [NoTransaction EXCEPT !.step = "group", !.rule = Ingress])
      PROVE  FirewallSound'
  <2>. DEFINE t == [NoTransaction EXCEPT !.step = "group", !.rule = Ingress]
  <2>1. t \in Transaction /\ [t EXCEPT !.kind = "describe"] \in Transaction
    BY Constants DEF Transaction
  <2>2. t.shared = {} /\ t.locked = {}
    BY DEF NoTransaction
  <2>3. tx'[h] = [t EXCEPT !.kind = "describe"]
    BY <1>1 DEF Opens, FirewallSound, TypeOKFirewall
  <2>4. DescribeSound(h)'
    BY <2>3 DEF DescribeSound, HoldsNothing, NoTransaction
  <2>5. Opens(h, "describe", t)
    BY <1>1
  <2>. HIDE DEF t
  <2>. QED  BY <2>1, <2>2, <2>4, <2>5, OpensSound DEF TxSound, Serialised
<1>2. ASSUME CapacityFree(h), NEW g \in Group \ {Default},
             Opens(h, "create", [NoTransaction EXCEPT !.step = "group", !.groups = {g}])
      PROVE  FirewallSound'
  <2>. DEFINE t == [NoTransaction EXCEPT !.step = "group", !.groups = {g}]
  <2>1. t \in Transaction /\ [t EXCEPT !.kind = "create"] \in Transaction
    BY Constants DEF Transaction
  <2>2. t.shared = {} /\ t.locked = {}
    BY DEF NoTransaction
  <2>3. tx'[h] = [t EXCEPT !.kind = "create"]
    BY <1>2 DEF Opens, FirewallSound, TypeOKFirewall
  <2>4. CreationSound(h)'
    BY <2>3 DEF CreationSound, HoldsNothing, NoTransaction
  <2>5. Opens(h, "create", t)
    BY <1>2
  <2>. HIDE DEF t
  <2>. QED  BY <1>2, <2>1, <2>2, <2>4, <2>5, OpensSound DEF TxSound, CapacityFree
<1>3. ASSUME CapacityFree(h), NEW m \in Machine, NEW gs \in SUBSET Group,
             NEW kind \in {"run", "adopt"}, member[m].state = "none",
             Opens(h, kind, [NoTransaction EXCEPT !.step = "group", !.groups = gs, !.on = m])
      PROVE  FirewallSound'
  <2>. DEFINE t == [NoTransaction EXCEPT !.step = "group", !.groups = gs, !.on = m]
  <2>1. t \in Transaction /\ [t EXCEPT !.kind = kind] \in Transaction
    BY Constants DEF Transaction
  <2>2. t.shared = {} /\ t.locked = {}
    BY DEF NoTransaction
  <2>3. tx'[h] = [t EXCEPT !.kind = kind] /\ member' = member
    BY <1>3 DEF Opens, FirewallSound, TypeOKFirewall
  <2>4. MembershipSound(h)'
    BY <1>3, <2>3 DEF MembershipSound, NoTransaction
  <2>5. Opens(h, kind, t)
    BY <1>3
  <2>. HIDE DEF t
  <2>. QED  BY <1>3, <2>1, <2>2, <2>4, <2>5, OpensSound DEF TxSound, CapacityFree
<1>. QED  BY <1>1, <1>2, <1>3, LocksForChangeSound, LocksInstanceSound, Constants DEF Begins

LEMMA RollsBackSound ==
  ASSUME FirewallSound, NEW h \in Handler, RollsBack(h)
  PROVE  FirewallSound'
<1>1. tx'[h] = NoTransaction
  BY DEF RollsBack, FirewallSound, TypeOKFirewall
<1>2. TxSound(h)'
  BY <1>1 DEF TxSound
<1>3. asked' \in 0..MaxRequests
  BY DEF RollsBack, FirewallSound, TypeOKFirewall
<1>4. tx' = [tx EXCEPT ![h] = NoTransaction] /\ UNCHANGED <<sg, member, fw, writer>>
  BY DEF RollsBack
<1>. QED  BY <1>2, <1>3, <1>4, Constants, NothingHeld, LocksStep DEF Serialised

\* Which transaction a step is of.
LEMMA KindByStep ==
  ASSUME FirewallSound, NEW h \in Handler
  PROVE  /\ tx[h] \in Transaction
         /\ tx[h].step = "check" => ChangeSound(h)
         /\ tx[h].step = "bump" => ChangeSound(h)
         /\ tx[h].step = "insert" => MembershipSound(h)
         /\ tx[h].step = "group" /\ tx[h].kind = "create" => CreationSound(h)
         /\ tx[h].step = "group" /\ tx[h].groups # {} /\ tx[h].kind # "create" => MembershipSound(h)
         /\ tx[h].kind \in {"set", "run", "adopt"} => MembershipSound(h)
         /\ tx[h].kind = "create" => CreationSound(h)
         /\ tx[h].kind = "describe" => DescribeSound(h)
         /\ tx[h].kind \in {"authorize", "revoke", "delete"} => ChangeSound(h)
<1>1. tx[h] \in Transaction /\ TxSound(h)
  BY DEF FirewallSound, TypeOKFirewall, TxsSound
<1>. QED  BY <1>1, NothingHeld DEF TxSound, ChangeSound, MembershipSound, CreationSound, DescribeSound

LEMMA OthersApart ==
  ASSUME FirewallSound, NEW h \in Handler, NEW k \in Handler \ {h}
  PROVE  LocksApart(h, k) /\ LocksApart(k, h)
<1>. QED  BY DEF FirewallSound, TxsSound

\* The value a transaction's step gives its variable.
LEMMA AdvancesTo ==
  ASSUME FirewallSound, NEW h \in Handler, NEW t, Advances(h, t)
  PROVE  /\ tx'[h] = t /\ tx' = [tx EXCEPT ![h] = t]
         /\ UNCHANGED <<sg, member, fw, writer>> /\ asked' \in 0..MaxRequests
<1>. QED  BY DEF Advances, FirewallSound, TypeOKFirewall

LEMMA LocksGroupSound ==
  ASSUME FirewallSound, NEW h \in Handler, LocksGroup(h)
  PROVE  FirewallSound'
<1>1. PICK g \in tx[h].groups \ tx[h].locked :
        /\ GroupFree(h, g)
        /\ LET t == [tx[h] EXCEPT !.locked = @ \cup {g}]
           IN  Advances(h, IF t.locked # t.groups THEN t ELSE [t EXCEPT !.step = "insert"])
  BY DEF LocksGroup
<1>2. MembershipSound(h) /\ tx[h] \in Transaction /\ tx[h].step = "group"
  BY <1>1, KindByStep DEF LocksGroup
<1>3. PICK t : /\ Advances(h, t)
               /\ \/ t = [tx[h] EXCEPT !.locked = @ \cup {g}]
                  \/ t = [tx[h] EXCEPT !.locked = @ \cup {g}, !.step = "insert"]
  BY <1>1
<1>4. g \in Group
  BY <1>2 DEF Transaction
<1>5. /\ t \in Transaction /\ t.locked = tx[h].locked \cup {g} /\ t.shared = tx[h].shared
      /\ t.kind = tx[h].kind /\ t.on = tx[h].on /\ t.made = tx[h].made
      /\ t.step \in {"group", "insert"} /\ t.groups = tx[h].groups
  <2>1. CASE t = [tx[h] EXCEPT !.locked = @ \cup {g}]
    BY <1>2, <1>4, <2>1 DEF Transaction
  <2>2. CASE t = [tx[h] EXCEPT !.locked = @ \cup {g}, !.step = "insert"]
    BY <1>2, <1>4, <2>2 DEF Transaction
  <2>. QED  BY <1>3, <2>1, <2>2
<1>6. MembershipSound(h)'
  <2>1. tx'[h] = t /\ sg' = sg /\ member' = member
    BY <1>3, AdvancesTo
  <2>. QED  BY <1>2, <1>5, <2>1 DEF MembershipSound
<1>7. \A k \in Handler \ {h} :
         /\ t.locked \cap (tx[k].locked \cup tx[k].shared) = {} /\ t.shared \cap tx[k].locked = {}
         /\ ~(t.kind \in Serialised /\ tx[k].kind \in Serialised)
  BY <1>1, <1>5, OthersApart DEF LocksApart, GroupFree
<1>. QED  BY <1>3, <1>5, <1>6, <1>7, AdvancesTo, LocksStep DEF TxSound

LEMMA EnsuresDefaultSound ==
  ASSUME FirewallSound, NEW h \in Handler, EnsuresDefault(h)
  PROVE  FirewallSound'
<1>1. CASE tx[h].kind = "create"
  <2>1. CreationSound(h) /\ tx[h] \in Transaction
    BY <1>1, KindByStep
  <2>2. PICK t : /\ Advances(h, t)
                 /\ t = [tx[h] EXCEPT !.made = ~sg[Default].exists, !.step = "commit"]
                 /\ \A g \in tx[h].groups : ~sg[g].exists
    BY <1>1, <2>1 DEF EnsuresDefault, Transaction
  <2>3. t.locked = tx[h].locked /\ t.shared = tx[h].shared /\ t.kind = tx[h].kind
    BY <2>1, <2>2 DEF Transaction
  <2>4. CreationSound(h)'
    <3>1. tx'[h] = t /\ sg' = sg
      BY <2>2, AdvancesTo
    <3>2. /\ t.kind = "create" /\ t.step = "commit" /\ t.groups = tx[h].groups
          /\ t.locked = {} /\ t.shared = {} /\ t.rows = {} /\ t.todo = {}
          /\ t.made = ~sg[Default].exists
      BY <2>1, <2>2 DEF CreationSound, HoldsNothing, Transaction
    <3>. QED  BY <2>1, <2>2, <3>1, <3>2 DEF CreationSound, HoldsNothing
  <2>5. t \in Transaction
    <3>2. (~sg[Default].exists) \in BOOLEAN
      OBVIOUS
    <3>. QED  BY <2>1, <2>2, <3>2 DEF Transaction
  <2>. QED  BY <2>2, <2>3, <2>4, <2>5, QuietStep DEF TxSound
<1>2. CASE tx[h].kind \in {"run", "adopt"} /\ tx[h].groups = {}
  <2>1. MembershipSound(h) /\ tx[h] \in Transaction /\ tx[h].step = "group"
    BY <1>2, KindByStep DEF EnsuresDefault
  <2>2. PICK t : /\ Advances(h, t)
                 /\ t = [tx[h] EXCEPT !.made = ~sg[Default].exists, !.step = "insert",
                                      !.groups = {Default}]
    BY <1>2, <2>1 DEF EnsuresDefault, Transaction
  <2>3. t.locked = tx[h].locked /\ t.shared = tx[h].shared /\ t.kind = tx[h].kind
    BY <2>1, <2>2 DEF Transaction
  <2>4. MembershipSound(h)'
    <3>1. tx'[h] = t /\ sg' = sg /\ member' = member
      BY <2>2, AdvancesTo
    <3>2. /\ t.kind = tx[h].kind /\ t.step = "insert" /\ t.on = tx[h].on
          /\ t.shared = tx[h].shared /\ t.made = ~sg[Default].exists
      BY <2>1, <2>2 DEF Transaction
    <3>. QED  BY <1>2, <2>1, <3>1, <3>2 DEF MembershipSound
  <2>5. t \in Transaction
    <3>2. (~sg[Default].exists) \in BOOLEAN
      OBVIOUS
    <3>. QED  BY <2>1, <2>2, <3>2, Constants DEF Transaction
  <2>. QED  BY <2>2, <2>3, <2>4, <2>5, QuietStep DEF TxSound
<1>. QED  BY <1>1, <1>2 DEF EnsuresDefault

LEMMA InsertsMembershipSound ==
  ASSUME FirewallSound, NEW h \in Handler, InsertsMembership(h)
  PROVE  FirewallSound'
<1>1. MembershipSound(h) /\ tx[h] \in Transaction /\ tx[h].step = "insert"
  BY KindByStep DEF InsertsMembership
<1>2. PICK t : Advances(h, t) /\ t = [tx[h] EXCEPT !.step = "commit", !.shared = tx[h].groups]
  BY DEF InsertsMembership
<1>3. /\ t \in Transaction /\ t.locked = tx[h].locked /\ t.shared = tx[h].groups
      /\ t.kind = tx[h].kind /\ t.on = tx[h].on /\ t.made = tx[h].made
      /\ t.step = "commit" /\ t.groups = tx[h].groups
  BY <1>1, <1>2 DEF Transaction
<1>4. MembershipSound(h)'
  <2>1. tx'[h] = t /\ sg' = sg /\ member' = member
    BY <1>2, AdvancesTo
  <2>. QED  BY <1>1, <1>3, <2>1 DEF MembershipSound, InsertsMembership
<1>5. \A k \in Handler \ {h} :
         /\ t.locked \cap (tx[k].locked \cup tx[k].shared) = {} /\ t.shared \cap tx[k].locked = {}
         /\ ~(t.kind \in Serialised /\ tx[k].kind \in Serialised)
  BY <1>3, OthersApart DEF LocksApart, ShareFree, InsertsMembership
<1>6. /\ tx' = [tx EXCEPT ![h] = t] /\ UNCHANGED <<sg, member, fw, writer>>
      /\ asked' \in 0..MaxRequests
  BY <1>2, AdvancesTo
<1>7. TxSound(h)'
  BY <1>4 DEF TxSound
<1>. QED  BY <1>3, <1>5, <1>6, <1>7, LocksStep

LEMMA ChecksGroupSound ==
  ASSUME FirewallSound, NEW h \in Handler, ChecksGroup(h)
  PROVE  FirewallSound'
<1>1. ChangeSound(h) /\ tx[h] \in Transaction /\ tx[h].step = "check"
  BY KindByStep DEF ChecksGroup
<1>2. PICK g \in tx[h].groups :
        /\ Advances(h, [tx[h] EXCEPT !.step = "bump", !.todo = MembersOf(g)])
        /\ tx[h].kind = "delete" => g # Default /\ MembersOf(g) = {}
  <2>1. tx[h].kind \in {"authorize", "revoke", "delete"}
    BY <1>1 DEF ChangeSound
  <2>. QED  BY <2>1 DEF ChecksGroup
<1>3. PICK t : Advances(h, t) /\ t = [tx[h] EXCEPT !.step = "bump", !.todo = MembersOf(g)]
  BY <1>2
<1>4. /\ t \in Transaction /\ t.locked = tx[h].locked /\ t.shared = tx[h].shared
      /\ t.kind = tx[h].kind /\ t.made = tx[h].made /\ t.todo = MembersOf(g)
      /\ t.step = "bump" /\ t.groups = tx[h].groups
  BY <1>1, <1>3 DEF Transaction, MembersOf
<1>5. ChangeSound(h)'
  <2>1. tx'[h] = t /\ \A q : MembersOf(q)' = MembersOf(q)
    BY <1>3, AdvancesTo DEF MembersOf
  <2>. QED  BY <1>1, <1>2, <1>4, <2>1 DEF ChangeSound
<1>. QED  BY <1>3, <1>4, <1>5, QuietStep DEF TxSound

LEMMA BumpsRowSound ==
  ASSUME FirewallSound, NEW h \in Handler, NEW m \in Machine, BumpsRow(h, m)
  PROVE  FirewallSound'
<1>1. ChangeSound(h) /\ tx[h] \in Transaction /\ tx[h].step = "bump"
  BY KindByStep DEF BumpsRow
<1>2. PICK t : /\ Advances(h, t)
               /\ t = [tx[h] EXCEPT !.todo = @ \ {m},
                                    !.rows = IF member[m].state = "terminated" THEN @ ELSE @ \cup {m}]
  BY DEF BumpsRow
<1>3. /\ t.locked = tx[h].locked /\ t.shared = tx[h].shared
      /\ t.kind = tx[h].kind /\ t.made = tx[h].made /\ t.todo = tx[h].todo \ {m}
      /\ t.rows = IF member[m].state = "terminated" THEN tx[h].rows ELSE tx[h].rows \cup {m}
      /\ t.step = "bump" /\ t.groups = tx[h].groups
  BY <1>1, <1>2 DEF Transaction
<1>4. t \in Transaction
  BY <1>1, <1>2 DEF Transaction
<1>5. ChangeSound(h)'
  <2>1. tx'[h] = t /\ \A q : MembersOf(q)' = MembersOf(q)
    BY <1>2, AdvancesTo DEF MembersOf
  <2>2. PICK g \in Group :
          /\ tx[h].groups = {g} /\ tx[h].locked = {g}
          /\ MembersOf(g) \subseteq tx[h].todo \cup tx[h].rows
          /\ tx[h].kind = "delete" => g # Default /\ MembersOf(g) = {}
    BY <1>1 DEF ChangeSound
  <2>3. MembersOf(g) \subseteq t.todo \cup t.rows
    BY <1>3, <2>2 DEF MembersOf
  <2>. QED  BY <1>1, <1>3, <2>1, <2>2, <2>3 DEF ChangeSound
<1>. QED  BY <1>2, <1>3, <1>4, <1>5, QuietStep DEF TxSound

-----------------------------------------------------------------------------
(* Commits                                                                  *)

LEMMA TxsAfter ==
  ASSUME FirewallSound, NEW h \in Handler, TxSound(h)',
         \A k \in Handler \ {h} : tx'[k] = tx[k] /\ Relies(k),
         tx'[h].locked \subseteq tx[h].locked, tx'[h].shared \subseteq tx[h].shared,
         tx'[h].kind \in {tx[h].kind, "none"}
  PROVE  TxsSound'
<1>1. ASSUME NEW k \in Handler PROVE TxSound(k)'
  <2>1. TxSound(k)
    BY DEF FirewallSound, TxsSound
  <2>. QED  BY <2>1, TxSoundKept
<1>2. ASSUME NEW j \in Handler, NEW k \in Handler, j # k PROVE LocksApart(j, k)'
  <2>1. LocksApart(j, k)
    BY <1>2 DEF FirewallSound, TxsSound
  <2>2. /\ tx'[j].locked \subseteq tx[j].locked /\ tx'[j].kind \in {tx[j].kind, "none"}
        /\ tx'[k].locked \subseteq tx[k].locked /\ tx'[k].kind \in {tx[k].kind, "none"}
        /\ tx'[k].shared \subseteq tx[k].shared
    OBVIOUS
  <2>. QED  BY <2>1, <2>2 DEF LocksApart, Serialised
<1>. QED  BY <1>1, <1>2 DEF TxsSound

\* An instance whose generation does not move keeps its groups, and these what they
\* allow, but for a default group that is torn.
Undisturbed(m) ==
    /\ Exists(m) /\ member'[m].state = member[m].state /\ fw'[m] = fw[m]
    /\ member'[m].applied = member[m].applied /\ member[m].gen <= member'[m].gen
    /\ member'[m].gen = member[m].gen =>
          /\ member'[m].groups = member[m].groups
          /\ \A g \in member[m].groups : ~sg'[g].torn => sg'[g] = sg[g]

LEMMA RulesKept ==
  ASSUME NEW gs \in SUBSET Group, \A g \in gs : ~sg'[g].torn => sg'[g] = sg[g], Untorn(gs)'
  PROVE  Untorn(gs) /\ RulesOfGroups(gs)' = RulesOfGroups(gs)
<1>1. \A g \in gs : ~sg'[g].torn /\ sg'[g] = sg[g]
  BY DEF Untorn
<1>2. Untorn(gs)
  BY <1>1 DEF Untorn
<1>3. \A r \in Rule : r[1] \in gs => sg'[r[1]] = sg[r[1]]
  BY <1>1
<1>. QED  BY <1>2, <1>3 DEF RulesOfGroups

LEMMA Numbers ==
  ASSUME TypeOKFirewall, NEW m \in Machine
  PROVE  /\ member[m] \in Membership /\ member[m].gen \in Nat /\ member[m].applied \in Nat
         /\ member[m].groups \in SUBSET Group
         /\ writer.gen \in Nat /\ writer.groups \in SUBSET Group
         /\ fw[m] \in Filter /\ fw[m].rules \in Seq(Rule)
<1>. QED  BY FirewallAssumption DEF TypeOKFirewall, Membership, Write, Filter

LEMMA GenerationStays ==
  ASSUME FirewallSound, TypeOKFirewall', NEW m \in Machine, Undisturbed(m),
         member'[m].gen = member'[m].applied
  PROVE  member'[m].gen = member[m].gen /\ member[m].gen = member[m].applied
<1>1. member[m].gen \in Nat /\ member[m].applied \in Nat /\ member[m].applied <= member[m].gen
  BY Numbers DEF FirewallSound, MemberSound
<1>2. member'[m].gen \in Nat
  BY FirewallAssumption DEF TypeOKFirewall, Membership
<1>. QED  BY <1>1, <1>2 DEF Undisturbed

LEMMA TruthKept ==
  ASSUME FirewallSound, TypeOKFirewall', NEW m \in Machine, Undisturbed(m)
  PROVE  IsTrue(m)'
<1> SUFFICES ASSUME Exists(m)', member'[m].groups # {},
                    Untorn(member[m].groups)', member'[m].gen = member'[m].applied
             PROVE  Filtered(m)'
  BY DEF IsTrue, Due
<1>1. member'[m].gen = member[m].gen /\ member[m].gen = member[m].applied
  BY GenerationStays
<1>2. PICK gs : gs = member[m].groups
  OBVIOUS
<1>3. /\ member'[m].groups = gs /\ gs \in SUBSET Group
      /\ \A g \in gs : ~sg'[g].torn => sg'[g] = sg[g]
  BY <1>1, <1>2, Numbers DEF Undisturbed, FirewallSound
<1>4. Untorn(gs)'
  BY <1>3 DEF Untorn
<1>5. Untorn(gs) /\ RulesOfGroups(gs)' = RulesOfGroups(gs)
  BY <1>3, <1>4, RulesKept
<1>6. Exists(m)
  BY DEF Undisturbed
<1>7. Filtered(m)
  BY <1>1, <1>2, <1>3, <1>5, <1>6 DEF FirewallSound, IsTrue, Due
<1>8. RulesOfGroups(member[m].groups)' = RulesOfGroups(member[m].groups)
  BY <1>2, <1>3, <1>5 DEF RulesOfGroups
<1>. QED  BY <1>7, <1>8 DEF Filtered, Undisturbed

LEMMA WriterKept ==
  ASSUME FirewallSound, TypeOKFirewall', writer' = writer,
         writer # NoWrite => Undisturbed(writer.inst)
  PROVE  WriterSound'
<1>1. CASE writer = NoWrite
  BY <1>1 DEF WriterSound
<1>2. CASE writer # NoWrite
  <2>1. PICK i, gs : i = writer.inst /\ gs = writer.groups
    OBVIOUS
  <2>2. /\ i \in Machine /\ writer.step # "idle" /\ Exists(i)
        /\ ListSound /\ FlagsSound /\ ReadSound
    BY <1>2, <2>1 DEF FirewallSound, WriterSound
  <2>3. Undisturbed(i) /\ Exists(i)' /\ fw'[i] = fw[i] /\ member'[i].applied = member[i].applied
    BY <1>2, <2>1 DEF Undisturbed, Exists
  <2>4. /\ member[i].gen \in Nat /\ member[i].applied \in Nat /\ member[i].applied <= member[i].gen
        /\ writer.gen \in Nat /\ gs \in SUBSET Group
    BY <2>1, <2>2, Numbers DEF FirewallSound, MemberSound
  <2>5. member'[i].gen \in Nat /\ member[i].gen <= member'[i].gen
    BY <2>2, <2>3, FirewallAssumption DEF TypeOKFirewall, Membership, Undisturbed
  <2>6. writer.step \notin {"make", "read"} /\ writer.gen = member'[i].gen => member'[i].gen = member[i].gen
    BY <2>1, <2>2, <2>4, <2>5 DEF ReadSound
  <2>7. member'[i].gen = member[i].gen =>
          /\ member'[i].groups = member[i].groups
          /\ \A g \in member[i].groups : ~sg'[g].torn => sg'[g] = sg[g]
    BY <2>3 DEF Undisturbed
  <2>8. ListSound' /\ FlagsSound'
    BY <2>1, <2>2, <2>3 DEF ListSound, FlagsSound
  <2>9. ASSUME writer.step \in Replacing \cup RulesThere, gs # {}, writer.gen = member'[i].gen,
               Untorn(gs)'
        PROVE  writer.desired = Rendered(RulesOfGroups(gs)')
    <3>1. member'[i].gen = member[i].gen
      BY <2>6, <2>9 DEF Replacing, RulesThere
    <3>2. gs = member[i].groups
      BY <2>1, <2>2, <2>9, <3>1 DEF ReadSound, Replacing, RulesThere
    <3>3. Untorn(gs) /\ RulesOfGroups(gs)' = RulesOfGroups(gs)
      BY <2>4, <2>7, <2>9, <3>1, <3>2, RulesKept
    <3>. QED  BY <2>1, <2>2, <2>9, <3>1, <3>3 DEF ReadSound
  <2>10. ASSUME writer.step \in Replacing, member'[i].gen = member'[i].applied,
                member'[i].groups # {}, Untorn(member[i].groups)'
         PROVE  FALSE
    <3>1. member'[i].gen = member[i].gen /\ member[i].gen = member[i].applied
      BY <2>2, <2>3, <2>10, GenerationStays
    <3>2. PICK hs : hs = member[i].groups
      OBVIOUS
    <3>3. hs = member'[i].groups /\ hs \in SUBSET Group
          /\ \A g \in hs : ~sg'[g].torn => sg'[g] = sg[g]
      BY <2>2, <2>7, <3>1, <3>2, Numbers DEF FirewallSound
    <3>4. Untorn(hs)'
      BY <2>10, <3>3 DEF Untorn
    <3>5. Untorn(hs)
      BY <3>3, <3>4, RulesKept
    <3>. QED  BY <2>1, <2>2, <2>10, <3>1, <3>2, <3>3, <3>5 DEF ReadSound
  <2>11. ReadSound'
    <3>1. /\ ~writer.launch => writer.step \notin {"make", "read", "boot"} /\ member'[i].applied < writer.gen
          /\ writer.step = "disable" => gs = {}
          /\ writer.step \in {"rules", "pin", "options", "nic"} => gs # {}
      BY <2>1, <2>2, <2>3 DEF ReadSound
    <3>2. writer.step \notin {"make", "read"} =>
            member'[i].applied <= writer.gen /\ writer.gen <= member'[i].gen
      BY <2>1, <2>2, <2>3, <2>4, <2>5 DEF ReadSound
    <3>3. writer.step \notin {"make", "read", "groups"} /\ writer.gen = member'[i].gen =>
            gs = member'[i].groups
      BY <2>1, <2>2, <2>6, <2>7 DEF ReadSound
    <3>4. writer.step \in Replacing \cup RulesThere =>
            /\ gs = {} => writer.desired = <<>>
            /\ gs # {} /\ writer.gen = member'[i].gen /\ Untorn(gs)' =>
                  writer.desired = Rendered(RulesOfGroups(gs)')
      BY <2>1, <2>2, <2>9 DEF ReadSound
    <3>5. writer.step \in Replacing =>
            ~(member'[i].gen = member'[i].applied /\ member'[i].groups # {} /\ Untorn(member[i].groups)')
      BY <2>10
    <3>7. Untorn(writer.groups)' = Untorn(gs)' /\ RulesOfGroups(writer.groups)' = RulesOfGroups(gs)'
      BY <2>1 DEF Untorn, RulesOfGroups
    <3>8. Rendered(RulesOfGroups(writer.groups))' = Rendered(RulesOfGroups(gs)')
      BY <3>7 DEF Rendered, Needed, Place
    <3>. QED  BY <2>1, <3>1, <3>2, <3>3, <3>4, <3>5, <3>7, <3>8 DEF ReadSound
  <2>. QED  BY <2>1, <2>2, <2>3, <2>8, <2>11 DEF WriterSound
<1>. QED  BY <1>1, <1>2

LEMMA StateStep ==
  ASSUME FirewallSound, TypeOKFirewall', TxsSound', writer' = writer,
         \A m \in Machine : MemberSound(m)',
         \A m \in Machine : \/ Undisturbed(m)
                            \/ /\ ~Exists(m)
                               /\ member'[m].gen # member'[m].applied
                                     \/ member'[m].state \in {"none", "terminated"}
  PROVE  FirewallSound'
<1>1. ASSUME NEW m \in Machine PROVE IsTrue(m)'
  <2>1. CASE Undisturbed(m)
    BY <2>1, TruthKept
  <2>2. CASE member'[m].gen # member'[m].applied \/ member'[m].state \in {"none", "terminated"}
    BY <2>2 DEF IsTrue, Due, Exists
  <2>. QED  BY <2>1, <2>2
<1>2. writer # NoWrite => Undisturbed(writer.inst)
  BY DEF FirewallSound, WriterSound
<1>. QED  BY <1>1, <1>2, WriterKept DEF FirewallSound

Groups == [Group -> [exists: BOOLEAN, rules: SUBSET Traffic, torn: BOOLEAN]]

LEMMA CommitStep ==
  ASSUME FirewallSound, NEW h \in Handler, tx' = [tx EXCEPT ![h] = NoTransaction],
         UNCHANGED <<writer, asked>>, sg' \in Groups, member' \in [Machine -> Membership],
         fw' \in [Machine -> Filter], \A k \in Handler \ {h} : Relies(k),
         \A m \in Machine : MemberSound(m)',
         \A m \in Machine : \/ Undisturbed(m)
                            \/ /\ ~Exists(m)
                               /\ member'[m].gen # member'[m].applied
                                     \/ member'[m].state \in {"none", "terminated"}
  PROVE  FirewallSound'
<1>1. tx \in [Handler -> Transaction]
  BY DEF FirewallSound, TypeOKFirewall
<1>2. tx' \in [Handler -> Transaction] /\ tx'[h] = NoTransaction /\ \A k \in Handler \ {h} : tx'[k] = tx[k]
  BY <1>1, Constants
<1>3. TypeOKFirewall'
  BY <1>2 DEF FirewallSound, TypeOKFirewall, Groups
<1>4. TxSound(h)'
  BY <1>2 DEF TxSound
<1>5. TxsSound'
  BY <1>2, <1>4, NothingHeld, TxsAfter
<1>. QED  BY <1>3, <1>5, StateStep

LEMMA Types ==
  ASSUME FirewallSound
  PROVE  /\ sg \in Groups /\ member \in [Machine -> Membership] /\ fw \in [Machine -> Filter]
         /\ tx \in [Handler -> Transaction]
         /\ \A m \in Machine : MemberSound(m)
         /\ \A g \in Group : /\ sg[g] \in [exists: BOOLEAN, rules: SUBSET Traffic, torn: BOOLEAN]
                             /\ sg[g].rules \in SUBSET Traffic
         /\ \A m \in Machine : /\ member[m].gen \in 0..MaxGeneration /\ member[m].gen \in Nat
                               /\ member[m].applied \in 0..MaxGeneration /\ member[m].applied \in Nat
                               /\ member[m].groups \in SUBSET Group /\ member[m] \in Membership
<1>. QED  BY FirewallAssumption DEF FirewallSound, TypeOKFirewall, Groups, Membership

\* A row's generation moves, and nothing else of it.
LEMMA BumpedRow ==
  ASSUME FirewallSound, NEW rows \in SUBSET Machine, member' = Bumped(rows),
         \A m \in rows : member[m].gen < MaxGeneration
  PROVE  /\ member' \in [Machine -> Membership]
         /\ \A m \in Machine :
              /\ member'[m].state = member[m].state /\ member'[m].groups = member[m].groups
              /\ member'[m].applied = member[m].applied
              /\ member'[m].gen = IF m \in rows THEN member[m].gen + 1 ELSE member[m].gen
<1>1. ASSUME NEW m \in Machine
      PROVE  /\ member'[m] \in Membership
             /\ member'[m].state = member[m].state /\ member'[m].groups = member[m].groups
             /\ member'[m].applied = member[m].applied
             /\ member'[m].gen = IF m \in rows THEN member[m].gen + 1 ELSE member[m].gen
  <2>1. member[m] \in Membership /\ member[m].gen \in 0..MaxGeneration /\ MaxGeneration \in Nat
    BY Types, FirewallAssumption
  <2>2. CASE m \in rows
    <3>1. member[m].gen + 1 \in 0..MaxGeneration
      BY <2>1, <2>2
    <3>2. member'[m] = [member[m] EXCEPT !.gen = @ + 1]
      BY <2>2 DEF Bumped
    <3>. QED  BY <2>1, <2>2, <3>1, <3>2 DEF Membership
  <2>3. CASE m \notin rows
    <3>1. member'[m] = member[m]
      BY <2>3 DEF Bumped
    <3>. QED  BY <2>1, <2>3, <3>1
  <2>. QED  BY <2>2, <2>3
<1>2. member' = [m \in Machine |-> member'[m]]
  BY DEF Bumped
<1>. QED  BY <1>1, <1>2

LEMMA CommitsRulesSound ==
  ASSUME FirewallSound, NEW h \in Handler, CommitsRules(h), Commits(h)
  PROVE  FirewallSound'
<1>1. ChangeSound(h) /\ tx[h] \in Transaction /\ tx[h].step = "bump" /\ tx[h].todo = {}
  BY KindByStep DEF CommitsRules
<1>2. PICK g \in Group : /\ tx[h].groups = {g} /\ tx[h].locked = {g}
                         /\ MembersOf(g) \subseteq tx[h].rows
  BY <1>1 DEF ChangeSound
<1>3. tx[h].rows \in SUBSET Machine /\ tx[h].rule \in Traffic
  BY <1>1 DEF Transaction
<1>4. /\ member' \in [Machine -> Membership]
      /\ \A m \in Machine :
              /\ member'[m].state = member[m].state /\ member'[m].groups = member[m].groups
              /\ member'[m].applied = member[m].applied
              /\ member'[m].gen = IF m \in tx[h].rows THEN member[m].gen + 1 ELSE member[m].gen
  BY <1>3, BumpedRow DEF CommitsRules
<1>5. /\ sg' = [sg EXCEPT ![g].rules = RulesAfter(tx[h], @)]
      /\ fw' = fw
  <2>1. sg = [q \in Group |-> sg[q]]
    BY Types DEF Groups
  <2>. QED  BY <1>2, <2>1 DEF CommitsRules
<1>6. /\ sg' \in Groups
      /\ \A q \in Group : sg'[q].exists = sg[q].exists /\ (q # g => sg'[q] = sg[q])
  <2>1. RulesAfter(tx[h], sg[g].rules) \in SUBSET Traffic
    BY <1>3, Types DEF RulesAfter
  <2>. QED  BY <1>5, <2>1, Types DEF Groups
<1>7. ASSUME NEW k \in Handler \ {h} PROVE Relies(k)
  <2>1. tx[k] \in Transaction /\ TxSound(k)
    BY DEF FirewallSound, TxsSound, TypeOKFirewall
  <2>2. \A q : MembersOf(q)' = MembersOf(q)
    BY <1>4 DEF MembersOf
  <2>3. tx[k].shared \subseteq Group /\ tx[k].groups \subseteq Group /\ Default \in Group
    BY <2>1, FirewallAssumption DEF Transaction
  <2>4. tx[k].made => ~sg[Default].exists
    BY <2>1, NothingHeld DEF TxSound, ChangeSound, MembershipSound, CreationSound, DescribeSound
  <2>5. tx[k].kind = "create" => CreationSound(k)
    BY KindByStep
  <2>6. tx[k].kind \in {"run", "adopt"} => MembershipSound(k)
    BY KindByStep
  <2>. QED  BY <1>4, <1>6, <2>2, <2>3, <2>4, <2>5, <2>6 DEF Relies, CreationSound, MembershipSound
<1>8. ASSUME NEW m \in Machine PROVE MemberSound(m)'
  <2>1. MemberSound(m) /\ member[m].groups \subseteq Group /\ member[m].gen \in Nat /\ member[m].applied \in Nat
    BY Types
  <2>2. member'[m].applied <= member'[m].gen
    BY <1>4, <2>1 DEF MemberSound
  <2>. QED  BY <1>4, <1>5, <1>6, <2>1, <2>2 DEF MemberSound, Exists
<1>9. ASSUME NEW m \in Machine, Exists(m) PROVE Undisturbed(m)
  <2>1. member[m].gen \in Nat /\ member[m].groups \subseteq Group
    BY Types
  <2>2. g \in member[m].groups => m \in tx[h].rows
    BY <1>2, <1>9 DEF MembersOf, Exists
  <2>3. member[m].gen <= member'[m].gen /\ (member'[m].gen = member[m].gen => m \notin tx[h].rows)
    BY <1>4, <2>1
  <2>. QED  BY <1>4, <1>5, <1>6, <1>9, <2>1, <2>2, <2>3 DEF Undisturbed
<1>10. \A m \in Machine : ~Exists(m) => member'[m].state \in {"none", "terminated"}
  BY <1>4 DEF Exists
<1>. QED  BY <1>4, <1>5, <1>6, <1>7, <1>8, <1>9, <1>10, Types, CommitStep DEF Commits

\* New groups change nothing for those there are.
GroupsGrow == \A g \in Group : sg[g].exists => sg'[g] = sg[g]

LEMMA WithDefaultGrows ==
  ASSUME FirewallSound, NEW made \in BOOLEAN, made => ~sg[Default].exists
  PROVE  /\ WithDefault(made) \in Groups
         /\ \A g \in Group : sg[g].exists => WithDefault(made)[g] = sg[g]
         /\ \A g \in Group : sg[g].exists \/ (g = Default /\ made) => WithDefault(made)[g].exists
         /\ \A g \in Group : g # Default => WithDefault(made)[g] = sg[g]
<1>1. sg \in Groups
  BY Types
<1>2. NewGroup({Egress, Ingress}) \in [exists: BOOLEAN, rules: SUBSET Traffic, torn: BOOLEAN]
      /\ NewGroup({Egress, Ingress}).exists
  BY Constants DEF NewGroup
<1>. QED  BY <1>1, <1>2 DEF WithDefault, Groups

LEMMA UntouchedStay ==
  ASSUME FirewallSound, GroupsGrow, NEW m \in Machine, member'[m] = member[m], fw'[m] = fw[m]
  PROVE  MemberSound(m)' /\ (Exists(m) => Undisturbed(m))
<1>1. /\ MemberSound(m) /\ member[m].groups \in SUBSET Group /\ member[m].gen \in Nat
  BY Types
<1>. QED  BY <1>1 DEF MemberSound, Exists, Undisturbed, GroupsGrow

\* Launches, adoptions and new groups are one at a time.
LEMMA SerialRelies ==
  ASSUME FirewallSound, NEW h \in Handler, tx[h].kind \in Serialised, GroupsGrow,
         NEW k \in Handler \ {h}, \A g \in tx[k].locked : MembersOf(g)' \subseteq MembersOf(g)
  PROVE  Relies(k)
<1>1. tx[k].kind \notin Serialised /\ TxSound(k) /\ tx[k] \in Transaction
  BY OthersApart DEF LocksApart, FirewallSound, TxsSound, TypeOKFirewall
<1>2. ~tx[k].made
  BY <1>1, NothingHeld DEF TxSound, ChangeSound, MembershipSound, CreationSound, DescribeSound, Serialised
<1>3. tx[k].shared \subseteq Group
  BY <1>1 DEF Transaction
<1>. QED  BY <1>1, <1>2, <1>3 DEF Relies, GroupsGrow, Serialised

LEMMA CommitsGroupSound ==
  ASSUME FirewallSound, NEW h \in Handler, CommitsGroup(h), Commits(h)
  PROVE  FirewallSound'
<1>1. CreationSound(h) /\ tx[h] \in Transaction /\ tx[h].step = "commit"
  BY KindByStep DEF CommitsGroup
<1>2. PICK q \in Group \ {Default} : tx[h].groups = {q} /\ ~sg[q].exists
  BY <1>1 DEF CreationSound
<1>3. tx[h].made \in BOOLEAN /\ (tx[h].made => ~sg[Default].exists)
  BY <1>1 DEF CreationSound, Transaction
<1>4. GroupsGrow /\ sg' \in Groups
  <2>1. NewGroup({Egress}) \in [exists: BOOLEAN, rules: SUBSET Traffic, torn: BOOLEAN]
    BY Constants DEF NewGroup
  <2>2. WithDefault(tx[h].made) \in Groups
        /\ \A g \in Group : sg[g].exists => WithDefault(tx[h].made)[g] = sg[g]
    BY <1>3, WithDefaultGrows
  <2>3. sg' = [g \in Group |-> IF g = q THEN NewGroup({Egress}) ELSE WithDefault(tx[h].made)[g]]
    BY <1>2 DEF CommitsGroup
  <2>. QED  BY <1>2, <2>1, <2>2, <2>3 DEF GroupsGrow, Groups
<1>5. UNCHANGED <<member, fw>> /\ \A g : MembersOf(g)' = MembersOf(g)
  BY DEF CommitsGroup, MembersOf
<1>6. \A k \in Handler \ {h} : Relies(k)
  BY <1>4, <1>5, SerialRelies DEF Serialised, CommitsGroup
<1>7. \A m \in Machine : MemberSound(m)' /\ (Exists(m) => Undisturbed(m))
  BY <1>4, <1>5, UntouchedStay
<1>8. \A m \in Machine : ~Exists(m) => member'[m].state \in {"none", "terminated"}
  BY <1>5 DEF Exists
<1>. QED  BY <1>4, <1>5, <1>6, <1>7, <1>8, Types, CommitStep DEF Commits

LEMMA CommitsLaunchSound ==
  ASSUME FirewallSound, NEW h \in Handler, CommitsLaunch(h) \/ CommitsAdoption(h), Commits(h)
  PROVE  FirewallSound'
<1>1. MembershipSound(h) /\ tx[h] \in Transaction /\ tx[h].step = "commit"
      /\ tx[h].kind \in {"run", "adopt"}
  BY KindByStep DEF CommitsLaunch, CommitsAdoption
<1>2. PICK i \in Machine : i = tx[h].on
  BY <1>1 DEF MembershipSound
<1>3. /\ tx[h].made \in BOOLEAN /\ (tx[h].made => ~sg[Default].exists)
      /\ member[i].state = "none" /\ tx[h].shared = tx[h].groups /\ tx[h].groups \subseteq Group
      /\ \A g \in tx[h].groups : sg[g].exists \/ (g = Default /\ tx[h].made)
  BY <1>1, <1>2 DEF MembershipSound, Transaction
<1>4. sg' = WithDefault(tx[h].made)
  BY DEF CommitsLaunch, CommitsAdoption
<1>5. GroupsGrow /\ sg' \in Groups /\ \A g \in tx[h].groups : sg'[g].exists
  BY <1>3, <1>4, WithDefaultGrows DEF GroupsGrow
<1>6. PICK row, f :
        /\ member' = [member EXCEPT ![i] = row] /\ row \in Membership
        /\ row.groups = tx[h].groups /\ row.gen = 1 /\ row.applied = 0
        /\ fw' = [fw EXCEPT ![i] = f] /\ f \in Filter /\ (~f.made => ~f.enabled)
  <2>1. CASE CommitsLaunch(h)
    <3>. DEFINE row == [Absent EXCEPT !.state = "launch", !.groups = tx[h].groups, !.gen = 1]
    <3>1. member' = [member EXCEPT ![i] = row] /\ row \in Membership
          /\ row.groups = tx[h].groups /\ row.gen = 1 /\ row.applied = 0
      BY <1>2, <1>3, <2>1, Constants DEF CommitsLaunch, Absent, Membership
    <3>2. fw' = [fw EXCEPT ![i] = fw[i]] /\ fw[i] \in Filter /\ (~fw[i].made => ~fw[i].enabled)
      BY <2>1, Types DEF CommitsLaunch, MemberSound
    <3>. HIDE DEF row
    <3>. QED  BY <3>1, <3>2
  <2>2. CASE CommitsAdoption(h)
    <3>1. PICK known \in BOOLEAN, nic \in BOOLEAN, on \in BOOLEAN,
               rules \in {<<>>, << <<0, Ingress>> >>} :
          /\ member' = [member EXCEPT ![i] =
                          [Absent EXCEPT !.state = "live", !.groups = tx[h].groups,
                                         !.gen = 1, !.address = known]]
          /\ fw' = [fw EXCEPT ![i] =
                      [NoFilter EXCEPT !.made = TRUE, !.rules = rules, !.nic = nic, !.on = on]]
      BY <1>2, <2>2 DEF CommitsAdoption
    <3>. DEFINE row == [Absent EXCEPT !.state = "live", !.groups = tx[h].groups,
                                      !.gen = 1, !.address = known]
                f == [NoFilter EXCEPT !.made = TRUE, !.rules = rules, !.nic = nic, !.on = on]
    <3>2. row \in Membership /\ row.groups = tx[h].groups /\ row.gen = 1 /\ row.applied = 0
      BY <1>3, Constants DEF Absent, Membership
    <3>3. rules \in Seq(Rule)
      <4>1. PICK r \in Rule : r = <<0, Ingress>>
        BY Constants DEF Rule
      <4>2. <<>> \in Seq(Rule) /\ <<r>> \in Seq(Rule)
        OBVIOUS
      <4>. QED  BY <3>1, <4>1, <4>2
    <3>4. f \in Filter /\ f.made
      BY <3>3 DEF NoFilter, Filter
    <3>. HIDE DEF row, f
    <3>. QED  BY <3>1, <3>2, <3>4 DEF row, f
  <2>. QED  BY <2>1, <2>2
<1>7. /\ member' \in [Machine -> Membership] /\ fw' \in [Machine -> Filter]
      /\ member'[i] = row /\ fw'[i] = f
      /\ \A m \in Machine \ {i} : member'[m] = member[m] /\ fw'[m] = fw[m]
  BY <1>6, Types
<1>8. ASSUME NEW k \in Handler \ {h} PROVE Relies(k)
  <2>1. tx[k].locked \cap tx[h].groups = {}
    BY <1>3, OthersApart DEF LocksApart
  <2>2. ASSUME NEW g \in tx[k].locked PROVE MembersOf(g)' \subseteq MembersOf(g)
    BY <1>6, <1>7, <2>1 DEF MembersOf
  <2>. QED  BY <1>1, <1>5, <2>2, SerialRelies DEF Serialised
<1>9. \A m \in Machine \ {i} : MemberSound(m)' /\ (Exists(m) => Undisturbed(m))
  BY <1>5, <1>7, UntouchedStay
<1>10. MemberSound(i)'
  BY <1>5, <1>6, <1>7 DEF MemberSound
<1>11. ~Exists(i) /\ member'[i].gen # member'[i].applied
  BY <1>3, <1>6, <1>7 DEF Exists
<1>12. \A m \in Machine \ {i} : ~Exists(m) => member'[m].state \in {"none", "terminated"}
  BY <1>7 DEF Exists
<1>13. \A m \in Machine : MemberSound(m)'
  BY <1>9, <1>10
<1>14. \A m \in Machine : \/ Undisturbed(m)
                          \/ /\ ~Exists(m)
                             /\ member'[m].gen # member'[m].applied
                                   \/ member'[m].state \in {"none", "terminated"}
  BY <1>9, <1>11, <1>12
<1>. QED  BY <1>5, <1>7, <1>8, <1>13, <1>14, CommitStep DEF Commits

LEMMA CommitsMembershipSound ==
  ASSUME FirewallSound, NEW h \in Handler, CommitsMembership(h), Commits(h)
  PROVE  FirewallSound'
<1>1. MembershipSound(h) /\ tx[h] \in Transaction /\ tx[h].step = "commit" /\ tx[h].kind = "set"
  BY KindByStep DEF CommitsMembership
<1>2. PICK i \in Machine : i = tx[h].on
  BY <1>1 DEF MembershipSound
<1>3. /\ tx[h].shared = tx[h].groups /\ tx[h].groups \subseteq Group
      /\ \A g \in tx[h].groups : sg[g].exists
  BY <1>1, <1>2 DEF MembershipSound, Transaction
<1>4. UNCHANGED <<sg, fw>> /\ GroupsGrow
  BY DEF CommitsMembership, GroupsGrow
<1>5. /\ member' \in [Machine -> Membership]
      /\ member'[i].groups = tx[h].groups /\ member'[i].gen = member[i].gen + 1
      /\ member'[i].applied = member[i].applied /\ member'[i].state = member[i].state
      /\ \A m \in Machine \ {i} : member'[m] = member[m]
  <2>1. member[i].gen + 1 \in 0..MaxGeneration
    BY <1>2, Types, FirewallAssumption DEF CommitsMembership
  <2>2. member' = [member EXCEPT ![i] = [member[i] EXCEPT !.groups = tx[h].groups, !.gen = @ + 1]]
    BY <1>2, Types DEF CommitsMembership, Membership
  <2>3. [member[i] EXCEPT !.groups = tx[h].groups, !.gen = @ + 1] \in Membership
    BY <1>3, <2>1, Types DEF Membership
  <2>. QED  BY <2>2, <2>3, Types DEF Membership
<1>6. ASSUME NEW k \in Handler \ {h} PROVE Relies(k)
  <2>1. tx[k].locked \cap tx[h].groups = {}
    BY <1>3, OthersApart DEF LocksApart
  <2>2. ASSUME NEW g \in tx[k].locked PROVE MembersOf(g)' \subseteq MembersOf(g)
    BY <1>5, <2>1 DEF MembersOf
  <2>3. \A m \in Machine : member'[m].state = member[m].state
    BY <1>5
  <2>4. TxSound(k) /\ tx[k] \in Transaction
    BY DEF FirewallSound, TxsSound, TypeOKFirewall
  <2>5. tx[k].made => ~sg[Default].exists
    BY <2>4, NothingHeld DEF TxSound, ChangeSound, MembershipSound, CreationSound, DescribeSound
  <2>6. tx[k].kind = "create" => CreationSound(k)
    BY KindByStep
  <2>7. tx[k].kind \in {"run", "adopt"} => MembershipSound(k)
    BY KindByStep
  <2>. QED  BY <1>4, <2>2, <2>3, <2>5, <2>6, <2>7 DEF Relies, CreationSound, MembershipSound
<1>7. \A m \in Machine \ {i} : MemberSound(m)' /\ (Exists(m) => Undisturbed(m))
  BY <1>4, <1>5, UntouchedStay
<1>8. MemberSound(i) /\ member[i].gen \in Nat /\ member[i].applied \in Nat
  BY Types
<1>9. MemberSound(i)'
  BY <1>3, <1>4, <1>5, <1>8 DEF MemberSound
<1>10. Exists(i) => Undisturbed(i)
  BY <1>4, <1>5, <1>8 DEF Undisturbed
<1>11. \A m \in Machine : ~Exists(m) => member'[m].state \in {"none", "terminated"}
  BY <1>5 DEF Exists
<1>12. \A m \in Machine : MemberSound(m)' /\ (Exists(m) => Undisturbed(m))
  BY <1>7, <1>9, <1>10
<1>. QED  BY <1>4, <1>5, <1>6, <1>11, <1>12, Types, CommitStep DEF Commits

LEMMA CommitsDeletionSound ==
  ASSUME FirewallSound, NEW h \in Handler, CommitsDeletion(h), Commits(h)
  PROVE  FirewallSound'
<1>1. ChangeSound(h) /\ tx[h] \in Transaction /\ tx[h].step = "bump" /\ tx[h].kind = "delete"
  BY KindByStep DEF CommitsDeletion
<1>2. PICK q \in Group : /\ tx[h].groups = {q} /\ tx[h].locked = {q}
                         /\ q # Default /\ MembersOf(q) = {}
  BY <1>1 DEF ChangeSound
<1>3. /\ sg' \in Groups /\ fw' = fw /\ ~sg'[q].exists
      /\ \A g \in Group \ {q} : sg'[g] = sg[g]
  <2>1. NoGroup \in [exists: BOOLEAN, rules: SUBSET Traffic, torn: BOOLEAN] /\ ~NoGroup.exists
    BY DEF NoGroup
  <2>2. sg' = [g \in Group |-> IF g = q THEN NoGroup ELSE sg[g]]
    BY <1>2 DEF CommitsDeletion
  <2>. QED  BY <2>1, <2>2, Types DEF Groups, CommitsDeletion
<1>4. ASSUME NEW m \in Machine
      PROVE  /\ member'[m] \in Membership /\ member'[m].state = member[m].state
             /\ member'[m].gen = member[m].gen /\ member'[m].applied = member[m].applied
             /\ member'[m].groups \subseteq member[m].groups
             /\ Exists(m) => member'[m] = member[m] /\ q \notin member[m].groups
  <2>1. member[m] \in Membership /\ member[m].groups \subseteq Group
    BY Types
  <2>2. CASE member[m].state = "terminated"
    <3>1. member'[m] = [member[m] EXCEPT !.groups = @ \ {q}]
      BY <1>2, <2>2 DEF CommitsDeletion
    <3>. QED  BY <2>1, <2>2, <3>1 DEF Membership, Exists
  <2>3. CASE member[m].state # "terminated"
    <3>1. member'[m] = member[m]
      BY <2>3 DEF CommitsDeletion
    <3>. QED  BY <1>2, <2>1, <2>3, <3>1 DEF MembersOf
  <2>. QED  BY <2>2, <2>3
<1>5. member' \in [Machine -> Membership]
  <2>1. member' = [m \in Machine |-> member'[m]]
    BY DEF CommitsDeletion
  <2>. QED  BY <1>4, <2>1
<1>6. ASSUME NEW k \in Handler \ {h} PROVE Relies(k)
  <2>1. q \notin tx[k].shared
    BY <1>2, OthersApart DEF LocksApart
  <2>2. \A g : MembersOf(g)' \subseteq MembersOf(g)
    BY <1>4 DEF MembersOf
  <2>3. \A m \in Machine : member'[m].state = member[m].state
    BY <1>4
  <2>4. TxSound(k) /\ tx[k] \in Transaction
    BY DEF FirewallSound, TxsSound, TypeOKFirewall
  <2>5. tx[k].made => ~sg'[Default].exists
    BY <1>2, <1>3, <2>4, NothingHeld, Constants
    DEF TxSound, ChangeSound, MembershipSound, CreationSound, DescribeSound
  <2>6. tx[k].kind = "create" /\ tx[k].step = "commit" => \A g \in tx[k].groups : ~sg'[g].exists
    BY <1>3, KindByStep DEF CreationSound
  <2>7. tx[k].kind \in {"run", "adopt"} => member'[tx[k].on].state = "none"
    BY <2>3, KindByStep DEF MembershipSound
  <2>8. \A g \in tx[k].shared : sg[g].exists => sg'[g].exists
    BY <1>3, <2>1, <2>4 DEF Transaction
  <2>. QED  BY <2>2, <2>5, <2>6, <2>7, <2>8 DEF Relies
<1>7. ASSUME NEW m \in Machine PROVE MemberSound(m)' /\ (Exists(m) => Undisturbed(m))
  <2>1. MemberSound(m) /\ member[m].groups \subseteq Group /\ member[m].gen \in Nat
    BY Types
  <2>2. MemberSound(m)'
    <3>1. Exists(m) => \A g \in member[m].groups : sg'[g].exists
      BY <1>3, <1>4, <2>1 DEF MemberSound
    <3>2. member'[m].applied <= member'[m].gen /\ (~fw'[m].made => ~fw'[m].enabled)
      BY <1>3, <1>4, <2>1 DEF MemberSound
    <3>3. Exists(m)' => Exists(m) /\ member'[m] = member[m]
      BY <1>4 DEF Exists
    <3>. QED  BY <3>1, <3>2, <3>3 DEF MemberSound
  <2>3. Exists(m) => Undisturbed(m)
    BY <1>3, <1>4, <2>1 DEF Undisturbed
  <2>. QED  BY <2>2, <2>3
<1>8. \A m \in Machine : ~Exists(m) => member'[m].state \in {"none", "terminated"}
  BY <1>4 DEF Exists
<1>. QED  BY <1>3, <1>5, <1>6, <1>7, <1>8, Types, CommitStep DEF Commits

LEMMA CommitsSound ==
  ASSUME FirewallSound, NEW h \in Handler, Commits(h)
  PROVE  FirewallSound'
<1>. QED  BY CommitsRulesSound, CommitsGroupSound, CommitsDeletionSound, CommitsMembershipSound,
             CommitsLaunchSound DEF Commits

\* The default group may be made outside a transaction, and one rule at a time.
LEMMA MakesDefaultSound ==
  ASSUME FirewallSound, NEW h \in Handler, MakesDefault(h)
  PROVE  FirewallSound'
<1>1. DescribeSound(h) /\ tx[h] \in Transaction
  BY KindByStep DEF MakesDefault
<1>2. CASE sg[Default].exists
  <2>1. tx' = [tx EXCEPT ![h] = NoTransaction] /\ UNCHANGED <<sg, member, fw, writer>>
        /\ asked' \in 0..MaxRequests
    BY <1>2 DEF MakesDefault, FirewallSound, TypeOKFirewall
  <2>2. TxSound(h)'
    BY <2>1, Types DEF TxSound
  <2>. QED  BY <2>1, <2>2, Constants, NothingHeld, LocksStep DEF Serialised
<1>3. CASE ~sg[Default].exists
  <2>1. tx' = [tx EXCEPT ![h].step = "rules"] /\ sg' = [sg EXCEPT ![Default] = NewGroup({})]
        /\ UNCHANGED <<member, fw, writer, asked>>
    BY <1>3 DEF MakesDefault
  <2>2. sg' \in Groups /\ GroupsGrow /\ \A g \in Group \ {Default} : sg'[g] = sg[g]
    <3>1. NewGroup({}) \in [exists: BOOLEAN, rules: SUBSET Traffic, torn: BOOLEAN]
      BY DEF NewGroup
    <3>. QED  BY <1>3, <2>1, <3>1, Types DEF Groups, GroupsGrow
  <2>3. /\ tx' \in [Handler -> Transaction] /\ \A k \in Handler \ {h} : tx'[k] = tx[k]
        /\ tx'[h] = [tx[h] EXCEPT !.step = "rules"]
    <3>1. [tx[h] EXCEPT !.step = "rules"] \in Transaction
      BY <1>1 DEF Transaction
    <3>2. tx' = [tx EXCEPT ![h] = [tx[h] EXCEPT !.step = "rules"]]
      BY <2>1, Types
    <3>. QED  BY <3>1, <3>2, Types
  <2>4. /\ tx'[h].locked = tx[h].locked /\ tx'[h].shared = tx[h].shared /\ tx'[h].rows = tx[h].rows
        /\ tx'[h].todo = tx[h].todo /\ tx'[h].made = tx[h].made /\ tx'[h].kind = tx[h].kind
        /\ tx'[h].groups = tx[h].groups /\ tx'[h].step = "rules"
    BY <1>1, <2>3 DEF Transaction
  <2>5. DescribeSound(h)'
    BY <1>1, <2>4 DEF DescribeSound, HoldsNothing
  <2>6. ASSUME NEW k \in Handler \ {h} PROVE Relies(k)
    <3>1. TxSound(k) /\ tx[k] \in Transaction /\ ~tx[k].made
      BY Types DEF FirewallSound, TxsSound, MakesDefault
    <3>2. \A g : MembersOf(g)' = MembersOf(g)
      BY <2>1 DEF MembersOf
    <3>3. \A g \in tx[k].shared : sg[g].exists => sg'[g].exists
      BY <2>2, <3>1 DEF Transaction, GroupsGrow
    <3>4. tx[k].kind = "create" /\ tx[k].step = "commit" => \A g \in tx[k].groups : ~sg'[g].exists
      BY <2>2, KindByStep DEF CreationSound
    <3>5. tx[k].kind \in {"run", "adopt"} => member'[tx[k].on].state = "none"
      BY <2>1, KindByStep DEF MembershipSound
    <3>. QED  BY <3>1, <3>2, <3>3, <3>4, <3>5 DEF Relies
  <2>7. TxSound(h)'
    BY <2>5 DEF TxSound
  <2>8. TxsSound'
    BY <2>3, <2>4, <2>6, <2>7, TxsAfter
  <2>9. TypeOKFirewall'
    BY <2>1, <2>2, <2>3 DEF FirewallSound, TypeOKFirewall, Groups
  <2>10. \A m \in Machine : MemberSound(m)' /\ (Exists(m) => Undisturbed(m))
    BY <2>1, <2>2, UntouchedStay
  <2>11. \A m \in Machine : ~Exists(m) => member'[m].state \in {"none", "terminated"}
    BY <2>1 DEF Exists
  <2>. QED  BY <2>1, <2>8, <2>9, <2>10, <2>11, StateStep
<1>. QED  BY <1>2, <1>3

LEMMA MakesDefaultRuleSound ==
  ASSUME FirewallSound, NEW h \in Handler, MakesDefaultRule(h)
  PROVE  FirewallSound'
<1>1. DescribeSound(h) /\ tx[h] \in Transaction /\ tx[h].rule \in Traffic
  <2>1. TxSound(h) /\ tx[h] \in Transaction /\ tx[h].step = "rules"
    BY Types DEF MakesDefaultRule, FirewallSound, TxsSound
  <2>. QED  BY <2>1, NothingHeld
       DEF TxSound, ChangeSound, MembershipSound, CreationSound, DescribeSound, Transaction
<1>2. UNCHANGED <<member, fw, writer, asked>>
  BY DEF MakesDefaultRule
<1>3. PICK torn \in BOOLEAN : /\ torn = (sg[Default].torn \/ MembersOf(Default) # {}
                                           \/ \E k \in Handler : Default \in tx[k].shared)
                              /\ sg' = [sg EXCEPT ![Default].rules = @ \cup {tx[h].rule},
                                                  ![Default].torn = torn]
  BY Types DEF MakesDefaultRule, Groups
<1>4. /\ sg' \in Groups /\ \A g \in Group \ {Default} : sg'[g] = sg[g]
      /\ \A g \in Group : sg'[g].exists = sg[g].exists
      /\ sg'[Default].torn = torn
  <2>1. sg[Default].rules \cup {tx[h].rule} \in SUBSET Traffic
    BY <1>1, Types, Constants
  <2>2. PICK row : row = [sg[Default] EXCEPT !.rules = @ \cup {tx[h].rule}, !.torn = torn]
    OBVIOUS
  <2>3. row \in [exists: BOOLEAN, rules: SUBSET Traffic, torn: BOOLEAN]
        /\ row.exists = sg[Default].exists /\ row.torn = torn
    BY <1>3, <2>1, <2>2, Types, Constants
  <2>4. sg' = [sg EXCEPT ![Default] = row]
    BY <1>3, <2>2, Types, Constants DEF Groups
  <2>. QED  BY <2>3, <2>4, Types, Constants DEF Groups
<1>5. PICK t : /\ tx' = [tx EXCEPT ![h] = t]
               /\ t = IF tx[h].rule = Ingress THEN [tx[h] EXCEPT !.rule = Egress] ELSE NoTransaction
  BY Types DEF MakesDefaultRule
<1>6. t \in Transaction
  BY <1>1, <1>5, Constants DEF Transaction
<1>7. /\ tx' \in [Handler -> Transaction] /\ tx'[h] = t
      /\ \A k \in Handler \ {h} : tx'[k] = tx[k]
  BY <1>5, <1>6, Types
<1>8. /\ t = NoTransaction \/ (t.step = tx[h].step /\ t.groups = {} /\ t.kind = "describe")
      /\ t.locked = {} /\ t.shared = {} /\ t.rows = {} /\ t.todo = {} /\ ~t.made
      /\ t.kind \in {"none", "describe"}
  BY <1>1, <1>5, NothingHeld DEF Transaction, DescribeSound, HoldsNothing
<1>9. TxSound(h)'
  BY <1>1, <1>7, <1>8 DEF TxSound, DescribeSound, HoldsNothing
<1>10. ASSUME NEW k \in Handler \ {h} PROVE Relies(k)
  <2>1. TxSound(k) /\ tx[k] \in Transaction
    BY Types DEF FirewallSound, TxsSound
  <2>2. \A g : MembersOf(g)' = MembersOf(g)
    BY <1>2 DEF MembersOf
  <2>3. tx[k].made => ~sg'[Default].exists
    BY <1>4, <2>1, NothingHeld, Constants
    DEF TxSound, ChangeSound, MembershipSound, CreationSound, DescribeSound
  <2>4. tx[k].kind = "create" /\ tx[k].step = "commit" => \A g \in tx[k].groups : ~sg'[g].exists
    BY <1>4, KindByStep DEF CreationSound
  <2>5. tx[k].kind \in {"run", "adopt"} => member'[tx[k].on].state = "none"
    BY <1>2, KindByStep DEF MembershipSound
  <2>6. \A g \in tx[k].shared : sg[g].exists => sg'[g].exists
    BY <1>4, <2>1 DEF Transaction
  <2>. QED  BY <2>2, <2>3, <2>4, <2>5, <2>6 DEF Relies
<1>11. TxsSound'
  <2>1. tx'[h].locked \subseteq tx[h].locked /\ tx'[h].shared \subseteq tx[h].shared
        /\ tx'[h].kind \in {tx[h].kind, "none"}
    BY <1>1, <1>7, <1>8 DEF DescribeSound
  <2>. QED  BY <1>7, <1>9, <1>10, <2>1, TxsAfter
<1>12. TypeOKFirewall'
  BY <1>2, <1>4, <1>7 DEF FirewallSound, TypeOKFirewall, Groups
<1>13. ASSUME NEW m \in Machine PROVE MemberSound(m)' /\ (Exists(m) => Undisturbed(m))
  <2>1. MemberSound(m) /\ member[m].groups \subseteq Group /\ member[m].gen \in Nat
    BY Types
  <2>2. MemberSound(m)'
    BY <1>2, <1>4, <2>1 DEF MemberSound, Exists
  <2>3. Exists(m) /\ Default \in member[m].groups => sg'[Default].torn
    BY <1>3, <1>4 DEF MembersOf, Exists
  <2>4. Exists(m) => Undisturbed(m)
    BY <1>2, <1>4, <2>1, <2>3 DEF Undisturbed
  <2>. QED  BY <2>2, <2>4
<1>14. \A m \in Machine : ~Exists(m) => member'[m].state \in {"none", "terminated"}
  BY <1>2 DEF Exists
<1>. QED  BY <1>2, <1>11, <1>12, <1>13, <1>14, StateStep

LEMMA ProceedsSound ==
  ASSUME FirewallSound, NEW h \in Handler, Proceeds(h)
  PROVE  FirewallSound'
<1>. QED  BY LocksGroupSound, EnsuresDefaultSound, InsertsMembershipSound, ChecksGroupSound,
             BumpsRowSound, CommitsSound, MakesDefaultSound, MakesDefaultRuleSound DEF Proceeds

LEMMA RestartsSound ==
  ASSUME FirewallSound, RestartsApi
  PROVE  FirewallSound'
<1>1. PICK rows \in SUBSET Machine :
        /\ rows = {m \in Machine : member[m].state \notin {"none", "terminated"}
                                    /\ member[m].groups # {}}
        /\ \A m \in rows : member[m].gen < MaxGeneration
        /\ member' = Bumped(rows)
  BY DEF RestartsApi
<1>2. /\ writer' = NoWrite /\ UNCHANGED <<sg, fw, asked>>
      /\ tx' = [h \in Handler |-> NoTransaction]
  BY DEF RestartsApi
<1>3. /\ member' \in [Machine -> Membership]
      /\ \A m \in Machine :
           /\ member'[m].state = member[m].state /\ member'[m].groups = member[m].groups
           /\ member'[m].applied = member[m].applied
           /\ member'[m].gen = IF m \in rows THEN member[m].gen + 1 ELSE member[m].gen
  BY <1>1, BumpedRow
<1>4. TypeOKFirewall'
  BY <1>2, <1>3, Constants DEF FirewallSound, TypeOKFirewall
<1>5. TxsSound' /\ WriterSound'
  BY <1>2, NothingHeld DEF TxsSound, TxSound, LocksApart, WriterSound, Serialised
<1>6. ASSUME NEW m \in Machine PROVE MemberSound(m)' /\ IsTrue(m)'
  <2>1. MemberSound(m) /\ member[m].gen \in Nat /\ member[m].applied \in Nat
    BY Types
  <2>2. MemberSound(m)'
    <3>1. member'[m].applied <= member'[m].gen
      BY <1>3, <2>1 DEF MemberSound
    <3>. QED  BY <1>2, <1>3, <2>1, <3>1 DEF MemberSound, Exists
  <2>3. CASE Exists(m)
    <3>1. Undisturbed(m)
      BY <1>2, <1>3, <2>1, <2>3 DEF Undisturbed
    <3>. QED  BY <1>4, <2>2, <3>1, TruthKept
  <2>4. CASE ~Exists(m)
    BY <1>3, <2>2, <2>4 DEF Exists, IsTrue, Due
  <2>. QED  BY <2>2, <2>3, <2>4
<1>. QED  BY <1>4, <1>5, <1>6 DEF FirewallSound

-----------------------------------------------------------------------------
(* The worker                                                               *)

LEMMA SameRules ==
  ASSUME UNCHANGED sg, NEW gs
  PROVE  Untorn(gs)' = Untorn(gs) /\ RulesOfGroups(gs)' = RulesOfGroups(gs)
<1>. QED  BY DEF Untorn, RulesOfGroups

LEMMA WriterAt ==
  ASSUME FirewallSound, writer.step # "idle"
  PROVE  /\ writer \in Write /\ writer.inst \in Machine
         /\ Exists(writer.inst) /\ ListSound /\ FlagsSound /\ ReadSound
<1>1. writer # NoWrite
  BY DEF NoWrite
<1>. QED  BY <1>1 DEF FirewallSound, WriterSound, TypeOKFirewall

\* A step of the worker is about one instance, and leaves its groups and its
\* place in the lifecycle, as far as transactions look at it.
LEMMA WorkerStep ==
  ASSUME FirewallSound, UNCHANGED <<sg, tx, asked>>, NEW i \in Machine,
         member' \in [Machine -> Membership], fw' \in [Machine -> Filter], writer' \in Write,
         \A m \in Machine \ {i} : member'[m] = member[m] /\ fw'[m] = fw[m],
         member'[i].groups = member[i].groups,
         member'[i].state = "none" <=> member[i].state = "none",
         member[i].state = "terminated" => member'[i].state = "terminated",
         MemberSound(i)', WriterSound', IsTrue(i)'
  PROVE  FirewallSound'
<1>1. TypeOKFirewall'
  BY DEF FirewallSound, TypeOKFirewall
<1>2. \A g : MembersOf(g)' \subseteq MembersOf(g)
  BY DEF MembersOf
<1>3. ASSUME NEW k \in Handler PROVE TxSound(k)'
  <2>1. TxSound(k) /\ tx[k] \in Transaction
    BY Types DEF FirewallSound, TxsSound
  <2>2. tx[k].made => ~sg[Default].exists
    BY <2>1, NothingHeld DEF TxSound, ChangeSound, MembershipSound, CreationSound, DescribeSound
  <2>3. tx[k].kind \in {"run", "adopt"} => member'[tx[k].on].state = "none"
    BY KindByStep DEF MembershipSound
  <2>4. tx[k].kind = "create" /\ tx[k].step = "commit" => \A g \in tx[k].groups : ~sg[g].exists
    BY KindByStep DEF CreationSound
  <2>5. Relies(k)
    BY <1>2, <2>2, <2>3, <2>4 DEF Relies
  <2>. QED  BY <2>1, <2>5, TxSoundKept
<1>4. TxsSound'
  <2>1. ASSUME NEW h \in Handler, NEW k \in Handler, h # k PROVE LocksApart(h, k)'
    <3>1. LocksApart(h, k)
      BY <2>1 DEF FirewallSound, TxsSound
    <3>. QED  BY <3>1 DEF LocksApart
  <2>. QED  BY <1>3, <2>1 DEF TxsSound
<1>5. ASSUME NEW m \in Machine \ {i} PROVE MemberSound(m)' /\ IsTrue(m)'
  <2>1. MemberSound(m) /\ IsTrue(m)
    BY DEF FirewallSound
  <2>2. RulesOfGroups(member[m].groups)' = RulesOfGroups(member[m].groups)
        /\ Untorn(member[m].groups)' = Untorn(member[m].groups)
    BY SameRules DEF RulesOfGroups, Untorn
  <2>. QED  BY <2>1, <2>2 DEF MemberSound, IsTrue, Due, Filtered, Exists
<1>. QED  BY <1>1, <1>4, <1>5 DEF FirewallSound

\* Nothing that is written already is taken away.
LEMMA TruthStays ==
  ASSUME FirewallSound, UNCHANGED sg, NEW i \in Machine, Exists(i)' => Exists(i),
         member'[i].groups = member[i].groups, member'[i].gen = member[i].gen,
         member'[i].applied = member[i].applied,
         Due(i) => /\ fw'[i].rules = fw[i].rules
                   /\ fw[i].enabled /\ fw[i].pinned /\ fw[i].nic =>
                         fw'[i].enabled /\ fw'[i].pinned /\ fw'[i].nic
  PROVE  IsTrue(i)'
<1>1. RulesOfGroups(member[i].groups)' = RulesOfGroups(member[i].groups)
      /\ Untorn(member[i].groups)' = Untorn(member[i].groups)
  BY DEF RulesOfGroups, Untorn
<1>2. Due(i)' => Due(i)
  BY <1>1 DEF Due
<1>3. Due(i) => Filtered(i)
  BY DEF FirewallSound, IsTrue
<1>. QED  BY <1>1, <1>2, <1>3 DEF IsTrue, Filtered

\* The write is dropped: another one starts from the groups again.
LEMMA WriteDropped ==
  ASSUME FirewallSound, UNCHANGED <<sg, tx, asked>>, NEW i \in Machine, i = writer.inst,
         writer' = NoWrite, NEW lease \in BOOLEAN, member' = [member EXCEPT ![i].leased = lease],
         NEW f \in Filter, fw' = [fw EXCEPT ![i] = f], ~f.made => ~f.enabled,
         Due(i) => /\ f.rules = fw[i].rules
                   /\ fw[i].enabled /\ fw[i].pinned /\ fw[i].nic => f.enabled /\ f.pinned /\ f.nic
  PROVE  FirewallSound'
<1>1. /\ member' \in [Machine -> Membership] /\ fw' \in [Machine -> Filter]
      /\ \A m \in Machine \ {i} : member'[m] = member[m] /\ fw'[m] = fw[m]
      /\ fw'[i] = f /\ member'[i] = [member[i] EXCEPT !.leased = lease]
  <2>1. [member[i] EXCEPT !.leased = lease] \in Membership
    BY Types DEF Membership
  <2>2. member' = [member EXCEPT ![i] = [member[i] EXCEPT !.leased = lease]]
    BY Types
  <2>. QED  BY <2>1, <2>2, Types
<1>2. /\ member'[i].groups = member[i].groups /\ member'[i].state = member[i].state
      /\ member'[i].gen = member[i].gen /\ member'[i].applied = member[i].applied
  BY <1>1, Types DEF Membership
<1>3. MemberSound(i)
  BY Types
<1>4. MemberSound(i)' /\ (Exists(i)' => Exists(i))
  BY <1>1, <1>2, <1>3 DEF MemberSound, Exists
<1>5. IsTrue(i)'
  BY <1>1, <1>2, <1>4, TruthStays
<1>6. WriterSound'
  BY DEF WriterSound
<1>. QED  BY <1>1, <1>2, <1>4, <1>5, <1>6, Constants, WorkerStep

LEMMA StopsWritingAs ==
  ASSUME FirewallSound, StopsWriting, NEW i \in Machine, i = writer.inst
  PROVE  /\ writer' = NoWrite /\ UNCHANGED <<sg, tx, asked>>
         /\ \E lease \in BOOLEAN : member' = [member EXCEPT ![i].leased = lease]
<1>1. member[i].leased \in BOOLEAN /\ member = [member EXCEPT ![i].leased = member[i].leased]
  BY Types DEF Membership
<1>. QED  BY <1>1 DEF StopsWriting

\* A call on the VM, answered or not.
LEMMA CallSound ==
  ASSUME FirewallSound, writer.step # "idle", NEW i \in Machine, i = writer.inst,
         NEW f \in Filter, fw' = [fw EXCEPT ![i] = f], ~f.made => ~f.enabled,
         Due(i) => /\ f.rules = fw[i].rules
                   /\ fw[i].enabled /\ fw[i].pinned /\ fw[i].nic => f.enabled /\ f.pinned /\ f.nic,
         NEW next \in Write, Answered(next),
         writer' = next /\ UNCHANGED <<sg, member, tx, asked>> => WriterSound'
  PROVE  FirewallSound'
<1>1. CASE writer' = next /\ UNCHANGED <<sg, member, tx, asked>>
  <2>1. /\ fw' \in [Machine -> Filter] /\ fw'[i] = f
        /\ \A m \in Machine \ {i} : fw'[m] = fw[m]
    BY Types
  <2>2. MemberSound(i)' /\ (Exists(i)' => Exists(i))
    BY <1>1, <2>1, Types DEF MemberSound, Exists
  <2>3. IsTrue(i)'
    BY <1>1, <2>1, <2>2, TruthStays
  <2>. QED  BY <1>1, <2>1, <2>2, <2>3, Types, WorkerStep
<1>2. CASE StopsWriting
  BY <1>2, StopsWritingAs, WriteDropped
<1>. QED  BY <1>1, <1>2 DEF Answered

\* The write goes on with what it has read and is to write.
LEMMA WriteGoesOn ==
  ASSUME FirewallSound, UNCHANGED <<sg, member>>, writer.step \notin {"idle", "make", "read", "groups"},
         writer'.step \in Replacing \cup {"pin", "options", "nic", "record"},
         writer'.inst = writer.inst, writer'.launch = writer.launch, writer'.gen = writer.gen,
         writer'.groups = writer.groups,
         writer'.step \in {"pin", "options", "nic"} => writer.groups # {},
         writer.groups = {} => writer'.desired = <<>>,
         writer.groups # {} /\ writer.gen = member[writer.inst].gen /\ Untorn(writer.groups) =>
             writer'.desired = Rendered(RulesOfGroups(writer.groups)),
         writer'.step \in Replacing => ~Due(writer.inst),
         ListSound', FlagsSound'
  PROVE  WriterSound'
<1>1. writer.inst \in Machine /\ Exists(writer.inst) /\ ReadSound
  BY WriterAt
<1>2. PICK i, gs : i = writer.inst /\ gs = writer.groups
  OBVIOUS
<1>3. Untorn(gs)' = Untorn(gs) /\ RulesOfGroups(gs)' = RulesOfGroups(gs)
      /\ Untorn(member[i].groups)' = Untorn(member[i].groups)
  BY DEF Untorn, RulesOfGroups
<1>4. Untorn(writer.groups)' = Untorn(gs) /\ RulesOfGroups(writer.groups)' = RulesOfGroups(gs)
  BY <1>2, <1>3 DEF Untorn, RulesOfGroups
<1>5. Rendered(RulesOfGroups(writer.groups))' = Rendered(RulesOfGroups(gs))
  BY <1>4 DEF Rendered, Needed, Place
<1>6. writer'.step \in Replacing =>
        ~(member[i].gen = member[i].applied /\ member[i].groups # {} /\ Untorn(member[i].groups))
  BY <1>1, <1>2 DEF Due
<1>7. Untorn(member[writer.inst].groups)' = Untorn(member[i].groups)
  BY <1>2, <1>3 DEF Untorn
<1>8. ReadSound'
  BY <1>1, <1>2, <1>4, <1>5, <1>6, <1>7 DEF ReadSound, Replacing, RulesThere
<1>9. Exists(writer.inst)' /\ writer'.step # "idle"
  BY <1>1 DEF Exists, Replacing
<1>. QED  BY <1>1, <1>8, <1>9 DEF WriterSound

\* An instance that is as it should be and has groups is read as it is.
LEMMA ReadAsItIs ==
  ASSUME FirewallSound, writer.step \notin {"idle", "make", "read", "groups"}, Due(writer.inst)
  PROVE  /\ writer.gen = member[writer.inst].gen /\ writer.groups = member[writer.inst].groups
         /\ writer.groups # {} /\ Untorn(writer.groups)
         /\ fw[writer.inst].rules = Rendered(RulesOfGroups(writer.groups))
         /\ fw[writer.inst].enabled /\ fw[writer.inst].pinned /\ fw[writer.inst].nic
<1>1. writer.inst \in Machine /\ ReadSound
  BY WriterAt
<1>2. member[writer.inst].gen \in Nat /\ writer.gen \in Nat
  BY <1>1, Numbers DEF FirewallSound
<1>3. writer.gen = member[writer.inst].gen /\ writer.groups = member[writer.inst].groups
  BY <1>1, <1>2 DEF ReadSound, Due
<1>4. Filtered(writer.inst)
  BY <1>1 DEF FirewallSound, IsTrue
<1>. QED  BY <1>3, <1>4 DEF Due, Filtered

LEMMA ClaimsWriteSound ==
  ASSUME FirewallSound, NEW m \in Machine, ClaimsWrite(m)
  PROVE  FirewallSound'
<1>1. /\ member[m].state = "live" /\ fw[m].made /\ member[m].gen # member[m].applied
      /\ member' = [member EXCEPT ![m].leased = TRUE] /\ UNCHANGED <<sg, fw, tx, asked>>
      /\ writer' = [NoWrite EXCEPT !.step = "groups", !.inst = m, !.gen = member[m].gen]
  BY DEF ClaimsWrite
<1>2. /\ member' \in [Machine -> Membership]
      /\ \A k \in Machine \ {m} : member'[k] = member[k]
      /\ member'[m].groups = member[m].groups /\ member'[m].state = member[m].state
      /\ member'[m].gen = member[m].gen /\ member'[m].applied = member[m].applied
  <2>1. member' = [member EXCEPT ![m] = [member[m] EXCEPT !.leased = TRUE]]
        /\ [member[m] EXCEPT !.leased = TRUE] \in Membership
    BY <1>1, Types DEF Membership
  <2>. QED  BY <2>1, Types DEF Membership
<1>3. writer' \in Write
  BY <1>1, Types, Constants DEF NoWrite, Write
<1>4. MemberSound(m) /\ member[m].applied < member[m].gen
  BY <1>1, Types DEF MemberSound
<1>5. MemberSound(m)' /\ Exists(m) /\ Exists(m)'
  BY <1>1, <1>2, <1>4 DEF MemberSound, Exists
<1>6. /\ writer'.step = "groups" /\ writer'.inst = m /\ writer'.gen = member[m].gen
      /\ ~writer'.launch
  BY <1>1 DEF NoWrite
<1>7. ReadSound'
  BY <1>2, <1>4, <1>6, Types DEF ReadSound, Replacing, RulesThere
<1>8. WriterSound'
  BY <1>1, <1>5, <1>6, <1>7 DEF WriterSound, ListSound, FlagsSound, RulesThere
<1>9. IsTrue(m)'
  BY <1>1, <1>2, <1>5, TruthStays
<1>. QED  BY <1>1, <1>2, <1>3, <1>5, <1>8, <1>9, Types, WorkerStep

LEMMA LaunchTakenSound ==
  ASSUME FirewallSound, NEW m \in Machine, LaunchTaken(m)
  PROVE  FirewallSound'
<1>1. /\ member[m].state = "launch" /\ UNCHANGED <<sg, member, fw, tx, asked>>
      /\ writer' = [NoWrite EXCEPT !.step = "make", !.inst = m, !.launch = TRUE]
  BY DEF LaunchTaken
<1>2. writer' \in Write
  BY <1>1, Constants DEF NoWrite, Write
<1>3. MemberSound(m)' /\ Exists(m) /\ Exists(m)'
  BY <1>1, Types DEF MemberSound, Exists
<1>4. writer'.step = "make" /\ writer'.inst = m /\ writer'.launch
  BY <1>1 DEF NoWrite
<1>5. WriterSound'
  BY <1>3, <1>4 DEF WriterSound, ListSound, FlagsSound, ReadSound, Replacing, RulesThere
<1>6. IsTrue(m)'
  BY <1>1, <1>3, TruthStays
<1>. QED  BY <1>1, <1>2, <1>3, <1>5, <1>6, Types, WorkerStep

LEMMA MakesVMSound ==
  ASSUME FirewallSound, MakesVM
  PROVE  FirewallSound'
<1>1. writer.step = "make" /\ UNCHANGED <<sg, tx, asked>>
  BY DEF MakesVM
<1>2. PICK i \in Machine : i = writer.inst
  BY <1>1, WriterAt
<1>3. writer \in Write /\ Exists(i) /\ writer.launch
  BY <1>1, <1>2, WriterAt DEF ReadSound
<1>4. PICK f : /\ f = IF fw[i].made THEN fw[i] ELSE [NoFilter EXCEPT !.made = TRUE, !.nic = TRUE]
               /\ fw' = [fw EXCEPT ![i] = f]
  BY <1>2, Types DEF MakesVM
<1>5. f \in Filter /\ f.made /\ (fw[i].made => f = fw[i])
  BY <1>4, Types, Constants DEF NoFilter, Filter
<1>6. /\ fw' \in [Machine -> Filter] /\ fw'[i] = f
      /\ \A k \in Machine \ {i} : fw'[k] = fw[k]
  BY <1>4, <1>5, Types
<1>7. /\ member' \in [Machine -> Membership]
      /\ \A k \in Machine \ {i} : member'[k] = member[k]
      /\ member'[i].groups = member[i].groups /\ member'[i].state = member[i].state
      /\ member'[i].gen = member[i].gen /\ member'[i].applied = member[i].applied
  <2>1. member' = [member EXCEPT ![i] = [member[i] EXCEPT !.address = TRUE]]
        /\ [member[i] EXCEPT !.address = TRUE] \in Membership
    BY <1>2, Types DEF MakesVM, Membership
  <2>. QED  BY <2>1, Types DEF Membership
<1>8. writer' = [writer EXCEPT !.step = "read"]
  BY DEF MakesVM
<1>9. /\ writer' \in Write /\ writer'.step = "read" /\ writer'.inst = i /\ writer'.launch
  BY <1>2, <1>3, <1>8 DEF Write
<1>10. MemberSound(i) /\ IsTrue(i)
  BY DEF FirewallSound
<1>11. MemberSound(i)' /\ Exists(i)'
  BY <1>1, <1>3, <1>5, <1>6, <1>7, <1>10 DEF MemberSound, Exists
<1>12. WriterSound'
  BY <1>5, <1>6, <1>9, <1>11 DEF WriterSound, ListSound, FlagsSound, ReadSound, Replacing, RulesThere
<1>13. Due(i) => fw[i].made
  BY <1>10 DEF MemberSound, IsTrue, Filtered
<1>14. IsTrue(i)'
  BY <1>1, <1>3, <1>5, <1>6, <1>7, <1>13, TruthStays
<1>. QED  BY <1>1, <1>6, <1>7, <1>9, <1>11, <1>12, <1>14, WorkerStep

LEMMA ReadsGenerationSound ==
  ASSUME FirewallSound, ReadsGeneration
  PROVE  FirewallSound'
<1>1. writer.step = "read" /\ UNCHANGED <<sg, member, fw, tx, asked>>
  BY DEF ReadsGeneration
<1>2. PICK i \in Machine : i = writer.inst
  BY <1>1, WriterAt
<1>3. writer \in Write /\ Exists(i) /\ writer.launch /\ fw[i].made
  BY <1>1, <1>2, WriterAt DEF ReadSound, FlagsSound
<1>4. writer' = [writer EXCEPT !.step = "groups", !.gen = member[i].gen]
  BY <1>2 DEF ReadsGeneration
<1>5. /\ writer' \in Write /\ writer'.step = "groups" /\ writer'.inst = i /\ writer'.launch
      /\ writer'.gen = member[i].gen
  BY <1>2, <1>3, <1>4, Types DEF Write
<1>6. MemberSound(i)' /\ Exists(i)' /\ MemberSound(i)
  BY <1>1, <1>3, Types DEF MemberSound, Exists
<1>7. WriterSound'
  BY <1>1, <1>3, <1>5, <1>6, Types
  DEF WriterSound, ListSound, FlagsSound, ReadSound, MemberSound, Replacing, RulesThere
<1>8. IsTrue(i)'
  BY <1>1, <1>3, TruthStays
<1>. QED  BY <1>1, <1>5, <1>6, <1>7, <1>8, Types, WorkerStep

LEMMA ReadsGroupsSound ==
  ASSUME FirewallSound, ReadsGroups
  PROVE  FirewallSound'
<1>1. writer.step = "groups" /\ UNCHANGED <<sg, member, fw, tx, asked>>
  BY DEF ReadsGroups
<1>2. PICK i \in Machine : i = writer.inst
  BY <1>1, WriterAt
<1>3. /\ writer \in Write /\ Exists(i) /\ fw[i].made
      /\ (~writer.launch => member[i].applied < writer.gen)
      /\ member[i].applied <= writer.gen /\ writer.gen <= member[i].gen
  BY <1>1, <1>2, WriterAt DEF ReadSound, FlagsSound
<1>4. writer' = [writer EXCEPT !.step = IF member[i].groups = {} THEN "disable" ELSE "rules",
                               !.groups = member[i].groups, !.current = fw[i].rules]
  BY <1>2 DEF ReadsGroups
<1>5. /\ writer' \in Write /\ writer'.inst = i /\ writer'.launch = writer.launch
      /\ writer'.step = IF member[i].groups = {} THEN "disable" ELSE "rules"
      /\ writer'.gen = writer.gen /\ writer'.groups = member[i].groups
      /\ writer'.current = fw[i].rules
  BY <1>2, <1>3, <1>4, Types DEF Write, Filter
<1>6. MemberSound(i)' /\ Exists(i)'
  BY <1>1, <1>3, Types DEF MemberSound, Exists
<1>7. WriterSound'
  BY <1>1, <1>3, <1>5, <1>6
  DEF WriterSound, ListSound, FlagsSound, ReadSound, Replacing, RulesThere
<1>8. IsTrue(i)'
  BY <1>1, <1>3, TruthStays
<1>. QED  BY <1>1, <1>5, <1>6, <1>7, <1>8, Types, WorkerStep

\* What replaceRules starts with.
Replacement(n, rules) ==
    /\ n \in Write /\ n.inst = writer.inst /\ n.launch = writer.launch /\ n.gen = writer.gen
    /\ n.groups = writer.groups /\ n.current = writer.current /\ n.desired = rules
    /\ \/ /\ rules = writer.current
          /\ n.step = IF writer.groups = {} THEN "record" ELSE "pin"
       \/ /\ rules # writer.current /\ n.step = "insert" /\ rules # <<>> /\ n.left = Len(rules)
       \/ /\ rules # writer.current /\ n.step = "delete" /\ rules = <<>>
          /\ n.left = Len(writer.current)

LEMMA ReplacesAs ==
  ASSUME writer \in Write, NEW rules \in Seq(Rule)
  PROVE  Replacement(Replaces([writer EXCEPT !.desired = rules]), rules)
<1>. PICK n : n = Replaces([writer EXCEPT !.desired = rules])
  OBVIOUS
<1>. SUFFICES Replacement(n, rules)
  OBVIOUS
<1>. USE DEF Replacement
<1>0. PICK w : w = [writer EXCEPT !.desired = rules] /\ n = Replaces(w)
  OBVIOUS
<1>1. /\ w \in Write /\ w.desired = rules /\ w.current = writer.current /\ w.inst = writer.inst
      /\ w.launch = writer.launch /\ w.gen = writer.gen /\ w.groups = writer.groups
      /\ Len(rules) \in Nat /\ Len(writer.current) \in Nat
  BY <1>0, LenProperties DEF Write
<1>2. CASE rules = writer.current
  <2>1. n = [w EXCEPT !.step = IF writer.groups = {} THEN "record" ELSE "pin"]
    BY <1>0, <1>1, <1>2 DEF Replaces, AfterRules
  <2>. QED  BY <1>1, <1>2, <2>1 DEF Write
<1>3. CASE rules # writer.current /\ rules # <<>>
  <2>1. n = [w EXCEPT !.step = "insert", !.left = Len(rules)]
    BY <1>0, <1>1, <1>3 DEF Replaces
  <2>. QED  BY <1>1, <1>3, <2>1 DEF Write
<1>4. CASE rules # writer.current /\ rules = <<>>
  <2>1. n = [w EXCEPT !.step = "delete", !.left = Len(writer.current)]
    BY <1>0, <1>1, <1>4 DEF Replaces
  <2>. QED  BY <1>1, <1>4, <2>1 DEF Write
<1>. QED  BY <1>2, <1>3, <1>4

LEMMA ReplacesSound ==
  ASSUME FirewallSound, writer.step \in {"disable", "rules"}, UNCHANGED <<sg, member>>,
         NEW i \in Machine, i = writer.inst, NEW rules \in Seq(Rule),
         writer' = Replaces([writer EXCEPT !.desired = rules]),
         fw'[i].rules = fw[i].rules, fw'[i].made = fw[i].made,
         rules = IF writer.groups = {} THEN <<>> ELSE Rendered(RulesOfGroups(writer.groups))
  PROVE  WriterSound'
<1>1. /\ writer \in Write /\ ListSound /\ FlagsSound /\ ReadSound
      /\ writer.step \notin {"idle", "make", "read", "groups"}
  BY WriterAt
<1>2. PICK n : n = writer'
  OBVIOUS
<1>3. /\ n \in Write /\ n.inst = i /\ n.launch = writer.launch /\ n.gen = writer.gen
      /\ n.groups = writer.groups /\ n.current = writer.current /\ n.desired = rules
      /\ \/ /\ rules = writer.current
            /\ n.step = IF writer.groups = {} THEN "record" ELSE "pin"
         \/ /\ rules # writer.current /\ n.step = "insert" /\ rules # <<>> /\ n.left = Len(rules)
         \/ /\ rules # writer.current /\ n.step = "delete" /\ rules = <<>>
            /\ n.left = Len(writer.current)
  <2>1. Replacement(n, rules)
    BY <1>1, <1>2, ReplacesAs
  <2>. QED  BY <2>1 DEF Replacement
<1>4. fw[i].rules = writer.current /\ fw[i].made /\ writer.current \in Seq(Rule)
  BY <1>1 DEF ListSound, FlagsSound, Write
<1>5. n.step \in Replacing => ~Due(i)
  <2>1. SUFFICES ASSUME Due(i) PROVE rules = writer.current
    BY <1>3 DEF Replacing
  <2>. QED  BY <1>1, <1>4, <2>1, ReadAsItIs
<1>6. ListSound'
  <2>1. CASE rules = writer.current
    BY <1>2, <1>3, <1>4, <2>1 DEF ListSound, RulesThere
  <2>2. CASE n.step = "insert" /\ n.left = Len(rules) /\ rules # <<>>
    <3>1. Len(rules) \in Nat \ {0}
      BY <2>2, LenProperties, EmptySeq
    <3>2. SubSeq(rules, Len(rules) + 1, Len(rules)) = <<>>
      BY <3>1, SubSeqEmpty
    <3>3. <<>> \o writer.current = writer.current
      BY <1>4, ConcatEmptySeq
    <3>4. /\ n.left \in 1..Len(n.desired)
          /\ fw'[i].rules = SubSeq(n.desired, n.left + 1, Len(n.desired)) \o n.current
      BY <1>3, <1>4, <2>2, <3>1, <3>2, <3>3
    <3>. QED  BY <1>2, <1>3, <2>2, <3>4 DEF ListSound, RulesThere
  <2>3. CASE n.step = "delete" /\ n.left = Len(writer.current) /\ rules = <<>> /\ writer.current # <<>>
    <3>1. Len(writer.current) \in Nat \ {0}
      BY <1>4, <2>3, LenProperties, EmptySeq
    <3>2. SubSeq(writer.current, 1, Len(writer.current)) = writer.current
      BY <1>4, SubSeqFull
    <3>3. <<>> \o writer.current = writer.current
      BY <1>4, ConcatEmptySeq
    <3>4. /\ n.left \in 1..Len(n.current)
          /\ fw'[i].rules = n.desired \o SubSeq(n.current, 1, n.left)
      <4>1. n.current = writer.current /\ n.desired = <<>> /\ n.left = Len(n.current)
            /\ SubSeq(n.current, 1, n.left) = n.current /\ n.desired \o n.current = n.current
        BY <1>3, <2>3, <3>2, <3>3
      <4>. QED  BY <1>4, <3>1, <4>1
    <3>. QED  BY <1>2, <1>3, <2>3, <3>4 DEF ListSound, RulesThere
  <2>. QED  BY <1>3, <2>1, <2>2, <2>3
<1>7. FlagsSound'
  BY <1>2, <1>3, <1>4 DEF FlagsSound
<1>8. /\ n.step \in Replacing \cup {"pin", "options", "nic", "record"}
      /\ n.step \in {"pin", "options", "nic"} => writer.groups # {}
  BY <1>3 DEF Replacing
<1>9. /\ writer.groups = {} => n.desired = <<>>
      /\ writer.groups # {} => n.desired = Rendered(RulesOfGroups(writer.groups))
  BY <1>3
<1>. QED  BY <1>1, <1>2, <1>3, <1>5, <1>6, <1>7, <1>8, <1>9, WriteGoesOn

LEMMA ReadsRulesSound ==
  ASSUME FirewallSound, ReadsRules
  PROVE  FirewallSound'
<1>1. writer.step = "rules" /\ UNCHANGED <<sg, member, fw, tx, asked>>
  BY DEF ReadsRules
<1>2. PICK i \in Machine : i = writer.inst
  BY <1>1, WriterAt
<1>3. writer \in Write /\ Exists(i) /\ writer.groups # {}
  BY <1>1, <1>2, WriterAt DEF ReadSound
<1>4. PICK rules \in Seq(Rule) : rules = Rendered(RulesOfGroups(writer.groups))
  BY RenderedTyped
<1>5. writer' = Replaces([writer EXCEPT !.desired = rules])
  BY <1>4 DEF ReadsRules
<1>6. WriterSound'
  BY <1>1, <1>2, <1>3, <1>4, <1>5, ReplacesSound
<1>7. writer' \in Write
  BY <1>3, <1>5, ReplacesAs DEF Replacement
<1>8. MemberSound(i)' /\ Exists(i)'
  BY <1>1, <1>3, Types DEF MemberSound, Exists
<1>9. IsTrue(i)'
  BY <1>1, <1>3, TruthStays
<1>. QED  BY <1>1, <1>6, <1>7, <1>8, <1>9, Types, WorkerStep

LEMMA DisablesSound ==
  ASSUME FirewallSound, Disables
  PROVE  FirewallSound'
<1>1. writer.step = "disable"
  BY DEF Disables
<1>2. PICK i \in Machine : i = writer.inst
  BY <1>1, WriterAt
<1>3. writer \in Write /\ writer.groups = {}
  BY <1>1, WriterAt DEF ReadSound
<1>4. PICK f : f = [fw[i] EXCEPT !.enabled = FALSE]
  OBVIOUS
<1>5. /\ f \in Filter /\ f.rules = fw[i].rules /\ f.made = fw[i].made /\ ~f.enabled
      /\ fw' = [fw EXCEPT ![i] = f]
  BY <1>2, <1>4, Types DEF Disables, Filter
<1>6. ~Due(i)
  BY <1>1, <1>2, <1>3, ReadAsItIs
<1>7. PICK n : n = Replaces([writer EXCEPT !.desired = <<>>])
  OBVIOUS
<1>8. n \in Write
  BY <1>3, <1>7, Constants, ReplacesAs DEF Replacement
<1>9. fw'[i] = f
  BY <1>5, Types
<1>10. writer' = n /\ UNCHANGED <<sg, member, tx, asked>> => WriterSound'
  BY <1>1, <1>2, <1>3, <1>5, <1>7, <1>9, Constants, ReplacesSound
<1>11. Answered(n)
  BY <1>7 DEF Disables
<1>. QED  BY <1>1, <1>2, <1>5, <1>6, <1>8, <1>10, <1>11, CallSound

\* A rule is only put or taken where something is to change.
LEMMA ReplacingAt ==
  ASSUME FirewallSound, writer.step \in Replacing
  PROVE  /\ ~Due(writer.inst)
         /\ writer \in Write /\ writer.desired \in Seq(Rule) /\ writer.current \in Seq(Rule)
         /\ Len(writer.desired) \in Nat /\ Len(writer.current) \in Nat
         /\ writer.groups = {} => writer.desired = <<>>
         /\ writer.groups # {} /\ writer.gen = member[writer.inst].gen /\ Untorn(writer.groups) =>
               writer.desired = Rendered(RulesOfGroups(writer.groups))
         /\ writer.step = "insert" => writer.left \in 1..Len(writer.desired)
         /\ writer.step = "delete" => writer.left \in 1..Len(writer.current)
<1>1. writer \in Write /\ ListSound /\ ReadSound
  BY WriterAt DEF Replacing
<1>2. writer.desired \in Seq(Rule) /\ writer.current \in Seq(Rule)
  BY <1>1 DEF Write
<1>3. ~Due(writer.inst)
  BY <1>1 DEF ReadSound, Due
<1>. QED  BY <1>1, <1>2, <1>3, LenProperties DEF ReadSound, ListSound

LEMMA InsertsRuleSound ==
  ASSUME FirewallSound, InsertsRule
  PROVE  FirewallSound'
<1>1. writer.step = "insert" /\ writer.step \in Replacing
  BY DEF InsertsRule, Replacing
<1>2. PICK i \in Machine : i = writer.inst
  BY <1>1, WriterAt
<1>3. PICK w : w = writer
  OBVIOUS
<1>4. /\ w \in Write /\ ListSound /\ FlagsSound /\ ReadSound /\ ~Due(i)
      /\ w.desired \in Seq(Rule) /\ w.current \in Seq(Rule)
      /\ w.left \in 1..Len(w.desired) /\ Len(w.desired) \in Nat /\ Len(w.current) \in Nat
      /\ (w.groups = {} => w.desired = <<>>)
  BY <1>1, <1>2, <1>3, WriterAt, ReplacingAt
<1>5. fw[i].rules = SubSeq(w.desired, w.left + 1, Len(w.desired)) \o w.current /\ fw[i].made
  BY <1>1, <1>2, <1>3, <1>4 DEF ListSound, FlagsSound
<1>6. PICK f : /\ fw' = [fw EXCEPT ![i] = f] /\ f = [fw[i] EXCEPT !.rules = <<w.desired[w.left]>> \o @]
  BY <1>2, <1>3, Types DEF InsertsRule
<1>7. /\ f \in Filter /\ f.made = fw[i].made /\ f.enabled = fw[i].enabled
      /\ f.rules = SubSeq(w.desired, w.left, Len(w.desired)) \o w.current
  <2>1. f.rules = <<w.desired[w.left]>> \o fw[i].rules
    BY <1>6, Types DEF Filter
  <2>2. f.rules = SubSeq(w.desired, w.left, Len(w.desired)) \o w.current
    <3>1. <<w.desired[w.left]>> \o (SubSeq(w.desired, w.left + 1, Len(w.desired)) \o w.current)
            = SubSeq(w.desired, w.left, Len(w.desired)) \o w.current
      BY <1>4, OnTop
    <3>. QED  BY <1>5, <2>1, <3>1
  <2>3. SubSeq(w.desired, w.left, Len(w.desired)) \in Seq(Rule)
    BY <1>4, SubSeqProperties, ElementOfSeq
  <2>4. f.rules \in Seq(Rule)
    BY <1>4, <2>2, <2>3, ConcatProperties
  <2>. QED  BY <1>6, <2>2, <2>4, Types DEF Filter
<1>8. PICK n : n = IF w.left > 1 THEN [w EXCEPT !.left = @ - 1]
                   ELSE IF w.current = <<>> THEN AfterRules([w EXCEPT !.left = 0])
                   ELSE [w EXCEPT !.step = "delete", !.left = Len(w.current)]
  OBVIOUS
<1>9. Answered(n)
  BY <1>3, <1>8 DEF InsertsRule
<1>10. w.groups # {}
  BY <1>4
<1>11. /\ n \in Write /\ n.inst = i /\ n.launch = w.launch /\ n.gen = w.gen /\ n.groups = w.groups
       /\ n.desired = w.desired /\ n.current = w.current
       /\ \/ n.step = "insert" /\ n.left = w.left - 1 /\ n.left \in 1..Len(w.desired)
          \/ n.step = "pin" /\ w.left = 1 /\ w.current = <<>>
          \/ n.step = "delete" /\ w.left = 1 /\ w.current # <<>> /\ n.left = Len(w.current)
  <2>1. CASE w.left > 1
    BY <1>1, <1>2, <1>3, <1>4, <1>8, <2>1 DEF Write
  <2>2. CASE w.left = 1 /\ w.current = <<>>
    <3>1. n = [w EXCEPT !.left = 0, !.step = IF w.groups = {} THEN "record" ELSE "pin"]
      BY <1>4, <1>8, <2>2 DEF AfterRules, Write
    <3>. QED  BY <1>2, <1>3, <1>4, <1>10, <2>2, <3>1 DEF Write
  <2>3. CASE w.left = 1 /\ w.current # <<>>
    <3>1. n = [w EXCEPT !.step = "delete", !.left = Len(w.current)]
      BY <1>8, <2>3
    <3>. QED  BY <1>2, <1>3, <1>4, <2>3, <3>1 DEF Write
  <2>. QED  BY <1>4, <2>1, <2>2, <2>3
<1>12. ASSUME writer' = n, UNCHANGED <<sg, member>> PROVE WriterSound'
  <2>1. fw'[i] = f
    BY <1>6, Types
  <2>2. w.left = 1 => f.rules = w.desired \o w.current
    BY <1>4, <1>7, SubSeqFull
  <2>3. ListSound'
    <3>1. CASE n.step = "insert" /\ n.left = w.left - 1 /\ n.left \in 1..Len(w.desired)
      <4>1. n.left + 1 = w.left
        BY <1>4, <3>1
      <4>. QED  BY <1>7, <1>11, <1>12, <2>1, <3>1, <4>1 DEF ListSound, RulesThere
    <3>2. CASE n.step = "pin" /\ w.left = 1 /\ w.current = <<>>
      <4>1. f.rules = w.desired
        BY <1>4, <2>2, <3>2, ConcatEmptySeq
      <4>. QED  BY <1>11, <1>12, <2>1, <3>2, <4>1 DEF ListSound, RulesThere
    <3>3. CASE n.step = "delete" /\ w.left = 1 /\ w.current # <<>> /\ n.left = Len(w.current)
      <4>1. SubSeq(w.current, 1, Len(w.current)) = w.current /\ Len(w.current) \in Nat \ {0}
        BY <1>4, <3>3, SubSeqFull, EmptySeq
      <4>2. n.left \in 1..Len(n.current) /\ fw'[i].rules = n.desired \o SubSeq(n.current, 1, n.left)
        <5>1. n.current = w.current /\ n.desired = w.desired /\ n.left = Len(n.current)
              /\ SubSeq(n.current, 1, n.left) = n.current
          BY <1>11, <3>3, <4>1
        <5>2. n.left \in 1..Len(n.current)
          BY <4>1, <5>1
        <5>3. fw'[i].rules = n.desired \o SubSeq(n.current, 1, n.left)
          BY Zenon, <2>1, <2>2, <3>3, <5>1
        <5>. QED  BY <5>2, <5>3
      <4>. QED  BY <1>11, <1>12, <3>3, <4>2 DEF ListSound, RulesThere
    <3>. QED  BY <1>11, <3>1, <3>2, <3>3
  <2>4. FlagsSound'
    BY <1>5, <1>7, <1>11, <1>12, <2>1 DEF FlagsSound
  <2>5. n.step \in Replacing \cup {"pin", "options", "nic", "record"}
    BY <1>11 DEF Replacing
  <2>6. writer.groups # {} /\ writer.gen = member[writer.inst].gen /\ Untorn(writer.groups) =>
               writer'.desired = Rendered(RulesOfGroups(writer.groups))
    BY <1>1, <1>3, <1>11, <1>12, ReplacingAt
  <2>. QED  BY <1>1, <1>2, <1>3, <1>4, <1>10, <1>11, <1>12, <2>3, <2>4, <2>5, <2>6, WriteGoesOn
<1>13. writer' = n /\ UNCHANGED <<sg, member, tx, asked>> => WriterSound'
  BY <1>12
<1>. QED  BY <1>1, <1>2, <1>4, <1>5, <1>6, <1>7, <1>9, <1>11, <1>13, CallSound

LEMMA DeletesRuleSound ==
  ASSUME FirewallSound, DeletesRule
  PROVE  FirewallSound'
<1>1. writer.step = "delete" /\ writer.step \in Replacing
  BY DEF DeletesRule, Replacing
<1>2. PICK i \in Machine : i = writer.inst
  BY <1>1, WriterAt
<1>3. PICK w : w = writer
  OBVIOUS
<1>4. /\ w \in Write /\ ListSound /\ FlagsSound /\ ReadSound /\ ~Due(i)
      /\ w.desired \in Seq(Rule) /\ w.current \in Seq(Rule)
      /\ w.left \in 1..Len(w.current) /\ Len(w.desired) \in Nat /\ Len(w.current) \in Nat
      /\ (w.groups = {} => w.desired = <<>>)
  BY <1>1, <1>2, <1>3, WriterAt, ReplacingAt
<1>5. fw[i].rules = w.desired \o SubSeq(w.current, 1, w.left) /\ fw[i].made
  BY <1>1, <1>2, <1>3, <1>4 DEF ListSound, FlagsSound
<1>6. PICK f : /\ fw' = [fw EXCEPT ![i] = f]
               /\ f = [fw[i] EXCEPT !.rules = RemoveAt(@, Len(w.desired) + w.left)]
  BY <1>2, <1>3, Types DEF DeletesRule
<1>7. /\ f \in Filter /\ f.made = fw[i].made /\ f.enabled = fw[i].enabled
      /\ f.rules = w.desired \o SubSeq(w.current, 1, w.left - 1)
  <2>1. f.rules = RemoveAt(fw[i].rules, Len(w.desired) + w.left)
    BY <1>6, Types DEF Filter
  <2>2. f.rules = w.desired \o SubSeq(w.current, 1, w.left - 1)
    <3>1. RemoveAt(w.desired \o SubSeq(w.current, 1, w.left), Len(w.desired) + w.left)
            = w.desired \o SubSeq(w.current, 1, w.left - 1)
      BY <1>4, FromBelow
    <3>. QED  BY <1>5, <2>1, <3>1
  <2>3. SubSeq(w.current, 1, w.left - 1) \in Seq(Rule)
    BY <1>4, SubSeqProperties, ElementOfSeq
  <2>4. f.rules \in Seq(Rule)
    BY <1>4, <2>2, <2>3, ConcatProperties
  <2>. QED  BY <1>6, <2>2, <2>4, Types DEF Filter
<1>8. PICK n : n = IF w.left > 1 THEN [w EXCEPT !.left = @ - 1] ELSE AfterRules([w EXCEPT !.left = 0])
  OBVIOUS
<1>9. Answered(n)
  BY <1>3, <1>8 DEF DeletesRule
<1>11. /\ n \in Write /\ n.inst = i /\ n.launch = w.launch /\ n.gen = w.gen /\ n.groups = w.groups
       /\ n.desired = w.desired /\ n.current = w.current
       /\ \/ n.step = "delete" /\ n.left = w.left - 1 /\ n.left \in 1..Len(w.current)
          \/ w.left = 1 /\ n.step = IF w.groups = {} THEN "record" ELSE "pin"
  <2>1. CASE w.left > 1
    BY <1>1, <1>2, <1>3, <1>4, <1>8, <2>1 DEF Write
  <2>2. CASE w.left = 1
    <3>1. n = [w EXCEPT !.left = 0, !.step = IF w.groups = {} THEN "record" ELSE "pin"]
      BY <1>4, <1>8, <2>2 DEF AfterRules, Write
    <3>. QED  BY <1>2, <1>3, <1>4, <2>2, <3>1 DEF Write
  <2>. QED  BY <1>4, <2>1, <2>2
<1>12. ASSUME writer' = n, UNCHANGED <<sg, member>> PROVE WriterSound'
  <2>1. fw'[i] = f
    BY <1>6, Types
  <2>3. ListSound'
    <3>1. CASE n.step = "delete" /\ n.left = w.left - 1 /\ n.left \in 1..Len(w.current)
      BY <1>7, <1>11, <1>12, <2>1, <3>1 DEF ListSound, RulesThere
    <3>2. CASE w.left = 1 /\ n.step = IF w.groups = {} THEN "record" ELSE "pin"
      <4>1. SubSeq(w.current, 1, w.left - 1) = <<>>
        BY <3>2, SubSeqEmpty
      <4>2. f.rules = w.desired
        BY <1>4, <1>7, <4>1, ConcatEmptySeq
      <4>. QED  BY <1>11, <1>12, <2>1, <3>2, <4>2 DEF ListSound, RulesThere
    <3>. QED  BY <1>11, <3>1, <3>2
  <2>4. FlagsSound'
    BY <1>5, <1>7, <1>11, <1>12, <2>1 DEF FlagsSound
  <2>5. n.step \in Replacing \cup {"pin", "options", "nic", "record"}
    BY <1>11 DEF Replacing
  <2>6. writer.groups # {} /\ writer.gen = member[writer.inst].gen /\ Untorn(writer.groups) =>
               writer'.desired = Rendered(RulesOfGroups(writer.groups))
    BY <1>1, <1>3, <1>11, <1>12, ReplacingAt
  <2>. QED  BY <1>1, <1>2, <1>3, <1>4, <1>11, <1>12, <2>3, <2>4, <2>5, <2>6, WriteGoesOn
<1>13. writer' = n /\ UNCHANGED <<sg, member, tx, asked>> => WriterSound'
  BY <1>12
<1>. QED  BY <1>1, <1>2, <1>4, <1>5, <1>6, <1>7, <1>9, <1>11, <1>13, CallSound

\* What follows the rules only adds to what is filtered.
LEMMA FlagSet ==
  ASSUME FirewallSound, writer.step \in {"pin", "options", "nic"},
         NEW i \in Machine, i = writer.inst,
         NEW f \in Filter, fw' = [fw EXCEPT ![i] = f], f.rules = fw[i].rules, f.made = fw[i].made,
         fw[i].enabled => f.enabled, fw[i].pinned => f.pinned, fw[i].nic => f.nic,
         NEW step \in {"options", "nic", "record"}, Answered([writer EXCEPT !.step = step]),
         f.pinned, step \in {"nic", "record"} => f.enabled, step = "record" => f.nic
  PROVE  FirewallSound'
<1>1. writer \in Write /\ ListSound /\ FlagsSound /\ ReadSound
  BY WriterAt
<1>2. PICK n : n = [writer EXCEPT !.step = step]
  OBVIOUS
<1>3. /\ n \in Write /\ n.step = step /\ n.inst = i /\ n.launch = writer.launch /\ n.gen = writer.gen
      /\ n.groups = writer.groups /\ n.desired = writer.desired
  BY <1>1, <1>2 DEF Write
<1>4. fw[i].rules = writer.desired /\ fw[i].made /\ writer.groups # {}
  BY <1>1 DEF ListSound, FlagsSound, ReadSound, RulesThere
<1>5. ASSUME writer' = n, UNCHANGED <<sg, member>> PROVE WriterSound'
  <2>1. fw'[i] = f
    BY Types
  <2>2. ListSound'
    BY <1>3, <1>4, <1>5, <2>1 DEF ListSound, RulesThere
  <2>3. FlagsSound'
    BY <1>3, <1>4, <1>5, <2>1 DEF FlagsSound
  <2>4. writer.groups # {} /\ writer.gen = member[writer.inst].gen /\ Untorn(writer.groups) =>
               writer'.desired = Rendered(RulesOfGroups(writer.groups))
    BY <1>1, <1>3, <1>5 DEF ReadSound, RulesThere
  <2>5. n.step \in {"pin", "options", "nic", "record"} /\ n.step \notin Replacing
    BY <1>3 DEF Replacing
  <2>. QED  BY <1>3, <1>4, <1>5, <2>2, <2>3, <2>4, <2>5, WriteGoesOn
<1>6. writer' = n /\ UNCHANGED <<sg, member, tx, asked>> => WriterSound'
  BY <1>5
<1>7. Answered(n) /\ writer.step # "idle"
  BY <1>2
<1>. QED  BY <1>3, <1>4, <1>6, <1>7, CallSound

LEMMA FlagsSetSound ==
  ASSUME FirewallSound, PinsAddress \/ SetsOptions \/ FiltersNIC
  PROVE  FirewallSound'
<1>1. writer.step \in {"pin", "options", "nic"}
  BY DEF PinsAddress, SetsOptions, FiltersNIC
<1>2. PICK i \in Machine : i = writer.inst
  BY <1>1, WriterAt
<1>3. fw[i] \in Filter /\ FlagsSound
  BY <1>1, WriterAt, Types
<1>4. CASE PinsAddress
  <2>1. PICK f : f = [fw[i] EXCEPT !.pinned = TRUE]
    OBVIOUS
  <2>2. /\ f \in Filter /\ f.rules = fw[i].rules /\ f.made = fw[i].made /\ f.pinned
        /\ f.enabled = fw[i].enabled /\ f.nic = fw[i].nic
    BY <1>3, <2>1 DEF Filter
  <2>3. fw' = [fw EXCEPT ![i] = f] /\ Answered([writer EXCEPT !.step = "options"])
    BY <1>2, <1>4, <2>1, Types DEF PinsAddress
  <2>. QED  BY <1>1, <1>2, <2>2, <2>3, FlagSet
<1>5. CASE SetsOptions
  <2>1. PICK f : f = [fw[i] EXCEPT !.enabled = TRUE]
    OBVIOUS
  <2>2. /\ f \in Filter /\ f.rules = fw[i].rules /\ f.made = fw[i].made /\ f.enabled
        /\ f.pinned = fw[i].pinned /\ f.nic = fw[i].nic
    BY <1>3, <2>1 DEF Filter
  <2>3. fw' = [fw EXCEPT ![i] = f] /\ Answered([writer EXCEPT !.step = "nic"]) /\ fw[i].pinned
    BY <1>2, <1>3, <1>5, <2>1, Types DEF SetsOptions, FlagsSound
  <2>. QED  BY <1>1, <1>2, <2>2, <2>3, FlagSet
<1>6. CASE FiltersNIC
  <2>1. PICK f : f = [fw[i] EXCEPT !.nic = TRUE]
    OBVIOUS
  <2>2. /\ f \in Filter /\ f.rules = fw[i].rules /\ f.made = fw[i].made /\ f.nic
        /\ f.pinned = fw[i].pinned /\ f.enabled = fw[i].enabled
    BY <1>3, <2>1 DEF Filter
  <2>3. fw' = [fw EXCEPT ![i] = f] /\ Answered([writer EXCEPT !.step = "record"])
        /\ fw[i].pinned /\ fw[i].enabled
    BY <1>2, <1>3, <1>6, <2>1, Types DEF FiltersNIC, FlagsSound
  <2>. QED  BY <1>1, <1>2, <2>2, <2>3, FlagSet
<1>. QED  BY <1>4, <1>5, <1>6

\* What is recorded as written was written, with the rules of now if its
\* generation is the one of now.
LEMMA RecordsWriteSound ==
  ASSUME FirewallSound, RecordsWrite
  PROVE  FirewallSound'
<1>1. writer.step = "record" /\ UNCHANGED <<sg, fw, tx, asked>>
  BY DEF RecordsWrite
<1>2. PICK i \in Machine : i = writer.inst
  BY <1>1, WriterAt
<1>3. /\ writer \in Write /\ Exists(i) /\ ListSound /\ FlagsSound /\ ReadSound
  BY <1>1, <1>2, WriterAt
<1>4. /\ fw[i].rules = writer.desired /\ fw[i].made
      /\ member[i].applied <= writer.gen /\ writer.gen <= member[i].gen
      /\ (writer.groups # {} => fw[i].pinned /\ fw[i].enabled /\ fw[i].nic)
      /\ (writer.gen = member[i].gen => writer.groups = member[i].groups)
      /\ (writer.groups = {} => writer.desired = <<>>)
      /\ (writer.groups # {} /\ writer.gen = member[i].gen /\ Untorn(writer.groups) =>
               writer.desired = Rendered(RulesOfGroups(writer.groups)))
  BY <1>1, <1>2, <1>3 DEF ListSound, FlagsSound, ReadSound, RulesThere
<1>5. writer.gen \in 0..MaxGeneration /\ writer.gen \in Nat
  BY <1>3, FirewallAssumption DEF Write
<1>6. /\ member' \in [Machine -> Membership]
      /\ \A k \in Machine \ {i} : member'[k] = member[k]
      /\ member'[i].groups = member[i].groups /\ member'[i].state = member[i].state
      /\ member'[i].gen = member[i].gen /\ member'[i].applied = writer.gen
  <2>1. Greatest(member[i].applied, writer.gen) = writer.gen
    BY <1>4, <1>5, Types DEF Greatest
  <2>2. member' = [member EXCEPT ![i] = [member[i] EXCEPT !.applied = writer.gen, !.leased = FALSE]]
    BY <1>2, <2>1, Types DEF RecordsWrite, Membership
  <2>3. [member[i] EXCEPT !.applied = writer.gen, !.leased = FALSE] \in Membership
    BY <1>5, Types DEF Membership
  <2>. QED  BY <2>2, <2>3, Types DEF Membership
<1>7. MemberSound(i)' /\ Exists(i)'
  <2>1. MemberSound(i)
    BY Types
  <2>. QED  BY <1>1, <1>3, <1>4, <1>6, <2>1 DEF MemberSound, Exists
<1>8. writer' = IF writer.launch THEN [writer EXCEPT !.step = "boot"] ELSE NoWrite
  BY DEF RecordsWrite
<1>9. writer' \in Write
  BY <1>3, <1>8, Constants DEF Write
<1>10. WriterSound'
  <2>1. CASE ~writer.launch
    BY <1>8, <2>1 DEF WriterSound
  <2>2. CASE writer.launch
    <3>1. PICK n : n = writer'
      OBVIOUS
    <3>2. /\ n.step = "boot" /\ n.inst = i /\ n.launch /\ n.gen = writer.gen
          /\ n.groups = writer.groups /\ n.desired = writer.desired
      BY <1>2, <1>3, <1>8, <2>2, <3>1 DEF Write
    <3>3. ListSound' /\ FlagsSound'
      BY <1>1, <1>4, <3>1, <3>2 DEF ListSound, FlagsSound, RulesThere
    <3>4. PICK gs : gs = writer.groups
      OBVIOUS
    <3>5. Untorn(writer.groups)' = Untorn(gs) /\ RulesOfGroups(writer.groups)' = RulesOfGroups(gs)
      BY <1>1, <3>1, <3>2, <3>4 DEF Untorn, RulesOfGroups
    <3>6. Rendered(RulesOfGroups(writer.groups))' = Rendered(RulesOfGroups(gs))
      BY <3>5 DEF Rendered, Needed, Place
    <3>7. ReadSound'
      BY <1>4, <1>5, <1>6, <3>1, <3>2, <3>4, <3>5, <3>6 DEF ReadSound, Replacing, RulesThere
    <3>. QED  BY <1>7, <3>1, <3>2, <3>3, <3>7 DEF WriterSound
  <2>. QED  BY <2>1, <2>2
<1>11. IsTrue(i)'
  <2>1. PICK gs : gs = member[i].groups
    OBVIOUS
  <2>2. /\ Untorn(member[i].groups)' = Untorn(gs)
        /\ RulesOfGroups(member[i].groups)' = RulesOfGroups(gs)
    BY <1>1, <1>6, <2>1 DEF Untorn, RulesOfGroups
  <2>3. SUFFICES ASSUME gs # {}, Untorn(gs), writer.gen = member[i].gen PROVE Filtered(i)'
    BY <1>6, <2>1, <2>2 DEF IsTrue, Due
  <2>4. writer.groups = gs /\ fw[i].rules = Rendered(RulesOfGroups(gs))
    BY <1>4, <2>1, <2>3
  <2>5. Rendered(RulesOfGroups(member[i].groups))' = Rendered(RulesOfGroups(gs))
    BY <2>2 DEF Rendered, Needed, Place
  <2>. QED  BY <1>1, <1>4, <2>3, <2>4, <2>5 DEF Filtered
<1>. QED  BY <1>1, <1>6, <1>7, <1>9, <1>10, <1>11, Types, WorkerStep

LEMMA BootsSound ==
  ASSUME FirewallSound, Boots
  PROVE  FirewallSound'
<1>1. writer.step = "boot" /\ UNCHANGED <<sg, tx, asked>> /\ writer' = NoWrite
  BY DEF Boots
<1>2. PICK i \in Machine : i = writer.inst
  BY <1>1, WriterAt
<1>3. Exists(i) /\ WriterSound'
  BY <1>1, <1>2, WriterAt DEF WriterSound
<1>4. PICK f : f = [fw[i] EXCEPT !.on = TRUE]
  OBVIOUS
<1>5. /\ f \in Filter /\ f.rules = fw[i].rules /\ f.made = fw[i].made /\ f.enabled = fw[i].enabled
      /\ f.pinned = fw[i].pinned /\ f.nic = fw[i].nic
  BY <1>4, Types DEF Filter
<1>6. fw' = [fw EXCEPT ![i] = f]
  BY <1>2, <1>4, Types DEF Boots
<1>7. /\ fw' \in [Machine -> Filter] /\ fw'[i] = f
      /\ \A k \in Machine \ {i} : fw'[k] = fw[k]
  BY <1>5, <1>6, Types
<1>8. PICK state \in {"live", member[i].state} : /\ member' = [member EXCEPT ![i].state = state]
                                                 /\ state = "live" => member[i].state \in {"live", "launch"}
  <2>1. member = [member EXCEPT ![i].state = member[i].state]
    BY Types DEF Membership
  <2>2. \/ member' = [member EXCEPT ![i].state = "live"] /\ member[i].state = "launch"
        \/ member' = [member EXCEPT ![i].state = member[i].state]
    BY <1>2, <2>1, Types DEF Boots, Membership
  <2>. QED  BY <2>2
<1>9. /\ member' \in [Machine -> Membership]
      /\ \A k \in Machine \ {i} : member'[k] = member[k]
      /\ member'[i].groups = member[i].groups /\ member'[i].state = state
      /\ member'[i].gen = member[i].gen /\ member'[i].applied = member[i].applied
  <2>1. member' = [member EXCEPT ![i] = [member[i] EXCEPT !.state = state]]
    BY <1>8, Types
  <2>2. [member[i] EXCEPT !.state = state] \in Membership
    BY <1>8, Types DEF Membership
  <2>. QED  BY <2>1, <2>2, Types DEF Membership
<1>10. MemberSound(i)
  BY Types
<1>11. MemberSound(i)'
  BY <1>1, <1>3, <1>5, <1>7, <1>9, <1>10 DEF MemberSound
<1>12. IsTrue(i)'
  BY <1>1, <1>3, <1>5, <1>7, <1>9, TruthStays
<1>13. (member'[i].state = "none" <=> member[i].state = "none")
       /\ (member[i].state = "terminated" => member'[i].state = "terminated")
  BY <1>3, <1>8, <1>9 DEF Exists
<1>. QED  BY <1>1, <1>3, <1>7, <1>9, <1>11, <1>12, <1>13, Constants, WorkerStep

LEMMA WriteFailsSound ==
  ASSUME FirewallSound, WriteFails
  PROVE  FirewallSound'
<1>1. writer.step # "idle" /\ StopsWriting /\ fw' = fw
  BY DEF WriteFails
<1>2. PICK i \in Machine : i = writer.inst
  BY <1>1, WriterAt
<1>3. fw' = [fw EXCEPT ![i] = fw[i]] /\ fw[i] \in Filter /\ MemberSound(i)
  BY <1>1, Types
<1>4. ~fw[i].made => ~fw[i].enabled
  BY <1>3 DEF MemberSound
<1>. QED  BY <1>1, <1>2, <1>3, <1>4, StopsWritingAs, WriteDropped

\* A row changes in a way the write does not look at.
LEMMA RowChanges ==
  ASSUME FirewallSound, UNCHANGED <<sg, fw, writer, tx, asked>>, NEW i \in Machine,
         NEW row \in Membership, member' = [member EXCEPT ![i] = row], Exists(i),
         row.groups = member[i].groups, row.gen = member[i].gen, row.applied = member[i].applied,
         row.state \notin {"none", "terminated"}
  PROVE  FirewallSound'
<1>1. /\ member' \in [Machine -> Membership] /\ member'[i] = row
      /\ \A k \in Machine \ {i} : member'[k] = member[k]
  BY Types
<1>2. MemberSound(i)' /\ Exists(i)'
  BY <1>1, Types DEF MemberSound, Exists
<1>3. IsTrue(i)'
  BY <1>1, <1>2, TruthStays
<1>4. WriterSound'
  <2>1. CASE writer = NoWrite
    BY <2>1 DEF WriterSound
  <2>2. CASE writer # NoWrite
    <3>1. /\ writer.inst \in Machine /\ writer.step # "idle" /\ Exists(writer.inst)
          /\ ListSound /\ FlagsSound /\ ReadSound
      BY <2>2 DEF FirewallSound, WriterSound
    <3>2. PICK k, gs : k = writer.inst /\ gs = member[k].groups
      OBVIOUS
    <3>3. /\ member'[k].groups = gs /\ member'[k].gen = member[k].gen
          /\ member'[k].applied = member[k].applied
      BY <1>1, <3>1, <3>2
    <3>4. Exists(k)' /\ ListSound' /\ FlagsSound'
      BY <1>1, <1>2, <3>1, <3>2 DEF Exists, ListSound, FlagsSound
    <3>5. /\ Untorn(member[writer.inst].groups)' = Untorn(gs)
          /\ Untorn(writer.groups)' = Untorn(writer.groups)
          /\ RulesOfGroups(writer.groups)' = RulesOfGroups(writer.groups)
      BY <3>2, <3>3 DEF Untorn, RulesOfGroups
    <3>6. Rendered(RulesOfGroups(writer.groups))' = Rendered(RulesOfGroups(writer.groups))
      BY <3>5 DEF Rendered, Needed, Place
    <3>7. ReadSound'
      BY <3>1, <3>2, <3>3, <3>5, <3>6 DEF ReadSound
    <3>. QED  BY <3>1, <3>2, <3>4, <3>7 DEF WriterSound, Exists
  <2>. QED  BY <2>1, <2>2
<1>5. member[i].state \notin {"none", "terminated"}
  BY DEF Exists
<1>. QED  BY <1>1, <1>2, <1>3, <1>4, <1>5, Types, WorkerStep DEF FirewallSound, TypeOKFirewall

LEMMA EndsSound ==
  ASSUME FirewallSound, NEW m \in Machine, Ends(m)
  PROVE  FirewallSound'
<1>1. PICK row : row = [member[m] EXCEPT !.state = "ending"]
  OBVIOUS
<1>2. /\ row \in Membership /\ row.groups = member[m].groups /\ row.gen = member[m].gen
      /\ row.applied = member[m].applied /\ row.state = "ending"
  BY <1>1, Types DEF Membership
<1>3. member' = [member EXCEPT ![m] = row] /\ UNCHANGED <<sg, fw, writer, tx, asked>> /\ Exists(m)
  BY <1>1, Types DEF Ends, Exists
<1>. QED  BY <1>2, <1>3, RowChanges

LEMMA TerminatesSound ==
  ASSUME FirewallSound, NEW m \in Machine, Terminates(m)
  PROVE  FirewallSound'
<1>1. PICK row : row = [member[m] EXCEPT !.state = "terminated", !.leased = FALSE]
  OBVIOUS
<1>2. /\ row \in Membership /\ row.groups = member[m].groups /\ row.gen = member[m].gen
      /\ row.applied = member[m].applied /\ row.state = "terminated"
  BY <1>1, Types DEF Membership
<1>3. /\ member' = [member EXCEPT ![m] = row] /\ UNCHANGED <<sg, writer, tx, asked>>
      /\ member[m].state = "ending" /\ fw' = [fw EXCEPT ![m] = NoFilter] /\ writer.step = "idle"
  BY <1>1, Types DEF Terminates
<1>4. /\ member' \in [Machine -> Membership] /\ member'[m] = row
      /\ \A k \in Machine \ {m} : member'[k] = member[k] /\ fw'[k] = fw[k]
      /\ fw' \in [Machine -> Filter] /\ fw'[m] = NoFilter
  BY <1>2, <1>3, Types, Constants
<1>5. writer' = NoWrite /\ WriterSound'
  BY <1>3 DEF FirewallSound, WriterSound
<1>6. MemberSound(m)' /\ IsTrue(m)'
  <2>1. MemberSound(m)
    BY Types
  <2>. QED  BY <1>2, <1>4, <2>1 DEF MemberSound, Exists, IsTrue, Due, NoFilter
<1>. QED  BY <1>2, <1>3, <1>4, <1>5, <1>6, Constants, WorkerStep

\* A lease may outlast the write it was for, but not be needed by another.
LEMMA LeaseExpiresSound ==
  ASSUME FirewallSound, NEW m \in Machine, WriteLeaseExpires(m)
  PROVE  FirewallSound'
<1>1. PICK row : row = [member[m] EXCEPT !.leased = FALSE]
  OBVIOUS
<1>2. /\ row \in Membership /\ row.groups = member[m].groups /\ row.gen = member[m].gen
      /\ row.applied = member[m].applied /\ row.state = member[m].state
  BY <1>1, Types DEF Membership
<1>3. member' = [member EXCEPT ![m] = row] /\ UNCHANGED <<sg, fw, writer, tx, asked>>
      /\ writer.inst # m
  BY <1>1, Types DEF WriteLeaseExpires
<1>4. CASE Exists(m)
  BY <1>2, <1>3, <1>4, RowChanges DEF Exists
<1>5. CASE ~Exists(m)
  <2>1. /\ member' \in [Machine -> Membership] /\ member'[m] = row
        /\ \A k \in Machine \ {m} : member'[k] = member[k]
    BY <1>2, <1>3, Types
  <2>2. MemberSound(m)' /\ IsTrue(m)'
    <3>1. MemberSound(m)
      BY Types
    <3>. QED  BY <1>2, <1>3, <1>5, <2>1, <3>1 DEF MemberSound, Exists, IsTrue, Due
  <2>3. TypeOKFirewall'
    BY <1>3, <2>1 DEF FirewallSound, TypeOKFirewall
  <2>4. writer # NoWrite => Undisturbed(writer.inst)
    <3>1. SUFFICES ASSUME writer # NoWrite PROVE Undisturbed(writer.inst)
      OBVIOUS
    <3>2. writer.inst \in Machine /\ Exists(writer.inst)
      BY <3>1 DEF FirewallSound, WriterSound
    <3>. QED  BY <1>3, <2>1, <3>2, Types DEF Undisturbed
  <2>5. WriterSound'
    BY <1>3, <2>3, <2>4, WriterKept
  <2>. QED  BY <1>2, <1>3, <2>1, <2>2, <2>5, Types, WorkerStep DEF FirewallSound, TypeOKFirewall
<1>. QED  BY <1>4, <1>5

-----------------------------------------------------------------------------
(* The theorems                                                             *)

LEMMA FirewallAtFirst == InitFirewall => FirewallSound
<1> SUFFICES ASSUME InitFirewall PROVE FirewallSound
  OBVIOUS
<1>1. /\ writer = NoWrite /\ tx = [h \in Handler |-> NoTransaction] /\ asked = 0
      /\ member \in [Machine -> {Absent, Ungrouped} \cup {Settled(g) : g \in Group \ {Default}}]
  BY DEF InitFirewall
<1>2. /\ \A g \in Group \ {Default} : sg[g] = NewGroup({Egress})
      /\ sg \in Groups
  <2>1. PICK default \in {NoGroup, NewGroup({Egress, Ingress})} :
          sg = [g \in Group |-> IF g = Default THEN default ELSE NewGroup({Egress})]
    BY DEF InitFirewall
  <2>2. /\ NoGroup \in [exists: BOOLEAN, rules: SUBSET Traffic, torn: BOOLEAN]
        /\ NewGroup({Egress}) \in [exists: BOOLEAN, rules: SUBSET Traffic, torn: BOOLEAN]
        /\ NewGroup({Egress, Ingress}) \in [exists: BOOLEAN, rules: SUBSET Traffic, torn: BOOLEAN]
    BY Constants DEF NoGroup, NewGroup
  <2>. QED  BY <2>1, <2>2 DEF Groups
<1>3. Absent \in Membership /\ Ungrouped \in Membership
      /\ \A g \in Group : Settled(g) \in Membership
  BY Constants DEF Absent, Ungrouped, Settled, Membership
<1>4. member \in [Machine -> Membership]
  BY <1>1, <1>3
<1>. DEFINE First(m) == [made |-> TRUE,
                         rules |-> << <<CHOOSE g \in member[m].groups : TRUE, Egress>> >>,
                         enabled |-> TRUE, pinned |-> TRUE, nic |-> TRUE, on |-> TRUE]
<1>5. fw = [m \in Machine |-> IF member[m].groups = {} THEN NoFilter ELSE First(m)]
  BY DEF InitFirewall
<1>6. ASSUME NEW m \in Machine
      PROVE  fw[m] \in Filter /\ MemberSound(m) /\ IsTrue(m)
  <2>1. CASE member[m] \in {Absent, Ungrouped}
    <3>1. member[m].groups = {} /\ member[m].gen = 0 /\ member[m].applied = 0
      <4>1. Absent.groups = {} /\ Absent.gen = 0 /\ Absent.applied = 0
        BY DEF Absent
      <4>2. Ungrouped.groups = {} /\ Ungrouped.gen = 0 /\ Ungrouped.applied = 0
        BY DEF Absent, Ungrouped
      <4>. QED  BY <2>1, <4>1, <4>2
    <3>2. fw[m] = NoFilter
      BY <1>5, <3>1
    <3>. QED  BY <3>1, <3>2, Constants DEF MemberSound, IsTrue, Due, NoFilter
  <2>2. CASE \E g \in Group \ {Default} : member[m] = Settled(g)
    <3>1. PICK g \in Group \ {Default} : member[m] = Settled(g)
      BY <2>2
    <3>2. member[m].groups = {g} /\ member[m].gen = 1 /\ member[m].applied = 1
      BY <3>1 DEF Settled, Ungrouped, Absent
    <3>3. (CHOOSE q \in member[m].groups : TRUE) = g
      BY <3>2
    <3>4. /\ fw[m] = First(m) /\ fw[m].rules = << <<g, Egress>> >>
      BY <1>5, <3>2, <3>3
    <3>5. << <<g, Egress>> >> \in Seq(Rule)
      <4>1. PICK r \in Rule : r = <<g, Egress>>
        BY Constants DEF Rule
      <4>2. <<r>> \in Seq(Rule)
        OBVIOUS
      <4>. QED  BY <4>1, <4>2
    <3>6. fw[m] \in Filter
      <4>1. fw[m] = [made |-> TRUE, rules |-> << <<g, Egress>> >>, enabled |-> TRUE,
                     pinned |-> TRUE, nic |-> TRUE, on |-> TRUE]
        BY <3>3, <3>4
      <4>. QED  BY <3>5, <4>1 DEF Filter
    <3>7. MemberSound(m)
      BY <1>2, <3>2, <3>4 DEF MemberSound, NewGroup
    <3>8. RulesOfGroups({g}) = {<<g, Egress>>}
      <4>1. sg[g].exists /\ sg[g].rules = {Egress}
        BY <1>2 DEF NewGroup
      <4>. QED  BY <4>1, Constants DEF RulesOfGroups, Rule
    <3>9. Rendered(RulesOfGroups(member[m].groups)) = << <<g, Egress>> >>
      BY <3>2, <3>8, RenderedOne, Constants
    <3>10. Filtered(m)
      BY <3>4, <3>9 DEF Filtered
    <3>. QED  BY <3>6, <3>7, <3>10 DEF IsTrue
  <2>. QED  BY <1>1, <2>1, <2>2
<1>7. fw \in [Machine -> Filter]
  <2>. HIDE DEF First
  <2>. QED  BY <1>5, <1>6
<1>8. TypeOKFirewall
  BY <1>1, <1>2, <1>4, <1>7, Constants, FirewallAssumption DEF TypeOKFirewall, Groups
<1>9. TxsSound /\ WriterSound
  BY <1>1, NothingHeld DEF TxsSound, TxSound, LocksApart, Serialised, WriterSound
<1>. QED  BY <1>6, <1>8, <1>9 DEF FirewallSound

LEMMA FirewallKept == FirewallSound /\ [NextFirewall]_fwvars => FirewallSound'
<1> SUFFICES ASSUME FirewallSound, [NextFirewall]_fwvars PROVE FirewallSound'
  OBVIOUS
<1>1. CASE NextFirewall
  <2>1. CASE \E h \in Handler : Begins(h) \/ Proceeds(h) \/ RollsBack(h)
    BY <2>1, BeginsSound, ProceedsSound, RollsBackSound
  <2>2. CASE \E m \in Machine : \/ ClaimsWrite(m) \/ LaunchTaken(m) \/ Ends(m) \/ Terminates(m)
                                \/ WriteLeaseExpires(m)
    BY <2>2, ClaimsWriteSound, LaunchTakenSound, EndsSound, TerminatesSound, LeaseExpiresSound
  <2>3. CASE Writes
    BY <2>3, MakesVMSound, ReadsGenerationSound, ReadsGroupsSound, ReadsRulesSound, DisablesSound,
       InsertsRuleSound, DeletesRuleSound, FlagsSetSound, RecordsWriteSound, BootsSound DEF Writes
  <2>. QED  BY <1>1, <2>1, <2>2, <2>3, WriteFailsSound, RestartsSound DEF NextFirewall
<1>2. CASE UNCHANGED fwvars
  <2>1. UNCHANGED <<sg, member, fw, writer, tx, asked>>
    BY <1>2 DEF fwvars
  <2>2. WriterSound' /\ \A m \in Machine : MemberSound(m)' /\ IsTrue(m)'
    BY <2>1, RestKept
  <2>3. TypeOKFirewall'
    BY <2>1 DEF FirewallSound, TypeOKFirewall
  <2>4. ASSUME NEW k \in Handler PROVE TxSound(k)'
    <3>1. TxSound(k)
      BY DEF FirewallSound, TxsSound
    <3>2. Relies(k)
      BY <2>1, <3>1, NothingHeld
      DEF Relies, MembersOf, TxSound, ChangeSound, MembershipSound, CreationSound, DescribeSound
    <3>. QED  BY <2>1, <3>1, <3>2, TxSoundKept
  <2>5. \A h, k \in Handler : h # k => LocksApart(h, k)'
    BY <2>1 DEF FirewallSound, TxsSound, LocksApart
  <2>. QED  BY <2>2, <2>3, <2>4, <2>5 DEF FirewallSound, TxsSound
<1>. QED  BY <1>1, <1>2

LEMMA FirewallIsSound == SpecFirewall => []FirewallSound
<1>. QED  BY FirewallAtFirst, FirewallKept, PTL DEF SpecFirewall

\* The variables hold what their columns and Proxmox's settings may hold, and
\* every request and write keeps it so.
THEOREM FirewallTyped == SpecFirewall => []TypeOKFirewall
<1>1. FirewallSound => TypeOKFirewall
  BY DEF FirewallSound
<1>. QED  BY <1>1, FirewallIsSound, PTL

\* An instance whose applied generation is its generation has its groups' rules on
\* its VM and is filtered, however many groups, instances and requests there are:
\* what AuthorizeRules, RevokeRule, SetInstanceSecurityGroups and a restart change
\* under the writer moves the generation it has read.
THEOREM FirewallAlwaysTrue == SpecFirewall => []FirewallIsTrue
<1>1. FirewallSound => FirewallIsTrue
  BY DEF FirewallSound, IsTrue, Due, Exists, Untorn, FirewallIsTrue
<1>. QED  BY <1>1, FirewallIsSound, PTL

-----------------------------------------------------------------------------
(* What a step of the worker takes away                                     *)

LEMMA AllowedConcat ==
  ASSUME NEW s \in Seq(Rule), NEW t \in Seq(Rule)
  PROVE  Allowed(s) \subseteq Allowed(s \o t) /\ Allowed(t) \subseteq Allowed(s \o t)
<1>1. /\ s \o t \in Seq(Rule) /\ Len(s \o t) = Len(s) + Len(t) /\ Len(s) \in Nat /\ Len(t) \in Nat
      /\ \A n \in 1..Len(s) + Len(t) : (s \o t)[n] = IF n <= Len(s) THEN s[n] ELSE t[n - Len(s)]
  BY ConcatProperties, LenProperties
<1>2. DOMAIN (s \o t) = 1..Len(s) + Len(t) /\ DOMAIN s = 1..Len(s) /\ DOMAIN t = 1..Len(t)
  BY <1>1, LenProperties
<1>3. ASSUME NEW n \in DOMAIN s PROVE n \in DOMAIN (s \o t) /\ (s \o t)[n] = s[n]
  BY <1>1, <1>2
<1>4. ASSUME NEW n \in DOMAIN t PROVE Len(s) + n \in DOMAIN (s \o t) /\ (s \o t)[Len(s) + n] = t[n]
  BY <1>1, <1>2
<1>5. \A v : Allowed(v) = {v[n][2] : n \in DOMAIN v}
  BY DEF Allowed, ToSet
<1>6. ASSUME NEW v, NEW u, NEW n \in DOMAIN v, NEW k \in DOMAIN u, u[k] = v[n]
      PROVE  v[n][2] \in Allowed(u)
  BY <1>5, <1>6
<1>7. \A n \in DOMAIN s : s[n][2] \in Allowed(s \o t)
  BY <1>3, <1>6
<1>8. \A n \in DOMAIN t : t[n][2] \in Allowed(s \o t)
  BY <1>4, <1>6
<1>. QED  BY <1>5, <1>7, <1>8

\* While rules are replaced the list holds all of the old ones or all of the new ones.
LEMMA ListHolds ==
  ASSUME FirewallSound, writer.step \in Replacing
  PROVE  /\ writer.step = "insert" => Allowed(writer.current) \subseteq Allowed(fw[writer.inst].rules)
         /\ writer.step = "delete" => Allowed(writer.desired) \subseteq Allowed(fw[writer.inst].rules)
<1>1. writer.step # "idle"
  BY DEF Replacing
<1>2. PICK w, now : w = writer /\ now = fw[writer.inst].rules
  OBVIOUS
<1>3. /\ w.desired \in Seq(Rule) /\ w.current \in Seq(Rule)
      /\ Len(w.desired) \in Nat /\ Len(w.current) \in Nat
      /\ w.step = "insert" => w.left \in 1..Len(w.desired)
      /\ w.step = "delete" => w.left \in 1..Len(w.current)
  BY <1>2, ReplacingAt
<1>4. /\ w.step = "insert" => now = SubSeq(w.desired, w.left + 1, Len(w.desired)) \o w.current
      /\ w.step = "delete" => now = w.desired \o SubSeq(w.current, 1, w.left)
  BY <1>1, <1>2, WriterAt DEF ListSound
<1>5. w.step = "insert" => SubSeq(w.desired, w.left + 1, Len(w.desired)) \in Seq(Rule)
  BY <1>3, SubSeqProperties, ElementOfSeq
<1>6. w.step = "delete" => SubSeq(w.current, 1, w.left) \in Seq(Rule)
  BY <1>3, SubSeqProperties, ElementOfSeq
<1>. QED  BY <1>2, <1>3, <1>4, <1>5, <1>6, AllowedConcat

LEMMA RulesReplaced ==
  ASSUME FirewallSound, InsertsRule \/ DeletesRule
  PROVE  Allowed(writer.current) \cap Allowed(writer.desired) \subseteq Allowed(fw'[writer.inst].rules)
<1>1. writer.step \in Replacing /\ writer.step # "idle"
  BY DEF InsertsRule, DeletesRule, Replacing
<1>2. PICK i \in Machine : i = writer.inst
  BY <1>1, WriterAt
<1>3. PICK w : w = writer
  OBVIOUS
<1>4. /\ w \in Write /\ w.desired \in Seq(Rule) /\ w.current \in Seq(Rule)
      /\ Len(w.desired) \in Nat /\ Len(w.current) \in Nat /\ fw[i].rules \in Seq(Rule)
      /\ w.step = "insert" => w.left \in 1..Len(w.desired)
      /\ w.step = "delete" => w.left \in 1..Len(w.current)
  BY <1>1, <1>3, ReplacingAt, Numbers DEF FirewallSound
<1>5. CASE InsertsRule
  <2>1. w.step = "insert" /\ fw'[i].rules = <<w.desired[w.left]>> \o fw[i].rules
    BY <1>2, <1>3, <1>5, Types DEF InsertsRule, Filter
  <2>2. <<w.desired[w.left]>> \in Seq(Rule)
    <3>1. w.desired[w.left] \in Rule
      BY <1>4, <2>1, ElementOfSeq
    <3>. QED  BY <3>1
  <2>3. Allowed(fw[i].rules) \subseteq Allowed(fw'[i].rules)
    BY <1>4, <2>1, <2>2, AllowedConcat
  <2>. QED  BY <1>1, <1>2, <1>3, <2>1, <2>3, ListHolds
<1>6. CASE DeletesRule
  <2>1. w.step = "delete" /\ fw'[i].rules = RemoveAt(fw[i].rules, Len(w.desired) + w.left)
    BY <1>2, <1>3, <1>6, Types DEF DeletesRule, Filter
  <2>2. fw[i].rules = w.desired \o SubSeq(w.current, 1, w.left)
    BY <1>1, <1>2, <1>3, <2>1, WriterAt DEF ListSound
  <2>3. RemoveAt(w.desired \o SubSeq(w.current, 1, w.left), Len(w.desired) + w.left)
          = w.desired \o SubSeq(w.current, 1, w.left - 1)
    BY <1>4, <2>1, FromBelow
  <2>4. SubSeq(w.current, 1, w.left - 1) \in Seq(Rule)
    BY <1>4, <2>1, SubSeqProperties, ElementOfSeq
  <2>5. Allowed(w.desired) \subseteq Allowed(w.desired \o SubSeq(w.current, 1, w.left - 1))
    BY <1>4, <2>4, AllowedConcat
  <2>. QED  BY <1>2, <1>3, <2>1, <2>2, <2>3, <2>5
<1>. QED  BY <1>5, <1>6

\* Nobody but the worker touches the VM it is writing.
LEMMA OnlyTheWorker ==
  ASSUME FirewallSound, NextFirewall, NEW i \in Machine, i = writer.inst
  PROVE  fw'[i] = fw[i] \/ Writes
<1>1. writer.step # "idle" /\ Exists(i)
  BY FirewallAssumption DEF FirewallSound, WriterSound, NoWrite
<1>2. ASSUME NEW h \in Handler, Begins(h) \/ Proceeds(h) \/ RollsBack(h) PROVE fw'[i] = fw[i]
  <2>1. CASE CommitsAdoption(h)
    <3>1. tx[h].on \in Machine /\ member[tx[h].on].state = "none"
      BY <2>1, KindByStep DEF CommitsAdoption, MembershipSound
    <3>2. tx[h].on # i
      BY <1>1, <3>1 DEF Exists
    <3>. QED  BY <2>1, <3>1, <3>2, Types DEF CommitsAdoption
  <2>2. CASE ~CommitsAdoption(h)
    BY <1>2, <2>2
    DEF Begins, Proceeds, RollsBack, LocksForChange, LocksInstance, Opens, LocksGroup, EnsuresDefault,
        InsertsMembership, ChecksGroup, BumpsRow, Advances, Commits, CommitsRules, CommitsGroup,
        CommitsDeletion, CommitsMembership, CommitsLaunch, MakesDefault, MakesDefaultRule
  <2>. QED  BY <2>1, <2>2
<1>3. ASSUME NEW m \in Machine, \/ ClaimsWrite(m) \/ LaunchTaken(m) \/ Ends(m) \/ Terminates(m)
                                \/ WriteLeaseExpires(m)
      PROVE  fw'[i] = fw[i]
  BY <1>1, <1>3 DEF ClaimsWrite, LaunchTaken, Ends, Terminates, WriteLeaseExpires
<1>. QED  BY <1>2, <1>3 DEF NextFirewall, WriteFails, RestartsApi

LEMMA NeverShutNorOpenStep ==
  ASSUME FirewallSound, [NextFirewall]_fwvars, NEW m \in Machine, writer.inst = m
  PROVE  /\ writer.step \in {"insert", "delete"} =>
                Allowed(writer.current) \cap Allowed(writer.desired) \subseteq Allowed(fw'[m].rules)
         /\ ~fw[m].enabled /\ fw'[m].enabled => Allowed(writer.desired) \subseteq Allowed(fw[m].rules)
         /\ ~fw[m].on /\ fw'[m].on /\ writer.groups # {} =>
                fw[m].enabled /\ fw[m].pinned /\ fw[m].nic
<1>1. writer.step # "idle" /\ ListSound /\ FlagsSound /\ fw[m] \in Filter
  BY FirewallAssumption, Types DEF FirewallSound, WriterSound, NoWrite
<1>2. CASE fw'[m] = fw[m]
  BY <1>2, ListHolds DEF Replacing
<1>3. CASE Writes
  <2>1. CASE MakesVM
    BY <1>1, <2>1, Types DEF MakesVM, NoFilter, FlagsSound
  <2>2. CASE ReadsGeneration \/ ReadsGroups \/ ReadsRules \/ RecordsWrite
    BY <1>2, <2>2 DEF ReadsGeneration, ReadsGroups, ReadsRules, RecordsWrite
  <2>3. CASE Disables \/ PinsAddress \/ FiltersNIC
    <3>1. /\ fw'[m].on = fw[m].on /\ (fw'[m].enabled => fw[m].enabled)
          /\ writer.step \in {"disable", "pin", "nic"}
      BY <1>1, <2>3, Types DEF Disables, PinsAddress, FiltersNIC, Filter
    <3>. QED  BY <3>1
  <2>4. CASE InsertsRule \/ DeletesRule
    <3>1. fw'[m].on = fw[m].on /\ fw'[m].enabled = fw[m].enabled
      BY <1>1, <2>4, Types DEF InsertsRule, DeletesRule, Filter
    <3>. QED  BY <2>4, <3>1, RulesReplaced
  <2>5. CASE SetsOptions
    <3>1. fw'[m].on = fw[m].on /\ writer.step = "options"
      BY <1>1, <2>5, Types DEF SetsOptions, Filter
    <3>. QED  BY <1>1, <3>1 DEF ListSound, RulesThere
  <2>6. CASE Boots
    <3>1. fw'[m].enabled = fw[m].enabled /\ writer.step = "boot"
      BY <1>1, <2>6, Types DEF Boots, Filter
    <3>. QED  BY <1>1, <3>1 DEF FlagsSound
  <2>. QED  BY <1>3, <2>1, <2>2, <2>3, <2>4, <2>5, <2>6 DEF Writes
<1>. QED  BY <1>2, <1>3, OnlyTheWorker DEF fwvars

\* No step of the writer takes away what both the old and the new rules allow, or
\* filters over a list that lacks what the groups allow, or boots a launched VM
\* unfiltered (replaceRules, applyFirewall, launch).
THEOREM NeverShutNorOpenAlways == SpecFirewall => NeverShutNorOpen
<1>1. FirewallSound /\ [NextFirewall]_fwvars =>
        [\A m \in Machine : writer.inst = m =>
          /\ writer.step \in {"insert", "delete"} =>
                Allowed(writer.current) \cap Allowed(writer.desired) \subseteq Allowed(fw'[m].rules)
          /\ ~fw[m].enabled /\ fw'[m].enabled =>
                Allowed(writer.desired) \subseteq Allowed(fw[m].rules)
          /\ ~fw[m].on /\ fw'[m].on /\ writer.groups # {} =>
                fw[m].enabled /\ fw[m].pinned /\ fw[m].nic]_fwvars
  BY NeverShutNorOpenStep
<1>. QED  BY <1>1, FirewallIsSound, PTL DEF SpecFirewall, NeverShutNorOpen

=============================================================================
