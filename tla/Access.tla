------------------------------ MODULE Access ------------------------------
(***************************************************************************)
(* Who may call the API: access keys and the bootstrap key's file, logins  *)
(* through Authentik and the sessions they open, and the console URLs that *)
(* let a session connect to a VM once per page load.                       *)
(*                                                                         *)
(* Rows are the database's and survive a restart; console URLs are the     *)
(* process's and do not.  What is handed over (secrets, cookies, tokens)   *)
(* is the identity of the key, attempt or URL it stands for.               *)
(***************************************************************************)
EXTENDS Integers, FiniteSets

CONSTANTS Key,        \* access keys, in the file or made by requests
          MaxActive,  \* maxActiveAccessKeys
          Person,     \* Authentik subjects, one account each
          Attempt,    \* logins begun
          Url,        \* console URLs
          Ticket,     \* VNC tickets
          Visitor,    \* requests served at once
          MaxVisits   \* bound on what requests and time do

Bootstrap == "bootstrap"
NoFile    == "no key"
Nobody    == "nobody"
NoTicket  == 0

ASSUME AccessAssumption ==
    /\ MaxActive \in Nat \ {0} /\ MaxVisits \in Nat /\ IsFiniteSet(Key)
    /\ Bootstrap \notin Person /\ Nobody \notin Person /\ NoFile \notin Key
    /\ Visitor \subseteq Nat /\ Ticket \subseteq Nat \ {0}

VARIABLES key,      \* the access_keys rows
          keyfile,  \* SHAKECLOUD_BOOTSTRAP_KEY_FILE
          serving,  \* the API has started
          group,    \* Authentik's groups
          account,  \* the accounts rows: is_admin
          attempt,  \* the login_attempts rows
          session,  \* the sessions rows
          console,  \* consoleStore
          visit,    \* what each visitor's request is at
          visits,
          opened,   \* sessions opened with each attempt
          joined    \* sockets each ticket was handed to

accessvars == <<key, keyfile, serving, group, account, attempt, session, console,
                visit, visits, opened, joined>>

KeyRow == [owner: Person \cup {Bootstrap, Nobody}, state: {"none", "live", "expired", "revoked"}]

ConsoleRow == [owner: Person \cup {Nobody}, live: BOOLEAN, ticket: Ticket \cup {NoTicket}]

Visit == [step: {"idle", "count", "insert", "exchange", "record", "session", "ticket"},
          who: Person \cup {Nobody}, key: Key \cup {NoFile}, attempt: Attempt \cup {Nobody},
          claim: {"out", "user", "admin"}, url: Url \cup {Nobody}]

TypeOKAccess ==
    /\ key \in [Key -> KeyRow] /\ keyfile \in Key \cup {NoFile} /\ serving \in BOOLEAN
    /\ group \in [Person -> {"out", "user", "admin"}]
    /\ account \in [Person -> {"none", "user", "admin"}]
    /\ attempt \in [Attempt -> {"none", "open", "gone"}]
    /\ session \subseteq Person
    /\ console \in [Url -> ConsoleRow]
    /\ visit \in [Visitor -> Visit] /\ visits \in 0..MaxVisits
    /\ opened \in [Attempt -> Nat] /\ joined \in [Ticket -> SUBSET Visitor]

NoVisit == [step |-> "idle", who |-> Nobody, key |-> NoFile, attempt |-> Nobody,
            claim |-> "out", url |-> Nobody]

NoConsole == [owner |-> Nobody, live |-> FALSE, ticket |-> NoTicket]

\* Some people have used the cloud before; the file may name a key.
InitAccess ==
    /\ key = [k \in Key |-> [owner |-> Nobody, state |-> "none"]]
    /\ keyfile \in Key \cup {NoFile} /\ serving = FALSE
    /\ group = [p \in Person |-> "admin"]
    /\ \E known \in SUBSET Person :
          /\ account = [p \in Person |-> IF p \in known THEN "user" ELSE "none"]
          /\ session = known
    /\ attempt = [a \in Attempt |-> "none"]
    /\ console = [u \in Url |-> NoConsole]
    /\ visit = [v \in Visitor |-> NoVisit] /\ visits = 0
    /\ opened = [a \in Attempt |-> 0] /\ joined = [t \in Ticket |-> {}]

Visited == visits < MaxVisits /\ visits' = visits + 1
Logins == <<group, account, attempt, session, opened>>
Consoles == <<console, joined>>
Keys == <<key, keyfile, serving>>

Comes(v, w) == /\ serving /\ visit[v].step = "idle" /\ Visited
               /\ \A u \in Visitor : visit[u].step = "idle" => v <= u
               /\ visit' = [visit EXCEPT ![v] = w]
Moves(v, step) == visit' = [visit EXCEPT ![v].step = step] /\ UNCHANGED visits
Leaves(v) == visit' = [visit EXCEPT ![v] = NoVisit] /\ UNCHANGED visits

\* Refused, failed or given up at any step.
Abandons(v) == visit[v].step # "idle" /\ Leaves(v) /\ UNCHANGED <<Keys, Logins, Consoles>>

-----------------------------------------------------------------------------
(* Access keys *)

Active(p) == {k \in Key : key[k].owner = p /\ key[k].state = "live"}

\* Mutant: the account is not locked for the count.
AsksKeyUnlocked(v, p, k) ==
    /\ p \in session /\ key[k].state = "none" /\ k # keyfile
    /\ \A w \in Visitor : visit[w].key # k
    /\ Comes(v, [NoVisit EXCEPT !.step = "count", !.who = p, !.key = k])
    /\ UNCHANGED <<Keys, Logins, Consoles>>

\* createAccessKey, up to LockAccount.
AsksKey(v, p, k) ==
    /\ AsksKeyUnlocked(v, p, k)
    /\ \A w \in Visitor : visit[w].step \in {"count", "insert"} => visit[w].who # p

CountsKeys(v) ==
    /\ visit[v].step = "count" /\ Cardinality(Active(visit[v].who)) < MaxActive
    /\ Moves(v, "insert") /\ UNCHANGED <<Keys, Logins, Consoles>>

InsertsKey(v) ==
    /\ visit[v].step = "insert"
    /\ key' = [key EXCEPT ![visit[v].key] = [owner |-> visit[v].who, state |-> "live"]]
    /\ Leaves(v) /\ UNCHANGED <<keyfile, serving, Logins, Consoles>>

\* deleteAccessKey: the owner's, or any for an administrator.
DeletesKey(p, k) ==
    /\ serving /\ p \in session /\ (key[k].owner = p \/ account[p] = "admin")
    /\ key[k].state \in {"live", "expired"}
    /\ key' = [key EXCEPT ![k].state = "revoked"]
    /\ Visited /\ UNCHANGED <<keyfile, serving, Logins, Consoles, visit>>

KeyExpires(k) ==
    /\ key[k].state = "live" /\ key[k].owner # Bootstrap
    /\ key' = [key EXCEPT ![k].state = "expired"]
    /\ Visited /\ UNCHANGED <<keyfile, serving, Logins, Consoles, visit>>

\* manage.py rotate-bootstrap-key, or somebody empties the file.
WritesFile(k) ==
    /\ keyfile # k
    /\ k \in Key => /\ key[k].owner \in {Nobody, Bootstrap}
                    /\ \A w \in Visitor : visit[w].key # k
    /\ keyfile' = k
    /\ Visited /\ UNCHANGED <<key, serving, Logins, Consoles, visit>>

\* ReconcileBootstrapKey, one transaction under an advisory lock: the file's key
\* is registered unless it is known, the account's others are revoked.
ReconcilesBootstrapKey ==
    /\ ~serving /\ serving' = TRUE
    /\ key' = [k \in Key |->
          IF k = keyfile /\ key[k].state = "none" THEN [owner |-> Bootstrap, state |-> "live"]
          ELSE IF k # keyfile /\ key[k].owner = Bootstrap THEN [key[k] EXCEPT !.state = "revoked"]
          ELSE key[k]]
    /\ UNCHANGED <<keyfile, Logins, Consoles, visit, visits>>

\* Requests and the console store are the process's.
Restarts ==
    /\ serving /\ serving' = FALSE
    /\ visit' = [v \in Visitor |-> NoVisit] /\ console' = [u \in Url |-> NoConsole]
    /\ Visited /\ UNCHANGED <<key, keyfile, Logins, joined>>

-----------------------------------------------------------------------------
(* Logins *)

StartsLogin(a) ==
    /\ serving /\ attempt[a] = "none"
    /\ attempt' = [attempt EXCEPT ![a] = "open"]
    /\ Visited /\ UNCHANGED <<Keys, group, account, session, opened, Consoles, visit>>

\* completeLogin: TakeLoginAttempt deletes what it returns.
TakesAttempt(v, a, p) ==
    /\ attempt[a] = "open" /\ attempt' = [attempt EXCEPT ![a] = "gone"]
    /\ Comes(v, [NoVisit EXCEPT !.step = "exchange", !.who = p, !.attempt = a])
    /\ UNCHANGED <<Keys, group, account, session, opened, Consoles>>

\* The token says what groups the person is in now; outside both, no login.
Exchanges(v) ==
    /\ visit[v].step = "exchange" /\ group[visit[v].who] # "out"
    /\ visit' = [visit EXCEPT ![v].step = "record", ![v].claim = group[visit[v].who]]
    /\ UNCHANGED <<Keys, Logins, Consoles, visits>>

RecordsLogin(v) ==
    /\ visit[v].step = "record"
    /\ account' = [account EXCEPT ![visit[v].who] = visit[v].claim]
    /\ Moves(v, "session") /\ UNCHANGED <<Keys, group, attempt, session, opened, Consoles>>

CreatesSession(v) ==
    /\ visit[v].step = "session"
    /\ session' = session \cup {visit[v].who}
    /\ opened' = [opened EXCEPT ![visit[v].attempt] = @ + 1]
    /\ Leaves(v) /\ UNCHANGED <<Keys, group, account, attempt, Consoles>>

\* logout, or DeleteExpired's rows.
EndsSession(p) ==
    /\ p \in session /\ session' = session \ {p}
    /\ Visited /\ UNCHANGED <<Keys, group, account, attempt, opened, Consoles, visit>>

AttemptExpires(a) ==
    /\ attempt[a] = "open" /\ attempt' = [attempt EXCEPT ![a] = "gone"]
    /\ Visited /\ UNCHANGED <<Keys, group, account, session, opened, Consoles, visit>>

ChangesGroup(p, g) ==
    /\ group[p] # g /\ group' = [group EXCEPT ![p] = g]
    /\ Visited /\ UNCHANGED <<Keys, account, attempt, session, opened, Consoles, visit>>

-----------------------------------------------------------------------------
(* Consoles *)

\* createConsoleSession
PutsConsole(p, u) ==
    /\ serving /\ p \in session /\ console[u].owner = Nobody
    /\ console' = [console EXCEPT ![u] = [owner |-> p, live |-> TRUE, ticket |-> NoTicket]]
    /\ Visited /\ UNCHANGED <<Keys, Logins, joined, visit>>

Mine(u, p) == console[u].live /\ console[u].owner = p

\* consolePage: the URL's session, then a ticket from the node.
LoadsPage(v, p, u) ==
    /\ p \in session /\ Mine(u, p)
    /\ Comes(v, [NoVisit EXCEPT !.step = "ticket", !.who = p, !.url = u])
    /\ UNCHANGED <<Keys, Logins, Consoles>>

\* The node's tickets are all different.
SetsTicket(v) ==
    LET u == visit[v].url IN
    /\ visit[v].step = "ticket" /\ Mine(u, visit[v].who)
    /\ \E t \in Ticket :
          /\ joined[t] = {} /\ \A w \in Url : console[w].ticket # t
          /\ console' = [console EXCEPT ![u].ticket = t]
    /\ Leaves(v) /\ UNCHANGED <<Keys, Logins, joined>>

\* Mutant: the ticket stays for the next socket.
ReadsTicket(v, p, u) ==
    /\ serving /\ visit[v].step = "idle" /\ p \in session
    /\ Mine(u, p) /\ console[u].ticket # NoTicket
    /\ joined' = [joined EXCEPT ![console[u].ticket] = @ \cup {v}]
    /\ Visited /\ UNCHANGED <<Keys, Logins, console, visit>>

\* consoleSocket
TakesTicket(v, p, u) ==
    /\ serving /\ visit[v].step = "idle" /\ p \in session
    /\ Mine(u, p) /\ console[u].ticket # NoTicket
    /\ joined' = [joined EXCEPT ![console[u].ticket] = @ \cup {v}]
    /\ console' = [console EXCEPT ![u].ticket = NoTicket]
    /\ Visited /\ UNCHANGED <<Keys, Logins, visit>>

UrlExpires(u) ==
    /\ console[u].live /\ console' = [console EXCEPT ![u].live = FALSE, ![u].ticket = NoTicket]
    /\ Visited /\ UNCHANGED <<Keys, Logins, joined, visit>>

-----------------------------------------------------------------------------

NextAccess ==
    \/ ReconcilesBootstrapKey \/ Restarts
    \/ \E k \in Key \cup {NoFile} : WritesFile(k)
    \/ \E k \in Key : KeyExpires(k) \/ \E p \in Person : DeletesKey(p, k)
    \/ \E a \in Attempt : StartsLogin(a) \/ AttemptExpires(a)
    \/ \E p \in Person : EndsSession(p) \/ \E g \in {"out", "user", "admin"} : ChangesGroup(p, g)
    \/ \E u \in Url : UrlExpires(u) \/ \E p \in Person : PutsConsole(p, u)
    \/ \E v \in Visitor :
          \/ Abandons(v) \/ CountsKeys(v) \/ InsertsKey(v)
          \/ Exchanges(v) \/ RecordsLogin(v) \/ CreatesSession(v) \/ SetsTicket(v)
          \/ \E p \in Person :
                \/ \E k \in Key : AsksKey(v, p, k)
                \/ \E a \in Attempt : TakesAttempt(v, a, p)
                \/ \E u \in Url : LoadsPage(v, p, u) \/ TakesTicket(v, p, u)

SpecAccess == InitAccess /\ [][NextAccess]_accessvars

-----------------------------------------------------------------------------
(* Properties *)

(* However many requests make keys at once, a person's live keys stay within  *)
(* the limit; a deleted key never works again, not even the file's after a    *)
(* restart; and a start leaves the bootstrap account no key but the file's    *)
(* (createAccessKey, deleteAccessKey, ReconcileBootstrapKey).                 *)
KeysKept ==
    [][/\ \A p \in Person : Cardinality(Active(p)') <= MaxActive
       /\ \A k \in Key : key[k].state = "revoked" => key'[k].state = "revoked"
       /\ ~serving /\ serving' =>
             {k \in Key : key'[k].owner = Bootstrap /\ key'[k].state = "live"} \subseteq {keyfile}
      ]_accessvars

(* A login attempt opens at most one session, however often its callback is   *)
(* repeated, and a page load's ticket lets one socket in (TakeLoginAttempt,   *)
(* takeTicket: "so each page load is good for exactly one connection").       *)
TakenOnce ==
    /\ \A a \in Attempt : opened[a] <= 1
    /\ \A t \in Ticket : Cardinality(joined[t]) <= 1
=============================================================================
