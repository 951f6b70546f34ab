------------------------------ MODULE Catalog ------------------------------
(***************************************************************************)
(* What instances are launched from: disk images and installation ISOs,    *)
(* each a file in the node's image store and a row that says whose it is,  *)
(* and the SSH keys written into new instances.                            *)
(*                                                                         *)
(* No request here holds a transaction over its steps.  An upload ends in  *)
(* a task of the node that outlives the request; a deletion looks for      *)
(* users, removes the file, then the row; launches resolve what they need  *)
(* at one moment and are admitted at another.                              *)
(***************************************************************************)
EXTENDS Integers, FiniteSets

CONSTANTS Medium,       \* images and ISOs that may come to be
          Iso,          \* those that are ISOs
          SharedMedium, \* declared in site.json: the administrator's files
          Guest,        \* instances
          KeyText,      \* public keys
          Client,       \* requests served at once
          Room,         \* files the store takes before it is nearly full
          MaxJobs       \* bound on the requests made

NoMedium == "no medium"
NoKey    == "no key"
NoGuest  == "no guest"

ASSUME CatalogAssumption ==
    /\ Client \subseteq Nat /\ Iso \subseteq Medium /\ SharedMedium \subseteq Medium
    /\ Room \in Nat /\ MaxJobs \in Nat
    /\ NoMedium \notin Medium /\ NoKey \notin KeyText /\ NoGuest \notin Guest

VARIABLES file,     \* the image store
          library,  \* the rows of the images and isos tables
          pair,     \* the account's one key pair
          guest,    \* the instances launched from them
          job,      \* the request each client has made
          jobs      \* how many were made so far

catalogvars == <<file, library, pair, guest, job, jobs>>

\* A launch copies an image; an installation keeps its ISO as a CD-ROM.
Guests == [state: {"none", "launching", "live", "gone"}, medium: Medium \cup {NoMedium},
           keyed: BOOLEAN, key: KeyText \cup {NoKey}]

Job == [kind: {"none", "upload", "delete", "launch"},
        step: {"idle", "send", "wait", "record", "check", "unlink", "forget", "admit"},
        medium: Medium \cup {NoMedium}, guest: Guest \cup {NoGuest},
        keyed: BOOLEAN, key: KeyText \cup {NoKey}, known: SUBSET Guest]

TypeOKCatalog ==
    /\ file \in [Medium -> {"none", "part", "whole"}]
    /\ library \subseteq Medium
    /\ pair \in KeyText \cup {NoKey}
    /\ guest \in [Guest -> Guests]
    /\ job \in [Client -> Job]
    /\ jobs \in 0..MaxJobs

NoJob == [kind |-> "none", step |-> "idle", medium |-> NoMedium, guest |-> NoGuest,
          keyed |-> FALSE, key |-> NoKey, known |-> {}]

NoOne == [state |-> "none", medium |-> NoMedium, keyed |-> FALSE, key |-> NoKey]

InitCatalog ==
    /\ file = [i \in Medium |-> IF i \in SharedMedium THEN "whole" ELSE "none"]
    /\ library = {}
    /\ pair = NoKey
    /\ guest = [g \in Guest |-> NoOne]
    /\ job = [c \in Client |-> NoJob]
    /\ jobs = 0

OpensJob(c, j) ==
    /\ job[c].step = "idle" /\ \A d \in Client : job[d].step = "idle" => c <= d
    /\ jobs < MaxJobs /\ jobs' = jobs + 1
    /\ job' = [job EXCEPT ![c] = j]
    /\ UNCHANGED <<file, library, pair, guest>>

NextStep(c, step) == job' = [job EXCEPT ![c].step = step] /\ UNCHANGED jobs
EndsJob(c) == job' = [job EXCEPT ![c] = NoJob] /\ UNCHANGED jobs

\* Refused, failed, or the client is gone.
DropsJob(c) == /\ job[c].step # "idle" /\ EndsJob(c)
               /\ UNCHANGED <<file, library, pair, guest>>

-----------------------------------------------------------------------------
(* Uploads: ImportImage and ImportISO. *)

Stored == {i \in Medium : file[i] # "none"}

\* The ID is new; a store that is nearly full takes no upload.  The body is
\* spooled before anything reaches the node.
AsksUpload(c, i) ==
    /\ file[i] = "none" /\ i \notin library /\ \A g \in Guest : guest[g].medium # i
    /\ \A d \in Client : job[d].medium # i
    /\ Cardinality(Stored) < Room
    /\ OpensJob(c, [NoJob EXCEPT !.kind = "upload", !.step = "send", !.medium = i])

\* uploadContent starts a task.
SendsFile(c) ==
    /\ job[c].step = "send"
    /\ file' = [file EXCEPT ![job[c].medium] = "part"]
    /\ NextStep(c, "wait")
    /\ UNCHANGED <<library, pair, guest>>

\* The task validates the file and stores it, or refuses it and leaves nothing,
\* whether anyone waits for it or not.
TaskEnds(i) ==
    /\ file[i] = "part"
    /\ \E result \in {"whole", "none"} : file' = [file EXCEPT ![i] = result]
    /\ UNCHANGED <<library, pair, guest, job, jobs>>

\* storedVolume: what the store made of an image.
Whole(i) == file[i] = "whole"

\* WaitTask, and for an image the look at the store.
WaitsForTask(c) ==
    /\ job[c].step = "wait" /\ Whole(job[c].medium)
    /\ NextStep(c, "record") /\ UNCHANGED <<file, library, pair, guest>>

\* Then the row; its audit may fail, which takes nothing back.
RecordsMedium(c) ==
    /\ job[c].step = "record"
    /\ library' = library \cup {job[c].medium}
    /\ EndsJob(c) /\ UNCHANGED <<file, pair, guest>>

\* The ledger is the record of ownership: a file it rejects is removed.
RemovesRejected(c) ==
    /\ job[c].step = "record"
    /\ file' = [file EXCEPT ![job[c].medium] = "none"]
    /\ EndsJob(c) /\ UNCHANGED <<library, pair, guest>>

-----------------------------------------------------------------------------
(* Deletions: DeleteImage and DeleteISO. *)

\* Its owner or an administrator may; what Terraform declares stays.
AsksDeletion(c, i) ==
    /\ i \in library \ SharedMedium
    /\ OpensJob(c, [NoJob EXCEPT !.kind = "delete", !.step = "check", !.medium = i])

LaunchingFromImage(i) == {g \in Guest : guest[g].medium = i /\ guest[g].state = "launching"}
ISOInUse(i) == {g \in Guest : guest[g].medium = i /\ guest[g].state \in {"launching", "live"}}

UsersOf(i) == IF i \in Iso THEN ISOInUse(i) ELSE LaunchingFromImage(i)

\* Mutant: an ISO is only kept while it is installed from.
ChecksLaunchesOnly(c) ==
    /\ job[c].step = "check" /\ LaunchingFromImage(job[c].medium) = {}
    /\ job' = [job EXCEPT ![c].step = "unlink",
                          ![c].known = {g \in Guest : guest[g].state # "none"}]
    /\ UNCHANGED <<file, library, pair, guest, jobs>>

\* Who it looked at is remembered for the property below only.
ChecksUsers(c) ==
    /\ job[c].step = "check" /\ UsersOf(job[c].medium) = {}
    /\ job' = [job EXCEPT ![c].step = "unlink",
                          ![c].known = {g \in Guest : guest[g].state # "none"}]
    /\ UNCHANGED <<file, library, pair, guest, jobs>>

UnlinksFile(c) ==
    /\ job[c].step = "unlink"
    /\ file' = [file EXCEPT ![job[c].medium] = "none"]
    /\ NextStep(c, "forget") /\ UNCHANGED <<library, pair, guest>>

\* A row somebody else has deleted meanwhile is not found.
ForgetsMedium(c) ==
    /\ job[c].step = "forget" /\ job[c].medium \in library
    /\ library' = library \ {job[c].medium}
    /\ EndsJob(c) /\ UNCHANGED <<file, pair, guest>>

-----------------------------------------------------------------------------
(* Keys: one account's, under one name. *)

ImportsKeyPair(k) ==
    /\ pair = NoKey /\ pair' = k
    /\ UNCHANGED <<file, library, guest, job, jobs>>

DeletesKeyPair ==
    /\ pair # NoKey /\ pair' = NoKey
    /\ UNCHANGED <<file, library, guest, job, jobs>>

-----------------------------------------------------------------------------
(* Launches *)

\* ResolveImage, ResolveISO: declared ones first, then rows; nobody looks for
\* the file.
Resolvable == SharedMedium \cup library

\* The key's text is taken now.
AsksGuest(c, g, i, keyed) ==
    /\ guest[g].state = "none" /\ \A d \in Client : job[d].guest # g
    /\ i \in Resolvable
    /\ keyed => pair # NoKey
    /\ OpensJob(c, [NoJob EXCEPT !.kind = "launch", !.step = "admit", !.medium = i,
                      !.guest = g, !.keyed = keyed, !.key = IF keyed THEN pair ELSE NoKey])

\* See Admission for what stands in between.
AdmitsGuest(c) ==
    /\ job[c].step = "admit"
    /\ guest' = [guest EXCEPT ![job[c].guest] =
                   [state |-> "launching", medium |-> job[c].medium,
                    keyed |-> job[c].keyed, key |-> job[c].key]]
    /\ EndsJob(c) /\ UNCHANGED <<file, library, pair>>

\* The worker makes the VM; without the file the node refuses (see Instances).
GuestBoots(g) ==
    /\ guest[g].state = "launching" /\ file[guest[g].medium] = "whole"
    /\ guest' = [guest EXCEPT ![g].state = "live"]
    /\ UNCHANGED <<file, library, pair, job, jobs>>

GuestEnds(g) ==
    /\ guest[g].state \in {"launching", "live"}
    /\ guest' = [guest EXCEPT ![g].state = "gone"]
    /\ UNCHANGED <<file, library, pair, job, jobs>>

JobSteps(c) ==
    \/ SendsFile(c) \/ WaitsForTask(c) \/ RecordsMedium(c) \/ RemovesRejected(c)
    \/ ChecksUsers(c) \/ UnlinksFile(c) \/ ForgetsMedium(c) \/ AdmitsGuest(c)

NextCatalog ==
    \/ \E c \in Client, i \in Medium :
          \/ AsksUpload(c, i) \/ AsksDeletion(c, i)
          \/ \E g \in Guest, keyed \in BOOLEAN : AsksGuest(c, g, i, keyed)
    \/ \E c \in Client : JobSteps(c) \/ DropsJob(c)
    \/ \E i \in Medium : TaskEnds(i)
    \/ \E g \in Guest : GuestBoots(g) \/ GuestEnds(g)
    \/ DeletesKeyPair \/ \E k \in KeyText : ImportsKeyPair(k)

SpecCatalog == InitCatalog /\ [][NextCatalog]_catalogvars

-----------------------------------------------------------------------------
(* Properties *)

(* A medium is listed only once its file is whole; its file is not taken from *)
(* under an instance that was there when the deletion looked for users; and   *)
(* an instance launched with a key has that key's text, whatever became of    *)
(* the pair since (ImportImage, DeleteImage, DeleteISO, Run's GetKeyPair).    *)
MediaKeptForTheirUsers ==
    [][/\ \A i \in library' \ library : file[i] = "whole"
       /\ \A c \in Client :
             job[c].step = "unlink" /\ job'[c].step = "forget" =>
                UsersOf(job[c].medium) \cap job[c].known = {}
       /\ \A g \in Guest :
             guest[g].state = "launching" /\ guest'[g].state = "live" /\ guest[g].keyed =>
                guest[g].key # NoKey]_catalogvars
=============================================================================
