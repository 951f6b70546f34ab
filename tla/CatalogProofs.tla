--------------------------- MODULE CatalogProofs ---------------------------
(***************************************************************************)
(* Proofs about images, ISOs and keys, for any number of requests, media   *)
(* and instances.  Nothing is locked: what protects a file is that an      *)
(* upload's ID is nobody else's, and that a deletion only lets instances   *)
(* come to a file that were not there when it looked.                      *)
(***************************************************************************)
EXTENDS Catalog, TLAPS

Uploading(c) == job[c].step \in {"send", "wait", "record"}
Deleting(c)  == job[c].step \in {"check", "unlink", "forget"}

\* Nobody asks for what is being uploaded.
UploadSound(c) ==
    Uploading(c) =>
        /\ job[c].medium \in Medium \ (library \cup SharedMedium)
        /\ \A d \in Client : d # c => job[d].medium # job[c].medium
        /\ job[c].step = "record" => file[job[c].medium] = "whole"

\* Of the instances the deletion looked at, none uses the file.
DeletionSound(c) ==
    Deleting(c) =>
        /\ job[c].medium \in Medium \ SharedMedium
        /\ job[c].step = "unlink" =>
              \A g \in job[c].known : guest[g].state # "none" /\ g \notin UsersOf(job[c].medium)

LaunchSound(c) ==
    job[c].step = "admit" =>
        /\ job[c].medium \in Medium
        /\ job[c].guest \in Guest /\ guest[job[c].guest].state = "none"
        /\ \A d \in Client : d # c => job[d].guest # job[c].guest
        /\ job[c].keyed => job[c].key # NoKey

JobSound(c) == UploadSound(c) /\ DeletionSound(c) /\ LaunchSound(c)

GuestSound(g) == /\ guest[g].state # "none" => guest[g].medium \in Medium
                 /\ guest[g].keyed => guest[g].key # NoKey

CatalogSound ==
    /\ TypeOKCatalog
    /\ \A i \in SharedMedium : file[i] = "whole"
    /\ \A c \in Client : JobSound(c)
    /\ \A g \in Guest : GuestSound(g)

-----------------------------------------------------------------------------
(* Types                                                                    *)

Steps == {"idle", "send", "wait", "record", "check", "unlink", "forget", "admit"}

LEMMA NoJobTyped == NoJob \in Job /\ NoOne \in Guests
BY DEF NoJob, Job, NoOne, Guests

LEMMA JobTyped ==
  ASSUME TypeOKCatalog, NEW c \in Client
  PROVE  /\ job[c] \in Job
         /\ \A s \in Steps : [job[c] EXCEPT !.step = s] \in Job
         /\ \A s \in Steps, k \in SUBSET Guest : [job[c] EXCEPT !.step = s, !.known = k] \in Job
<1>1. job[c] \in Job
  BY DEF TypeOKCatalog
<1>2. \A s \in Steps : [job[c] EXCEPT !.step = s] \in Job
  BY <1>1 DEF Job, Steps
<1>3. \A s \in Steps, k \in SUBSET Guest : [job[c] EXCEPT !.step = s, !.known = k] \in Job
  BY <1>1 DEF Job, Steps
<1>. QED  BY <1>1, <1>2, <1>3

\* What an opened request looks like.
LEMMA LaunchOpenedTyped ==
  ASSUME NEW i \in Medium, NEW g \in Guest, NEW keyed \in BOOLEAN, NEW k \in KeyText \cup {NoKey}
  PROVE  [NoJob EXCEPT !.kind = "launch", !.step = "admit", !.medium = i,
                       !.guest = g, !.keyed = keyed, !.key = k] \in Job
BY DEF NoJob, Job

LEMMA UploadOpenedTyped ==
  ASSUME NEW i \in Medium
  PROVE  /\ [NoJob EXCEPT !.kind = "upload", !.step = "send", !.medium = i] \in Job
         /\ [NoJob EXCEPT !.kind = "delete", !.step = "check", !.medium = i] \in Job
BY DEF NoJob, Job

LEMMA OpensTyped ==
  ASSUME TypeOKCatalog, NEW c \in Client, NEW j \in Job, OpensJob(c, j)
  PROVE  TypeOKCatalog'
BY CatalogAssumption DEF TypeOKCatalog, OpensJob

LEMMA JobStepTyped ==
  ASSUME TypeOKCatalog, NEW c \in Client, NEW s \in Steps, NextStep(c, s)
  PROVE  job' \in [Client -> Job] /\ jobs' \in 0..MaxJobs
<1>1. [job[c] EXCEPT !.step = s] \in Job
  BY JobTyped
<1>2. job' = [job EXCEPT ![c] = [job[c] EXCEPT !.step = s]]
  BY DEF NextStep
<1>. QED  BY <1>1, <1>2 DEF TypeOKCatalog, NextStep

LEMMA EndsTyped ==
  ASSUME TypeOKCatalog, NEW c \in Client, EndsJob(c)
  PROVE  job' \in [Client -> Job] /\ jobs' \in 0..MaxJobs
BY NoJobTyped DEF TypeOKCatalog, EndsJob

LEMMA JobStepsTyped ==
  ASSUME CatalogSound, NEW c \in Client, JobSteps(c)
  PROVE  TypeOKCatalog'
<1> USE DEF CatalogSound, JobSound
<1>0. TypeOKCatalog /\ UploadSound(c) /\ DeletionSound(c) /\ LaunchSound(c)
  OBVIOUS
<1>1. CASE SendsFile(c)
  <2>1. NextStep(c, "wait") /\ "wait" \in Steps
    BY <1>1 DEF SendsFile, Steps
  <2>. QED  BY <1>0, <1>1, <2>1, JobStepTyped DEF SendsFile, TypeOKCatalog
<1>2. CASE WaitsForTask(c)
  <2>1. NextStep(c, "record") /\ "record" \in Steps
    BY <1>2 DEF WaitsForTask, Steps
  <2>. QED  BY <1>0, <1>2, <2>1, JobStepTyped DEF WaitsForTask, TypeOKCatalog
<1>3. CASE RecordsMedium(c)
  <2>1. job[c].medium \in Medium
    BY <1>0, <1>3 DEF RecordsMedium, UploadSound, Uploading
  <2>. QED  BY <1>0, <1>3, <2>1, EndsTyped DEF RecordsMedium, TypeOKCatalog
<1>4. CASE RemovesRejected(c)
  BY <1>0, <1>4, EndsTyped DEF RemovesRejected, TypeOKCatalog
<1>5. CASE ChecksUsers(c)
  <2> DEFINE k == {g \in Guest : guest[g].state # "none"}
  <2>1. job' = [job EXCEPT ![c] = [job[c] EXCEPT !.step = "unlink", !.known = k]]
    BY <1>5, <1>0 DEF ChecksUsers, TypeOKCatalog
  <2>2. "unlink" \in Steps /\ k \in SUBSET Guest
    BY DEF Steps
  <2> HIDE DEF k
  <2>3. [job[c] EXCEPT !.step = "unlink", !.known = k] \in Job
    BY <1>0, <2>2, JobTyped
  <2>. QED  BY <1>0, <1>5, <2>1, <2>3 DEF ChecksUsers, TypeOKCatalog
<1>6. CASE UnlinksFile(c)
  <2>1. NextStep(c, "forget") /\ "forget" \in Steps
    BY <1>6 DEF UnlinksFile, Steps
  <2>. QED  BY <1>0, <1>6, <2>1, JobStepTyped DEF UnlinksFile, TypeOKCatalog
<1>7. CASE ForgetsMedium(c)
  BY <1>0, <1>7, EndsTyped DEF ForgetsMedium, TypeOKCatalog
<1>8. CASE AdmitsGuest(c)
  <2>1. [state |-> "launching", medium |-> job[c].medium,
         keyed |-> job[c].keyed, key |-> job[c].key] \in Guests
    BY <1>0, JobTyped DEF Guests, Job
  <2>. QED  BY <1>0, <1>8, <2>1, EndsTyped DEF AdmitsGuest, TypeOKCatalog
<1>. QED  BY <1>1, <1>2, <1>3, <1>4, <1>5, <1>6, <1>7, <1>8 DEF JobSteps

LEMMA CatalogTypesKept == CatalogSound /\ [NextCatalog]_catalogvars => TypeOKCatalog'
<1> SUFFICES ASSUME CatalogSound, [NextCatalog]_catalogvars PROVE TypeOKCatalog'
  OBVIOUS
<1>0. TypeOKCatalog
  BY DEF CatalogSound
<1>1. ASSUME NEW c \in Client, NEW i \in Medium, AsksUpload(c, i) \/ AsksDeletion(c, i)
      PROVE  TypeOKCatalog'
  BY <1>0, <1>1, UploadOpenedTyped, OpensTyped DEF AsksUpload, AsksDeletion
<1>2. ASSUME NEW c \in Client, NEW i \in Medium, NEW g \in Guest, NEW keyed \in BOOLEAN,
             AsksGuest(c, g, i, keyed)
      PROVE  TypeOKCatalog'
  <2> DEFINE k == IF keyed THEN pair ELSE NoKey
  <2>1. k \in KeyText \cup {NoKey}
    BY <1>0 DEF TypeOKCatalog
  <2>2. OpensJob(c, [NoJob EXCEPT !.kind = "launch", !.step = "admit", !.medium = i,
                          !.guest = g, !.keyed = keyed, !.key = k])
    BY <1>2 DEF AsksGuest
  <2> HIDE DEF k
  <2>. QED  BY <1>0, <2>1, <2>2, LaunchOpenedTyped, OpensTyped
<1>3. ASSUME NEW c \in Client, DropsJob(c) PROVE TypeOKCatalog'
  BY <1>0, <1>3, EndsTyped DEF DropsJob, TypeOKCatalog
<1>4. ASSUME NEW i \in Medium, TaskEnds(i) PROVE TypeOKCatalog'
  BY <1>0, <1>4 DEF TaskEnds, TypeOKCatalog
<1>5. ASSUME NEW g \in Guest, GuestBoots(g) \/ GuestEnds(g) PROVE TypeOKCatalog'
  <2>1. \A s \in {"live", "gone"} : [guest[g] EXCEPT !.state = s] \in Guests
    BY <1>0 DEF TypeOKCatalog, Guests
  <2>2. PICK s \in {"live", "gone"} : guest' = [guest EXCEPT ![g] = [guest[g] EXCEPT !.state = s]]
    BY <1>5 DEF GuestBoots, GuestEnds
  <2>3. guest' \in [Guest -> Guests]
    BY <1>0, <2>1, <2>2 DEF TypeOKCatalog
  <2>. QED  BY <1>0, <1>5, <2>3 DEF GuestBoots, GuestEnds, TypeOKCatalog
<1>6. CASE DeletesKeyPair \/ \E k \in KeyText : ImportsKeyPair(k)
  BY <1>0, <1>6 DEF DeletesKeyPair, ImportsKeyPair, TypeOKCatalog
<1>7. CASE UNCHANGED catalogvars
  BY <1>0, <1>7 DEF catalogvars, TypeOKCatalog
<1>. QED
  BY <1>1, <1>2, <1>3, <1>4, <1>5, <1>6, <1>7, JobStepsTyped DEF NextCatalog

-----------------------------------------------------------------------------
(* The invariant                                                            *)

LEMMA CatalogSoundAtFirst == InitCatalog => CatalogSound
<1> SUFFICES ASSUME InitCatalog PROVE CatalogSound
  OBVIOUS
<1>1. TypeOKCatalog
  BY NoJobTyped, CatalogAssumption DEF InitCatalog, TypeOKCatalog
<1>2. \A i \in SharedMedium : file[i] = "whole"
  BY CatalogAssumption DEF InitCatalog
<1>3. \A c \in Client : JobSound(c)
  BY DEF InitCatalog, NoJob, JobSound, UploadSound, DeletionSound, LaunchSound, Uploading, Deleting
<1>4. \A g \in Guest : GuestSound(g)
  BY DEF InitCatalog, NoOne, GuestSound
<1>. QED  BY <1>1, <1>2, <1>3, <1>4 DEF CatalogSound

\* A request that is over counts on nothing.
LEMMA NoJobSound ==
  ASSUME NEW c \in Client, job'[c] = NoJob
  PROVE  JobSound(c)'
BY DEF NoJob, JobSound, UploadSound, DeletionSound, LaunchSound, Uploading, Deleting

\* A request that only touches its own medium disturbs no other.
LEMMA OthersKept ==
  ASSUME CatalogSound, NEW c \in Client, NEW r \in Job,
         job' = [job EXCEPT ![c] = r], UNCHANGED guest,
         r.medium \in {job[c].medium, NoMedium}, r.guest \in {job[c].guest, NoGuest},
         library' \subseteq library \cup {job[c].medium},
         \A i \in Medium : file'[i] # file[i] => i = job[c].medium
  PROVE  \A d \in Client : d # c => JobSound(d)'
<1> SUFFICES ASSUME NEW d \in Client, d # c PROVE JobSound(d)'
  OBVIOUS
<1>1. job'[c] = r /\ \A e \in Client : e # c => job'[e] = job[e]
  BY DEF CatalogSound, TypeOKCatalog
<1>2. UploadSound(d) /\ DeletionSound(d) /\ LaunchSound(d)
  BY DEF CatalogSound, JobSound
<1>3. UploadSound(d)'
  <2> SUFFICES ASSUME Uploading(d)' PROVE UploadSound(d)'
    BY DEF UploadSound
  <2>1. Uploading(d) /\ job'[d] = job[d]
    BY <1>1 DEF Uploading
  <2>2. job[d].medium \in Medium \ (library \cup SharedMedium)
        /\ \A e \in Client : e # d => job[e].medium # job[d].medium
    BY <1>2, <2>1 DEF UploadSound
  <2>3. \A e \in Client : e # d => job'[e].medium # job[d].medium
    BY <1>1, <2>2, CatalogAssumption
  <2>4. job[d].step = "record" => file'[job[d].medium] = "whole"
    BY <1>2, <2>1, <2>2 DEF UploadSound
  <2>. QED  BY <2>1, <2>2, <2>3, <2>4 DEF UploadSound
<1>4. DeletionSound(d)'
  BY <1>1, <1>2 DEF DeletionSound, Deleting, UsersOf, ISOInUse, LaunchingFromImage
<1>5. LaunchSound(d)'
  BY <1>1, <1>2, CatalogAssumption DEF LaunchSound
<1>. QED  BY <1>3, <1>4, <1>5 DEF JobSound

\* The same for requests that end.
LEMMA OthersKeptAtEnd ==
  ASSUME CatalogSound, NEW c \in Client, EndsJob(c), UNCHANGED guest,
         library' \subseteq library \cup {job[c].medium},
         \A i \in Medium : file'[i] # file[i] => i = job[c].medium
  PROVE  \A d \in Client : JobSound(d)'
<1>1. job' = [job EXCEPT ![c] = NoJob] /\ job'[c] = NoJob
  BY DEF EndsJob, CatalogSound, TypeOKCatalog
<1>2. NoJob.medium = NoMedium /\ NoJob.guest = NoGuest
  BY DEF NoJob
<1>. QED  BY <1>1, <1>2, NoJobTyped, NoJobSound, OthersKept

LEMMA GuestsKept ==
  ASSUME CatalogSound, UNCHANGED guest
  PROVE  \A g \in Guest : GuestSound(g)'
BY DEF CatalogSound, GuestSound

LEMMA FilesKept ==
  ASSUME CatalogSound, UNCHANGED file
  PROVE  \A i \in SharedMedium : file'[i] = "whole"
BY DEF CatalogSound

\* Requests that go on with what they have.
LEMMA OnwardKept ==
  ASSUME CatalogSound, NEW c \in Client,
         SendsFile(c) \/ WaitsForTask(c) \/ ChecksUsers(c) \/ UnlinksFile(c)
  PROVE  \A d \in Client : JobSound(d)'
<1>0. /\ UploadSound(c) /\ DeletionSound(c)
      /\ job \in [Client -> Job] /\ file \in [Medium -> {"none", "part", "whole"}]
      /\ job[c] \in Job
  BY DEF CatalogSound, JobSound, TypeOKCatalog
<1> DEFINE r == job'[c]
<1>1. /\ r \in Job /\ job' = [job EXCEPT ![c] = r]
      /\ r.medium = job[c].medium /\ r.guest = job[c].guest
      /\ r = [job[c] EXCEPT !.step = r.step, !.known = r.known]
  <2>1. CASE SendsFile(c)
    BY <1>0, <2>1 DEF SendsFile, NextStep, Job
  <2>2. CASE WaitsForTask(c)
    BY <1>0, <2>2 DEF WaitsForTask, NextStep, Job
  <2>3. CASE UnlinksFile(c)
    BY <1>0, <2>3 DEF UnlinksFile, NextStep, Job
  <2>4. CASE ChecksUsers(c)
    <3> DEFINE k == {g \in Guest : guest[g].state # "none"}
    <3>1. k \in SUBSET Guest
      OBVIOUS
    <3>2. job' = [job EXCEPT ![c] = [job[c] EXCEPT !.step = "unlink", !.known = k]]
      BY <1>0, <2>4 DEF ChecksUsers
    <3> HIDE DEF k
    <3>. QED  BY <1>0, <3>1, <3>2 DEF Job
  <2>. QED  BY <2>1, <2>2, <2>3, <2>4
<1>2. /\ UNCHANGED <<guest, library>>
      /\ \A i \in Medium : file'[i] # file[i] => i = job[c].medium
  BY <1>0 DEF SendsFile, WaitsForTask, ChecksUsers, UnlinksFile
<1>3. \A d \in Client : d # c => JobSound(d)'
  BY <1>1, <1>2, OthersKept
<1>4. JobSound(c)'
  <2>1. CASE SendsFile(c) \/ WaitsForTask(c)
    <3>1. Uploading(c) /\ job'[c].step \in {"wait", "record"}
          /\ (job'[c].step = "record" => file'[job[c].medium] = "whole")
      <4>1. CASE SendsFile(c)
        BY <1>0, <4>1 DEF SendsFile, NextStep, Uploading, Job
      <4>2. CASE WaitsForTask(c)
        BY <1>0, <4>2 DEF WaitsForTask, NextStep, Uploading, Whole, Job
      <4>. QED  BY <2>1, <4>1, <4>2
    <3>2. UploadSound(c)'
      BY <1>0, <1>1, <1>2, <3>1 DEF UploadSound
    <3>. QED  BY <3>1, <3>2 DEF JobSound, DeletionSound, LaunchSound, Deleting
  <2>2. CASE ChecksUsers(c) \/ UnlinksFile(c)
    <3>1. Deleting(c) /\ job'[c].step \in {"unlink", "forget"}
      BY <1>0, <2>2 DEF ChecksUsers, UnlinksFile, NextStep, Deleting, Job
    <3>2. job'[c].step = "unlink" =>
            /\ UsersOf(job[c].medium) = {}
            /\ job'[c].known = {g \in Guest : guest[g].state # "none"}
      BY <1>0, <2>2 DEF ChecksUsers, UnlinksFile, NextStep, Job
    <3>3. UsersOf(job[c].medium)' = UsersOf(job[c].medium)
      BY <1>1, <1>2 DEF UsersOf, ISOInUse, LaunchingFromImage
    <3>4. job'[c].medium = job[c].medium /\ guest' = guest
      BY <1>1, <1>2
    <3>5. job[c].medium \in Medium \ SharedMedium
      BY <1>0, <3>1 DEF DeletionSound
    <3>6. DeletionSound(c)'
      BY <3>2, <3>3, <3>4, <3>5 DEF DeletionSound
    <3>. QED  BY <3>1, <3>6 DEF JobSound, UploadSound, LaunchSound, Uploading
  <2>. QED  BY <2>1, <2>2
<1>. QED  BY <1>3, <1>4

\* Requests that end with a row, without one, or by removing it.
LEMMA EndsKept ==
  ASSUME CatalogSound, NEW c \in Client,
         RecordsMedium(c) \/ RemovesRejected(c) \/ ForgetsMedium(c) \/ DropsJob(c)
  PROVE  \A d \in Client : JobSound(d)'
<1>1. EndsJob(c) /\ UNCHANGED guest /\ library' \subseteq library \cup {job[c].medium}
  BY DEF RecordsMedium, RemovesRejected, ForgetsMedium, DropsJob
<1>2. \A i \in Medium : file'[i] # file[i] => i = job[c].medium
  BY DEF RecordsMedium, RemovesRejected, ForgetsMedium, DropsJob, CatalogSound, TypeOKCatalog
<1>. QED  BY <1>1, <1>2, OthersKeptAtEnd

LEMMA AdmissionKept ==
  ASSUME CatalogSound, NEW c \in Client, AdmitsGuest(c)
  PROVE  CatalogSound'
<1> DEFINE g == job[c].guest
           new == [state |-> "launching", medium |-> job[c].medium,
                   keyed |-> job[c].keyed, key |-> job[c].key]
<1>0. /\ job \in [Client -> Job] /\ guest \in [Guest -> Guests]
      /\ g \in Guest /\ guest[g].state = "none" /\ job[c].medium \in Medium
      /\ \A d \in Client : d # c => job[d].guest # g
      /\ job[c].keyed => job[c].key # NoKey
  BY DEF CatalogSound, JobSound, LaunchSound, AdmitsGuest, TypeOKCatalog
<1>1. /\ guest' = [guest EXCEPT ![g] = new] /\ UNCHANGED <<file, library>>
      /\ job'[c] = NoJob /\ \A d \in Client : d # c => job'[d] = job[d]
  BY <1>0 DEF AdmitsGuest, EndsJob
<1>2. \A h \in Guest : IF h = g THEN guest'[h] = new ELSE guest'[h] = guest[h]
  BY <1>0, <1>1
<1>3. new.state = "launching" /\ new.medium = job[c].medium
      /\ new.keyed = job[c].keyed /\ new.key = job[c].key
  OBVIOUS
<1> HIDE DEF g, new
<1>4. ASSUME NEW d \in Client, d # c PROVE JobSound(d)'
  <2>1. UploadSound(d) /\ DeletionSound(d) /\ LaunchSound(d)
    BY DEF CatalogSound, JobSound
  <2>2. job'[d] = job[d]
    BY <1>1, <1>4
  <2>3. UploadSound(d)'
    <3> SUFFICES ASSUME Uploading(d)' PROVE UploadSound(d)'
      BY DEF UploadSound
    <3>1. Uploading(d)
      BY <2>2 DEF Uploading
    <3>2. \A e \in Client : e # d => job'[e].medium # job[d].medium
      BY <1>1, <2>1, <3>1, CatalogAssumption DEF UploadSound, NoJob
    <3>. QED  BY <1>1, <2>1, <2>2, <3>1, <3>2 DEF UploadSound
  <2>4. DeletionSound(d)'
    <3> SUFFICES ASSUME Deleting(d)' PROVE DeletionSound(d)'
      BY DEF DeletionSound
    <3>1. Deleting(d)
      BY <2>2 DEF Deleting
    <3>2. job[d].known \subseteq Guest
      BY <1>0 DEF Job
    <3>3. ASSUME job[d].step = "unlink", NEW h \in job[d].known
          PROVE  guest'[h].state # "none" /\ h \notin UsersOf(job[d].medium)'
      <4>1. h \in Guest /\ guest[h].state # "none" /\ h \notin UsersOf(job[d].medium)
        BY <2>1, <3>1, <3>2, <3>3 DEF DeletionSound
      <4>2. guest'[h] = guest[h]
        BY <1>0, <1>2, <4>1
      <4>. QED  BY <2>2, <4>1, <4>2 DEF UsersOf, ISOInUse, LaunchingFromImage
    <3>. QED  BY <2>1, <2>2, <3>1, <3>3 DEF DeletionSound
  <2>5. LaunchSound(d)'
    <3> SUFFICES ASSUME job[d].step = "admit" PROVE LaunchSound(d)'
      BY <2>2 DEF LaunchSound
    <3>1. job[d].guest \in Guest /\ job[d].guest # g
      BY <1>0, <1>4, <2>1 DEF LaunchSound
    <3>2. \A e \in Client : e # d => job'[e].guest # job[d].guest
      BY <1>1, <2>1, <3>1, CatalogAssumption DEF LaunchSound, NoJob
    <3>. QED  BY <1>2, <2>1, <2>2, <3>1, <3>2 DEF LaunchSound
  <2>. QED  BY <2>3, <2>4, <2>5 DEF JobSound
<1>5. \A d \in Client : JobSound(d)'
  BY <1>1, <1>4, NoJobSound
<1>6. \A h \in Guest : GuestSound(h)'
  BY <1>0, <1>2, <1>3 DEF GuestSound, CatalogSound
<1>7. TypeOKCatalog'
  BY JobStepsTyped DEF JobSteps
<1>. QED  BY <1>1, <1>5, <1>6, <1>7 DEF CatalogSound

\* A request that is opened asks for what nobody has reserved.
LEMMA OpenedKept ==
  ASSUME CatalogSound, NEW c \in Client, NEW j \in Job, OpensJob(c, j),
         \A d \in Client : d # c /\ Uploading(d) => j.medium # job[d].medium,
         \A d \in Client : d # c /\ job[d].step = "admit" => j.guest # job[d].guest,
         JobSound(c)'
  PROVE  CatalogSound'
<1>1. /\ UNCHANGED <<file, library, guest>>
      /\ job'[c] = j /\ \A d \in Client : d # c => job'[d] = job[d]
  BY DEF OpensJob, CatalogSound, TypeOKCatalog
<1>2. ASSUME NEW d \in Client, d # c PROVE JobSound(d)'
  <2>1. UploadSound(d) /\ DeletionSound(d) /\ LaunchSound(d) /\ job'[d] = job[d]
    BY <1>1, <1>2 DEF CatalogSound, JobSound
  <2>2. UploadSound(d)'
    BY <1>1, <1>2, <2>1 DEF UploadSound, Uploading
  <2>3. DeletionSound(d)'
    BY <1>1, <2>1 DEF DeletionSound, Deleting, UsersOf, ISOInUse, LaunchingFromImage
  <2>4. LaunchSound(d)'
    BY <1>1, <1>2, <2>1 DEF LaunchSound
  <2>. QED  BY <2>2, <2>3, <2>4 DEF JobSound
<1>3. TypeOKCatalog'
  BY OpensTyped DEF CatalogSound
<1>4. (\A i \in SharedMedium : file'[i] = "whole") /\ (\A g \in Guest : GuestSound(g)')
  BY <1>1, FilesKept, GuestsKept
<1>. QED  BY <1>2, <1>3, <1>4 DEF CatalogSound

LEMMA AskedKept ==
  ASSUME CatalogSound, NEW c \in Client, NEW i \in Medium,
         \/ AsksUpload(c, i) \/ AsksDeletion(c, i)
         \/ \E g \in Guest, keyed \in BOOLEAN : AsksGuest(c, g, i, keyed)
  PROVE  CatalogSound'
<1>0. /\ job \in [Client -> Job] /\ pair \in KeyText \cup {NoKey}
      /\ \A d \in Client : UploadSound(d) /\ LaunchSound(d)
  BY DEF CatalogSound, TypeOKCatalog, JobSound
<1>1. CASE AsksUpload(c, i)
  <2> DEFINE j == [NoJob EXCEPT !.kind = "upload", !.step = "send", !.medium = i]
  <2>1. OpensJob(c, j) /\ j \in Job
    BY <1>1, UploadOpenedTyped DEF AsksUpload
  <2>2. j.step = "send" /\ j.medium = i /\ j.guest = NoGuest
    BY DEF NoJob
  <2> HIDE DEF j
  <2>3. job'[c] = j /\ UNCHANGED library /\ \A d \in Client : d # c => job'[d] = job[d]
    BY <1>0, <2>1 DEF OpensJob
  <2>4. i \notin SharedMedium /\ i \notin library /\ \A d \in Client : job[d].medium # i
    BY <1>1 DEF AsksUpload, CatalogSound
  <2>5. JobSound(c)'
    BY <2>2, <2>3, <2>4 DEF JobSound, UploadSound, DeletionSound, LaunchSound, Uploading, Deleting
  <2>6. \A d \in Client : job[d].step = "admit" => j.guest # job[d].guest
    BY <1>0, <2>2, CatalogAssumption DEF LaunchSound
  <2>. QED  BY <2>1, <2>2, <2>4, <2>5, <2>6, OpenedKept
<1>2. CASE AsksDeletion(c, i)
  <2> DEFINE j == [NoJob EXCEPT !.kind = "delete", !.step = "check", !.medium = i]
  <2>1. OpensJob(c, j) /\ j \in Job
    BY <1>2, UploadOpenedTyped DEF AsksDeletion
  <2>2. j.step = "check" /\ j.medium = i /\ j.guest = NoGuest
    BY DEF NoJob
  <2> HIDE DEF j
  <2>3. job'[c] = j
    BY <1>0, <2>1 DEF OpensJob
  <2>4. i \in library /\ i \notin SharedMedium
    BY <1>2 DEF AsksDeletion
  <2>5. JobSound(c)'
    BY <2>2, <2>3, <2>4 DEF JobSound, UploadSound, DeletionSound, LaunchSound, Uploading, Deleting
  <2>6. /\ \A d \in Client : job[d].step = "admit" => j.guest # job[d].guest
        /\ \A d \in Client : Uploading(d) => j.medium # job[d].medium
    BY <1>0, <2>2, <2>4, CatalogAssumption DEF LaunchSound, UploadSound
  <2>. QED  BY <2>1, <2>5, <2>6, OpenedKept
<1>3. ASSUME NEW g \in Guest, NEW keyed \in BOOLEAN, AsksGuest(c, g, i, keyed)
      PROVE  CatalogSound'
  <2> DEFINE k == IF keyed THEN pair ELSE NoKey
             j == [NoJob EXCEPT !.kind = "launch", !.step = "admit", !.medium = i,
                                !.guest = g, !.keyed = keyed, !.key = k]
  <2>1. OpensJob(c, j) /\ k \in KeyText \cup {NoKey} /\ (keyed => k # NoKey)
    BY <1>0, <1>3 DEF AsksGuest
  <2>2. j.step = "admit" /\ j.medium = i /\ j.guest = g /\ j.keyed = keyed /\ j.key = k
    BY DEF NoJob
  <2> HIDE DEF k
  <2>3. j \in Job
    BY <2>1, LaunchOpenedTyped
  <2> HIDE DEF j
  <2>4. job'[c] = j /\ UNCHANGED guest /\ \A d \in Client : d # c => job'[d] = job[d]
    BY <1>0, <2>1 DEF OpensJob
  <2>5. i \in SharedMedium \cup library /\ guest[g].state = "none"
        /\ \A d \in Client : job[d].guest # g
    BY <1>3 DEF AsksGuest, Resolvable
  <2>6. JobSound(c)'
    BY <2>1, <2>2, <2>4, <2>5 DEF JobSound, UploadSound, DeletionSound, LaunchSound, Uploading, Deleting
  <2>7. \A d \in Client : Uploading(d) => j.medium # job[d].medium
    BY <1>0, <2>2, <2>5 DEF UploadSound
  <2>. QED  BY <2>1, <2>2, <2>3, <2>5, <2>6, <2>7, OpenedKept
<1>. QED  BY <1>1, <1>2, <1>3

\* The store's tasks and the worker, whom nobody waits for.
LEMMA UnattendedKept ==
  ASSUME CatalogSound,
         \/ \E i \in Medium : TaskEnds(i)
         \/ \E g \in Guest : GuestBoots(g) \/ GuestEnds(g)
  PROVE  CatalogSound'
<1>0. /\ TypeOKCatalog /\ TypeOKCatalog'
      /\ \A d \in Client : UploadSound(d) /\ DeletionSound(d) /\ LaunchSound(d)
  BY CatalogTypesKept DEF CatalogSound, JobSound, NextCatalog
<1>1. ASSUME NEW i \in Medium, TaskEnds(i) PROVE CatalogSound'
  <2>1. /\ UNCHANGED <<job, guest, library>> /\ file[i] = "part"
        /\ \A m \in Medium : file[m] = "whole" => file'[m] = "whole"
    BY <1>0, <1>1 DEF TaskEnds, TypeOKCatalog
  <2>2. \A d \in Client : UploadSound(d)'
    BY <1>0, <2>1 DEF UploadSound, Uploading
  <2>3. \A d \in Client : DeletionSound(d)' /\ LaunchSound(d)'
    BY <1>0, <2>1 DEF DeletionSound, LaunchSound, Deleting, UsersOf, ISOInUse, LaunchingFromImage
  <2>4. \A m \in SharedMedium : file'[m] = "whole"
    BY <2>1, CatalogAssumption DEF CatalogSound
  <2>. QED  BY <1>0, <2>1, <2>2, <2>3, <2>4, GuestsKept DEF CatalogSound, JobSound
<1>2. ASSUME NEW g \in Guest, GuestBoots(g) \/ GuestEnds(g) PROVE CatalogSound'
  <2>1. PICK s \in {"live", "gone"} : guest' = [guest EXCEPT ![g] = [guest[g] EXCEPT !.state = s]]
    BY <1>2 DEF GuestBoots, GuestEnds
  <2>2. /\ UNCHANGED <<job, file, library>>
        /\ guest[g].state \in {"launching", "live"}
        /\ (s = "live" => guest[g].state = "launching")
    BY <1>0, <1>2, <2>1 DEF GuestBoots, GuestEnds, TypeOKCatalog, Guests
  <2>3. /\ guest'[g].state = s /\ guest'[g].medium = guest[g].medium
        /\ guest'[g].keyed = guest[g].keyed /\ guest'[g].key = guest[g].key
        /\ \A h \in Guest : h # g => guest'[h] = guest[h]
    BY <1>0, <2>1 DEF TypeOKCatalog, Guests
  <2>4. \A m \in Medium : UsersOf(m)' \subseteq UsersOf(m)
    BY <2>2, <2>3 DEF UsersOf, ISOInUse, LaunchingFromImage
  <2>5. \A h \in Guest : guest[h].state # "none" <=> guest'[h].state # "none"
    BY <2>2, <2>3
  <2>6. \A d \in Client : UploadSound(d)' /\ LaunchSound(d)'
    BY <1>0, <2>2, <2>5 DEF UploadSound, Uploading, LaunchSound
  <2>7. ASSUME NEW d \in Client, Deleting(d)' PROVE DeletionSound(d)'
    <3>1. Deleting(d) /\ job'[d] = job[d] /\ job[d].known \subseteq Guest
      BY <1>0, <2>2, <2>7 DEF Deleting, TypeOKCatalog, Job
    <3>2. job[d].medium \in Medium \ SharedMedium
          /\ (job[d].step = "unlink" => \A h \in job[d].known :
                 guest[h].state # "none" /\ h \notin UsersOf(job[d].medium))
      BY <1>0, <3>1 DEF DeletionSound
    <3>3. UsersOf(job[d].medium)' \subseteq UsersOf(job[d].medium)
      BY <2>4, <3>1, <3>2
    <3>. QED  BY <2>5, <3>1, <3>2, <3>3 DEF DeletionSound
  <2>8. \A h \in Guest : GuestSound(h)'
    BY <2>2, <2>3 DEF GuestSound, CatalogSound
  <2>9. \A m \in SharedMedium : file'[m] = "whole"
    BY <2>2 DEF CatalogSound
  <2>. QED  BY <1>0, <2>6, <2>7, <2>8, <2>9 DEF CatalogSound, JobSound, DeletionSound
<1>. QED  BY <1>1, <1>2

LEMMA SharedFilesKept ==
  ASSUME CatalogSound, NEW c \in Client, JobSteps(c) \/ DropsJob(c)
  PROVE  \A i \in SharedMedium : file'[i] = "whole"
<1>0. /\ file \in [Medium -> {"none", "part", "whole"}]
      /\ UploadSound(c) /\ DeletionSound(c) /\ \A i \in SharedMedium : file[i] = "whole"
  BY DEF CatalogSound, TypeOKCatalog, JobSound
<1>1. CASE SendsFile(c) \/ RemovesRejected(c) \/ UnlinksFile(c)
  <2>1. job[c].medium \notin SharedMedium
    BY <1>0, <1>1 DEF SendsFile, RemovesRejected, UnlinksFile,
                      UploadSound, DeletionSound, Uploading, Deleting
  <2>2. \A i \in Medium : i # job[c].medium => file'[i] = file[i]
    BY <1>0, <1>1 DEF SendsFile, RemovesRejected, UnlinksFile
  <2>. QED  BY <1>0, <2>1, <2>2, CatalogAssumption
<1>2. CASE UNCHANGED file
  BY <1>2, FilesKept
<1>. QED
  BY <1>1, <1>2 DEF JobSteps, DropsJob, WaitsForTask, RecordsMedium, ChecksUsers,
                    ForgetsMedium, AdmitsGuest

LEMMA CatalogSoundKept == CatalogSound /\ [NextCatalog]_catalogvars => CatalogSound'
<1> SUFFICES ASSUME CatalogSound, [NextCatalog]_catalogvars PROVE CatalogSound'
  OBVIOUS
<1>0. TypeOKCatalog'
  BY CatalogTypesKept
<1>1. ASSUME NEW c \in Client, JobSteps(c) \/ DropsJob(c) PROVE CatalogSound'
  <2>1. CASE AdmitsGuest(c)
    BY <2>1, AdmissionKept
  <2>2. CASE ~AdmitsGuest(c)
    <3>1. UNCHANGED guest
      BY <1>1, <2>2 DEF JobSteps, DropsJob, SendsFile, WaitsForTask, RecordsMedium,
                        RemovesRejected, ChecksUsers, UnlinksFile, ForgetsMedium
    <3>2. \A d \in Client : JobSound(d)'
      BY <1>1, <2>2, OnwardKept, EndsKept DEF JobSteps
    <3>. QED  BY <1>0, <1>1, <3>1, <3>2, SharedFilesKept, GuestsKept DEF CatalogSound
  <2>. QED  BY <2>1, <2>2
<1>2. CASE \/ DeletesKeyPair \/ (\E k \in KeyText : ImportsKeyPair(k))
           \/ UNCHANGED catalogvars
  <2>1. UNCHANGED <<file, library, guest, job>>
    BY <1>2 DEF DeletesKeyPair, ImportsKeyPair, catalogvars
  <2>2. \A d \in Client : JobSound(d)'
    BY <2>1 DEF CatalogSound, JobSound, UploadSound, DeletionSound, LaunchSound,
                Uploading, Deleting, UsersOf, ISOInUse, LaunchingFromImage
  <2>. QED  BY <1>0, <2>1, <2>2, FilesKept, GuestsKept DEF CatalogSound
<1>. QED  BY <1>1, <1>2, AskedKept, UnattendedKept DEF NextCatalog

LEMMA CatalogSoundAlways == SpecCatalog => []CatalogSound
BY CatalogSoundKept, CatalogSoundAtFirst, PTL DEF SpecCatalog

-----------------------------------------------------------------------------
(* The theorems                                                             *)

(* Files, rows, instances and requests stay in their types: what is listed is  *)
(* a medium, and what an instance was launched from is one.                    *)
THEOREM CatalogTyped == SpecCatalog => []TypeOKCatalog
<1>1. CatalogSound => TypeOKCatalog
  BY DEF CatalogSound
<1>. QED  BY <1>1, CatalogSoundAlways, PTL

(* A medium is listed only with its file whole, its file is not taken from     *)
(* under an instance the deletion looked at, and an instance launched with a   *)
(* key has one, for any number of uploads, deletions and launches at once      *)
(* (ImportImage, ImportISO, DeleteImage, DeleteISO).                           *)
THEOREM MediaAreKept == SpecCatalog => MediaKeptForTheirUsers
<1> DEFINE Step ==
      /\ \A i \in library' \ library : file[i] = "whole"
      /\ \A c \in Client :
            job[c].step = "unlink" /\ job'[c].step = "forget" =>
               UsersOf(job[c].medium) \cap job[c].known = {}
      /\ \A g \in Guest :
            guest[g].state = "launching" /\ guest'[g].state = "live" /\ guest[g].keyed =>
               guest[g].key # NoKey
<1>1. CatalogSound /\ [NextCatalog]_catalogvars => [Step]_catalogvars
  <2> SUFFICES ASSUME CatalogSound, NextCatalog PROVE Step
    BY DEF catalogvars
  <2>1. ASSUME NEW i \in library' \ library PROVE file[i] = "whole"
    <3>1. PICK c \in Client : RecordsMedium(c)
      BY <2>1 DEF NextCatalog, JobSteps, AsksUpload, AsksDeletion, AsksGuest, OpensJob,
                  SendsFile, WaitsForTask, RemovesRejected, ChecksUsers, UnlinksFile,
                  ForgetsMedium, AdmitsGuest, DropsJob, TaskEnds, GuestBoots, GuestEnds,
                  DeletesKeyPair, ImportsKeyPair
    <3>2. i = job[c].medium /\ job[c].step = "record"
      BY <2>1, <3>1 DEF RecordsMedium
    <3>. QED  BY <3>2 DEF CatalogSound, JobSound, UploadSound, Uploading
  <2>2. ASSUME NEW c \in Client, job[c].step = "unlink"
        PROVE  UsersOf(job[c].medium) \cap job[c].known = {}
    BY <2>2 DEF CatalogSound, JobSound, DeletionSound, Deleting
  <2>3. ASSUME NEW g \in Guest, guest[g].keyed PROVE guest[g].key # NoKey
    BY <2>3 DEF CatalogSound, GuestSound
  <2>. QED  BY <2>1, <2>2, <2>3
<1>. QED  BY <1>1, CatalogSoundAlways, PTL DEF SpecCatalog, MediaKeptForTheirUsers
=============================================================================
