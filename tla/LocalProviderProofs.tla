------------------------ MODULE LocalProviderProofs ------------------------
(***************************************************************************)
(* Proofs about LocalJobs, for any number of uploads and downloads, any    *)
(* sizes and any number of changes by others, about TempfileUpload, for    *)
(* any amount of data, and about LocalProvider, for any number of calls on *)
(* any tree.                                                               *)
(***************************************************************************)
EXTENDS LocalJobs, TempfileUpload, LocalProvider, SequenceTheorems, TLAPS

(***************************************************************************)
(* The inductive invariant of LocalJobs.                                   *)
(***************************************************************************)
\* A finish() that has passed its checks and not yet returned.
Active == {"checked", "unlinked", "linked"}

UploadType ==
    [st : {"none", "in_progress", "cancelled", "finished", "gone"},
     mode : {"create", "update"}, overwrite : BOOLEAN, etag : Nat,
     left : Nat, got : Nat, socket : Nat, connected : BOOLEAN, completed : BOOLEAN,
     pc : {"idle", "failed", "returned"} \cup Active, raced : BOOLEAN, removed : Nat,
     result : {"none", "ok", "Exists", "NotExists", "Logic", "Conflict", "Resource",
               "Cancelled", "Reported"}]

DownloadType ==
    [st : {"none", "queued", "running", "closed", "gone"}, file : Nat, mtime : Nat,
     size : Nat, left : Int, offset : Nat, pending : Nat,
     completed : {"none", "ok", "error"},
     result : {"none", "ok", "error", "NotExists", "Logic", "Conflict", "Resource", "Cancelled"}]

FileType == [size : Nat, mtime : Nat \ {0}, owner : Uploads \cup {"others"}]

Types ==
    /\ disk \in Seq(FileType)
    /\ path \in Int /\ -1 <= path /\ path <= Len(disk)
    /\ vacated \in Uploads \cup {"others"}
    /\ changes \in Nat
    /\ main \in {"free", "busy", "hung", "crashed"}
    /\ up \in [Uploads -> UploadType]
    /\ down \in [Downloads -> DownloadType]

\* No modification time lies in the future, so the next one is new; and what an
\* upload has stored is as long as its client announced.
DiskInv ==
    \A i \in 1..Len(disk) :
        /\ disk[i].mtime < Now
        /\ disk[i].owner \in Uploads => disk[i].size = Size

\* How the parts of an upload job go together.
UploadOK(job, m) ==
    /\ job.st \in {"none", "in_progress"} =>
          job.pc = "idle" /\ job.result = "none" /\ ~ job.completed /\ job.left + job.got = Size
    /\ job.pc = "idle" => job.removed = NoFile
    /\ job.connected /\ job.result = "none" => job.st = "in_progress" \/ job.pc \in Active
    /\ job.completed /\ job.result = "none" => job.pc = "idle"
    /\ job.pc \in Active =>
          job.st = "finished" /\ job.result = "none" /\ job.got = Size /\ m \in {"busy", "crashed"}
    /\ job.pc = "failed" => job.result = "Resource"
    /\ job.pc = "returned" => job.result # "none"
    /\ job.result = "ok" => job.pc = "returned"

\* The client agreed that an upload replaces a file with the given modification time.
Agreed(job, mtime) ==
    \/ job.mode = "create" /\ job.overwrite
    \/ job.mode = "update" /\ job.etag \in {NoETag, mtime}

\* What an upload knows of the file it replaces: until unlink() that it is the one
\* the client meant, unless others interfered; afterwards that it is not at the path
\* any more, and neither is any file with its ETag.
ETagOK(job) ==
    /\ job.etag < Now
    /\ job.removed <= Len(disk)
    /\ job.removed # NoFile => job.removed # path
    /\ job.removed # NoFile /\ ~ job.raced => Agreed(job, disk[job.removed].mtime)
    /\ job.pc = "checked" /\ ~ job.raced /\ IsFile => Agreed(job, disk[path].mtime)
    /\ job.pc \in {"unlinked", "linked", "returned"} /\ IsFile => disk[path].mtime # job.etag

UploadsInv == \A u \in Uploads : UploadOK(up[u], main) /\ ETagOK(up[u])

\* The main loop runs one finish() at a time.
OneFinish ==
    \A u, v \in Uploads : up[u].pc \in Active /\ up[v].pc \in Active => u = v

\* Of two updates from one ETag, at most one comes past the second check.
Rivals(job, other) ==
    /\ job.mode = "update" /\ other.mode = "update"
    /\ job.etag = other.etag /\ job.etag # NoETag

Past(job) == job.pc \in Active \cup {"returned"}

OneOfRivals ==
    \A u, v \in Uploads : u # v /\ Rivals(up[u], up[v]) => ~ (Past(up[u]) /\ Past(up[v]))

\* A download's bytes are to be read, in the socket or sent; it has read no more than
\* the file had as long as nobody else wrote to the file.
DownloadOK(job) ==
    /\ job.file <= Len(disk)
    /\ job.mtime < Now
    /\ job.st \in {"queued", "running", "closed"} => job.file # NoFile
    /\ job.st \in {"queued", "running"} => job.completed = "none"
    /\ job.st = "none" =>
          /\ job.file = NoFile /\ job.offset = 0 /\ job.pending = 0
          /\ job.completed = "none" /\ job.result = "none"
    /\ job.file # NoFile =>
          /\ job.left = job.size - job.offset + job.pending
          /\ disk[job.file].mtime = job.mtime =>
                disk[job.file].size = job.size /\ job.offset <= job.size
    /\ job.completed = "ok" => job.file # NoFile /\ job.left = 0
    /\ job.result = "ok" => job.file # NoFile /\ job.left <= 0

DownloadsInv == \A d \in Downloads : DownloadOK(down[d])

LocalIInv ==
    /\ Types
    /\ DiskInv
    /\ UploadsInv
    /\ OneFinish
    /\ OneOfRivals
    /\ GoneOnlyInTheWindow
    /\ DownloadsInv

-----------------------------------------------------------------------------
\* The records of jobs that have not started.
LEMMA NothingTyped == NoUpload \in UploadType /\ NoDownload \in DownloadType
  BY SizesAssumption DEF NoUpload, NoDownload, UploadType, DownloadType, NoETag, NoFile

LEMMA LocalInit == Init => LocalIInv
<1> SUFFICES ASSUME Init PROVE LocalIInv
  OBVIOUS
<1> USE SizesAssumption, JobsAssumption
<1>1. PICK n \in FileSizes :
          disk = <<[size |-> n, mtime |-> 1, owner |-> "others"]>> /\ path \in {1, NoFile, AFolder}
  BY DEF Init
<1>2. /\ disk \in Seq(FileType) /\ Len(disk) = 1
      /\ disk[1].size = n /\ disk[1].mtime = 1 /\ disk[1].owner = "others"
  BY <1>1 DEF FileType
<1>3. Now = 2
  BY <1>2 DEF Now, Init
<1>4. PICK mix \in Mixes :
          /\ up = [u \in Uploads |-> IF u \in mix THEN NoUpload ELSE Gone(NoUpload, "none")]
          /\ down = [d \in Downloads |-> IF d \in mix THEN NoDownload ELSE Gone(NoDownload, "none")]
  BY DEF Init
<1>5. NoUpload \in UploadType /\ Gone(NoUpload, "none") \in UploadType
  BY NothingTyped DEF Gone, UploadType
<1>6. NoDownload \in DownloadType /\ Gone(NoDownload, "none") \in DownloadType
  BY NothingTyped DEF Gone, DownloadType
<1>7. Types
  BY <1>1, <1>2, <1>4, <1>5, <1>6 DEF Types, Init, NoFile, AFolder
<1>8. DiskInv
  BY <1>2, <1>3 DEF DiskInv
<1>9. ASSUME NEW u \in Uploads
      PROVE  UploadOK(up[u], main) /\ ETagOK(up[u]) /\ up[u].pc = "idle"
  BY <1>2, <1>3, <1>4, <1>9 DEF UploadOK, ETagOK, NoUpload, Gone, NoETag, NoFile, Active
<1>10. OneFinish /\ OneOfRivals
  BY <1>9 DEF OneFinish, OneOfRivals, Past, Active
<1>11. GoneOnlyInTheWindow
  BY DEF GoneOnlyInTheWindow, Init
<1>12. ASSUME NEW d \in Downloads
       PROVE  DownloadOK(down[d])
  BY <1>2, <1>3, <1>4 DEF DownloadOK, NoDownload, Gone, NoFile
<1> QED
  BY <1>7, <1>8, <1>9, <1>10, <1>11, <1>12 DEF LocalIInv, UploadsInv, DownloadsInv

-----------------------------------------------------------------------------
(***************************************************************************)
(* Steps of uploads before and after the part of finish() that works on    *)
(* the file.                                                               *)
(***************************************************************************)
Elsewhere == UNCHANGED <<path, disk, vacated, changes, down>>

\* A step of an upload that has not passed the checks of finish() touches no
\* other part of the invariant.
LEMMA IdleStep ==
  ASSUME LocalIInv, NEW u \in Uploads, NEW job \in UploadType,
         up' = [up EXCEPT ![u] = job], Elsewhere,
         main' \in {"free", "busy", "hung", "crashed"}, main = "free" \/ main' = main,
         up[u].pc = "idle", job.pc = "idle", UploadOK(job, main'), job.etag < Now
  PROVE  LocalIInv'
<1> USE DEF Elsewhere
<1>1. up \in [Uploads -> UploadType] /\ up' \in [Uploads -> UploadType] /\ up'[u] = job
  BY DEF LocalIInv, Types
<1>2. Types'
  BY <1>1 DEF LocalIInv, Types
<1>3. DiskInv'
  BY DEF LocalIInv, DiskInv, Now
<1>4. ASSUME NEW v \in Uploads
      PROVE  UploadOK(up[v], main)' /\ ETagOK(up[v])'
  <2>1. CASE v = u
    <3>1. up'[v] = job
      BY <1>1, <2>1
    <3>2. UploadOK(up[v], main)'
      BY <3>1 DEF UploadOK
    <3>3. job.removed = 0 /\ Len(disk) \in Nat
      BY DEF UploadOK, NoFile, LocalIInv, Types
    <3>4. ETagOK(up[v])'
      BY <3>1, <3>3 DEF ETagOK, NoFile, Now, IsFile
    <3> QED
      BY <3>2, <3>4
  <2>2. CASE v # u
    <3>1. up'[v] = up[v]
      BY <1>1, <2>2
    <3>2. UploadOK(up[v], main) /\ ETagOK(up[v])
      BY DEF LocalIInv, UploadsInv
    <3>3. UploadOK(up[v], main)'
      BY <3>1, <3>2 DEF UploadOK
    <3>4. ETagOK(up[v])'
      BY <3>1, <3>2 DEF ETagOK, Now, IsFile, Agreed
    <3> QED
      BY <3>3, <3>4
  <2> QED
    BY <2>1, <2>2
<1>5. UploadsInv'
  BY <1>4 DEF UploadsInv
<1>6. OneFinish' /\ OneOfRivals'
  <2>1. \A v \in Uploads : up'[v] = IF v = u THEN job ELSE up[v]
    BY <1>1
  <2>2. OneFinish'
    BY <2>1 DEF LocalIInv, OneFinish, Active
  <2>3. OneOfRivals'
    BY <2>1 DEF LocalIInv, OneOfRivals, Rivals, Past, Active
  <2> QED
    BY <2>2, <2>3
<1>7. GoneOnlyInTheWindow'
  BY <1>1 DEF LocalIInv, GoneOnlyInTheWindow
<1>8. DownloadsInv'
  BY DEF LocalIInv, DownloadsInv, DownloadOK, Now
<1> QED
  BY <1>2, <1>3, <1>5, <1>6, <1>7, <1>8 DEF LocalIInv

\* What the invariant says of one upload.
LEMMA UploadFacts ==
  ASSUME LocalIInv, NEW u \in Uploads
  PROVE  /\ up[u] \in UploadType /\ UploadOK(up[u], main) /\ ETagOK(up[u])
         /\ up \in [Uploads -> UploadType] /\ up[u].etag < Now /\ Now \in Nat /\ NoETag < Now
  BY DEF LocalIInv, UploadsInv, ETagOK, Types, Now, NoETag

\* An upload in its first states is idle.
LEMMA Beginning ==
  ASSUME LocalIInv, NEW u \in Uploads,
         \/ up[u].st \in {"none", "in_progress"}
         \/ main = "free" /\ up[u].result = "none" /\ (up[u].connected \/ up[u].completed)
  PROVE  up[u].pc = "idle" /\ (up[u].connected /\ up[u].result = "none" => up[u].st = "in_progress")
  BY UploadFacts DEF UploadOK, Active

\* A job that is refused, or gone with an error before it touched a file.
LEMMA RefuseStep ==
  ASSUME LocalIInv, NEW u \in Uploads, NEW e, Refuse(u, e), Elsewhere, main' = main,
         e \in {"Exists", "NotExists", "Logic", "Conflict", "Resource"}, up[u].st = "none"
  PROVE  LocalIInv'
<1> DEFINE job == Gone(up[u], e)
<1>1. up[u] \in UploadType /\ UploadOK(up[u], main) /\ up[u].etag < Now
  BY UploadFacts
<1>2. up' = [up EXCEPT ![u] = job] /\ job \in UploadType
  BY <1>1 DEF Refuse, Gone, UploadType
<1>3. up[u].pc = "idle" /\ job.pc = "idle" /\ job.etag < Now /\ UploadOK(job, main')
  BY <1>1, Beginning DEF Gone, UploadType, UploadOK, Active
<1>4. main \in {"free", "busy", "hung", "crashed"}
  BY DEF LocalIInv, Types
<1> HIDE DEF job
<1> QED
  BY <1>2, <1>3, <1>4, IdleStep

\* An upload that begins.
LEMMA PrepareStep ==
  ASSUME LocalIInv, NEW u \in Uploads, NEW mode \in {"create", "update"},
         NEW overwrite \in BOOLEAN, NEW etag \in Nat, etag < Now,
         PrepareChannels(u, mode, overwrite, etag), Elsewhere, main' = main, up[u].st = "none"
  PROVE  LocalIInv'
<1> DEFINE job == [up[u] EXCEPT !.st = "in_progress", !.mode = mode, !.etag = etag,
                                !.overwrite = overwrite, !.connected = TRUE]
<1>1. CASE Refuse(u, "Resource")
  BY <1>1, RefuseStep
<1>2. CASE up' = [up EXCEPT ![u] = job]
  <2>1. up[u] \in UploadType /\ UploadOK(up[u], main) /\ up[u].pc = "idle"
    BY UploadFacts, Beginning
  <2>2. job \in UploadType
    BY <2>1 DEF UploadType
  <2>3. job.pc = "idle" /\ job.etag < Now /\ UploadOK(job, main')
    BY <2>1 DEF UploadType, UploadOK, Active
  <2>4. main \in {"free", "busy", "hung", "crashed"}
    BY DEF LocalIInv, Types
  <2> HIDE DEF job
  <2> QED
    BY <1>2, <2>1, <2>2, <2>3, <2>4, IdleStep
<1>3. up \in [Uploads -> UploadType] /\ up[u] \in UploadType
  BY UploadFacts
<1>4. [up EXCEPT ![u].st = "in_progress", ![u].mode = mode, ![u].etag = etag,
                 ![u].overwrite = overwrite, ![u].connected = TRUE] = [up EXCEPT ![u] = job]
  BY <1>3 DEF UploadType
<1> QED
  BY <1>1, <1>2, <1>4 DEF PrepareChannels

LEMMA CreateFileStep ==
  ASSUME LocalIInv, NEW u \in Uploads, CreateFile(u)
  PROVE  LocalIInv'
<1>1. Elsewhere /\ main' = main /\ up[u].st = "none"
  BY DEF CreateFile, Elsewhere, FileSystem
<1>2. CASE Refuse(u, "Resource")
  BY <1>1, <1>2, RefuseStep
<1>3. CASE Refuse(u, "Exists")
  BY <1>1, <1>3, RefuseStep
<1>4. ASSUME NEW overwrite \in BOOLEAN, PrepareChannels(u, "create", overwrite, NoETag)
      PROVE  LocalIInv'
  <2>1. NoETag \in Nat /\ NoETag < Now
    BY UploadFacts DEF NoETag
  <2> QED
    BY <1>1, <1>4, <2>1, PrepareStep
<1> QED
  BY <1>2, <1>3, <1>4 DEF CreateFile, UploadJobImpl

LEMMA UpdateStep ==
  ASSUME LocalIInv, NEW u \in Uploads, Update(u)
  PROVE  LocalIInv'
<1>1. Elsewhere /\ main' = main /\ up[u].st = "none"
  BY DEF Update, Elsewhere, FileSystem
<1>2. ASSUME NEW e \in {"Exists", "NotExists", "Logic", "Conflict", "Resource"}, Refuse(u, e)
      PROVE  LocalIInv'
  BY <1>1, <1>2, RefuseStep
<1>3. ASSUME NEW etag \in ETags, PrepareChannels(u, "update", FALSE, etag)
      PROVE  LocalIInv'
  <2>1. \A i \in 1..Len(disk) : disk[i] \in FileType
    BY DEF LocalIInv, Types
  <2>2. \A i \in 1..Len(disk) : disk[i].mtime \in Nat /\ disk[i].mtime < Now
    BY <2>1 DEF LocalIInv, DiskInv, FileType
  <2>3. NoETag \in Nat /\ NoETag < Now
    BY UploadFacts DEF NoETag
  <2>4. etag \in Nat /\ etag < Now
    BY <2>2, <2>3 DEF ETags
  <2> QED
    BY <1>1, <1>3, <2>4, PrepareStep
<1>4. CASE Refuse(u, "Resource")
  BY <1>2, <1>4
<1>5. CASE \E etag \in ETags :
              CASE path = NoFile                     -> Refuse(u, "NotExists")
                [] path = AFolder                    -> Refuse(u, "Logic")
                [] IsFile /\ etag \notin {NoETag, MTime} -> Refuse(u, "Conflict")
                [] OTHER                             -> PrepareChannels(u, "update", FALSE, etag)
  <2>1. PICK etag \in ETags :
              \/ Refuse(u, "NotExists") \/ Refuse(u, "Logic") \/ Refuse(u, "Conflict")
              \/ PrepareChannels(u, "update", FALSE, etag)
    BY <1>5
  <2> QED
    BY <1>2, <1>3, <2>1
<1> QED
  BY <1>4, <1>5 DEF Update, UploadJobImpl

\* Reading from the socket and giving up keep the sums and the type of a job.
LEMMA DrainedFacts ==
  ASSUME NEW job \in UploadType
  PROVE  /\ Aborted(job) \in UploadType
         /\ job.socket <= job.left =>
               Drained(job) \in UploadType /\ Drained(job).left + Drained(job).got = job.left + job.got
<1>1. Aborted(job) \in UploadType
  BY DEF UploadType, Aborted
<1>2. ASSUME job.socket <= job.left PROVE Drained(job) \in UploadType
  <2>1. job.left - job.socket \in Nat /\ job.got + job.socket \in Nat
    BY <1>2 DEF UploadType
  <2> QED
    BY <2>1 DEF UploadType, Drained
<1>3. Drained(job).left = job.left - job.socket /\ Drained(job).got = job.got + job.socket
  BY DEF UploadType, Drained
<1>4. job.left \in Int /\ job.got \in Int /\ job.socket \in Int
  BY DEF UploadType
<1> QED
  BY <1>1, <1>2, <1>3, <1>4

LEMMA BytesReadyStep ==
  ASSUME LocalIInv, NEW u \in Uploads, OnBytesReady(u)
  PROVE  LocalIInv'
<1>1. Elsewhere /\ main' = main /\ main = "free"
  BY DEF OnBytesReady, Elsewhere, FileSystem
<1>2. up[u] \in UploadType /\ UploadOK(up[u], main) /\ up[u].etag < Now
  BY UploadFacts
<1>3. up[u].pc = "idle" /\ up[u].st = "in_progress"
  BY Beginning DEF OnBytesReady
<1>4. CASE ~ Surplus(up[u]) /\ up' = [up EXCEPT ![u] = Drained(@)]
  <2> DEFINE job == Drained(up[u])
  <2>1. up[u].socket <= up[u].left
    BY <1>2, <1>4 DEF Surplus, UploadType
  <2>2. job \in UploadType /\ job.left + job.got = up[u].left + up[u].got
    BY <1>2, <2>1, DrainedFacts
  <2>3. job.pc = "idle" /\ job.etag < Now /\ UploadOK(job, main')
    BY <1>1, <1>2, <1>3, <2>2 DEF Drained, UploadType, UploadOK, Active
  <2> HIDE DEF job
  <2>4. up' = [up EXCEPT ![u] = job]
    BY <1>4 DEF job
  <2> QED
    BY <1>1, <1>3, <2>2, <2>3, <2>4, IdleStep
<1>5. CASE up' = [up EXCEPT ![u] = [Aborted(@) EXCEPT !.completed = TRUE]]
  <2> DEFINE job == [Aborted(up[u]) EXCEPT !.completed = TRUE]
  <2>0. Aborted(up[u]) \in UploadType /\ UploadOK(Aborted(up[u]), main') /\ Aborted(up[u]).pc = "idle"
        /\ Aborted(up[u]).etag < Now /\ Aborted(up[u]).st = "cancelled"
    <3> DEFINE o == up[u]
               x == Aborted(o)
    <3>1. x \in UploadType
      BY <1>2 DEF Aborted, UploadType
    <3>2. /\ x.st = "cancelled" /\ x.pc = "idle" /\ x.connected = FALSE /\ x.socket = 0 /\ x.left = 0
          /\ x.got = o.got /\ x.result = o.result /\ x.removed = o.removed /\ x.etag = o.etag
      BY <1>2, <1>3 DEF Aborted, UploadType
    <3> HIDE DEF x
    <3>3. o.result # "ok" /\ o.removed = NoFile
      BY <1>2, <1>3 DEF UploadOK
    <3>4. UploadOK(x, main')
      BY <3>2, <3>3 DEF UploadOK, Active
    <3> QED
      BY <1>2, <3>1, <3>2, <3>4 DEF x
  <2>1. job \in UploadType
    BY <2>0 DEF UploadType
  <2>2. job.pc = "idle" /\ job.etag < Now /\ UploadOK(job, main')
    BY <2>0 DEF UploadType, UploadOK, Active
  <2> HIDE DEF job
  <2>3. up' = [up EXCEPT ![u] = job]
    BY <1>5 DEF job
  <2> QED
    BY <1>1, <1>3, <2>1, <2>2, <2>3, IdleStep
<1> QED
  BY <1>4, <1>5 DEF OnBytesReady

\* A job that is taken from the table and ends with an exception.
LEMMA GoneStep ==
  ASSUME LocalIInv, NEW u \in Uploads,
         NEW e \in {"Exists", "Logic", "Conflict", "Resource", "Cancelled", "Reported"},
         up' = [up EXCEPT ![u] = Gone(NoUpload, e)], Elsewhere, main' = main, up[u].pc = "idle"
  PROVE  LocalIInv'
<1> DEFINE job == Gone(NoUpload, e)
<1>1. NoUpload \in UploadType /\ NoUpload.etag = NoETag /\ NoUpload.pc = "idle" /\ NoUpload.removed = NoFile
  BY NothingTyped DEF NoUpload
<1>2. job \in UploadType
  BY <1>1 DEF Gone, UploadType
<1>3. job.pc = "idle" /\ job.etag < Now /\ UploadOK(job, main')
  BY <1>1, UploadFacts DEF Gone, UploadType, UploadOK, Active
<1>4. main \in {"free", "busy", "hung", "crashed"}
  BY DEF LocalIInv, Types
<1> HIDE DEF job
<1>5. up' = [up EXCEPT ![u] = job]
  BY DEF job
<1> QED
  BY <1>2, <1>3, <1>4, <1>5, IdleStep

LEMMA CancelUploadStep ==
  ASSUME LocalIInv, NEW u \in Uploads, CancelUpload(u)
  PROVE  LocalIInv'
<1>1. Elsewhere /\ main' = main /\ up[u].pc = "idle"
  BY Beginning DEF CancelUpload, Elsewhere, FileSystem
<1> QED
  BY <1>1, GoneStep DEF CancelUpload

\* The client's byte changes nothing the invariant speaks of.
LEMMA ClientWritesStep ==
  ASSUME LocalIInv, NEW u \in Uploads, ClientWrites(u)
  PROVE  LocalIInv'
<1> USE DEF FileSystem
<1> DEFINE job == [up[u] EXCEPT !.socket = @ + 1]
<1>1. up \in [Uploads -> UploadType] /\ up[u] \in UploadType
  BY UploadFacts
<1>2. job \in UploadType /\ up' = [up EXCEPT ![u] = job]
  BY <1>1 DEF UploadType, ClientWrites
<1>3. /\ job.st = up[u].st /\ job.pc = up[u].pc /\ job.result = up[u].result
      /\ job.left = up[u].left /\ job.got = up[u].got /\ job.removed = up[u].removed
      /\ job.connected = up[u].connected /\ job.completed = up[u].completed
      /\ job.mode = up[u].mode /\ job.overwrite = up[u].overwrite /\ job.etag = up[u].etag
      /\ job.raced = up[u].raced
  BY <1>1 DEF UploadType
<1> HIDE DEF job
<1>4. up' \in [Uploads -> UploadType]
  BY <1>1, <1>2
<1>5. \A v \in Uploads :
        /\ up'[v].st = up[v].st /\ up'[v].pc = up[v].pc /\ up'[v].result = up[v].result
        /\ up'[v].left = up[v].left /\ up'[v].got = up[v].got /\ up'[v].removed = up[v].removed
        /\ up'[v].connected = up[v].connected /\ up'[v].completed = up[v].completed
        /\ up'[v].mode = up[v].mode /\ up'[v].overwrite = up[v].overwrite /\ up'[v].etag = up[v].etag
        /\ up'[v].raced = up[v].raced
  BY <1>1, <1>2, <1>3
<1>6. UNCHANGED <<path, disk, vacated, changes, down, main>>
  BY DEF ClientWrites
<1>7. Types' /\ DiskInv' /\ DownloadsInv'
  <2>1. Types'
    BY <1>4, <1>6 DEF LocalIInv, Types
  <2>2. DiskInv'
    BY <1>6 DEF LocalIInv, DiskInv, Now
  <2>3. DownloadsInv'
    BY <1>6 DEF LocalIInv, DownloadsInv, DownloadOK, Now
  <2> QED
    BY <2>1, <2>2, <2>3
<1>8. UploadsInv'
  <2> SUFFICES ASSUME NEW v \in Uploads
               PROVE  UploadOK(up[v], main)' /\ ETagOK(up[v])'
    BY DEF UploadsInv
  <2>1. UploadOK(up[v], main) /\ ETagOK(up[v])
    BY UploadFacts
  <2>2. UploadOK(up[v], main)'
    BY <2>1, <1>5, <1>6 DEF UploadOK
  <2>3. ETagOK(up[v])'
    BY <2>1, <1>5, <1>6 DEF ETagOK, Agreed, Now, IsFile
  <2> QED
    BY <2>2, <2>3
<1>9. OneFinish' /\ OneOfRivals'
  BY <1>5 DEF LocalIInv, OneFinish, OneOfRivals, Rivals, Past
<1>10. GoneOnlyInTheWindow'
  BY <1>5, <1>6 DEF LocalIInv, GoneOnlyInTheWindow
<1> QED
  BY <1>7, <1>8, <1>9, <1>10 DEF LocalIInv

-----------------------------------------------------------------------------
(***************************************************************************)
(* finish(): the second check, unlink(), linkat() and the item.            *)
(***************************************************************************)
\* When the second check succeeds, the client agreed to replace what is at the path.
LEMMA CheckedFacts ==
  ASSUME Types, NEW job \in UploadType, CheckAgain(job) = "ok"
  PROVE  /\ IsFile => Agreed(job, MTime)
         /\ job.mode = "update" /\ job.etag # NoETag => IsFile /\ MTime = job.etag
<1>1. path \in Int /\ -1 <= path
  BY DEF Types
<1>2. job.mode \in {"create", "update"} /\ job.overwrite \in BOOLEAN
  BY DEF UploadType
<1>3. ASSUME job.mode = "update", job.etag # NoETag
      PROVE  IsFile /\ MTime = job.etag
  BY <1>1, <1>3 DEF CheckAgain, IsFile, NoFile, AFolder
<1>4. ASSUME job.mode = "create", IsFile
      PROVE  job.overwrite
  BY <1>1, <1>2, <1>4 DEF CheckAgain, IsFile, NoFile
<1> QED
  BY <1>2, <1>3, <1>4 DEF Agreed

\* How finish() may end after it has read the rest from the socket.
LEMMA FinishJobFacts ==
  ASSUME NEW job \in UploadType, job.socket <= job.left, NEW flushed \in BOOLEAN
  PROVE  \/ \E e \in {"Exists", "Logic", "Conflict", "Resource"} :
               FinishJob(job, flushed) = Gone(NoUpload, e)
         \/ /\ Drained(job).left = 0 /\ CheckAgain(Drained(job)) = "ok"
            /\ FinishJob(job, flushed) = [Drained(job) EXCEPT !.st = "finished", !.pc = "checked"]
<1> DEFINE j == Drained(job)
           check == IF CheckAgain(j) = "ok" /\ ~ flushed THEN FileException ELSE CheckAgain(j)
<1>1. j.left \in Nat
  BY DrainedFacts DEF UploadType
<1>2. check \in {"Exists", "Conflict", "Resource", "ok"} /\ (check = "ok" => CheckAgain(j) = "ok")
  BY DEF CheckAgain, FileException
<1>3. FinishJob(job, flushed) =
          CASE j.left > 0                  -> Gone(NoUpload, "Logic")
            [] j.left = 0 /\ check # "ok" -> Gone(NoUpload, check)
            [] OTHER                       -> [j EXCEPT !.st = "finished", !.pc = "checked"]
  BY DEF FinishJob
<1> HIDE DEF j, check
<1>4. CASE j.left > 0
  BY <1>3, <1>4
<1>5. CASE j.left = 0 /\ check # "ok"
  <2>1. FinishJob(job, flushed) = Gone(NoUpload, check)
    BY <1>3, <1>5
  <2> QED
    BY <1>2, <1>5, <2>1
<1>6. CASE j.left = 0 /\ check = "ok"
  <2>1. FinishJob(job, flushed) = [j EXCEPT !.st = "finished", !.pc = "checked"]
    BY <1>3, <1>6
  <2> QED
    BY <1>2, <1>6, <2>1 DEF j
<1> QED
  BY <1>1, <1>4, <1>5, <1>6

\* While the main loop is free no upload is within its finish().
LEMMA NobodyActive ==
  ASSUME LocalIInv, main = "free", NEW u \in Uploads
  PROVE  up[u].pc \notin Active
  BY UploadFacts DEF UploadOK

\* An upload passes the second check.
LEMMA CheckedStep ==
  ASSUME LocalIInv, NEW u \in Uploads, NEW job \in UploadType,
         up' = [up EXCEPT ![u] = job], Elsewhere, main = "free", main' = "busy",
         job.pc = "checked", UploadOK(job, "busy"), job.removed = NoFile, job.etag < Now,
         IsFile => Agreed(job, MTime),
         job.mode = "update" /\ job.etag # NoETag => IsFile /\ MTime = job.etag,
         up[u].pc = "idle"
  PROVE  LocalIInv'
<1> USE DEF Elsewhere
<1>1. up \in [Uploads -> UploadType] /\ up' \in [Uploads -> UploadType] /\ up'[u] = job
  BY DEF LocalIInv, Types
<1>2. \A v \in Uploads : up'[v] = IF v = u THEN job ELSE up[v]
  BY <1>1
<1>3. Types'
  BY <1>1 DEF LocalIInv, Types
<1>4. DiskInv'
  BY DEF LocalIInv, DiskInv, Now
<1>5. ASSUME NEW v \in Uploads
      PROVE  UploadOK(up[v], main)' /\ ETagOK(up[v])'
  <2>1. CASE v = u
    <3>1. up'[v] = job
      BY <1>1, <2>1
    <3>2. UploadOK(up[v], main)'
      BY <3>1 DEF UploadOK
    <3>3. job.removed = 0 /\ Len(disk) \in Nat
      BY DEF NoFile, LocalIInv, Types
    <3>4. ETagOK(up[v])'
      BY <3>1, <3>3 DEF ETagOK, NoFile, Now, IsFile, MTime, Agreed
    <3> QED
      BY <3>2, <3>4
  <2>2. CASE v # u
    <3>1. up'[v] = up[v]
      BY <1>1, <2>2
    <3>2. UploadOK(up[v], main) /\ ETagOK(up[v]) /\ up[v].pc \notin Active
      BY UploadFacts, NobodyActive
    <3>3. UploadOK(up[v], main)'
      BY <3>1, <3>2 DEF UploadOK
    <3>4. ETagOK(up[v])'
      BY <3>1, <3>2 DEF ETagOK, Now, IsFile, Agreed
    <3> QED
      BY <3>3, <3>4
  <2> QED
    BY <2>1, <2>2
<1>6. UploadsInv'
  BY <1>5 DEF UploadsInv
<1>7. \A v \in Uploads : up[v].pc \notin Active
  BY NobodyActive
<1>8. OneFinish'
  BY <1>2, <1>7 DEF OneFinish
<1>9. ASSUME NEW v \in Uploads, v # u, Rivals(job, up[v]) \/ Rivals(up[v], job)
      PROVE  ~ Past(up[v])
  <2>1. IsFile /\ MTime = up[v].etag
    BY <1>9 DEF Rivals
  <2>2. ETagOK(up[v])
    BY UploadFacts
  <2> QED
    BY <1>7, <2>1, <2>2 DEF Past, ETagOK, MTime
<1>10. OneOfRivals'
  <2> SUFFICES ASSUME NEW v \in Uploads, NEW w \in Uploads, v # w, Rivals(up'[v], up'[w])
               PROVE  ~ (Past(up'[v]) /\ Past(up'[w]))
    BY DEF OneOfRivals, Rivals, Past
  <2>1. CASE v = u
    <3>1. up'[v] = job /\ up'[w] = up[w]
      BY <1>2, <2>1
    <3> QED
      BY <1>9, <2>1, <3>1
  <2>2. CASE w = u
    <3>1. up'[w] = job /\ up'[v] = up[v]
      BY <1>2, <2>2
    <3> QED
      BY <1>9, <2>2, <3>1
  <2>3. CASE v # u /\ w # u
    <3>1. up'[w] = up[w] /\ up'[v] = up[v]
      BY <1>2, <2>3
    <3> QED
      BY <3>1 DEF LocalIInv, OneOfRivals
  <2> QED
    BY <2>1, <2>2, <2>3
<1>11. GoneOnlyInTheWindow'
  <2> SUFFICES ASSUME path = NoFile, vacated \in Uploads
               PROVE  up'[vacated].pc = "failed" /\ up'[vacated].result = "Resource"
    BY DEF GoneOnlyInTheWindow
  <2>1. up[vacated].pc = "failed" /\ up[vacated].result = "Resource"
    BY DEF LocalIInv, GoneOnlyInTheWindow
  <2>2. vacated # u
    BY <2>1
  <2> QED
    BY <1>2, <2>1, <2>2
<1>12. DownloadsInv'
  BY DEF LocalIInv, DownloadsInv, DownloadOK, Now
<1> QED
  BY <1>3, <1>4, <1>6, <1>8, <1>10, <1>11, <1>12 DEF LocalIInv

LEMMA FinishUploadStep ==
  ASSUME LocalIInv, NEW u \in Uploads, FinishUpload(u)
  PROVE  LocalIInv'
<1>1. Elsewhere /\ main = "free"
  BY DEF FinishUpload, Elsewhere, FileSystem
<1>2. up[u] \in UploadType /\ UploadOK(up[u], main) /\ up[u].etag < Now
  BY UploadFacts
<1>3. up[u].pc = "idle"
  BY <1>1, Beginning DEF FinishUpload
<1>4. CASE up[u].completed /\ up' = [up EXCEPT ![u] = Gone(NoUpload, "Reported")] /\ main' = main
  BY <1>1, <1>3, <1>4, GoneStep
<1>5. ASSUME up[u].st = "in_progress", ~ Surplus(up[u]), NEW flushed \in BOOLEAN,
             up' = [up EXCEPT ![u] = FinishJob(up[u], flushed)],
             main' = IF FinishJob(up[u], flushed).pc = "checked" THEN "busy" ELSE "free"
      PROVE  LocalIInv'
  <2>1. up[u].socket <= up[u].left
    BY <1>2, <1>5 DEF Surplus, UploadType
  <2>2. ASSUME NEW e \in {"Exists", "Logic", "Conflict", "Resource"},
               FinishJob(up[u], flushed) = Gone(NoUpload, e)
        PROVE  LocalIInv'
    <3>1. Gone(NoUpload, e).pc = "idle"
      BY DEF Gone, NoUpload
    <3>2. main' = main /\ up' = [up EXCEPT ![u] = Gone(NoUpload, e)]
      BY <1>1, <1>5, <2>2, <3>1
    <3> QED
      BY <1>1, <1>3, <3>2, GoneStep
  <2>3. CASE /\ Drained(up[u]).left = 0 /\ CheckAgain(Drained(up[u])) = "ok"
             /\ FinishJob(up[u], flushed) = [Drained(up[u]) EXCEPT !.st = "finished", !.pc = "checked"]
    <3> DEFINE old == Drained(up[u])
               job == [old EXCEPT !.st = "finished", !.pc = "checked"]
    <3>1. old \in UploadType /\ old.left = 0 /\ CheckAgain(old) = "ok" /\ old.left + old.got = Size
      BY <1>2, <1>5, <2>1, <2>3, DrainedFacts DEF UploadOK
    <3>2. /\ old.result = "none" /\ old.removed = NoFile /\ old.etag < Now
      BY <1>2, <1>3, <1>5 DEF Drained, UploadType, UploadOK
    <3> HIDE DEF old
    <3>3. job \in UploadType
      BY <3>1 DEF UploadType, Active
    <3>4. /\ job.st = "finished" /\ job.pc = "checked" /\ job.result = "none" /\ job.got = Size
          /\ job.removed = NoFile /\ job.etag = old.etag /\ job.mode = old.mode
          /\ job.overwrite = old.overwrite /\ job.connected = old.connected
          /\ job.completed = old.completed
      BY <3>1, <3>2 DEF UploadType
    <3>5. up' = [up EXCEPT ![u] = job] /\ main' = "busy"
      BY <1>5, <2>3, <3>4 DEF old
    <3> HIDE DEF job
    <3>6. UploadOK(job, "busy")
      <4>1. ~ (job.completed /\ job.result = "none")
        BY <1>2, <1>3, <1>5 DEF job, old, Drained, UploadType, UploadOK
      <4> QED
        BY <3>4, <4>1 DEF UploadOK, Active
    <3>7. /\ IsFile => Agreed(job, MTime)
          /\ job.mode = "update" /\ job.etag # NoETag => IsFile /\ MTime = job.etag
      <4>1. Types
        BY DEF LocalIInv
      <4> QED
        BY <3>1, <3>4, <4>1, CheckedFacts DEF Agreed
    <3> QED
      BY <1>1, <1>3, <3>2, <3>3, <3>4, <3>5, <3>6, <3>7, CheckedStep
  <2> QED
    BY <1>2, <2>1, <2>2, <2>3, FinishJobFacts
<1>6. CASE up[u].st = "in_progress" /\ up' = [up EXCEPT ![u] = Aborted(@)] /\ main' = "hung"
  <2> DEFINE job == Aborted(up[u])
  <2>1. job \in UploadType
    BY <1>2, DrainedFacts
  <2>2. job.pc = "idle" /\ job.etag < Now /\ UploadOK(job, main')
    BY <1>2, <1>3, <1>6 DEF Aborted, UploadType, UploadOK, Active
  <2> HIDE DEF job
  <2>3. up' = [up EXCEPT ![u] = job]
    BY <1>6 DEF job
  <2> QED
    BY <1>1, <1>3, <1>6, <2>1, <2>2, <2>3, IdleStep
<1> QED
  BY <1>4, <1>5, <1>6 DEF FinishUpload

-----------------------------------------------------------------------------
(***************************************************************************)
(* A new file at the end of the disk.                                      *)
(***************************************************************************)
LEMMA NowPositive == LocalIInv => Now \in Nat \ {0}
  BY DEF LocalIInv, Types, Now

LEMMA Appended ==
  ASSUME disk \in Seq(FileType), changes \in Nat, changes' \in Nat, changes <= changes',
         NEW file \in FileType, disk' = Append(disk, file)
  PROVE  /\ Len(disk') = Len(disk) + 1 /\ disk' \in Seq(FileType) /\ Now < Now' /\ Now' \in Nat
         /\ changes' = changes => Now' = Now + 1
         /\ \A i \in 1..Len(disk) : disk'[i] = disk[i]
         /\ disk'[Len(disk) + 1] = file
  BY DEF Now

\* A file that is new keeps what is known of the old ones ...
LEMMA NewFileDisk ==
  ASSUME DiskInv, disk \in Seq(FileType), Now \in Nat, Now' \in Nat, Now < Now',
         Len(disk') = Len(disk) + 1,
         \A i \in 1..Len(disk) : disk'[i] = disk[i],
         disk'[Len(disk) + 1].mtime = Now,
         disk'[Len(disk) + 1].owner \in Uploads => disk'[Len(disk) + 1].size = Size
  PROVE  DiskInv'
<1> SUFFICES ASSUME NEW i \in 1..(Len(disk) + 1)
             PROVE  disk'[i].mtime < Now' /\ (disk'[i].owner \in Uploads => disk'[i].size = Size)
  BY DEF DiskInv
<1>1. CASE i \in 1..Len(disk)
  <2>1. disk[i] \in FileType
    BY <1>1
  <2>2. disk[i].mtime \in Nat
    BY <2>1 DEF FileType
  <2> QED
    BY <1>1, <2>2 DEF DiskInv
<1>2. CASE i = Len(disk) + 1
  BY <1>2
<1> QED
  BY <1>1, <1>2

\* ... and is not the one that a download has open.
LEMMA NewFileDownloads ==
  ASSUME DownloadsInv, disk \in Seq(FileType), down \in [Downloads -> DownloadType], down' = down,
         Now \in Nat, Now' \in Nat, Now < Now',
         Len(disk') = Len(disk) + 1,
         \A i \in 1..Len(disk) : disk'[i] = disk[i]
  PROVE  DownloadsInv'
<1> SUFFICES ASSUME NEW d \in Downloads
             PROVE  DownloadOK(down[d])'
  BY DEF DownloadsInv
<1>1. down[d] \in DownloadType /\ DownloadOK(down[d]) /\ Len(disk) \in Nat
  BY DEF DownloadsInv
<1>2. down[d].file \in Nat /\ down[d].mtime \in Nat
  BY <1>1 DEF DownloadType
<1>3. down[d].file <= Len(disk) /\ (down[d].file # NoFile => disk'[down[d].file] = disk[down[d].file])
  BY <1>1, <1>2 DEF DownloadOK, NoFile
<1> QED
  BY <1>1, <1>2, <1>3 DEF DownloadOK

\* Only one upload is within its finish().
LEMMA OthersInactive ==
  ASSUME LocalIInv, NEW u \in Uploads, up[u].pc \in Active, NEW v \in Uploads, v # u
  PROVE  up[v].pc \notin Active
  BY DEF LocalIInv, OneFinish

\* What a step within finish() does not have to look at again: the types, and that
\* only one upload is active and none of its rivals came as far.
LEMMA WithinFinish ==
  ASSUME LocalIInv, NEW u \in Uploads, up[u].pc \in Active, NEW job \in UploadType,
         up' = [up EXCEPT ![u] = job],
         job.mode = up[u].mode, job.etag = up[u].etag
  PROVE  /\ up' \in [Uploads -> UploadType]
         /\ \A v \in Uploads : up'[v] = IF v = u THEN job ELSE up[v]
         /\ OneFinish' /\ OneOfRivals'
<1>1. up \in [Uploads -> UploadType]
  BY UploadFacts
<1>2. up' \in [Uploads -> UploadType] /\ \A v \in Uploads : up'[v] = IF v = u THEN job ELSE up[v]
  BY <1>1
<1>3. OneFinish'
  BY <1>2, OthersInactive DEF OneFinish
<1>4. OneOfRivals'
  <2>1. Past(up[u])
    BY DEF Past
  <2>2. \A v \in Uploads : v # u /\ (Rivals(up[u], up[v]) \/ Rivals(up[v], up[u])) => ~ Past(up[v])
    BY <2>1 DEF LocalIInv, OneOfRivals
  <2>3. \A other : (Rivals(job, other) <=> Rivals(up[u], other)) /\ (Rivals(other, job) <=> Rivals(other, up[u]))
    BY DEF Rivals
  <2> SUFFICES ASSUME NEW v \in Uploads, NEW w \in Uploads, v # w, Rivals(up'[v], up'[w])
               PROVE  ~ (Past(up'[v]) /\ Past(up'[w]))
    BY DEF OneOfRivals, Rivals, Past
  <2>4. CASE v = u
    BY <1>2, <2>2, <2>3, <2>4
  <2>5. CASE w = u
    BY <1>2, <2>2, <2>3, <2>5
  <2>6. CASE v # u /\ w # u
    BY <1>2, <2>6 DEF LocalIInv, OneOfRivals
  <2> QED
    BY <2>4, <2>5, <2>6
<1> QED
  BY <1>2, <1>3, <1>4

LEMMA UnlinkStep ==
  ASSUME LocalIInv, NEW u \in Uploads, Unlink(u)
  PROVE  LocalIInv'
<1> DEFINE job == [up[u] EXCEPT !.pc = "unlinked", !.removed = IF IsFile THEN path ELSE NoFile]
<1>1. up[u] \in UploadType /\ UploadOK(up[u], main) /\ ETagOK(up[u]) /\ up \in [Uploads -> UploadType]
  BY UploadFacts
<1>2. /\ main = "busy" /\ up[u].pc = "checked" /\ up[u].pc \in Active
      /\ UNCHANGED <<disk, changes, main, down>>
      /\ path' = IF IsFile THEN NoFile ELSE path
      /\ vacated' = IF IsFile THEN u ELSE vacated
  BY DEF Unlink, Active
<1>3. path \in Int /\ -1 <= path /\ path <= Len(disk) /\ Len(disk) \in Nat
  BY DEF LocalIInv, Types
<1>4. (IF IsFile THEN path ELSE NoFile) \in Nat
  BY <1>3 DEF IsFile, NoFile
<1>5. job \in UploadType
  BY <1>1, <1>4 DEF UploadType, Active
<1>6. up' = [up EXCEPT ![u] = job]
  BY <1>1 DEF Unlink
<1>7. /\ job.pc = "unlinked" /\ job.removed = (IF IsFile THEN path ELSE NoFile)
      /\ job.st = up[u].st /\ job.result = up[u].result /\ job.got = up[u].got
      /\ job.left = up[u].left /\ job.connected = up[u].connected /\ job.completed = up[u].completed
      /\ job.mode = up[u].mode /\ job.overwrite = up[u].overwrite /\ job.etag = up[u].etag
      /\ job.raced = up[u].raced
  BY <1>1 DEF UploadType
<1> HIDE DEF job
<1>8. /\ up' \in [Uploads -> UploadType]
      /\ \A v \in Uploads : up'[v] = IF v = u THEN job ELSE up[v]
      /\ OneFinish' /\ OneOfRivals'
  BY <1>2, <1>5, <1>6, <1>7, WithinFinish
<1>9. ~ IsFile'
  BY <1>2, <1>3 DEF IsFile, NoFile
<1>10. Types'
  BY <1>2, <1>3, <1>8 DEF LocalIInv, Types, NoFile
<1>11. DiskInv' /\ DownloadsInv'
  BY <1>2 DEF LocalIInv, DiskInv, DownloadsInv, DownloadOK, Now
<1>12. ASSUME NEW v \in Uploads
       PROVE  UploadOK(up[v], main)' /\ ETagOK(up[v])'
  <2>1. CASE v = u
    <3>1. up'[v] = job
      BY <1>8, <2>1
    <3>2. UploadOK(up[v], main)'
      BY <1>1, <1>2, <1>7, <3>1 DEF UploadOK, Active
    <3>3. ETagOK(up[v])'
      BY <1>1, <1>2, <1>3, <1>7, <1>9, <3>1 DEF ETagOK, Agreed, Now, IsFile, NoFile
    <3> QED
      BY <3>2, <3>3
  <2>2. CASE v # u
    <3>1. up'[v] = up[v]
      BY <1>8, <2>2
    <3>2. UploadOK(up[v], main) /\ ETagOK(up[v])
      BY UploadFacts
    <3>3. UploadOK(up[v], main)'
      BY <1>2, <3>1, <3>2 DEF UploadOK
    <3>4. ETagOK(up[v])'
      BY <1>2, <1>9, <3>1, <3>2 DEF ETagOK, Agreed, Now, IsFile, NoFile
    <3> QED
      BY <3>3, <3>4
  <2> QED
    BY <2>1, <2>2
<1>13. GoneOnlyInTheWindow'
  <2>1. CASE IsFile
    BY <1>2, <1>7, <1>8, <2>1 DEF GoneOnlyInTheWindow
  <2>2. CASE ~ IsFile
    <3> SUFFICES ASSUME path = NoFile, vacated \in Uploads
                 PROVE  up'[vacated].pc = "failed" /\ up'[vacated].result = "Resource"
      BY <1>2, <2>2 DEF GoneOnlyInTheWindow
    <3>1. up[vacated].pc = "unlinked" \/ (up[vacated].pc = "failed" /\ up[vacated].result = "Resource")
      BY DEF LocalIInv, GoneOnlyInTheWindow
    <3>2. vacated # u
      BY <1>2, <3>1
    <3>3. up[vacated].pc \notin Active
      BY <1>2, <3>2, OthersInactive
    <3> QED
      BY <1>8, <3>1, <3>2, <3>3 DEF Active
  <2> QED
    BY <2>1, <2>2
<1> QED
  BY <1>8, <1>10, <1>11, <1>12, <1>13 DEF LocalIInv, UploadsInv

\* A finish() returns to the main loop.
LEMMA LeaveStep ==
  ASSUME LocalIInv, NEW u \in Uploads, up[u].pc \in {"unlinked", "linked"}, NEW job \in UploadType,
         up' = [up EXCEPT ![u] = job], Elsewhere, main' = "free",
         \/ job.pc = "failed" /\ job.result = "Resource"
         \/ job.pc = "returned" /\ up[u].pc = "linked" /\ job.result \in {"ok", "Resource"},
         job.mode = up[u].mode, job.overwrite = up[u].overwrite, job.etag = up[u].etag,
         job.raced = up[u].raced, job.removed = up[u].removed, job.st = "gone"
  PROVE  LocalIInv'
<1> USE DEF Elsewhere
<1>1. up[u].pc \in Active
  BY DEF Active
<1>2. /\ up' \in [Uploads -> UploadType]
      /\ \A v \in Uploads : up'[v] = IF v = u THEN job ELSE up[v]
      /\ OneFinish' /\ OneOfRivals'
  BY <1>1, WithinFinish
<1>3. Types'
  BY <1>2 DEF LocalIInv, Types
<1>4. DiskInv' /\ DownloadsInv'
  BY DEF LocalIInv, DiskInv, DownloadsInv, DownloadOK, Now
<1>5. ASSUME NEW v \in Uploads
      PROVE  UploadOK(up[v], main)' /\ ETagOK(up[v])'
  <2>1. CASE v = u
    <3>1. up'[v] = job
      BY <1>2, <2>1
    <3>2. UploadOK(up[v], main)'
      BY <3>1 DEF UploadOK, Active
    <3>3. ETagOK(up[u])
      BY UploadFacts
    <3>4. ETagOK(up[v])'
      BY <3>1, <3>3 DEF ETagOK, Agreed, Now, IsFile
    <3> QED
      BY <3>2, <3>4
  <2>2. CASE v # u
    <3>1. up'[v] = up[v]
      BY <1>2, <2>2
    <3>2. UploadOK(up[v], main) /\ ETagOK(up[v]) /\ up[v].pc \notin Active
      BY <1>1, <2>2, UploadFacts, OthersInactive
    <3>3. UploadOK(up[v], main)'
      BY <3>1, <3>2 DEF UploadOK
    <3>4. ETagOK(up[v])'
      BY <3>1, <3>2 DEF ETagOK, Agreed, Now, IsFile
    <3> QED
      BY <3>3, <3>4
  <2> QED
    BY <2>1, <2>2
<1>6. GoneOnlyInTheWindow'
  <2> SUFFICES ASSUME path = NoFile, vacated \in Uploads
               PROVE  up'[vacated].pc = "failed" /\ up'[vacated].result = "Resource"
    BY DEF GoneOnlyInTheWindow
  <2>1. up[vacated].pc = "unlinked" \/ (up[vacated].pc = "failed" /\ up[vacated].result = "Resource")
    BY DEF LocalIInv, GoneOnlyInTheWindow
  <2>2. CASE vacated = u
    BY <1>2, <2>1, <2>2
  <2>3. CASE vacated # u
    <3>1. up[vacated].pc \notin Active
      BY <1>1, <2>3, OthersInactive
    <3> QED
      BY <1>2, <2>1, <2>3, <3>1 DEF Active
  <2> QED
    BY <2>2, <2>3
<1> QED
  BY <1>2, <1>3, <1>4, <1>5, <1>6 DEF LocalIInv, UploadsInv

LEMMA ReturnItemStep ==
  ASSUME LocalIInv, NEW u \in Uploads, ReturnItem(u)
  PROVE  LocalIInv'
<1> DEFINE r == IF path # NoFile THEN "ok" ELSE "Resource"
           job == [Gone(up[u], r) EXCEPT !.pc = "returned"]
<1>1. up[u] \in UploadType
  BY UploadFacts
<1>2. r \in {"ok", "Resource"}
  OBVIOUS
<1>3. Elsewhere /\ main' = "free" /\ up[u].pc = "linked" /\ up' = [up EXCEPT ![u] = job]
  BY DEF ReturnItem, Elsewhere, FileSystem
<1> HIDE DEF r
<1>4. Gone(up[u], r) \in UploadType
  BY <1>1, <1>2 DEF Gone, UploadType
<1>5. job \in UploadType
  BY <1>4 DEF UploadType
<1>6. /\ job.pc = "returned" /\ job.result = r /\ job.st = "gone"
      /\ job.mode = up[u].mode /\ job.overwrite = up[u].overwrite /\ job.etag = up[u].etag
      /\ job.raced = up[u].raced /\ job.removed = up[u].removed
  BY <1>1, <1>2 DEF Gone, UploadType
<1> HIDE DEF job
<1> QED
  BY <1>2, <1>3, <1>5, <1>6, LeaveStep

LEMMA LinkStep ==
  ASSUME LocalIInv, NEW u \in Uploads, Link(u)
  PROVE  LocalIInv'
<1>1. up[u] \in UploadType /\ UploadOK(up[u], main) /\ ETagOK(up[u]) /\ up \in [Uploads -> UploadType]
      /\ Now \in Nat
  BY UploadFacts
<1>2. main = "busy" /\ up[u].pc = "unlinked" /\ up[u].pc \in Active /\ UNCHANGED <<changes, down>>
  BY DEF Link, Active
<1>3. CASE /\ up' = [up EXCEPT ![u] = [Gone(@, "Resource") EXCEPT !.pc = "failed"]]
           /\ main' = "free"
           /\ UNCHANGED FileSystem
  <2> DEFINE job == [Gone(up[u], "Resource") EXCEPT !.pc = "failed"]
  <2>1. Gone(up[u], "Resource") \in UploadType
    BY <1>1 DEF Gone, UploadType
  <2>2. job \in UploadType
    BY <2>1 DEF UploadType
  <2>3. /\ job.pc = "failed" /\ job.result = "Resource" /\ job.st = "gone"
        /\ job.mode = up[u].mode /\ job.overwrite = up[u].overwrite /\ job.etag = up[u].etag
        /\ job.raced = up[u].raced /\ job.removed = up[u].removed
    BY <1>1 DEF Gone, UploadType
  <2>4. up' = [up EXCEPT ![u] = job] /\ Elsewhere
    BY <1>2, <1>3 DEF Elsewhere, FileSystem
  <2> HIDE DEF job
  <2> QED
    BY <1>2, <1>3, <2>2, <2>3, <2>4, LeaveStep
<1>4. CASE /\ path = NoFile
           /\ disk' = Append(disk, [size |-> up[u].got, mtime |-> Now, owner |-> u])
           /\ path' = Len(disk) + 1
           /\ vacated' = "others"
           /\ up' = [up EXCEPT ![u].pc = "linked"]
           /\ main' = main
  <2> DEFINE job == [up[u] EXCEPT !.pc = "linked"]
             file == [size |-> up[u].got, mtime |-> Now, owner |-> u]
  <2>1. job \in UploadType /\ up' = [up EXCEPT ![u] = job]
    BY <1>1, <1>4 DEF UploadType, Active
  <2>2. /\ job.pc = "linked" /\ job.removed = up[u].removed
        /\ job.st = up[u].st /\ job.result = up[u].result /\ job.got = up[u].got
        /\ job.left = up[u].left /\ job.connected = up[u].connected /\ job.completed = up[u].completed
        /\ job.mode = up[u].mode /\ job.overwrite = up[u].overwrite /\ job.etag = up[u].etag
        /\ job.raced = up[u].raced
    BY <1>1 DEF UploadType
  <2> HIDE DEF job
  <2>3. /\ up' \in [Uploads -> UploadType]
        /\ \A v \in Uploads : up'[v] = IF v = u THEN job ELSE up[v]
        /\ OneFinish' /\ OneOfRivals'
    BY <1>2, <2>1, <2>2, WithinFinish
  <2>4. file \in FileType /\ file.size = Size /\ file.mtime = Now /\ file.owner = u
    BY <1>1, <1>2, SizesAssumption, NowPositive DEF FileType, UploadOK
  <2>5. disk \in Seq(FileType) /\ changes \in Nat /\ disk' = Append(disk, file)
    BY <1>4 DEF LocalIInv, Types
  <2> HIDE DEF file
  <2> QED
    <3>1. /\ Len(disk') = Len(disk) + 1 /\ disk' \in Seq(FileType) /\ Now' = Now + 1 /\ Now' \in Nat /\ Now < Now'
          /\ \A i \in 1..Len(disk) : disk'[i] = disk[i]
          /\ disk'[Len(disk) + 1] = file
      BY <1>1, <1>2, <2>4, <2>5, Appended
    <3>2. Types'
      BY <1>2, <1>4, <2>3, <3>1 DEF LocalIInv, Types
    <3>3. DiskInv'
      BY <2>4, <2>5, <3>1, <1>1, NewFileDisk DEF LocalIInv
    <3>4. DownloadsInv'
      BY <1>1, <1>2, <2>5, <3>1, NewFileDownloads DEF LocalIInv, Types
    <3>5. ASSUME NEW v \in Uploads
          PROVE  UploadOK(up[v], main)' /\ ETagOK(up[v])'
      <4>1. up[v] \in UploadType /\ UploadOK(up[v], main) /\ ETagOK(up[v])
        BY UploadFacts
      <4>2. UploadOK(up[v], main)'
        BY <1>1, <1>2, <1>4, <2>2, <2>3, <4>1 DEF UploadOK, Active
      <4>3. /\ up'[v].removed = up[v].removed /\ up'[v].raced = up[v].raced
            /\ up'[v].mode = up[v].mode /\ up'[v].overwrite = up[v].overwrite /\ up'[v].etag = up[v].etag
            /\ up'[v].pc # "checked"
        BY <1>2, <2>2, <2>3, OthersInactive DEF Active
      <4>4. up[v].removed \in Nat /\ up[v].etag \in Nat
        BY <4>1 DEF UploadType
      <4> QED
        BY <1>1, <1>4, <2>4, <2>5, <3>1, <4>1, <4>2, <4>3, <4>4 DEF ETagOK, Agreed, NoFile
    <3>6. GoneOnlyInTheWindow'
      BY <1>4, JobsAssumption DEF GoneOnlyInTheWindow
    <3> QED
      BY <2>3, <3>2, <3>3, <3>4, <3>5, <3>6 DEF LocalIInv, UploadsInv
<1> QED
  BY <1>3, <1>4 DEF Link

-----------------------------------------------------------------------------
(***************************************************************************)
(* Downloads.                                                              *)
(***************************************************************************)
\* A step of a download disturbs nothing else, even if it ends the process.
LEMMA DownloadKeeps ==
  ASSUME LocalIInv, NEW d \in Downloads, NEW job \in DownloadType, DownloadOK(job),
         down' = [down EXCEPT ![d] = job], UNCHANGED <<path, disk, vacated, changes, up>>,
         main = "free", main' \in {"free", "crashed"}
  PROVE  LocalIInv'
<1>1. down \in [Downloads -> DownloadType]
  BY DEF LocalIInv, Types
<1>2. Types'
  BY <1>1 DEF LocalIInv, Types
<1>3. DiskInv' /\ OneFinish' /\ OneOfRivals'
  BY DEF LocalIInv, DiskInv, OneFinish, OneOfRivals, Rivals, Past, Now
<1>4. ASSUME NEW u \in Uploads PROVE UploadOK(up[u], main)' /\ ETagOK(up[u])'
  <2>1. UploadOK(up[u], main) /\ ETagOK(up[u]) /\ up[u].pc \notin Active
    BY UploadFacts, NobodyActive
  <2>2. UploadOK(up[u], main)'
    BY <2>1 DEF UploadOK
  <2>3. ETagOK(up[u])'
    BY <2>1 DEF ETagOK, Agreed, Now, IsFile
  <2> QED
    BY <2>2, <2>3
<1>5. GoneOnlyInTheWindow'
  BY DEF LocalIInv, GoneOnlyInTheWindow
<1>6. ASSUME NEW e \in Downloads PROVE DownloadOK(down[e])'
  <2>1. CASE e = d
    <3>1. down'[e] = job
      BY <1>1, <2>1
    <3> QED
      BY <3>1 DEF DownloadOK, Now
  <2>2. CASE e # d
    <3>1. down'[e] = down[e] /\ DownloadOK(down[e])
      BY <1>1, <2>2 DEF LocalIInv, DownloadsInv
    <3> QED
      BY <3>1 DEF DownloadOK, Now
  <2> QED
    BY <2>1, <2>2
<1> QED
  BY <1>2, <1>3, <1>4, <1>5, <1>6 DEF LocalIInv, UploadsInv, DownloadsInv

LEMMA DownloadFacts ==
  ASSUME LocalIInv, NEW d \in Downloads
  PROVE  /\ down[d] \in DownloadType /\ DownloadOK(down[d]) /\ down \in [Downloads -> DownloadType]
         /\ Now \in Nat \ {0} /\ Len(disk) \in Nat /\ disk \in Seq(FileType)
         /\ path \in Int /\ -1 <= path /\ path <= Len(disk)
  BY DEF LocalIInv, DownloadsInv, Types, Now

\* A download is refused, or taken from the table with an error.
LEMMA DownloadGone ==
  ASSUME LocalIInv, NEW d \in Downloads, NEW job \in DownloadType, DownloadOK(job),
         NEW e \in {"error", "NotExists", "Logic", "Conflict", "Resource", "Cancelled"},
         down' = [down EXCEPT ![d] = Gone(job, e)],
         UNCHANGED <<path, disk, vacated, changes, up, main>>, main = "free"
  PROVE  LocalIInv'
<1> DEFINE new == Gone(job, e)
<1>1. new \in DownloadType
  BY DEF Gone, DownloadType
<1>2. DownloadOK(new)
  BY DEF DownloadOK, Gone, DownloadType
<1>3. down' = [down EXCEPT ![d] = new]
  OBVIOUS
<1> HIDE DEF new
<1> QED
  BY <1>1, <1>2, <1>3, DownloadKeeps

LEMMA DownloadJobStep ==
  ASSUME LocalIInv, NEW d \in Downloads, Download(d)
  PROVE  LocalIInv'
<1>1. /\ UNCHANGED <<path, disk, vacated, changes, up, main>> /\ main = "free"
      /\ down[d].st = "none"
  BY DEF Download, FileSystem
<1>2. /\ down[d] \in DownloadType /\ DownloadOK(down[d]) /\ down \in [Downloads -> DownloadType]
      /\ Now \in Nat \ {0} /\ Len(disk) \in Nat /\ disk \in Seq(FileType)
      /\ path \in Int /\ -1 <= path /\ path <= Len(disk)
  BY DownloadFacts
<1>3. CASE down' = [down EXCEPT ![d] = Gone(@, "Resource")]
  <2>1. down' = [down EXCEPT ![d] = Gone(down[d], "Resource")]
    BY <1>3
  <2> QED
    BY <1>1, <1>2, <2>1, DownloadGone
<1>4. ASSUME NEW etag \in ETags, NEW opened \in BOOLEAN, NEW refused,
             refused = CASE path = NoFile -> "NotExists"
                         [] path = AFolder -> "Logic"
                         [] IsFile /\ etag \notin {NoETag, MTime} -> "Conflict"
                         [] OTHER -> IF opened THEN "ok" ELSE FileException,
             down' = [down EXCEPT ![d] =
                  IF refused # "ok" THEN Gone(@, refused)
                  ELSE [@ EXCEPT !.st = "queued", !.file = path, !.mtime = MTime,
                                 !.size = disk[path].size, !.left = disk[path].size]]
      PROVE  LocalIInv'
  <2>1. refused \in {"NotExists", "Logic", "Conflict", "Resource", "ok"}
    BY <1>4 DEF FileException
  <2>2. CASE refused # "ok"
    <3>1. down' = [down EXCEPT ![d] = Gone(down[d], refused)]
      BY <1>4, <2>2
    <3> QED
      BY <1>1, <1>2, <2>1, <2>2, <3>1, DownloadGone
  <2>3. CASE refused = "ok"
    <3> DEFINE job == [down[d] EXCEPT !.st = "queued", !.file = path, !.mtime = MTime,
                                      !.size = disk[path].size, !.left = disk[path].size]
    <3>1. path \in 1..Len(disk)
      BY <1>2, <1>4, <2>3 DEF NoFile, AFolder
    <3>2. disk[path] \in FileType
      BY <1>2, <3>1
    <3>3. disk[path].size \in Nat /\ disk[path].size \in Int /\ MTime \in Nat /\ disk[path].mtime = MTime /\ path \in Nat
      BY <3>1, <3>2 DEF FileType, MTime
    <3>4. MTime < Now
      BY <3>1 DEF LocalIInv, DiskInv, MTime
    <3>5. job \in DownloadType
      BY <1>2, <3>3 DEF DownloadType
    <3>6. /\ job.st = "queued" /\ job.file = path /\ job.mtime = MTime /\ job.size = disk[path].size
          /\ job.left = disk[path].size /\ job.offset = down[d].offset /\ job.pending = down[d].pending
          /\ job.completed = down[d].completed /\ job.result = down[d].result
      BY <1>2 DEF DownloadType
    <3>7. down' = [down EXCEPT ![d] = job]
      BY <1>4, <2>3
    <3> HIDE DEF job
    <3>8. DownloadOK(job)
      BY <1>1, <1>2, <3>1, <3>3, <3>4, <3>6 DEF DownloadOK, NoFile
    <3> QED
      BY <1>1, <3>5, <3>7, <3>8, DownloadKeeps
  <2> QED
    BY <2>2, <2>3
<1> QED
  BY <1>3, <1>4 DEF Download, DownloadJobImpl

LEMMA CancelDownloadStep ==
  ASSUME LocalIInv, NEW d \in Downloads, CancelDownload(d)
  PROVE  LocalIInv'
<1>1. /\ UNCHANGED <<path, disk, vacated, changes, up, main>> /\ main = "free"
      /\ down' = [down EXCEPT ![d] = Gone(NoDownload, "Cancelled")]
  BY DEF CancelDownload, Running, FileSystem
<1>2. NoDownload \in DownloadType /\ DownloadOK(NoDownload)
  BY NothingTyped, DownloadFacts DEF NoDownload, DownloadOK, NoFile
<1> QED
  BY <1>1, <1>2, DownloadGone

\* A download that goes on: the next chunk, the end, or a failure.
LEMMA ChunkFacts ==
  ASSUME disk \in Seq(FileType), NEW job \in DownloadType, DownloadOK(job),
         job.st \in {"queued", "running"}, job.result = "none"
  PROVE  /\ NextChunk(job) \in DownloadType /\ DownloadOK(NextChunk(job))
         /\ Failed(job) \in DownloadType /\ DownloadOK(Failed(job))
<1> DEFINE rest == disk[job.file].size - job.offset
           n == IF rest < 0 THEN 0 ELSE IF rest < Chunk THEN rest ELSE Chunk
<1>1. job.file \in 1..Len(disk) /\ job.completed = "none"
  BY DEF DownloadOK, DownloadType, NoFile
<1>2. disk[job.file] \in FileType
  BY <1>1
<1>3. disk[job.file].size \in Nat /\ job.offset \in Nat /\ job.pending \in Nat /\ job.size \in Nat /\ job.left \in Int
  BY <1>2 DEF FileType, DownloadType
<1>4. rest \in Int /\ n \in Nat /\ (rest >= 0 => n <= rest)
  BY <1>3, SizesAssumption
<1>5. job.offset + n \in Nat /\ job.pending + n \in Nat
  BY <1>3, <1>4
<1>6. ASSUME job.left = 0
      PROVE  NextChunk(job) \in DownloadType /\ DownloadOK(NextChunk(job))
  <2> DEFINE new == [job EXCEPT !.st = "closed", !.completed = "ok"]
  <2>1. NextChunk(job) = new
    BY <1>6 DEF NextChunk
  <2>2. /\ new \in DownloadType /\ new.st = "closed" /\ new.completed = "ok"
        /\ new.file = job.file /\ new.mtime = job.mtime /\ new.size = job.size /\ new.left = job.left
        /\ new.offset = job.offset /\ new.pending = job.pending /\ new.result = job.result
    BY DEF DownloadType
  <2> HIDE DEF new
  <2>3. DownloadOK(new)
    BY <1>1, <1>6, <2>2 DEF DownloadOK, NoFile
  <2> QED
    BY <2>1, <2>2, <2>3
<1>7. ASSUME job.left # 0
      PROVE  NextChunk(job) \in DownloadType /\ DownloadOK(NextChunk(job))
  <2> DEFINE new == [job EXCEPT !.st = "running", !.offset = job.offset + n, !.pending = job.pending + n]
  <2>1. NextChunk(job) = new
    BY <1>7 DEF NextChunk
  <2> HIDE DEF n
  <2>2. new \in DownloadType
    BY <1>5 DEF DownloadType
  <2>3. /\ new.st = "running" /\ new.offset = job.offset + n /\ new.pending = job.pending + n
        /\ new.file = job.file /\ new.mtime = job.mtime /\ new.size = job.size /\ new.left = job.left
        /\ new.completed = job.completed /\ new.result = job.result
    BY DEF DownloadType
  <2> HIDE DEF new
  <2>4. job.left = job.size - job.offset + job.pending
    BY <1>1 DEF DownloadOK, NoFile
  <2>5. new.left = new.size - new.offset + new.pending
    BY <1>3, <1>4, <2>3, <2>4
  <2>6. disk[job.file].mtime = job.mtime => disk[job.file].size = job.size /\ job.offset + n <= job.size
    BY <1>1, <1>3, <1>4 DEF DownloadOK, NoFile
  <2>7. DownloadOK(new)
    <3>1. new.file <= Len(disk) /\ new.mtime < Now
      BY <2>3 DEF DownloadOK
    <3> QED
      BY <1>1, <2>3, <2>5, <2>6, <3>1 DEF DownloadOK, NoFile
  <2> QED
    BY <2>1, <2>2, <2>7
<1>8. Failed(job) \in DownloadType
  BY DEF Failed, DownloadType
<1>9. DownloadOK(Failed(job))
  BY <1>1 DEF Failed, DownloadType, DownloadOK, NoFile
<1> QED
  BY <1>6, <1>7, <1>8, <1>9

LEMMA ReadChunkStep ==
  ASSUME LocalIInv, NEW d \in Downloads, ReadAndWriteChunk(d)
  PROVE  LocalIInv'
<1>1. /\ UNCHANGED <<path, disk, vacated, changes, up, main>> /\ main = "free"
      /\ down[d].result = "none" /\ down[d].st = "queued"
  BY DEF ReadAndWriteChunk, Running, FileSystem
<1>2. /\ NextChunk(down[d]) \in DownloadType /\ DownloadOK(NextChunk(down[d]))
      /\ Failed(down[d]) \in DownloadType /\ DownloadOK(Failed(down[d]))
  BY <1>1, DownloadFacts, ChunkFacts
<1>3. \/ down' = [down EXCEPT ![d] = NextChunk(down[d])]
      \/ down' = [down EXCEPT ![d] = Failed(down[d])]
  BY DEF ReadAndWriteChunk
<1> QED
  BY <1>1, <1>2, <1>3, DownloadKeeps

LEMMA BytesWrittenStep ==
  ASSUME LocalIInv, NEW d \in Downloads, OnBytesWritten(d)
  PROVE  LocalIInv'
<1>1. /\ UNCHANGED <<path, disk, vacated, changes, up>> /\ main = "free"
      /\ down[d].result = "none" /\ down[d].st = "running"
  BY DEF OnBytesWritten, Running, FileSystem
<1>2. PICK n \in 1..down[d].pending :
          LET job == [down[d] EXCEPT !.left = @ - n, !.pending = @ - n]
          IN  \/ down' = [down EXCEPT ![d] = NextChunk(job)] /\ main' = main
              \/ job.left # 0 /\ down' = [down EXCEPT ![d] = Failed(job)] /\ main' = main
              \/ job.left < 0 /\ down' = [down EXCEPT ![d] = job] /\ main' = "crashed"
  BY DEF OnBytesWritten
<1> DEFINE job == [down[d] EXCEPT !.left = @ - n, !.pending = @ - n]
<1>3. down[d] \in DownloadType /\ DownloadOK(down[d]) /\ disk \in Seq(FileType)
  BY DownloadFacts
<1>4. down[d].left \in Int /\ down[d].pending \in Nat /\ down[d].size \in Nat /\ down[d].offset \in Nat
  BY <1>3 DEF DownloadType
<1>5. down[d].left - n \in Int /\ down[d].pending - n \in Nat
  BY <1>4
<1>6. job \in DownloadType
  BY <1>3, <1>5 DEF DownloadType
<1>7. /\ job.left = down[d].left - n /\ job.pending = down[d].pending - n
      /\ job.st = down[d].st /\ job.file = down[d].file /\ job.mtime = down[d].mtime
      /\ job.size = down[d].size /\ job.offset = down[d].offset
      /\ job.completed = down[d].completed /\ job.result = down[d].result
  BY <1>3 DEF DownloadType
<1>8. \/ down' = [down EXCEPT ![d] = NextChunk(job)] /\ main' = main
      \/ down' = [down EXCEPT ![d] = Failed(job)] /\ main' = main
      \/ down' = [down EXCEPT ![d] = job] /\ main' = "crashed"
  BY <1>2
<1> HIDE DEF job
<1>9. DownloadOK(job)
  <2>1. job.file # NoFile /\ job.file <= Len(disk) /\ job.mtime < Now /\ job.completed = "none"
    BY <1>1, <1>3, <1>7 DEF DownloadOK
  <2>2. down[d].left = down[d].size - down[d].offset + down[d].pending
    BY <1>3, <1>7, <2>1 DEF DownloadOK
  <2>3. job.left = job.size - job.offset + job.pending
    BY <1>4, <1>7, <2>2
  <2>4. disk[job.file].mtime = job.mtime => disk[job.file].size = job.size /\ job.offset <= job.size
    BY <1>3, <1>7, <2>1 DEF DownloadOK
  <2> QED
    BY <1>1, <1>7, <2>1, <2>3, <2>4 DEF DownloadOK
<1>10. /\ NextChunk(job) \in DownloadType /\ DownloadOK(NextChunk(job))
       /\ Failed(job) \in DownloadType /\ DownloadOK(Failed(job))
  BY <1>1, <1>3, <1>6, <1>7, <1>9, ChunkFacts
<1> QED
  BY <1>1, <1>6, <1>8, <1>9, <1>10, DownloadKeeps

LEMMA FinishDownloadStep ==
  ASSUME LocalIInv, NEW d \in Downloads, FinishDownload(d)
  PROVE  LocalIInv'
<1> DEFINE r == CASE down[d].completed # "none" -> down[d].completed
                  [] down[d].completed = "none" /\ down[d].left > 0 -> "Logic"
                  [] OTHER -> "ok"
           job == Gone(down[d], r)
<1>1. /\ UNCHANGED <<path, disk, vacated, changes, up, main>> /\ main = "free"
      /\ down[d].st \notin {"none", "gone"} /\ down' = [down EXCEPT ![d] = job]
  BY DEF FinishDownload, Running, FileSystem
<1>2. down[d] \in DownloadType /\ DownloadOK(down[d])
  BY DownloadFacts
<1>3. r \in {"ok", "error", "Logic"} /\ (r = "ok" => down[d].left <= 0)
  BY <1>2 DEF DownloadType, DownloadOK
<1> HIDE DEF r
<1>4. job \in DownloadType
  BY <1>2, <1>3 DEF Gone, DownloadType
<1>5. DownloadOK(job)
  BY <1>1, <1>2, <1>3 DEF Gone, DownloadType, DownloadOK
<1> HIDE DEF job
<1> QED
  BY <1>1, <1>4, <1>5, DownloadKeeps

-----------------------------------------------------------------------------
(***************************************************************************)
(* Changes by others.                                                      *)
(***************************************************************************)
\* Whatever others do at the path, a file that comes or is written there has a new
\* modification time, and files that are not there stay as they are.
LEMMA ChangeKeeps ==
  ASSUME LocalIInv, Change, disk' \in Seq(FileType), Len(disk) <= Len(disk'),
         path' \in Int, -1 <= path', path' <= Len(disk'),
         \A i \in 1..Len(disk) : disk'[i] = disk[i] \/ (i = path /\ disk'[i].mtime = Now),
         path' = path \/ path' \notin 1..Len(disk),
         path' > 0 => disk'[path'].mtime = Now,
         DiskInv'
  PROVE  LocalIInv'
<1>1. /\ changes' = changes + 1 /\ vacated' = "others" /\ main' = main /\ down' = down
      /\ up' = [u \in Uploads |-> [up[u] EXCEPT !.raced = @ \/ up[u].pc = "checked"]]
  BY DEF Change
<1>2. /\ disk \in Seq(FileType) /\ Len(disk) \in Nat /\ Len(disk') \in Nat /\ changes \in Nat
      /\ path \in Int /\ up \in [Uploads -> UploadType] /\ down \in [Downloads -> DownloadType]
  BY DEF LocalIInv, Types
<1>3. Now \in Nat /\ Now' \in Nat /\ Now < Now'
  BY <1>1, <1>2 DEF Now
<1>4. ASSUME NEW u \in Uploads
      PROVE  /\ up'[u] \in UploadType
             /\ up'[u].raced = (up[u].raced \/ up[u].pc = "checked")
             /\ up'[u].st = up[u].st /\ up'[u].pc = up[u].pc /\ up'[u].result = up[u].result
             /\ up'[u].left = up[u].left /\ up'[u].got = up[u].got /\ up'[u].removed = up[u].removed
             /\ up'[u].connected = up[u].connected /\ up'[u].completed = up[u].completed
             /\ up'[u].mode = up[u].mode /\ up'[u].overwrite = up[u].overwrite
             /\ up'[u].etag = up[u].etag
  <2>1. up[u] \in UploadType
    BY <1>2
  <2>2. (up[u].raced \/ up[u].pc = "checked") \in BOOLEAN
    OBVIOUS
  <2>3. up'[u] = [up[u] EXCEPT !.raced = up[u].raced \/ up[u].pc = "checked"]
    BY <1>1
  <2> QED
    BY <2>1, <2>2, <2>3 DEF UploadType
<1>5. Types'
  <2>1. up' \in [Uploads -> UploadType]
    BY <1>1, <1>4
  <2> QED
    BY <1>1, <1>2, <2>1 DEF LocalIInv, Types
<1>6. ASSUME NEW u \in Uploads
      PROVE  UploadOK(up[u], main)' /\ ETagOK(up[u])'
  <2>1. up[u] \in UploadType /\ UploadOK(up[u], main) /\ ETagOK(up[u])
    BY UploadFacts
  <2>2. UploadOK(up[u], main)'
    BY <1>1, <1>4, <2>1 DEF UploadOK
  <2>3. up[u].etag \in Nat /\ up[u].removed \in Nat /\ up[u].raced \in BOOLEAN /\ up'[u].raced \in BOOLEAN
    BY <1>4, <2>1 DEF UploadType
  <2>4. up[u].removed # NoFile => up[u].removed \in 1..Len(disk) /\ up[u].removed # path
    BY <2>1, <2>3 DEF ETagOK, NoFile
  <2>5. up[u].removed # NoFile => disk'[up[u].removed] = disk[up[u].removed] /\ up[u].removed # path'
    BY <2>4
  <2>6. up[u].etag < Now' /\ up[u].removed <= Len(disk') /\ up[u].etag < Now
    BY <1>2, <1>3, <2>1, <2>3 DEF ETagOK
  <2>7. up'[u].removed # NoFile /\ ~ up'[u].raced => Agreed(up'[u], disk'[up'[u].removed].mtime)
    BY <1>4, <2>1, <2>5 DEF ETagOK, Agreed
  <2>8. up'[u].pc = "checked" => up'[u].raced
    BY <1>4
  <2>9. path' > 0 => disk'[path'].mtime # up'[u].etag
    BY <1>3, <1>4, <2>3, <2>6
  <2>10. ETagOK(up[u])'
    BY <1>4, <2>5, <2>6, <2>7, <2>8, <2>9 DEF ETagOK, IsFile, Agreed
  <2> QED
    BY <2>2, <2>10
<1>7. OneFinish' /\ OneOfRivals'
  BY <1>4 DEF LocalIInv, OneFinish, OneOfRivals, Rivals, Past
<1>8. GoneOnlyInTheWindow'
  BY <1>1, JobsAssumption DEF GoneOnlyInTheWindow
<1>9. ASSUME NEW d \in Downloads
      PROVE  DownloadOK(down[d])'
  <2>1. down[d] \in DownloadType /\ DownloadOK(down[d]) /\ down'[d] = down[d]
    BY <1>1, DownloadFacts
  <2>2. down[d].file \in Nat /\ down[d].mtime \in Nat
    BY <2>1 DEF DownloadType
  <2>3. down[d].file <= Len(disk') /\ down[d].mtime < Now' /\ down[d].mtime < Now
    BY <1>2, <1>3, <2>1, <2>2 DEF DownloadOK
  <2>4. ASSUME down[d].file # NoFile, disk'[down[d].file].mtime = down[d].mtime
        PROVE  disk'[down[d].file] = disk[down[d].file]
    <3>1. down[d].file \in 1..Len(disk)
      BY <1>2, <2>1, <2>2, <2>4 DEF DownloadOK, NoFile
    <3> QED
      BY <1>3, <2>2, <2>3, <2>4, <3>1, SMTT(40)
  <2> QED
    BY <2>1, <2>3, <2>4 DEF DownloadOK
<1> QED
  BY <1>5, <1>6, <1>7, <1>8, <1>9 DEF LocalIInv, UploadsInv, DownloadsInv

LEMMA OtherRemovesStep ==
  ASSUME LocalIInv, OtherRemoves \/ OtherMakesFolder
  PROVE  LocalIInv'
<1>1. disk' = disk /\ Change /\ path' \in {NoFile, AFolder}
  BY DEF OtherRemoves, OtherMakesFolder
<1>2. disk \in Seq(FileType) /\ Len(disk) \in Nat /\ changes \in Nat
  BY DEF LocalIInv, Types
<1>3. Now' = Now + 1 /\ Now \in Nat
  BY <1>1, <1>2 DEF Now, Change
<1>4. DiskInv'
  <2> SUFFICES ASSUME NEW i \in 1..Len(disk)
               PROVE  disk[i].mtime < Now' /\ (disk[i].owner \in Uploads => disk[i].size = Size)
    BY <1>1 DEF DiskInv
  <2>1. disk[i] \in FileType
    BY <1>2
  <2>2. disk[i].mtime \in Nat
    BY <2>1 DEF FileType
  <2> QED
    BY <1>3, <2>2 DEF LocalIInv, DiskInv
<1>5. /\ disk' \in Seq(FileType) /\ Len(disk) <= Len(disk')
      /\ path' \in Int /\ -1 <= path' /\ path' <= Len(disk') /\ path' \notin 1..Len(disk)
      /\ ~ (path' > 0)
  BY <1>1, <1>2 DEF NoFile, AFolder
<1>6. \A i \in 1..Len(disk) : disk'[i] = disk[i]
  BY <1>1
<1> QED
  BY <1>1, <1>4, <1>5, <1>6, ChangeKeeps

LEMMA OtherMovesStep ==
  ASSUME LocalIInv, OtherMovesFileHere
  PROVE  LocalIInv'
<1>1. PICK n \in FileSizes : disk' = Append(disk, [size |-> n, mtime |-> Now, owner |-> "others"])
  BY DEF OtherMovesFileHere
<1> DEFINE file == [size |-> n, mtime |-> Now, owner |-> "others"]
<1>2. path' = Len(disk) + 1 /\ Change /\ changes' = changes + 1
  BY DEF OtherMovesFileHere, Change
<1>3. disk \in Seq(FileType) /\ Len(disk) \in Nat /\ changes \in Nat /\ DiskInv
  BY DEF LocalIInv, Types
<1>4. Now \in Nat \ {0}
  BY NowPositive
<1>5. file \in FileType /\ file.mtime = Now /\ file.owner = "others"
  BY <1>4, SizesAssumption DEF FileType
<1> HIDE DEF file
<1>6. /\ Len(disk') = Len(disk) + 1 /\ disk' \in Seq(FileType) /\ Now < Now' /\ Now' \in Nat
      /\ \A i \in 1..Len(disk) : disk'[i] = disk[i]
      /\ disk'[Len(disk) + 1] = file
  BY <1>1, <1>2, <1>3, <1>5, Appended DEF file
<1>7. DiskInv'
  BY <1>3, <1>4, <1>5, <1>6, JobsAssumption, NewFileDisk
<1>8. /\ disk' \in Seq(FileType) /\ Len(disk) <= Len(disk')
      /\ path' \in Int /\ -1 <= path' /\ path' <= Len(disk') /\ path' \notin 1..Len(disk)
      /\ disk'[path'].mtime = Now
  BY <1>2, <1>3, <1>5, <1>6
<1> QED
  BY <1>2, <1>6, <1>7, <1>8, ChangeKeeps

LEMMA OtherWritesStep ==
  ASSUME LocalIInv, OtherWrites
  PROVE  LocalIInv'
<1>1. PICK n \in FileSizes :
          disk' = [disk EXCEPT ![path].size = n, ![path].mtime = Now, ![path].owner = "others"]
  BY DEF OtherWrites
<1> DEFINE file == [disk[path] EXCEPT !.size = n, !.mtime = Now, !.owner = "others"]
<1>2. path' = path /\ path > 0 /\ Change /\ changes' = changes + 1
  BY DEF OtherWrites, Change, IsFile
<1>3. disk \in Seq(FileType) /\ Len(disk) \in Nat /\ changes \in Nat /\ path \in 1..Len(disk)
  BY <1>2 DEF LocalIInv, Types
<1>4. Now \in Nat \ {0} /\ disk[path] \in FileType
  BY <1>3, NowPositive
<1>5. file \in FileType /\ file.mtime = Now /\ file.owner = "others"
  BY <1>4, SizesAssumption DEF FileType
<1>6. disk' = [disk EXCEPT ![path] = file]
  BY <1>1, <1>3, <1>4 DEF FileType
<1> HIDE DEF file
<1>7. /\ Len(disk') = Len(disk) /\ disk' \in Seq(FileType) /\ Now' = Now + 1
      /\ \A i \in 1..Len(disk) : disk'[i] = IF i = path THEN file ELSE disk[i]
  BY <1>2, <1>3, <1>5, <1>6 DEF Now
<1>8. DiskInv'
  <2> SUFFICES ASSUME NEW i \in 1..Len(disk)
               PROVE  disk'[i].mtime < Now' /\ (disk'[i].owner \in Uploads => disk'[i].size = Size)
    BY <1>7 DEF DiskInv
  <2>1. disk[i] \in FileType
    BY <1>3
  <2>2. disk[i].mtime \in Nat
    BY <2>1 DEF FileType
  <2>3. CASE i = path
    BY <1>4, <1>5, <1>7, <2>3, JobsAssumption
  <2>4. CASE i # path
    BY <1>4, <1>7, <2>2, <2>4 DEF LocalIInv, DiskInv
  <2> QED
    BY <2>3, <2>4
<1>9. /\ disk' \in Seq(FileType) /\ Len(disk) <= Len(disk')
      /\ path' \in Int /\ -1 <= path' /\ path' <= Len(disk') /\ path' = path
      /\ disk'[path'].mtime = Now
  BY <1>2, <1>3, <1>5, <1>7
<1>10. \A i \in 1..Len(disk) : disk'[i] = disk[i] \/ (i = path /\ disk'[i].mtime = Now)
  BY <1>5, <1>7
<1> QED
  BY <1>2, <1>8, <1>9, <1>10, ChangeKeeps

LEMMA CrashStep ==
  ASSUME LocalIInv, Crash
  PROVE  LocalIInv'
<1>1. UNCHANGED <<path, disk, vacated, changes, up, down>> /\ main = "busy" /\ main' = "crashed"
  BY DEF Crash, FileSystem
<1>2. Types' /\ DiskInv' /\ OneFinish' /\ OneOfRivals'
  BY <1>1 DEF LocalIInv, Types, DiskInv, OneFinish, OneOfRivals, Rivals, Past, Now
<1>3. ASSUME NEW u \in Uploads PROVE UploadOK(up[u], main)' /\ ETagOK(up[u])'
  <2>1. UploadOK(up[u], main)'
    BY <1>1, UploadFacts DEF UploadOK
  <2>2. ETagOK(up[u])'
    BY <1>1, UploadFacts DEF ETagOK, Agreed, Now, IsFile
  <2> QED
    BY <2>1, <2>2
<1>4. GoneOnlyInTheWindow' /\ DownloadsInv'
  BY <1>1 DEF LocalIInv, GoneOnlyInTheWindow, DownloadsInv, DownloadOK, Now
<1> QED
  BY <1>2, <1>3, <1>4 DEF LocalIInv, UploadsInv

LEMMA LocalStutter ==
  ASSUME LocalIInv, UNCHANGED vars
  PROVE  LocalIInv'
<1>1. UNCHANGED <<path, disk, vacated, changes, up, down, main>>
  BY DEF vars
<1>2. Types' /\ DiskInv' /\ OneFinish' /\ OneOfRivals'
  BY <1>1 DEF LocalIInv, Types, DiskInv, OneFinish, OneOfRivals, Rivals, Past, Now
<1>3. ASSUME NEW u \in Uploads PROVE UploadOK(up[u], main)' /\ ETagOK(up[u])'
  BY <1>1, UploadFacts DEF UploadOK, ETagOK, Agreed, Now, IsFile
<1>4. GoneOnlyInTheWindow' /\ DownloadsInv'
  BY <1>1 DEF LocalIInv, GoneOnlyInTheWindow, DownloadsInv, DownloadOK, Now
<1> QED
  BY <1>2, <1>3, <1>4 DEF LocalIInv, UploadsInv

-----------------------------------------------------------------------------
(***************************************************************************)
(* The theorems about LocalJobs.                                           *)
(***************************************************************************)
\* Every step of the provider's jobs, of their clients and of others keeps the
\* invariant.
THEOREM LocalIInvHolds == Spec => []LocalIInv
<1>1. LocalIInv /\ [Next]_vars => LocalIInv'
  <2> SUFFICES ASSUME LocalIInv, [Next]_vars PROVE LocalIInv'
    OBVIOUS
  <2>1. ASSUME NEW u \in Uploads,
               \/ CreateFile(u) \/ Update(u) \/ ClientWrites(u)
               \/ CancelUpload(u) \/ FinishUpload(u) \/ UploadStep(u)
        PROVE  LocalIInv'
    BY <2>1, CreateFileStep, UpdateStep, ClientWritesStep, CancelUploadStep, FinishUploadStep,
       BytesReadyStep, UnlinkStep, LinkStep, ReturnItemStep DEF UploadStep
  <2>2. ASSUME NEW d \in Downloads,
               Download(d) \/ FinishDownload(d) \/ CancelDownload(d) \/ DownloadStep(d)
        PROVE  LocalIInv'
    BY <2>2, DownloadJobStep, FinishDownloadStep, CancelDownloadStep, ReadChunkStep,
       BytesWrittenStep DEF DownloadStep
  <2>3. CASE OtherRemoves \/ OtherMakesFolder \/ OtherMovesFileHere \/ OtherWrites \/ Crash
    BY <2>3, OtherRemovesStep, OtherMovesStep, OtherWritesStep, CrashStep
  <2>4. CASE UNCHANGED vars
    BY <2>4, LocalStutter
  <2> QED
    BY <2>1, <2>2, <2>3, <2>4 DEF Next
<1> QED
  BY <1>1, LocalInit, PTL DEF Spec

\* What LocalUploadJob::finish() stores is as long as the client announced, and a
\* download that ends well has sent what the file held, unless the file was
\* changed: for any sizes and any cut of the data.
THEOREM TransfersAreWhole == Spec => []WholeTransfers
<1>1. LocalIInv => WholeTransfers
  <2> SUFFICES ASSUME LocalIInv PROVE WholeTransfers
    OBVIOUS
  <2>1. \A i \in 1..Len(disk) : disk[i].owner \in Uploads => disk[i].size = Size
    BY DEF LocalIInv, DiskInv
  <2>2. ASSUME NEW d \in Downloads, down[d].result = "ok" \/ down[d].completed = "ok"
        PROVE  down[d].left = 0 \/ (down[d].left < 0 /\ FileChanged(d))
    <3>1. down[d] \in DownloadType /\ DownloadOK(down[d])
      BY DownloadFacts
    <3>2. down[d].left \in Int /\ down[d].size \in Nat /\ down[d].offset \in Nat /\ down[d].pending \in Nat
      BY <3>1 DEF DownloadType
    <3>3. down[d].file # NoFile /\ down[d].left <= 0
      BY <2>2, <3>1, <3>2 DEF DownloadOK
    <3>4. CASE FileChanged(d)
      BY <3>2, <3>3, <3>4
    <3>5. CASE ~ FileChanged(d)
      <4>1. down[d].offset <= down[d].size /\ down[d].left = down[d].size - down[d].offset + down[d].pending
        BY <3>1, <3>3, <3>5 DEF DownloadOK, FileChanged
      <4> QED
        BY <3>2, <3>3, <4>1
    <3> QED
      BY <3>4, <3>5
  <2> QED
    BY <2>1, <2>2 DEF WholeTransfers
<1> QED
  BY <1>1, LocalIInvHolds, PTL

\* LocalUploadJob::finish() replaces only what the client agreed to replace, unless
\* somebody else comes between its second check and unlink(), and of any number of
\* updates that started from one ETag at most one succeeds.
THEOREM ReplacementIsAgreed == Spec => []AgreedReplacement
<1>1. LocalIInv => AgreedReplacement
  <2> SUFFICES ASSUME LocalIInv PROVE AgreedReplacement
    OBVIOUS
  <2>1. ASSUME NEW u \in Uploads, up[u].removed # NoFile, ~ up[u].raced
        PROVE  Agreed(up[u], disk[up[u].removed].mtime)
    BY <2>1, UploadFacts DEF ETagOK
  <2>2. ASSUME NEW u \in Uploads, up[u].result = "ok"
        PROVE  Past(up[u])
    BY <2>2, UploadFacts DEF UploadOK, Past
  <2>3. ASSUME NEW u \in Uploads, NEW v \in Uploads, u # v, Rivals(up[u], up[v])
        PROVE  ~ (up[u].result = "ok" /\ up[v].result = "ok")
    BY <2>2, <2>3 DEF LocalIInv, OneOfRivals
  <2> QED
    BY <2>1, <2>3 DEF AgreedReplacement, Agreed, Rivals
<1> QED
  BY <1>1, LocalIInvHolds, PTL

\* Between unlink() and linkat() of LocalUploadJob::finish(), or after a reported
\* failure of linkat(): an upload leaves nothing at the path at no other time,
\* wherever the process dies.
THEOREM GoneInTheWindow == Spec => []GoneOnlyInTheWindow
<1>1. LocalIInv => GoneOnlyInTheWindow
  BY DEF LocalIInv
<1> QED
  BY <1>1, LocalIInvHolds, PTL

-----------------------------------------------------------------------------
(***************************************************************************)
(* TempfileUpload.                                                         *)
(***************************************************************************)
\* What the client wrote is in the socket or in the file, and the file of a job that
\* runs is closed only after the client has closed its end and nothing is left.
TempIInv ==
    /\ tst \in {"none", "new", "running", "draining", "drained", "thrown", "aborted"}
    /\ wrote \in Nat /\ socket \in Nat /\ tmp \in Nat
    /\ open \in BOOLEAN /\ tmpOpen \in BOOLEAN
    /\ tst # "aborted" => wrote = tmp + socket
    /\ tst \in {"running", "draining", "drained"} /\ ~ tmpOpen => ~ open /\ socket = 0
    /\ tst = "drained" => ~ tmpOpen

\* A notification moves everything from the socket to the file, closes the file when
\* the client has closed its end, or ends in a failing assertion.
LEMMA NotifiedKeeps ==
  ASSUME TempIInv, Asserts, Notified, UNCHANGED <<wrote, open>>, tst \in {"running", "draining"}
  PROVE  TempIInv'
<1>1. wrote \in Nat /\ socket \in Nat /\ tmp \in Nat /\ open \in BOOLEAN /\ tmpOpen \in BOOLEAN
      /\ wrote = tmp + socket /\ tst # "aborted" /\ tst # "drained"
  BY DEF TempIInv
<1>2. CASE socket > 0 /\ OnReadyRead /\ UNCHANGED tmpOpen
  <2>1. tmpOpen
    BY <1>1, <1>2 DEF TempIInv
  <2>2. CASE tmp' = tmp + socket /\ UNCHANGED tst
    <3>1. socket' = 0
      BY <1>2 DEF OnReadyRead
    <3>2. wrote' = tmp' + socket' /\ tmp' \in Nat /\ socket' \in Nat /\ wrote' \in Nat
      BY <1>1, <2>2, <3>1
    <3> QED
      BY <1>1, <1>2, <2>1, <2>2, <3>2, Zenon DEF TempIInv
  <2>3. CASE UNCHANGED tmp /\ tst' = "aborted"
    <3>1. socket' = 0
      BY <1>2 DEF OnReadyRead
    <3>2. socket' \in Nat
      BY <3>1
    <3> QED
      BY <1>1, <1>2, <2>3, <3>2 DEF TempIInv
  <2> QED
    BY <1>2, <2>2, <2>3 DEF OnReadyRead
<1>3. CASE socket = 0 /\ ~ open /\ tmpOpen /\ OnReadChannelFinished
  <2>1. socket' = 0 /\ tmp' = tmp /\ tmpOpen' = FALSE /\ tst' = tst
    BY <1>1, <1>3 DEF OnReadChannelFinished
  <2> QED
    BY <1>1, <1>3, <2>1 DEF TempIInv
<1> QED
  BY <1>2, <1>3 DEF Notified

\* drain() of TempfileUploadJobImpl returns only with the whole upload in the file,
\* however much the client writes and whenever it closes its end, in a build in
\* which assertions are compiled in: the file is opened within one.
THEOREM DrainIsComplete == ASSUME Asserts PROVE TempSpec => []DrainedIsComplete
<1>1. TempInit => TempIInv
  <2> SUFFICES ASSUME TempInit PROVE TempIInv
    OBVIOUS
  <2>1. 0 \in Nat /\ 0 = 0 + 0 /\ open \in BOOLEAN
    BY DEF TempInit
  <2> QED
    BY <2>1 DEF TempInit, TempIInv
<1>2. TempIInv /\ [TempNext]_tempVars => TempIInv'
  <2> SUFFICES ASSUME TempIInv, [TempNext]_tempVars PROVE TempIInv'
    OBVIOUS
  <2>1. wrote \in Nat /\ socket \in Nat /\ tmp \in Nat
    BY DEF TempIInv
  <2>2. CASE ClientWritesTemp
    <3>1. wrote' \in Nat /\ socket' \in Nat /\ tmp' = tmp /\ tst' = tst /\ open' = open /\ tmpOpen' = tmpOpen
      BY <2>1, <2>2 DEF ClientWritesTemp
    <3>2. open /\ (wrote = tmp + socket => wrote' = tmp' + socket')
      BY <2>1, <2>2 DEF ClientWritesTemp
    <3> QED
      BY <3>1, <3>2, Zenon DEF TempIInv
  <2>3. CASE ClientCloses
    BY <2>3, Zenon DEF TempIInv, ClientCloses
  <2>4. CASE CompleteInit
    BY <2>4, Zenon DEF TempIInv, CompleteInit
  <2>5. CASE StartDrain
    BY <2>5, Zenon DEF TempIInv, StartDrain
  <2>6. CASE Notify
    BY <2>6, NotifiedKeeps DEF Notify
  <2>7. CASE DrainStep
    <3>1. CASE Notified
      BY <2>7, <3>1, NotifiedKeeps DEF DrainStep
    <3>2. CASE ~ tmpOpen /\ tst' = "drained" /\ UNCHANGED <<socket, tmpOpen, tmp>>
      BY <2>7, <3>2 DEF DrainStep, TempIInv
    <3>3. CASE tmpOpen /\ tst' = "thrown" /\ UNCHANGED <<socket, tmpOpen, tmp>>
      BY <2>7, <3>3 DEF DrainStep, TempIInv
    <3> QED
      BY <2>7, <3>1, <3>2, <3>3 DEF DrainStep
  <2>8. CASE UNCHANGED tempVars
    BY <2>8 DEF tempVars, TempIInv
  <2> QED
    BY <2>2, <2>3, <2>4, <2>5, <2>6, <2>7, <2>8 DEF TempNext
<1>3. TempIInv => DrainedIsComplete
  BY DEF TempIInv, DrainedIsComplete
<1> QED
  BY <1>1, <1>2, <1>3, PTL DEF TempSpec


(***************************************************************************)
(* The tree: LocalProvider, for any tree, any number of concurrent calls   *)
(* and any paths and names.                                                *)
(***************************************************************************)

(***************************************************************************)
(* Paths.  All are sequences of names, of which those of temporary folders *)
(* are the threads; Tmp(a, t, b) is the path b below t's temporary folder  *)
(* in the folder a.                                                        *)
(***************************************************************************)
AllNames == Names \cup Threads
Tmp(a, t, b) == Append(a, t) \o b

\* A path of clients is a path, without a temporary folder in it.
LEMMA PlainPath ==
    ASSUME NEW a \in Seq(Names)
    PROVE  /\ a \in Seq(AllNames)
           /\ \A i \in 1..Len(a) : a[i] \in Names /\ a[i] \notin Threads
  <1>1. a \in Seq(AllNames)
    BY SeqMonotonic DEF AllNames
  <1>2. \A i \in 1..Len(a) : a[i] \in Names
    BY ElementOfSeq
  <1> QED
    BY <1>1, <1>2, ArgumentsAssumption

\* The parts of a path, one after the other.
LEMMA Joined ==
    ASSUME NEW S, NEW s \in Seq(S), NEW r \in Seq(S)
    PROVE  /\ s \o r \in Seq(S) /\ Len(s \o r) = Len(s) + Len(r)
           /\ \A i \in 1..Len(s) : (s \o r)[i] = s[i]
           /\ \A i \in 1..Len(r) : (s \o r)[Len(s) + i] = r[i]
           /\ IsPrefix(s, s \o r)
           /\ SubSeq(s \o r, Len(s) + 1, Len(s \o r)) = r
  <1>1. /\ s \o r \in Seq(S) /\ Len(s \o r) = Len(s) + Len(r) /\ Len(s) \in Nat /\ Len(r) \in Nat
        /\ \A i \in 1..Len(s) : (s \o r)[i] = s[i]
        /\ \A i \in 1..Len(r) : (s \o r)[Len(s) + i] = r[i]
    BY ConcatProperties, LenProperties
  <1>2. SubSeq(s, 1, Len(s)) = SubSeq(s \o r, 1, Len(s))
    <2> DEFINE x == SubSeq(s, 1, Len(s)) y == SubSeq(s \o r, 1, Len(s))
    <2>1. x \in Seq(S) /\ Len(x) = Len(s) /\ \A i \in 1..Len(s) : x[i] = s[i]
      BY <1>1, SubSeqFull
    <2>2. \A i \in 1..Len(s) : (s \o r)[i] \in S
      BY <1>1, ElementOfSeq
    <2>3. y \in Seq(S) /\ Len(y) = Len(s) /\ \A i \in 1..Len(s) : y[i] = (s \o r)[i]
      <3> HIDE DEF x
      <3>1. CASE Len(s) = 0
        BY <3>1, <1>1, SubSeqEmpty, EmptySeq
      <3>2. CASE Len(s) # 0
        BY <3>2, <2>2, <1>1, SubSeqProperties
      <3> QED BY <3>1, <3>2
    <2> HIDE DEF x, y
    <2> QED
      BY <2>1, <2>3, <1>1, SeqEqual DEF x, y
  <1>3. SubSeq(s \o r, Len(s) + 1, Len(s \o r)) = r
    <2> DEFINE x == SubSeq(s \o r, Len(s) + 1, Len(s) + Len(r))
    <2>1. \A i \in (Len(s) + 1)..(Len(s) + Len(r)) : (s \o r)[i] \in S
      BY <1>1, ElementOfSeq
    <2>2. x \in Seq(S) /\ Len(x) = Len(r) /\ \A i \in 1..Len(r) : x[i] = (s \o r)[Len(s) + i]
      <3>1. CASE Len(r) = 0
        BY <3>1, <1>1, SubSeqEmpty, EmptySeq
      <3>2. CASE Len(r) # 0
        <4>1. Len(s) + 1 \in Int /\ Len(s) + Len(r) \in Int
          BY <1>1
        <4>2. /\ x \in Seq(S)
              /\ Len(x) = IF Len(s) + 1 <= Len(s) + Len(r) THEN Len(s) + Len(r) - (Len(s) + 1) + 1 ELSE 0
              /\ \A i \in 1..(Len(s) + Len(r) - (Len(s) + 1) + 1) : x[i] = (s \o r)[Len(s) + 1 + i - 1]
          BY <4>1, <2>1, SubSeqProperties
        <4> HIDE DEF x
        <4>3. \A i \in 1..Len(r) : Len(s) + 1 + i - 1 = Len(s) + i
          BY <1>1
        <4>4. Len(s) + Len(r) - (Len(s) + 1) + 1 = Len(r) /\ Len(s) + 1 <= Len(s) + Len(r)
          BY <1>1, <3>2
        <4> QED
          BY <4>2, <4>3, <4>4
      <3> QED BY <3>1, <3>2
    <2> HIDE DEF x
    <2>3. x = r
      BY <2>2, <1>1, SeqEqual
    <2> QED
      BY <2>3, <1>1 DEF x
  <1> QED
    BY <1>1, <1>2, <1>3 DEF IsPrefix

\* What is below a folder is its path and the rest.
LEMMA PrefixSplit ==
    ASSUME NEW S, NEW s \in Seq(S), NEW q \in Seq(S), IsPrefix(s, q)
    PROVE  /\ SubSeq(q, Len(s) + 1, Len(q)) \in Seq(S)
           /\ q = s \o SubSeq(q, Len(s) + 1, Len(q))
  <1> DEFINE r == SubSeq(q, Len(s) + 1, Len(q))
  <1>1. Len(s) \in Nat /\ Len(q) \in Nat /\ Len(s) <= Len(q) /\ SubSeq(s, 1, Len(s)) = SubSeq(q, 1, Len(s))
    BY LenProperties DEF IsPrefix
  <1>2. SubSeq(q, 1, Len(s)) \o r = SubSeq(q, 1, Len(q))
    <2>1. 1 \in 1..(Len(q) + 1) /\ Len(s) \in (1 - 1)..Len(q) /\ Len(q) \in Len(s)..Len(q)
      BY <1>1
    <2> QED
      BY <2>1, ConcatAdjacentSubSeq
  <1>3. \A i \in (Len(s) + 1)..Len(q) : q[i] \in S
    BY <1>1, ElementOfSeq
  <1>4. r \in Seq(S)
    BY <1>1, <1>3, SubSeqProperties
  <1>5. SubSeq(q, 1, Len(q)) = q /\ SubSeq(s, 1, Len(s)) = s
    BY SubSeqFull
  <1> HIDE DEF r
  <1>6. q = s \o r
    BY <1>1, <1>2, <1>5
  <1> QED
    BY <1>4, <1>6 DEF r

\* The parts of a path in a temporary folder.
LEMMA TmpFacts ==
    ASSUME NEW a \in Seq(Names), NEW t \in Threads, NEW b \in Seq(AllNames)
    PROVE  /\ Append(a, t) \in Seq(AllNames) /\ Tmp(a, t, b) \in Seq(AllNames)
           /\ Len(Tmp(a, t, b)) = Len(a) + 1 + Len(b)
           /\ \A i \in 1..Len(a) : Tmp(a, t, b)[i] = a[i]
           /\ Tmp(a, t, b)[Len(a) + 1] = t
           /\ \A i \in 1..Len(b) : Tmp(a, t, b)[Len(a) + 1 + i] = b[i]
           /\ Len(a) \in Nat /\ Len(b) \in Nat
  <1>1. a \in Seq(AllNames) /\ t \in AllNames
    BY PlainPath DEF AllNames
  <1>2. /\ Append(a, t) \in Seq(AllNames) /\ Len(Append(a, t)) = Len(a) + 1
        /\ \A i \in 1..Len(a) : Append(a, t)[i] = a[i]
        /\ Append(a, t)[Len(a) + 1] = t
    BY <1>1, AppendProperties
  <1>3. Len(a) \in Nat /\ Len(b) \in Nat
    BY LenProperties
  <1> DEFINE s == Append(a, t)
  <1>4. /\ s \o b \in Seq(AllNames) /\ Len(s \o b) = Len(s) + Len(b)
        /\ \A i \in 1..Len(s) : (s \o b)[i] = s[i]
        /\ \A i \in 1..Len(b) : (s \o b)[Len(s) + i] = b[i]
    BY <1>2, Joined
  <1> HIDE DEF s
  <1>5. \A i \in 1..Len(a) : (s \o b)[i] = a[i]
    BY <1>2, <1>3, <1>4 DEF s
  <1>6. (s \o b)[Len(a) + 1] = t
    BY <1>2, <1>3, <1>4 DEF s
  <1> QED
    BY <1>2, <1>3, <1>4, <1>5, <1>6 DEF s, Tmp

\* The only name of a temporary folder in Tmp(a, t, b) is t, and it is in one place.
LEMMA TmpNames ==
    ASSUME NEW a \in Seq(Names), NEW t \in Threads, NEW b \in Seq(Names)
    PROVE  /\ DOMAIN Tmp(a, t, b) = 1..(Len(a) + 1 + Len(b))
           /\ \A i \in DOMAIN Tmp(a, t, b) :
                 IF i = Len(a) + 1 THEN Tmp(a, t, b)[i] = t
                                   ELSE Tmp(a, t, b)[i] \in Names /\ Tmp(a, t, b)[i] \notin Threads
  <1> DEFINE p == Tmp(a, t, b)
  <1>1. b \in Seq(AllNames) /\ \A i \in 1..Len(b) : b[i] \in Names /\ b[i] \notin Threads
    BY PlainPath
  <1>2. \A i \in 1..Len(a) : a[i] \in Names /\ a[i] \notin Threads
    BY PlainPath
  <1>3. /\ p \in Seq(AllNames) /\ Len(p) = Len(a) + 1 + Len(b)
        /\ \A i \in 1..Len(a) : p[i] = a[i]
        /\ p[Len(a) + 1] = t
        /\ \A i \in 1..Len(b) : p[Len(a) + 1 + i] = b[i]
        /\ Len(a) \in Nat /\ Len(b) \in Nat
    <2>1. b \in Seq(AllNames)
      BY PlainPath
    <2> QED
      BY <2>1, TmpFacts, ZenonT(60)
  <1>4. DOMAIN p = 1..(Len(a) + 1 + Len(b))
    BY <1>3, LenProperties
  <1> HIDE DEF p
  <1>5. ASSUME NEW i \in 1..(Len(a) + 1 + Len(b)), i # Len(a) + 1
        PROVE  p[i] \in Names /\ p[i] \notin Threads
    <2>1. CASE i \in 1..Len(a)
      BY <2>1, <1>2, <1>3
    <2>2. CASE i \notin 1..Len(a)
      <3>1. i - Len(a) - 1 \in 1..Len(b) /\ Len(a) + 1 + (i - Len(a) - 1) = i
        BY <2>2, <1>3, <1>5
      <3> QED
        BY <3>1, <1>1, <1>3
    <2> QED
      BY <2>1, <2>2
  <1>6. ASSUME NEW i \in 1..(Len(a) + 1 + Len(b))
        PROVE  IF i = Len(a) + 1 THEN p[i] = t ELSE p[i] \in Names /\ p[i] \notin Threads
    <2>1. CASE i = Len(a) + 1
      BY <2>1, <1>3
    <2>2. CASE i # Len(a) + 1
      BY <2>2, <1>5
    <2> QED
      BY <2>1, <2>2
  <1> QED
    BY <1>4, <1>6 DEF p

\* No path of a client is one of a temporary folder.
LEMMA TmpNotPlain ==
    ASSUME NEW a \in Seq(Names), NEW t \in Threads, NEW b \in Seq(AllNames)
    PROVE  Tmp(a, t, b) \notin Seq(Names)
  <1> DEFINE p == Tmp(a, t, b)
  <1>1. Len(p) = Len(a) + 1 + Len(b) /\ p[Len(a) + 1] = t /\ Len(a) \in Nat /\ Len(b) \in Nat
    BY TmpFacts
  <1> HIDE DEF p
  <1>2. Len(a) + 1 \in 1..Len(p)
    BY <1>1
  <1> QED
    BY <1>1, <1>2, PlainPath DEF p

\* Of two prefixes of a path, the shorter one is a prefix of the longer one.
LEMMA ShorterPrefix ==
    ASSUME NEW S, NEW s \in Seq(S), NEW x \in Seq(S), NEW q \in Seq(S),
           IsPrefix(s, q), IsPrefix(x, q), Len(s) <= Len(x)
    PROVE  IsPrefix(s, x)
  <1>1. \A n \in 1..Len(s) : s[n] = q[n]
    <2>1. q = s \o SubSeq(q, Len(s) + 1, Len(q)) /\ SubSeq(q, Len(s) + 1, Len(q)) \in Seq(S)
      BY PrefixSplit
    <2> QED
      BY <2>1, Joined
  <1>2. \A n \in 1..Len(x) : x[n] = q[n]
    <2>1. q = x \o SubSeq(q, Len(x) + 1, Len(q)) /\ SubSeq(q, Len(x) + 1, Len(q)) \in Seq(S)
      BY PrefixSplit
    <2> QED
      BY <2>1, Joined
  <1>3. Len(s) \in Nat /\ Len(x) \in Nat
    BY LenProperties
  <1> DEFINE z == SubSeq(x, 1, Len(s))
  <1>4. \A n \in 1..Len(s) : x[n] = s[n] /\ x[n] \in S
    BY <1>1, <1>2, <1>3, ElementOfSeq
  <1>5. z \in Seq(S) /\ Len(z) = Len(s) /\ \A n \in 1..Len(s) : z[n] = x[n]
    <2>1. CASE Len(s) = 0
      BY <2>1, <1>3, SubSeqEmpty, EmptySeq
    <2>2. CASE Len(s) # 0
      BY <2>2, <1>3, <1>4, SubSeqProperties
    <2> QED
      BY <2>1, <2>2
  <1> HIDE DEF z
  <1>6. z = s
    BY <1>3, <1>4, <1>5, SeqEqual
  <1>7. SubSeq(s, 1, Len(s)) = s
    BY SubSeqFull
  <1> QED
    BY <1>6, <1>7 DEF z, IsPrefix

\* What is in a folder is below all that the folder is below.
LEMMA PrefixAppend ==
    ASSUME NEW S, NEW s \in Seq(S), NEW q \in Seq(S), NEW e \in S, IsPrefix(s, q)
    PROVE  IsPrefix(s, Append(q, e))
  <1> DEFINE x == Append(q, e)
  <1>1. Len(s) \in Nat /\ Len(q) \in Nat /\ Len(s) <= Len(q) /\ SubSeq(s, 1, Len(s)) = SubSeq(q, 1, Len(s))
    BY LenProperties DEF IsPrefix
  <1>2. x \in Seq(S) /\ Len(x) = Len(q) + 1 /\ \A i \in 1..Len(q) : x[i] = q[i]
    BY AppendProperties
  <1> HIDE DEF x
  <1>3. SubSeq(x, 1, Len(s)) = SubSeq(q, 1, Len(s))
    <2>1. CASE Len(s) = 0
      <3>1. SubSeq(x, 1, 0) = << >> /\ SubSeq(q, 1, 0) = << >>
        BY <1>2, SubSeqEmpty
      <3> QED
        BY <2>1, <3>1
    <2>2. CASE Len(s) # 0
      <3>1. \A i \in 1..Len(s) : x[i] = q[i] /\ q[i] \in S /\ x[i] \in S
        BY <1>1, <1>2, ElementOfSeq
      <3>2. /\ SubSeq(x, 1, Len(s)) \in Seq(S) /\ Len(SubSeq(x, 1, Len(s))) = Len(s)
            /\ \A i \in 1..Len(s) : SubSeq(x, 1, Len(s))[i] = x[i]
        BY <1>1, <2>2, <3>1, SubSeqProperties
      <3>3. /\ SubSeq(q, 1, Len(s)) \in Seq(S) /\ Len(SubSeq(q, 1, Len(s))) = Len(s)
            /\ \A i \in 1..Len(s) : SubSeq(q, 1, Len(s))[i] = q[i]
        BY <1>1, <2>2, <3>1, SubSeqProperties
      <3> DEFINE y == SubSeq(x, 1, Len(s)) z == SubSeq(q, 1, Len(s))
      <3>4. y \in Seq(S) /\ z \in Seq(S) /\ Len(y) = Len(z) /\ \A i \in 1..Len(y) : y[i] = z[i]
        BY <3>1, <3>2, <3>3
      <3> HIDE DEF y, z
      <3>5. y = z
        BY <3>4, SeqEqual
      <3> QED
        BY <3>5 DEF y, z
    <2> QED
      BY <2>1, <2>2
  <1>4. Len(s) <= Len(x)
    BY <1>1, <1>2
  <1> QED
    BY <1>1, <1>3, <1>4 DEF IsPrefix, x

\* A path is taken apart in one way only.
LEMMA SameRest ==
    ASSUME NEW S, NEW s \in Seq(S), NEW r \in Seq(S), NEW z \in Seq(S), s \o r = s \o z
    PROVE  r = z
  <1>1. SubSeq(s \o r, Len(s) + 1, Len(s \o r)) = r
    BY Joined
  <1>2. SubSeq(s \o z, Len(s) + 1, Len(s \o z)) = z
    BY Joined
  <1> QED
    BY <1>1, <1>2

\* The parts of a path of clients are such paths.
LEMMA PlainParts ==
    ASSUME NEW s \in Seq(AllNames), NEW r \in Seq(AllNames), s \o r \in Seq(Names)
    PROVE  s \in Seq(Names) /\ r \in Seq(Names)
  <1> DEFINE q == s \o r
  <1>1. /\ Len(q) = Len(s) + Len(r) /\ Len(s) \in Nat /\ Len(r) \in Nat
        /\ \A i \in 1..Len(s) : q[i] = s[i]
        /\ \A i \in 1..Len(r) : q[Len(s) + i] = r[i]
    BY Joined, LenProperties
  <1>2. \A i \in 1..Len(q) : q[i] \in Names
    BY ElementOfSeq
  <1> HIDE DEF q
  <1>3. \A i \in 1..Len(s) : s[i] \in Names
    BY <1>1, <1>2
  <1>4. ASSUME NEW i \in 1..Len(r) PROVE r[i] \in Names
    <2>1. Len(s) + i \in 1..Len(q)
      BY <1>1
    <2> QED
      BY <2>1, <1>1, <1>2
  <1>5. s \in [1..Len(s) -> Names] /\ r \in [1..Len(r) -> Names]
    <2>1. s \in [1..Len(s) -> AllNames] /\ r \in [1..Len(r) -> AllNames]
      BY LenProperties
    <2> QED
      BY <2>1, <1>3, <1>4
  <1>6. \A n \in Nat : [1..n -> Names] \subseteq Seq(Names)
    BY SeqDef
  <1> QED
    BY <1>1, <1>5, <1>6

\* The temporary folder of a path and what is below it.
LEMMA TmpParts ==
    ASSUME NEW a \in Seq(Names), NEW t \in Threads, NEW b \in Seq(Names)
    PROVE  /\ a \in Seq(AllNames) /\ b \in Seq(AllNames) /\ <<t>> \in Seq(AllNames)
           /\ <<t>> \o b \in Seq(AllNames)
           /\ Tmp(a, t, b) = a \o (<<t>> \o b)
           /\ Tmp(<< >>, t, b) = <<t>> \o b
  <1>1. a \in Seq(AllNames) /\ b \in Seq(AllNames) /\ t \in AllNames /\ << >> \in Seq(AllNames)
    BY PlainPath, EmptySeq DEF AllNames
  <1>2. <<t>> \in Seq(AllNames)
    BY <1>1
  <1>3. Append(a, t) = a \o <<t>>
    BY <1>1, AppendIsConcat
  <1>4. Append(<< >>, t) = <<t>>
    OBVIOUS
  <1>5. <<t>> \o b \in Seq(AllNames)
    BY <1>1, <1>2, Joined
  <1>6. (a \o <<t>>) \o b = a \o (<<t>> \o b)
    BY <1>1, <1>2, ConcatAssociative
  <1> QED
    BY <1>1, <1>2, <1>3, <1>4, <1>5, <1>6 DEF Tmp

\* A path of a client that leads to a temporary folder leads to the folder it is in.
SplitAt(a, t, b, s, r) == \E c \in Seq(Names) : a = s \o c /\ r = Tmp(c, t, b)

\* A folder of clients that a temporary path begins with ends before the temporary
\* folder.
LEMMA TmpSplit ==
    ASSUME NEW a \in Seq(Names), NEW t \in Threads, NEW b \in Seq(Names),
           NEW s \in Seq(Names), NEW r \in Seq(AllNames), Tmp(a, t, b) = s \o r
    PROVE  SplitAt(a, t, b, s, r)
  <1> DEFINE p == Tmp(a, t, b) y == <<t>> \o b
  <1>1. p = a \o y /\ y \in Seq(AllNames) /\ a \in Seq(AllNames) /\ s \in Seq(AllNames)
    BY TmpParts, PlainPath
  <1>2. Len(s) <= Len(a)
    <2>0. s \in Seq(AllNames) /\ p = s \o r
      BY <1>1
    <2>1. Len(p) = Len(s) + Len(r) /\ \A i \in 1..Len(s) : p[i] = s[i]
      BY <2>0, Joined
    <2>4. \A i \in 1..Len(s) : s[i] \notin Threads
      BY PlainPath
    <2>2. p[Len(a) + 1] = t /\ Len(a) \in Nat
      BY TmpFacts, PlainPath, ZenonT(60)
    <2>3. Len(s) \in Nat
      BY LenProperties
    <2> HIDE DEF p
    <2>5. Len(a) + 1 \notin 1..Len(s)
      BY <2>1, <2>2, <2>4
    <2> QED
      BY <2>2, <2>3, <2>5
  <1>3. IsPrefix(s, a)
    <2>1. IsPrefix(a, p)
      <3>1. a \in Seq(AllNames) /\ y \in Seq(AllNames)
        BY <1>1
      <3>2. IsPrefix(a, a \o y)
        <4> HIDE DEF y
        <4> QED
          BY <3>1, Joined
      <3> HIDE DEF p, y
      <3> QED
        BY <3>2, <1>1
    <2>2. IsPrefix(s, p)
      BY <1>1, Joined
    <2>3. p \in Seq(AllNames)
      BY <1>1, Joined
    <2> HIDE DEF p, y
    <2> QED
      BY <1>1, <1>2, <2>1, <2>2, <2>3, ShorterPrefix
  <1> HIDE DEF p, y
  <1>4. PICK c \in Seq(AllNames) : a = s \o c
    <2>1. /\ SubSeq(a, Len(s) + 1, Len(a)) \in Seq(AllNames)
          /\ a = s \o SubSeq(a, Len(s) + 1, Len(a))
      BY <1>1, <1>3, PrefixSplit
    <2> QED
      BY <2>1
  <1>5. c \in Seq(Names)
    BY <1>1, <1>4, PlainParts
  <1>6. Tmp(c, t, b) = c \o y /\ c \o y \in Seq(AllNames)
    <2>1. Tmp(c, t, b) = c \o y
      BY <1>5, TmpParts DEF y
    <2> QED
      BY <2>1, <1>1, <1>4, Joined
  <1>7. s \o r = s \o Tmp(c, t, b)
    <2>1. (s \o c) \o y = s \o (c \o y)
      <3>1. s \in Seq(AllNames) /\ c \in Seq(AllNames) /\ y \in Seq(AllNames)
        BY <1>1, <1>4
      <3> QED
        BY <3>1, ConcatAssociative, SMTT(40)
    <2> QED
      BY <2>1, <1>1, <1>4, <1>6 DEF p
  <1>8. r = Tmp(c, t, b)
    BY <1>1, <1>6, <1>7, SameRest
  <1> QED
    BY <1>4, <1>5, <1>8 DEF SplitAt

\* A folder of clients that holds a temporary path holds the temporary folder.
LEMMA TmpPrefix ==
    ASSUME NEW a \in Seq(Names), NEW t \in Threads, NEW b \in Seq(Names), NEW s \in Seq(Names),
           IsPrefix(s, Tmp(a, t, b))
    PROVE  IsPrefix(s, a)
  <1> DEFINE p == Tmp(a, t, b)
  <1>1. b \in Seq(AllNames) /\ s \in Seq(AllNames)
    BY PlainPath
  <1>2. p \in Seq(AllNames)
    BY <1>1, TmpFacts
  <1> DEFINE r == SubSeq(p, Len(s) + 1, Len(p))
  <1> HIDE DEF p
  <1>3. r \in Seq(AllNames) /\ p = s \o r
    BY <1>1, <1>2, PrefixSplit DEF p
  <1>4. Tmp(a, t, b) = s \o r
    BY <1>3 DEF p
  <1> HIDE DEF r
  <1>5. SplitAt(a, t, b, s, r)
    BY <1>3, <1>4, TmpSplit
  <1>6. PICK c \in Seq(Names) : a = s \o c
    BY <1>5 DEF SplitAt
  <1> QED
    BY <1>6, Joined

\* Where the path of a temporary folder is after it has been moved below s.
TmpMovesTo(s, c, t, b) == s \o Tmp(c, t, b) = Tmp(s \o c, t, b)

\* A temporary path below a folder is one in a temporary folder below it.
LEMMA TmpBelow ==
    ASSUME NEW s \in Seq(Names), NEW c \in Seq(Names), NEW t \in Threads, NEW b \in Seq(Names)
    PROVE  /\ s \o c \in Seq(Names)
           /\ TmpMovesTo(s, c, t, b)
  <1> DEFINE y == <<t>> \o b
  <1>1. s \o c \in Seq(Names)
    BY Joined
  <1>2. y \in Seq(AllNames) /\ c \in Seq(AllNames) /\ s \in Seq(AllNames)
    BY TmpParts, PlainPath
  <1>3. Tmp(c, t, b) = c \o y
    BY TmpParts
  <1>4. Tmp(s \o c, t, b) = (s \o c) \o y
    BY <1>1, TmpParts
  <1> HIDE DEF y
  <1>5. (s \o c) \o y = s \o (c \o y)
    BY <1>2, ConcatAssociative
  <1> QED
    BY <1>1, <1>3, <1>4, <1>5 DEF TmpMovesTo

\* Where the parts of Tmp(a, t, b) are.
TmpShape(p, a, t, b) ==
    /\ Len(p) = Len(a) + 1 + Len(b) /\ Len(a) \in Nat /\ Len(b) \in Nat
    /\ \A i \in 1..Len(a) : p[i] = a[i]
    /\ p[Len(a) + 1] = t
    /\ \A i \in 1..Len(b) : p[Len(a) + 1 + i] = b[i]

\* The shape that the proofs below need of a temporary path.
LEMMA TmpShapes ==
    ASSUME NEW a \in Seq(Names), NEW t \in Threads, NEW b \in Seq(AllNames)
    PROVE  TmpShape(Tmp(a, t, b), a, t, b)
  BY TmpFacts DEF TmpShape

\* The temporary folder that a path is in, and the path below it, are its own.
LEMMA TmpWithin ==
    ASSUME NEW a \in Seq(Names), NEW t \in Threads, NEW b \in Seq(Names),
           NEW x \in Seq(Names), NEW u \in Threads, NEW r \in Seq(AllNames),
           Tmp(a, t, b) = Tmp(x, u, r)
    PROVE  a = x /\ t = u /\ b = r
  <1> DEFINE p == Tmp(a, t, b)
  <1>0. b \in Seq(AllNames)
    BY PlainPath
  <1>1. TmpShape(p, x, u, r)
    BY TmpShapes
  <1>2. TmpShape(p, a, t, b)
    BY <1>0, TmpShapes
  <1>3. \A i \in 1..(Len(a) + 1 + Len(b)) : i # Len(a) + 1 => p[i] \notin Threads
    BY TmpNames
  <1> HIDE DEF p
  <1>4. Len(x) = Len(a)
    <2>1. Len(x) + 1 \in 1..(Len(a) + 1 + Len(b)) /\ p[Len(x) + 1] \in Threads
      BY <1>1, <1>2 DEF TmpShape
    <2>2. Len(x) + 1 = Len(a) + 1
      BY <2>1, <1>3
    <2> QED
      BY <2>2, <1>1, <1>2 DEF TmpShape
  <1>5. a = x
    <2>1. \A i \in 1..Len(a) : a[i] = x[i]
      BY <1>1, <1>2, <1>4 DEF TmpShape
    <2> QED
      BY <2>1, <1>4, SeqEqual
  <1>6. b = r
    <2>1. Len(b) = Len(r) /\ \A i \in 1..Len(b) : b[i] = r[i]
      BY <1>1, <1>2, <1>4 DEF TmpShape
    <2> QED
      BY <2>1, <1>0, SeqEqual
  <1> QED
    BY <1>1, <1>2, <1>4, <1>5, <1>6 DEF TmpShape

\* A path leads to one temporary folder only.
LEMMA TmpApart ==
    ASSUME NEW a \in Seq(Names), NEW t \in Threads, NEW b \in Seq(Names),
           NEW x \in Seq(Names), NEW u \in Threads, NEW s, s = Append(x, u),
           IsPrefix(s, Tmp(a, t, b))
    PROVE  t = u
  <1>1. b \in Seq(AllNames) /\ << >> \in Seq(AllNames)
    BY PlainPath, EmptySeq
  <1>2. Tmp(a, t, b) \in Seq(AllNames) /\ s \in Seq(AllNames)
    BY <1>1, TmpFacts
  <1>3. PICK r : r = SubSeq(Tmp(a, t, b), Len(s) + 1, Len(Tmp(a, t, b)))
    OBVIOUS
  <1>4. r \in Seq(AllNames) /\ Tmp(a, t, b) = s \o r
    BY <1>2, <1>3, PrefixSplit
  <1>5. Tmp(a, t, b) = Tmp(x, u, r)
    BY <1>4 DEF Tmp
  <1> QED
    BY <1>4, <1>5, TmpWithin

\* What is in a temporary folder is not the folder.
LEMMA TmpInside ==
    ASSUME NEW a \in Seq(Names), NEW t \in Threads, NEW b \in Seq(Names), b # << >>
    PROVE  Tmp(a, t, b) # Tmp(a, t, << >>)
  <1>1. PICK e : e = << >>
    OBVIOUS
  <1>2. e \in Seq(AllNames)
    BY <1>1, EmptySeq
  <1> SUFFICES ASSUME Tmp(a, t, b) = Tmp(a, t, e) PROVE FALSE
    BY <1>1
  <1>3. b = e
    BY <1>2, TmpWithin
  <1> QED
    BY <1>1, <1>3

(***************************************************************************)
(* Changes of the tree.                                                    *)
(***************************************************************************)
\* What is where after rename(2): the entry and what is below it have moved, and all
\* else is where it was.
RenamedTo(T, R, s, d) ==
    /\ \A r \in Seq(AllNames) : s \o r \in DOMAIN T => d \o r \in DOMAIN R /\ R[d \o r] = T[s \o r]
    /\ \A q \in DOMAIN T : ~ IsPrefix(s, q) => q \in DOMAIN R
    /\ \A q \in DOMAIN R :
          \/ \E r \in Seq(AllNames) : q = d \o r /\ s \o r \in DOMAIN T /\ R[q] = T[s \o r]
          \/ q \in DOMAIN T /\ ~ IsPrefix(s, q) /\ R[q] = T[q]

\* What rename() leaves, and what it moves where.
LEMMA Renamed ==
    ASSUME NEW T, DOMAIN T \subseteq Seq(AllNames),
           NEW s \in DOMAIN T, NEW d \in Seq(AllNames)
    PROVE  RenamedTo(T, Rename(T, s, d), s, d)
  <1> DEFINE moved == {s} \cup Below(T, s)
             Cut(q, p) == SubSeq(q, Len(p) + 1, Len(q))
             new == {d \o Cut(q, s) : q \in moved}
             R == [q \in (DOMAIN T \ moved) \cup new |->
                      IF q \in new THEN T[s \o Cut(q, d)] ELSE T[q]]
  <1>1. Rename(T, s, d) = R
    BY DEF Rename
  <1>2. \A r \in Seq(AllNames) : Cut(s \o r, s) = r /\ Cut(d \o r, d) = r
    BY Joined
  <1>3. \A q \in Seq(AllNames) : IsPrefix(s, q) => Cut(q, s) \in Seq(AllNames) /\ q = s \o Cut(q, s)
    BY PrefixSplit
  <1>4. \A r \in Seq(AllNames) : IsPrefix(s, s \o r) /\ s \o r \in Seq(AllNames)
    BY Joined
  <1>5. s \o << >> = s /\ << >> \in Seq(AllNames)
    BY ConcatEmptySeq, EmptySeq
  <1>6. \A q \in DOMAIN T : q \in moved <=> IsPrefix(s, q)
    BY <1>4, <1>5 DEF Below, IsStrictPrefix
  <1> HIDE DEF Cut
  <1>7. ASSUME NEW r \in Seq(AllNames), s \o r \in DOMAIN T
        PROVE  d \o r \in new /\ R[d \o r] = T[s \o r]
    <2>1. s \o r \in moved
      BY <1>4, <1>6, <1>7
    <2>2. d \o r \in new
      BY <2>1, <1>2
    <2> QED
      BY <2>2, <1>2
  <1>8. ASSUME NEW q \in new PROVE \E r \in Seq(AllNames) : q = d \o r /\ s \o r \in DOMAIN T
    <2>1. PICK p \in moved : q = d \o Cut(p, s)
      OBVIOUS
    <2>2. p \in Seq(AllNames) /\ IsPrefix(s, p) /\ p \in DOMAIN T
      BY <2>1, <1>4, <1>5 DEF Below, IsStrictPrefix
    <2> QED
      BY <2>1, <2>2, <1>3
  <1>9. DOMAIN R = (DOMAIN T \ moved) \cup new
    OBVIOUS
  <1>10. ASSUME NEW q \in DOMAIN T, ~ IsPrefix(s, q) PROVE q \in DOMAIN R
    BY <1>6, <1>9, <1>10
  <1>11. ASSUME NEW q \in DOMAIN R
         PROVE  \/ \E r \in Seq(AllNames) : q = d \o r /\ s \o r \in DOMAIN T /\ R[q] = T[s \o r]
                \/ q \in DOMAIN T /\ ~ IsPrefix(s, q) /\ R[q] = T[q]
    <2>1. CASE q \in new
      <3>1. PICK r \in Seq(AllNames) : q = d \o r /\ s \o r \in DOMAIN T
        BY <2>1, <1>8
      <3>2. R[q] = T[s \o r]
        BY <3>1, <1>7
      <3> QED
        BY <3>1, <3>2
    <2>2. CASE q \notin new
      <3>1. q \in DOMAIN T \ moved
        BY <2>2, <1>9, <1>11
      <3>2. R[q] = T[q]
        BY <2>2, <3>1
      <3> QED
        BY <3>1, <3>2, <1>6
    <2> QED
      BY <2>1, <2>2
  <1> HIDE DEF R, new, moved
  <1> QED
    BY <1>1, <1>7, <1>9, <1>10, <1>11 DEF RenamedTo

-----------------------------------------------------------------------------
(***************************************************************************)
(* What calls do to their records.                                         *)
(***************************************************************************)
OpFields == {"pc", "kind", "id", "parent", "name", "first", "next", "seen", "done", "st",
             "data", "made", "items", "result"}

\* The steps of a call before it looks at the entries of a folder.
Early == {"idle", "check", "canonical", "walk", "mkdir", "opendir"}

\* A call's arguments are of clients; create_directories() makes the folders on the way to
\* the temporary one in order; what copy() has seen lies below its source; what a call has
\* made it has made past its checks; and list() shows nothing reserved.
OpOK(o) ==
    /\ DOMAIN o = OpFields
    /\ o.kind \in Kinds /\ o.id \in Seq(Names) /\ o.parent \in Seq(Names) /\ o.name \in Names
    /\ o.first \in Nat /\ o.next \in Nat
    /\ o.pc \in {"idle", "check", "canonical", "walk"} => o.next = 0
    /\ o.pc = "mkdir" => o.first <= o.next /\ o.next \in 1..(Len(o.parent) + 1)
    /\ o.pc \in Early => o.seen = {} /\ o.done = {}
    /\ o.kind = "copy" => \A p \in o.seen \cup o.done : p \in Seq(Names) /\ IsPrefix(o.id, p) /\ p # o.id
    /\ o.made \in {"none", "file", "folder", "odd"}
    /\ o.made # "none" => /\ o.kind \in {"create_folder", "move", "copy"}
                          /\ o.pc \in {"write", "status", "item", "done"}
    /\ o.pc # "done" => o.result = "none"
    /\ o.pc = "write" => o.made = "file"
    /\ \A item \in o.items : ~ IsReservedPath(item.id)

OpsInv == DOMAIN op = Threads /\ \A t \in Threads : OpOK(op[t])

\* create_directories() only goes on from where it began.
WayKept(t) ==
    op[t].next = 0 \/ (op'[t].first = op[t].first /\ op[t].next <= op'[t].next)

\* A step of thread t changes no other record, keeps the arguments of a call that runs,
\* and takes nothing back.
Follows(t) ==
    /\ DOMAIN op' = Threads
    /\ \A u \in Threads \ {t} : op'[u] = op[u]
    /\ op[t].pc # "idle" => /\ op'[t].kind = op[t].kind /\ op'[t].id = op[t].id
                            /\ op'[t].parent = op[t].parent /\ op'[t].name = op[t].name
    /\ Begun(t) => Begun(t)'
    /\ op[t].made # "none" => op'[t].made = op[t].made
    /\ WayKept(t)

\* The record of t has changed in the fields F only.
SameBut(t, F) ==
    /\ DOMAIN op' = Threads
    /\ \A u \in Threads \ {t} : op'[u] = op[u]
    /\ DOMAIN op'[t] = OpFields
    /\ \A f \in OpFields \ F : op'[t][f] = op[t][f]

\* A step to another pc changes nothing else.
LEMMA GotoOp ==
    ASSUME OpsInv, NEW t \in Threads, NEW pc, Goto(t, pc)
    PROVE  SameBut(t, {"pc"}) /\ op'[t].pc = pc
  BY DEF OpsInv, OpOK, OpFields, SameBut, Goto

\* The end of a call changes its pc and its result.
LEMMA FinishOp ==
    ASSUME OpsInv, NEW t \in Threads, NEW result, Finish(t, result)
    PROVE  SameBut(t, {"pc", "result"}) /\ op'[t].pc = "done" /\ op'[t].result = result
  BY DEF OpsInv, OpOK, OpFields, SameBut, Finish

\* A call that has made its item remembers of which type it is.
LEMMA MadeOp ==
    ASSUME OpsInv, NEW t \in Threads, NEW type, Made(t, type)
    PROVE  SameBut(t, {"pc", "made"}) /\ op'[t].pc = "status" /\ op'[t].made = type
  BY DEF OpsInv, OpOK, OpFields, SameBut, Made

\* The beginning of an iteration remembers what is there.
LEMMA SeenOp ==
    ASSUME OpsInv, NEW t \in Threads, NEW pc, NEW seen,
           op' = [op EXCEPT ![t].pc = pc, ![t].seen = seen]
    PROVE  SameBut(t, {"pc", "seen"}) /\ op'[t].pc = pc /\ op'[t].seen = seen
  BY DEF OpsInv, OpOK, OpFields, SameBut

\* Such a step keeps the records in order if it leaves t's so.
LEMMA OpKept ==
    ASSUME OpsInv, NEW t \in Threads, NEW F, SameBut(t, F), OpOK(op'[t]),
           F \cap {"kind", "id", "parent", "name"} = {} \/ op[t].pc = "idle",
           Begun(t) => Begun(t)',
           "made" \notin F \/ op[t].made = "none",
           F \cap {"first", "next"} = {} \/ WayKept(t)
    PROVE  OpsInv' /\ Follows(t)
  <1>1. OpsInv'
    BY DEF OpsInv, SameBut
  <1>2. op[t].pc # "idle" => /\ op'[t].kind = op[t].kind /\ op'[t].id = op[t].id
                            /\ op'[t].parent = op[t].parent /\ op'[t].name = op[t].name
    BY DEF SameBut, OpFields
  <1>3. op[t].made # "none" => op'[t].made = op[t].made
    BY DEF SameBut, OpFields
  <1>4. WayKept(t)
    BY DEF SameBut, OpFields, WayKept, OpsInv, OpOK
  <1> QED
    BY <1>1, <1>2, <1>3, <1>4 DEF Follows, SameBut

\* A step to another pc keeps the records in order.
LEMMA GotoKeeps ==
    ASSUME OpsInv, NEW t \in Threads, NEW pc, Goto(t, pc), op[t].pc \notin {"idle", "done"},
           pc \notin {"idle", "check", "mkdir", "opendir", "write", "done"},
           pc \in {"canonical", "walk"} => op[t].pc \in {"check", "canonical"},
           op[t].made # "none" => pc \in {"status", "item"}
    PROVE  OpsInv' /\ Follows(t)
  <1>1. SameBut(t, {"pc"}) /\ op'[t].pc = pc
    BY GotoOp
  <1>2. OpOK(op'[t])
    BY <1>1 DEF OpsInv, OpOK, SameBut, OpFields, Early
  <1> QED
    BY <1>1, <1>2, OpKept DEF Begun

\* The end of a call keeps the records in order.
LEMMA FinishKeeps ==
    ASSUME OpsInv, NEW t \in Threads, NEW result, Finish(t, result), op[t].pc # "idle"
    PROVE  OpsInv' /\ Follows(t)
  <1>1. SameBut(t, {"pc", "result"}) /\ op'[t].pc = "done"
    BY FinishOp
  <1>2. OpOK(op'[t])
    BY <1>1 DEF OpsInv, OpOK, SameBut, OpFields, Early
  <1> QED
    BY <1>1, <1>2, OpKept DEF Begun

\* The change that a call is for keeps the records in order.
LEMMA MadeKeeps ==
    ASSUME OpsInv, NEW t \in Threads, NEW type \in {"file", "folder", "odd"}, Made(t, type),
           op[t].kind \in {"create_folder", "move", "copy"}, op[t].made = "none",
           op[t].pc \notin {"idle", "done"}
    PROVE  OpsInv' /\ Follows(t)
  <1>1. SameBut(t, {"pc", "made"}) /\ op'[t].pc = "status" /\ op'[t].made = type
    BY MadeOp
  <1>2. OpOK(op'[t])
    BY <1>1 DEF OpsInv, OpOK, SameBut, OpFields, Early
  <1> QED
    BY <1>1, <1>2, OpKept DEF Begun

(***************************************************************************)
(* The inductive invariant.                                                *)
(***************************************************************************)
\* A path is one of clients' or lies in a temporary folder, and files that are being
\* written are files.
TreeInv ==
    \A p \in DOMAIN fs :
        /\ p \in Seq(Names) \/ \E t \in Threads, a, b \in Seq(Names) : p = Tmp(a, t, b)
        /\ fs[p].type \in {"file", "folder", "odd"}
        /\ fs[p].data \in Threads => fs[p].type = "file"

\* A thread has one temporary folder.
OneTmp ==
    \A t \in Threads : \A a, b, c, d \in Seq(Names) :
        Tmp(a, t, b) \in DOMAIN fs /\ Tmp(c, t, d) \in DOMAIN fs => a = c

\* It is a folder, of a copy() that runs or has failed, and holds what has been copied.
TmpInv ==
    \A t \in Threads : \A a, b \in Seq(Names) :
        Tmp(a, t, b) \in DOMAIN fs =>
            /\ op[t].kind = "copy"
            /\ op[t].pc \in {"opendir", "entries", "rename"} \/ op[t].result \in Exceptions
            /\ b = << >> => fs[Tmp(a, t, b)].type = "folder"
            /\ b # << >> /\ op[t].pc \in {"opendir", "entries"} => op[t].id \o b \in op[t].done

\* What a call has made is there until it returns, unless somebody interfered.
Stands(t) ==
    /\ Exists(fs, Target(op[t])) /\ fs[Target(op[t])].type = op[t].made
    /\ op[t].pc = "item" => op[t].st = op[t].made

MadeInv ==
    \A t \in Threads :
        op[t].made \in {"file", "folder"} /\ op[t].pc \in {"write", "status", "item"} =>
            Interfered(t) \/ Stands(t)

\* What copy() has copied is in its temporary folder, and what it has not copied when
\* it is about to rename the folder is not there.
CopiedTo(t, p) == Tmp(op[t].parent, t, SubSeq(p, Len(op[t].id) + 1, Len(p)))

CopyOK(t) ==
    op[t].kind = "copy" =>
        /\ op[t].pc \in {"entries", "rename"} /\ Exists(fs, TmpPath(t)) =>
              \A p \in op[t].done :
                 Exists(fs, p) /\ fs[p].type # "odd" =>
                    Exists(fs, CopiedTo(t, p)) \/ PutBack(t, p) \/ TargetDisturbed(t)
        /\ op[t].pc = "rename" =>
              \A p \in op[t].seen \ op[t].done : Exists(fs, p) => PutBack(t, p)

CopyInv == \A t \in Threads : CopyOK(t)

ItemsIInv ==
    /\ OpsInv /\ TreeInv /\ OneTmp /\ TmpInv
    /\ MadeInv /\ ErrorAfterSuccessIsInterference
    /\ CopyInv

-----------------------------------------------------------------------------
\* What others have done stays done.
LEMMA Monotone ==
    ASSUME OpsInv, NEW t \in Threads, Follows(t), OpsInv'
    PROVE  /\ \A u \in Threads : op[u].pc # "idle" => Target(op'[u]) = Target(op[u])
           /\ \A u \in Threads : op[u].pc # "idle" /\ Interfered(u) => Interfered(u)'
           /\ \A u \in Threads : op[u].pc # "idle" /\ TargetDisturbed(u) => TargetDisturbed(u)'
           /\ \A u \in Threads : \A p : PutBack(u, p) => PutBack(u, p)'
  <1>1. \A u \in Threads : op[u].pc # "idle" => Target(op'[u]) = Target(op[u]) /\ op'[u].parent = op[u].parent
    BY DEF Follows, Target
  <1>2. \A u \in Threads : op[u].made # "none" => op[u].pc # "idle" /\ op'[u].made = op[u].made
    BY DEF Follows, OpsInv, OpOK
  <1>3. \A u \in Threads : Begun(u) => Begun(u)' /\ op[u].pc # "idle"
    BY DEF Follows, Begun
  <1>4. \A u \in Threads : op[u].pc # "idle" => op'[u].kind = op[u].kind /\ op'[u].id = op[u].id
    BY DEF Follows
  <1>5. ASSUME NEW u \in Threads, op[u].pc # "idle", Interfered(u) PROVE Interfered(u)'
    <2>1. PICK v \in Threads \ {u} :
             \/ op[v].kind \in {"delete_item", "move"} /\ Begun(v) /\ IsPrefix(op[v].id, Target(op[u]))
             \/ op[v].made = "odd" /\ Target(op[v]) = Target(op[u])
      BY <1>5 DEF Interfered
    <2>2. CASE op[v].kind \in {"delete_item", "move"} /\ Begun(v) /\ IsPrefix(op[v].id, Target(op[u]))
      BY <2>2, <1>1, <1>3, <1>4, <1>5 DEF Interfered
    <2>3. CASE op[v].made = "odd" /\ Target(op[v]) = Target(op[u])
      BY <2>3, <1>1, <1>2, <1>5 DEF Interfered
    <2> QED
      BY <2>1, <2>2, <2>3
  <1>6. ASSUME NEW u \in Threads, op[u].pc # "idle", TargetDisturbed(u) PROVE TargetDisturbed(u)'
    <2>1. PICK v \in Threads :
             \/ op[v].kind = "delete_item" /\ Begun(v) /\ IsPrefix(op[v].id, Target(op[u]))
             \/ op[v].kind = "move" /\ op[v].made # "none" /\ IsPrefix(Target(op[v]), op[u].parent)
      BY <1>6 DEF TargetDisturbed
    <2>2. CASE op[v].kind = "delete_item" /\ Begun(v) /\ IsPrefix(op[v].id, Target(op[u]))
      BY <2>2, <1>1, <1>3, <1>4, <1>6 DEF TargetDisturbed
    <2>3. CASE op[v].kind = "move" /\ op[v].made # "none" /\ IsPrefix(Target(op[v]), op[u].parent)
      BY <2>3, <1>1, <1>2, <1>4, <1>6 DEF TargetDisturbed
    <2> QED
      BY <2>1, <2>2, <2>3
  <1>7. ASSUME NEW u \in Threads, NEW p, PutBack(u, p) PROVE PutBack(u, p)'
    <2>1. \A v \in Threads : op[v].next # 0 =>
             op[v].pc # "idle" /\ op'[v].first = op[v].first /\ op[v].next <= op'[v].next
      <3>1. \A v \in Threads : op[v].next \in Nat /\ (op[v].next # 0 => op[v].pc # "idle")
        BY DEF OpsInv, OpOK
      <3>2. \A v \in Threads \ {t} : op'[v] = op[v]
        BY DEF Follows
      <3>3. \A v \in Threads : op[v].next <= op[v].next
        BY <3>1
      <3>4. op[t].next # 0 => op'[t].first = op[t].first /\ op[t].next <= op'[t].next
        BY DEF Follows, WayKept
      <3> QED
        BY <3>1, <3>2, <3>3, <3>4
    <2>2. PICK v \in Threads \ {u} :
             \/ op[v].made # "none" /\ IsPrefix(Target(op[v]), p)
             \/ \E n \in (op[v].first)..(op[v].next - 1) : p = Ancestor(TmpPath(v), n)
      BY <1>7 DEF PutBack
    <2>3. CASE op[v].made # "none" /\ IsPrefix(Target(op[v]), p)
      BY <2>3, <1>1, <1>2 DEF PutBack
    <2>4. CASE \E n \in (op[v].first)..(op[v].next - 1) : p = Ancestor(TmpPath(v), n)
      <3>1. PICK n \in (op[v].first)..(op[v].next - 1) : p = Ancestor(TmpPath(v), n)
        BY <2>4
      <3>2. op[v].first \in Nat /\ op[v].next \in Nat /\ op'[v].next \in Nat
        BY DEF OpsInv, OpOK
      <3>3. op[v].next # 0
        BY <3>1, <3>2
      <3>4. n \in (op'[v].first)..(op'[v].next - 1)
        BY <2>1, <3>1, <3>2, <3>3
      <3>5. TmpPath(v)' = TmpPath(v)
        BY <2>1, <3>3, <1>1 DEF TmpPath
      <3> QED
        BY <3>1, <3>4, <3>5 DEF PutBack
    <2> QED
      BY <2>2, <2>3, <2>4
  <1> QED
    BY <1>1, <1>5, <1>6, <1>7

(***************************************************************************)
(* Steps that leave the tree alone.                                        *)
(***************************************************************************)
Quiet(t) ==
    /\ fs' = fs /\ OpsInv' /\ Follows(t)
    /\ op'[t].made = op[t].made /\ op[t].pc # "done"
    /\ op[t].kind = "copy" /\ op[t].pc \in {"opendir", "entries", "rename"} =>
          op'[t].pc \in {"entries", "rename"} \/ op'[t].result \in Exceptions
    /\ op'[t].kind = "copy" => op'[t].pc # "opendir"
    /\ op'[t].kind = "copy" /\ op'[t].pc = "entries" =>
          /\ op[t].kind = "copy" /\ op[t].pc \in {"opendir", "entries"}
          /\ op[t].done \subseteq op'[t].done
          /\ \A p \in op'[t].done \ op[t].done : Exists(fs, p) => fs[p].type = "odd"
    /\ op'[t].kind = "copy" /\ op'[t].pc = "rename" =>
          /\ op[t].kind = "copy" /\ op[t].pc = "entries"
          /\ op'[t].seen = op[t].seen /\ op'[t].done = op[t].done
          /\ op[t].seen \cap Copyable(op[t].id) \subseteq op[t].done
    /\ op[t].made # "none" =>
          \/ /\ op[t].pc = "status" /\ op'[t].pc = "item"
             /\ op'[t].st = TypeAt(fs, Target(op[t]))
          \/ /\ op[t].pc = "item" /\ op'[t].pc = "done"
             /\ op'[t].result = "ok" \/ MakeItemError(Target(op[t]), op[t].st) # "ok"

\* What a client could see below its source, copy() has to copy.
LEMMA PlainIsCopyable ==
    ASSUME NEW t \in Threads, OpOK(op[t]), TreeInv, NEW p \in Seq(Names), p \in DOMAIN fs,
           IsPrefix(op[t].id, p), p # op[t].id
    PROVE  p \in Copyable(op[t].id)
  <1>1. \A n \in 1..Len(p) : p[n] \notin Threads
    BY PlainPath
  <1>2. Len(p) \in Nat /\ op[t].id \in Seq(Names) /\ Len(op[t].id) \in Nat
    BY LenProperties DEF OpOK
  <1>3. ASSUME NEW n \in (Len(op[t].id) + 1)..Len(p) PROVE ~ IsReservedPath(SubSeq(p, 1, n))
    <2> DEFINE q == SubSeq(p, 1, n)
    <2>1. n \in 1..Len(p)
      BY <1>2
    <2>2. \A i \in 1..n : p[i] \in Names
      BY <2>1, <1>2, ElementOfSeq
    <2>3. Len(q) = n /\ q[n] = p[n]
      BY <2>1, <2>2, <1>2, SubSeqProperties
    <2> QED
      BY <2>1, <2>3, <1>1 DEF IsReservedPath, Last
  <1> QED
    BY <1>3 DEF Copyable, Below, IsStrictPrefix

\* make_item() fails only for an item that is not what it was.
LEMMA ItemOfStanding ==
    ASSUME NEW p, NEW st, Exists(fs, p), st \in {"file", "folder"}, fs[p].type = st
    PROVE  MakeItemError(p, st) = "ok"
  <1> DEFINE checks == <<GetMtimeError(p), Require(st \in {"file", "folder"}, "NotExists"),
                         Require(st = "file" => ~ IsDirectory(fs, p), FsException("EPERM"))>>
  <1>1. checks = <<"ok", "ok", "ok">>
    BY DEF GetMtimeError, Require, IsDirectory, TypeAt
  <1>2. {i \in DOMAIN checks : checks[i] # "ok"} = {}
    BY <1>1
  <1> QED
    BY <1>2 DEF MakeItemError, FirstError

\* A step that leaves the tree alone keeps the invariant.
LEMMA QuietKeeps ==
    ASSUME ItemsIInv, NEW t \in Threads, Quiet(t)
    PROVE  ItemsIInv'
  <1>1. OpsInv /\ OpsInv' /\ Follows(t) /\ fs' = fs /\ \A u \in Threads \ {t} : op'[u] = op[u]
    BY DEF ItemsIInv, Quiet, Follows
  <1>2. /\ \A u \in Threads : op[u].pc # "idle" => Target(op'[u]) = Target(op[u])
        /\ \A u \in Threads : op[u].pc # "idle" /\ Interfered(u) => Interfered(u)'
        /\ \A u \in Threads : op[u].pc # "idle" /\ TargetDisturbed(u) => TargetDisturbed(u)'
        /\ \A u \in Threads : \A p : PutBack(u, p) => PutBack(u, p)'
    BY <1>1, Monotone
  <1>3. TreeInv'
    BY <1>1 DEF ItemsIInv, TreeInv
  <1>4. OneTmp'
    BY <1>1 DEF ItemsIInv, OneTmp
  <1>5. TmpInv'
    <2> SUFFICES ASSUME NEW u \in Threads, NEW a \in Seq(Names), NEW b \in Seq(Names),
                        Tmp(a, u, b) \in DOMAIN fs
                 PROVE  /\ op'[u].kind = "copy"
                        /\ op'[u].pc \in {"opendir", "entries", "rename"} \/ op'[u].result \in Exceptions
                        /\ b = << >> => fs[Tmp(a, u, b)].type = "folder"
                        /\ b # << >> /\ op'[u].pc \in {"opendir", "entries"} =>
                              op'[u].id \o b \in op'[u].done
      BY <1>1 DEF TmpInv
    <2>1. /\ op[u].kind = "copy"
          /\ op[u].pc \in {"opendir", "entries", "rename"} \/ op[u].result \in Exceptions
          /\ b = << >> => fs[Tmp(a, u, b)].type = "folder"
          /\ b # << >> /\ op[u].pc \in {"opendir", "entries"} => op[u].id \o b \in op[u].done
      BY DEF ItemsIInv, TmpInv
    <2>2. CASE u # t
      BY <2>1, <2>2, <1>1
    <2>3. CASE u = t
      <3>1. op[t].pc \in {"opendir", "entries", "rename"}
        BY <2>1, <2>3, <1>1 DEF Quiet, OpsInv, OpOK, Exceptions
      <3>2. op'[t].kind = op[t].kind /\ op'[t].id = op[t].id
        BY <3>1, <1>1 DEF Follows
      <3> QED
        BY <2>1, <2>3, <3>1, <3>2 DEF Quiet
    <2> QED
      BY <2>2, <2>3
  <1>6. MadeInv' /\ ErrorAfterSuccessIsInterference'
    <2>1. ASSUME NEW u \in Threads, u # t, op[u].made \in {"file", "folder"} PROVE
             /\ op[u].pc \in {"write", "status", "item"} => Interfered(u)' \/ Stands(u)'
             /\ op[u].result \in Exceptions => op[u].result = "Quota" \/ Interfered(u)'
      <3>1. op'[u] = op[u] /\ op[u].pc # "idle"
        BY <2>1, <1>1 DEF OpsInv, OpOK
      <3>2. Stands(u) => Stands(u)'
        BY <3>1, <1>1 DEF Stands
      <3> QED
        BY <2>1, <3>1, <3>2, <1>2 DEF ItemsIInv, MadeInv, ErrorAfterSuccessIsInterference
    <2>2. ASSUME op[t].made \in {"file", "folder"} PROVE
             /\ op'[t].pc \in {"write", "status", "item"} => Interfered(t)' \/ Stands(t)'
             /\ op'[t].result \in Exceptions => Interfered(t)'
      <3>1. /\ op[t].pc \in {"status", "item"} /\ Target(op'[t]) = Target(op[t])
            /\ op'[t].made = op[t].made /\ (Interfered(t) => Interfered(t)')
        BY <2>2, <1>2 DEF Quiet
      <3>2. Interfered(t) \/ Stands(t)
        BY <2>2, <3>1 DEF ItemsIInv, MadeInv
      <3>3. CASE Interfered(t)
        BY <3>1, <3>3
      <3>4. CASE Stands(t) /\ op[t].pc = "status" /\ op'[t].pc = "item" /\ op'[t].st = TypeAt(fs, Target(op[t]))
        <4>1. Stands(t)'
          BY <3>1, <3>4, <1>1 DEF Stands, Exists, TypeAt
        <4>2. op'[t].result = "none"
          BY <3>4, <1>1 DEF OpsInv, OpOK
        <4> QED
          BY <4>1, <4>2 DEF Exceptions
      <3>5. CASE /\ Stands(t) /\ op[t].pc = "item" /\ op'[t].pc = "done"
                 /\ op'[t].result = "ok" \/ MakeItemError(Target(op[t]), op[t].st) # "ok"
        <4>1. MakeItemError(Target(op[t]), op[t].st) = "ok"
          BY <2>2, <3>5, ItemOfStanding DEF Stands
        <4> QED
          BY <3>5, <4>1 DEF Exceptions
      <3> QED
        BY <2>2, <3>2, <3>3, <3>4, <3>5 DEF Quiet
    <2>3. op'[t].made = op[t].made
      BY DEF Quiet
    <2> QED
      BY <2>1, <2>2, <2>3, <1>1 DEF MadeInv, ErrorAfterSuccessIsInterference
  <1>7. CopyInv'
    <2> SUFFICES ASSUME NEW u \in Threads, op'[u].kind = "copy"
                 PROVE  /\ op'[u].pc \in {"entries", "rename"} /\ Exists(fs, TmpPath(u)') =>
                              \A p \in op'[u].done :
                                 Exists(fs, p) /\ fs[p].type # "odd" =>
                                    Exists(fs, CopiedTo(u, p)') \/ PutBack(u, p)' \/ TargetDisturbed(u)'
                        /\ op'[u].pc = "rename" =>
                              \A p \in op'[u].seen \ op'[u].done : Exists(fs, p) => PutBack(u, p)'
      BY <1>1 DEF CopyInv, CopyOK, Exists
    <2>1. CASE u # t
      <3>1. op'[u] = op[u] /\ TmpPath(u)' = TmpPath(u) /\ \A p : CopiedTo(u, p)' = CopiedTo(u, p)
        BY <2>1, <1>1 DEF TmpPath, CopiedTo
      <3> QED
        BY <3>1, <1>2 DEF ItemsIInv, CopyInv, CopyOK
    <2>2. CASE u = t /\ op'[t].pc = "entries"
      <3>1. /\ op[t].kind = "copy" /\ op[t].pc \in {"opendir", "entries"}
            /\ op[t].pc = "opendir" => op[t].done = {}
            /\ \A p \in op'[t].done \ op[t].done : Exists(fs, p) => fs[p].type = "odd"
        BY <2>2, <1>1 DEF Quiet, OpsInv, OpOK, Early
      <3>2. TmpPath(t)' = TmpPath(t) /\ \A p : CopiedTo(t, p)' = CopiedTo(t, p)
        BY <3>1, <1>1 DEF Follows, TmpPath, CopiedTo
      <3> QED
        BY <2>2, <3>1, <3>2, <1>2 DEF ItemsIInv, CopyInv, CopyOK
    <2>3. CASE u = t /\ op'[t].pc = "rename"
      <3>1. /\ op[t].kind = "copy" /\ op[t].pc = "entries"
            /\ op'[t].seen = op[t].seen /\ op'[t].done = op[t].done
            /\ op[t].seen \cap Copyable(op[t].id) \subseteq op[t].done
        BY <2>3 DEF Quiet
      <3>2. TmpPath(t)' = TmpPath(t) /\ \A p : CopiedTo(t, p)' = CopiedTo(t, p)
        BY <3>1, <1>1 DEF Follows, TmpPath, CopiedTo
      <3>3. ASSUME NEW p \in op[t].seen \ op[t].done PROVE ~ Exists(fs, p)
        <4>1. OpOK(op[t]) /\ TreeInv
          BY <1>1 DEF ItemsIInv, OpsInv
        <4>2. p \in Seq(Names) /\ IsPrefix(op[t].id, p) /\ p # op[t].id
          BY <3>1, <4>1 DEF OpOK
        <4> QED
          BY <3>1, <4>1, <4>2, PlainIsCopyable DEF Exists
      <3> QED
        BY <2>3, <3>1, <3>2, <3>3, <1>2 DEF ItemsIInv, CopyInv, CopyOK
    <2> QED
      BY <2>1, <2>2, <2>3
  <1> QED
    BY <1>1, <1>3, <1>4, <1>5, <1>6, <1>7 DEF ItemsIInv

(***************************************************************************)
(* Which steps these are.                                                  *)
(***************************************************************************)
LEMMA FsExceptions ==
    ASSUME NEW errno
    PROVE  FsException(errno) \in Exceptions
  BY DEF FsException, Exceptions

\* Before its change a call has made nothing.
LEMMA NothingMade ==
    ASSUME OpsInv, NEW t \in Threads, op[t].pc \notin {"write", "status", "item", "done"}
    PROVE  op[t].made = "none"
  BY DEF OpsInv, OpOK

\* Names that clients use are not reserved.
LEMMA PlainNotReserved ==
    ASSUME NEW p \in Seq(Names)
    PROVE  ~ IsReservedPath(p)
  <1>1. CASE p = << >>
    BY <1>1 DEF IsReservedPath, Root
  <1>2. CASE p # << >>
    <2>1. Len(p) \in 1..Len(p)
      BY <1>2, LenProperties, EmptySeq
    <2> QED
      BY <2>1, PlainPath DEF IsReservedPath, Last
  <1> QED
    BY <1>1, <1>2

\* A call's target is a path of clients.
LEMMA TargetPlain ==
    ASSUME NEW o, OpOK(o)
    PROVE  Target(o) \in Seq(Names)
  BY AppendProperties DEF OpOK, Target

\* A step to another pc is quiet.
LEMMA QuietGoto ==
    ASSUME OpsInv, NEW t \in Threads, NEW pc, Goto(t, pc), fs' = fs,
           op[t].pc \notin {"idle", "done", "write", "status", "item", "opendir", "entries", "rename"},
           pc \notin {"idle", "check", "mkdir", "opendir", "write", "done"},
           pc \in {"canonical", "walk"} => op[t].pc \in {"check", "canonical"},
           op[t].kind = "copy" => pc \notin {"entries", "rename"}
    PROVE  Quiet(t)
  <1>1. op[t].made = "none"
    BY NothingMade
  <1>2. OpsInv' /\ Follows(t)
    BY <1>1, GotoKeeps
  <1>3. SameBut(t, {"pc"}) /\ op'[t].pc = pc
    BY GotoOp
  <1>4. op'[t].made = op[t].made /\ op'[t].kind = op[t].kind
    BY <1>3 DEF SameBut, OpFields
  <1> QED
    BY <1>1, <1>2, <1>3, <1>4 DEF Quiet

\* The end of a call that has made nothing is quiet.
LEMMA QuietFinish ==
    ASSUME OpsInv, NEW t \in Threads, NEW result, Finish(t, result), fs' = fs,
           op[t].pc \notin {"idle", "done", "write", "status", "item"},
           op[t].kind = "copy" /\ op[t].pc \in {"opendir", "entries", "rename"} => result \in Exceptions
    PROVE  Quiet(t)
  <1>1. op[t].made = "none"
    BY NothingMade
  <1>2. OpsInv' /\ Follows(t)
    BY FinishKeeps
  <1>3. SameBut(t, {"pc", "result"}) /\ op'[t].pc = "done" /\ op'[t].result = result
    BY FinishOp
  <1>4. op'[t].made = op[t].made /\ op'[t].kind = op[t].kind
    BY <1>3 DEF SameBut, OpFields
  <1> QED
    BY <1>1, <1>2, <1>3, <1>4 DEF Quiet

\* The checks of a call are quiet, whether they pass or not.
LEMMA QuietProceed ==
    ASSUME OpsInv, NEW t \in Threads, NEW checks, NEW pc, Proceed(t, checks, pc), fs' = fs,
           op[t].pc = "check", pc \notin {"idle", "check", "mkdir", "opendir", "write", "done"},
           op[t].kind = "copy" => pc \notin {"entries", "rename"}
    PROVE  Quiet(t)
  <1>1. Goto(t, pc) \/ Finish(t, FirstError(checks))
    BY DEF Proceed
  <1> QED
    BY <1>1, QuietGoto, QuietFinish

\* Steps that set what a call has seen.
LEMMA QuietSeen ==
    ASSUME OpsInv, NEW t \in Threads, NEW pc, NEW seen, fs' = fs, op[t].pc = "check",
           op' = [op EXCEPT ![t].pc = pc, ![t].seen = seen],
           op[t].kind # "copy", pc \in {"iterate", "remove"}
    PROVE  Quiet(t)
  <1>1. op[t].made = "none"
    BY NothingMade
  <1>2. SameBut(t, {"pc", "seen"}) /\ op'[t].pc = pc
    BY SeenOp
  <1>3. OpOK(op'[t])
    BY <1>1, <1>2 DEF OpsInv, OpOK, SameBut, OpFields, Early
  <1>4. OpsInv' /\ Follows(t)
    BY <1>2, <1>3, OpKept DEF Begun
  <1>5. op'[t].made = op[t].made /\ op'[t].kind = op[t].kind
    BY <1>2 DEF SameBut, OpFields
  <1> QED
    BY <1>1, <1>2, <1>4, <1>5 DEF Quiet

\* The beginning of a call is quiet.
LEMMA QuietCall ==
    ASSUME OpsInv, NEW t \in Threads, Call(t)
    PROVE  Quiet(t)
  <1>1. op[t].made = "none" /\ op[t].pc = "idle"
    BY NothingMade DEF Call
  <1>2. PICK kind \in Kinds, id \in ItemIds, parent \in ParentIds, name \in NameArgs :
           /\ kind \in {"roots", "lookup", "create_folder"} => id = Root
           /\ kind \in {"roots", "list", "metadata", "delete_item"} =>
                 /\ parent = Root
                 /\ name = "dots"
           /\ op' = [op EXCEPT ![t].pc = "check", ![t].kind = kind, ![t].id = id,
                               ![t].parent = parent, ![t].name = name]
    BY Zenon DEF Call
  <1>3. /\ SameBut(t, {"pc", "kind", "id", "parent", "name"})
        /\ op'[t].pc = "check" /\ op'[t].kind = kind /\ op'[t].id = id
        /\ op'[t].parent = parent /\ op'[t].name = name
    <2>1. DOMAIN op = Threads /\ DOMAIN op[t] = OpFields
      BY DEF OpsInv, OpOK
    <2>2. DOMAIN op' = Threads /\ \A u \in Threads \ {t} : op'[u] = op[u]
      BY <1>2, <2>1
    <2>3. op'[t] = [op[t] EXCEPT !.pc = "check", !.kind = kind, !.id = id,
                                 !.parent = parent, !.name = name]
      BY <1>2, <2>1
    <2> QED
      BY <2>1, <2>2, <2>3 DEF OpFields, SameBut
  <1>4. id \in Seq(Names) /\ parent \in Seq(Names) /\ name \in Names
    BY ArgumentsAssumption
  <1>5. OpOK(op'[t])
    BY <1>1, <1>3, <1>4 DEF OpsInv, OpOK, SameBut, OpFields, Early
  <1>6. OpsInv' /\ Follows(t)
    BY <1>1, <1>3, <1>5, OpKept DEF Begun
  <1>7. op'[t].made = op[t].made
    BY <1>3 DEF SameBut, OpFields
  <1> QED
    BY <1>1, <1>3, <1>6, <1>7 DEF Quiet, Call

\* status() is quiet.
LEMMA QuietStatus ==
    ASSUME OpsInv, NEW t \in Threads, Status(t)
    PROVE  Quiet(t)
  <1> DEFINE st == TypeAt(fs, ItemPath(op[t]))
  <1>1. op[t].pc = "status" /\ fs' = fs /\ op' = [op EXCEPT ![t].pc = "item", ![t].st = st]
    BY DEF Status
  <1> HIDE DEF st
  <1>2. SameBut(t, {"pc", "st"}) /\ op'[t].pc = "item" /\ op'[t].st = st
    BY <1>1 DEF OpsInv, OpOK, OpFields, SameBut
  <1>3. OpOK(op'[t])
    BY <1>1, <1>2 DEF OpsInv, OpOK, SameBut, OpFields, Early
  <1>4. OpsInv' /\ Follows(t)
    BY <1>1, <1>2, <1>3, OpKept DEF Begun
  <1>5. op'[t].made = op[t].made /\ op'[t].kind = op[t].kind
    BY <1>2 DEF SameBut, OpFields
  <1>6. op[t].made # "none" => st = TypeAt(fs, Target(op[t]))
    BY DEF st, ItemPath, OpsInv, OpOK
  <1> QED
    BY <1>1, <1>2, <1>4, <1>5, <1>6 DEF Quiet

\* make_item() and the answer of a call are quiet.
LEMMA QuietAnswerItem ==
    ASSUME OpsInv, NEW t \in Threads, AnswerItem(t)
    PROVE  Quiet(t)
  <1> DEFINE p == ItemPath(op[t])
             error == MakeItemError(p, op[t].st)
             item == MakeItem(p, op[t].st)
  <1>1. op[t].pc = "item" /\ fs' = fs
    BY DEF AnswerItem
  <1>2. op[t].made # "none" => p = Target(op[t])
    BY DEF ItemPath, OpsInv, OpOK
  <1>3. item.id = p /\ p \in Seq(Names)
    <2>1. item.id = p
      BY DEF MakeItem
    <2>2. OpOK(op[t]) /\ Target(op[t]) \in Seq(Names)
      BY TargetPlain DEF OpsInv
    <2> QED
      BY <2>1, <2>2 DEF ItemPath, OpOK
  <1> HIDE DEF item
  <1>4. ~ IsReservedPath(item.id)
    BY <1>3, PlainNotReserved
  <1>5. /\ IF error = "ok"
           THEN op' = [op EXCEPT ![t].pc = "done", ![t].result = "ok", ![t].items = {item}]
           ELSE Finish(t, error)
    BY DEF AnswerItem, item
  <1> HIDE DEF p, error
  <1>6. CASE error = "ok"
    <2>1. op' = [op EXCEPT ![t].pc = "done", ![t].result = "ok", ![t].items = {item}]
      BY <1>5, <1>6
    <2>2. /\ SameBut(t, {"pc", "result", "items"}) /\ op'[t].pc = "done" /\ op'[t].result = "ok"
          /\ op'[t].items = {item}
      BY <2>1 DEF OpsInv, OpOK, OpFields, SameBut
    <2>6. \A i \in op'[t].items : ~ IsReservedPath(i.id)
      BY <1>4, <2>2
    <2>3. OpOK(op'[t])
      BY <1>1, <2>2, <2>6 DEF OpsInv, OpOK, SameBut, OpFields, Early
    <2>4. OpsInv' /\ Follows(t)
      BY <2>2, <2>3, OpKept DEF Begun
    <2>5. op'[t].made = op[t].made
      BY <2>2 DEF SameBut, OpFields
    <2> QED
      BY <1>1, <2>2, <2>4, <2>5 DEF Quiet
  <1>7. CASE error # "ok"
    <2>1. Finish(t, error)
      BY <1>5, <1>7
    <2>2. OpsInv' /\ Follows(t)
      BY <1>1, <2>1, FinishKeeps
    <2>3. SameBut(t, {"pc", "result"}) /\ op'[t].pc = "done"
      BY <2>1, FinishOp
    <2>4. op'[t].made = op[t].made
      BY <2>3 DEF SameBut, OpFields
    <2> QED
      BY <1>1, <1>2, <1>7, <2>2, <2>3, <2>4 DEF Quiet, error
  <1> QED
    BY <1>6, <1>7

\* One entry of list() is quiet, and shows nothing reserved.
LEMMA QuietListEntry ==
    ASSUME OpsInv, NEW t \in Threads, ListEntry(t)
    PROVE  Quiet(t)
  <1>1. op[t].kind = "list" /\ op[t].pc = "iterate" /\ fs' = fs
    BY DEF ListEntry, At
  <1>2. PICK p : op' = [op EXCEPT ![t].done = @ \cup {p},
                           ![t].items = IF IsReservedPath(p) \/ MakeItemError(p, TypeAt(fs, p)) # "ok"
                                        THEN @
                                        ELSE @ \cup {MakeItem(p, TypeAt(fs, p))}]
    BY DEF ListEntry
  <1> DEFINE item == MakeItem(p, TypeAt(fs, p))
             items == IF IsReservedPath(p) \/ MakeItemError(p, TypeAt(fs, p)) # "ok"
                      THEN op[t].items ELSE op[t].items \cup {item}
  <1>3. item.id = p
    BY DEF MakeItem
  <1>4. \A i \in items : i \in op[t].items \/ ~ IsReservedPath(i.id)
    BY <1>3
  <1>5. op' = [op EXCEPT ![t].done = @ \cup {p}, ![t].items = items]
    BY <1>2
  <1> HIDE DEF items
  <1>6. SameBut(t, {"done", "items"}) /\ op'[t].items = items
    BY <1>5 DEF OpsInv, OpOK, OpFields, SameBut
  <1>7. OpOK(op'[t])
    BY <1>1, <1>4, <1>6 DEF OpsInv, OpOK, SameBut, OpFields, Early
  <1>8. op'[t].pc = op[t].pc /\ op'[t].made = op[t].made /\ op'[t].kind = op[t].kind
    BY <1>6 DEF SameBut, OpFields
  <1>9. OpsInv' /\ Follows(t)
    BY <1>6, <1>7, <1>8, OpKept DEF Begun
  <1>10. op[t].made = "none"
    BY <1>1, NothingMade
  <1> QED
    BY <1>1, <1>8, <1>9, <1>10 DEF Quiet

\* copy() copies nothing from a temporary folder.
LEMMA CopyableIsPlain ==
    ASSUME OpsInv, TreeInv, NEW t \in Threads, NEW p \in Copyable(op[t].id)
    PROVE  p \in DOMAIN fs /\ p \in Seq(Names) /\ IsPrefix(op[t].id, p) /\ p # op[t].id
  <1> DEFINE id == op[t].id
  <1>1. id \in Seq(Names) /\ Len(id) \in Nat
    BY LenProperties DEF OpsInv, OpOK
  <1>2. /\ p \in DOMAIN fs /\ IsPrefix(id, p) /\ p # id
        /\ \A n \in (Len(id) + 1)..Len(p) : ~ IsReservedPath(SubSeq(p, 1, n))
    BY DEF Copyable, Below, IsStrictPrefix
  <1> HIDE DEF id
  <1>3. ASSUME NEW u \in Threads, NEW a \in Seq(Names), NEW b \in Seq(Names), p = Tmp(a, u, b)
        PROVE  FALSE
    <2>1. b \in Seq(AllNames) /\ p \in Seq(AllNames)
      <3>1. b \in Seq(AllNames)
        BY PlainPath
      <3> QED
        BY <1>3, <3>1, TmpFacts
    <2>2. IsPrefix(id, Tmp(a, u, b))
      BY <1>2, <1>3
    <2>3. IsPrefix(id, a)
      BY <1>1, <2>2, TmpPrefix
    <2>4. Len(id) <= Len(a) /\ Len(a) \in Nat
      BY <1>1, <2>3, LenProperties DEF IsPrefix
    <2>5. TmpShape(p, a, u, b)
      BY <1>3, <2>1, TmpShapes
    <2> DEFINE n == Len(a) + 1
    <2>6. n \in (Len(id) + 1)..Len(p) /\ n \in 1..Len(p) /\ Len(p) \in Nat /\ p[n] = u
      BY <1>1, <2>4, <2>5 DEF TmpShape
    <2>7. \A i \in 1..n : p[i] \in AllNames
      BY <2>1, <2>6, ElementOfSeq
    <2> HIDE DEF n
    <2>8. SubSeq(p, 1, n) \in Seq(AllNames) /\ Len(SubSeq(p, 1, n)) = n /\ SubSeq(p, 1, n)[n] = p[n]
      <3>1. 1 \in Int /\ n \in Int /\ n \in Nat /\ 1 <= n /\ n \in 1..(n - 1 + 1)
        BY <2>6
      <3>2. /\ SubSeq(p, 1, n) \in Seq(AllNames)
            /\ Len(SubSeq(p, 1, n)) = IF 1 <= n THEN n - 1 + 1 ELSE 0
            /\ \A i \in 1..(n - 1 + 1) : SubSeq(p, 1, n)[i] = p[1 + i - 1]
        BY <2>7, <3>1, SubSeqProperties
      <3> QED
        BY <3>1, <3>2
    <2>9. ASSUME SubSeq(p, 1, n) = << >> PROVE FALSE
      <3>1. n = Len(<< >>) /\ n >= 1
        BY <2>6, <2>8, <2>9
      <3> QED
        BY <3>1
    <2> QED
      BY <1>2, <2>6, <2>8, <2>9 DEF IsReservedPath, Last, Root
  <1> QED
    BY <1>2, <1>3 DEF TreeInv, id

\* An entry that copy() is done with changes nothing else in the record.
LEMMA DoneOp ==
    ASSUME OpsInv, NEW t \in Threads, NEW p, op' = [op EXCEPT ![t].done = @ \cup {p}],
           op[t].pc = "entries", p \in Seq(Names), IsPrefix(op[t].id, p), p # op[t].id
    PROVE  /\ SameBut(t, {"done"}) /\ op'[t].done = op[t].done \cup {p}
           /\ OpsInv' /\ Follows(t)
  <1>1. SameBut(t, {"done"}) /\ op'[t].done = op[t].done \cup {p}
    BY DEF OpsInv, OpOK, OpFields, SameBut
  <1>2. OpOK(op'[t])
    BY <1>1 DEF OpsInv, OpOK, SameBut, OpFields, Early
  <1>3. op'[t].pc = op[t].pc
    BY <1>1 DEF SameBut, OpFields
  <1> QED
    BY <1>1, <1>2, <1>3, OpKept DEF Begun

\* An entry that is neither file nor folder, or cannot be copied.
LEMMA QuietCopyEntry ==
    ASSUME OpsInv, TreeInv, NEW t \in Threads, CopyEntry(t)
    PROVE  \/ Quiet(t)
           \/ \E p \in Copyable(op[t].id) \ op[t].done :
                 LET q == TmpPath(t) \o SubSeq(p, Len(op[t].id) + 1, Len(p))
                 IN  /\ ParentErrno(fs, q) = "ok"
                     /\ op' = [op EXCEPT ![t].done = @ \cup {p}]
                     /\ fs' = Put(fs, q, IF fs[p].type = "file" THEN File(Read(fs[p].data))
                                         ELSE Folder)
  <1> DEFINE Q(p) == TmpPath(t) \o SubSeq(p, Len(op[t].id) + 1, Len(p))
             E(p) == IF fs[p].type = "odd" THEN "ok" ELSE ParentErrno(fs, Q(p))
  <1>1. PICK p \in Copyable(op[t].id) \ op[t].done :
           /\ IF E(p) = "ok"
              THEN op' = [op EXCEPT ![t].done = @ \cup {p}]
              ELSE Finish(t, FsException(E(p)))
           /\ IF fs[p].type = "odd" \/ E(p) # "ok"
              THEN UNCHANGED fs
              ELSE fs' = Put(fs, Q(p), IF fs[p].type = "file" THEN File(Read(fs[p].data))
                                       ELSE Folder)
    BY DEF CopyEntry
  <1>2. op[t].kind = "copy" /\ op[t].pc = "entries"
    BY DEF CopyEntry, At
  <1>3. p \in DOMAIN fs /\ p \in Seq(Names) /\ IsPrefix(op[t].id, p) /\ p # op[t].id
    BY CopyableIsPlain
  <1>4. CASE fs[p].type = "odd"
    <2>1. op' = [op EXCEPT ![t].done = @ \cup {p}] /\ fs' = fs
      BY <1>1, <1>4
    <2>2. /\ SameBut(t, {"done"}) /\ op'[t].done = op[t].done \cup {p}
          /\ OpsInv' /\ Follows(t)
      BY <1>2, <1>3, <2>1, DoneOp
    <2>3. op'[t].pc = "entries" /\ op'[t].kind = "copy" /\ op'[t].made = op[t].made
      BY <1>2, <2>2 DEF SameBut, OpFields
    <2>4. op[t].made = "none"
      BY <1>2, NothingMade
    <2> QED
      BY <1>2, <1>4, <2>1, <2>2, <2>3, <2>4 DEF Quiet
  <1>5. CASE fs[p].type # "odd" /\ E(p) = "ok"
    BY <1>1, <1>5
  <1>6. CASE E(p) # "ok"
    <2>1. Finish(t, FsException(E(p))) /\ fs' = fs
      BY <1>1, <1>6
    <2> HIDE DEF E
    <2>2. FsException(E(p)) \in Exceptions
      BY FsExceptions
    <2> QED
      BY <1>2, <2>1, <2>2, QuietFinish
  <1> QED
    BY <1>4, <1>5, <1>6

\* The end of copy()'s iteration is quiet: all that it saw at the beginning and is still
\* there has been copied.
LEMMA QuietCopyEntriesEnd ==
    ASSUME OpsInv, NEW t \in Threads, CopyEntriesEnd(t)
    PROVE  Quiet(t)
  <1>1. /\ op[t].kind = "copy" /\ op[t].pc = "entries" /\ fs' = fs /\ Goto(t, "rename")
        /\ op[t].seen \cap Copyable(op[t].id) \subseteq op[t].done
    BY DEF CopyEntriesEnd, At
  <1>2. op[t].made = "none"
    BY <1>1, NothingMade
  <1>3. OpsInv' /\ Follows(t)
    BY <1>1, <1>2, GotoKeeps
  <1>4. SameBut(t, {"pc"}) /\ op'[t].pc = "rename"
    BY <1>1, GotoOp
  <1>5. /\ op'[t].made = op[t].made /\ op'[t].kind = op[t].kind
        /\ op'[t].seen = op[t].seen /\ op'[t].done = op[t].done
    BY <1>4 DEF SameBut, OpFields
  <1> QED
    BY <1>1, <1>2, <1>3, <1>4, <1>5 DEF Quiet

\* The length of the path of a temporary folder.
LEMMA TmpLength ==
    ASSUME OpsInv, NEW t \in Threads
    PROVE  Len(TmpPath(t)) = Len(op[t].parent) + 1 /\ Len(op[t].parent) \in Nat
  <1>1. op[t].parent \in Seq(AllNames) /\ t \in AllNames
    BY PlainPath DEF OpsInv, OpOK, AllNames
  <1> QED
    BY <1>1, AppendProperties, LenProperties DEF TmpPath

\* create_directories() looks where to begin.
LEMMA QuietCreateDirectories ==
    ASSUME OpsInv, NEW t \in Threads, CreateDirectories(t)
    PROVE  Quiet(t)
  <1>1. op[t].kind = "copy" /\ op[t].pc = "walk" /\ fs' = fs
    BY DEF CreateDirectories, At
  <1>2. PICK n \in 1..Len(TmpPath(t)) :
           op' = [op EXCEPT ![t].pc = "mkdir", ![t].first = n, ![t].next = n]
    BY DEF CreateDirectories
  <1>3. n \in 1..(Len(op[t].parent) + 1) /\ n \in Nat /\ n <= n
    BY TmpLength
  <1>4. SameBut(t, {"pc", "first", "next"}) /\ op'[t].pc = "mkdir" /\ op'[t].first = n /\ op'[t].next = n
    BY <1>2 DEF OpsInv, OpOK, OpFields, SameBut
  <1>5. op[t].made = "none" /\ op[t].next = 0
    BY <1>1 DEF OpsInv, OpOK
  <1>6. OpOK(op'[t])
    BY <1>1, <1>3, <1>4, <1>5 DEF OpsInv, OpOK, SameBut, OpFields, Early
  <1>7. OpsInv' /\ Follows(t)
    BY <1>1, <1>4, <1>5, <1>6, OpKept DEF Begun, WayKept
  <1>8. op'[t].made = op[t].made /\ op'[t].kind = op[t].kind
    BY <1>4 DEF SameBut, OpFields
  <1> QED
    BY <1>1, <1>4, <1>5, <1>7, <1>8 DEF Quiet

\* copy() opens its source.
LEMMA QuietOpenSource ==
    ASSUME OpsInv, TreeInv, NEW t \in Threads, OpenSource(t)
    PROVE  Quiet(t)
  <1> DEFINE seen == Copyable(op[t].id)
  <1>1. op[t].kind = "copy" /\ op[t].pc = "opendir" /\ fs' = fs
    BY DEF OpenSource, At
  <1>2. \/ op' = [op EXCEPT ![t].pc = "entries", ![t].seen = seen]
        \/ \E errno : Finish(t, FsException(errno))
    BY DEF OpenSource
  <1>3. \A p \in seen : p \in Seq(Names) /\ IsPrefix(op[t].id, p) /\ p # op[t].id
    BY CopyableIsPlain
  <1> HIDE DEF seen
  <1>4. CASE op' = [op EXCEPT ![t].pc = "entries", ![t].seen = seen]
    <2>1. SameBut(t, {"pc", "seen"}) /\ op'[t].pc = "entries" /\ op'[t].seen = seen
      BY <1>4, SeenOp
    <2>2. /\ op'[t].done = op[t].done /\ op[t].done = {} /\ op[t].made = "none"
          /\ op'[t].made = op[t].made /\ op'[t].kind = op[t].kind /\ op'[t].id = op[t].id
      BY <1>1, <2>1 DEF OpsInv, OpOK, SameBut, OpFields, Early
    <2>3. OpOK(op'[t])
      BY <1>1, <1>3, <2>1, <2>2 DEF OpsInv, OpOK, SameBut, OpFields, Early
    <2>4. OpsInv' /\ Follows(t)
      BY <1>1, <2>1, <2>3, OpKept DEF Begun
    <2> QED
      BY <1>1, <2>1, <2>2, <2>4 DEF Quiet
  <1>5. CASE \E errno : Finish(t, FsException(errno))
    BY <1>1, <1>5, QuietFinish, FsExceptions
  <1> QED
    BY <1>2, <1>4, <1>5

\* The steps that read, and those that fail.
LEMMA QuietSteps ==
    ASSUME OpsInv, TreeInv, NEW t \in Threads
    PROVE  /\ Roots(t) \/ Metadata(t) \/ Lookup(t) \/ CreateFolder(t) \/ Move(t) => Quiet(t)
           /\ List(t) \/ ListEnd(t) \/ DeleteItem(t) \/ RemoveEnd(t) => Quiet(t)
           /\ Copy(t) \/ CanonicalParent(t) \/ CreateDirectories(t) => Quiet(t)
           /\ OpenSource(t) \/ CopyEntryGone(t) => Quiet(t)
  <1>1. ASSUME Roots(t) PROVE Quiet(t)
    BY <1>1, QuietGoto DEF Roots, At
  <1>2. ASSUME Metadata(t) PROVE Quiet(t)
    BY <1>2, QuietProceed DEF Metadata, At
  <1>3. ASSUME Lookup(t) PROVE Quiet(t)
    BY <1>3, QuietProceed DEF Lookup, At
  <1>4. ASSUME CreateFolder(t) PROVE Quiet(t)
    BY <1>4, QuietProceed DEF CreateFolder, At
  <1>5. ASSUME Move(t) PROVE Quiet(t)
    BY <1>5, QuietProceed DEF Move, At
  <1>6. ASSUME List(t) PROVE Quiet(t)
    <2> DEFINE seen == Children(fs, op[t].id)
    <2>1. op[t].kind = "list" /\ op[t].pc = "check" /\ fs' = fs
      BY <1>6 DEF List, At
    <2>2. \/ op' = [op EXCEPT ![t].pc = "iterate", ![t].seen = seen]
          \/ \E error : Finish(t, error)
      BY <1>6 DEF List
    <2> HIDE DEF seen
    <2> QED
      BY <2>1, <2>2, QuietSeen, QuietFinish
  <1>7. ASSUME ListEnd(t) PROVE Quiet(t)
    BY <1>7, QuietFinish DEF ListEnd, At
  <1>8. ASSUME DeleteItem(t) PROVE Quiet(t)
    <2> DEFINE seen == Below(fs, op[t].id)
    <2>1. op[t].kind = "delete_item" /\ op[t].pc = "check" /\ fs' = fs
      BY <1>8 DEF DeleteItem, At
    <2>2. \/ op' = [op EXCEPT ![t].pc = "remove", ![t].seen = seen]
          \/ \E error : Finish(t, error)
      BY <1>8 DEF DeleteItem
    <2> HIDE DEF seen
    <2> QED
      BY <2>1, <2>2, QuietSeen, QuietFinish
  <1>9. ASSUME RemoveEnd(t) PROVE Quiet(t)
    <2>1. op[t].kind = "delete_item" /\ op[t].pc = "remove" /\ fs' = fs
      BY <1>9 DEF RemoveEnd, At
    <2>2. \E result : Finish(t, result)
      BY <1>9 DEF RemoveEnd
    <2> QED
      BY <2>1, <2>2, QuietFinish
  <1>10. ASSUME Copy(t) PROVE Quiet(t)
    <2>1. op[t].kind = "copy" /\ op[t].pc = "check" /\ fs' = fs
      BY <1>10 DEF Copy, At
    <2>2. Goto(t, "canonical") \/ Goto(t, "copy_file") \/ \E error : Finish(t, error)
      BY <1>10 DEF Copy
    <2> QED
      BY <2>1, <2>2, QuietGoto, QuietFinish
  <1>11. ASSUME CopyEntryGone(t) PROVE Quiet(t)
    BY <1>11, QuietFinish, FsExceptions DEF CopyEntryGone, At
  <1>12. ASSUME CanonicalParent(t) PROVE Quiet(t)
    <2>1. op[t].kind = "copy" /\ op[t].pc = "canonical" /\ fs' = fs
      BY <1>12 DEF CanonicalParent, At
    <2>2. Goto(t, "walk") \/ \E error : Finish(t, error)
      BY <1>12 DEF CanonicalParent
    <2> QED
      BY <2>1, <2>2, QuietGoto, QuietFinish
  <1>13. ASSUME CreateDirectories(t) PROVE Quiet(t)
    BY <1>13, QuietCreateDirectories
  <1>14. ASSUME OpenSource(t) PROVE Quiet(t)
    BY <1>14, QuietOpenSource
  <1> QED
    BY <1>1, <1>2, <1>3, <1>4, <1>5, <1>6, <1>7, <1>8, <1>9, <1>10, <1>11, <1>12, <1>13, <1>14

(***************************************************************************)
(* Steps that change the tree.                                             *)
(***************************************************************************)
\* What such a step has to keep.
LEMMA TreeStepKeeps ==
    ASSUME ItemsIInv, NEW t \in Threads, OpsInv', Follows(t), TreeInv', OneTmp', TmpInv',
           \A u \in Threads : CopyOK(u)',
           \A u \in Threads \ {t} :
              op[u].made \in {"file", "folder"} /\ Stands(u) => Stands(u)' \/ Interfered(u)',
           op'[t].made \in {"file", "folder"} =>
              /\ op'[t].pc \in {"write", "status", "item"} => Interfered(t)' \/ Stands(t)'
              /\ op'[t].result \in Exceptions => op'[t].result = "Quota" \/ Interfered(t)'
    PROVE  ItemsIInv'
  <1>1. \A u \in Threads : op[u].pc # "idle" /\ Interfered(u) => Interfered(u)'
    BY Monotone DEF ItemsIInv
  <1>2. ASSUME NEW u \in Threads \ {t}, op'[u].made \in {"file", "folder"} PROVE
           /\ op'[u].pc \in {"write", "status", "item"} => Interfered(u)' \/ Stands(u)'
           /\ op'[u].result \in Exceptions => op'[u].result = "Quota" \/ Interfered(u)'
    <2>1. op'[u] = op[u] /\ op[u].pc # "idle"
      BY <1>2 DEF Follows, OpsInv, OpOK
    <2> QED
      BY <1>1, <1>2, <2>1 DEF ItemsIInv, MadeInv, ErrorAfterSuccessIsInterference
  <1>3. MadeInv' /\ ErrorAfterSuccessIsInterference'
    BY <1>2 DEF MadeInv, ErrorAfterSuccessIsInterference
  <1> QED
    BY <1>3 DEF ItemsIInv, CopyInv

\* A new entry takes nothing away, and a copy() has nothing to do with it unless it is
\* what the copy() has seen there.
LEMMA NewEntry ==
    ASSUME ItemsIInv, NEW t \in Threads, OpsInv', Follows(t), NEW x, NEW node,
           x \notin DOMAIN fs, fs' = Put(fs, x, node)
    PROVE  /\ DOMAIN fs' = DOMAIN fs \cup {x} /\ fs'[x] = node
           /\ \A q \in DOMAIN fs : fs'[q] = fs[q]
           /\ \A u \in Threads \ {t} : Stands(u) => Stands(u)'
           /\ \A u \in Threads \ {t} :
                 (x \in Seq(Names) => PutBack(u, x)') /\ x # TmpPath(u) => CopyOK(u)'
  <1>1. /\ DOMAIN fs' = DOMAIN fs \cup {x} /\ fs'[x] = node
        /\ \A q \in DOMAIN fs : fs'[q] = fs[q]
    BY DEF Put
  <1>2. \A u \in Threads \ {t} : op'[u] = op[u]
    BY DEF Follows
  <1>3. ASSUME NEW u \in Threads \ {t}, Stands(u) PROVE Stands(u)'
    BY <1>1, <1>2, <1>3 DEF Stands, Exists
  <1>4. ASSUME NEW u \in Threads \ {t}, x \in Seq(Names) => PutBack(u, x)', x # TmpPath(u),
               op'[u].kind = "copy"
        PROVE  /\ op'[u].pc \in {"entries", "rename"} /\ TmpPath(u)' \in DOMAIN fs' =>
                     \A p \in op'[u].done : p \in DOMAIN fs' /\ fs'[p].type # "odd" =>
                        CopiedTo(u, p)' \in DOMAIN fs' \/ PutBack(u, p)' \/ TargetDisturbed(u)'
               /\ op'[u].pc = "rename" =>
                     \A p \in op'[u].seen \ op'[u].done : p \in DOMAIN fs' => PutBack(u, p)'
    <2>1. op'[u] = op[u] /\ TmpPath(u)' = TmpPath(u) /\ \A p : CopiedTo(u, p)' = CopiedTo(u, p)
      BY <1>2 DEF TmpPath, CopiedTo
    <2>2. \A p \in op[u].seen \cup op[u].done : p \in Seq(Names)
      BY <1>4, <2>1 DEF OpsInv, OpOK
    <2>3. /\ op[u].pc # "idle" /\ TargetDisturbed(u) => TargetDisturbed(u)'
          /\ \A p : PutBack(u, p) => PutBack(u, p)'
      BY Monotone DEF ItemsIInv
    <2>4. CopyOK(u)
      BY DEF ItemsIInv, CopyInv
    <2> QED
      BY <1>1, <1>4, <2>1, <2>2, <2>3, <2>4 DEF CopyOK, Exists
  <1> QED
    BY <1>1, <1>3, <1>4 DEF CopyOK, Exists

\* The temporary folder of a copy().
LEMMA TmpPathIs ==
    ASSUME OpsInv, NEW t \in Threads
    PROVE  /\ op[t].parent \in Seq(Names) /\ << >> \in Seq(Names)
           /\ TmpPath(t) = Tmp(op[t].parent, t, << >>)
  <1>1. op[t].parent \in Seq(Names) /\ << >> \in Seq(Names)
    BY EmptySeq DEF OpsInv, OpOK
  <1>2. Append(op[t].parent, t) \in Seq(AllNames)
    <2>1. << >> \in Seq(AllNames)
      BY EmptySeq
    <2> QED
      BY <1>1, <2>1, TmpFacts
  <1>3. Append(op[t].parent, t) \o << >> = Append(op[t].parent, t)
    BY <1>2, ConcatEmptySeq
  <1> QED
    BY <1>1, <1>3 DEF TmpPath, Tmp

\* Where a thread is that has a temporary folder.
LEMMA NoTmp ==
    ASSUME OpsInv, TmpInv, NEW t \in Threads, NEW a \in Seq(Names), NEW b \in Seq(Names),
           op[t].pc \notin {"opendir", "entries", "rename", "done"} \/ op[t].kind # "copy"
    PROVE  Tmp(a, t, b) \notin DOMAIN fs
  BY DEF TmpInv, OpsInv, OpOK, Exceptions

\* create_directory() and copy_file() make a new entry where clients look for it.
LEMMA TargetNew ==
    ASSUME ItemsIInv, NEW t \in Threads, OpsInv', Follows(t), NEW x, NEW node,
           x = Target(op[t]), x \notin DOMAIN fs, fs' = Put(fs, x, node),
           op[t].pc \notin {"idle", "opendir", "entries", "rename", "done"},
           op'[t].pc \in {"write", "status"}, op'[t].made = node.type,
           node.type \in {"file", "folder"}, node.data \in Threads => node.type = "file"
    PROVE  ItemsIInv'
  <1>1. x \in Seq(Names) /\ x = Target(op'[t])
    BY TargetPlain DEF ItemsIInv, OpsInv, Follows, Target
  <1>2. /\ DOMAIN fs' = DOMAIN fs \cup {x} /\ fs'[x] = node
        /\ \A q \in DOMAIN fs : fs'[q] = fs[q]
        /\ \A u \in Threads \ {t} : Stands(u) => Stands(u)'
        /\ \A u \in Threads \ {t} :
              (x \in Seq(Names) => PutBack(u, x)') /\ x # TmpPath(u) => CopyOK(u)'
    BY NewEntry
  <1>3. \A u \in Threads : \A a, b \in Seq(Names) : Tmp(a, u, b) # x
    <2>1. \A b \in Seq(Names) : b \in Seq(AllNames)
      BY PlainPath
    <2> QED
      BY <1>1, <2>1, TmpNotPlain
  <1>4. \A u \in Threads \ {t} : op'[u] = op[u]
    BY DEF Follows
  <1>5. TreeInv'
    BY <1>1, <1>2 DEF ItemsIInv, TreeInv
  <1>6. OneTmp'
    BY <1>2, <1>3 DEF ItemsIInv, OneTmp
  <1>7. TmpInv'
    <2>1. \A a, b \in Seq(Names) : Tmp(a, t, b) \notin DOMAIN fs
      BY NoTmp DEF ItemsIInv
    <2> QED
      BY <1>2, <1>3, <1>4, <2>1 DEF ItemsIInv, TmpInv
  <1>8. ASSUME NEW u \in Threads PROVE CopyOK(u)'
    <2>1. CASE u = t
      BY <2>1 DEF CopyOK
    <2>2. CASE u # t
      <3>1. PutBack(u, x)'
        <4>1. IsPrefix(x, x)
          BY <1>1 DEF IsPrefix
        <4> QED
          BY <2>2, <4>1, <1>1 DEF PutBack
      <3>2. x # TmpPath(u)
        <4>1. /\ op[u].parent \in Seq(Names) /\ << >> \in Seq(Names)
              /\ TmpPath(u) = Tmp(op[u].parent, u, << >>)
          BY TmpPathIs DEF ItemsIInv
        <4> QED
          BY <1>3, <4>1
      <3> QED
        BY <1>2, <2>2, <3>1, <3>2
    <2> QED
      BY <2>1, <2>2
  <1>9. Stands(t)'
    BY <1>1, <1>2 DEF Stands, Exists
  <1>10. op'[t].result = "none"
    BY DEF OpsInv, OpOK
  <1> QED
    BY <1>2, <1>5, <1>6, <1>7, <1>8, <1>9, <1>10, TreeStepKeeps DEF Exceptions

\* create_directory() of create_folder().
LEMMA CreateDirectoryKeeps ==
    ASSUME ItemsIInv, NEW t \in Threads, CreateDirectory(t)
    PROVE  ItemsIInv'
  <1> DEFINE p == Target(op[t])
             errno == CreateDirectoryErrno(fs, p)
  <1>1. OpsInv /\ op[t].kind = "create_folder" /\ op[t].pc = "create" /\ op[t].made = "none"
    BY NothingMade DEF ItemsIInv, CreateDirectory, At
  <1>2. \/ Finish(t, FsException(errno)) /\ fs' = fs
        \/ Goto(t, "status") /\ fs' = fs
        \/ Made(t, "folder") /\ fs' = Put(fs, p, Folder) /\ p \notin DOMAIN fs
    BY DEF CreateDirectory, Exists
  <1> HIDE DEF errno
  <1>3. CASE Finish(t, FsException(errno)) /\ fs' = fs
    BY <1>1, <1>3, QuietFinish, QuietKeeps
  <1>4. CASE Goto(t, "status") /\ fs' = fs
    BY <1>1, <1>4, QuietGoto, QuietKeeps
  <1>5. CASE Made(t, "folder") /\ fs' = Put(fs, p, Folder) /\ p \notin DOMAIN fs
    <2>1. OpsInv' /\ Follows(t)
      BY <1>1, <1>5, MadeKeeps
    <2>2. op'[t].pc = "status" /\ op'[t].made = "folder"
      BY <1>1, <1>5, MadeOp
    <2>3. Folder.type = "folder" /\ Folder.data \notin Threads
      BY ArgumentsAssumption DEF Folder
    <2> QED
      BY <1>1, <1>5, <2>1, <2>2, <2>3, TargetNew
  <1> QED
    BY <1>2, <1>3, <1>4, <1>5

\* copy_file() creates the file.
LEMMA CopyFileOpenKeeps ==
    ASSUME ItemsIInv, NEW t \in Threads, CopyFileOpen(t)
    PROVE  ItemsIInv'
  <1> DEFINE p == Target(op[t])
             errno == CopyFileErrno(fs, op[t].id, p)
             data == Read(fs[op[t].id].data)
  <1>1. OpsInv /\ op[t].kind = "copy" /\ op[t].pc = "copy_file" /\ op[t].made = "none"
    BY NothingMade DEF ItemsIInv, CopyFileOpen, At
  <1>2. \/ Finish(t, FsException(errno)) /\ fs' = fs
        \/ /\ op' = [op EXCEPT ![t].pc = "write", ![t].made = "file", ![t].data = data]
           /\ fs' = Put(fs, p, File(t)) /\ errno = "ok"
    BY DEF CopyFileOpen
  <1>3. errno = "ok" => p \notin DOMAIN fs
    BY DEF CopyFileErrno, Exists
  <1> HIDE DEF errno, data
  <1>4. CASE Finish(t, FsException(errno)) /\ fs' = fs
    BY <1>1, <1>4, QuietFinish, QuietKeeps
  <1>5. CASE /\ op' = [op EXCEPT ![t].pc = "write", ![t].made = "file", ![t].data = data]
             /\ fs' = Put(fs, p, File(t)) /\ p \notin DOMAIN fs
    <2>1. SameBut(t, {"pc", "made", "data"}) /\ op'[t].pc = "write" /\ op'[t].made = "file"
      BY <1>1, <1>5 DEF OpsInv, OpOK, OpFields, SameBut
    <2>2. OpOK(op'[t])
      BY <1>1, <2>1 DEF OpsInv, OpOK, SameBut, OpFields, Early
    <2>3. OpsInv' /\ Follows(t)
      BY <1>1, <2>1, <2>2, OpKept DEF Begun
    <2>4. File(t).type = "file"
      BY DEF File
    <2> QED
      BY <1>1, <1>5, <2>1, <2>3, <2>4, TargetNew
  <1> QED
    BY <1>2, <1>3, <1>4, <1>5

\* A new entry in a temporary folder: the folder itself, or what has been copied.
LEMMA TmpNew ==
    ASSUME ItemsIInv, NEW t \in Threads, OpsInv', Follows(t), NEW b \in Seq(Names), NEW x, NEW node,
           x = Tmp(op[t].parent, t, b), x \notin DOMAIN fs, fs' = Put(fs, x, node),
           op[t].kind = "copy", op[t].done \subseteq op'[t].done,
           node.type \in {"file", "folder"}, node.data \notin Threads,
           \/ /\ b = << >> /\ node.type = "folder"
              /\ op[t].pc = "mkdir" /\ op'[t].pc = "opendir"
           \/ /\ b # << >> /\ op[t].id \o b \in op'[t].done
              /\ op[t].pc = "entries" /\ op'[t].pc = "entries",
           \A c, d \in Seq(Names) : Tmp(c, t, d) \in DOMAIN fs => c = op[t].parent,
           CopyOK(t)'
    PROVE  ItemsIInv'
  <1>1. OpsInv /\ op[t].parent \in Seq(Names) /\ << >> \in Seq(Names) /\ op'[t].made = "none"
    <2>1. OpsInv
      BY DEF ItemsIInv
    <2>2. op[t].parent \in Seq(Names) /\ << >> \in Seq(Names)
      BY <2>1, TmpPathIs
    <2> QED
      BY <2>1, <2>2 DEF OpsInv, OpOK
  <1>2. /\ DOMAIN fs' = DOMAIN fs \cup {x} /\ fs'[x] = node
        /\ \A q \in DOMAIN fs : fs'[q] = fs[q]
        /\ \A u \in Threads \ {t} : Stands(u) => Stands(u)'
        /\ \A u \in Threads \ {t} :
              (x \in Seq(Names) => PutBack(u, x)') /\ x # TmpPath(u) => CopyOK(u)'
    BY NewEntry
  <1>3. \A u \in Threads : \A c, d \in Seq(Names) :
           Tmp(c, u, d) = x => u = t /\ c = op[t].parent /\ d = b
    <2>1. \A d \in Seq(Names) : d \in Seq(AllNames)
      BY PlainPath
    <2> QED
      BY <1>1, <2>1, TmpWithin
  <1>4. x \notin Seq(Names)
    <2>1. b \in Seq(AllNames)
      BY PlainPath
    <2> QED
      BY <1>1, <2>1, TmpNotPlain
  <1>5. \A u \in Threads \ {t} : op'[u] = op[u]
    BY DEF Follows
  <1>6. op'[t].kind = "copy" /\ op'[t].id = op[t].id
    BY DEF Follows
  <1>7. TreeInv'
    BY <1>1, <1>2 DEF ItemsIInv, TreeInv
  <1>8. OneTmp'
    <2> SUFFICES ASSUME NEW u \in Threads,
                        NEW c \in Seq(Names), NEW d \in Seq(Names),
                        NEW e \in Seq(Names), NEW f \in Seq(Names),
                        Tmp(c, u, d) \in DOMAIN fs', Tmp(e, u, f) \in DOMAIN fs'
                 PROVE  c = e
      BY DEF OneTmp
    <2> QED
      BY <1>2, <1>3 DEF ItemsIInv, OneTmp
  <1>9. TmpInv'
    <2> SUFFICES ASSUME NEW u \in Threads, NEW c \in Seq(Names), NEW d \in Seq(Names),
                        Tmp(c, u, d) \in DOMAIN fs'
                 PROVE  /\ op'[u].kind = "copy"
                        /\ op'[u].pc \in {"opendir", "entries", "rename"} \/ op'[u].result \in Exceptions
                        /\ d = << >> => fs'[Tmp(c, u, d)].type = "folder"
                        /\ d # << >> /\ op'[u].pc \in {"opendir", "entries"} =>
                              op'[u].id \o d \in op'[u].done
      BY DEF TmpInv
    <2>1. CASE Tmp(c, u, d) = x
      BY <1>2, <1>3, <1>6, <2>1
    <2>2. CASE Tmp(c, u, d) \in DOMAIN fs /\ u = t
      <3>1. op[t].pc = "entries"
        BY <1>1, <2>2, NoTmp DEF ItemsIInv
      <3> QED
        BY <1>2, <1>6, <2>2, <3>1 DEF ItemsIInv, TmpInv
    <2>3. CASE Tmp(c, u, d) \in DOMAIN fs /\ u # t
      BY <1>2, <1>5, <2>3 DEF ItemsIInv, TmpInv
    <2> QED
      BY <1>2, <2>1, <2>2, <2>3
  <1>10. \A u \in Threads : CopyOK(u)'
    <2>1. \A u \in Threads \ {t} : x # TmpPath(u)
      <3>1. \A u \in Threads : op[u].parent \in Seq(Names) /\ TmpPath(u) = Tmp(op[u].parent, u, << >>)
        BY <1>1, TmpPathIs
      <3> QED
        BY <1>1, <1>3, <3>1
    <2> QED
      BY <1>2, <1>4, <2>1
  <1> QED
    BY <1>1, <1>2, <1>7, <1>8, <1>9, <1>10, TreeStepKeeps

\* A part of a path from its beginning.
LEMMA AncestorIs ==
    ASSUME NEW S, NEW a \in Seq(S), NEW n \in 1..Len(a)
    PROVE  /\ Ancestor(a, n) \in Seq(S) /\ Len(Ancestor(a, n)) = n /\ IsPrefix(Ancestor(a, n), a)
           /\ \A i \in 1..n : Ancestor(a, n)[i] = a[i]
  <1>1. Len(a) \in Nat /\ n \in Nat /\ n <= Len(a) /\ 1 <= n
    BY LenProperties
  <1>2. \A i \in 1..n : a[i] \in S
    BY <1>1, ElementOfSeq
  <1>3. /\ SubSeq(a, 1, n) \in Seq(S) /\ Len(SubSeq(a, 1, n)) = n
        /\ \A i \in 1..n : SubSeq(a, 1, n)[i] = a[i]
    BY <1>1, <1>2, SubSeqProperties
  <1>4. SubSeq(SubSeq(a, 1, n), 1, n) = SubSeq(a, 1, n)
    BY <1>3, SubSeqFull
  <1> QED
    BY <1>1, <1>3, <1>4 DEF Ancestor, IsPrefix

\* The folders on the way to a temporary folder are those on the way to the folder it is in.
LEMMA WayToTmp ==
    ASSUME OpsInv, NEW t \in Threads, NEW n \in 1..(Len(op[t].parent) + 1)
    PROVE  /\ n = Len(op[t].parent) + 1 => Ancestor(TmpPath(t), n) = TmpPath(t)
           /\ n # Len(op[t].parent) + 1 => /\ n \in 1..Len(op[t].parent)
                                           /\ Ancestor(TmpPath(t), n) = Ancestor(op[t].parent, n)
                                           /\ Ancestor(op[t].parent, n) \in Seq(Names)
                                           /\ Len(Ancestor(op[t].parent, n)) = n
                                           /\ IsPrefix(Ancestor(op[t].parent, n), op[t].parent)
                                           /\ Ancestor(TmpPath(t), n) # TmpPath(t)
  <1> DEFINE a == op[t].parent
             d == TmpPath(t)
  <1>1. a \in Seq(Names) /\ a \in Seq(AllNames) /\ t \in AllNames /\ Len(a) \in Nat
    BY PlainPath, LenProperties DEF OpsInv, OpOK, AllNames
  <1>2. /\ d \in Seq(AllNames) /\ Len(d) = Len(a) + 1
        /\ \A i \in 1..Len(a) : d[i] = a[i]
    BY <1>1, AppendProperties DEF TmpPath
  <1> HIDE DEF a, d
  <1>3. n \in 1..(Len(a) + 1)
    BY DEF a
  <1>4. ASSUME n = Len(a) + 1 PROVE Ancestor(d, n) = d
    BY <1>2, <1>4, SubSeqFull DEF Ancestor
  <1>5. ASSUME n # Len(a) + 1
        PROVE  /\ n \in 1..Len(a) /\ Ancestor(d, n) = Ancestor(a, n) /\ Ancestor(a, n) \in Seq(Names)
               /\ Len(Ancestor(a, n)) = n /\ IsPrefix(Ancestor(a, n), a) /\ Ancestor(d, n) # d
    <2>1. n \in 1..Len(a) /\ n \in 1..Len(d) /\ n \in Nat
      BY <1>1, <1>2, <1>3, <1>5
    <2>2. /\ Ancestor(a, n) \in Seq(Names) /\ Len(Ancestor(a, n)) = n /\ IsPrefix(Ancestor(a, n), a)
          /\ \A i \in 1..n : Ancestor(a, n)[i] = a[i]
      BY <1>1, <2>1, AncestorIs
    <2>3. /\ Ancestor(d, n) \in Seq(AllNames) /\ Len(Ancestor(d, n)) = n
          /\ \A i \in 1..n : Ancestor(d, n)[i] = d[i]
      BY <1>2, <2>1, AncestorIs
    <2>4. Ancestor(a, n) \in Seq(AllNames)
      BY <2>2, PlainPath
    <2>5. \A i \in 1..n : Ancestor(d, n)[i] = Ancestor(a, n)[i]
      BY <1>1, <1>2, <2>1, <2>2, <2>3
    <2>6. Ancestor(d, n) = Ancestor(a, n)
      BY <2>2, <2>3, <2>4, <2>5, SeqEqual
    <2>7. Ancestor(d, n) # d
      BY <1>1, <1>2, <2>1, <2>3
    <2> QED
      BY <2>1, <2>2, <2>6, <2>7
  <1> QED
    BY <1>4, <1>5 DEF a, d

\* create_directories() puts back a folder on the way.
LEMMA WayNew ==
    ASSUME ItemsIInv, NEW t \in Threads, OpsInv', Follows(t), NEW x \in Seq(Names),
           x \notin DOMAIN fs, fs' = Put(fs, x, Folder),
           op[t].kind = "copy", op[t].pc = "mkdir", op'[t].pc = "mkdir",
           \A u \in Threads \ {t} : PutBack(u, x)'
    PROVE  ItemsIInv'
  <1>1. op'[t].made = "none" /\ Folder.type = "folder" /\ Folder.data \notin Threads
    BY ArgumentsAssumption DEF OpsInv, OpOK, Folder
  <1>2. /\ DOMAIN fs' = DOMAIN fs \cup {x} /\ fs'[x] = Folder
        /\ \A q \in DOMAIN fs : fs'[q] = fs[q]
        /\ \A u \in Threads \ {t} : Stands(u) => Stands(u)'
        /\ \A u \in Threads \ {t} :
              (x \in Seq(Names) => PutBack(u, x)') /\ x # TmpPath(u) => CopyOK(u)'
    <2>1. PICK node : node = Folder
      OBVIOUS
    <2> QED
      BY <2>1, NewEntry
  <1>3. \A u \in Threads : \A a, b \in Seq(Names) : Tmp(a, u, b) # x
    <2>1. \A b \in Seq(Names) : b \in Seq(AllNames)
      BY PlainPath
    <2> QED
      BY <2>1, TmpNotPlain
  <1>4. \A u \in Threads \ {t} : op'[u] = op[u]
    BY DEF Follows
  <1>5. TreeInv'
    BY <1>1, <1>2 DEF ItemsIInv, TreeInv
  <1>6. OneTmp'
    BY <1>2, <1>3 DEF ItemsIInv, OneTmp
  <1>7. TmpInv'
    <2>1. \A a, b \in Seq(Names) : Tmp(a, t, b) \notin DOMAIN fs
      BY NoTmp DEF ItemsIInv
    <2> QED
      BY <1>2, <1>3, <1>4, <2>1 DEF ItemsIInv, TmpInv
  <1>8. ASSUME NEW u \in Threads PROVE CopyOK(u)'
    <2>1. CASE u = t
      BY <2>1 DEF CopyOK
    <2>2. CASE u # t
      <3>1. x # TmpPath(u)
        <4>1. /\ op[u].parent \in Seq(Names) /\ << >> \in Seq(Names)
              /\ TmpPath(u) = Tmp(op[u].parent, u, << >>)
          BY TmpPathIs DEF ItemsIInv
        <4> QED
          BY <1>3, <4>1
      <3> QED
        BY <1>2, <2>2, <3>1
    <2> QED
      BY <2>1, <2>2
  <1> QED
    BY <1>1, <1>2, <1>5, <1>6, <1>7, <1>8, TreeStepKeeps

\* What a mkdir() of create_directories() does: nothing to the tree, or a folder on the
\* way, or the temporary one, where nothing was.
LEMMA MakeDirectoryCases ==
    ASSUME ItemsIInv, NEW t \in Threads, MakeDirectory(t)
    PROVE  \/ Quiet(t)
           \/ /\ SameBut(t, {"pc", "next"}) /\ OpsInv' /\ Follows(t)
              /\ op[t].kind = "copy" /\ op[t].pc = "mkdir" /\ op'[t].pc = "mkdir"
              /\ \E n \in 1..Len(op[t].parent), x \in Seq(Names) :
                    /\ x = Ancestor(op[t].parent, n)
                    /\ x \notin DOMAIN fs /\ fs' = Put(fs, x, Folder)
                    /\ \A u \in Threads \ {t} : PutBack(u, x)'
           \/ /\ SameBut(t, {"pc", "next"}) /\ OpsInv' /\ Follows(t)
              /\ op[t].kind = "copy" /\ op[t].pc = "mkdir" /\ op'[t].pc = "opendir"
              /\ op'[t].done = {} /\ op[t].done = {}
              /\ TmpPath(t) \notin DOMAIN fs /\ fs' = Put(fs, TmpPath(t), Folder)
  <1> DEFINE n == op[t].next
             p == Ancestor(TmpPath(t), n)
             errno == CreateDirectoryErrno(fs, p)
             pc == IF p = TmpPath(t) THEN "opendir" ELSE "mkdir"
  <1>1. /\ OpsInv /\ op[t].kind = "copy" /\ op[t].pc = "mkdir" /\ op[t].made = "none"
        /\ n \in 1..(Len(op[t].parent) + 1) /\ op[t].first <= n /\ n \in Nat
    BY DEF ItemsIInv, MakeDirectory, At, OpsInv, OpOK
  <1>2. \/ Finish(t, FsException(errno)) /\ fs' = fs
        \/ /\ op' = [op EXCEPT ![t].pc = pc, ![t].next = n + 1]
           /\ fs' = IF p \in DOMAIN fs THEN fs ELSE Put(fs, p, Folder)
    BY DEF MakeDirectory, Exists
  <1>3. CASE Finish(t, FsException(errno)) /\ fs' = fs
    <2> HIDE DEF errno
    <2> QED
      BY <1>1, <1>3, QuietFinish
  <1>4. CASE /\ op' = [op EXCEPT ![t].pc = pc, ![t].next = n + 1]
             /\ fs' = IF p \in DOMAIN fs THEN fs ELSE Put(fs, p, Folder)
    <2> HIDE DEF errno
    <2>1. /\ n = Len(op[t].parent) + 1 => p = TmpPath(t)
          /\ n # Len(op[t].parent) + 1 => /\ n \in 1..Len(op[t].parent)
                                          /\ p = Ancestor(op[t].parent, n)
                                          /\ p \in Seq(Names) /\ Len(p) = n
                                          /\ IsPrefix(p, op[t].parent)
                                          /\ p # TmpPath(t)
      <3> HIDE DEF n
      <3> QED
        BY <1>1, WayToTmp
    <2>2. Len(op[t].parent) \in Nat
      BY <1>1, TmpLength
    <2> HIDE DEF p
    <2>3. SameBut(t, {"pc", "next"}) /\ op'[t].pc = pc /\ op'[t].next = n + 1
      BY <1>1, <1>4 DEF OpsInv, OpOK, OpFields, SameBut
    <2>4. /\ op'[t].made = "none" /\ op'[t].kind = "copy" /\ op'[t].parent = op[t].parent
          /\ op'[t].first = op[t].first /\ op[t].first \in Nat
          /\ op'[t].done = op[t].done /\ op[t].done = {}
      BY <1>1, <2>3 DEF OpsInv, OpOK, SameBut, OpFields, Early
    <2>5. OpOK(op'[t])
      <3>1. op'[t].pc = "mkdir" => n + 1 \in 1..(Len(op[t].parent) + 1)
        BY <1>1, <2>1, <2>2, <2>3
      <3>2. op[t].first <= n + 1 /\ n + 1 \in Nat
        BY <1>1, <2>4
      <3> QED
        BY <1>1, <2>3, <2>4, <3>1, <3>2 DEF OpsInv, OpOK, SameBut, OpFields, Early
    <2>6. OpsInv' /\ Follows(t)
      <3>1. WayKept(t)
        BY <1>1, <2>3, <2>4 DEF WayKept
      <3> QED
        BY <1>1, <2>3, <2>5, <3>1, OpKept DEF Begun
    <2>7. \A c, d \in Seq(Names) : Tmp(c, t, d) \notin DOMAIN fs
      BY <1>1, NoTmp DEF ItemsIInv
    <2>8. TmpPath(t) \notin DOMAIN fs
      BY <1>1, <2>7, TmpPathIs
    <2>9. CASE p = TmpPath(t)
      BY <1>1, <1>4, <2>3, <2>4, <2>6, <2>8, <2>9
    <2>10. CASE p # TmpPath(t) /\ p \in DOMAIN fs
      BY <1>1, <1>4, <2>3, <2>4, <2>6, <2>10 DEF Quiet
    <2>11. CASE p # TmpPath(t) /\ p \notin DOMAIN fs
      <3>1. PICK x \in Seq(Names) : x = p
        BY <2>1, <2>11
      <3>2. n \in 1..Len(op[t].parent) /\ x = Ancestor(op[t].parent, n)
        BY <2>1, <2>11, <3>1
      <3>3. ASSUME NEW u \in Threads \ {t} PROVE PutBack(u, x)'
        <4>1. PICK m : m = n
          OBVIOUS
        <4>2. m \in (op'[t].first)..(op'[t].next - 1)
          BY <1>1, <2>3, <2>4, <4>1
        <4>3. TmpPath(t)' = TmpPath(t)
          BY <2>4 DEF TmpPath
        <4>4. x = Ancestor(TmpPath(t)', m)
          BY <3>1, <4>1, <4>3 DEF p
        <4> QED
          BY <4>2, <4>4 DEF PutBack
      <3>4. fs' = Put(fs, x, Folder) /\ op'[t].pc = "mkdir" /\ x \notin DOMAIN fs
        BY <1>4, <2>3, <2>11, <3>1
      <3> HIDE DEF n
      <3> QED
        BY <1>1, <2>3, <2>6, <3>2, <3>3, <3>4
    <2> QED
      BY <2>9, <2>10, <2>11
  <1> QED
    BY <1>2, <1>3, <1>4

\* It puts folders where nothing was.
LEMMA MakeDirectoryTree ==
    ASSUME ItemsIInv, NEW t \in Threads, MakeDirectory(t)
    PROVE  fs' = fs \/ \E x : fs' = Put(fs, x, Folder) /\ x \notin DOMAIN fs
  BY DEF MakeDirectory, Exists

\* copy() makes its temporary folder, and those on the way that have gone.
LEMMA MakeDirectoryKeeps ==
    ASSUME ItemsIInv, NEW t \in Threads, MakeDirectory(t)
    PROVE  ItemsIInv'
  <1>1. CASE Quiet(t)
    BY <1>1, QuietKeeps
  <1>2. CASE /\ OpsInv' /\ Follows(t)
             /\ op[t].kind = "copy" /\ op[t].pc = "mkdir" /\ op'[t].pc = "mkdir"
             /\ \E n \in 1..Len(op[t].parent), x \in Seq(Names) :
                   /\ x = Ancestor(op[t].parent, n)
                   /\ x \notin DOMAIN fs /\ fs' = Put(fs, x, Folder)
                   /\ \A u \in Threads \ {t} : PutBack(u, x)'
    <2>1. PICK x \in Seq(Names) : /\ x \notin DOMAIN fs /\ fs' = Put(fs, x, Folder)
                                  /\ \A u \in Threads \ {t} : PutBack(u, x)'
      BY <1>2
    <2> QED
      BY <1>2, <2>1, WayNew
  <1>3. CASE /\ OpsInv' /\ Follows(t)
             /\ op[t].kind = "copy" /\ op[t].pc = "mkdir" /\ op'[t].pc = "opendir"
             /\ op'[t].done = {} /\ op[t].done = {}
             /\ TmpPath(t) \notin DOMAIN fs /\ fs' = Put(fs, TmpPath(t), Folder)
    <2>1. /\ op[t].parent \in Seq(Names) /\ << >> \in Seq(Names)
          /\ TmpPath(t) = Tmp(op[t].parent, t, << >>)
      BY TmpPathIs DEF ItemsIInv
    <2>2. \A c, d \in Seq(Names) : Tmp(c, t, d) \notin DOMAIN fs
      BY <1>3, NoTmp DEF ItemsIInv
    <2>3. Folder.type = "folder" /\ Folder.data \notin Threads
      BY ArgumentsAssumption DEF Folder
    <2>4. CopyOK(t)'
      BY <1>3 DEF CopyOK
    <2>5. PICK x : x = TmpPath(t)
      OBVIOUS
    <2>6. x = Tmp(op[t].parent, t, << >>) /\ x \notin DOMAIN fs /\ fs' = Put(fs, x, Folder)
      BY <1>3, <2>1, <2>5
    <2> QED
      BY <1>3, <2>1, <2>2, <2>3, <2>4, <2>6, TmpNew
  <1> QED
    BY <1>1, <1>2, <1>3, MakeDirectoryCases

\* The folder of an entry in a temporary folder.
LEMMA FrontSeq ==
    ASSUME NEW S, NEW s \in Seq(S), s # << >>
    PROVE  /\ Front(s) \in Seq(S) /\ Len(s) \in Nat /\ Len(s) >= 1 /\ Len(Front(s)) = Len(s) - 1
           /\ \A i \in 1..(Len(s) - 1) : Front(s)[i] = s[i]
  <1>1. Len(s) \in Nat /\ Len(s) >= 1
    BY LenProperties, EmptySeq
  <1> DEFINE n == Len(s) - 1
  <1>2. n \in Nat /\ Front(s) = SubSeq(s, 1, n)
    BY <1>1 DEF Front
  <1>3. \A i \in 1..n : s[i] \in S
    BY <1>1, ElementOfSeq
  <1>5. n <= Len(s)
    BY <1>1
  <1> HIDE DEF n
  <1>4. SubSeq(s, 1, n) \in Seq(S) /\ Len(SubSeq(s, 1, n)) = n /\ \A i \in 1..n : SubSeq(s, 1, n)[i] = s[i]
    <2>1. CASE n = 0
      BY <2>1, <1>2, SubSeqEmpty, EmptySeq
    <2>2. CASE n # 0
      BY <2>2, <1>2, <1>3, <1>5, SubSeqProperties
    <2> QED
      BY <2>1, <2>2
  <1> QED
    BY <1>1, <1>2, <1>4 DEF n

\* The folder that a path in a temporary folder is in.
LEMMA FrontTmp ==
    ASSUME NEW a \in Seq(Names), NEW t \in Threads, NEW b \in Seq(Names), b # << >>
    PROVE  Front(b) \in Seq(Names) /\ Front(Tmp(a, t, b)) = Tmp(a, t, Front(b))
  <1> DEFINE q == Tmp(a, t, b)
             c == Front(b)
             d == Tmp(a, t, c)
             f == Front(q)
  <1>1. /\ c \in Seq(Names) /\ Len(b) \in Nat /\ Len(b) >= 1 /\ Len(c) = Len(b) - 1
        /\ \A i \in 1..(Len(b) - 1) : c[i] = b[i]
    BY FrontSeq
  <1> HIDE DEF c
  <1>2. b \in Seq(AllNames) /\ c \in Seq(AllNames)
    BY <1>1, PlainPath
  <1>3. TmpShape(q, a, t, b) /\ TmpShape(d, a, t, c) /\ q \in Seq(AllNames) /\ d \in Seq(AllNames)
    BY <1>1, <1>2, TmpShapes, TmpFacts
  <1> HIDE DEF q, d
  <1>4. q # << >>
    <2>1. Len(q) >= 1
      BY <1>3 DEF TmpShape
    <2> QED
      BY <2>1
  <1>5. f \in Seq(AllNames) /\ Len(f) = Len(q) - 1 /\ \A i \in 1..(Len(q) - 1) : f[i] = q[i]
    BY <1>3, <1>4, FrontSeq
  <1> HIDE DEF f
  <1>6. Len(f) = Len(d) /\ Len(f) = Len(a) + Len(b) /\ Len(a) \in Nat
    BY <1>1, <1>3, <1>5 DEF TmpShape
  <1>7. ASSUME NEW i \in 1..Len(f) PROVE f[i] = d[i]
    <2>1. f[i] = q[i]
      BY <1>5
    <2>2. CASE i \in 1..Len(a)
      BY <2>1, <2>2, <1>3 DEF TmpShape
    <2>3. CASE i = Len(a) + 1
      BY <2>1, <2>3, <1>3 DEF TmpShape
    <2>4. CASE i > Len(a) + 1
      <3> DEFINE j == i - Len(a) - 1
      <3>1. j \in 1..Len(b) /\ j \in 1..Len(c) /\ j \in 1..(Len(b) - 1) /\ Len(a) + 1 + j = i
        BY <2>4, <1>1, <1>6
      <3> HIDE DEF j
      <3>2. q[i] = b[j] /\ d[i] = c[j]
        BY <3>1, <1>3 DEF TmpShape
      <3> QED
        BY <2>1, <3>1, <3>2, <1>1
    <2> QED
      BY <2>2, <2>3, <2>4, <1>6
  <1>8. f = d
    BY <1>3, <1>5, <1>6, <1>7, SeqEqual
  <1> QED
    BY <1>1, <1>8 DEF c, d, f, q

\* Where copy() puts an entry that it has not copied yet: nothing is there.
CopiesInto(t, p, b, q) ==
    /\ p \in DOMAIN fs /\ p \in Seq(Names) /\ IsPrefix(op[t].id, p) /\ p # op[t].id
    /\ b \in Seq(Names) /\ p = op[t].id \o b /\ b # << >>
    /\ op[t].parent \in Seq(Names) /\ << >> \in Seq(Names)
    /\ TmpPath(t) = Tmp(op[t].parent, t, << >>) /\ q = Tmp(op[t].parent, t, b)
    /\ q \notin DOMAIN fs

\* Where the next entry of copy() goes to.
LEMMA CopyEntryPath ==
    ASSUME ItemsIInv, NEW t \in Threads, NEW p \in Copyable(op[t].id) \ op[t].done,
           op[t].kind = "copy", op[t].pc = "entries", NEW b, NEW q,
           b = SubSeq(p, Len(op[t].id) + 1, Len(p)), q = TmpPath(t) \o b
    PROVE  CopiesInto(t, p, b, q)
  <1>1. OpsInv /\ TreeInv
    BY DEF ItemsIInv
  <1>2. p \in DOMAIN fs /\ p \in Seq(Names) /\ IsPrefix(op[t].id, p) /\ p # op[t].id
    BY <1>1, CopyableIsPlain
  <1>3. op[t].id \in Seq(Names)
    BY <1>1 DEF OpsInv, OpOK
  <1>4. b \in Seq(Names) /\ p = op[t].id \o b
    <2>1. PICK id : id = op[t].id
      OBVIOUS
    <2>2. id \in Seq(Names) /\ IsPrefix(id, p)
      BY <1>2, <1>3, <2>1
    <2>3. /\ SubSeq(p, Len(id) + 1, Len(p)) \in Seq(Names)
          /\ p = id \o SubSeq(p, Len(id) + 1, Len(p))
      BY <1>2, <2>2, PrefixSplit
    <2> QED
      BY <2>1, <2>3
  <1>5. b # << >>
    BY <1>2, <1>3, <1>4, ConcatEmptySeq
  <1>6. /\ op[t].parent \in Seq(Names) /\ << >> \in Seq(Names)
        /\ TmpPath(t) = Tmp(op[t].parent, t, << >>)
        /\ q = Tmp(op[t].parent, t, b)
    BY <1>1, TmpPathIs DEF TmpPath, Tmp
  <1>7. q \notin DOMAIN fs
    BY <1>1, <1>4, <1>5, <1>6 DEF ItemsIInv, TmpInv
  <1> QED
    BY <1>2, <1>4, <1>5, <1>6, <1>7 DEF CopiesInto

\* An entry that is copied into the temporary folder.
LEMMA CopyEntryNew ==
    ASSUME ItemsIInv, NEW t \in Threads, NEW p \in Copyable(op[t].id) \ op[t].done,
           op[t].kind = "copy", op[t].pc = "entries", NEW b, NEW q, NEW node,
           b = SubSeq(p, Len(op[t].id) + 1, Len(p)), q = TmpPath(t) \o b,
           ParentErrno(fs, q) = "ok", op' = [op EXCEPT ![t].done = @ \cup {p}],
           node = IF fs[p].type = "file" THEN File(Read(fs[p].data)) ELSE Folder,
           fs' = Put(fs, q, node)
    PROVE  ItemsIInv'
  <1>1. OpsInv /\ TreeInv /\ op[t].kind = "copy" /\ op[t].pc = "entries" /\ op[t].made = "none"
    BY NothingMade DEF ItemsIInv
  <1>2. /\ p \in DOMAIN fs /\ p \in Seq(Names) /\ IsPrefix(op[t].id, p) /\ p # op[t].id
        /\ b \in Seq(Names) /\ p = op[t].id \o b /\ b # << >>
        /\ op[t].parent \in Seq(Names) /\ << >> \in Seq(Names)
        /\ TmpPath(t) = Tmp(op[t].parent, t, << >>) /\ q = Tmp(op[t].parent, t, b)
        /\ q \notin DOMAIN fs
    <2>1. CopiesInto(t, p, b, q)
      BY CopyEntryPath
    <2> QED
      BY <2>1 DEF CopiesInto
  <1>4. b \in Seq(Names) /\ p = op[t].id \o b
    BY <1>2
  <1>5. b # << >>
    BY <1>2
  <1>6. /\ op[t].parent \in Seq(Names) /\ << >> \in Seq(Names)
        /\ TmpPath(t) = Tmp(op[t].parent, t, << >>)
        /\ q = Tmp(op[t].parent, t, b)
    BY <1>2
  <1>7. q \notin DOMAIN fs
    BY <1>2
  <1>8. \A c, d \in Seq(Names) : Tmp(c, t, d) \in DOMAIN fs => c = op[t].parent
    <2>1. Front(b) \in Seq(Names) /\ Front(q) = Tmp(op[t].parent, t, Front(b))
      <3>1. /\ Front(b) \in Seq(Names)
            /\ Front(Tmp(op[t].parent, t, b)) = Tmp(op[t].parent, t, Front(b))
        BY <1>4, <1>5, <1>6, FrontTmp
      <3> QED
        BY <1>6, <3>1
    <2>2. Front(q) \in DOMAIN fs
      BY DEF ParentErrno, Exists
    <2> QED
      BY <1>6, <2>1, <2>2 DEF ItemsIInv, OneTmp
  <1>9. node.type \in {"file", "folder"} /\ node.data \notin Threads
    BY ArgumentsAssumption DEF File, Folder, Read
  <1>10. /\ SameBut(t, {"done"}) /\ op'[t].done = op[t].done \cup {p}
         /\ OpsInv' /\ Follows(t)
    BY <1>1, <1>2, DoneOp
  <1>11. /\ op'[t].pc = "entries" /\ op'[t].parent = op[t].parent /\ op'[t].id = op[t].id
         /\ op'[t].kind = "copy"
    BY <1>1, <1>10 DEF SameBut, OpFields
  <1>12. DOMAIN fs' = DOMAIN fs \cup {q} /\ \A x \in DOMAIN fs : fs'[x] = fs[x]
    BY <1>7 DEF Put
  <1>13. CopyOK(t)'
    <2>1. TmpPath(t)' = TmpPath(t) /\ \A x : CopiedTo(t, x)' = CopiedTo(t, x)
      BY <1>11 DEF TmpPath, CopiedTo
    <2>2. q # TmpPath(t)
      <3>1. Tmp(op[t].parent, t, b) # Tmp(op[t].parent, t, << >>)
        BY <1>4, <1>5, <1>6, TmpInside
      <3> QED
        BY <1>6, <3>1
    <2>3. CopiedTo(t, p) = q
      BY <1>6 DEF CopiedTo
    <2>4. \A x \in op[t].done : x # q
      <3>1. \A x \in op[t].done : x \in Seq(Names)
        BY <1>1 DEF OpsInv, OpOK
      <3>2. b \in Seq(AllNames)
        BY <1>4, PlainPath
      <3>3. q \notin Seq(Names)
        BY <1>6, <3>2, TmpNotPlain
      <3> QED
        BY <3>1, <3>3
    <2>5. CopyOK(t) /\ op[t].pc # "idle"
      BY <1>1 DEF ItemsIInv, CopyInv
    <2>6. (TargetDisturbed(t) => TargetDisturbed(t)') /\ \A x : PutBack(t, x) => PutBack(t, x)'
      BY <1>1, <1>10, Monotone
    <2> SUFFICES ASSUME TmpPath(t) \in DOMAIN fs', NEW x \in op'[t].done, x \in DOMAIN fs',
                        fs'[x].type # "odd"
                 PROVE  CopiedTo(t, x) \in DOMAIN fs' \/ PutBack(t, x)' \/ TargetDisturbed(t)'
      BY <1>11, <2>1 DEF CopyOK, Exists
    <2>7. CASE x = p
      BY <1>12, <2>3, <2>7
    <2>8. CASE x \in op[t].done
      <3>1. x \in DOMAIN fs /\ fs[x].type # "odd" /\ TmpPath(t) \in DOMAIN fs
        BY <1>12, <2>2, <2>4, <2>8
      <3>2. CopiedTo(t, x) \in DOMAIN fs \/ PutBack(t, x) \/ TargetDisturbed(t)
        BY <1>1, <2>5, <2>8, <3>1 DEF CopyOK, Exists
      <3> QED
        BY <1>12, <2>6, <3>2
    <2> QED
      BY <1>10, <2>7, <2>8
  <1>14. op[t].id \o b \in op'[t].done
    BY <1>4, <1>10
  <1> QED
    BY <1>1, <1>4, <1>5, <1>6, <1>7, <1>8, <1>9, <1>10, <1>11, <1>13, <1>14, TmpNew

\* One entry of copy(): copied, passed over, or the copy fails.
LEMMA CopyEntryKeeps ==
    ASSUME ItemsIInv, NEW t \in Threads, CopyEntry(t)
    PROVE  ItemsIInv'
  <1>1. OpsInv /\ TreeInv /\ op[t].kind = "copy" /\ op[t].pc = "entries"
    BY DEF ItemsIInv, CopyEntry, At
  <1>2. CASE Quiet(t)
    BY <1>2, QuietKeeps
  <1>3. CASE ~ Quiet(t)
    <2>1. PICK p \in Copyable(op[t].id) \ op[t].done :
             LET q == TmpPath(t) \o SubSeq(p, Len(op[t].id) + 1, Len(p))
             IN  /\ ParentErrno(fs, q) = "ok"
                 /\ op' = [op EXCEPT ![t].done = @ \cup {p}]
                 /\ fs' = Put(fs, q, IF fs[p].type = "file" THEN File(Read(fs[p].data))
                                     ELSE Folder)
      BY <1>1, <1>3, QuietCopyEntry
    <2>2. PICK b : b = SubSeq(p, Len(op[t].id) + 1, Len(p))
      OBVIOUS
    <2>3. PICK q : q = TmpPath(t) \o b
      OBVIOUS
    <2>4. PICK node : node = IF fs[p].type = "file" THEN File(Read(fs[p].data)) ELSE Folder
      OBVIOUS
    <2>5. /\ ParentErrno(fs, q) = "ok" /\ op' = [op EXCEPT ![t].done = @ \cup {p}]
          /\ fs' = Put(fs, q, node)
      BY <2>1, <2>2, <2>3, <2>4
    <2> QED
      BY <1>1, <2>2, <2>3, <2>4, <2>5, CopyEntryNew
  <1> QED
    BY <1>2, <1>3

\* What copying an entry does to the tree.
LEMMA CopyEntryTree ==
    ASSUME ItemsIInv, NEW t \in Threads, CopyEntry(t)
    PROVE  fs' = fs \/ \E b \in Seq(Names) : \E q, node :
                          q = Tmp(op[t].parent, t, b) /\ q \notin DOMAIN fs /\ fs' = Put(fs, q, node)
  <1>1. OpsInv /\ TreeInv /\ op[t].kind = "copy" /\ op[t].pc = "entries"
    BY DEF ItemsIInv, CopyEntry, At
  <1>2. CASE Quiet(t)
    BY <1>2 DEF Quiet
  <1>3. CASE ~ Quiet(t)
    <2>1. PICK p \in Copyable(op[t].id) \ op[t].done :
             LET q == TmpPath(t) \o SubSeq(p, Len(op[t].id) + 1, Len(p))
             IN  /\ ParentErrno(fs, q) = "ok"
                 /\ op' = [op EXCEPT ![t].done = @ \cup {p}]
                 /\ fs' = Put(fs, q, IF fs[p].type = "file" THEN File(Read(fs[p].data))
                                     ELSE Folder)
      BY <1>1, <1>3, QuietCopyEntry
    <2>2. PICK b : b = SubSeq(p, Len(op[t].id) + 1, Len(p))
      OBVIOUS
    <2>3. PICK q : q = TmpPath(t) \o b
      OBVIOUS
    <2>4. b \in Seq(Names) /\ q = Tmp(op[t].parent, t, b) /\ q \notin DOMAIN fs
      <3>1. CopiesInto(t, p, b, q)
        BY <1>1, <2>2, <2>3, CopyEntryPath
      <3> QED
        BY <3>1 DEF CopiesInto
    <2>5. \E node : fs' = Put(fs, q, node)
      BY <2>1, <2>2, <2>3
    <2> QED
      BY <2>4, <2>5
  <1> QED
    BY <1>2, <1>3

\* copy_file() has written the file, or the disk is full.
LEMMA CopyFileWriteKeeps ==
    ASSUME ItemsIInv, NEW t \in Threads, CopyFileWrite(t)
    PROVE  ItemsIInv'
  <1>1. OpsInv /\ op[t].kind = "copy" /\ op[t].pc = "write" /\ op[t].made = "file"
    BY DEF ItemsIInv, CopyFileWrite, At, OpsInv, OpOK
  <1>2. PICK data : fs' = Written(t, data)
    BY DEF CopyFileWrite
  <1>3. Goto(t, "status") \/ Finish(t, "Quota")
    BY DEF CopyFileWrite, FsException
  <1>4. DOMAIN fs' = DOMAIN fs /\ \A p \in DOMAIN fs : fs'[p] = IF fs[p].data = t THEN File(data) ELSE fs[p]
    BY <1>2 DEF Written
  <1>5. ASSUME NEW p \in DOMAIN fs PROVE fs'[p].type = fs[p].type /\ (fs'[p].data \in Threads => fs'[p].type = "file")
    <2>1. fs[p].data \in Threads => fs[p].type = "file"
      BY DEF ItemsIInv, TreeInv
    <2>2. File(data).type = "file"
      BY DEF File
    <2>3. CASE fs[p].data = t
      BY <1>4, <2>1, <2>2, <2>3
    <2>4. CASE fs[p].data # t
      BY <1>4, <2>1, <2>4
    <2> QED
      BY <2>3, <2>4
  <1>6. OpsInv' /\ Follows(t)
    BY <1>1, <1>3, GotoKeeps, FinishKeeps
  <1>7. /\ op'[t].pc \in {"status", "done"} /\ op'[t].made = "file"
        /\ op'[t].pc = "done" => op'[t].result = "Quota"
    <2>1. SameBut(t, {"pc", "result"})
      BY <1>1, <1>3, GotoOp, FinishOp DEF SameBut
    <2> QED
      BY <1>1, <1>3, <2>1, GotoOp, FinishOp DEF SameBut, OpFields
  <1>8. \A u \in Threads \ {t} : op'[u] = op[u]
    BY <1>6 DEF Follows
  <1>9. TreeInv' /\ OneTmp'
    BY <1>4, <1>5 DEF ItemsIInv, TreeInv, OneTmp
  <1>10. TmpInv'
    <2>1. \A a, b \in Seq(Names) : Tmp(a, t, b) \notin DOMAIN fs
      BY <1>1, NoTmp DEF ItemsIInv
    <2> QED
      BY <1>4, <1>5, <1>8, <2>1 DEF ItemsIInv, TmpInv
  <1>11. Target(op'[t]) = Target(op[t]) /\ (Interfered(t) => Interfered(t)')
    BY <1>1, <1>6, Monotone
  <1>12. ASSUME NEW u \in Threads, Stands(u), op'[u].pc # "item" \/ u # t PROVE Stands(u)'
    <2>1. Target(op'[u]) = Target(op[u]) /\ op'[u].made = op[u].made
      BY <1>1, <1>6, <1>7, <1>8, Monotone
    <2> QED
      BY <1>4, <1>5, <1>8, <1>12, <2>1 DEF Stands, Exists
  <1>13. ASSUME NEW u \in Threads PROVE CopyOK(u)'
    <2>1. CASE u = t
      BY <1>7, <2>1 DEF CopyOK
    <2>2. CASE u # t
      <3>1. op'[u] = op[u] /\ TmpPath(u)' = TmpPath(u) /\ \A p : CopiedTo(u, p)' = CopiedTo(u, p)
        BY <1>8, <2>2 DEF TmpPath, CopiedTo
      <3>2. /\ op[u].pc # "idle" /\ TargetDisturbed(u) => TargetDisturbed(u)'
            /\ \A p : PutBack(u, p) => PutBack(u, p)'
        BY <1>1, <1>6, Monotone
      <3>3. CopyOK(u)
        BY DEF ItemsIInv, CopyInv
      <3> QED
        BY <1>4, <1>5, <3>1, <3>2, <3>3 DEF CopyOK, Exists
    <2> QED
      BY <2>1, <2>2
  <1>14. Interfered(t) \/ Stands(t)
    BY <1>1 DEF ItemsIInv, MadeInv
  <1>15. op'[t].pc = "status" => op'[t].result = "none"
    BY <1>6 DEF OpsInv, OpOK
  <1> QED
    BY <1>1, <1>6, <1>7, <1>9, <1>10, <1>11, <1>12, <1>13, <1>14, <1>15, TreeStepKeeps DEF Exceptions

\* remove_all() removes one entry, and the call ends after the last.
LEMMA RemoveEntryKeeps ==
    ASSUME ItemsIInv, NEW t \in Threads, RemoveEntry(t)
    PROVE  ItemsIInv'
  <1>1. OpsInv /\ op[t].kind = "delete_item" /\ op[t].pc = "remove" /\ op[t].made = "none"
    BY NothingMade DEF ItemsIInv, RemoveEntry, At
  <1>2. PICK x \in {op[t].id} \cup Below(fs, op[t].id) :
           /\ x \in DOMAIN fs /\ fs' = Drop(fs, x)
           /\ IF x = op[t].id THEN Finish(t, "ok") ELSE UNCHANGED op
    BY DEF RemoveEntry, Exists
  <1>3. op[t].id \in Seq(Names) /\ IsPrefix(op[t].id, x)
    <2>1. op[t].id \in Seq(Names)
      BY <1>1 DEF OpsInv, OpOK
    <2>2. IsPrefix(op[t].id, op[t].id)
      BY <2>1 DEF IsPrefix
    <2> QED
      BY <2>1, <2>2, <1>2 DEF Below, IsStrictPrefix
  <1>4. OpsInv' /\ Follows(t) /\ op'[t].made = "none"
    <2>1. CASE UNCHANGED op
      <3>1. OpsInv'
        BY <1>1, <2>1 DEF OpsInv
      <3> QED
        BY <1>1, <2>1, <3>1 DEF Follows, Begun, OpsInv, OpOK, WayKept
    <2>2. CASE Finish(t, "ok")
      <3>1. SameBut(t, {"pc", "result"})
        BY <1>1, <2>2, FinishOp
      <3>2. OpsInv' /\ Follows(t)
        BY <1>1, <2>2, FinishKeeps
      <3> QED
        BY <1>1, <3>1, <3>2 DEF SameBut, OpFields
    <2> QED
      BY <1>2, <2>1, <2>2
  <1>5. /\ DOMAIN fs' = DOMAIN fs \ {x} /\ \A q \in DOMAIN fs : q # x => fs'[q] = fs[q]
    BY <1>2 DEF Drop
  <1>6. /\ \A u \in Threads \ {t} : op'[u] = op[u]
        /\ op'[t].kind = "delete_item" /\ op'[t].id = op[t].id /\ Begun(t)'
    BY <1>1, <1>4 DEF Follows, Begun
  <1>7. TreeInv' /\ OneTmp'
    BY <1>5 DEF ItemsIInv, TreeInv, OneTmp
  <1>8. TmpInv'
    <2>1. \A a, b \in Seq(Names) : Tmp(a, t, b) \notin DOMAIN fs
      BY <1>1, NoTmp DEF ItemsIInv
    <2> QED
      BY <1>5, <1>6, <2>1 DEF ItemsIInv, TmpInv
  <1>9. ASSUME NEW u \in Threads \ {t}, Stands(u) PROVE Stands(u)' \/ Interfered(u)'
    <2>1. CASE Target(op[u]) = x
      BY <1>3, <1>6, <2>1 DEF Interfered
    <2>2. CASE Target(op[u]) # x
      BY <1>5, <1>6, <1>9, <2>2 DEF Stands, Exists
    <2> QED
      BY <2>1, <2>2
  <1>10. ASSUME NEW u \in Threads PROVE CopyOK(u)'
    <2>1. CASE u = t
      BY <1>6, <2>1 DEF CopyOK
    <2>2. CASE u # t
      <3>1. op'[u] = op[u] /\ TmpPath(u)' = TmpPath(u) /\ \A p : CopiedTo(u, p)' = CopiedTo(u, p)
        BY <1>6, <2>2 DEF TmpPath, CopiedTo
      <3>2. /\ op[u].pc # "idle" /\ TargetDisturbed(u) => TargetDisturbed(u)'
            /\ \A p : PutBack(u, p) => PutBack(u, p)'
        BY <1>1, <1>4, Monotone
      <3>3. CopyOK(u)
        BY DEF ItemsIInv, CopyInv
      <3>4. ASSUME NEW p \in op[u].done, op[u].kind = "copy", CopiedTo(u, p) = x
            PROVE  TargetDisturbed(u)'
        <4>1. PICK b : b = SubSeq(p, Len(op[u].id) + 1, Len(p))
          OBVIOUS
        <4>2. OpOK(op[u]) /\ p \in Seq(Names) /\ IsPrefix(op[u].id, p)
          BY <1>1, <3>4 DEF OpsInv, OpOK
        <4>3. b \in Seq(Names) /\ op[u].parent \in Seq(Names)
          BY <4>1, <4>2, PrefixSplit DEF OpOK
        <4>4. IsPrefix(op[t].id, Tmp(op[u].parent, u, b))
          BY <1>3, <3>4, <4>1 DEF CopiedTo
        <4>5. IsPrefix(op[t].id, op[u].parent)
          BY <1>3, <4>3, <4>4, TmpPrefix
        <4>6. IsPrefix(op[t].id, Target(op[u]))
          BY <1>3, <4>2, <4>5, PrefixAppend DEF Target, OpOK
        <4> QED
          BY <1>6, <3>1, <4>6 DEF TargetDisturbed
      <3> QED
        BY <1>5, <3>1, <3>2, <3>3, <3>4 DEF CopyOK, Exists
    <2> QED
      BY <2>1, <2>2
  <1> QED
    BY <1>4, <1>7, <1>8, <1>9, <1>10, TreeStepKeeps

(***************************************************************************)
(* Renames.                                                                *)
(***************************************************************************)
LEMMA PathsAll ==
    ASSUME TreeInv
    PROVE  DOMAIN fs \subseteq Seq(AllNames)
  <1>1. \A b \in Seq(Names) : b \in Seq(AllNames)
    BY PlainPath
  <1>2. \A t \in Threads : \A a, b \in Seq(Names) : Tmp(a, t, b) \in Seq(AllNames)
    BY <1>1, TmpFacts
  <1> QED
    BY <1>1, <1>2 DEF TreeInv

\* What rename() asks of its two paths.
LEMMA RenameOK ==
    ASSUME NEW T, NEW s, NEW d, RenameErrno(T, s, d) = "ok"
    PROVE  /\ s \in DOMAIN T
           /\ IsDirectory(T, d) => IsDirectory(T, s)
           /\ IsDirectory(T, s) => TypeAt(T, d) \notin {"file", "odd"}
           /\ Below(T, d) = {} \/ d = s
  <1>1. s \in DOMAIN T
    BY DEF RenameErrno, Exists
  <1>2. ParentErrno(T, d) = "ok"
    BY <1>1 DEF RenameErrno, Exists
  <1> QED
    BY <1>1, <1>2 DEF RenameErrno, Exists

\* What is not moved stays, unless it is replaced: a folder by a folder, anything else by
\* what is no folder.
KeptOrReplaced(T, R, s, d, x) ==
    /\ x \in DOMAIN R
    /\ \/ R[x] = T[x]
       \/ x = d /\ R[x] = T[s] /\ (T[x].type = "folder" <=> T[s].type = "folder")

\* rename() keeps what it does not move, or puts a like entry in its place.
LEMMA RenamedOver ==
    ASSUME NEW T, DOMAIN T \subseteq Seq(AllNames), NEW s, NEW d \in Seq(AllNames),
           RenameErrno(T, s, d) = "ok",
           \A p \in DOMAIN T : T[p].type \in {"file", "folder", "odd"},
           NEW x \in DOMAIN T, ~ IsPrefix(s, x)
    PROVE  KeptOrReplaced(T, Rename(T, s, d), s, d, x)
  <1>1. /\ s \in DOMAIN T
        /\ IsDirectory(T, d) => IsDirectory(T, s)
        /\ IsDirectory(T, s) => TypeAt(T, d) \notin {"file", "odd"}
        /\ Below(T, d) = {} \/ d = s
    BY RenameOK
  <1>2. /\ \A q \in DOMAIN T : ~ IsPrefix(s, q) => q \in DOMAIN Rename(T, s, d)
        /\ \A q \in DOMAIN Rename(T, s, d) :
              \/ \E r \in Seq(AllNames) : /\ q = d \o r /\ s \o r \in DOMAIN T
                                          /\ Rename(T, s, d)[q] = T[s \o r]
              \/ q \in DOMAIN T /\ ~ IsPrefix(s, q) /\ Rename(T, s, d)[q] = T[q]
    BY <1>1, Renamed DEF RenamedTo
  <1>3. x \in DOMAIN Rename(T, s, d)
    BY <1>2
  <1>4. CASE Rename(T, s, d)[x] = T[x]
    BY <1>3, <1>4 DEF KeptOrReplaced
  <1>5. CASE Rename(T, s, d)[x] # T[x]
    <2>1. PICK r \in Seq(AllNames) : /\ x = d \o r /\ s \o r \in DOMAIN T
                                     /\ Rename(T, s, d)[x] = T[s \o r]
      BY <1>2, <1>3, <1>5
    <2>2. IsPrefix(d, x)
      BY <2>1, Joined
    <2>3. d = x
      <3>1. ASSUME d # x PROVE FALSE
        <4>1. x \in Below(T, d)
          BY <2>2, <3>1 DEF Below, IsStrictPrefix
        <4> QED
          BY <1>1, <2>2, <4>1
      <3> QED
        BY <3>1
    <2>4. r = << >>
      <3>1. << >> \in Seq(AllNames) /\ d \o << >> = d
        BY EmptySeq, ConcatEmptySeq
      <3>2. d \o r = d \o << >>
        BY <2>1, <2>3, <3>1
      <3> QED
        BY <3>1, <3>2, SameRest
    <2>5. Rename(T, s, d)[x] = T[s]
      <3>1. s \o << >> = s
        BY <1>1, ConcatEmptySeq
      <3> QED
        BY <2>1, <2>4, <3>1
    <2> QED
      BY <1>1, <1>3, <2>3, <2>5 DEF IsDirectory, TypeAt, Exists, KeptOrReplaced
  <1> QED
    BY <1>4, <1>5

\* A folder above the temporary folder is above what that holds.
LEMMA PrefixTmp ==
    ASSUME NEW s \in Seq(Names), NEW a \in Seq(Names), NEW t \in Threads, NEW b \in Seq(Names),
           IsPrefix(s, a)
    PROVE  IsPrefix(s, Tmp(a, t, b))
  <1> DEFINE c == SubSeq(a, Len(s) + 1, Len(a))
  <1>1. c \in Seq(Names) /\ a = s \o c
    BY PrefixSplit
  <1> HIDE DEF c
  <1>2. Tmp(a, t, b) = s \o Tmp(c, t, b)
    <2>0. c \in Seq(Names)
      BY <1>1
    <2>1. TmpMovesTo(s, c, t, b)
      BY <2>0, TmpBelow
    <2> QED
      BY <1>1, <2>1 DEF TmpMovesTo
  <1>3. s \in Seq(AllNames) /\ b \in Seq(AllNames)
    BY PlainPath
  <1>4. Tmp(c, t, b) \in Seq(AllNames)
    BY <1>1, <1>3, TmpFacts
  <1>5. IsPrefix(s, s \o Tmp(c, t, b))
    BY <1>3, <1>4, Joined
  <1> QED
    BY <1>2, <1>5

\* The move() of a folder takes all of a temporary folder along, or nothing.
MovedAlong(T, R, s, d, a, t, b) ==
    \E c \in Seq(Names) :
        a = d \o c /\ Tmp(s \o c, t, b) \in DOMAIN T /\ R[Tmp(a, t, b)] = T[Tmp(s \o c, t, b)]

LEMMA TmpMoved ==
    ASSUME NEW T, DOMAIN T \subseteq Seq(AllNames), NEW s \in Seq(Names), s \in DOMAIN T,
           NEW d \in Seq(Names), NEW a \in Seq(Names), NEW t \in Threads, NEW b \in Seq(Names),
           Tmp(a, t, b) \in DOMAIN Rename(T, s, d)
    PROVE  \/ MovedAlong(T, Rename(T, s, d), s, d, a, t, b)
           \/ /\ Tmp(a, t, b) \in DOMAIN T /\ ~ IsPrefix(s, a)
              /\ Rename(T, s, d)[Tmp(a, t, b)] = T[Tmp(a, t, b)]
  <1> DEFINE q == Tmp(a, t, b) R == Rename(T, s, d)
  <1>1. \/ \E r \in Seq(AllNames) : q = d \o r /\ s \o r \in DOMAIN T /\ R[q] = T[s \o r]
        \/ q \in DOMAIN T /\ ~ IsPrefix(s, q) /\ R[q] = T[q]
    <2>1. d \in Seq(AllNames)
      BY PlainPath
    <2> QED
      BY <2>1, Renamed DEF RenamedTo
  <1> HIDE DEF R
  <1>2. CASE \E r \in Seq(AllNames) : q = d \o r /\ s \o r \in DOMAIN T /\ R[q] = T[s \o r]
    <2>1. PICK r \in Seq(AllNames) : q = d \o r /\ s \o r \in DOMAIN T /\ R[q] = T[s \o r]
      BY <1>2
    <2>5. Tmp(a, t, b) = d \o r
      BY <2>1
    <2>2. SplitAt(a, t, b, d, r)
      BY <2>5, TmpSplit
    <2>3. PICK c \in Seq(Names) : a = d \o c /\ r = Tmp(c, t, b)
      BY <2>2 DEF SplitAt
    <2>4. TmpMovesTo(s, c, t, b)
      BY TmpBelow
    <2> QED
      BY <2>1, <2>3, <2>4 DEF MovedAlong, R, TmpMovesTo
  <1>3. CASE q \in DOMAIN T /\ ~ IsPrefix(s, q) /\ R[q] = T[q]
    BY <1>3, PrefixTmp DEF R
  <1> QED
    BY <1>1, <1>2, <1>3

\* Where copy() puts what it copies.
LEMMA CopiedToTmp ==
    ASSUME OpsInv, NEW t \in Threads, op[t].kind = "copy", NEW p \in op[t].done
    PROVE  \E b \in Seq(Names) : CopiedTo(t, p) = Tmp(op[t].parent, t, b)
  <1>1. PICK b : b = SubSeq(p, Len(op[t].id) + 1, Len(p))
    OBVIOUS
  <1>2. op[t].id \in Seq(Names) /\ p \in Seq(Names) /\ IsPrefix(op[t].id, p)
    BY DEF OpsInv, OpOK
  <1>3. b \in Seq(Names)
    BY <1>1, <1>2, PrefixSplit
  <1> QED
    BY <1>1, <1>3 DEF CopiedTo

\* The rename() of move().
LEMMA MoveKeeps ==
    ASSUME ItemsIInv, NEW t \in Threads, op[t].kind = "move", op[t].pc = "rename",
           NEW s, NEW d, NEW type, s = op[t].id, d = Target(op[t]), type = fs[s].type,
           RenameErrno(fs, s, d) = "ok", Made(t, type), fs' = Rename(fs, s, d)
    PROVE  ItemsIInv'
  <1>1. /\ OpsInv /\ TreeInv /\ op[t].made = "none" /\ s \in Seq(Names) /\ d \in Seq(Names)
        /\ s \in DOMAIN fs /\ type \in {"file", "folder", "odd"}
    <2>1. OpsInv /\ TreeInv /\ op[t].made = "none"
      BY NothingMade DEF ItemsIInv
    <2>2. s \in Seq(Names) /\ d \in Seq(Names)
      BY <2>1, TargetPlain DEF OpsInv, OpOK
    <2>3. s \in DOMAIN fs
      BY RenameOK
    <2> QED
      BY <2>1, <2>2, <2>3 DEF TreeInv
  <1>2. OpsInv' /\ Follows(t) /\ op'[t].pc = "status" /\ op'[t].made = type
    BY <1>1, MadeKeeps, MadeOp
  <1>3. /\ \A u \in Threads \ {t} : op'[u] = op[u]
        /\ op'[t].kind = "move" /\ op'[t].id = s /\ Target(op'[t]) = d
        /\ Begun(t)' /\ op'[t].made # "none"
    BY <1>1, <1>2 DEF Follows, Begun, Target
  <1>4. DOMAIN fs \subseteq Seq(AllNames) /\ s \in Seq(AllNames) /\ d \in Seq(AllNames)
    BY <1>1, PathsAll, PlainPath
  <1>5. /\ \A r \in Seq(AllNames) : s \o r \in DOMAIN fs =>
              d \o r \in DOMAIN fs' /\ fs'[d \o r] = fs[s \o r]
        /\ \A q \in DOMAIN fs : ~ IsPrefix(s, q) => q \in DOMAIN fs'
        /\ \A q \in DOMAIN fs' :
              \/ \E r \in Seq(AllNames) : /\ q = d \o r /\ s \o r \in DOMAIN fs
                                          /\ fs'[q] = fs[s \o r]
              \/ q \in DOMAIN fs /\ ~ IsPrefix(s, q) /\ fs'[q] = fs[q]
    <2>1. RenamedTo(fs, Rename(fs, s, d), s, d)
      BY <1>1, <1>4, Renamed
    <2> QED
      BY <2>1 DEF RenamedTo
  <1>6. TreeInv'
    <2> SUFFICES ASSUME NEW q \in DOMAIN fs'
                 PROVE  /\ q \in Seq(Names) \/ \E u \in Threads, a, b \in Seq(Names) : q = Tmp(a, u, b)
                        /\ fs'[q].type \in {"file", "folder", "odd"}
                        /\ fs'[q].data \in Threads => fs'[q].type = "file"
      BY DEF TreeInv
    <2>1. CASE q \in DOMAIN fs /\ fs'[q] = fs[q]
      BY <1>1, <2>1 DEF TreeInv
    <2>2. CASE \E r \in Seq(AllNames) : q = d \o r /\ s \o r \in DOMAIN fs /\ fs'[q] = fs[s \o r]
      <3>1. PICK r \in Seq(AllNames) : q = d \o r /\ s \o r \in DOMAIN fs /\ fs'[q] = fs[s \o r]
        BY <2>2
      <3>2. /\ fs'[q].type \in {"file", "folder", "odd"}
            /\ fs'[q].data \in Threads => fs'[q].type = "file"
        BY <1>1, <3>1 DEF TreeInv
      <3>3. CASE s \o r \in Seq(Names)
        <4>1. r \in Seq(Names)
          BY <1>4, <3>3, PlainParts
        <4>2. d \o r \in Seq(Names)
          BY <1>1, <4>1, Joined
        <4> QED
          BY <3>1, <3>2, <4>2
      <3>4. CASE \E u \in Threads, a, b \in Seq(Names) : s \o r = Tmp(a, u, b)
        <4>1. PICK u \in Threads, a, b \in Seq(Names) : Tmp(a, u, b) = s \o r
          BY <3>4
        <4>2. SplitAt(a, u, b, s, r)
          BY <1>1, <4>1, TmpSplit
        <4>3. PICK c \in Seq(Names) : r = Tmp(c, u, b)
          BY <4>2 DEF SplitAt
        <4>4. d \o c \in Seq(Names) /\ TmpMovesTo(d, c, u, b)
          BY <1>1, TmpBelow
        <4> QED
          BY <3>1, <3>2, <4>3, <4>4 DEF TmpMovesTo
      <3> QED
        BY <1>1, <3>1, <3>3, <3>4 DEF TreeInv
    <2> QED
      BY <1>5, <2>1, <2>2
  <1>7. ASSUME NEW u \in Threads, NEW a \in Seq(Names), NEW b \in Seq(Names), Tmp(a, u, b) \in DOMAIN fs'
        PROVE  \/ MovedAlong(fs, fs', s, d, a, u, b)
               \/ /\ Tmp(a, u, b) \in DOMAIN fs /\ ~ IsPrefix(s, a)
                  /\ fs'[Tmp(a, u, b)] = fs[Tmp(a, u, b)]
    BY <1>1, <1>4, <1>7, TmpMoved
  <1>8. OneTmp'
    <2> SUFFICES ASSUME NEW u \in Threads,
                        NEW a \in Seq(Names), NEW b \in Seq(Names),
                        NEW e \in Seq(Names), NEW f \in Seq(Names),
                        Tmp(a, u, b) \in DOMAIN fs', Tmp(e, u, f) \in DOMAIN fs'
                 PROVE  a = e
      BY DEF OneTmp
    <2>1. ASSUME NEW x \in Seq(Names), NEW y \in Seq(Names), MovedAlong(fs, fs', s, d, x, u, y)
          PROVE  \E c \in Seq(Names) : x = d \o c /\ s \o c \in Seq(Names) /\ IsPrefix(s, s \o c)
                                       /\ Tmp(s \o c, u, y) \in DOMAIN fs
      BY <1>1, <2>1, Joined DEF MovedAlong
    <2>2. CASE MovedAlong(fs, fs', s, d, a, u, b) /\ MovedAlong(fs, fs', s, d, e, u, f)
      <3>1. PICK c \in Seq(Names) : a = d \o c /\ s \o c \in Seq(Names) /\ Tmp(s \o c, u, b) \in DOMAIN fs
        BY <2>1, <2>2
      <3>2. PICK g \in Seq(Names) : e = d \o g /\ s \o g \in Seq(Names) /\ Tmp(s \o g, u, f) \in DOMAIN fs
        BY <2>1, <2>2
      <3>3. s \o c = s \o g
        BY <3>1, <3>2 DEF ItemsIInv, OneTmp
      <3>4. c = g
        BY <1>1, <3>3, SameRest
      <3> QED
        BY <3>1, <3>2, <3>4
    <2>3. ASSUME NEW x \in Seq(Names), NEW y \in Seq(Names), MovedAlong(fs, fs', s, d, x, u, y),
                 NEW v \in Seq(Names), NEW w \in Seq(Names), Tmp(v, u, w) \in DOMAIN fs, ~ IsPrefix(s, v)
          PROVE  FALSE
      <3>1. PICK c \in Seq(Names) : s \o c \in Seq(Names) /\ IsPrefix(s, s \o c)
                                    /\ Tmp(s \o c, u, y) \in DOMAIN fs
        BY <2>1, <2>3
      <3>2. s \o c = v
        BY <2>3, <3>1 DEF ItemsIInv, OneTmp
      <3> QED
        BY <2>3, <3>1, <3>2
    <2>4. CASE Tmp(a, u, b) \in DOMAIN fs /\ Tmp(e, u, f) \in DOMAIN fs
      BY <2>4 DEF ItemsIInv, OneTmp
    <2> QED
      BY <1>7, <2>2, <2>3, <2>4
  <1>9. TmpInv'
    <2> SUFFICES ASSUME NEW u \in Threads, NEW a \in Seq(Names), NEW b \in Seq(Names),
                        Tmp(a, u, b) \in DOMAIN fs'
                 PROVE  /\ op'[u].kind = "copy"
                        /\ op'[u].pc \in {"opendir", "entries", "rename"} \/ op'[u].result \in Exceptions
                        /\ b = << >> => fs'[Tmp(a, u, b)].type = "folder"
                        /\ b # << >> /\ op'[u].pc \in {"opendir", "entries"} =>
                              op'[u].id \o b \in op'[u].done
      BY DEF TmpInv
    <2>1. PICK e \in Seq(Names) : Tmp(e, u, b) \in DOMAIN fs /\ fs'[Tmp(a, u, b)] = fs[Tmp(e, u, b)]
      <3>1. CASE MovedAlong(fs, fs', s, d, a, u, b)
        <4>1. PICK c \in Seq(Names) : /\ Tmp(s \o c, u, b) \in DOMAIN fs
                                      /\ fs'[Tmp(a, u, b)] = fs[Tmp(s \o c, u, b)]
          BY <3>1 DEF MovedAlong
        <4>2. s \o c \in Seq(Names)
          BY <1>1, Joined
        <4> QED
          BY <4>1, <4>2
      <3> QED
        BY <1>7, <3>1
    <2>2. u # t
      BY <1>1, <2>1, NoTmp DEF ItemsIInv
    <2> QED
      BY <1>3, <2>1, <2>2 DEF ItemsIInv, TmpInv
  <1>10. ASSUME NEW u \in Threads \ {t}, op[u].made \in {"file", "folder"}, Stands(u)
         PROVE  Stands(u)' \/ Interfered(u)'
    <2>1. PICK x : x = Target(op[u])
      OBVIOUS
    <2>2. x \in DOMAIN fs /\ fs[x].type = op[u].made /\ op'[u] = op[u]
      BY <1>3, <1>10, <2>1 DEF Stands, Exists
    <2>3. CASE IsPrefix(s, x)
      BY <1>3, <2>1, <2>2, <2>3 DEF Interfered
    <2>4. CASE ~ IsPrefix(s, x)
      <3>1. /\ x \in DOMAIN fs'
            /\ \/ fs'[x].type = fs[x].type
               \/ /\ x = d /\ fs'[x] = fs[s]
                  /\ fs[x].type = "folder" <=> fs[s].type = "folder"
        <4>1. \A p \in DOMAIN fs : fs[p].type \in {"file", "folder", "odd"}
          BY <1>1 DEF TreeInv
        <4>2. KeptOrReplaced(fs, Rename(fs, s, d), s, d, x)
          BY <1>4, <2>2, <2>4, <4>1, RenamedOver
        <4> QED
          BY <4>2 DEF KeptOrReplaced
      <3>2. CASE fs'[x].type = fs[x].type
        BY <1>10, <2>1, <2>2, <3>1, <3>2 DEF Stands, Exists
      <3>3. CASE fs'[x].type # fs[x].type
        <4>1. x = d /\ type = "odd"
          BY <1>1, <1>10, <2>2, <3>1, <3>3
        <4> QED
          BY <1>2, <1>3, <2>1, <2>2, <4>1 DEF Interfered
      <3> QED
        BY <3>2, <3>3
    <2> QED
      BY <2>3, <2>4
  <1>11. Stands(t)'
    <2>1. << >> \in Seq(AllNames) /\ s \o << >> = s /\ d \o << >> = d
      BY <1>4, EmptySeq, ConcatEmptySeq
    <2>2. d \in DOMAIN fs' /\ fs'[d] = fs[s]
      BY <1>1, <1>5, <2>1
    <2> QED
      BY <1>2, <1>3, <2>2 DEF Stands, Exists
  <1>12. ASSUME NEW u \in Threads PROVE CopyOK(u)'
    <2>1. CASE u = t
      BY <1>3, <2>1 DEF CopyOK
    <2>2. CASE u # t
      <3>1. op'[u] = op[u] /\ TmpPath(u)' = TmpPath(u) /\ \A p : CopiedTo(u, p)' = CopiedTo(u, p)
        BY <1>3, <2>2 DEF TmpPath, CopiedTo
      <3>2. /\ op[u].pc # "idle" /\ TargetDisturbed(u) => TargetDisturbed(u)'
            /\ \A p : PutBack(u, p) => PutBack(u, p)'
        BY <1>1, <1>2, Monotone
      <3>3. CopyOK(u)
        BY DEF ItemsIInv, CopyInv
      <3>4. /\ op[u].parent \in Seq(Names) /\ << >> \in Seq(Names)
            /\ TmpPath(u) = Tmp(op[u].parent, u, << >>)
        BY <1>1, TmpPathIs
      <3>5. ASSUME NEW p \in DOMAIN fs', ~ PutBack(u, p)'
            PROVE  p \in DOMAIN fs /\ fs'[p] = fs[p] /\ ~ PutBack(u, p)
        <4>1. ~ IsPrefix(d, p)
          BY <1>3, <2>2, <3>5 DEF PutBack
        <4>2. \A r \in Seq(AllNames) : IsPrefix(d, d \o r)
          BY <1>4, Joined
        <4> QED
          BY <1>5, <3>2, <3>5, <4>1, <4>2
      <3>6. ASSUME TmpPath(u) \in DOMAIN fs', ~ TargetDisturbed(u)'
            PROVE  TmpPath(u) \in DOMAIN fs /\ ~ IsPrefix(s, op[u].parent)
        <4>1. ~ IsPrefix(d, op[u].parent)
          BY <1>3, <3>1, <3>6 DEF TargetDisturbed
        <4>3. \A c \in Seq(Names) : IsPrefix(d, d \o c)
          BY <1>1, Joined
        <4>2. ~ MovedAlong(fs, fs', s, d, op[u].parent, u, << >>)
          BY <4>1, <4>3 DEF MovedAlong
        <4> QED
          BY <1>7, <3>4, <3>6, <4>2
      <3>7. ASSUME op[u].kind = "copy", NEW p \in op[u].done, CopiedTo(u, p) \in DOMAIN fs,
                   ~ IsPrefix(s, op[u].parent)
            PROVE  CopiedTo(u, p) \in DOMAIN fs'
        <4>1. PICK b \in Seq(Names) : CopiedTo(u, p) = Tmp(op[u].parent, u, b)
          BY <1>1, <3>7, CopiedToTmp
        <4>2. ~ IsPrefix(s, Tmp(op[u].parent, u, b))
          BY <1>1, <3>4, <3>7, TmpPrefix
        <4> QED
          BY <1>5, <3>7, <4>1, <4>2
      <3> SUFFICES ASSUME op[u].kind = "copy"
                   PROVE  /\ op[u].pc \in {"entries", "rename"} /\ TmpPath(u) \in DOMAIN fs' =>
                                \A p \in op[u].done : p \in DOMAIN fs' /\ fs'[p].type # "odd" =>
                                   CopiedTo(u, p) \in DOMAIN fs' \/ PutBack(u, p)' \/ TargetDisturbed(u)'
                          /\ op[u].pc = "rename" =>
                                \A p \in op[u].seen \ op[u].done : p \in DOMAIN fs' => PutBack(u, p)'
        BY <3>1 DEF CopyOK, Exists
      <3>8. ASSUME op[u].pc \in {"entries", "rename"}, TmpPath(u) \in DOMAIN fs',
                   NEW p \in op[u].done, p \in DOMAIN fs', fs'[p].type # "odd",
                   ~ PutBack(u, p)', ~ TargetDisturbed(u)'
            PROVE  CopiedTo(u, p) \in DOMAIN fs'
        <4>1. p \in DOMAIN fs /\ fs[p].type # "odd" /\ ~ PutBack(u, p)
          BY <3>5, <3>8
        <4>2. TmpPath(u) \in DOMAIN fs /\ ~ IsPrefix(s, op[u].parent)
          BY <3>6, <3>8
        <4>3. ~ TargetDisturbed(u)
          BY <3>2, <3>8
        <4>4. CopiedTo(u, p) \in DOMAIN fs
          BY <3>3, <3>8, <4>1, <4>2, <4>3 DEF CopyOK, Exists
        <4> QED
          BY <3>7, <4>2, <4>4
      <3>9. ASSUME op[u].pc = "rename", NEW p \in op[u].seen \ op[u].done, p \in DOMAIN fs',
                   ~ PutBack(u, p)'
            PROVE  FALSE
        BY <3>3, <3>5, <3>9 DEF CopyOK, Exists
      <3> QED
        BY <3>8, <3>9
    <2> QED
      BY <2>1, <2>2
  <1>13. op'[t].result = "none"
    BY <1>2 DEF OpsInv, OpOK
  <1> QED
    BY <1>2, <1>6, <1>8, <1>9, <1>10, <1>11, <1>12, <1>13, TreeStepKeeps DEF Exceptions

\* The rename() of copy() moves all of its temporary folder to where clients see it.
LEMMA CopyMoveKeeps ==
    ASSUME ItemsIInv, NEW t \in Threads, op[t].kind = "copy", op[t].pc = "rename",
           NEW s, NEW d, NEW type, s = TmpPath(t), d = Target(op[t]), type = fs[s].type,
           RenameErrno(fs, s, d) = "ok", Made(t, type), fs' = Rename(fs, s, d)
    PROVE  ItemsIInv'
  <1>1. OpsInv /\ TreeInv /\ op[t].made = "none" /\ d \in Seq(Names) /\ s \in DOMAIN fs
    <2>1. OpsInv /\ TreeInv /\ op[t].made = "none"
      BY NothingMade DEF ItemsIInv
    <2>2. d \in Seq(Names)
      BY <2>1, TargetPlain DEF OpsInv
    <2>3. s \in DOMAIN fs
      BY RenameOK
    <2> QED
      BY <2>1, <2>2, <2>3
  <1>2. /\ op[t].parent \in Seq(Names) /\ << >> \in Seq(Names)
        /\ s = Tmp(op[t].parent, t, << >>) /\ s = Append(op[t].parent, t)
    BY <1>1, TmpPathIs DEF TmpPath
  <1>3. type = "folder"
    BY <1>1, <1>2, ZenonT(60) DEF ItemsIInv, TmpInv
  <1>4. OpsInv' /\ Follows(t) /\ op'[t].pc = "status" /\ op'[t].made = "folder"
    BY <1>1, <1>3, MadeKeeps, MadeOp
  <1>5. (\A u \in Threads \ {t} : op'[u] = op[u]) /\ Target(op'[t]) = d
    BY <1>4 DEF Follows, Target
  <1>6. DOMAIN fs \subseteq Seq(AllNames) /\ s \in Seq(AllNames) /\ d \in Seq(AllNames)
    BY <1>1, PathsAll, PlainPath
  <1>7. /\ \A r \in Seq(AllNames) : s \o r \in DOMAIN fs =>
              d \o r \in DOMAIN fs' /\ fs'[d \o r] = fs[s \o r]
        /\ \A q \in DOMAIN fs : ~ IsPrefix(s, q) => q \in DOMAIN fs'
        /\ \A q \in DOMAIN fs' :
              \/ \E r \in Seq(AllNames) : /\ q = d \o r /\ s \o r \in DOMAIN fs
                                          /\ fs'[q] = fs[s \o r]
              \/ q \in DOMAIN fs /\ ~ IsPrefix(s, q) /\ fs'[q] = fs[q]
    <2>1. RenamedTo(fs, Rename(fs, s, d), s, d)
      BY <1>1, <1>6, Renamed
    <2> QED
      BY <2>1 DEF RenamedTo
  <1>8. \A x \in Seq(Names) : ~ IsPrefix(s, x)
    <2>1. \A x \in Seq(Names) : x \in Seq(AllNames)
      BY PlainPath
    <2>2. ASSUME NEW x \in Seq(Names), IsPrefix(s, x) PROVE FALSE
      <3>1. PICK r : r = SubSeq(x, Len(s) + 1, Len(x))
        OBVIOUS
      <3>2. x = s \o r /\ r \in Seq(AllNames)
        BY <1>6, <2>1, <2>2, <3>1, PrefixSplit
      <3>3. s \in Seq(Names)
        BY <1>6, <3>2, PlainParts
      <3>4. << >> \in Seq(AllNames)
        BY EmptySeq
      <3> QED
        BY <1>2, <3>3, <3>4, TmpNotPlain
    <2> QED
      BY <2>2
  <1>9. ASSUME NEW r \in Seq(AllNames), s \o r \in DOMAIN fs PROVE r \in Seq(Names) /\ d \o r \in Seq(Names)
    <2>1. s \o r = Tmp(op[t].parent, t, r)
      BY <1>2 DEF Tmp
    <2>2. s \o r \notin Seq(Names)
      BY <1>2, <2>1, TmpNotPlain
    <2>3. PICK u \in Threads, a, b \in Seq(Names) : s \o r = Tmp(a, u, b)
      BY <1>1, <1>9, <2>2 DEF TreeInv
    <2>4. r = b
      <3>1. Tmp(a, u, b) = Tmp(op[t].parent, t, r)
        BY <2>1, <2>3
      <3> QED
        BY <1>2, <3>1, TmpWithin
    <2>5. r \in Seq(Names)
      BY <2>4
    <2> QED
      BY <1>1, <2>5, Joined
  <1>10. \A q \in DOMAIN fs' : q \in Seq(Names) \/ (q \in DOMAIN fs /\ ~ IsPrefix(s, q) /\ fs'[q] = fs[q])
    BY <1>7, <1>9
  <1>11. ASSUME NEW u \in Threads, NEW a \in Seq(Names), NEW b \in Seq(Names), Tmp(a, u, b) \in DOMAIN fs'
         PROVE  u # t /\ Tmp(a, u, b) \in DOMAIN fs /\ fs'[Tmp(a, u, b)] = fs[Tmp(a, u, b)]
    <2>1. b \in Seq(AllNames)
      BY PlainPath
    <2>2. Tmp(a, u, b) \notin Seq(Names)
      BY <2>1, TmpNotPlain
    <2>3. Tmp(a, u, b) \in DOMAIN fs /\ ~ IsPrefix(s, Tmp(a, u, b)) /\ fs'[Tmp(a, u, b)] = fs[Tmp(a, u, b)]
      BY <1>10, <1>11, <2>2
    <2>4. ASSUME u = t PROVE FALSE
      <3>1. a = op[t].parent
        BY <1>1, <1>2, <2>3, <2>4 DEF ItemsIInv, OneTmp
      <3>2. Tmp(a, u, b) = s \o b
        BY <1>2, <2>4, <3>1 DEF Tmp
      <3>3. IsPrefix(s, s \o b)
        BY <1>6, <2>1, Joined
      <3> QED
        BY <2>3, <3>2, <3>3
    <2> QED
      BY <2>3, <2>4
  <1>12. TreeInv'
    <2> SUFFICES ASSUME NEW q \in DOMAIN fs'
                 PROVE  /\ q \in Seq(Names) \/ \E u \in Threads, a, b \in Seq(Names) : q = Tmp(a, u, b)
                        /\ fs'[q].type \in {"file", "folder", "odd"}
                        /\ fs'[q].data \in Threads => fs'[q].type = "file"
      BY DEF TreeInv
    <2>1. CASE q \in DOMAIN fs /\ fs'[q] = fs[q]
      BY <1>1, <2>1 DEF TreeInv
    <2>2. CASE \E r \in Seq(AllNames) : q = d \o r /\ s \o r \in DOMAIN fs /\ fs'[q] = fs[s \o r]
      BY <1>1, <1>9, <2>2 DEF TreeInv
    <2> QED
      BY <1>7, <2>1, <2>2
  <1>13. OneTmp'
    BY <1>11 DEF ItemsIInv, OneTmp
  <1>14. TmpInv'
    <2> SUFFICES ASSUME NEW u \in Threads, NEW a \in Seq(Names), NEW b \in Seq(Names),
                        Tmp(a, u, b) \in DOMAIN fs'
                 PROVE  /\ op'[u].kind = "copy"
                        /\ op'[u].pc \in {"opendir", "entries", "rename"} \/ op'[u].result \in Exceptions
                        /\ b = << >> => fs'[Tmp(a, u, b)].type = "folder"
                        /\ b # << >> /\ op'[u].pc \in {"opendir", "entries"} =>
                              op'[u].id \o b \in op'[u].done
      BY DEF TmpInv
    <2> QED
      BY <1>5, <1>11 DEF ItemsIInv, TmpInv
  <1>15. ASSUME NEW u \in Threads \ {t}, Stands(u) PROVE Stands(u)'
    <2>1. PICK x : x = Target(op[u])
      OBVIOUS
    <2>2. x \in DOMAIN fs /\ fs[x].type = op[u].made /\ op'[u] = op[u]
      BY <1>5, <1>15, <2>1 DEF Stands, Exists
    <2>3. x \in Seq(Names)
      BY <1>1, <2>1, TargetPlain DEF OpsInv
    <2>4. ~ IsPrefix(s, x)
      BY <1>8, <2>3
    <2>5. x \in DOMAIN fs' /\ fs'[x].type = fs[x].type
      <3>1. \A p \in DOMAIN fs : fs[p].type \in {"file", "folder", "odd"}
        BY <1>1 DEF TreeInv
      <3>2. KeptOrReplaced(fs, Rename(fs, s, d), s, d, x)
        BY <1>6, <2>2, <2>4, <3>1, RenamedOver
      <3> QED
        BY <1>3, <3>2 DEF KeptOrReplaced
    <2> QED
      BY <1>3, <1>15, <2>1, <2>2, <2>5 DEF Stands, Exists
  <1>16. Stands(t)'
    <2>1. << >> \in Seq(AllNames) /\ s \o << >> = s /\ d \o << >> = d
      BY <1>6, EmptySeq, ConcatEmptySeq
    <2>2. d \in DOMAIN fs' /\ fs'[d] = fs[s]
      BY <1>1, <1>7, <2>1
    <2> QED
      BY <1>3, <1>4, <1>5, <2>2 DEF Stands, Exists
  <1>17. ASSUME NEW u \in Threads PROVE CopyOK(u)'
    <2>1. CASE u = t
      BY <1>4, <2>1 DEF CopyOK
    <2>2. CASE u # t
      <3>1. op'[u] = op[u] /\ TmpPath(u)' = TmpPath(u) /\ \A p : CopiedTo(u, p)' = CopiedTo(u, p)
        BY <1>5, <2>2 DEF TmpPath, CopiedTo
      <3>2. /\ op[u].pc # "idle" /\ TargetDisturbed(u) => TargetDisturbed(u)'
            /\ \A p : PutBack(u, p) => PutBack(u, p)'
        BY <1>1, <1>4, Monotone
      <3>3. CopyOK(u)
        BY DEF ItemsIInv, CopyInv
      <3>4. /\ op[u].parent \in Seq(Names) /\ << >> \in Seq(Names)
            /\ TmpPath(u) = Tmp(op[u].parent, u, << >>)
        BY <1>1, TmpPathIs
      <3>5. ASSUME NEW p \in DOMAIN fs', ~ PutBack(u, p)'
            PROVE  p \in DOMAIN fs /\ fs'[p] = fs[p] /\ ~ PutBack(u, p)
        <4>1. ~ IsPrefix(d, p)
          BY <1>4, <1>5, <2>2, <3>5 DEF PutBack
        <4>2. \A r \in Seq(AllNames) : IsPrefix(d, d \o r)
          BY <1>6, Joined
        <4> QED
          BY <1>7, <3>2, <3>5, <4>1, <4>2
      <3>6. TmpPath(u) \in DOMAIN fs' => TmpPath(u) \in DOMAIN fs
        <4>1. Tmp(op[u].parent, u, << >>) \in DOMAIN fs' => Tmp(op[u].parent, u, << >>) \in DOMAIN fs
          BY <1>11, <3>4
        <4> QED
          BY <3>4, <4>1
      <3>7. ASSUME op[u].kind = "copy", NEW p \in op[u].done, CopiedTo(u, p) \in DOMAIN fs
            PROVE  CopiedTo(u, p) \in DOMAIN fs'
        <4>1. PICK b \in Seq(Names) : CopiedTo(u, p) = Tmp(op[u].parent, u, b)
          BY <1>1, <3>7, CopiedToTmp
        <4>2. ASSUME IsPrefix(s, Tmp(op[u].parent, u, b)) PROVE FALSE
          BY <1>2, <2>2, <3>4, <4>2, TmpApart
        <4> QED
          BY <1>7, <3>7, <4>1, <4>2
      <3> SUFFICES ASSUME op[u].kind = "copy"
                   PROVE  /\ op[u].pc \in {"entries", "rename"} /\ TmpPath(u) \in DOMAIN fs' =>
                                \A p \in op[u].done : p \in DOMAIN fs' /\ fs'[p].type # "odd" =>
                                   CopiedTo(u, p) \in DOMAIN fs' \/ PutBack(u, p)' \/ TargetDisturbed(u)'
                          /\ op[u].pc = "rename" =>
                                \A p \in op[u].seen \ op[u].done : p \in DOMAIN fs' => PutBack(u, p)'
        BY <3>1 DEF CopyOK, Exists
      <3>8. ASSUME op[u].pc \in {"entries", "rename"}, TmpPath(u) \in DOMAIN fs',
                   NEW p \in op[u].done, p \in DOMAIN fs', fs'[p].type # "odd",
                   ~ PutBack(u, p)', ~ TargetDisturbed(u)'
            PROVE  CopiedTo(u, p) \in DOMAIN fs'
        <4>1. p \in DOMAIN fs /\ fs[p].type # "odd" /\ ~ PutBack(u, p)
          BY <3>5, <3>8
        <4>2. TmpPath(u) \in DOMAIN fs /\ ~ TargetDisturbed(u)
          BY <3>2, <3>6, <3>8
        <4>3. CopiedTo(u, p) \in DOMAIN fs
          BY <3>3, <3>8, <4>1, <4>2 DEF CopyOK, Exists
        <4> QED
          BY <3>7, <4>3
      <3>9. ASSUME op[u].pc = "rename", NEW p \in op[u].seen \ op[u].done, p \in DOMAIN fs',
                   ~ PutBack(u, p)'
            PROVE  FALSE
        BY <3>3, <3>5, <3>9 DEF CopyOK, Exists
      <3> QED
        BY <3>8, <3>9
    <2> QED
      BY <2>1, <2>2
  <1>18. op'[t].result = "none"
    BY <1>4 DEF OpsInv, OpOK
  <1> QED
    BY <1>4, <1>12, <1>13, <1>14, <1>15, <1>16, <1>17, <1>18, TreeStepKeeps DEF Exceptions

\* move() after its checks: it renames or fails.
LEMMA MoveRenameKeeps ==
    ASSUME ItemsIInv, NEW t \in Threads, MoveRename(t)
    PROVE  ItemsIInv'
  <1>1. PICK s, d, type, errno : /\ s = op[t].id /\ d = Target(op[t]) /\ type = fs[s].type
                                 /\ errno = RenameErrno(fs, s, d)
    OBVIOUS
  <1>2. OpsInv /\ op[t].kind = "move" /\ op[t].pc = "rename"
    BY DEF ItemsIInv, MoveRename, At
  <1>3. \/ errno = "ok" /\ Made(t, type) /\ fs' = Rename(fs, s, d)
        \/ Finish(t, FsException(errno)) /\ fs' = fs
    BY <1>1 DEF MoveRename, RenameTo
  <1>4. CASE errno = "ok" /\ Made(t, type) /\ fs' = Rename(fs, s, d)
    BY <1>1, <1>2, <1>4, MoveKeeps
  <1>5. CASE Finish(t, FsException(errno)) /\ fs' = fs
    BY <1>2, <1>5, QuietFinish, QuietKeeps
  <1> QED
    BY <1>3, <1>4, <1>5

\* copy() of a folder after its iteration: it renames or fails.
LEMMA CopyRenameKeeps ==
    ASSUME ItemsIInv, NEW t \in Threads, CopyRename(t)
    PROVE  ItemsIInv'
  <1>1. PICK s, d, type, errno : /\ s = TmpPath(t) /\ d = Target(op[t]) /\ type = fs[s].type
                                 /\ errno = RenameErrno(fs, s, d)
    OBVIOUS
  <1>2. OpsInv /\ op[t].kind = "copy" /\ op[t].pc = "rename"
    BY DEF ItemsIInv, CopyRename, At
  <1>3. \/ errno = "ok" /\ Made(t, type) /\ fs' = Rename(fs, s, d)
        \/ Finish(t, FsException(errno)) /\ fs' = fs
    BY <1>1 DEF CopyRename, RenameTo
  <1>4. CASE errno = "ok" /\ Made(t, type) /\ fs' = Rename(fs, s, d)
    BY <1>1, <1>2, <1>4, CopyMoveKeeps
  <1>5. CASE Finish(t, FsException(errno)) /\ fs' = fs
    BY <1>2, <1>5, QuietFinish, QuietKeeps, FsExceptions
  <1> QED
    BY <1>3, <1>4, <1>5

\* Every step is a quiet one or one of those that change the tree.
LEMMA StepShapes ==
    ASSUME ItemsIInv, NEW t \in Threads, Call(t) \/ Step(t)
    PROVE  \/ Quiet(t) \/ CreateDirectory(t) \/ RemoveEntry(t) \/ MoveRename(t) \/ MakeDirectory(t)
           \/ CopyEntry(t) \/ CopyRename(t) \/ CopyFileOpen(t) \/ CopyFileWrite(t)
  <1>1. OpsInv /\ TreeInv
    BY DEF ItemsIInv
  <1>2. Call(t) => Quiet(t)
    BY <1>1, QuietCall
  <1>3. Status(t) \/ AnswerItem(t) \/ ListEntry(t) \/ CopyEntriesEnd(t) => Quiet(t)
    BY <1>1, QuietStatus, QuietAnswerItem, QuietListEntry, QuietCopyEntriesEnd
  <1>4. /\ Roots(t) \/ Metadata(t) \/ Lookup(t) \/ CreateFolder(t) \/ Move(t) => Quiet(t)
        /\ List(t) \/ ListEnd(t) \/ DeleteItem(t) \/ RemoveEnd(t) => Quiet(t)
        /\ Copy(t) \/ CanonicalParent(t) \/ CreateDirectories(t) => Quiet(t)
        /\ OpenSource(t) \/ CopyEntryGone(t) => Quiet(t)
    BY <1>1, QuietSteps
  <1> QED
    BY <1>2, <1>3, <1>4, Zenon DEF Step

\* Every step keeps the invariant.
LEMMA StepKeeps ==
    ASSUME ItemsIInv, NEW t \in Threads, Call(t) \/ Step(t)
    PROVE  ItemsIInv'
  BY StepShapes, QuietKeeps, CreateDirectoryKeeps, RemoveEntryKeeps, MoveRenameKeeps,
     MakeDirectoryKeeps, CopyEntryKeeps, CopyRenameKeeps, CopyFileOpenKeeps, CopyFileWriteKeeps

\* So does one that changes neither the tree nor the records.
LEMMA UnchangedKeeps ==
    ASSUME ItemsIInv, UNCHANGED <<fs, op>>
    PROVE  ItemsIInv'
  <1>1. OpsInv' /\ TreeInv' /\ OneTmp' /\ TmpInv'
    BY DEF ItemsIInv, OpsInv, TreeInv, OneTmp, TmpInv
  <1>2. \A t \in Threads : /\ Interfered(t)' <=> Interfered(t)
                           /\ Stands(t)' <=> Stands(t)
    BY DEF Interfered, Begun, Stands
  <1>3. \A t \in Threads : /\ TargetDisturbed(t)' <=> TargetDisturbed(t)
                           /\ \A p : PutBack(t, p)' <=> PutBack(t, p)
    BY DEF TargetDisturbed, Begun, PutBack, TmpPath
  <1>4. MadeInv' /\ ErrorAfterSuccessIsInterference'
    BY <1>2 DEF ItemsIInv, MadeInv, ErrorAfterSuccessIsInterference
  <1>5. \A t \in Threads : TmpPath(t)' = TmpPath(t) /\ \A p : CopiedTo(t, p)' = CopiedTo(t, p)
    BY DEF TmpPath, CopiedTo
  <1>6. CopyInv'
    BY <1>3, <1>5 DEF ItemsIInv, CopyInv, CopyOK, Exists
  <1> QED
    BY <1>1, <1>4, <1>6 DEF ItemsIInv

\* It holds when the provider starts.
LEMMA InitIInv ==
    ASSUME ItemsInit
    PROVE  ItemsIInv
  <1>1. /\ fs \in Trees /\ op = [t \in Threads |-> Idle]
    BY DEF ItemsInit
  <1>2. /\ \A p \in DOMAIN fs : /\ p \in Seq(Names) /\ fs[p].type \in {"file", "folder", "odd"}
                                /\ fs[p].data \notin Threads
    BY <1>1, TreesAssumption
  <1>3. OpsInv
    <2>1. Root \in Seq(Names) /\ "dots" \in Names
      BY ArgumentsAssumption, EmptySeq DEF Root
    <2>2. OpOK(Idle)
      BY <2>1 DEF OpOK, Idle, OpFields, Kinds, Early
    <2> QED
      BY <1>1, <2>2 DEF OpsInv
  <1>4. TreeInv
    BY <1>2 DEF TreeInv
  <1>5. \A t \in Threads : \A a, b \in Seq(Names) : Tmp(a, t, b) \notin DOMAIN fs
    <2>1. \A b \in Seq(Names) : b \in Seq(AllNames)
      BY PlainPath
    <2> QED
      BY <1>2, <2>1, TmpNotPlain
  <1>6. OneTmp /\ TmpInv
    BY <1>5 DEF OneTmp, TmpInv
  <1>7. \A t \in Threads : op[t].made = "none" /\ op[t].pc = "idle"
    BY <1>1 DEF Idle
  <1>8. MadeInv /\ ErrorAfterSuccessIsInterference /\ CopyInv
    BY <1>7 DEF MadeInv, ErrorAfterSuccessIsInterference, CopyInv, CopyOK
  <1> QED
    BY <1>3, <1>4, <1>6, <1>8 DEF ItemsIInv

\* The inductive invariant of the item operations.
THEOREM ItemsIInvHolds == ItemsSpec => []ItemsIInv
  <1>1. ItemsInit => ItemsIInv
    BY InitIInv
  <1>2. ItemsIInv /\ [ItemsNext]_itemVars => ItemsIInv'
    <2> SUFFICES ASSUME ItemsIInv, [ItemsNext]_itemVars
                 PROVE  ItemsIInv'
      OBVIOUS
    <2>1. CASE Start \/ UNCHANGED itemVars
      BY <2>1, UnchangedKeeps DEF Start, itemVars
    <2>2. CASE \E t \in Threads : Call(t) \/ Step(t)
      BY <2>2, StepKeeps
    <2> QED
      BY <2>1, <2>2 DEF ItemsNext
  <1> QED
    BY <1>1, <1>2, PTL DEF ItemsSpec

\* A temporary folder exists only while its copy() runs or after that has failed, never
\* becomes part of another copy, and is never shown by list(): for any number of calls that
\* interleave between their system calls, and any tree below the root.
THEOREM TemporariesPrivateHolds == ItemsSpec => []TemporariesStayPrivate
  <1>1. ItemsIInv => TemporariesStayPrivate
    <2> SUFFICES ASSUME ItemsIInv
                 PROVE  TemporariesStayPrivate
      OBVIOUS
    <2>1. \A t \in Threads : \A item \in op[t].items : ~ IsReservedPath(item.id)
      BY DEF ItemsIInv, OpsInv, OpOK
    <2>2. ASSUME NEW p \in DOMAIN fs, NEW i \in DOMAIN p, p[i] \in Threads
          PROVE  /\ op[p[i]].kind = "copy"
                 /\ op[p[i]].pc \in {"opendir", "entries", "rename"} \/ op[p[i]].result \in Exceptions
                 /\ \A j \in DOMAIN p : p[j] \in Threads => j = i
      <3>1. p \notin Seq(Names)
        <4>1. p \in Seq(Names) => i \in 1..Len(p)
          BY LenProperties
        <4> QED
          BY <2>2, <4>1, PlainPath
      <3>2. PICK t \in Threads, a, b \in Seq(Names) : p = Tmp(a, t, b)
        BY <3>1 DEF ItemsIInv, TreeInv
      <3>3. \A j \in DOMAIN p : IF j = Len(a) + 1 THEN p[j] = t ELSE p[j] \notin Threads
        BY <3>2, TmpNames
      <3>4. p[i] = t /\ \A j \in DOMAIN p : p[j] \in Threads => j = i
        BY <2>2, <3>3
      <3> QED
        BY <3>2, <3>4 DEF ItemsIInv, TmpInv
    <2> QED
      BY <2>1, <2>2 DEF TemporariesStayPrivate
  <1> QED
    BY <1>1, ItemsIInvHolds, PTL

\* A call reports an error after it has made or moved a file or folder only because of
\* another call, or because the disk was full.
THEOREM ErrorAfterSuccessHolds == ItemsSpec => []ErrorAfterSuccessIsInterference
  <1>1. ItemsIInv => ErrorAfterSuccessIsInterference
    BY DEF ItemsIInv
  <1> QED
    BY <1>1, ItemsIInvHolds, PTL

\* Where the data of a file are after a step of t.
Survives(p) == \E q \in Files(fs') : fs'[q].data = fs[p].data

Excused(p) ==
    \/ fs[p].data \in Threads \cup {"torn"}
    \/ \E t \in Threads : At(t, "delete_item", "remove") /\ IsPrefix(op[t].id, p)
    \/ \E t \in Threads : At(t, "move", "rename") /\ p = Target(op[t])

\* Data survive in a tree that has not changed there.
LEMMA SameSurvives ==
    ASSUME NEW p \in Files(fs), p \in DOMAIN fs', fs'[p] = fs[p]
    PROVE  Survives(p)
  BY DEF Files, Survives

\* Data that are where a rename() starts from move with it, and others are safe unless
\* they are where it ends.
LEMMA RenameSurvives ==
    ASSUME TreeInv, NEW p \in Files(fs), NEW s, NEW d \in Seq(AllNames),
           RenameErrno(fs, s, d) = "ok", fs' = Rename(fs, s, d)
    PROVE  Survives(p) \/ (p = d /\ fs[s].type # "folder")
  <1>1. DOMAIN fs \subseteq Seq(AllNames) /\ s \in DOMAIN fs /\ p \in DOMAIN fs /\ fs[p].type = "file"
    BY PathsAll, RenameOK DEF Files
  <1>2. CASE IsPrefix(s, p)
    <2>1. PICK r : r = SubSeq(p, Len(s) + 1, Len(p))
      OBVIOUS
    <2>2. r \in Seq(AllNames) /\ p = s \o r
      BY <1>1, <1>2, <2>1, PrefixSplit
    <2>3. RenamedTo(fs, fs', s, d)
      BY <1>1, Renamed
    <2>4. d \o r \in DOMAIN fs' /\ fs'[d \o r] = fs[p]
      BY <1>1, <2>2, <2>3 DEF RenamedTo
    <2> QED
      BY <1>1, <2>4 DEF Survives, Files
  <1>3. CASE ~ IsPrefix(s, p)
    <2>1. \A q \in DOMAIN fs : fs[q].type \in {"file", "folder", "odd"}
      BY DEF TreeInv
    <2>2. KeptOrReplaced(fs, Rename(fs, s, d), s, d, p)
      BY <1>1, <1>3, <2>1, RenamedOver
    <2> QED
      BY <1>1, <2>2, SameSurvives DEF KeptOrReplaced
  <1> QED
    BY <1>2, <1>3

\* A step of t loses data only by the removal of delete_item() or the rename() of move().
LEMMA StepLosesNothing ==
    ASSUME ItemsIInv, NEW t \in Threads, Call(t) \/ Step(t), NEW p \in Files(fs)
    PROVE  Survives(p) \/ Excused(p)
  <1>1. OpsInv /\ TreeInv /\ p \in DOMAIN fs /\ fs[p].type = "file"
    BY DEF ItemsIInv, Files
  <1>2. ASSUME fs' = fs PROVE Survives(p)
    BY <1>1, <1>2, SameSurvives
  <1>3. ASSUME NEW x, NEW node, fs' = Put(fs, x, node), x # p PROVE Survives(p)
    <2>1. p \in DOMAIN fs' /\ fs'[p] = fs[p]
      BY <1>1, <1>3 DEF Put
    <2> QED
      BY <2>1, SameSurvives
  <1>4. Target(op[t]) \in Seq(Names) /\ Target(op[t]) \in Seq(AllNames)
    BY <1>1, TargetPlain, PlainPath DEF OpsInv
  <1>5. CASE Quiet(t)
    BY <1>2, <1>5 DEF Quiet
  <1>6. CASE CreateDirectory(t)
    <2>1. fs' = fs \/ (fs' = Put(fs, Target(op[t]), Folder) /\ Target(op[t]) \notin DOMAIN fs)
      BY <1>6 DEF CreateDirectory, Exists
    <2> QED
      BY <1>1, <1>2, <1>3, <2>1
  <1>7. CASE CopyFileOpen(t)
    <2>1. fs' = fs \/ (fs' = Put(fs, Target(op[t]), File(t)) /\ Target(op[t]) \notin DOMAIN fs)
      BY <1>7 DEF CopyFileOpen, CopyFileErrno, Exists
    <2> QED
      BY <1>1, <1>2, <1>3, <2>1
  <1>8. CASE MakeDirectory(t)
    <2>1. fs' = fs \/ \E x : fs' = Put(fs, x, Folder) /\ x \notin DOMAIN fs
      BY <1>8, MakeDirectoryTree
    <2> QED
      BY <1>1, <1>2, <1>3, <2>1
  <1>9. CASE CopyEntry(t)
    <2>1. fs' = fs \/ \E x, node : fs' = Put(fs, x, node) /\ x \notin DOMAIN fs
      BY <1>9, CopyEntryTree, Zenon
    <2> QED
      BY <1>1, <1>2, <1>3, <2>1
  <1>10. CASE CopyFileWrite(t)
    <2>1. PICK data : fs' = Written(t, data)
      BY <1>10 DEF CopyFileWrite
    <2>2. fs[p].data = t \/ (p \in DOMAIN fs' /\ fs'[p] = fs[p])
      BY <1>1, <2>1 DEF Written
    <2> QED
      BY <2>2, SameSurvives DEF Excused
  <1>11. CASE RemoveEntry(t)
    <2>1. PICK x \in {op[t].id} \cup Below(fs, op[t].id) : fs' = Drop(fs, x)
      BY <1>11 DEF RemoveEntry
    <2>2. CASE x # p
      <3>1. p \in DOMAIN fs' /\ fs'[p] = fs[p]
        BY <1>1, <2>1, <2>2 DEF Drop
      <3> QED
        BY <3>1, SameSurvives
    <2>3. CASE x = p
      <3>1. IsPrefix(op[t].id, op[t].id)
        BY <1>1 DEF OpsInv, OpOK, IsPrefix
      <3>2. IsPrefix(op[t].id, p)
        BY <2>1, <2>3, <3>1 DEF Below, IsStrictPrefix
      <3> QED
        BY <1>11, <3>2 DEF RemoveEntry, Excused
    <2> QED
      BY <2>2, <2>3
  <1>12. CASE MoveRename(t)
    <2>1. PICK s, d : s = op[t].id /\ d = Target(op[t])
      OBVIOUS
    <2>2. fs' = fs \/ (RenameErrno(fs, s, d) = "ok" /\ fs' = Rename(fs, s, d))
      BY <1>12, <2>1 DEF MoveRename, RenameTo
    <2>3. CASE RenameErrno(fs, s, d) = "ok" /\ fs' = Rename(fs, s, d)
      <3>1. Survives(p) \/ p = d
        BY <1>1, <1>4, <2>1, <2>3, RenameSurvives
      <3> QED
        BY <1>12, <2>1, <3>1 DEF MoveRename, Excused
    <2> QED
      BY <1>2, <2>2, <2>3
  <1>13. CASE CopyRename(t)
    <2>1. PICK s, d : s = TmpPath(t) /\ d = Target(op[t])
      OBVIOUS
    <2>2. fs' = fs \/ (RenameErrno(fs, s, d) = "ok" /\ fs' = Rename(fs, s, d))
      BY <1>13, <2>1 DEF CopyRename, RenameTo
    <2>3. CASE RenameErrno(fs, s, d) = "ok" /\ fs' = Rename(fs, s, d)
      <3>1. Survives(p) \/ fs[s].type # "folder"
        BY <1>1, <1>4, <2>1, <2>3, RenameSurvives
      <3>2. s \in DOMAIN fs
        BY <2>3, RenameOK
      <3>3. /\ op[t].parent \in Seq(Names) /\ << >> \in Seq(Names)
            /\ s = Tmp(op[t].parent, t, << >>)
        BY <1>1, <2>1, TmpPathIs
      <3>4. fs[s].type = "folder"
        BY <3>2, <3>3 DEF ItemsIInv, TmpInv
      <3> QED
        BY <3>1, <3>4
    <2> QED
      BY <1>2, <2>2, <2>3
  <1> QED
    BY StepShapes, <1>5, <1>6, <1>7, <1>8, <1>9, <1>10, <1>11, <1>12, <1>13

\* No call destroys the last copy of a file's data but delete_item(), and move() where
\* another call has created its target after the check.
THEOREM NoSilentLossHolds == ItemsSpec => NoSilentLoss
  <1> DEFINE Loss ==
         \A p \in Files(fs) :
            \/ fs[p].data \in Threads \cup {"torn"}
            \/ \E q \in Files(fs') : fs'[q].data = fs[p].data
            \/ \E t \in Threads : /\ At(t, "delete_item", "remove")
                                  /\ IsPrefix(op[t].id, p)
            \/ \E t \in Threads : At(t, "move", "rename") /\ p = Target(op[t])
  <1>1. ItemsIInv /\ [ItemsNext]_itemVars => [Loss]_itemVars
    <2> SUFFICES ASSUME ItemsIInv, ItemsNext
                 PROVE  Loss
      OBVIOUS
    <2> SUFFICES ASSUME NEW p \in Files(fs) PROVE Survives(p) \/ Excused(p)
      BY DEF Survives, Excused
    <2>1. CASE Start
      BY <2>1, SameSurvives DEF Start, Files
    <2>2. CASE \E t \in Threads : Call(t) \/ Step(t)
      BY <2>2, StepLosesNothing
    <2> QED
      BY <2>1, <2>2 DEF ItemsNext
  <1> HIDE DEF Loss
  <1>2. ItemsSpec => [][Loss]_itemVars
    BY <1>1, ItemsIInvHolds, PTL DEF ItemsSpec
  <1> QED
    BY <1>2 DEF Loss, NoSilentLoss

\* Clients do not see what is new in a temporary folder.
LEMMA NewTmpUnseen ==
    ASSUME NEW a \in Seq(Names), NEW t \in Threads, NEW b \in Seq(Names), NEW x, NEW node,
           x = Tmp(a, t, b), x \notin DOMAIN fs, fs' = Put(fs, x, node)
    PROVE  Visible(fs') = Visible(fs)
  <1> DEFINE Shown(q) == \A i \in DOMAIN q : q[i] \notin Threads
  <1>1. ~ Shown(x)
    <2>1. Len(a) \in Nat /\ Len(b) \in Nat
      BY LenProperties
    <2>2. DOMAIN x = 1..(Len(a) + 1 + Len(b)) /\ \A i \in DOMAIN x : i = Len(a) + 1 => x[i] = t
      BY TmpNames
    <2>3. Len(a) + 1 \in DOMAIN x
      BY <2>1, <2>2
    <2> QED
      BY <2>2, <2>3
  <1>2. DOMAIN fs' = DOMAIN fs \cup {x} /\ \A q \in DOMAIN fs : fs'[q] = fs[q]
    BY DEF Put
  <1> HIDE DEF Shown
  <1>3. {q \in DOMAIN fs' : Shown(q)} = {q \in DOMAIN fs : Shown(q)}
    BY <1>1, <1>2
  <1>4. \A q \in DOMAIN fs : <<q, fs'[q]>> = <<q, fs[q]>>
    BY <1>2
  <1>5. {<<p, fs'[p]>> : p \in {q \in DOMAIN fs' : Shown(q)}} = {<<p, fs[p]>> : p \in {q \in DOMAIN fs : Shown(q)}}
    BY <1>3, <1>4
  <1> QED
    BY <1>5 DEF Visible, Shown

\* A step of one call leaves the others alone.
LEMMA OthersStay ==
    ASSUME ItemsIInv, NEW t \in Threads, Call(t) \/ Step(t), NEW u \in Threads, u # t
    PROVE  op'[u] = op[u]
  <1>1. DOMAIN op = Threads
    BY DEF ItemsIInv, OpsInv
  <1>2. ASSUME NEW f, op' = [op EXCEPT ![t] = f] PROVE op'[u] = op[u]
    BY <1>1, <1>2
  <1>3. ASSUME NEW result, Finish(t, result) PROVE op'[u] = op[u]
    BY <1>1, <1>3 DEF Finish
  <1>4. ASSUME NEW pc, Goto(t, pc) PROVE op'[u] = op[u]
    BY <1>1, <1>4 DEF Goto
  <1>5. ASSUME NEW type, Made(t, type) PROVE op'[u] = op[u]
    BY <1>1, <1>5 DEF Made
  <1>6. CASE Quiet(t)
    BY <1>6 DEF Quiet, Follows
  <1>7. CASE CreateDirectory(t)
    BY <1>3, <1>4, <1>5, <1>7 DEF CreateDirectory
  <1>8. CASE RemoveEntry(t)
    BY <1>3, <1>8 DEF RemoveEntry
  <1>9. CASE MoveRename(t)
    BY <1>3, <1>5, <1>9 DEF MoveRename, RenameTo
  <1>10. CASE CopyRename(t)
    BY <1>3, <1>5, <1>10 DEF CopyRename, RenameTo
  <1>11. CASE MakeDirectory(t)
    <2>1. Quiet(t) \/ Follows(t)
      BY <1>11, MakeDirectoryCases
    <2> QED
      BY <1>6, <2>1 DEF Follows
  <1>12. CASE CopyEntry(t)
    <2>1. \/ \E result : Finish(t, result)
          \/ \E p : op' = [op EXCEPT ![t].done = @ \cup {p}]
      BY <1>12 DEF CopyEntry
    <2> QED
      BY <1>1, <1>3, <2>1
  <1>13. CASE CopyFileOpen(t)
    <2>1. \/ \E result : Finish(t, result)
          \/ \E data : op' = [op EXCEPT ![t].pc = "write", ![t].made = "file", ![t].data = data]
      BY <1>13 DEF CopyFileOpen
    <2> QED
      BY <1>1, <1>3, <2>1
  <1>14. CASE CopyFileWrite(t)
    BY <1>3, <1>4, <1>14 DEF CopyFileWrite
  <1> QED
    BY StepShapes, <1>6, <1>7, <1>8, <1>9, <1>10, <1>11, <1>12, <1>13, <1>14

(***************************************************************************)
(* create_directories() puts back only what was there for canonical() and  *)
(* another call has removed since.                                         *)
(***************************************************************************)
\* A path of clients vanishes only when it is deleted or moved away.
LEMMA PlainStays ==
    ASSUME ItemsIInv, NEW t \in Threads, Call(t) \/ Step(t), NEW p \in Seq(Names),
           p \in DOMAIN fs, p \notin DOMAIN fs'
    PROVE  Removed(p)
  <1>1. OpsInv /\ TreeInv /\ p \in Seq(AllNames)
    BY PlainPath DEF ItemsIInv
  <1>2. ASSUME fs' = fs PROVE FALSE
    BY <1>2
  <1>3. ASSUME NEW x, NEW node, fs' = Put(fs, x, node) PROVE FALSE
    BY <1>3 DEF Put
  <1>4. Target(op[t]) \in Seq(AllNames)
    BY <1>1, TargetPlain, PlainPath DEF OpsInv
  <1>5. CASE Quiet(t)
    BY <1>2, <1>5 DEF Quiet
  <1>6. CASE CreateDirectory(t) \/ CopyFileOpen(t)
    BY <1>2, <1>3, <1>6 DEF CreateDirectory, CopyFileOpen
  <1>7. CASE MakeDirectory(t)
    BY <1>2, <1>3, <1>7, MakeDirectoryTree
  <1>8. CASE CopyEntry(t)
    BY <1>2, <1>3, <1>8, CopyEntryTree
  <1>9. CASE CopyFileWrite(t)
    BY <1>9 DEF CopyFileWrite, Written
  <1>10. CASE RemoveEntry(t)
    <2>1. PICK x \in {op[t].id} \cup Below(fs, op[t].id) : fs' = Drop(fs, x)
      BY <1>10 DEF RemoveEntry
    <2>2. x = p
      BY <2>1 DEF Drop
    <2>3. IsPrefix(op[t].id, op[t].id)
      BY <1>1 DEF OpsInv, OpOK, IsPrefix
    <2>4. IsPrefix(op[t].id, p)
      BY <2>1, <2>2, <2>3 DEF Below, IsStrictPrefix
    <2> QED
      BY <1>10, <2>4 DEF RemoveEntry, At, Begun, Removed
  <1>11. ASSUME NEW s, NEW d \in Seq(AllNames), RenameErrno(fs, s, d) = "ok", fs' = Rename(fs, s, d)
         PROVE  s \in DOMAIN fs /\ IsPrefix(s, p)
    <2>1. DOMAIN fs \subseteq Seq(AllNames) /\ s \in DOMAIN fs
      BY <1>1, <1>11, PathsAll, RenameOK
    <2>2. RenamedTo(fs, fs', s, d)
      BY <1>11, <2>1, Renamed
    <2> QED
      BY <2>1, <2>2 DEF RenamedTo
  <1>12. CASE MoveRename(t)
    <2>1. PICK s, d : s = op[t].id /\ d = Target(op[t])
      OBVIOUS
    <2>2. fs' = fs \/ (RenameErrno(fs, s, d) = "ok" /\ fs' = Rename(fs, s, d))
      BY <1>12, <2>1 DEF MoveRename, RenameTo
    <2>3. IsPrefix(op[t].id, p)
      BY <1>2, <1>4, <1>11, <2>1, <2>2
    <2> QED
      BY <1>12, <2>3 DEF MoveRename, At, Begun, Removed
  <1>13. CASE CopyRename(t)
    <2>1. PICK s, d : s = TmpPath(t) /\ d = Target(op[t])
      OBVIOUS
    <2>2. fs' = fs \/ (RenameErrno(fs, s, d) = "ok" /\ fs' = Rename(fs, s, d))
      BY <1>13, <2>1 DEF CopyRename, RenameTo
    <2>3. s \in DOMAIN fs /\ IsPrefix(s, p)
      BY <1>2, <1>4, <1>11, <2>1, <2>2
    <2>4. /\ op[t].parent \in Seq(Names) /\ << >> \in Seq(Names) /\ << >> \in Seq(AllNames)
          /\ s = Tmp(op[t].parent, t, << >>)
      BY <1>1, <2>1, TmpPathIs, EmptySeq
    <2>5. s \in Seq(AllNames)
      BY <1>1, <2>3, PathsAll
    <2>6. PICK r \in Seq(AllNames) : p = s \o r
      BY <1>1, <2>3, <2>5, PrefixSplit
    <2>7. s \in Seq(Names)
      BY <2>5, <2>6, PlainParts
    <2> QED
      BY <2>4, <2>7, TmpNotPlain
  <1> QED
    BY StepShapes, <1>5, <1>6, <1>7, <1>8, <1>9, <1>10, <1>12, <1>13

\* Every step of a call leaves its record as one that follows the old one.
LEMMA RemovedStays ==
    ASSUME ItemsIInv, NEW t \in Threads, Call(t) \/ Step(t), NEW p, Removed(p)
    PROVE  Removed(p)'
  <1>1. PICK u \in Threads :
           op[u].kind \in {"delete_item", "move"} /\ Begun(u) /\ IsPrefix(op[u].id, p)
    BY DEF Removed
  <1>2. op'[u].kind = op[u].kind /\ op'[u].id = op[u].id /\ Begun(u)'
    <2>1. CASE u # t
      <3>1. op'[u] = op[u]
        BY <2>1, OthersStay
      <3> QED
        BY <1>1, <3>1 DEF Begun
    <2>2. CASE u = t
      <3>1. OpsInv
        BY DEF ItemsIInv
      <3>2. CASE Quiet(t)
        BY <1>1, <2>2, <3>2 DEF Quiet, Follows, Begun
      <3>3. CASE MoveRename(t)
        <4>1. \/ \E result : Finish(t, result)
              \/ \E type : Made(t, type)
          BY <3>3 DEF MoveRename, RenameTo
        <4>2. ASSUME NEW result, Finish(t, result) PROVE op'[t].kind = op[t].kind /\ op'[t].id = op[t].id /\ Begun(t)'
          BY <3>1, <4>2, FinishOp DEF SameBut, OpFields, Begun
        <4>3. ASSUME NEW type, Made(t, type) PROVE op'[t].kind = op[t].kind /\ op'[t].id = op[t].id /\ Begun(t)'
          BY <3>1, <4>3, MadeOp DEF SameBut, OpFields, Begun
        <4> QED
          BY <2>2, <4>1, <4>2, <4>3
      <3>4. CASE RemoveEntry(t)
        <4>1. (\E result : Finish(t, result)) \/ op' = op
          BY <3>4 DEF RemoveEntry
        <4>2. ASSUME NEW result, Finish(t, result) PROVE op'[t].kind = op[t].kind /\ op'[t].id = op[t].id /\ Begun(t)'
          BY <3>1, <4>2, FinishOp DEF SameBut, OpFields, Begun
        <4> QED
          BY <1>1, <2>2, <4>1, <4>2 DEF Begun
      <3> QED
        BY <1>1, <2>2, <3>2, <3>3, <3>4, StepShapes
           DEF CreateDirectory, MakeDirectory, CopyEntry, CopyRename, CopyFileOpen, CopyFileWrite, At
    <2> QED
      BY <2>1, <2>2
  <1> QED
    BY <1>1, <1>2 DEF Removed

\* From canonical() on, what is missing on the way to the folder copy() copies to has been
\* removed by another call.
WayInv ==
    \A t \in Threads :
        op[t].kind = "copy" /\ op[t].pc \in {"walk", "mkdir"} =>
            \A n \in 1..Len(op[t].parent) : \A p \in Seq(Names) :
               p = Ancestor(op[t].parent, n) => Exists(fs, p) \/ Removed(p)

\* Where a step of copy() that leads there comes from.
LEMMA WayEntered ==
    ASSUME ItemsIInv, NEW t \in Threads, Call(t) \/ Step(t),
           op'[t].kind = "copy", op'[t].pc \in {"walk", "mkdir"}
    PROVE  \/ CanonicalParent(t)
           \/ /\ op[t].kind = "copy" /\ op[t].pc \in {"walk", "mkdir"}
              /\ op'[t].parent = op[t].parent
  <1>1. OpsInv /\ TreeInv
    BY DEF ItemsIInv
  <1>2. ASSUME NEW result, Finish(t, result) PROVE FALSE
    BY <1>1, <1>2, FinishOp
  <1>3. ASSUME NEW pc, Goto(t, pc), pc \notin {"walk", "mkdir"} PROVE FALSE
    BY <1>1, <1>3, GotoOp
  <1>4. ASSUME NEW type, Made(t, type) PROVE FALSE
    BY <1>1, <1>4, MadeOp
  <1>5. ASSUME NEW checks, NEW pc, Proceed(t, checks, pc), pc \notin {"walk", "mkdir"} PROVE FALSE
    BY <1>2, <1>3, <1>5 DEF Proceed
  <1>6. ASSUME NEW pc, NEW seen, op' = [op EXCEPT ![t].pc = pc, ![t].seen = seen],
               pc \notin {"walk", "mkdir"}
        PROVE  FALSE
    BY <1>1, <1>6, SeenOp
  <1>7. CASE Call(t)
    <2>1. op'[t].pc = "check"
      <3>1. DOMAIN op = Threads /\ DOMAIN op[t] = OpFields
        BY <1>1 DEF OpsInv, OpOK
      <3>2. PICK kind \in Kinds, id \in ItemIds, parent \in ParentIds, name \in NameArgs :
               /\ kind \in {"roots", "lookup", "create_folder"} => id = Root
               /\ kind \in {"roots", "list", "metadata", "delete_item"} =>
                     /\ parent = Root
                     /\ name = "dots"
               /\ op' = [op EXCEPT ![t].pc = "check", ![t].kind = kind, ![t].id = id,
                                   ![t].parent = parent, ![t].name = name]
        BY <1>7, Zenon DEF Call
      <3>3. op'[t] = [op[t] EXCEPT !.pc = "check", !.kind = kind, !.id = id,
                                   !.parent = parent, !.name = name]
        BY <3>1, <3>2
      <3> QED
        BY <3>1, <3>3 DEF OpFields
    <2> QED
      BY <2>1
  <1>8. CASE Roots(t) \/ Metadata(t) \/ Lookup(t) \/ CreateFolder(t) \/ Move(t)
    BY <1>3, <1>5, <1>8 DEF Roots, Metadata, Lookup, CreateFolder, Move
  <1>9. CASE Status(t)
    BY <1>1, <1>9 DEF Status, OpsInv, OpOK, OpFields
  <1>10. CASE AnswerItem(t)
    <2>1. (\E result : Finish(t, result)) \/ op'[t].pc = "done"
      BY <1>1, <1>10 DEF AnswerItem, OpsInv, OpOK, OpFields
    <2> QED
      BY <1>2, <2>1
  <1>11. CASE List(t)
    BY <1>2, <1>6, <1>11 DEF List
  <1>12. CASE ListEntry(t)
    <2>1. op[t].kind = "list" /\ op'[t].kind = op[t].kind
      BY <1>1, <1>12 DEF ListEntry, At, OpsInv, OpOK, OpFields
    <2> QED
      BY <2>1
  <1>13. CASE ListEnd(t) \/ RemoveEnd(t) \/ CopyEntryGone(t)
    BY <1>2, <1>13 DEF ListEnd, RemoveEnd, CopyEntryGone
  <1>14. CASE DeleteItem(t)
    BY <1>2, <1>6, <1>14 DEF DeleteItem
  <1>15. CASE CreateDirectory(t)
    BY <1>2, <1>3, <1>4, <1>15 DEF CreateDirectory
  <1>16. CASE RemoveEntry(t)
    BY <1>2, <1>16 DEF RemoveEntry, At
  <1>17. CASE MoveRename(t) \/ CopyRename(t)
    BY <1>2, <1>4, <1>17 DEF MoveRename, CopyRename, RenameTo
  <1>18. CASE Copy(t)
    <2>1. Goto(t, "canonical") \/ Goto(t, "copy_file") \/ \E error : Finish(t, error)
      BY <1>18 DEF Copy
    <2> QED
      BY <1>2, <1>3, <2>1
  <1>19. CASE CreateDirectories(t)
    <2>1. op[t].kind = "copy" /\ op[t].pc = "walk" /\ Quiet(t)
      BY <1>1, <1>19, QuietCreateDirectories DEF CreateDirectories, At
    <2> QED
      BY <2>1 DEF Quiet, Follows
  <1>20. CASE MakeDirectory(t)
    <2>1. op[t].kind = "copy" /\ op[t].pc = "mkdir" /\ Follows(t)
      BY <1>20, MakeDirectoryCases DEF MakeDirectory, At, Quiet
    <2> QED
      BY <2>1 DEF Follows
  <1>21. CASE OpenSource(t)
    <2>1. \/ \E seen : op' = [op EXCEPT ![t].pc = "entries", ![t].seen = seen]
          \/ \E result : Finish(t, result)
      BY <1>21 DEF OpenSource
    <2> QED
      BY <1>2, <1>6, <2>1
  <1>22. CASE CopyEntry(t)
    <2>1. \/ \E result : Finish(t, result)
          \/ \E p : op' = [op EXCEPT ![t].done = @ \cup {p}]
      BY <1>22 DEF CopyEntry
    <2>2. op[t].pc = "entries"
      BY <1>22 DEF CopyEntry, At
    <2>3. ASSUME NEW p, op' = [op EXCEPT ![t].done = @ \cup {p}] PROVE op'[t].pc = "entries"
      BY <1>1, <2>2, <2>3 DEF OpsInv, OpOK, OpFields
    <2> QED
      BY <1>2, <2>1, <2>3
  <1>23. CASE CopyEntriesEnd(t)
    BY <1>3, <1>23 DEF CopyEntriesEnd
  <1>24. CASE CopyFileOpen(t)
    <2>1. (\E result : Finish(t, result)) \/ op'[t].pc = "write"
      BY <1>1, <1>24 DEF CopyFileOpen, OpsInv, OpOK, OpFields
    <2> QED
      BY <1>2, <2>1
  <1>25. CASE CopyFileWrite(t)
    BY <1>2, <1>3, <1>25 DEF CopyFileWrite
  <1> QED
    BY <1>7, <1>8, <1>9, <1>10, <1>11, <1>12, <1>13, <1>14, <1>15, <1>16, <1>17, <1>18, <1>19,
       <1>20, <1>21, <1>22, <1>23, <1>24, <1>25 DEF Step

\* Only canonical() brings a copy() there, and what it leads to stays so.
LEMMA WayStep ==
    ASSUME ItemsIInv, WayInv, NEW t \in Threads, Call(t) \/ Step(t), NEW u \in Threads,
           op'[u].kind = "copy", op'[u].pc \in {"walk", "mkdir"}
    PROVE  /\ op'[u].parent = op[u].parent
           /\ \A n \in 1..Len(op[u].parent) : \A p \in Seq(Names) :
                 p = Ancestor(op[u].parent, n) => Exists(fs, p) \/ Removed(p)
  <1>1. OpsInv
    BY DEF ItemsIInv
  <1>2. CASE u # t
    <2>1. op'[u] = op[u]
      BY <1>2, OthersStay
    <2> QED
      BY <2>1 DEF WayInv
  <1>3. CASE u = t
    <2>1. CASE CanonicalParent(t)
      <3>1. Goto(t, "walk") \/ \E result : Finish(t, result)
        BY <2>1 DEF CanonicalParent
      <3>2. ASSUME NEW result, Finish(t, result) PROVE FALSE
        BY <1>1, <1>3, <3>2, FinishOp
      <3>3. Goto(t, "walk") /\ \A n \in 1..Len(op[t].parent) : Exists(fs, Ancestor(op[t].parent, n))
        BY <2>1, <3>2 DEF CanonicalParent
      <3>4. op'[t].parent = op[t].parent
        BY <1>1, <3>3, GotoOp DEF SameBut, OpFields
      <3> QED
        BY <1>3, <3>3, <3>4
    <2>2. CASE op[t].kind = "copy" /\ op[t].pc \in {"walk", "mkdir"} /\ op'[t].parent = op[t].parent
      BY <1>3, <2>2 DEF WayInv
    <2>3. CanonicalParent(t) \/ (op[t].kind = "copy" /\ op[t].pc \in {"walk", "mkdir"} /\ op'[t].parent = op[t].parent)
      BY <1>1, <1>3, WayEntered
    <2> QED
      BY <2>1, <2>2, <2>3
  <1> QED
    BY <1>2, <1>3

\* The invariant of create_directories().
THEOREM WayInvHolds == ItemsSpec => []WayInv
  <1>1. ItemsInit => WayInv
    BY DEF ItemsInit, WayInv, Idle
  <1>2. ItemsIInv /\ WayInv /\ [ItemsNext]_itemVars => WayInv'
    <2> SUFFICES ASSUME ItemsIInv, WayInv, [ItemsNext]_itemVars
                 PROVE  WayInv'
      OBVIOUS
    <2>1. CASE Start \/ UNCHANGED itemVars
      <3>1. fs' = fs /\ op' = op
        BY <2>1 DEF Start, itemVars
      <3>2. \A p : Removed(p)' <=> Removed(p)
        BY <3>1 DEF Removed, Begun
      <3> QED
        BY <3>1, <3>2 DEF WayInv
    <2>2. ASSUME NEW t \in Threads, Call(t) \/ Step(t) PROVE WayInv'
      <3> SUFFICES ASSUME NEW u \in Threads, op'[u].kind = "copy", op'[u].pc \in {"walk", "mkdir"},
                          NEW n \in 1..Len(op'[u].parent), NEW p \in Seq(Names),
                          p = Ancestor(op'[u].parent, n)
                   PROVE  Exists(fs', p) \/ Removed(p)'
        BY DEF WayInv
      <3>1. Exists(fs, p) \/ Removed(p)
        BY <2>2, WayStep
      <3>2. p \in DOMAIN fs' \/ Removed(p)
        BY <2>2, <3>1, PlainStays DEF Exists
      <3>3. Removed(p) => Removed(p)'
        BY <2>2, RemovedStays
      <3> QED
        BY <3>2, <3>3 DEF Exists
    <2> QED
      BY <2>1, <2>2 DEF ItemsNext
  <1> QED
    BY <1>1, <1>2, ItemsIInvHolds, PTL DEF ItemsSpec

\* create_directories() puts back a folder on the way that another call has removed.
Recreates(t) ==
    \E n \in 1..Len(op[t].parent) :
       LET p == Ancestor(op[t].parent, n)
       IN  Removed(p) /\ ~ Exists(fs, p) /\ fs' = Put(fs, p, Folder)

\* What copy() does before its rename() is not visible, but for that.
LEMMA CopyUnseen ==
    ASSUME ItemsIInv, WayInv, NEW t \in Threads, Call(t) \/ Step(t),
           op[t].kind = "copy", op[t].pc \in BeforeRename
    PROVE  Visible(fs') = Visible(fs) \/ Recreates(t)
  <1>1. CASE fs' = fs
    BY <1>1
  <1>2. CASE MakeDirectory(t)
    <2>1. CASE Quiet(t)
      BY <1>1, <2>1 DEF Quiet
    <2>2. CASE /\ op[t].pc = "mkdir"
               /\ \E n \in 1..Len(op[t].parent), x \in Seq(Names) :
                     x = Ancestor(op[t].parent, n) /\ x \notin DOMAIN fs /\ fs' = Put(fs, x, Folder)
      BY <2>2 DEF WayInv, Recreates, Exists
    <2>3. CASE op[t].pc = "mkdir" /\ TmpPath(t) \notin DOMAIN fs /\ fs' = Put(fs, TmpPath(t), Folder)
      <3>1. /\ op[t].parent \in Seq(Names) /\ << >> \in Seq(Names)
            /\ TmpPath(t) = Tmp(op[t].parent, t, << >>)
        BY TmpPathIs DEF ItemsIInv
      <3>2. PICK x : x = Tmp(op[t].parent, t, << >>)
        OBVIOUS
      <3>3. x \notin DOMAIN fs /\ fs' = Put(fs, x, Folder)
        BY <2>3, <3>1, <3>2
      <3> QED
        BY <3>1, <3>2, <3>3, NewTmpUnseen
    <2> QED
      BY <1>2, <2>1, <2>2, <2>3, MakeDirectoryCases
  <1>3. CASE CopyEntry(t)
    <2>1. fs' = fs \/ \E b \in Seq(Names) : \E q, node :
             q = Tmp(op[t].parent, t, b) /\ q \notin DOMAIN fs /\ fs' = Put(fs, q, node)
      BY <1>3, CopyEntryTree
    <2>2. CASE fs' # fs
      <3>1. PICK b \in Seq(Names) : \E q, node :
               q = Tmp(op[t].parent, t, b) /\ q \notin DOMAIN fs /\ fs' = Put(fs, q, node)
        BY <2>1, <2>2
      <3>2. PICK q, node : q = Tmp(op[t].parent, t, b) /\ q \notin DOMAIN fs /\ fs' = Put(fs, q, node)
        BY <3>1
      <3>3. op[t].parent \in Seq(Names)
        BY DEF ItemsIInv, OpsInv, OpOK
      <3> QED
        BY <3>2, <3>3, NewTmpUnseen
    <2> QED
      BY <1>1, <2>2
  <1>4. CASE Quiet(t)
    BY <1>1, <1>4 DEF Quiet
  <1> QED
    BY StepShapes, <1>2, <1>3, <1>4
       DEF BeforeRename, CreateDirectory, RemoveEntry, MoveRename, CopyRename, CopyFileOpen, CopyFileWrite, At

\* What its rename() brings.
LEMMA CopyBrings ==
    ASSUME ItemsIInv, NEW t \in Threads, Call(t) \/ Step(t),
           op[t].kind = "copy", op[t].pc = "rename", op'[t].pc = "status", ~ TargetDisturbed(t),
           NEW p \in op[t].seen, Exists(fs, p), fs[p].type # "odd", ~ PutBack(t, p)
    PROVE  Exists(fs', Target(op[t]) \o SubSeq(p, Len(op[t].id) + 1, Len(p)))
  <1>1. ~ Quiet(t)
    <2>1. ASSUME Quiet(t) PROVE FALSE
      <3>1. op'[t].result \in Exceptions /\ OpsInv'
        BY <2>1 DEF Quiet
      <3> QED
        BY <3>1 DEF OpsInv, OpOK, Exceptions
    <2> QED
      BY <2>1
  <1>2. CopyRename(t)
    BY <1>1, StepShapes
       DEF CreateDirectory, RemoveEntry, MoveRename, MakeDirectory, CopyEntry, CopyFileOpen, CopyFileWrite, At
  <1>3. PICK s, d : s = TmpPath(t) /\ d = Target(op[t])
    OBVIOUS
  <1>4. RenameErrno(fs, s, d) = "ok" /\ fs' = Rename(fs, s, d)
    <2>1. \/ RenameErrno(fs, s, d) = "ok" /\ fs' = Rename(fs, s, d)
          \/ Finish(t, FsException(RenameErrno(fs, s, d)))
      BY <1>2, <1>3 DEF CopyRename, RenameTo
    <2>2. OpsInv
      BY DEF ItemsIInv
    <2> QED
      BY <2>1, <2>2, FinishOp
  <1>5. s \in DOMAIN fs /\ OpsInv /\ TreeInv
    BY <1>4, RenameOK DEF ItemsIInv
  <1>6. CopyOK(t)
    BY DEF ItemsIInv, CopyInv
  <1>7. p \in op[t].done
    BY <1>6 DEF CopyOK
  <1>8. CopiedTo(t, p) \in DOMAIN fs
    BY <1>3, <1>5, <1>6, <1>7 DEF CopyOK, Exists
  <1>9. PICK b : b = SubSeq(p, Len(op[t].id) + 1, Len(p))
    OBVIOUS
  <1>10. CopiedTo(t, p) = s \o b
    BY <1>3, <1>9 DEF CopiedTo, Tmp, TmpPath
  <1>11. b \in Seq(AllNames)
    <2>1. op[t].id \in Seq(Names) /\ p \in Seq(Names) /\ IsPrefix(op[t].id, p)
      BY <1>5 DEF OpsInv, OpOK
    <2>2. b \in Seq(Names)
      BY <1>9, <2>1, PrefixSplit
    <2> QED
      BY <2>2, PlainPath
  <1>12. DOMAIN fs \subseteq Seq(AllNames) /\ d \in Seq(AllNames)
    <2>1. d \in Seq(Names)
      BY <1>3, <1>5, TargetPlain DEF OpsInv
    <2> QED
      BY <1>5, <2>1, PathsAll, PlainPath
  <1>13. RenamedTo(fs, fs', s, d)
    BY <1>4, <1>5, <1>12, Renamed
  <1>14. d \o b \in DOMAIN fs'
    BY <1>8, <1>10, <1>11, <1>13 DEF RenamedTo
  <1> QED
    BY <1>3, <1>9, <1>14 DEF Exists

\* The copy of a folder appears all at once, and whole.
THEOREM CopyAppearsWholeHolds == ItemsSpec => CopyAppearsWhole
  <1> DEFINE Whole ==
         \A t \in Threads :
            /\ op[t].kind = "copy" /\ op[t].pc \in BeforeRename /\ op'[t] # op[t] =>
                 \/ Visible(fs') = Visible(fs)
                 \/ \E n \in 1..Len(op[t].parent) :
                       LET p == Ancestor(op[t].parent, n)
                       IN  Removed(p) /\ ~ Exists(fs, p) /\ fs' = Put(fs, p, Folder)
            /\ At(t, "copy", "rename") /\ op'[t].pc = "status" =>
                 \/ \A p \in op[t].seen :
                       Exists(fs, p) /\ fs[p].type # "odd" /\ ~ PutBack(t, p) =>
                          Exists(fs', Target(op[t]) \o SubSeq(p, Len(op[t].id) + 1, Len(p)))
                 \/ TargetDisturbed(t)
  <1>1. ItemsIInv /\ WayInv /\ [ItemsNext]_itemVars => [Whole]_itemVars
    <2> SUFFICES ASSUME ItemsIInv, WayInv, ItemsNext
                 PROVE  Whole
      OBVIOUS
    <2>1. CASE Start
      BY <2>1 DEF Start, At
    <2>2. ASSUME NEW u \in Threads, Call(u) \/ Step(u), NEW t \in Threads PROVE
             /\ op[t].kind = "copy" /\ op[t].pc \in BeforeRename /\ op'[t] # op[t] =>
                  Visible(fs') = Visible(fs) \/ Recreates(t)
             /\ At(t, "copy", "rename") /\ op'[t].pc = "status" =>
                  \/ \A p \in op[t].seen :
                        Exists(fs, p) /\ fs[p].type # "odd" /\ ~ PutBack(t, p) =>
                           Exists(fs', Target(op[t]) \o SubSeq(p, Len(op[t].id) + 1, Len(p)))
                  \/ TargetDisturbed(t)
      <3>1. CASE t # u
        <4>1. op'[t] = op[t]
          BY <2>2, <3>1, OthersStay
        <4> QED
          BY <4>1 DEF At
      <3>2. CASE t = u
        <4>1. op[t].kind = "copy" /\ op[t].pc \in BeforeRename =>
                 Visible(fs') = Visible(fs) \/ Recreates(t)
          BY <2>2, <3>2, CopyUnseen
        <4>2. ASSUME At(t, "copy", "rename"), op'[t].pc = "status", ~ TargetDisturbed(t),
                     NEW p \in op[t].seen, Exists(fs, p), fs[p].type # "odd", ~ PutBack(t, p)
              PROVE  Exists(fs', Target(op[t]) \o SubSeq(p, Len(op[t].id) + 1, Len(p)))
          BY <2>2, <3>2, <4>2, CopyBrings DEF At
        <4> QED
          BY <4>1, <4>2
      <3> QED
        BY <3>1, <3>2
    <2> QED
      BY <2>1, <2>2 DEF ItemsNext, Recreates
  <1> HIDE DEF Whole
  <1>2. ItemsSpec => [][Whole]_itemVars
    BY <1>1, ItemsIInvHolds, WayInvHolds, PTL DEF ItemsSpec
  <1> QED
    BY <1>2 DEF Whole, CopyAppearsWhole

============================================================================
