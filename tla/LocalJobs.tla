----------------------------- MODULE LocalJobs -----------------------------
(***************************************************************************)
(* Uploads and downloads of the local provider (LocalUploadJob.cpp and     *)
(* LocalDownloadJob.cpp) for one path.  The jobs live on the provider's    *)
(* main loop: one handler at a time.  But a handler makes several system   *)
(* calls, and the provider's own threads (LocalProvider) and other         *)
(* processes change the file system between them; and the process may die  *)
(* at any point.                                                           *)
(*                                                                         *)
(* A job is finished or cancelled once, when it is taken from the table of *)
(* pending jobs (PendingJobs).  UploadJobImpl::finish() holds the lock     *)
(* completion_lock_ while it calls the job's finish(), and report_error()  *)
(* takes the same lock.                                                    *)
(***************************************************************************)
EXTENDS Integers, Sequences

CONSTANTS
    Uploads,     \* upload jobs
    Downloads,   \* download jobs
    Size,        \* size_: bytes a client announces for an upload
    Mixes,       \* bound: sets of jobs that are started together
    Chunk,       \* READ_SIZE: bytes a download reads at a time
    FileSizes,   \* bound: sizes of files that others write
    MaxChanges   \* bound: changes by others

ASSUME SizesAssumption ==
    Size \in Nat /\ Chunk \in Nat \ {0} /\ FileSizes \subseteq Nat /\ MaxChanges \in Nat

ASSUME JobsAssumption == "others" \notin Uploads

VARIABLES
    path,      \* what is at the path: a file's number, NoFile or AFolder
    disk,      \* every file there was: [size, mtime, owner]
    vacated,   \* who removed the file when there is none: an upload or "others"
    changes,   \* number of changes by others
    main,      \* "free", "busy" within a finish(), "hung" or "crashed"
    up,        \* state of an upload job
    down       \* state of a download job

vars == <<path, disk, vacated, changes, main, up, down>>

NoFile == 0
AFolder == -1

\* ETags are modification times.  Every file gets another one, and 0 stands for the
\* empty ETag.
NoETag == 0
Now == Len(disk) + changes + 1

\* ETags that a client may hold.
ETags == {NoETag} \cup {disk[i].mtime : i \in 1..Len(disk)}

IsFile == path > 0
MTime == disk[path].mtime

NoUpload == [st |-> "none", mode |-> "create", overwrite |-> FALSE, etag |-> NoETag,
             left |-> Size, got |-> 0, socket |-> 0, connected |-> FALSE,
             completed |-> FALSE, pc |-> "idle", raced |-> FALSE,
             removed |-> NoFile, result |-> "none"]

NoDownload == [st |-> "none", file |-> NoFile, mtime |-> 0, size |-> 0, left |-> 0,
               offset |-> 0, pending |-> 0, completed |-> "none", result |-> "none"]

\* A job that is gone, and what its client was told.
Gone(job, result) == [job EXCEPT !.st = "gone", !.result = result]

\* In the beginning there is a file, a folder or nothing at the path.
Init ==
    /\ \E n \in FileSizes :
          /\ disk = <<[size |-> n, mtime |-> 1, owner |-> "others"]>>
          /\ path \in {1, NoFile, AFolder}
    /\ vacated = "others"
    /\ changes = 0
    /\ main = "free"
    /\ \E mix \in Mixes :
          /\ up = [u \in Uploads |-> IF u \in mix THEN NoUpload ELSE Gone(NoUpload, "none")]
          /\ down = [d \in Downloads |-> IF d \in mix THEN NoDownload ELSE Gone(NoDownload, "none")]

-----------------------------------------------------------------------------

FileSystem == <<path, disk, vacated>>

\* The constructor throws, and with it CreateFile or Update.
Refuse(u, exception) == up' = [up EXCEPT ![u] = Gone(@, exception)]

\* UploadJobImpl(): there may be no socket pair, before anything else is looked at.
UploadJobImpl(u, rest) == Refuse(u, "Resource") \/ rest

\* throw_storage_exception() for a QFileDevice::FileError, whichever it is.
FileException == "Resource"

\* prepare_channels(): the fallback for file systems without O_TMPFILE calls
\* mkstemp() with a template that does not end in XXXXXX, and always fails.
PrepareChannels(u, mode, overwrite, etag) ==
    \/ up' = [up EXCEPT ![u].st = "in_progress", ![u].mode = mode, ![u].etag = etag,
                        ![u].overwrite = overwrite, ![u].connected = TRUE]
    \/ Refuse(u, "Resource")

CreateFile(u) ==
    /\ main = "free" /\ up[u].st = "none"
    /\ UploadJobImpl(u, \E overwrite \in BOOLEAN :
          IF ~ overwrite /\ path # NoFile
          THEN Refuse(u, "Exists")
          ELSE PrepareChannels(u, "create", overwrite, NoETag))
    /\ UNCHANGED <<FileSystem, changes, main, down>>

Update(u) ==
    /\ main = "free" /\ up[u].st = "none"
    /\ UploadJobImpl(u, \E etag \in ETags :
          CASE path = NoFile                     -> Refuse(u, "NotExists")
            [] path = AFolder                    -> Refuse(u, "Logic")
            [] IsFile /\ etag \notin {NoETag, MTime} -> Refuse(u, "Conflict")
            [] OTHER                             -> PrepareChannels(u, "update", FALSE, etag))
    /\ UNCHANGED <<FileSystem, changes, main, down>>

\* The client writes a byte, perhaps one more than it has announced.
ClientWrites(u) ==
    /\ up[u].connected /\ up[u].result = "none"
    /\ up[u].got + up[u].socket <= Size
    /\ up' = [up EXCEPT ![u].socket = @ + 1]
    /\ UNCHANGED <<FileSystem, changes, main, down>>

\* The job after abort_upload(): the temporary file, which has no name, is closed.
Aborted(job) == [job EXCEPT !.st = "cancelled", !.connected = FALSE, !.socket = 0, !.left = 0]

\* The job after readAll() and write().
Drained(job) == [job EXCEPT !.left = @ - job.socket, !.got = @ + job.socket, !.socket = 0]

Surplus(job) == job.socket > job.left

\* on_bytes_ready() as a slot, also of readChannelFinished: too much data, or a
\* failing write(), end the upload with a report.
OnBytesReady(u) ==
    /\ main = "free" /\ up[u].result = "none"
    /\ up[u].connected /\ up[u].socket > 0
    /\ \/ ~ Surplus(up[u]) /\ up' = [up EXCEPT ![u] = Drained(@)]
       \/ up' = [up EXCEPT ![u] = [Aborted(@) EXCEPT !.completed = TRUE]]
    /\ UNCHANGED <<FileSystem, changes, main, down>>

CancelUpload(u) ==
    /\ main = "free"
    /\ up[u].connected \/ up[u].completed
    /\ up[u].result = "none"
    /\ up' = [up EXCEPT ![u] = Gone(NoUpload, "Cancelled")]
    /\ UNCHANGED <<FileSystem, changes, main, down>>

\* The checks that finish() repeats, in case the file was changed after the upload
\* had started.
CheckAgain(job) ==
    CASE job.mode = "create" /\ ~ job.overwrite /\ path # NoFile           -> "Exists"
      [] job.mode = "update" /\ job.etag # NoETag /\ path = AFolder        -> "Exists"
      [] job.mode = "update" /\ job.etag # NoETag /\ path = NoFile         -> "Resource"
      [] job.mode = "update" /\ job.etag # NoETag /\ IsFile /\ MTime # job.etag -> "Conflict"
      [] OTHER                                                             -> "ok"

\* Mutants: a finish() without the test for missing data, and one that does not
\* compare the ETag again.
FinishJob_Early(job, flushed) ==
    [Drained(job) EXCEPT !.st = "finished", !.pc = "checked"]
FinishJob_Unchecked(job, flushed) ==
    LET j == Drained(job)
    IN  IF j.left > 0 THEN Gone(NoUpload, "Logic")
        ELSE [j EXCEPT !.st = "finished", !.pc = "checked"]

\* The job once finish() has read what was left in the socket.  It is committed
\* then, but flush() may still fail.
FinishJob(job, flushed) ==
    LET j == Drained(job)
        check == IF CheckAgain(j) = "ok" /\ ~ flushed THEN FileException ELSE CheckAgain(j)
    IN  CASE j.left > 0                  -> Gone(NoUpload, "Logic")
          [] j.left = 0 /\ check # "ok" -> Gone(NoUpload, check)
          [] OTHER                       -> [j EXCEPT !.st = "finished", !.pc = "checked"]

\* UploadJobImpl::finish(): the outcome that was reported, or the job's finish().
\* Surplus data found there, or a failing write(), are reported under the lock that
\* UploadJobImpl::finish() holds, and the main loop never returns.
FinishUpload(u) ==
    /\ main = "free" /\ up[u].result = "none"
    /\ \/ /\ up[u].completed
          /\ up' = [up EXCEPT ![u] = Gone(NoUpload, "Reported")]
          /\ UNCHANGED main
       \/ /\ up[u].st = "in_progress" /\ ~ Surplus(up[u])
          /\ \E flushed \in BOOLEAN : LET job == FinishJob(up[u], flushed) IN
                /\ up' = [up EXCEPT ![u] = job]
                /\ main' = IF job.pc = "checked" THEN "busy" ELSE "free"
       \/ /\ up[u].st = "in_progress" /\ up[u].socket > 0
          /\ up' = [up EXCEPT ![u] = Aborted(@)]
          /\ main' = "hung"
    /\ UNCHANGED <<FileSystem, changes, down>>

\* Mutant: unlink() before the comparison of ETags, which may then still refuse.
Unlink_First(u) ==
    /\ main = "busy" /\ up[u].pc = "checked"
    /\ path' = IF IsFile THEN NoFile ELSE path
    /\ vacated' = IF IsFile THEN u ELSE vacated
    /\ up' = [up EXCEPT ![u] = Gone(NoUpload, "Conflict")]
    /\ main' = "free"
    /\ UNCHANGED <<disk, changes, down>>

\* unlink(2): "linkat() will not remove existing file".  A folder stays.
Unlink(u) ==
    /\ main = "busy" /\ up[u].pc = "checked"
    /\ up' = [up EXCEPT ![u].pc = "unlinked", ![u].removed = IF IsFile THEN path ELSE NoFile]
    /\ path' = IF IsFile THEN NoFile ELSE path
    /\ vacated' = IF IsFile THEN u ELSE vacated
    /\ UNCHANGED <<disk, changes, main, down>>

\* linkat(2) fails if something is there again, and may fail for other reasons.
Link(u) ==
    /\ main = "busy" /\ up[u].pc = "unlinked"
    /\ \/ /\ path = NoFile
          /\ disk' = Append(disk, [size |-> up[u].got, mtime |-> Now, owner |-> u])
          /\ path' = Len(disk) + 1
          /\ vacated' = "others"
          /\ up' = [up EXCEPT ![u].pc = "linked"]
          /\ UNCHANGED main
       \/ /\ up' = [up EXCEPT ![u] = [Gone(@, "Resource") EXCEPT !.pc = "failed"]]
          /\ main' = "free"
          /\ UNCHANGED FileSystem
    /\ UNCHANGED <<changes, down>>

\* status() and make_item() fail if the new file is gone already.
ReturnItem(u) ==
    /\ main = "busy" /\ up[u].pc = "linked"
    /\ up' = [up EXCEPT ![u] = [Gone(@, IF path # NoFile THEN "ok" ELSE "Resource")
                                EXCEPT !.pc = "returned"]]
    /\ main' = "free"
    /\ UNCHANGED <<FileSystem, changes, down>>

-----------------------------------------------------------------------------

\* DownloadJobImpl(): as for an upload, there may be no socket pair.
DownloadJobImpl(d, rest) == down' = [down EXCEPT ![d] = Gone(@, "Resource")] \/ rest

\* LocalDownloadJob(): the size is taken once, when the file is opened.
Download(d) ==
    /\ main = "free" /\ down[d].st = "none"
    /\ DownloadJobImpl(d, \E etag \in ETags, opened \in BOOLEAN :
          LET refused == CASE path = NoFile -> "NotExists"
                           [] path = AFolder -> "Logic"
                           [] IsFile /\ etag \notin {NoETag, MTime} -> "Conflict"
                           [] OTHER -> IF opened THEN "ok" ELSE FileException
          IN  down' = [down EXCEPT ![d] =
                  IF refused # "ok" THEN Gone(@, refused)
                  ELSE [@ EXCEPT !.st = "queued", !.file = path, !.mtime = MTime,
                                 !.size = disk[path].size, !.left = disk[path].size]])
    /\ UNCHANGED <<FileSystem, changes, main, up>>

\* Mutant: a chunk without bytes taken for the end of the file is not reported.
NextChunk_Silent(job) ==
    LET rest == disk[job.file].size - job.offset
        n == IF rest < 0 THEN 0 ELSE IF rest < Chunk THEN rest ELSE Chunk
    IN  [job EXCEPT !.st = "running", !.offset = @ + n, !.pending = @ + n]

\* read_and_write_chunk(): the end, or the next chunk of the open file.  After a
\* chunk of no bytes there is no signal that continues.
NextChunk(job) ==
    LET rest == disk[job.file].size - job.offset
        n == IF rest < 0 THEN 0 ELSE IF rest < Chunk THEN rest ELSE Chunk
    IN  IF job.left = 0
        THEN [job EXCEPT !.st = "closed", !.completed = "ok"]
        ELSE [job EXCEPT !.st = "running", !.offset = @ + n, !.pending = @ + n]

\* read() or write() fails.
Failed(job) == [job EXCEPT !.st = "closed", !.completed = "error"]

Running(d) == main = "free" /\ down[d].result = "none"

ReadAndWriteChunk(d) ==
    /\ Running(d) /\ down[d].st = "queued"
    /\ \/ down' = [down EXCEPT ![d] = NextChunk(@)]
       \/ down[d].left # 0 /\ down' = [down EXCEPT ![d] = Failed(@)]
    /\ UNCHANGED <<FileSystem, changes, main, up>>

\* on_bytes_written() for all or a part of what is in the socket.  The assertion
\* fails if the file has grown and a chunk went past its old end; a build without
\* assertions goes on.
OnBytesWritten(d) ==
    /\ Running(d) /\ down[d].st = "running"
    /\ \E n \in 1..down[d].pending :
          LET job == [down[d] EXCEPT !.left = @ - n, !.pending = @ - n]
          IN  \/ down' = [down EXCEPT ![d] = NextChunk(job)] /\ UNCHANGED main
              \/ job.left # 0 /\ down' = [down EXCEPT ![d] = Failed(job)] /\ UNCHANGED main
              \/ job.left < 0 /\ down' = [down EXCEPT ![d] = job] /\ main' = "crashed"
    /\ UNCHANGED <<FileSystem, changes, up>>

\* finish() and cancel(), one of them and once.
FinishDownload(d) ==
    /\ Running(d) /\ down[d].st \notin {"none", "gone"}
    /\ down' = [down EXCEPT ![d] = Gone(@,
                      CASE down[d].completed # "none" -> down[d].completed
                        [] down[d].completed = "none" /\ down[d].left > 0 -> "Logic"
                        [] OTHER -> "ok")]
    /\ UNCHANGED <<FileSystem, changes, main, up>>

CancelDownload(d) ==
    /\ Running(d) /\ down[d].st \notin {"none", "gone"}
    /\ down' = [down EXCEPT ![d] = Gone(NoDownload, "Cancelled")]
    /\ UNCHANGED <<FileSystem, changes, main, up>>

-----------------------------------------------------------------------------

\* Others change what is at the path: threads of the provider and other processes.
\* An upload between its checks and its unlink() does not notice.
Change ==
    /\ changes < MaxChanges /\ main # "crashed"
    /\ changes' = changes + 1
    /\ vacated' = "others"
    /\ up' = [u \in Uploads |-> [up[u] EXCEPT !.raced = @ \/ up[u].pc = "checked"]]
    /\ UNCHANGED <<main, down>>

OtherRemoves ==
    /\ path # NoFile
    /\ path' = NoFile
    /\ Change
    /\ UNCHANGED disk

OtherMakesFolder ==
    /\ path = NoFile
    /\ path' = AFolder
    /\ Change
    /\ UNCHANGED disk

OtherMovesFileHere ==
    /\ path # AFolder
    /\ \E n \in FileSizes :
          disk' = Append(disk, [size |-> n, mtime |-> Now, owner |-> "others"])
    /\ path' = Len(disk) + 1
    /\ Change

\* Another process writes into the file or truncates it.
OtherWrites ==
    /\ IsFile
    /\ \E n \in FileSizes :
          disk' = [disk EXCEPT ![path].size = n, ![path].mtime = Now, ![path].owner = "others"]
    /\ Change
    /\ UNCHANGED path

\* The provider's process dies within finish().  At other times its death changes
\* nothing at the path: the temporary files have no name.
Crash ==
    /\ main = "busy"
    /\ main' = "crashed"
    /\ UNCHANGED <<FileSystem, changes, up, down>>

UploadStep(u) == OnBytesReady(u) \/ Unlink(u) \/ Link(u) \/ ReturnItem(u)
DownloadStep(d) == ReadAndWriteChunk(d) \/ OnBytesWritten(d)

Next ==
    \/ \E u \in Uploads : \/ CreateFile(u) \/ Update(u) \/ ClientWrites(u)
                          \/ CancelUpload(u) \/ FinishUpload(u) \/ UploadStep(u)
    \/ \E d \in Downloads : \/ Download(d) \/ FinishDownload(d) \/ CancelDownload(d)
                            \/ DownloadStep(d)
    \/ OtherRemoves \/ OtherMakesFolder \/ OtherMovesFileHere \/ OtherWrites
    \/ Crash

Spec == Init /\ [][Next]_vars

\* The main loop runs what is ready.
FairSpec ==
    /\ Spec
    /\ \A u \in Uploads : WF_vars(UploadStep(u))
    /\ \A d \in Downloads : WF_vars(DownloadStep(d))

-----------------------------------------------------------------------------

TypeOK ==
    /\ main \in {"free", "busy", "hung", "crashed"}
    /\ path \in -1..Len(disk)
    /\ vacated \in Uploads \cup {"others"}
    /\ \A i \in 1..Len(disk) : disk[i].size \in Nat /\ disk[i].mtime \in 1..Now

\* Another process wrote into the file that a download has open.
FileChanged(d) == down[d].file # NoFile /\ disk[down[d].file].mtime # down[d].mtime

\* What a client sent is stored whole or not at all, whenever it calls finish() and
\* however its data are cut up (LocalUploadJob::finish, on_bytes_ready); and a
\* download that ends well has sent as many bytes as the file had when it was
\* opened, unless another process changed the file meanwhile.
WholeTransfers ==
    /\ \A i \in 1..Len(disk) : disk[i].owner \in Uploads => disk[i].size = Size
    /\ \A d \in Downloads :
          (down[d].result = "ok" \/ down[d].completed = "ok") =>
             \/ down[d].left = 0
             \/ down[d].left < 0 /\ FileChanged(d)

\* An upload removes a file only if the client asked for that: it allowed to
\* overwrite, gave no ETag, or gave the ETag of the very file that goes.  The one
\* exception is a change between the second check of finish() and unlink().  And
\* of two updates that started from the same ETag one at most succeeds.
AgreedReplacement ==
    /\ \A u \in Uploads :
          up[u].removed # NoFile /\ ~ up[u].raced =>
             \/ up[u].mode = "create" /\ up[u].overwrite
             \/ up[u].mode = "update" /\ up[u].etag \in {NoETag, disk[up[u].removed].mtime}
    /\ \A u, v \in Uploads :
          (/\ u # v
           /\ up[u].mode = "update" /\ up[v].mode = "update"
           /\ up[u].etag = up[v].etag /\ up[u].etag # NoETag)
          => ~ (up[u].result = "ok" /\ up[v].result = "ok")

\* An upload leaves nothing at the path only while it is between unlink() and
\* linkat(), for good if the provider dies there, or if it has reported that
\* linkat() failed.  An upload that is refused for any other reason, given up or
\* aborted leaves the old file alone.
GoneOnlyInTheWindow ==
    path = NoFile /\ vacated \in Uploads =>
        \/ up[vacated].pc = "unlinked" /\ main \in {"busy", "crashed"}
        \/ up[vacated].pc = "failed" /\ up[vacated].result = "Resource"

\* A download comes to an end by itself, if the client reads what it is sent and
\* no other process writes into the file: a file that shrinks stops it without a
\* report, one that grows may end the provider, and so may an upload with
\* surplus data.
DownloadEnds ==
    \A d \in Downloads :
        down[d].st \in {"queued", "running"} ~>
            \/ down[d].st \in {"closed", "gone"}
            \/ FileChanged(d)
            \/ main \in {"hung", "crashed"}

=============================================================================
