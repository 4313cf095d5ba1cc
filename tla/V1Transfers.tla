---------------------------- MODULE V1Transfers ----------------------------
(***************************************************************************)
(* Uploads and downloads of the local version of client library v1         *)
(* (UploaderImpl.cpp and DownloaderImpl.cpp of local_client): one of each, *)
(* on one path.  An UploaderImpl or DownloaderImpl lives in the client's   *)
(* thread and has a worker in a thread of its own.  They share a future    *)
(* and a pair of sockets; what the client wants, it sends as a queued      *)
(* signal.  The worker's event loop takes what the socket says and what is *)
(* queued in either order.  Other processes change the file meanwhile.     *)
(***************************************************************************)
EXTENDS Naturals, FiniteSets

CONSTANTS
    Bytes,        \* bytes the client announces, and bytes in the file at the beginning
    MaxReplaced   \* bound: changes by other processes

VARIABLES
    path,      \* what is at the path: "none", "old", "others", "empty" or "upload"
    replaced,  \* number of changes by others
    client,    \* "running"; "waiting" for ever in a constructor; "crashed"
    rootThere, \* the runtime is up, and the root of the file is there
    up,        \* the UploaderImpl and its UploadWorker
    down       \* the DownloaderImpl and its DownloadWorker

transferVars == <<path, replaced, client, rootThere, up, down>>

NoUpload == [obj |-> "none", st |-> "in_progress", file |-> FALSE, etag |-> "none",
             written |-> 0, got |-> 0, closed |-> FALSE, cancel |-> FALSE,
             lost |-> FALSE, step |-> "idle", linkat |-> TRUE, thread |-> FALSE, future |-> "none"]

NoDownload == [obj |-> "none", st |-> "in_progress", left |-> 0, chunk |-> 0, closed |-> FALSE,
               finish |-> FALSE, cancel |-> FALSE, thread |-> FALSE, future |-> "none"]

TransfersInit ==
    /\ path \in {"none", "old"}
    /\ replaced = 0
    /\ client = "running" /\ rootThere = TRUE
    /\ up = NoUpload /\ down = NoDownload

Running == client = "running"

\* A future keeps its first outcome.
Report(job, outcome) == [job EXCEPT !.future = IF @ = "none" THEN outcome ELSE @]

\* do_finish() ends the thread once the future has ended.
Quit(job) == [job EXCEPT !.thread = IF job.future = "none" THEN @ ELSE FALSE]

-----------------------------------------------------------------------------
\* Creating an upload

\* start_uploading(): the temporary file has no name, or on some kernels it has one.  If
\* it cannot be made at all, handle_error() uses an output_file_ that is not there.
StartUploading(job) ==
    \/ \E linkat \in BOOLEAN :
          up' = [job EXCEPT !.obj = "live", !.thread = TRUE, !.linkat = linkat] /\ UNCHANGED client
    \/ up' = [job EXCEPT !.obj = "live"] /\ client' = "crashed"

\* The constructor: there may be no socket pair.
MakeUploader(job) ==
    \/ StartUploading(job)
    \/ up' = Report([job EXCEPT !.obj = "broken"], "Resource") /\ UNCHANGED client

\* Folder::create_file(), and File::create_uploader() through a handle that was made
\* when the file was as it is now or, if it was changed since, as it was.
CreateFile ==
    /\ Running /\ rootThere /\ up.obj = "none" /\ path = "none"
    /\ MakeUploader(NoUpload)
    /\ UNCHANGED <<path, replaced, rootThere, down>>

CreateUploader ==
    /\ Running /\ rootThere /\ up.obj = "none"
    /\ MakeUploader([NoUpload EXCEPT !.file = TRUE, !.etag = "old"])
    /\ UNCHANGED <<path, replaced, rootThere, down>>

\* The uploader does not keep the File: when the client drops it, the update goes on as if
\* it came from create_file().
DropFile ==
    /\ Running /\ up.file /\ up.obj \in {"live", "dropped"}
    /\ up.step = "idle"    \* finalize() keeps it once it has it
    /\ up' = [up EXCEPT !.file = FALSE]
    /\ UNCHANGED <<path, replaced, rootThere, client, down>>

\* The client: bytes, perhaps too many; finish_upload(); cancel(); the destructor, which
\* cancels too and waits for the thread.  It asks a thread that is not there if there was
\* no socket pair.
ClientWrites ==
    /\ Running /\ up.obj = "live" /\ up.thread /\ ~ up.closed /\ up.written <= Bytes
    /\ up' = [up EXCEPT !.written = @ + 1]
    /\ UNCHANGED <<path, replaced, rootThere, client, down>>

FinishUpload ==
    /\ Running /\ up.obj = "live" /\ ~ up.closed
    /\ up' = [up EXCEPT !.closed = TRUE]
    /\ UNCHANGED <<path, replaced, rootThere, client, down>>

\* abort() drops what was not sent yet.
CancelUpload ==
    /\ Running /\ up.obj = "live" /\ ~ up.cancel
    /\ \E sent \in up.got..up.written :
          up' = [up EXCEPT !.cancel = TRUE, !.closed = TRUE, !.written = sent]
    /\ UNCHANGED <<path, replaced, rootThere, client, down>>

DropUploader ==
    /\ Running /\ up.obj \in {"live", "broken"}
    /\ up' = [up EXCEPT !.obj = "dropped", !.cancel = @ \/ up.thread]
    /\ client' = IF up.obj = "broken" THEN "crashed" ELSE client
    /\ UNCHANGED <<path, replaced, rootThere, down>>

-----------------------------------------------------------------------------
\* The worker of an upload

Working == client # "crashed" /\ up.thread /\ up.step = "idle"

\* Mutant: the number of bytes is not compared.
UploadDoFinish_AnySize(job) ==
    CASE job.st = "in_progress" -> [job EXCEPT !.st = "finalized", !.step = "check"]
      [] job.st = "cancelled"   -> Quit(Report(job, "Cancelled"))
      [] OTHER                  -> Quit(Report(job, "Resource"))

\* do_finish(): with the right number of bytes the upload is finalised; with another one
\* it stays in progress, but the thread ends.
UploadDoFinish(job) ==
    CASE job.st = "in_progress" /\ job.got # Bytes -> Quit(Report(job, "Logic"))
      [] job.st = "in_progress" /\ job.got = Bytes -> [job EXCEPT !.st = "finalized", !.step = "check"]
      [] job.st = "cancelled"                     -> Quit(Report(job, "Cancelled"))
      [] OTHER                                    -> Quit(Report(job, "Resource"))

\* handle_error(): abort() leaves the slots connected, and readChannelFinished may come
\* back into do_finish() before the state says error.  If all of the bytes were counted,
\* the upload is then finalised, without those that could not be written.
UploadErrors(job) ==
    LET again == UploadDoFinish(job) IN
    { Quit(Report([job EXCEPT !.st = "error"], "Resource")),
      IF again.step = "idle" THEN [again EXCEPT !.st = "error"] ELSE again }

OnBytesReady ==
    /\ Working /\ up.st = "in_progress" /\ up.got < up.written
    /\ \E n \in (up.got + 1)..up.written :
          \/ up' = [up EXCEPT !.got = n]
          \/ up' \in UploadErrors([up EXCEPT !.got = n, !.lost = TRUE])
    /\ UNCHANGED <<path, replaced, rootThere, client, down>>

\* What is left in the socket is read first.
OnReadChannelFinished ==
    /\ Working /\ up.closed /\ up.st \in {"in_progress", "error"} /\ up.future = "none"
    /\ up' = UploadDoFinish([up EXCEPT !.got = up.written])
    /\ UNCHANGED <<path, replaced, rootThere, client, down>>

UploadDoCancel ==
    /\ Working /\ up.cancel /\ up.st = "in_progress"
    /\ up' = UploadDoFinish([up EXCEPT !.st = "cancelled"])
    /\ UNCHANGED <<path, replaced, rootThere, client, down>>

FinalizeFails(outcome) == up' = Quit(Report([up EXCEPT !.st = "error", !.step = "idle"], outcome))

\* has_conflict(): the ETag of the handle and that of the file now, if there is one.
HasConflict == path # up.etag

\* finalize(), one system call after the other: the ETags are compared whatever the policy
\* is; a new file is made with O_EXCL and is empty at first.
CheckConflict ==
    /\ up.step = "check" /\ client # "crashed"
    /\ IF up.file
       THEN /\ IF HasConflict
               THEN FinalizeFails("Conflict")
               ELSE up' = [up EXCEPT !.step = "flush"]
            /\ UNCHANGED path
       ELSE IF path = "none"
            THEN path' = "empty" /\ up' = [up EXCEPT !.step = "flush"]
            ELSE FinalizeFails("Exists") /\ UNCHANGED path
    /\ UNCHANGED <<replaced, rootThere, client, down>>

\* make_file() of the new file throws if it is gone already, and native_identity() if the
\* runtime or the root is, out of the worker's slot.
Flush ==
    /\ up.step = "flush" /\ client # "crashed"
    /\ \/ /\ rootThere /\ UNCHANGED client
          /\ up' = [up EXCEPT !.step = IF up.linkat THEN "unlink" ELSE "rename"]
       \/ FinalizeFails("Resource") /\ UNCHANGED client
       \/ /\ ~ rootThere \/ (~ up.file /\ path = "none")
          /\ client' = "crashed" /\ UNCHANGED up
    /\ UNCHANGED <<path, replaced, rootThere, down>>

Unlink ==
    /\ up.step = "unlink" /\ client # "crashed"
    /\ path' = "none"
    /\ up' = [up EXCEPT !.step = "link"]
    /\ UNCHANGED <<replaced, rootThere, client, down>>

Stored == Quit(Report([up EXCEPT !.step = "idle", !.st = IF up.lost THEN "error" ELSE @], "file"))

\* The message about the failure has the name of the file.
FailsByName ==
    /\ IF rootThere
       THEN FinalizeFails("Resource") /\ UNCHANGED client
       ELSE client' = "crashed" /\ UNCHANGED up
    /\ UNCHANGED path

\* linkat() does not replace a file; rename() does.
Link ==
    /\ up.step = "link" /\ client # "crashed"
    /\ \/ path = "none" /\ path' = "upload" /\ up' = Stored /\ UNCHANGED client
       \/ FailsByName
    /\ UNCHANGED <<replaced, rootThere, down>>

RenameUpload ==
    /\ up.step = "rename" /\ client # "crashed"
    /\ \/ path' = "upload" /\ up' = Stored /\ UNCHANGED client
       \/ FailsByName
    /\ UNCHANGED <<replaced, rootThere, down>>

-----------------------------------------------------------------------------
\* Downloads

\* start_downloading(): the worker sends the first chunk, or closes the socket of an empty
\* file.  It does not say that it has started if it cannot open the file, and the
\* constructor waits for that.  The future says Resource, or ok if the abort() of
\* handle_error() comes back into do_finish() first, with no bytes to write yet.
StartDownloading ==
    \/ /\ path # "none"
       /\ LET n == IF path = "empty" THEN 0 ELSE Bytes IN
          down' = [NoDownload EXCEPT !.obj = "live", !.thread = TRUE, !.left = n,
                                     !.chunk = IF n = 0 THEN 0 ELSE 1, !.closed = (n = 0)]
       /\ UNCHANGED client
    \/ /\ \E outcome \in {"Resource", "ok"} :
             down' = Report([NoDownload EXCEPT !.obj = "live", !.st = "error"], outcome)
       /\ client' = "waiting"

CreateDownloader ==
    /\ Running /\ rootThere /\ down.obj = "none"
    /\ \/ StartDownloading
       \/ down' = Report([NoDownload EXCEPT !.obj = "broken"], "Resource") /\ UNCHANGED client  \* no socket pair
    /\ UNCHANGED <<path, replaced, rootThere, up>>

FinishDownload ==
    /\ Running /\ down.obj = "live" /\ down.thread /\ ~ down.finish
    /\ down' = [down EXCEPT !.finish = TRUE]
    /\ UNCHANGED <<path, replaced, rootThere, client, up>>

CancelDownload ==
    /\ Running /\ down.obj = "live" /\ down.thread /\ ~ down.cancel
    /\ down' = [down EXCEPT !.cancel = TRUE]
    /\ UNCHANGED <<path, replaced, rootThere, client, up>>

\* The client closes its end, or drops the downloader.
CloseSocket ==
    /\ Running /\ down.obj = "live" /\ down.thread /\ ~ down.closed
    /\ down' = [down EXCEPT !.closed = TRUE]
    /\ UNCHANGED <<path, replaced, rootThere, client, up>>

DropDownloader ==
    /\ Running /\ down.obj \in {"live", "broken"}
    /\ down' = [down EXCEPT !.obj = "dropped", !.cancel = @ \/ down.thread]
    /\ client' = IF down.obj = "broken" THEN "crashed" ELSE client
    /\ UNCHANGED <<path, replaced, rootThere, up>>

Serving == client # "crashed" /\ down.thread

\* do_finish() of a download always ends the future and the thread.  A second one, after
\* the download was finalised, aborts: events that were already there when quit() was
\* called may still be delivered.
DoFinish(job) ==
    CASE job.st = "in_progress" /\ job.left > 0 -> [Report(job, "Logic") EXCEPT !.thread = FALSE]
      [] job.st = "in_progress" /\ job.left = 0 ->
            [Report(job, "ok") EXCEPT !.thread = FALSE, !.st = "finalized"]
      [] job.st = "cancelled"                   -> [Report(job, "Cancelled") EXCEPT !.thread = FALSE]
      [] OTHER                                  -> [Report(job, "Resource") EXCEPT !.thread = FALSE]

\* The socket took a chunk; the next one is read and written, unless that fails.  Then
\* too abort() may come back into do_finish() first.
OnBytesWritten ==
    /\ Serving /\ down.st = "in_progress" /\ down.chunk > 0 /\ ~ down.closed
    /\ \/ down' = [down EXCEPT !.left = @ - 1, !.chunk = IF down.left = 1 THEN 0 ELSE 1,
                               !.closed = (down.left = 1)]
       \/ \E job \in {down, DoFinish(down)} : down' = DoFinish([job EXCEPT !.st = "error"])
    /\ UNCHANGED <<path, replaced, rootThere, client, up>>

\* on_disconnected(), or on_error() if the client closed its end too early.
OnDisconnected ==
    /\ Serving /\ down.closed
    /\ \/ down' = DoFinish(down)
       \/ down.left > 0 /\ down' = DoFinish([down EXCEPT !.st = "error"])
    /\ UNCHANGED <<path, replaced, rootThere, client, up>>

\* Mutant: finish_download() asks for the outcome, and do_finish() waits for more data.
DownloadDoFinish_Waits ==
    /\ Serving /\ down.finish /\ down.left = 0
    /\ down' = DoFinish(down)
    /\ UNCHANGED <<path, replaced, rootThere, client, up>>

DownloadDoFinish ==
    /\ Serving /\ down.finish
    /\ down' = DoFinish(down)
    /\ UNCHANGED <<path, replaced, rootThere, client, up>>

DownloadDoCancel ==
    /\ Serving /\ down.cancel /\ down.st = "in_progress"
    /\ down' = DoFinish([down EXCEPT !.st = "cancelled", !.left = 0])
    /\ UNCHANGED <<path, replaced, rootThere, client, up>>

LateFinish ==
    /\ client # "crashed" /\ down.finish /\ down.st = "finalized" /\ ~ down.thread
    /\ client' = "crashed"
    /\ UNCHANGED <<path, replaced, rootThere, up, down>>

-----------------------------------------------------------------------------

OthersReplace ==
    /\ replaced < MaxReplaced /\ client # "crashed"
    /\ replaced' = replaced + 1
    /\ path' \in {"none", "others"} \ {path}
    /\ UNCHANGED <<client, rootThere, up, down>>

\* The client shuts the runtime down, or drops it with the account and the root.
DropRuntime ==
    /\ Running /\ rootThere /\ rootThere' = FALSE
    /\ UNCHANGED <<path, replaced, client, up, down>>

ClientSteps ==
    \/ CreateFile \/ CreateUploader \/ DropFile \/ ClientWrites \/ FinishUpload \/ CancelUpload \/ DropUploader
    \/ CreateDownloader \/ FinishDownload \/ CancelDownload \/ CloseSocket \/ DropDownloader
    \/ DropRuntime

UploadSteps ==
    \/ OnBytesReady \/ OnReadChannelFinished \/ UploadDoCancel
    \/ CheckConflict \/ Flush \/ Unlink \/ Link \/ RenameUpload

DownloadEnds == OnDisconnected \/ DownloadDoFinish \/ DownloadDoCancel

TransfersNext == ClientSteps \/ UploadSteps \/ OnBytesWritten \/ DownloadEnds \/ LateFinish \/ OthersReplace

\* The workers' threads run.  A client need not read: bytesWritten may never come.
TransfersFairness == WF_transferVars(UploadSteps) /\ WF_transferVars(DownloadEnds)

TransfersSpec == TransfersInit /\ [][TransfersNext]_transferVars /\ TransfersFairness

-----------------------------------------------------------------------------
TransfersTypeOK ==
    /\ path \in {"none", "old", "others", "empty", "upload"}
    /\ client \in {"running", "waiting", "crashed"}
    /\ up.st \in {"in_progress", "finalized", "cancelled", "error"}
    /\ down.st \in {"in_progress", "finalized", "cancelled", "error"}
    /\ down.left \in 0..Bytes /\ up.got \in 0..(Bytes + 1)

\* The future of an upload tells the truth.  A file is there for the client only if the
\* worker has read all of its bytes, and with an exception nothing of the upload is at
\* the path, even if cancel() or a dropped Uploader came while the worker was finalising
\* or a write failed; all that may be left is the empty file that create_file() has made
\* to reserve the name.  Not claimed: that the bytes of the last write are in the file
\* (see UploadErrors).
TrueUploads ==
    /\ path = "upload" \/ up.future = "file" => up.got = Bytes
    /\ path = "upload" => up.future = "file"
    /\ path = "empty" => ~ up.file
    /\ up.future \in {"Cancelled", "Logic", "Conflict", "Exists"} => path \notin {"upload", "empty"}

\* What the client asked for has an outcome: the future of an upload that was finished,
\* cancelled or dropped ends, that of a download too, and so the threads that a
\* destructor waits for.  Two cases are excepted: the constructor that waits for ever
\* after it could not open the file, and crashes.
TransferFuturesEnd ==
    /\ (up.closed \/ up.cancel) ~> (client # "running" \/ (up.future # "none" /\ ~ up.thread))
    /\ (down.finish \/ down.cancel \/ down.closed) ~>
          (client # "running" \/ (down.future # "none" /\ ~ down.thread))

=============================================================================
