----------------------------- MODULE Transfers -----------------------------
(***************************************************************************)
(* Uploads and downloads as a client of the v2 API sees them               *)
(* (UploaderImpl.cpp, DownloaderImpl.cpp, RuntimeImpl.cpp): a Loading      *)
(* phase until the provider has answered CreateFile, Update or Download, a *)
(* Ready phase in which the socket is used, and a final state.  Client     *)
(* calls, replies, time-outs of the D-Bus calls and the shutdown of the    *)
(* runtime come in any order.  The provider is external: it creates a job, *)
(* and finishes or cancels it when it is told to.                          *)
(***************************************************************************)
EXTENDS Naturals, Sequences

CONSTANTS
    Uploads, Downloads,
    MaxChunks   \* bound: how many chunks of data a client writes

Transfers == Uploads \cup Downloads

ASSUME TransfersAssumption ==
    /\ Uploads \cap Downloads = {}
    /\ MaxChunks \in Nat

VARIABLES
    status,      \* status_; "none" before make_job
    finalizing,  \* finalizing_
    gone,        \* the client has destroyed its object
    hasId,       \* upload_id_, download_id_ is set
    accepted,    \* how many chunks writeData() has taken
    buffer,      \* buffer_
    stream,      \* what was written to the socket so far
    socket,      \* socket_
    call,        \* the reply of CreateFile, Update or Download
    finish,      \* the reply of FinishUpload or FinishDownload
    runtime,     \* "valid" or "destroyed"
    asked,       \* external: calls on their way to the provider
    job          \* external: the provider's job

clientVars == <<status, finalizing, gone, hasId, accepted, buffer, stream, socket>>
providerVars == <<asked, job>>
vars == <<clientVars, providerVars, call, finish, runtime>>

Final == {"cancelled", "finished", "error"}
Statuses == {"none", "loading", "ready"} \cup Final
CallStates == {"none", "sent", "ok", "failed", "handled"}
Sockets == {"none", "open", "closing", "aborted"}
Jobs == {"none", "creating", "active", "refused", "finished", "failed", "cancelled"}

Init ==
    /\ status = [t \in Transfers |-> "none"]
    /\ finalizing = [t \in Transfers |-> FALSE]
    /\ gone = [t \in Transfers |-> FALSE]
    /\ hasId = [t \in Transfers |-> FALSE]
    /\ accepted = [t \in Transfers |-> 0]
    /\ buffer = [t \in Transfers |-> << >>]
    /\ stream = [t \in Transfers |-> << >>]
    /\ socket = [t \in Transfers |-> "none"]
    /\ call = [t \in Transfers |-> "none"]
    /\ finish = [t \in Transfers |-> "none"]
    /\ runtime = "valid"
    /\ asked = [t \in Transfers |-> {}]
    /\ job = [t \in Transfers |-> "none"]

-----------------------------------------------------------------------------
(***************************************************************************)
(* The provider, and the bus between it and the client.                    *)
(***************************************************************************)
ProviderCreates(t, ok) ==
    /\ job[t] = "creating"
    /\ job' = [job EXCEPT ![t] = IF ok THEN "active" ELSE "refused"]
    /\ call' = [call EXCEPT ![t] = IF @ # "sent" THEN @ ELSE IF ok THEN "ok" ELSE "failed"]
    /\ UNCHANGED <<clientVars, asked, finish, runtime>>

\* A finished job is out of the provider's table; one that is not there any
\* more is answered with an error.
ProviderFinishes(t, ok) ==
    /\ "finish" \in asked[t]
    /\ ok => job[t] = "active"
    /\ asked' = [asked EXCEPT ![t] = @ \ {"finish"}]
    /\ job' = [job EXCEPT ![t] = IF @ # "active" THEN @ ELSE IF ok THEN "finished" ELSE "failed"]
    /\ finish' = [finish EXCEPT ![t] = IF @ # "sent" THEN @ ELSE IF ok THEN "ok" ELSE "failed"]
    /\ UNCHANGED <<clientVars, call, runtime>>

ProviderCancels(t) ==
    /\ "cancel" \in asked[t]
    /\ asked' = [asked EXCEPT ![t] = @ \ {"cancel"}]
    /\ job' = [job EXCEPT ![t] = IF @ = "active" THEN "cancelled" ELSE @]
    /\ UNCHANGED <<clientVars, call, finish, runtime>>

\* The client's side gives up on a call; the provider still handles it.
TimeOut(t) ==
    /\ \/ call[t] = "sent" /\ call' = [call EXCEPT ![t] = "failed"] /\ UNCHANGED finish
       \/ finish[t] = "sent" /\ finish' = [finish EXCEPT ![t] = "failed"] /\ UNCHANGED call
    /\ UNCHANGED <<clientVars, providerVars, runtime>>

-----------------------------------------------------------------------------
(***************************************************************************)
(* The client.                                                             *)
(***************************************************************************)
\* make_job(), from ItemImpl, with a call under way ...
MakeJob(t) ==
    /\ status[t] = "none"
    /\ runtime = "valid"
    /\ status' = [status EXCEPT ![t] = "loading"]
    /\ call' = [call EXCEPT ![t] = "sent"]
    /\ job' = [job EXCEPT ![t] = "creating"]
    /\ UNCHANGED <<finalizing, gone, hasId, accepted, buffer, stream, socket, finish,
                   runtime, asked>>

\* ... or with an error that was found before any call.
MakeFailedJob(t) ==
    /\ status[t] = "none"
    /\ status' = [status EXCEPT ![t] = "error"]
    /\ UNCHANGED <<finalizing, gone, hasId, accepted, buffer, stream, socket, call, finish,
                   runtime, providerVars>>

\* check_invalid_or_destroyed(): the item is one the client got, and not one
\* made by its default constructor.
Usable(item) == item # "invalid" /\ runtime = "valid"

MakeUploader(t, ok) == t \in Uploads /\ IF ok THEN MakeJob(t) ELSE MakeFailedJob(t)
MakeDownloader(t, ok) == t \in Downloads /\ IF ok THEN MakeJob(t) ELSE MakeFailedJob(t)

\* argsOk: the size is not negative and, for a new file, the name not empty.
CreateFile(t, item, argsOk) == MakeUploader(t, Usable(item) /\ item = "folder" /\ argsOk)
CreateUploader(t, item, argsOk) == MakeUploader(t, Usable(item) /\ item = "file" /\ argsOk)
CreateDownloader(t, item) == MakeDownloader(t, Usable(item) /\ item = "file")

Create(t) ==
    \E item \in {"file", "folder", "invalid"}, argsOk \in BOOLEAN :
        CreateFile(t, item, argsOk) \/ CreateUploader(t, item, argsOk) \/ CreateDownloader(t, item)

\* socket_.abort()
Abort(t) == socket' = [socket EXCEPT ![t] = IF @ = "none" THEN @ ELSE "aborted"]

SetStatus(t, s) == status' = [status EXCEPT ![t] = s]

\* Mutant: what was written while Loading is not flushed.
FlushBuffer_Forgets(t) == UNCHANGED <<buffer, stream>>

\* flush_buffer()
FlushBuffer(t) ==
    /\ stream' = [stream EXCEPT ![t] = @ \o buffer[t]]
    /\ buffer' = [buffer EXCEPT ![t] = << >>]

\* writeData(): buffered while Loading, afterwards written behind the buffer;
\* a socket that is closing may still take data.
WriteData(t) ==
    /\ t \in Uploads /\ ~gone[t]
    /\ accepted[t] < MaxChunks
    /\ accepted' = [accepted EXCEPT ![t] = @ + 1]
    /\ \/ /\ status[t] = "loading"
          /\ buffer' = [buffer EXCEPT ![t] = Append(@, accepted[t] + 1)]
          /\ UNCHANGED stream
       \/ /\ status[t] = "ready" /\ socket[t] \in {"open", "closing"}
          /\ stream' = [stream EXCEPT ![t] = Append(@ \o buffer[t], accepted[t] + 1)]
          /\ buffer' = [buffer EXCEPT ![t] = << >>]
    /\ UNCHANGED <<status, finalizing, gone, hasId, socket, call, finish, runtime, providerVars>>

\* process_reply of the constructor, also run by waitForBytesWritten().
ProcessReply(t, fdValid) ==
    /\ ~gone[t] /\ call[t] = "ok"
    /\ call' = [call EXCEPT ![t] = "handled"]
    /\ \/ /\ status[t] # "loading"
          /\ UNCHANGED <<status, hasId, buffer, stream, socket>>
       \/ /\ status[t] = "loading" /\ runtime = "destroyed"
          /\ SetStatus(t, "error")
          /\ Abort(t)
          /\ UNCHANGED <<hasId, buffer, stream>>
       \/ /\ status[t] = "loading" /\ runtime = "valid" /\ ~fdValid
          /\ hasId' = [hasId EXCEPT ![t] = TRUE]
          /\ SetStatus(t, "error")
          /\ Abort(t)
          /\ UNCHANGED <<buffer, stream>>
       \/ /\ status[t] = "loading" /\ runtime = "valid" /\ fdValid
          /\ hasId' = [hasId EXCEPT ![t] = TRUE]
          /\ socket' = [socket EXCEPT ![t] = "open"]
          /\ FlushBuffer(t)
          /\ SetStatus(t, "ready")
    /\ UNCHANGED <<finalizing, gone, accepted, finish, runtime, providerVars>>

\* process_error of the constructor: it does not look at the status.
ProcessError(t) ==
    /\ ~gone[t] /\ call[t] = "failed"
    /\ call' = [call EXCEPT ![t] = "handled"]
    /\ SetStatus(t, "error")
    /\ Abort(t)
    /\ UNCHANGED <<finalizing, gone, hasId, accepted, buffer, stream, finish, runtime,
                   providerVars>>

\* Mutant: cancel() of an upload tells the provider nothing.
CancelNow_Silent(t) ==
    IF runtime = "destroyed"
    THEN SetStatus(t, "error") /\ UNCHANGED <<socket, asked>>
    ELSE SetStatus(t, "cancelled") /\ Abort(t) /\ UNCHANGED asked

\* cancel() before a final state.  The provider is told of a cancelled upload
\* if its id is known already, and of a cancelled download never.
CancelNow(t) ==
    IF runtime = "destroyed"
    THEN SetStatus(t, "error") /\ UNCHANGED <<socket, asked>>
    ELSE /\ asked' = [asked EXCEPT ![t] = IF t \in Uploads /\ hasId[t]
                                          THEN @ \cup {"cancel"} ELSE @]
         /\ Abort(t)
         /\ SetStatus(t, "cancelled")

Cancel(t) ==
    /\ ~gone[t] /\ status[t] \in {"loading", "ready"}
    /\ CancelNow(t)
    /\ UNCHANGED <<finalizing, gone, hasId, accepted, buffer, stream, call, finish, runtime, job>>

\* close(), which is ignored once it was called or something went wrong.
Close(t) ==
    /\ ~gone[t] /\ status[t] \in {"loading", "ready", "finished"} /\ ~finalizing[t]
    /\ \/ /\ status[t] # "ready"
          /\ SetStatus(t, "error")
          /\ Abort(t)
          /\ UNCHANGED <<finalizing, buffer, stream, finish, asked>>
       \/ /\ status[t] = "ready" /\ runtime = "destroyed"
          /\ SetStatus(t, "error")
          /\ UNCHANGED <<finalizing, buffer, stream, socket, finish, asked>>
       \/ /\ status[t] = "ready" /\ runtime = "valid"
          /\ finalizing' = [finalizing EXCEPT ![t] = TRUE]
          /\ FlushBuffer(t)
          /\ socket' = [socket EXCEPT ![t] = IF t \in Uploads THEN "closing" ELSE @]
          /\ finish' = [finish EXCEPT ![t] = "sent"]
          /\ asked' = [asked EXCEPT ![t] = @ \cup {"finish"}]
          /\ UNCHANGED status
    /\ UNCHANGED <<gone, hasId, accepted, call, runtime, job>>

\* process_reply of close(); valid: the metadata pass validate_().
FinishReply(t, valid) ==
    /\ ~gone[t] /\ finish[t] = "ok"
    /\ finish' = [finish EXCEPT ![t] = "handled"]
    /\ \/ /\ status[t] \in {"cancelled", "error"}
          /\ UNCHANGED <<status, socket>>
       \/ /\ status[t] \notin {"cancelled", "error"} /\ runtime = "destroyed"
          /\ SetStatus(t, "error")
          /\ Abort(t)
       \/ /\ status[t] \notin {"cancelled", "error"} /\ runtime = "valid"
          /\ SetStatus(t, IF valid \/ t \in Downloads THEN "finished" ELSE "error")
          /\ UNCHANGED socket
    /\ UNCHANGED <<finalizing, gone, hasId, accepted, buffer, stream, call, runtime, providerVars>>

\* Mutant: a failed FinishUpload is taken for a success.
FinishError_Ignored(t) ==
    /\ ~gone[t] /\ finish[t] = "failed"
    /\ finish' = [finish EXCEPT ![t] = "handled"]
    /\ SetStatus(t, IF status[t] = "ready" THEN "finished" ELSE status[t])
    /\ UNCHANGED <<finalizing, gone, hasId, accepted, buffer, stream, socket, call, runtime,
                   providerVars>>

\* Mutant: a failed FinishUpload leaves the status alone.
FinishError_Silent(t) ==
    /\ ~gone[t] /\ finish[t] = "failed"
    /\ finish' = [finish EXCEPT ![t] = "handled"]
    /\ UNCHANGED <<clientVars, call, runtime, providerVars>>

\* process_error of close().
FinishError(t) ==
    /\ ~gone[t] /\ finish[t] = "failed"
    /\ finish' = [finish EXCEPT ![t] = "handled"]
    /\ IF status[t] = "ready"
       THEN SetStatus(t, "error") /\ Abort(t)
       ELSE UNCHANGED <<status, socket>>
    /\ UNCHANGED <<finalizing, gone, hasId, accepted, buffer, stream, call, runtime, providerVars>>

\* The destructor cancels what is Ready; the socket and the handlers of
\* replies go with the object.
Destroy(t) ==
    /\ status[t] # "none" /\ ~gone[t]
    /\ gone' = [gone EXCEPT ![t] = TRUE]
    /\ IF status[t] = "ready" THEN CancelNow(t) ELSE UNCHANGED <<status, socket, asked>>
    /\ UNCHANGED <<finalizing, hasId, accepted, buffer, stream, call, finish, runtime, job>>

\* Runtime::shutdown()
Shutdown ==
    /\ runtime = "valid"
    /\ runtime' = "destroyed"
    /\ UNCHANGED <<clientVars, providerVars, call, finish>>

-----------------------------------------------------------------------------
(***************************************************************************)
(* The two classes.  They have no common base: each line of the shared     *)
(* definitions above is there twice.                                       *)
(***************************************************************************)
UploadReply(t, fdValid) == t \in Uploads /\ ProcessReply(t, fdValid)
UploadError(t) == t \in Uploads /\ ProcessError(t)
FinishUploadReply(t, valid) == t \in Uploads /\ FinishReply(t, valid)
FinishUploadError(t) == t \in Uploads /\ FinishError(t)
CancelUpload(t) == t \in Uploads /\ Cancel(t)
CloseUpload(t) == t \in Uploads /\ Close(t)
DestroyUploader(t) == t \in Uploads /\ Destroy(t)

DownloadReply(t, fdValid) == t \in Downloads /\ ProcessReply(t, fdValid)
DownloadError(t) == t \in Downloads /\ ProcessError(t)
FinishDownloadReply(t) == t \in Downloads /\ FinishReply(t, TRUE)
FinishDownloadError(t) == t \in Downloads /\ FinishError(t)
CancelDownload(t) == t \in Downloads /\ Cancel(t)
CloseDownload(t) == t \in Downloads /\ Close(t)
DestroyDownloader(t) == t \in Downloads /\ Destroy(t)

Reply(t) ==
    \/ \E b \in BOOLEAN : UploadReply(t, b) \/ FinishUploadReply(t, b) \/ DownloadReply(t, b)
    \/ UploadError(t) \/ FinishUploadError(t)
    \/ DownloadError(t) \/ FinishDownloadReply(t) \/ FinishDownloadError(t)

Provider(t) ==
    \/ \E ok \in BOOLEAN : ProviderCreates(t, ok) \/ ProviderFinishes(t, ok)
    \/ ProviderCancels(t)

Next ==
    \/ \E t \in Transfers :
         \/ Create(t) \/ WriteData(t)
         \/ CancelUpload(t) \/ CloseUpload(t) \/ DestroyUploader(t)
         \/ CancelDownload(t) \/ CloseDownload(t) \/ DestroyDownloader(t)
         \/ Reply(t) \/ Provider(t) \/ TimeOut(t)
    \/ Shutdown

Spec == Init /\ [][Next]_vars

\* The provider handles what it is asked and replies are delivered; what the
\* application does is up to it.
FairSpec ==
    /\ Spec
    /\ \A t \in Transfers : WF_vars(Reply(t)) /\ WF_vars(Provider(t))

-----------------------------------------------------------------------------
(***************************************************************************)
(* Properties.                                                             *)
(***************************************************************************)
\* Types of the variables of client and provider.
TypeOK ==
    /\ status \in [Transfers -> Statuses]
    /\ finalizing \in [Transfers -> BOOLEAN]
    /\ gone \in [Transfers -> BOOLEAN]
    /\ hasId \in [Transfers -> BOOLEAN]
    /\ accepted \in [Transfers -> Nat]
    /\ buffer \in [Transfers -> Seq(Nat)]
    /\ stream \in [Transfers -> Seq(Nat)]
    /\ socket \in [Transfers -> Sockets]
    /\ call \in [Transfers -> CallStates]
    /\ finish \in [Transfers -> CallStates]
    /\ runtime \in {"valid", "destroyed"}
    /\ asked \in [Transfers -> SUBSET {"finish", "cancel"}]
    /\ job \in [Transfers -> Jobs]

\* Data the client wrote before the socket was there is neither lost nor
\* overtaken by what it wrote later, and none of it is still in the buffer once
\* FinishUpload was sent (writeData, flush_buffer, close).
NothingLost ==
    \A t \in Uploads :
        /\ stream[t] \o buffer[t] = [i \in 1 .. accepted[t] |-> i]
        /\ finish[t] # "none" => buffer[t] = << >>

\* A client that is told Finished can rely on it: the provider has finished the
\* job, although time-outs, cancel() and shutdown may cross the reply.
FinishedIsTrue ==
    \A t \in Transfers : status[t] = "finished" => job[t] = "finished"

\* What relates a transfer's status to its replies and its job; it strengthens
\* the other two to an inductive invariant.
LifeInv ==
    \A t \in Transfers :
        /\ status[t] = "none" => call[t] = "none" /\ finish[t] = "none" /\ job[t] = "none"
        /\ status[t] = "loading" => finish[t] = "none"
        /\ status[t] \in {"ready", "finished"} => call[t] = "handled"
        /\ status[t] = "finished" => finish[t] = "handled"
        /\ finish[t] # "none" => finalizing[t]
        /\ finish[t] = "ok" => job[t] = "finished"

IInv == TypeOK /\ LifeInv /\ NothingLost /\ FinishedIsTrue

\* No late reply brings a transfer back: Finished and Error stay, and what was
\* cancelled can at most turn into an error ("Don't transition to a final
\* state more than once", UploaderImpl.cpp:62).
NeverRevived ==
    [][\A t \in Transfers :
        /\ status[t] = "cancelled" => status'[t] \in {"cancelled", "error"}
        /\ status[t] \in {"finished", "error"} => status'[t] = status[t]]_vars

\* A close() that was not ignored leads to a final state, whatever becomes of
\* the call to the provider.
CloseEnds ==
    \A t \in Transfers : finalizing[t] ~> (status[t] \in Final \/ gone[t])

\* An upload that is cancelled, or destroyed, once its id is known ends at the
\* provider, too.
CancelEndsKnownUpload ==
    \A t \in Uploads : (status[t] = "cancelled" /\ hasId[t]) ~> (job[t] # "active")

\* UploadJob.h:109: "The runtime calls this method when a client explicitly
\* cancels an upload": also one that is still Loading.
CancelReachesProvider ==
    \A t \in Uploads : (status[t] = "cancelled") ~> (job[t] \notin {"creating", "active"})
=============================================================================
