------------------------------ MODULE V1Remote ------------------------------
(***************************************************************************)
(* Client library v1 as it talks to providers (src/qt/client/internal and  *)
(* its remote_client).  Everything happens on the client's main loop.  A   *)
(* method looks at the handle, sends a D-Bus call and returns a future.  A *)
(* Handler, a child of the object whose method it was, waits for the reply *)
(* and ends the future.  In the meantime the client may shut the runtime   *)
(* down, drop the object, or call roots() again.                           *)
(***************************************************************************)
EXTENDS Marshalling, FiniteSets

CONSTANTS
    Handles,   \* handles of items; "r" is the root that roots() returned
    Calls,     \* bound: calls a client makes, 1..n in the order of their start
    Replies,   \* bound: metadata that providers send
    Lots,      \* bound: sets of metadata that they send in answer to list() and lookup()
    Builds     \* is the library built with assertions? one value, or both

ASSUME RemoteAssumption ==
    /\ {"r", "h"} \subseteq Handles /\ Calls \subseteq Nat /\ Replies \subseteq Metadata
    /\ Lots \subseteq SUBSET Metadata /\ Builds \subseteq BOOLEAN

VARIABLES
    client,     \* "up", "down" after shutdown(), "crashed"
    roots,      \* roots_ of the account
    handle,     \* the handles
    transfer,   \* an Uploader and a Downloader
    keeps,      \* root_ of the Uploader and file_ of the Downloader, which keep them alive
    call        \* the calls and their futures

vars == <<client, roots, handle, transfer, keeps, call>>

NoHandle == [st |-> "free", type |-> "folder", deleted |-> FALSE, root |-> "r", valid |-> TRUE]
NoCall == [op |-> "none", owner |-> "account", pc |-> "idle", thrown |-> "none", result |-> "none"]

\* A client that has a root from roots() and a handle below it.
Init ==
    /\ client = "up"
    /\ roots = {"r"}
    /\ \E type \in {"file", "folder"} :
          handle = [h \in Handles |->
              CASE h = "r" -> [NoHandle EXCEPT !.st = "live", !.type = "root"]
                [] h = "h" -> [NoHandle EXCEPT !.st = "live", !.type = type]
                [] OTHER   -> NoHandle]
    /\ transfer = [up |-> "none", down |-> "none"]
    /\ keeps = [up |-> "none", down |-> "none"]
    /\ call = [c \in Calls |-> NoCall]

-----------------------------------------------------------------------------

\* The account keeps the roots of the last roots(), an Uploader its root and a Downloader
\* its file, the client what it has not dropped.
Kept == roots \cup {keeps.up, keeps.down}

GetRoot(h) == client = "up" /\ (handle[h].root \in Kept \/ handle[handle[h].root].st = "live")

ThrowIfDestroyed(h) ==
    CASE handle[h].deleted -> "Deleted"
      [] ~ handle[h].deleted /\ ~ GetRoot(h) -> "RuntimeDestroyed"
      [] OTHER -> "ok"

Live(h) == handle[h].st = "live"

Done(thrown, result) == [NoCall EXCEPT !.pc = "done", !.thrown = thrown, !.result = result]

End(c, result) == call' = [call EXCEPT ![c] = Done("none", result)]

Idle(c) ==
    /\ client # "crashed" /\ call[c].pc = "idle"
    /\ \A d \in Calls : d < c => call[d].pc # "idle"

\* A method of an item: an exception at once, or a D-Bus call and a Handler.
Send(c, op, owner, problem) ==
    /\ Idle(c)
    /\ call' = [call EXCEPT ![c] =
          IF problem = "ok"
          THEN [NoCall EXCEPT !.op = op, !.owner = owner, !.pc = "sent"]
          ELSE Done("none", problem)]

Both(h, p) == IF ThrowIfDestroyed(h) # "ok" THEN ThrowIfDestroyed(h) ELSE ThrowIfDestroyed(p)

\* copy() and move() refuse a null new_parent first.
WithParent(c, op) ==
    /\ \E h \in Handles :
          /\ Live(h)
          /\ \/ Send(c, op, h, "InvalidArgument")
             \/ \E p \in Handles : Live(p) /\ handle[p].type # "file" /\ Send(c, op, h, Both(h, p))
    /\ UNCHANGED <<client, roots, handle, transfer, keeps>>

Copy(c) == WithParent(c, "copy")
Move(c) == WithParent(c, "move")

\* The other methods of folders, files and roots: delete_item() of a root is refused,
\* create_file() and create_uploader() refuse a negative size.
Method(c, op, types, problems) ==
    /\ \E h \in Handles, e \in problems \cup {"ok"} :
          /\ Live(h) /\ handle[h].type \in types
          /\ Send(c, op, h, IF ThrowIfDestroyed(h) = "ok" THEN e ELSE ThrowIfDestroyed(h))
    /\ UNCHANGED <<client, roots, handle, transfer, keeps>>

Folders == {"folder", "root"}

DeleteItem(c) == Method(c, "delete", {"file", "folder"}, {})
DeleteRoot(c) ==
    /\ \E h \in Handles :
          /\ Live(h) /\ handle[h].type = "root"
          /\ Send(c, "delete", h, IF ThrowIfDestroyed(h) = "ok" THEN "Logic" ELSE ThrowIfDestroyed(h))
    /\ UNCHANGED <<client, roots, handle, transfer, keeps>>
List(c) == Method(c, "list", Folders, {})
Lookup(c) == Method(c, "lookup", Folders, {})
CreateFolder(c) == Method(c, "create_folder", Folders, {})
CreateFile(c) == Method(c, "create_file", Folders, {"InvalidArgument"})
CreateUploader(c) == Method(c, "create_uploader", {"file"}, {"InvalidArgument"})
CreateDownloader(c) == Method(c, "create_downloader", {"file"}, {})
Get(c) == Method(c, "get", {"root"}, {})

\* Answers without a call.
Answer(c, types, outcome) ==
    /\ Idle(c)
    /\ \E h \in Handles :
          /\ Live(h) /\ handle[h].type \in types
          /\ End(c, IF ThrowIfDestroyed(h) = "ok" THEN outcome ELSE ThrowIfDestroyed(h))
    /\ UNCHANGED <<client, roots, handle, transfer, keeps>>

\* The accessors; parents(), which is not implemented and returns a future that was
\* cancelled without an exception; the parents and the space of a root.
Accessor(c) == Answer(c, {"file", "folder", "root"}, "ok")
Parents(c) == Answer(c, {"file", "folder"}, "no result")
RootAccessor(c) == Answer(c, {"root"}, "ok")

Roots(c) ==
    /\ Send(c, "roots", "account", IF client = "up" THEN "ok" ELSE "RuntimeDestroyed")
    /\ UNCHANGED <<client, roots, handle, transfer, keeps>>

\* finish_upload() and cancel() of an Uploader.
EndUpload(c, op) ==
    /\ transfer.up \in {"uploading", "finalized"}
    /\ Send(c, op, "up", "ok")
    /\ transfer' = [transfer EXCEPT !.up = "finalized"]
    /\ UNCHANGED <<client, roots, handle, keeps>>

FinishUpload(c) == EndUpload(c, "finish_upload")
CancelUpload(c) == EndUpload(c, "cancel_upload")

\* finish_download() asks the provider; cancel() closes the socket and says Cancelled,
\* with the name of the file.  It is noexcept: if name() throws, the client terminates.
FinishDownload(c) ==
    /\ transfer.down = "downloading"
    /\ Send(c, "finish_download", "down", "ok")
    /\ UNCHANGED <<client, roots, handle, transfer, keeps>>

CancelDownload(c) ==
    /\ transfer.down = "downloading"
    /\ IF ThrowIfDestroyed(keeps.down) = "ok"
       THEN Send(c, "cancel_download", "down", "Cancelled") /\ UNCHANGED client
       ELSE Idle(c) /\ client' = "crashed" /\ UNCHANGED call
    /\ UNCHANGED <<roots, handle, transfer, keeps>>

-----------------------------------------------------------------------------
\* Replies

Sent(c, ops) == client # "crashed" /\ call[c].pc = "sent" /\ call[c].op \in ops

\* An error: the provider threw, or the bus could not deliver.
Reported(c, e, error) == call' = [call EXCEPT ![c] = Done(e, Cloned(UnmarshalException(error)))]

ReplyError(c) ==
    /\ call[c].pc = "sent" /\ client # "crashed"
    /\ \/ \E e \in ProviderExceptions \cup OtherExceptions :
             Reported(c, e, MarshalException(ConvertExceptionPtr(e)))
       \/ \E e \in BusErrors : Reported(c, e, BusError(e))
    /\ UNCHANGED <<client, roots, handle, transfer, keeps>>

\* make_item(), make_folder(), make_file(), make_root(): the client keeps the handle if
\* there is room for it.
Make(md, root) ==
    \/ \E h \in Handles :
          /\ handle[h].st = "free"
          /\ handle' = [handle EXCEPT ![h] = [NoHandle EXCEPT !.st = "live", !.type = md.type,
                           !.root = IF md.type = "root" THEN h ELSE root, !.valid = Validate(md)]]
    \/ (\A h \in Handles : handle[h].st # "free") /\ UNCHANGED handle

\* What the closures of copy(), move(), create_folder() and finish_upload() accept.
Acceptable(op, md) ==
    CASE op \in {"copy", "move"}  -> md.type # "root"
      [] op = "create_folder"     -> md.type = "folder"
      [] op = "finish_upload"     -> md.type = "file"
      [] OTHER                    -> TRUE

\* Mutant: the closure makes a handle of what it did not validate.
ReplyItem_Unvalidated(c) ==
    /\ Sent(c, {"copy", "move", "create_folder", "finish_upload", "get"})
    /\ \E sent \in Replies, t \in Garbage : LET md == Unmarshal(sent, t) IN
          /\ Acceptable(call[c].op, md) /\ md.type # "impossible"
          /\ Make(md, "r") /\ End(c, "ok")
    /\ UNCHANGED <<client, roots, transfer, keeps>>

\* One item.  The root must still be there, except for finish_upload(), whose Uploader
\* keeps it.  make_item() aborts on a type that is none.
ReplyItem(c) ==
    /\ Sent(c, {"copy", "move", "create_folder", "finish_upload", "get"})
    /\ \E sent \in Replies, t \in Garbage :
          LET md == Unmarshal(sent, t)
              op == call[c].op
              root == IF op = "finish_upload" THEN keeps.up ELSE handle[call[c].owner].root
          IN  IF op # "finish_upload" /\ ~ GetRoot(call[c].owner)
              THEN End(c, "RuntimeDestroyed") /\ UNCHANGED <<client, handle>>
              ELSE CASE ~ (Validate(md) /\ Acceptable(op, md)) ->
                          End(c, "LocalComms") /\ UNCHANGED <<client, handle>>
                     [] Validate(md) /\ Acceptable(op, md) /\ md.type = "impossible" ->
                          client' = "crashed" /\ UNCHANGED <<call, handle>>
                     [] OTHER -> Make(md, root) /\ End(c, "ok") /\ UNCHANGED client
    /\ UNCHANGED <<roots, transfer, keeps>>

\* Items: an invalid one fails the call, roots are skipped.  lookup() of nothing is an
\* error.  list() asks for the next lot if there is a token; the new Handler has a future
\* of its own and a closure that refers to a variable of list(), which has returned: the
\* client may crash, and nobody ends the first future.
ReplyItems(c) ==
    /\ Sent(c, {"list", "lookup"})
    /\ \E lot \in Lots : \E t \in Garbage :
          LET mds == {Unmarshal(md, t) : md \in lot}
              items == {md \in mds : md.type # "root"}
          IN  IF ~ GetRoot(call[c].owner)
              THEN End(c, "RuntimeDestroyed") /\ UNCHANGED <<client, handle>>
              ELSE CASE (\E md \in mds : ~ Validate(md)) ->
                          End(c, "LocalComms") /\ UNCHANGED <<client, handle>>
                     [] (\A md \in mds : Validate(md)) /\ (\E md \in items : md.type = "impossible") ->
                          client' = "crashed" /\ UNCHANGED <<call, handle>>
                     [] (\A md \in mds : Validate(md)) /\ items = {} /\ call[c].op = "lookup" ->
                          End(c, "NotExists") /\ UNCHANGED <<client, handle>>
                     [] OTHER ->
                          /\ IF items = {} THEN UNCHANGED handle
                             ELSE \E md \in items : Make(md, handle[call[c].owner].root)
                          /\ \/ End(c, "ok") /\ UNCHANGED client
                             \/ /\ call[c].op = "list"
                                /\ call' = [call EXCEPT ![c].pc = "orphan"]
                                /\ client' \in {client, "crashed"}
    /\ UNCHANGED <<roots, transfer, keeps>>

ReplyVoid(c) ==
    /\ Sent(c, {"delete", "cancel_upload", "finish_download"})
    /\ End(c, "ok")
    /\ handle' = IF call[c].op = "delete" THEN [handle EXCEPT ![call[c].owner].deleted = TRUE] ELSE handle
    /\ UNCHANGED <<client, roots, transfer, keeps>>

\* What an object that is destroyed does to calls: their Handlers are its children.
Orphan(gone, calls) ==
    [c \in Calls |-> IF calls[c].owner \in gone /\ calls[c].pc = "sent"
                     THEN [calls[c] EXCEPT !.pc = "orphan"] ELSE calls[c]]

\* A transfer, with a descriptor that may be unusable, at which create_file() does not
\* look, and an id that may be empty; both are asserted.  The client keeps the first
\* transfer of each kind.
ReplyTransfer(c) ==
    /\ Sent(c, {"create_file", "create_uploader", "create_downloader"})
    /\ \E fd \in BOOLEAN, id \in BOOLEAN, asserts \in Builds :
          LET op == call[c].op
              owner == call[c].owner
              t == IF op = "create_downloader" THEN "down" ELSE "up"
              problem == IF op = "create_downloader" THEN ThrowIfDestroyed(owner)
                         ELSE IF GetRoot(owner) THEN "ok" ELSE "RuntimeDestroyed"
          IN  CASE problem # "ok" -> End(c, problem) /\ UNCHANGED <<client, transfer, keeps>>
                [] problem = "ok" /\ ~ fd /\ op # "create_file" ->
                      End(c, "LocalComms") /\ UNCHANGED <<client, transfer, keeps>>
                [] problem = "ok" /\ (fd \/ op = "create_file") /\ ~ (fd /\ id) /\ asserts ->
                      client' = "crashed" /\ UNCHANGED <<call, transfer, keeps>>
                [] OTHER ->
                      /\ IF transfer[t] # "none" THEN UNCHANGED <<transfer, keeps>>
                         ELSE /\ transfer' = [transfer EXCEPT ![t] = IF t = "up" THEN "uploading"
                                                                               ELSE "downloading"]
                              /\ keeps' = [keeps EXCEPT ![t] = IF t = "up" THEN handle[owner].root ELSE owner]
                      /\ End(c, "ok") /\ UNCHANGED client
    /\ UNCHANGED <<roots, handle>>

\* Mutant: after a shutdown the closure returns without ending the future.
ReplyRoots_Silent(c) ==
    /\ Sent(c, {"roots"})
    /\ IF client # "up" THEN call' = [call EXCEPT ![c].pc = "orphan"] ELSE End(c, "ok")
    /\ UNCHANGED <<client, roots, handle, transfer, keeps>>

\* The new roots take the place of the old ones.  They are not validated.  An old one
\* that nobody else keeps is destroyed.
ReplyRoots(c) ==
    /\ Sent(c, {"roots"})
    /\ IF client # "up"
       THEN End(c, "RuntimeDestroyed") /\ UNCHANGED <<roots, handle>>
       ELSE /\ call' = Orphan({h \in Handles : h \in roots /\ h # keeps.up /\ handle[h].st = "dropped"},
                             [call EXCEPT ![c] = Done("none", "ok")])
            /\ \E sent \in Replies, t \in Garbage :
                  LET md == Unmarshal(sent, t) IN
                  IF md.type # "root"
                  THEN roots' = {} /\ UNCHANGED handle
                  ELSE \/ \E h \in Handles :
                            /\ handle[h].st = "free" /\ roots' = {h}
                            /\ handle' = [handle EXCEPT ![h] = [NoHandle EXCEPT !.st = "live",
                                             !.type = "root", !.root = h, !.valid = Validate(md)]]
                       \/ (\A h \in Handles : handle[h].st # "free") /\ roots' = {} /\ UNCHANGED handle
    /\ UNCHANGED <<client, transfer, keeps>>

-----------------------------------------------------------------------------
\* The client

\* A handle is destroyed when the client drops it, unless something keeps it.
DropItem(h) ==
    /\ Live(h) /\ client # "crashed"
    /\ handle' = [handle EXCEPT ![h].st = "dropped"]
    /\ call' = Orphan({h} \ Kept, call)
    /\ UNCHANGED <<client, roots, transfer, keeps>>

\* What a transfer has kept goes with it, if nobody else keeps it.  The destructor of an
\* Uploader cancels an upload that was neither finished nor cancelled, and does not wait
\* for the answer.
DropTransfer(t) ==
    /\ transfer[t] \notin {"none", "gone"} /\ client # "crashed"
    /\ transfer' = [transfer EXCEPT ![t] = "gone"]
    /\ keeps' = [keeps EXCEPT ![t] = "none"]
    /\ call' = Orphan({t} \cup {h \in Handles : h = keeps[t] /\ h \notin roots /\ handle[h].st = "dropped"}, call)
    /\ UNCHANGED <<client, roots, handle>>

DropUploader == DropTransfer("up")
DropDownloader == DropTransfer("down")

Shutdown ==
    /\ client = "up" /\ client' = "down"
    /\ UNCHANGED <<roots, handle, transfer, keeps, call>>

Reply(c) ==
    \/ ReplyError(c) \/ ReplyItem(c) \/ ReplyItems(c) \/ ReplyVoid(c) \/ ReplyTransfer(c) \/ ReplyRoots(c)

Next ==
    \/ \E c \in Calls :
          \/ Copy(c) \/ Move(c) \/ DeleteItem(c) \/ DeleteRoot(c) \/ List(c) \/ Lookup(c)
          \/ CreateFolder(c) \/ CreateFile(c) \/ CreateUploader(c) \/ CreateDownloader(c)
          \/ Get(c) \/ Accessor(c) \/ Parents(c) \/ RootAccessor(c) \/ Roots(c) \/ FinishUpload(c) \/ CancelUpload(c)
          \/ FinishDownload(c) \/ CancelDownload(c) \/ Reply(c)
    \/ \E h \in Handles : DropItem(h)
    \/ DropUploader \/ DropDownloader
    \/ Shutdown

\* Every D-Bus call gets a reply, a timeout if nothing else.
Fairness == \A c \in Calls : WF_vars(Reply(c))

Spec == Init /\ [][Next]_vars /\ Fairness

-----------------------------------------------------------------------------
TypeOK ==
    /\ client \in {"up", "down", "crashed"} /\ roots \subseteq Handles
    /\ \A h \in Handles : handle[h].st \in {"free", "live", "dropped"}
    /\ \A c \in Calls : call[c].pc \in {"idle", "sent", "orphan", "done"}

\* A client sees the exception that the provider threw.  Three kinds arrive as
\* LocalComms: Unauthorized, Unknown and what is no exception of the library; and so do
\* the errors of the bus.
ErrorsKeepTheirKind ==
    \A c \in Calls : call[c].thrown # "none" =>
        call[c].result = IF call[c].thrown \in ProviderExceptions \ {"Unauthorized", "Unknown"}
                         THEN call[c].thrown ELSE "LocalComms"

\* Whatever providers send, a client gets no handle on a file or a folder whose metadata
\* lack what the accessors of the handle rely on.  Roots are excepted: roots() does not
\* validate them.
OnlyValidItems ==
    \A h \in Handles : handle[h].st = "live" /\ handle[h].type # "root" => handle[h].valid

\* Why nobody will end the future of a call: the client has dropped the object whose
\* method it was, or it is a list() with more than one lot of results.
Explained(c) ==
    \/ call[c].op = "list"
    \/ call[c].owner \in Handles /\ handle[call[c].owner].st = "dropped"
    \/ call[c].owner \in {"up", "down"} /\ transfer[call[c].owner] = "gone"

\* No other future is left without anyone to end it.
OrphansExplained == \A c \in Calls : call[c].pc = "orphan" => Explained(c)

\* The future of every call ends, unless the client crashed or there is such a reason.
RemoteFuturesEnd ==
    \A c \in Calls :
        call[c].pc = "sent" ~> \/ client = "crashed" \/ call[c].pc = "done"
                               \/ call[c].pc = "orphan" /\ Explained(c)

=============================================================================
