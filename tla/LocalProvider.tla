--------------------------- MODULE LocalProvider ---------------------------
(***************************************************************************)
(* The item operations of the local provider (LocalProvider.cpp) on a file *)
(* system they share.  invoke_async() gives every call a thread of its own *)
(* and nothing is locked, so the calls interleave between the system calls *)
(* they make: what one has checked another may have changed.               *)
(*                                                                         *)
(* A thread serves one call.  Its steps are: check the arguments (reads    *)
(* only), act (one or more changes of the tree), status() and make_item(). *)
(* Uploads and downloads are in LocalJobs.                                 *)
(***************************************************************************)
EXTENDS FileTree

CONSTANTS
    Threads,    \* calls; a thread also names its temporary folder and its open file
    Names,      \* all other names of files and folders
    ItemIds,    \* item ids that clients pass
    ParentIds,  \* ids of parent folders that clients pass
    NameArgs,   \* names that clients pass, see sanitize()
    Trees,      \* file systems to start from
    Outside,    \* an id that does not lie below the root
    Dotted      \* an id whose canonical form is another path

\* Clients are never told of temporary folders, and pass no ids of them.
ASSUME ArgumentsAssumption ==
    /\ Threads \cap (Names \cup {"none", "torn"}) = {}
    /\ NameArgs \cup {"dots"} \subseteq Names
    /\ ItemIds \cup ParentIds \subseteq Seq(Names)

\* There are no temporary folders and no open files when the provider starts.
ASSUME TreesAssumption ==
    \A T \in Trees :
        /\ DOMAIN T \subseteq Seq(Names)
        /\ \A p \in DOMAIN T : /\ T[p].type \in {"file", "folder", "odd"}
                               /\ T[p].data \notin Threads

VARIABLES
    server,     \* "starting", "up", or "failed": LocalProvider()
    fs,         \* the tree below the root
    op          \* what the thread of a call is doing

itemVars == <<server, fs, op>>

Kinds == {"roots", "list", "lookup", "metadata", "create_folder", "delete_item",
          "move", "copy"}

Exceptions == {"InvalidArgument", "NotExists", "Exists", "Permission", "Quota",
               "Logic", "Resource"}

Idle == [pc |-> "idle", kind |-> "roots", id |-> Root, parent |-> Root, name |-> "dots",
         first |-> 0, next |-> 0, seen |-> {}, done |-> {}, st |-> "none", data |-> "none",
         made |-> "none", items |-> {}, result |-> "none"]

ItemsInit ==
    /\ server = "starting"
    /\ fs \in Trees
    /\ op = [t \in Threads |-> Idle]

-----------------------------------------------------------------------------

\* throw_storage_exception() for a filesystem_error.
FsException(errno) ==
    CASE errno \in {"EACCES", "EPERM"} -> "Permission"
      [] errno = "ENOENT"              -> "NotExists"
      [] errno = "EEXIST"              -> "Exists"
      [] errno = "ENOSPC"              -> "Quota"
      [] OTHER                         -> "Resource"

\* The three ways to say where the files are: a folder, something else, or not at
\* all, in which case the folder is created, which may fail.
RootSettings == {"folder", "not_a_folder", "unset"}
CreateErrnos == {"ok", "EACCES", "ENOSPC", "ENOTDIR"}

GetRootDir(setting, errno) ==
    CASE setting = "not_a_folder"           -> "InvalidArgument"
      [] setting = "unset" /\ errno # "ok"  -> FsException(errno)
      [] OTHER                              -> "ok"

\* LocalProvider() in main(): an exception of get_root_dir(), or of the canonical() that
\* finds the folder gone again, ends the process.
Start ==
    /\ server = "starting"
    /\ \E setting \in RootSettings, errno \in CreateErrnos, found \in BOOLEAN :
          server' = IF GetRootDir(setting, errno) = "ok" /\ found THEN "up" ELSE "failed"
    /\ UNCHANGED <<fs, op>>

\* A name starts with TMPFILE_PREFIX.  The only reserved names in the tree are
\* those of temporary folders, which are named after their thread.
IsReservedPath(p) == p # Root /\ Last(p) \in Threads

\* "slash" stands for names with a slash, "dots" for "", "." and "..", "reserved"
\* for names with the prefix of temporary files.
Sanitize(name) ==
    IF name \in {"slash", "dots", "reserved"} THEN "InvalidArgument" ELSE "ok"

\* canonical() throws for a path that does not exist.
ThrowIfNotValid(id) ==
    CASE id \in {Outside, Dotted} -> "InvalidArgument"
      [] id \notin {Outside, Dotted} /\ ~ Exists(fs, id) -> FsException("ENOENT")
      [] OTHER -> "ok"

\* The first of a sequence of checks that fails.
FirstError(checks) ==
    LET failed == {i \in DOMAIN checks : checks[i] # "ok"}
    IN  IF failed = {} THEN "ok" ELSE checks[CHOOSE i \in failed : \A j \in failed : i <= j]

Target(o) == Append(o.parent, o.name)
TmpPath(t) == Append(op[t].parent, t)

ItemPath_Source(o) == IF o.kind \in {"roots", "metadata", "move"} THEN o.id ELSE Target(o)

\* The path a call returns an item for.
ItemPath(o) ==
    CASE o.kind \in {"roots", "metadata"} -> o.id
      [] OTHER -> Target(o)

Require(condition, exception) == IF condition THEN "ok" ELSE exception

-----------------------------------------------------------------------------

\* A D-Bus call arrives and gets a thread.
Call(t) ==
    /\ server = "up"
    /\ op[t].pc = "idle"
    /\ \E kind \in Kinds, id \in ItemIds, parent \in ParentIds, name \in NameArgs :
          /\ kind \in {"roots", "lookup", "create_folder"} => id = Root
          /\ kind \in {"roots", "list", "metadata", "delete_item"} =>
                /\ parent = Root
                /\ name = "dots"
          /\ op' = [op EXCEPT ![t].pc = "check", ![t].kind = kind, ![t].id = id,
                              ![t].parent = parent, ![t].name = name]
    /\ UNCHANGED <<server, fs>>

Goto(t, pc) == op' = [op EXCEPT ![t].pc = pc]

\* invoke_async(): every exception becomes a StorageException in the future.
Finish(t, result) == op' = [op EXCEPT ![t].pc = "done", ![t].result = result]

\* Continue at pc unless a check has thrown.
Proceed(t, checks, pc) ==
    LET error == FirstError(checks)
    IN  IF error = "ok" THEN Goto(t, pc) ELSE Finish(t, error)

At(t, kind, pc) == op[t].kind = kind /\ op[t].pc = pc

Roots(t) ==
    /\ At(t, "roots", "check")
    /\ Goto(t, "status")
    /\ UNCHANGED <<server, fs>>

Metadata(t) ==
    /\ At(t, "metadata", "check")
    /\ Proceed(t, <<ThrowIfNotValid(op[t].id)>>, "status")
    /\ UNCHANGED <<server, fs>>

Lookup(t) ==
    /\ At(t, "lookup", "check")
    /\ Proceed(t, <<ThrowIfNotValid(op[t].parent), Sanitize(op[t].name),
                    ThrowIfNotValid(Target(op[t]))>>, "status")
    /\ UNCHANGED <<server, fs>>

\* status(item_path), followed by make_item().
Status(t) ==
    /\ op[t].pc = "status"
    /\ op' = [op EXCEPT ![t].pc = "item", ![t].st = TypeAt(fs, ItemPath(op[t]))]
    /\ UNCHANGED <<server, fs>>

\* get_mtime_nsecs(): stat(2) fails if there is nothing at p now.
GetMtimeError(p) == Require(Exists(fs, p), "Resource")

\* make_item(): the item of path p, whose type was st when status() was called.
\* file_size() throws if there is a folder at p now.
MakeItemError(p, st) ==
    FirstError(<<GetMtimeError(p),
                 Require(st \in {"file", "folder"}, "NotExists"),
                 Require(st = "file" => ~ IsDirectory(fs, p), FsException("EPERM"))>>)

GetContentType(st) == IF st = "file" THEN "by extension" ELSE "inode/directory"

\* Times, sizes, space and permissions are left out.

MakeItem(p, st) ==
    [id |-> p,
     type |-> IF st = "file" THEN "file" ELSE IF p = Root THEN "root" ELSE "folder",
     etag |-> IF st = "file" THEN fs[p].data ELSE "none",
     content_type |-> GetContentType(st)]

AnswerItem(t) ==
    /\ op[t].pc = "item"
    /\ LET p == ItemPath(op[t])
           error == MakeItemError(p, op[t].st)
       IN  IF error = "ok"
           THEN op' = [op EXCEPT ![t].pc = "done", ![t].result = "ok",
                                 ![t].items = {MakeItem(p, op[t].st)}]
           ELSE Finish(t, error)
    /\ UNCHANGED <<server, fs>>

\* list(): the directory is opened.
List(t) ==
    /\ At(t, "list", "check")
    /\ LET error == FirstError(<<ThrowIfNotValid(op[t].id),
                                 Require(IsDirectory(fs, op[t].id), "Logic")>>)
       IN  IF error = "ok"
           THEN op' = [op EXCEPT ![t].pc = "iterate", ![t].seen = Children(fs, op[t].id)]
           ELSE Finish(t, error)
    /\ UNCHANGED <<server, fs>>

\* One entry: one that was there when the directory was opened, or a later one.
\* Reserved names are skipped, and so is what has no item (any more).
ListEntry(t) ==
    /\ At(t, "list", "iterate")
    /\ \E p \in (op[t].seen \cup Children(fs, op[t].id)) \ op[t].done :
          LET st == TypeAt(fs, p)
          IN  op' = [op EXCEPT ![t].done = @ \cup {p},
                               ![t].items = IF IsReservedPath(p) \/ MakeItemError(p, st) # "ok"
                                            THEN @
                                            ELSE @ \cup {MakeItem(p, st)}]
    /\ UNCHANGED <<server, fs>>

ListEnd(t) ==
    /\ At(t, "list", "iterate")
    /\ op[t].seen \subseteq op[t].done
    /\ Finish(t, "ok")
    /\ UNCHANGED <<server, fs>>

-----------------------------------------------------------------------------

\* What a call that has changed the tree has put where its item is.
Made(t, type) == op' = [op EXCEPT ![t].pc = "status", ![t].made = type]

\* create_folder() checks for itself, because create_directory() accepts a folder
\* that exists.
CreateFolder(t) ==
    /\ At(t, "create_folder", "check")
    /\ Proceed(t, <<ThrowIfNotValid(op[t].parent), Sanitize(op[t].name),
                    Require(~ Exists(fs, Target(op[t])), "Exists")>>, "create")
    /\ UNCHANGED <<server, fs>>

CreateDirectory(t) ==
    /\ At(t, "create_folder", "create")
    /\ LET p == Target(op[t])
           errno == CreateDirectoryErrno(fs, p)
       IN  IF errno # "ok"
           THEN Finish(t, FsException(errno)) /\ UNCHANGED fs
           ELSE IF Exists(fs, p)
           THEN Goto(t, "status") /\ UNCHANGED fs
           ELSE Made(t, "folder") /\ fs' = Put(fs, p, Folder)
    /\ UNCHANGED server

DeleteItem(t) ==
    /\ At(t, "delete_item", "check")
    /\ LET error == FirstError(<<ThrowIfNotValid(op[t].id),
                                 Require(op[t].id # Root, "Permission")>>)
       IN  IF error = "ok"
           THEN op' = [op EXCEPT ![t].pc = "remove", ![t].seen = Below(fs, op[t].id)]
           ELSE Finish(t, error)
    /\ UNCHANGED <<server, fs>>

\* remove_all() removes one entry after the other, a folder after its entries.
RemoveEntry(t) ==
    /\ At(t, "delete_item", "remove")
    /\ \E p \in {op[t].id} \cup Below(fs, op[t].id) :
          /\ Exists(fs, p)
          /\ Below(fs, p) = {}
          /\ fs' = Drop(fs, p)
          /\ IF p = op[t].id THEN Finish(t, "ok") ELSE UNCHANGED op
    /\ UNCHANGED server

\* The item is gone, or entries created meanwhile are in the way of rmdir(2).
RemoveEnd(t) ==
    /\ At(t, "delete_item", "remove")
    /\ \/ ~ Exists(fs, op[t].id) /\ Finish(t, "ok")
       \/ /\ \E p \in {op[t].id} \cup Below(fs, op[t].id) :
                /\ Children(fs, p) # {}
                /\ Children(fs, p) \cap op[t].seen = {}
          /\ Finish(t, FsException("ENOTEMPTY"))
    /\ UNCHANGED <<server, fs>>

Move(t) ==
    /\ At(t, "move", "check")
    /\ Proceed(t, <<ThrowIfNotValid(op[t].id), ThrowIfNotValid(op[t].parent),
                    Sanitize(op[t].name),
                    Require(~ Exists(fs, Target(op[t])), "Exists"),
                    Require(op[t].id # Root, "Permission")>>, "rename")
    /\ UNCHANGED <<server, fs>>

\* rename(2), whose errors become exceptions.
RenameTo(t, source) ==
    LET errno == RenameErrno(fs, source, Target(op[t]))
    IN  IF errno = "ok"
        THEN Made(t, fs[source].type) /\ fs' = Rename(fs, source, Target(op[t]))
        ELSE Finish(t, FsException(errno)) /\ UNCHANGED fs

MoveRename(t) ==
    /\ At(t, "move", "rename")
    /\ RenameTo(t, op[t].id)
    /\ UNCHANGED server

-----------------------------------------------------------------------------

Copyable_WithTemporaries(id) == Below(fs, id)

\* The entries of the folder that copy() has to copy: nothing reserved, and
\* nothing below it.
Copyable(id) ==
    {p \in Below(fs, id) : \A n \in (Len(id) + 1)..Len(p) : ~ IsReservedPath(SubSeq(p, 1, n))}

\* copy(): a folder that exists already is refused here, a file by copy_file().
Copy(t) ==
    /\ At(t, "copy", "check")
    /\ LET o == op[t]
           folder == IsDirectory(fs, o.id)
           error == FirstError(<<ThrowIfNotValid(o.id), ThrowIfNotValid(o.parent),
                                 Sanitize(o.name),
                                 Require(folder => ~ Exists(fs, Target(o)), "Exists")>>)
       IN  IF error # "ok" THEN Finish(t, error)
           ELSE Goto(t, IF folder THEN "canonical" ELSE "copy_file")
    /\ UNCHANGED <<server, fs>>

Ancestor(p, n) == SubSeq(p, 1, n)

\* The folder is copied into a temporary one beside the target.  canonical() looks at every
\* folder on the way to the parent.
CanonicalParent(t) ==
    /\ At(t, "copy", "canonical")
    /\ IF \A n \in 1..Len(op[t].parent) : Exists(fs, Ancestor(op[t].parent, n))
       THEN Goto(t, "walk")
       ELSE Finish(t, FsException("ENOENT"))
    /\ UNCHANGED <<server, fs>>

\* create_directories() goes up from the temporary folder to the first folder it has not to
\* create: the parent, unless somebody has removed that since.
CreateDirectories(t) ==
    /\ At(t, "copy", "walk")
    /\ \E n \in 1..Len(TmpPath(t)) :
          /\ n > 1 => Exists(fs, Ancestor(TmpPath(t), n - 1))
          /\ \A m \in n..Len(TmpPath(t)) : ~ Exists(fs, Ancestor(TmpPath(t), m))
          /\ op' = [op EXCEPT ![t].pc = "mkdir", ![t].first = n, ![t].next = n]
    /\ UNCHANGED <<server, fs>>

\* Then it creates the folders, from the first to the temporary one.
MakeDirectory(t) ==
    /\ At(t, "copy", "mkdir")
    /\ LET p == Ancestor(TmpPath(t), op[t].next)
           errno == CreateDirectoryErrno(fs, p)
       IN  IF errno # "ok"
           THEN Finish(t, FsException(errno)) /\ UNCHANGED fs
           ELSE /\ op' = [op EXCEPT ![t].pc = IF p = TmpPath(t) THEN "opendir" ELSE "mkdir",
                                    ![t].next = @ + 1]
                /\ fs' = IF Exists(fs, p) THEN fs ELSE Put(fs, p, Folder)
    /\ UNCHANGED server

\* The directory_iterator of the source, which may have gone meanwhile.
OpenSource(t) ==
    /\ At(t, "copy", "opendir")
    /\ IF IsDirectory(fs, op[t].id)
       THEN op' = [op EXCEPT ![t].pc = "entries", ![t].seen = Copyable(op[t].id)]
       ELSE Finish(t, FsException(IF Exists(fs, op[t].id) THEN "ENOTDIR" ELSE "ENOENT"))
    /\ UNCHANGED <<server, fs>>

\* What a reader gets of a file that another thread is still writing.
Read(data) == IF data \in Threads THEN "torn" ELSE data

\* copy_recursively(), one entry: a folder is made, then its entries are copied.
\* What is neither file nor folder is ignored.
CopyEntry(t) ==
    /\ At(t, "copy", "entries")
    /\ \E p \in Copyable(op[t].id) \ op[t].done :
          LET q == TmpPath(t) \o SubSeq(p, Len(op[t].id) + 1, Len(p))
              errno == IF fs[p].type = "odd" THEN "ok" ELSE ParentErrno(fs, q)
          IN  /\ Front(p) \in op[t].done \cup {op[t].id}
              /\ IF errno = "ok"
                 THEN op' = [op EXCEPT ![t].done = @ \cup {p}]
                 ELSE Finish(t, FsException(errno))
              /\ IF fs[p].type = "odd" \/ errno # "ok"
                 THEN UNCHANGED fs
                 ELSE fs' = Put(fs, q, IF fs[p].type = "file" THEN File(Read(fs[p].data))
                                       ELSE Folder)
    /\ UNCHANGED server

\* An entry vanished between two calls that name it.
CopyEntryGone(t) ==
    /\ At(t, "copy", "entries")
    /\ \E p \in op[t].seen \ op[t].done : ~ Exists(fs, p)
    /\ Finish(t, FsException("ENOENT"))
    /\ UNCHANGED <<server, fs>>

CopyEntriesEnd_Early(t) ==
    /\ At(t, "copy", "entries")
    /\ Goto(t, "rename")
    /\ UNCHANGED <<server, fs>>

\* Everything that was there and still is has been copied.
CopyEntriesEnd(t) ==
    /\ At(t, "copy", "entries")
    /\ op[t].seen \cap Copyable(op[t].id) \subseteq op[t].done
    /\ Goto(t, "rename")
    /\ UNCHANGED <<server, fs>>

CopyRename(t) ==
    /\ At(t, "copy", "rename")
    /\ RenameTo(t, TmpPath(t))
    /\ UNCHANGED server

CopyFileOpen_Overwrite(t) ==
    /\ At(t, "copy", "copy_file")
    /\ Exists(fs, op[t].id)
    /\ op' = [op EXCEPT ![t].pc = "write", ![t].made = "file",
                        ![t].data = Read(fs[op[t].id].data)]
    /\ fs' = Put(fs, Target(op[t]), File(t))
    /\ UNCHANGED server

\* copy_file() of a single file: the target is created, then written.
CopyFileOpen(t) ==
    /\ At(t, "copy", "copy_file")
    /\ LET errno == CopyFileErrno(fs, op[t].id, Target(op[t]))
       IN  IF errno # "ok"
           THEN Finish(t, FsException(errno)) /\ UNCHANGED fs
           ELSE /\ op' = [op EXCEPT ![t].pc = "write", ![t].made = "file",
                                    ![t].data = Read(fs[op[t].id].data)]
                /\ fs' = Put(fs, Target(op[t]), File(t))
    /\ UNCHANGED server

\* What thread t has written into the file it has open, wherever that is by now.
Written(t, data) == [p \in DOMAIN fs |-> IF fs[p].data = t THEN File(data) ELSE fs[p]]

CopyFileWrite(t) ==
    /\ At(t, "copy", "write")
    /\ \/ fs' = Written(t, op[t].data) /\ Goto(t, "status")
       \/ fs' = Written(t, "torn") /\ Finish(t, FsException("ENOSPC"))
    /\ UNCHANGED server

Step(t) ==
    \/ Roots(t) \/ Metadata(t) \/ Lookup(t) \/ Status(t) \/ AnswerItem(t)
    \/ List(t) \/ ListEntry(t) \/ ListEnd(t)
    \/ CreateFolder(t) \/ CreateDirectory(t)
    \/ DeleteItem(t) \/ RemoveEntry(t) \/ RemoveEnd(t)
    \/ Move(t) \/ MoveRename(t)
    \/ Copy(t) \/ CanonicalParent(t) \/ CreateDirectories(t) \/ MakeDirectory(t)
    \/ OpenSource(t) \/ CopyEntry(t) \/ CopyEntryGone(t) \/ CopyEntriesEnd(t)
    \/ CopyRename(t) \/ CopyFileOpen(t) \/ CopyFileWrite(t)

ItemsNext == Start \/ \E t \in Threads : Call(t) \/ Step(t)

ItemsSpec == ItemsInit /\ [][ItemsNext]_itemVars

-----------------------------------------------------------------------------

Files(T) == {p \in DOMAIN T : T[p].type = "file"}

\* No call destroys the last copy of a file's data behind its owner's back.  Data
\* vanish only by the delete_item() of the file or of a folder above it, or by the
\* rename() of a move() whose target was created after it had checked that there is
\* none: the race that the comment in move() accepts.  Neither copy() nor
\* create_folder() ever does it, whatever other threads do between their calls.
NoSilentLoss ==
    [][ \A p \in Files(fs) :
           \/ fs[p].data \in Threads \cup {"torn"}
           \/ \E q \in Files(fs') : fs'[q].data = fs[p].data
           \/ \E t \in Threads : /\ At(t, "delete_item", "remove")
                                 /\ IsPrefix(op[t].id, p)
           \/ \E t \in Threads : At(t, "move", "rename") /\ p = Target(op[t]) ]_itemVars

\* What clients can see of the tree: everything but temporary folders.
Visible(T) == {<<p, T[p]>> : p \in {q \in DOMAIN T : \A i \in DOMAIN q : q[i] \notin Threads}}

\* The steps of the copy() of a folder.
BeforeRename == {"canonical", "walk", "mkdir", "opendir", "entries"}

\* The call is past its checks.
Begun(u) == op[u].pc \notin {"idle", "check"}

\* Another call has put something where p is, or above it, or p is one of the folders
\* that its create_directories() has created.
PutBack(t, p) ==
    \E u \in Threads \ {t} :
       \/ op[u].made # "none" /\ IsPrefix(Target(op[u]), p)
       \/ \E n \in (op[u].first)..(op[u].next - 1) : p = Ancestor(TmpPath(u), n)

\* Somebody has begun to delete what is at p or above it, or to move it away.
Removed(p) ==
    \E u \in Threads :
       op[u].kind \in {"delete_item", "move"} /\ Begun(u) /\ IsPrefix(op[u].id, p)

\* Someone has begun to delete the folder that copy() copies to, or has moved it there
\* while the copy ran; it may have been deleted in part in another place.
TargetDisturbed(t) ==
    \E u \in Threads :
       \/ op[u].kind = "delete_item" /\ Begun(u) /\ IsPrefix(op[u].id, Target(op[t]))
       \/ op[u].kind = "move" /\ op[u].made # "none" /\ IsPrefix(Target(op[u]), op[t].parent)

\* The copy of a folder appears all at once.  Nothing that copy() does before its
\* rename() is visible, except that create_directories() puts back the folder it copies
\* to, or one above, when another call has removed it since the canonical(); and the
\* rename() brings every entry that the source had when the copy began and still has,
\* unless it was gone in between.
CopyAppearsWhole ==
    [][ \A t \in Threads :
           /\ op[t].kind = "copy" /\ op[t].pc \in BeforeRename /\ op'[t] # op[t] =>
                \/ Visible(fs') = Visible(fs)
                \/ \E n \in 1..Len(op[t].parent) :
                      LET p == Ancestor(op[t].parent, n)
                      IN  Removed(p) /\ ~ Exists(fs, p) /\ fs' = Put(fs, p, Folder)
           /\ At(t, "copy", "rename") /\ op'[t].pc = "status" =>
                \/ \A p \in op[t].seen :
                      Exists(fs, p) /\ fs[p].type # "odd" /\ ~ PutBack(t, p) =>
                         Exists(fs', Target(op[t]) \o SubSeq(p, Len(op[t].id) + 1, Len(p)))
                \/ TargetDisturbed(t) ]_itemVars

\* Another call has deleted what t made or moved, has moved it away, or has replaced a
\* file by something that is neither file nor folder.
Interfered(t) ==
    \E u \in Threads \ {t} :
       \/ op[u].kind \in {"delete_item", "move"} /\ Begun(u) /\ IsPrefix(op[u].id, Target(op[t]))
       \/ op[u].made = "odd" /\ Target(op[u]) = Target(op[t])

\* A call that reports an error after it has made or moved a file or folder does so only
\* because of another call, or because the disk was full while copy_file() wrote the file.
ErrorAfterSuccessIsInterference ==
    \A t \in Threads :
       op[t].made \in {"file", "folder"} /\ op[t].result \in Exceptions =>
          op[t].result = "Quota" \/ Interfered(t)

\* A temporary folder exists only while its copy() runs or after that has failed; it
\* never becomes part of another copy, not even when a folder is copied into itself,
\* and list() never shows it.
TemporariesStayPrivate ==
    /\ \A p \in DOMAIN fs : \A i \in DOMAIN p : p[i] \in Threads =>
          /\ op[p[i]].kind = "copy"
          /\ op[p[i]].pc \in {"opendir", "entries", "rename"} \/ op[p[i]].result \in Exceptions
          /\ \A j \in DOMAIN p : p[j] \in Threads => j = i
    /\ \A t \in Threads : \A item \in op[t].items : ~ IsReservedPath(item.id)

=============================================================================
