------------------------------ MODULE V1Local ------------------------------
(***************************************************************************)
(* The local version of client library v1 (src/qt/client/internal and its  *)
(* local_client): items below one root folder, seen through handles.       *)
(*                                                                         *)
(* A handle caches the path of its item and belongs to a root, which it    *)
(* does not keep alive: what needs the root once more, to make a handle    *)
(* for the result, may find that the client has dropped it meanwhile.      *)
(* A method first looks at the handle in the client's thread.  copy(), move(), delete_item(), list() and lookup()    *)
(* then hand a lambda to a thread pool, and the lambda looks again, as     *)
(* another one may have come first.  Both times they hold the mutexes of   *)
(* their handles.  Other processes change the file system between any two  *)
(* system calls.                                                           *)
(***************************************************************************)
EXTENDS FileTree, TLC

CONSTANTS
    Handles,     \* handles a client may hold; "r" is the root of the account
    Calls,       \* bound: calls a client makes, 1..n in the order of their start
    Mixes,       \* bound: sets of methods that are called together
    MaxChanges,  \* bound: changes by other processes
    Builds       \* is the library built with assertions? one value, or both

VARIABLES
    tree,      \* the file system below the root
    changes,   \* number of changes by others
    runtime,   \* "up"; "down" after shutdown(); "dropped" with its account; "aborted", the process
    roots,     \* roots_ of the account, {} before roots() was called and without an account
    handle,    \* the handles
    call,      \* the calls and their futures
    mix        \* the methods that are called

vars == <<tree, changes, runtime, roots, handle, call, mix>>

Names == {"a", "b"}
Reserved == "tmp"      \* a name that begins with TMPFILE_PREFIX
TmpNames == <<"tmp1", "tmp2", "tmp3">>   \* unique_path(): another one for each call
BadName == "a/b"       \* stands for names that sanitize() refuses
\* Only the first call uses names that are refused.
Arguments(c) == IF c = 1 THEN {"a", Reserved, BadName} ELSE {"a"}
None == "none"

ASSUME BoundsAssumption ==
    /\ {"r", "x"} \subseteq Handles /\ None \notin Handles
    /\ Calls \subseteq DOMAIN TmpNames
    /\ Builds \subseteq BOOLEAN

NoHandle == [st |-> "free", path |-> Root, type |-> "folder", deleted |-> FALSE,
             root |-> "r", account |-> "mine", ends |-> 0]

NoCall == [op |-> "none", pc |-> "idle", h |-> "r", parent |-> None, name |-> "a",
           held |-> {}, seen |-> {}, touched |-> FALSE, result |-> "none"]

RootHandle(h) == [NoHandle EXCEPT !.st = "live", !.type = "root", !.root = h]
HandleOn(path, type, root) ==
    [NoHandle EXCEPT !.st = "live", !.path = path, !.type = type, !.root = root]

\* A folder of another runtime: it can only be the target of copy() and move().
Foreign == [RootHandle("x") EXCEPT !.account = "other"]

\* Before roots() was called, or with handles that list() has made, perhaps two on one
\* item.
Init ==
    /\ tree \in { (Root :> Folder) @@ (<<"a">> :> File("1")) @@ (<<"b">> :> Folder),
                  (Root :> Folder) @@ (<<"b">> :> Folder) @@ (<<"b", "a">> :> File("1")) }
    /\ changes = 0
    /\ runtime = "up"
    /\ \/ /\ roots = {} /\ mix = {"roots", "get"}
          /\ handle = [h \in Handles |-> IF h = "x" THEN Foreign ELSE NoHandle]
       \/ /\ roots = {"r"} /\ mix \in Mixes
          /\ \E item \in DOMAIN tree \ {Root} :
                handle = [h \in Handles |->
                    CASE h = "r"           -> RootHandle("r")
                      [] h = "x"           -> Foreign
                      [] h = "h1"          -> HandleOn(item, tree[item].type, "r")
                      [] h = "h2"          -> HandleOn(<<"b">>, "folder", "r")
                      [] OTHER             -> NoHandle]
    /\ call = [c \in Calls |-> NoCall]

-----------------------------------------------------------------------------
\* What a handle answers

Active(c) == call[c].pc \notin {"idle", "done"}

\* A call that works in the client's thread, whoever has called it holds the handle.
InClientThread(c) == call[c].op \in {"create_folder", "get", "parents", "size"}

\* A call keeps a root that is its new_parent or that it is a method of; list() and
\* lookup() have locked the root of their folder once they are past their checks.
\* Copy(), move(), create_folder() and parents() do not keep the root of a folder.
Keeps(c, r) ==
    /\ Active(c)
    /\ \/ call[c].parent = r
       \/ InClientThread(c) /\ call[c].h = r
       \/ call[c].op \in {"list", "lookup"} /\ call[c].pc = "made" /\ handle[call[c].h].root = r

\* A root lives as long as the account, the client or a call holds it.
Alive(r) == r \in roots \/ handle[r].st = "live" \/ \E c \in Calls : Keeps(c, r)

\* get_root(): the root, its account and the runtime are still there.
GetRoot(h) == handle[h].account = "other" \/ (runtime = "up" /\ Alive(handle[h].root))

ThrowIfDestroyed(h) ==
    CASE handle[h].deleted -> "Deleted"
      [] ~ handle[h].deleted /\ ~ GetRoot(h) -> "RuntimeDestroyed"
      [] OTHER -> "ok"

\* The item and, for copy() and move(), the new parent.
Check(h, parent) ==
    IF ThrowIfDestroyed(h) # "ok" \/ parent = None
    THEN ThrowIfDestroyed(h)
    ELSE ThrowIfDestroyed(parent)

Sanitize(name) == IF name = BadName THEN "InvalidArgument" ELSE "ok"

IsReserved(name) == name = Reserved \/ name \in Range(TmpNames)
IsReservedPath(path) == path # Root /\ IsReserved(Last(path))

Visible(T, path) == {q \in Children(T, path) : ~ IsReservedPath(q)}

\* throw_storage_exception(): errno as an exception; get() knows the key and turns
\* ENOENT into NotExists.
StorageException(errno) ==
    CASE errno \in {"EACCES", "EPERM"}  -> "Permission"
      [] errno \in {"ENOSPC", "EDQUOT"} -> "Quota"
      [] OTHER                          -> "Resource"

StorageExceptionKey(errno) == IF errno = "ENOENT" THEN "NotExists" ELSE StorageException(errno)

-----------------------------------------------------------------------------
\* Beginning a call, in the client's thread

Needs(c) == {call[c].h, call[c].parent} \ {None}

LocksFree(hs) == \A c \in Calls : call[c].held \cap hs = {}

Done(op, touched, result) ==
    [NoCall EXCEPT !.op = op, !.pc = "done", !.touched = touched, !.result = result]

End(c, result) == call' = [call EXCEPT ![c] = Done(@.op, @.touched, result)]

\* A client calls a method.
Idle(c, op) ==
    /\ call[c].pc = "idle" /\ op \in mix /\ runtime # "aborted"
    /\ \A d \in Calls : d < c => call[d].pc # "idle"

Usable(h) == handle[h].st = "live" /\ handle[h].account = "mine"

FileSystem == <<tree, changes>>
Objects == <<runtime, roots, mix>>

\* The methods that hand a lambda to the thread pool.
Begin(c, op, h, parent, name) ==
    LET made == [NoCall EXCEPT !.op = op, !.h = h, !.parent = parent, !.name = name]
    IN  /\ Idle(c, op) /\ Usable(h)
        /\ op \in {"list", "lookup"} \/ LocksFree({h, parent})
        /\ call' = [call EXCEPT ![c] =
              IF Check(h, parent) # "ok"
              THEN Done(op, FALSE, Check(h, parent))
              ELSE [made EXCEPT !.pc = "queued"]]
        /\ UNCHANGED <<FileSystem, Objects, handle>>

IsFolder(h) == handle[h].st = "live" /\ handle[h].type # "file"

Copy(c) == \E h \in Handles, p \in Handles, n \in Arguments(c) :
    IsFolder(p) /\ Begin(c, "copy", h, p, n)
Move(c) == \E h \in Handles, p \in Handles, n \in Arguments(c) :
    IsFolder(p) /\ Begin(c, "move", h, p, n)
DeleteItem(c) == \E h \in Handles : handle[h].type # "root" /\ Begin(c, "delete", h, None, "a")
List(c) == \E h \in Handles : IsFolder(h) /\ Begin(c, "list", h, None, "a")
Lookup(c) == \E h \in Handles, n \in Arguments(c) :
    IsFolder(h) /\ Begin(c, "lookup", h, None, n)

\* A null new_parent is refused before anything else.
NullParent(c) ==
    /\ \E op \in {"copy", "move"} :
          Idle(c, op) /\ call' = [call EXCEPT ![c] = Done(op, FALSE, "InvalidArgument")]
    /\ UNCHANGED <<FileSystem, Objects, handle>>

\* The methods that do their work in the client's thread and keep the mutex meanwhile.
BeginSync(c, op, h, name) ==
    /\ Idle(c, op) /\ Usable(h)
    /\ LocksFree({h})
    /\ call' = [call EXCEPT ![c] =
          IF ThrowIfDestroyed(h) # "ok"
          THEN Done(op, FALSE, ThrowIfDestroyed(h))
          ELSE [NoCall EXCEPT !.op = op, !.h = h, !.name = name, !.pc = "locked", !.held = {h}]]
    /\ UNCHANGED <<FileSystem, Objects, handle>>

CreateFolder(c) == \E h \in Handles, n \in Arguments(c) :
    IsFolder(h) /\ BeginSync(c, "create_folder", h, n)
Get(c) == \E h \in Handles, n \in Arguments(c) \cup {""} :
    handle[h].type = "root" /\ BeginSync(c, "get", h, n)
Parents(c) == \E h \in Handles : handle[h].type # "root" /\ BeginSync(c, "parents", h, "a")
Size(c) == \E h \in Handles : handle[h].type = "file" /\ BeginSync(c, "size", h, "a")

\* The methods that answer at once, and say "answer" if the handle is good.
Answer(c, op, h, answer) ==
    /\ Idle(c, op) /\ Usable(h)
    /\ LocksFree({h})
    /\ call' = [call EXCEPT ![c] =
          Done(op, FALSE, IF ThrowIfDestroyed(h) = "ok" THEN answer ELSE ThrowIfDestroyed(h))]
    /\ UNCHANGED <<FileSystem, Objects, handle>>

\* name(), etag(), parent_ids() and the like have it cached.
Accessor(c) == \E h \in Handles : Answer(c, "accessor", h, "ok")
\* A root has the name "" and no parents.
RootParents(c) == \E h \in Handles : handle[h].type = "root" /\ Answer(c, "parents", h, "ok")
\* free_space_bytes() and used_space_bytes() ask the file system.
Space(c) == \E h \in Handles, e \in {"ok", StorageException("EIO")} :
    handle[h].type = "root" /\ Answer(c, "accessor", h, e)
DeleteRoot(c) == \E h \in Handles : handle[h].type = "root" /\ Answer(c, "delete", h, "Logic")

-----------------------------------------------------------------------------
\* The work

At(c, pc) == call[c].pc = pc /\ runtime # "aborted"

\* Mutant: the mutexes are taken one by one.
TakeLocks_OneByOne(c) ==
    /\ At(c, "queued")
    /\ \E h \in Needs(c) \ call[c].held :
          /\ h = call[c].parent => call[c].h \in call[c].held
          /\ LocksFree({h})
          /\ call' = [call EXCEPT ![c].held = @ \cup {h},
                                  ![c].pc = IF call[c].held \cup {h} = Needs(c) THEN "locked" ELSE "queued"]
    /\ UNCHANGED <<FileSystem, Objects, handle>>

\* A lambda takes its mutexes, both at once: std::lock().
TakeLocks(c) ==
    /\ At(c, "queued") /\ LocksFree(Needs(c))
    /\ call' = [call EXCEPT ![c].pc = "locked", ![c].held = Needs(c)]
    /\ UNCHANGED <<FileSystem, Objects, handle>>

Target(c) ==
    LET r == call[c] IN
    CASE r.op \in {"copy", "move"} -> Append(handle[r.parent].path, r.name)
      [] r.op \in {"lookup", "create_folder"} -> Append(handle[r.h].path, r.name)
      [] r.op = "get" -> IF r.name = "" THEN Root ELSE <<r.name>>
      [] OTHER -> handle[r.h].path

\* make_file(), make_folder(), make_root(): a handle for the result, which the client
\* keeps if there is room.  The constructor throws if nothing is at the path.
Make(path, type, root) ==
    \/ \E h \in Handles :
          /\ handle[h].st = "free"
          /\ handle' = [handle EXCEPT ![h] =
                IF type = "root" THEN RootHandle(h) ELSE HandleOn(path, type, root)]
    \/ (\A h \in Handles : handle[h].st # "free") /\ handle' = handle

\* Why the work goes no further, in the order of the code; "again" is what the second
\* look at the handles said.
RefusalAfter(c, again) ==
    LET r == call[c]
        foreign == r.parent # None /\ handle[r.parent].account = "other"
        taken == Exists(tree, Target(c))
        reserved == IsReservedPath(Target(c))
    IN  IF again # "ok" THEN again
        ELSE IF foreign \/ (r.op = "move" /\ handle[r.h].type = "root") THEN "Logic"
        ELSE IF r.op \in {"copy", "move", "lookup", "create_folder"} /\ r.name = BadName THEN Sanitize(r.name)
        ELSE IF r.op = "get" /\ r.name = BadName THEN "InvalidArgument"  \* outside the root, or not absolute
        ELSE IF r.op = "move" /\ taken THEN "Exists"
        ELSE IF r.op \in {"copy", "move", "create_folder"} /\ reserved THEN "InvalidArgument"
        ELSE IF r.op = "get" /\ ~ taken THEN StorageExceptionKey("ENOENT")
        ELSE IF r.op \in {"lookup", "get"} /\ reserved THEN "NotExists"
        ELSE IF r.op \in {"copy", "create_folder"} /\ taken THEN "Exists"
        ELSE IF r.op = "lookup" /\ TypeAt(tree, Target(c)) \notin {"file", "folder"} THEN "NotExists"
        ELSE IF r.op = "list" /\ ~ IsDirectory(tree, Target(c)) THEN StorageException("ENOENT")
        ELSE IF r.op = "size" /\ TypeAt(tree, Target(c)) # "file" THEN StorageException("ENOENT")
        ELSE "ok"

\* Mutant: the lambda of delete_item() does not look at the handle again.
Refusal_NoRecheck(c) ==
    RefusalAfter(c, IF call[c].op = "delete" THEN "ok" ELSE Check(call[c].h, call[c].parent))

Refusal(c) == RefusalAfter(c, Check(call[c].h, call[c].parent))

\* After the checks: what the code remembers between its system calls.
Examine(c) ==
    LET r == call[c]
        GoOn(pc, seen) == call' = [call EXCEPT ![c].pc = pc, ![c].seen = seen]
    IN  /\ At(c, "locked")
        /\ CASE Refusal(c) # "ok" -> End(c, Refusal(c))
             [] Refusal(c) = "ok" /\ r.op = "size" -> End(c, "ok")
             [] Refusal(c) = "ok" /\ r.op = "list" -> GoOn("made", Visible(tree, Target(c)))
             [] Refusal(c) = "ok" /\ r.op \in {"lookup", "get"} -> GoOn("made", {Target(c)})
             [] Refusal(c) = "ok" /\ r.op = "parents" -> GoOn("made", {Front(Target(c))})
             [] OTHER -> GoOn("checked", {})
        /\ UNCHANGED <<FileSystem, Objects, handle>>

\* A system call fails for another reason.
Fails(c) ==
    /\ call[c].pc \in {"checked", "parent", "tmp"} /\ runtime # "aborted"
    /\ End(c, StorageException("ENOSPC"))
    /\ UNCHANGED <<FileSystem, Objects, handle>>

\* The system call that changes something, or its errno.
Do(c, errno, newTree, pc) ==
    /\ IF errno = "ok"
       THEN /\ tree' = newTree
            /\ call' = [call EXCEPT ![c].pc = pc, ![c].seen = {Target(c)}, ![c].touched = TRUE]
       ELSE End(c, StorageException(errno)) /\ UNCHANGED tree
    /\ UNCHANGED <<changes, Objects>>

DoCreateFolder(c) ==
    /\ At(c, "checked") /\ call[c].op = "create_folder"
    /\ Do(c, CreateDirectoryErrno(tree, Target(c)),
          IF Exists(tree, Target(c)) THEN tree ELSE Put(tree, Target(c), Folder), "made")
    /\ UNCHANGED handle

DoCopyFile(c) ==
    LET source == handle[call[c].h].path IN
    /\ At(c, "checked") /\ call[c].op = "copy" /\ handle[call[c].h].type = "file"
    /\ Do(c, CopyFileErrno(tree, source, Target(c)),
          IF Exists(tree, source) THEN Put(tree, Target(c), tree[source]) ELSE tree, "made")
    /\ UNCHANGED handle

\* A folder is copied into a temporary folder next to the target first, without what is
\* reserved.
TmpPath(c) == Append(handle[call[c].parent].path, TmpNames[c])

CopyRecursively(T, source, target) ==
    LET Suffix(q) == SubSeq(q, Len(source) + 1, Len(q))
        copied == {q \in Below(T, source) : \A i \in 1..Len(Suffix(q)) : ~ IsReserved(Suffix(q)[i])}
        new == {target \o Suffix(q) : q \in copied}
    IN  [q \in DOMAIN T \cup new \cup {target} |->
            IF q \in new THEN T[source \o SubSeq(q, Len(target) + 1, Len(q))]
            ELSE IF q = target THEN Folder ELSE T[q]]

\* canonical(): the new parent is there.
CanonicalParent(c) ==
    /\ At(c, "checked") /\ call[c].op = "copy" /\ handle[call[c].h].type # "file"
    /\ IF Exists(tree, handle[call[c].parent].path)
       THEN call' = [call EXCEPT ![c].pc = "parent"]
       ELSE End(c, StorageException("ENOENT"))
    /\ UNCHANGED <<FileSystem, Objects, handle>>

\* create_directories(): every folder on the way that is not there.
WayTo(p) == {SubSeq(p, 1, n) : n \in 0..Len(p)}
WithFolders(T, p) == [q \in DOMAIN T \cup WayTo(p) |-> IF q \in DOMAIN T THEN T[q] ELSE Folder]

\* If the new parent went away since, it is made again.  If the source did, what is
\* left is an empty temporary folder.
DoCopyFolder(c) ==
    LET source == handle[call[c].h].path
        made == WithFolders(tree, TmpPath(c))
    IN  /\ At(c, "parent")
        /\ IF \E q \in WayTo(TmpPath(c)) : ~ IsDirectory(made, q)
           THEN End(c, StorageException("ENOTDIR")) /\ UNCHANGED tree
           ELSE IF IsDirectory(made, source)
                THEN /\ tree' = CopyRecursively(made, source, TmpPath(c))
                     /\ call' = [call EXCEPT ![c].pc = "tmp", ![c].seen = {Target(c)}, ![c].touched = TRUE]
                ELSE /\ tree' = made
                     /\ call' = [call EXCEPT ![c] = Done("copy", TRUE, StorageException("ENOENT"))]
        /\ UNCHANGED <<changes, Objects, handle>>

DoRenameTmp(c) ==
    /\ At(c, "tmp")
    /\ Do(c, RenameErrno(tree, TmpPath(c), Target(c)), Rename(tree, TmpPath(c), Target(c)), "made")
    /\ UNCHANGED handle

\* The handle is at its end, whatever comes after.
Ended(h) == [handle EXCEPT ![h].deleted = TRUE, ![h].ends = @ + 1]

\* native_identity() looks at the runtime once more.
DoMove(c) ==
    LET source == handle[call[c].h].path
        errno == RenameErrno(tree, source, Target(c))
    IN  /\ At(c, "checked") /\ call[c].op = "move"
        /\ IF Check(call[c].h, None) # "ok"
           THEN End(c, Check(call[c].h, None)) /\ UNCHANGED <<FileSystem, Objects, handle>>
           ELSE /\ Do(c, errno, IF errno = "ok" THEN Rename(tree, source, Target(c)) ELSE tree, "made")
                /\ handle' = IF errno = "ok" THEN Ended(call[c].h) ELSE handle

\* remove_all() is no error if there is nothing; it may fail half-way.
DoDelete(c) ==
    LET path == handle[call[c].h].path IN
    /\ At(c, "checked") /\ call[c].op = "delete"
    /\ \/ /\ tree' = [q \in DOMAIN tree \ ({path} \cup Below(tree, path)) |-> tree[q]]
          /\ handle' = Ended(call[c].h)
          /\ call' = [call EXCEPT ![c] = Done("delete", TRUE, "ok")]
       \/ /\ \E gone \in SUBSET Below(tree, path) :
                /\ \A p \in gone : Below(tree, p) \subseteq gone
                /\ tree' = [q \in DOMAIN tree \ gone |-> tree[q]]
          /\ Exists(tree, path)
          /\ call' = [call EXCEPT ![c] = Done("delete", TRUE, StorageException("EACCES"))]
          /\ UNCHANGED handle
    /\ UNCHANGED <<changes, Objects>>

\* The root of the result: copy() and move() take the one of the new parent.
ResultRoot(c) == IF call[c].parent # None THEN handle[call[c].parent].root ELSE handle[call[c].h].root

ResultType(c) ==
    LET r == call[c] IN
    CASE r.op \in {"copy", "move"} /\ handle[r.h].type # "root" -> handle[r.h].type
      [] r.op = "get" /\ Target(c) = Root                       -> "root"
      [] OTHER -> IF IsDirectory(tree, Target(c)) THEN "folder" ELSE "file"

\* Why there is no result.  list() fails as a whole when an entry is gone.  parents()
\* asks the root, get() the account, and the filesystem_error of parents() escapes as
\* it is.
ResultError(c) ==
    LET r == call[c]
        gone == \E p \in r.seen : ~ Exists(tree, p)
    IN  IF r.op = "parents" /\ ThrowIfDestroyed(handle[r.h].root) # "ok"
        THEN ThrowIfDestroyed(handle[r.h].root)
        ELSE IF r.op = "parents" /\ gone /\ r.seen # {Root} THEN "filesystem_error"
        ELSE IF r.op = "get" /\ gone THEN StorageExceptionKey("ENOENT")
        ELSE IF r.op = "get" /\ ResultType(c) = "root" /\ runtime # "up" THEN "RuntimeDestroyed"
        ELSE IF r.op # "parents" /\ gone THEN StorageException("ENOENT")
        ELSE "ok"

\* The handles of the result.
MakeResult(c) ==
    /\ At(c, "made") /\ Alive(ResultRoot(c))
    /\ IF ResultError(c) # "ok" \/ call[c].op \in {"list", "parents"}
       THEN UNCHANGED handle
       ELSE Make(Target(c), ResultType(c), ResultRoot(c))
    /\ End(c, ResultError(c))
    /\ UNCHANGED <<FileSystem, Objects>>

\* The same when the root has expired.  parents() dereferences a null pointer.  set_root()
\* has an assertion; without assertions, the handle is one on a root that is gone.
MakeWithoutRoot(c) ==
    /\ At(c, "made") /\ ~ Alive(ResultRoot(c))
    /\ \/ /\ call[c].op # "parents" /\ (FALSE \in Builds \/ ResultError(c) # "ok")
          /\ IF ResultError(c) = "ok" THEN Make(Target(c), ResultType(c), ResultRoot(c)) ELSE UNCHANGED handle
          /\ End(c, ResultError(c))
          /\ UNCHANGED runtime
       \/ /\ call[c].op = "parents" \/ (TRUE \in Builds /\ ResultError(c) = "ok")
          /\ runtime' = "aborted"
          /\ UNCHANGED <<call, handle>>
    /\ UNCHANGED <<FileSystem, roots, mix>>

-----------------------------------------------------------------------------

\* accounts() and roots(): the root is made at first access.
Roots(c) ==
    /\ Idle(c, "roots") /\ runtime # "dropped"
    /\ call' = [call EXCEPT ![c] =
          Done("roots", FALSE, IF runtime = "up" THEN "ok" ELSE "RuntimeDestroyed")]
    /\ IF runtime = "up" /\ roots = {}
       THEN roots' = {"r"} /\ handle' = [handle EXCEPT !["r"] = RootHandle("r")]
       ELSE UNCHANGED <<roots, handle>>
    /\ UNCHANGED <<FileSystem, runtime, mix>>

\* get_data_dir(): the data folder is missing, is not a folder, or cannot be made.
RootsFails(c) ==
    /\ Idle(c, "roots") /\ roots = {} /\ runtime = "up"
    /\ \E e \in {"Resource", "InvalidArgument"} :
          call' = [call EXCEPT ![c] = Done("roots", FALSE, e)]
    /\ UNCHANGED <<FileSystem, Objects, handle>>

Shutdown ==
    /\ runtime = "up" /\ runtime' = "down"
    /\ UNCHANGED <<FileSystem, roots, mix, handle, call>>

\* The client drops its last pointers to the runtime and the account.
DropAccount ==
    /\ runtime \in {"up", "down"} /\ roots # {}
    /\ runtime' = "dropped" /\ roots' = {}
    /\ UNCHANGED <<FileSystem, mix, handle, call>>

\* The client drops a root that the account does not hold, or no more; calls may still
\* keep it.
DropRoot(h) ==
    /\ handle[h].type = "root" /\ handle[h].st = "live" /\ h \notin roots /\ handle[h].account = "mine"
    /\ runtime # "aborted"
    /\ handle' = [handle EXCEPT ![h].st = "dropped"]
    /\ UNCHANGED <<FileSystem, Objects, call>>

OthersChange ==
    /\ changes < MaxChanges
    /\ changes' = changes + 1
    /\ \E n \in Names \cap Arguments(1) :
          \/ /\ Exists(tree, <<n>>)
             /\ tree' = [q \in DOMAIN tree \ ({<<n>>} \cup Below(tree, <<n>>)) |-> tree[q]]
          \/ /\ ~ Exists(tree, <<n>>)
             /\ \E node \in {Folder, File("2")} : tree' = Put(tree, <<n>>, node)
    /\ UNCHANGED <<Objects, handle, call>>

Start(c) ==
    \/ Copy(c) \/ Move(c) \/ DeleteItem(c) \/ List(c) \/ Lookup(c) \/ NullParent(c)
    \/ CreateFolder(c) \/ Get(c) \/ Parents(c) \/ RootParents(c) \/ Size(c)
    \/ Accessor(c) \/ Space(c) \/ DeleteRoot(c) \/ Roots(c) \/ RootsFails(c)

Work(c) ==
    \/ TakeLocks(c) \/ Examine(c) \/ DoCreateFolder(c) \/ DoCopyFile(c) \/ CanonicalParent(c)
    \/ DoCopyFolder(c) \/ DoRenameTmp(c) \/ DoMove(c) \/ DoDelete(c)
    \/ MakeResult(c) \/ MakeWithoutRoot(c)

Next ==
    \/ \E c \in Calls : Start(c) \/ Work(c) \/ Fails(c)
    \/ \E h \in Handles : DropRoot(h)
    \/ Shutdown \/ DropAccount \/ OthersChange

\* The threads of the pool, and the client's, run on.
Fairness == \A c \in Calls : WF_vars(Work(c))

Spec == Init /\ [][Next]_vars /\ Fairness

-----------------------------------------------------------------------------
TypeOK ==
    /\ Root \in DOMAIN tree
    /\ runtime \in {"up", "down", "dropped", "aborted"} /\ roots \in {{}, {"r"}}
    /\ \A h \in Handles : handle[h].st \in {"free", "live", "dropped"}
    /\ \A c \in Calls : call[c].pc \in {"idle", "queued", "locked", "checked", "parent", "tmp", "made", "done"}

\* A handle comes to its end once: of the calls that move or delete its item, started
\* together, one succeeds.  Every other one that comes to the handle later changes
\* nothing and answers Deleted, and a call that answers Deleted or RuntimeDestroyed, or
\* refuses for a reason of its own, has changed nothing.
EndedHandles ==
    /\ \A h \in Handles : handle[h].ends <= 1
    /\ \A c \in Calls : call[c].touched /\ call[c].pc = "done" =>
          call[c].result \in {"ok", "Resource", "Permission", "Quota"}

\* The client has dropped runtime, account and root while a call is at work that needs
\* the root for its result.
RootExpired ==
    \E c \in Calls : call[c].pc = "made" /\ ~ Alive(ResultRoot(c))
                     /\ call[c].op \in {"copy", "move", "create_folder", "parents"}

\* Every future ends, whatever the order in which calls need the mutexes of two
\* handles, and whatever happens to the files and the runtime meanwhile; unless the
\* process is aborted, which happens only if the client has dropped a root before the
\* calls that need it for their result were over.
LocalFuturesEnd ==
    \A c \in Calls : Active(c) ~> (call[c].pc = "done" \/ (runtime = "aborted" /\ RootExpired))

=============================================================================
