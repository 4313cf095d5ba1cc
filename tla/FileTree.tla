------------------------------ MODULE FileTree ------------------------------
(***************************************************************************)
(* The part of the file system, and of boost::filesystem, that the local   *)
(* provider and the local v1 client use.  A tree T maps the paths below a  *)
(* root folder, as sequences of names, to nodes; the root itself is <<>>.  *)
(* A node has a type and data, which stand for contents and modification   *)
(* time of a file.  Calls that can fail have an operator for their errno   *)
(* ("ok" if they succeed) and one for the tree they leave.  Symbolic links *)
(* are not modelled.                                                       *)
(***************************************************************************)
EXTENDS Naturals, Sequences, FiniteSets, SequencesExt

Root == << >>

Exists(T, p) == p \in DOMAIN T

TypeAt(T, p) == IF Exists(T, p) THEN T[p].type ELSE "none"

IsDirectory(T, p) == TypeAt(T, p) = "folder"

\* The paths strictly below p, and the entries of the folder p.
Below(T, p) == {q \in DOMAIN T : IsStrictPrefix(p, q)}
Children(T, p) == {q \in Below(T, p) : Len(q) = Len(p) + 1}

Folder == [type |-> "folder", data |-> "none"]
File(data) == [type |-> "file", data |-> data]

\* Adding an entry, replacing one, and removing one without children.
Put(T, p, node) == [q \in DOMAIN T \cup {p} |-> IF q = p THEN node ELSE T[q]]
Drop(T, p) == [q \in DOMAIN T \ {p} |-> T[q]]

\* Why p cannot be entered into its parent folder.
ParentErrno(T, p) ==
    IF ~ Exists(T, Front(p)) THEN "ENOENT"
    ELSE IF ~ IsDirectory(T, Front(p)) THEN "ENOTDIR"
    ELSE "ok"

\* create_directory(): an existing folder is not an error.
CreateDirectoryErrno(T, p) ==
    IF TypeAt(T, p) \in {"file", "odd"} THEN "EEXIST" ELSE ParentErrno(T, p)

\* copy_file(): the target is opened with O_EXCL.
CopyFileErrno(T, source, target) ==
    IF ~ Exists(T, source) THEN "ENOENT"
    ELSE IF T[source].type # "file" THEN "EINVAL"
    ELSE IF Exists(T, target) THEN "EEXIST"
    ELSE ParentErrno(T, target)

\* rename(2): a file replaces a file, a folder an empty folder.
RenameErrno(T, source, target) ==
    IF ~ Exists(T, source) THEN "ENOENT"
    ELSE IF ParentErrno(T, target) # "ok" THEN ParentErrno(T, target)
    ELSE IF IsStrictPrefix(source, target) THEN "EINVAL"
    ELSE IF IsDirectory(T, target) /\ ~ IsDirectory(T, source) THEN "EISDIR"
    ELSE IF IsDirectory(T, source) /\ TypeAt(T, target) \in {"file", "odd"} THEN "ENOTDIR"
    ELSE IF Below(T, target) # {} /\ target # source THEN "ENOTEMPTY"
    ELSE "ok"

Rename(T, source, target) ==
    LET moved == {source} \cup Below(T, source)
        Suffix(q, p) == SubSeq(q, Len(p) + 1, Len(q))
        new == {target \o Suffix(q, source) : q \in moved}
    IN  [q \in (DOMAIN T \ moved) \cup new |->
            IF q \in new THEN T[source \o Suffix(q, target)] ELSE T[q]]

=============================================================================
