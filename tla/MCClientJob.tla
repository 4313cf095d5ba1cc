---------------------------- MODULE MCClientJob ----------------------------
(* Small instances of ClientJob for TLC. *)
EXTENDS ClientJob

\* A file with one parent, a folder with two, and a root.
File == [type |-> "file", id |-> TRUE, parents |-> 1, blank |-> FALSE, name |-> TRUE,
         etag |-> TRUE, size |-> "ok", time |-> "ok"]
Folder == [File EXCEPT !.type = "folder", !.parents = 2, !.etag = FALSE, !.size = "absent"]
Root == [Folder EXCEPT !.type = "root", !.parents = 0, !.name = FALSE]
Good == {File, Folder, Root}

\* Each of them with one thing wrong, or at least different.
Faults ==
    UNION {{[g EXCEPT !.id = FALSE], [g EXCEPT !.blank = TRUE], [g EXCEPT !.parents = 1 - @],
            [g EXCEPT !.name = FALSE], [g EXCEPT !.etag = FALSE],
            [g EXCEPT !.size = "absent"], [g EXCEPT !.size = "bad"],
            [g EXCEPT !.time = "absent"], [g EXCEPT !.time = "bad"]} : g \in {File, Root}}
    \cup {[Folder EXCEPT !.type = "impossible", !.time = "absent"]}

MCPages == {{}} \cup {{md} : md \in Good \cup Faults} \cup {{g, md} : g \in Good, md \in Good \cup Faults}
=============================================================================
