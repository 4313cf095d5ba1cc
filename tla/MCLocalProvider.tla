-------------------------- MODULE MCLocalProvider --------------------------
(***************************************************************************)
(* A provider with one kind of load: calls on items, or uploads and        *)
(* downloads on one path, or an upload that is collected in a temporary    *)
(* file.  The three have no state in common.                               *)
(***************************************************************************)
EXTENDS LocalJobs, TempfileUpload, LocalProvider

VARIABLE load    \* the kind of load

\* A folder with a file, beside a second file and an entry that is neither.
MCTrees == {[p \in {Root, <<"a">>, <<"b">>, <<"a", "b">>, <<"o">>} |->
    CASE p \in {Root, <<"a">>} -> Folder
      [] p = <<"b">>           -> File("data1")
      [] p = <<"a", "b">>      -> File("data2")
      [] OTHER                 -> [type |-> "odd", data |-> "none"]]}

MCOutside == <<"outside">>
MCDotted == <<"dotted">>
MCItemIds == {Root, <<"a">>, <<"b">>, <<"a", "b">>, <<"o">>, MCDotted}
MCParentIds == {Root, <<"a">>, MCOutside}

allVars == <<load, vars, itemVars, tempVars>>

NoJobs ==
    /\ \A u \in Uploads : up[u].st = "gone"
    /\ \A d \in Downloads : down[d].st = "gone"

MCInit ==
    /\ load \in {"items", "jobs", "temp"}
    /\ Init /\ ItemsInit /\ TempInit
    /\ load = "jobs" <=> ~NoJobs
    /\ load = "temp" <=> tst = "new"
    /\ load # "jobs" => path = NoFile /\ disk[1].size = 1

ItemStep == load = "items" /\ ItemsNext /\ UNCHANGED <<load, vars, tempVars>>
TempStep == load = "temp" /\ TempNext /\ UNCHANGED <<load, vars, itemVars>>
JobStep == load = "jobs" /\ Next /\ UNCHANGED <<load, itemVars, tempVars>>

MCNext == ItemStep \/ JobStep \/ TempStep

\* Fairness of LocalJobs: its handlers run.
MCSpec ==
    /\ MCInit /\ [][MCNext]_allVars
    /\ \A u \in Uploads : WF_allVars(load = "jobs" /\ UploadStep(u) /\ UNCHANGED <<load, itemVars, tempVars>>)
    /\ \A d \in Downloads : WF_allVars(load = "jobs" /\ DownloadStep(d) /\ UNCHANGED <<load, itemVars, tempVars>>)
=============================================================================
