----------------------------- MODULE MCV1Remote -----------------------------
EXTENDS V1Remote

\* Metadata that tell the checks of the client apart: good ones, and one for each check.
Good(t) == [id |-> TRUE, parents |-> IF t = "root" THEN "none" ELSE "some", name |-> TRUE,
            etag |-> TRUE, type |-> t, attributes |-> "complete"]

MCReplies ==
    {Good("file"), Good("folder"), Good("root"), Good("impossible"),
     [Good("folder") EXCEPT !.id = FALSE],
     [Good("folder") EXCEPT !.parents = "blank"],
     [Good("root") EXCEPT !.parents = "some"],
     [Good("file") EXCEPT !.etag = FALSE],
     [Good("file") EXCEPT !.attributes = "missing"],
     [Good("folder") EXCEPT !.attributes = "ill-typed"]}

MCLots == {{}} \cup {{m} : m \in MCReplies} \cup {{Good("file"), m} : m \in MCReplies}

=============================================================================
