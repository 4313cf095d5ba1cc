\* Two calls from one of four mixes of methods.
SPECIFICATION Spec
CONSTANTS
    Handles = {"r", "x", "h1", "h2", "h3"}
    Calls = {1, 2}
    Mixes = {{"move", "delete"}, {"copy"}, {"create_folder", "lookup", "list"}, {"get", "parents", "size", "accessor"}}
    MaxChanges = 1
    Builds = {TRUE, FALSE}
INVARIANT EndedHandles
PROPERTY LocalFuturesEnd
CHECK_DEADLOCK FALSE
