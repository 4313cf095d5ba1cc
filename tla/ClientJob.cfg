\* One job of any kind, replies with good and bad items, up to three pages.
SPECIFICATION FairSpec
CONSTANTS
    Pages <- MCPages
    MaxPages = 3
    Builds = {TRUE, FALSE}
INVARIANTS ItemsUsable CompleteWhenFinished EndsWithOneSignal
PROPERTIES ShutdownStops JobEnds
CHECK_DEADLOCK FALSE
