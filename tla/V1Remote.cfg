SPECIFICATION Spec
CONSTANTS
    Handles = {"r", "h", "n"}
    Calls = {1, 2}
    Replies <- MCReplies
    Lots <- MCLots
    Builds = {TRUE, FALSE}
INVARIANT ErrorsKeepTheirKind
INVARIANT OnlyValidItems
PROPERTY RemoteFuturesEnd
CHECK_DEADLOCK FALSE
