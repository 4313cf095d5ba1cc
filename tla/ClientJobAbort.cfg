\* The same instance: may an error that a provider reports kill the client?
SPECIFICATION FairSpec
CONSTANTS
    Pages <- MCPages
    MaxPages = 1
    Builds = {TRUE}
INVARIANT ErrorsConstructible
CHECK_DEADLOCK FALSE
