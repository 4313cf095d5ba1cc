\* Two calls of any kind, and the jobs they start, on either kind of account.
SPECIFICATION MCSpec
CONSTANTS
    Handlers = {h1, h2}
    Kinds = {"plain", "create", "finish"}
    Fixed = FALSE
    MaxChanges = 1
INVARIANTS ActivityCounted ExitsOnlyIdle RetryIsFresh
PROPERTIES AnswersOnce
CHECK_DEADLOCK FALSE
