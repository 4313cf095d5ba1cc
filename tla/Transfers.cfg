\* An upload and a download, with two chunks of data.
SPECIFICATION FairSpec
CONSTANTS
    Uploads = {u1}
    Downloads = {d1}
    MaxChunks = 2
INVARIANTS NothingLost FinishedIsTrue
PROPERTIES CloseEnds CancelEndsKnownUpload
CHECK_DEADLOCK FALSE
