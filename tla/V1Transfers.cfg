\* An upload and a download of two bytes, with a change by others.
SPECIFICATION TransfersSpec
CONSTANTS
    Bytes = 2
    MaxReplaced = 1
INVARIANT TrueUploads
PROPERTY TransferFuturesEnd
CHECK_DEADLOCK FALSE
