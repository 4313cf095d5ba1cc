\* Two calls on items with any arguments, one step of either at a time; or two
\* uploads of one byte, or an upload and a download, with a change by others; or
\* a temp-file upload of up to three bytes.
SPECIFICATION MCSpec
CONSTANTS
    Threads = {t1, t2}
    Names = {"a", "b", "c", "o", "dots", "outside", "dotted"}
    NameArgs = {"a", "c", "dots"}
    Trees <- MCTrees
    ItemIds <- MCItemIds
    ParentIds <- MCParentIds
    Outside <- MCOutside
    Dotted <- MCDotted
    Uploads = {u1, u2}
    Downloads = {d1}
    Mixes = {{u1, u2}, {u1, d1}, {}}
    Size = 1
    FileSizes = {1, 3}
    Chunk = 2
    MaxChanges = 1
    Asserts = TRUE
    MaxBytes = 3
INVARIANTS TemporariesStayPrivate ErrorAfterSuccessIsInterference
           WholeTransfers AgreedReplacement GoneOnlyInTheWindow DrainedIsComplete
PROPERTIES NoSilentLoss CopyAppearsWhole DownloadEnds
CHECK_DEADLOCK FALSE
