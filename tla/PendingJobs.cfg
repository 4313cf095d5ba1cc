\* Two clients share an upload and a download; two calls wait at a time.
SPECIFICATION FairSpec
CONSTANTS
    NoClient = NoClient
    Clients = {c1, c2}
    UploadJobs = {u1}
    DownloadJobs = {d1}
    MaxRequests = 2
INVARIANTS WatchMatchesTable EndedAtMostOnce
PROPERTIES ReportIsFinal VanishedClientsJobsEnd RemovalEndsEverything
CHECK_DEADLOCK FALSE
