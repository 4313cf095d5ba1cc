\* A client that leaves while its CreateFile is still being served.
SPECIFICATION FairSpec
CONSTANTS
    NoClient = NoClient
    Clients = {c1}
    UploadJobs = {u1}
    DownloadJobs = {}
    MaxRequests = 1
PROPERTIES CrashCancels
CHECK_DEADLOCK FALSE
