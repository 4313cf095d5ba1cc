---------------------------- MODULE PendingJobs ----------------------------
(***************************************************************************)
(* The table of uploads and downloads that a provider keeps for one        *)
(* account, from the moment the provider is asked for a job until the job  *)
(* object is destroyed:                                                    *)
(*   - PendingJobs.cpp: the two maps keyed by (client bus name, job id),   *)
(*     the per-client count of jobs, and the watch for vanished clients;   *)
(*   - ProviderInterface.cpp: the D-Bus methods that add and remove jobs;  *)
(*   - UploadJobImpl.cpp, DownloadJobImpl.cpp: completed_ and the          *)
(*     completion lock, which decide whether the provider's own finish()   *)
(*     or cancel() is called.                                              *)
(* Everything here runs on the main loop except ReportClose and            *)
(* ReportComplete: a provider may report from any thread.                  *)
(***************************************************************************)
EXTENDS Naturals, FiniteSets

CONSTANTS
    Clients,      \* unique bus names of clients (never reused by the bus)
    UploadJobs,   \* ids of the upload jobs the provider may hand out
    DownloadJobs, \* ids of the download jobs
    NoClient,     \* the owner of a job that was never asked for
    MaxRequests   \* bound: FinishX/CancelX calls waiting at the same time

Jobs == UploadJobs \cup DownloadJobs

ASSUME ConstantsAssumption ==
    /\ IsFiniteSet(UploadJobs) /\ IsFiniteSet(DownloadJobs)
    /\ UploadJobs \cap DownloadJobs = {}
    /\ NoClient \notin Clients
    /\ MaxRequests \in Nat

VARIABLES
    connected,  \* clients that are on the bus
    lost,       \* clients whose serviceUnregistered signal waits in the main loop
    requests,   \* FinishUpload, CancelUpload, FinishDownload calls whose
                \* handler has not run its callback yet
    phase,      \* life cycle of each job, see Phases
    owner,      \* the client that asked for the job
    uploads,    \* PendingJobs::uploads_ (the key of j is <<owner[j], j>>)
    downloads,  \* PendingJobs::downloads_
    services,   \* PendingJobs::services_; 0 stands for "no entry"
    watched,    \* services known to PendingJobs::watcher_
    reporting,  \* provider threads inside report_error() / report_complete()
    completion, \* completed_ with the value of completion_promise_
    finished,   \* how often the provider's finish() was called
    cancelled,  \* how often the provider's cancel() was called
    answer,     \* where the reply to FinishUpload/FinishDownload comes from
    account     \* "live", "removed" (interface gone, AccountData still held
                \* by continuations), "destroyed" (~PendingJobs has run)

vars == <<connected, lost, requests, phase, owner, uploads, downloads, services,
          watched, reporting, completion, finished, cancelled, answer, account>>

Phases == {"unborn",     \* not asked for yet
           "creating",   \* the provider's create_file/update/download future is open
           "pending",    \* in the table
           "finishing",  \* taken out by FinishX, its future is open
           "cancelling", \* taken out by CancelUpload, its future is open
           "aborting",   \* taken out by cancel_job(), its future is open
           "gone"}       \* no reference to the job is left

Reports == {"ok", "error"}
Requests == [op : {"finish", "cancel"}, client : Clients, job : Jobs]

Table == uploads \cup downloads
JobsOf(c, S) == {j \in S : owner[j] = c}

Init ==
    /\ connected = Clients
    /\ lost = {}
    /\ requests = {}
    /\ phase = [j \in Jobs |-> "unborn"]
    /\ owner = [j \in Jobs |-> NoClient]
    /\ uploads = {} /\ downloads = {}
    /\ services = [c \in Clients |-> 0]
    /\ watched = {}
    /\ reporting = [j \in Jobs |-> "no"]
    /\ completion = [j \in Jobs |-> "none"]
    /\ finished = [j \in Jobs |-> 0]
    /\ cancelled = [j \in Jobs |-> 0]
    /\ answer = [j \in Jobs |-> "none"]
    /\ account = "live"

(***************************************************************************)
(* The bus.  A client that leaves is announced only to those who watch     *)
(* its name at that moment.                                                *)
(***************************************************************************)
Disconnect(c) ==
    /\ c \in connected
    /\ connected' = connected \ {c}
    /\ lost' = IF c \in watched THEN lost \cup {c} ELSE lost
    /\ UNCHANGED <<requests, phase, owner, uploads, downloads, services, watched,
                   reporting, completion, finished, cancelled, answer, account>>

\* A client sends FinishUpload, CancelUpload or FinishDownload for any id it
\* likes, its own or not.  There is no CancelDownload.
Send(r) ==
    /\ account = "live"
    /\ r.client \in connected
    /\ r \notin requests
    /\ Cardinality(requests) < MaxRequests
    /\ r.op = "cancel" => r.job \in UploadJobs
    /\ requests' = requests \cup {r}
    /\ UNCHANGED <<connected, lost, phase, owner, uploads, downloads, services,
                   watched, reporting, completion, finished, cancelled, answer, account>>

(***************************************************************************)
(* watch_peer / unwatch_peer.                                              *)
(***************************************************************************)
\* Mutant: the client's name is watched only from its second job on.
WatchPeer_Late(c) ==
    /\ services' = [services EXCEPT ![c] = @ + 1]
    /\ watched' = IF services[c] > 0 THEN watched \cup {c} ELSE watched

\* Mutant: every job resets the count to one.
WatchPeer_Resets(c) ==
    /\ services' = [services EXCEPT ![c] = 1]
    /\ watched' = watched \cup {c}

WatchPeer(c) ==
    /\ services' = [services EXCEPT ![c] = @ + 1]
    /\ watched' = IF services[c] > 0 THEN watched ELSE watched \cup {c}

UnwatchPeer(c) ==
    IF services[c] = 0
    THEN UNCHANGED <<services, watched>>
    ELSE /\ services' = [services EXCEPT ![c] = @ - 1]
         /\ watched' = IF services[c] = 1 THEN watched \ {c} ELSE watched

(***************************************************************************)
(* CreateFile, Update and Download.                                        *)
(***************************************************************************)
Create(c, j) ==
    /\ account = "live"
    /\ c \in connected
    /\ phase[j] = "unborn"
    /\ phase' = [phase EXCEPT ![j] = "creating"]
    /\ owner' = [owner EXCEPT ![j] = c]
    /\ UNCHANGED <<connected, lost, requests, uploads, downloads, services, watched,
                   reporting, completion, finished, cancelled, answer, account>>

\* add_upload / add_download
AddJob(j) ==
    /\ uploads' = IF j \in UploadJobs THEN uploads \cup {j} ELSE uploads
    /\ downloads' = IF j \in DownloadJobs THEN downloads \cup {j} ELSE downloads
    /\ WatchPeer(owner[j])

\* The continuation on the provider's future: f.get() succeeds and the job is
\* entered into the table under the client's name.  Nothing asks whether the
\* client is still there.
CreateDone(j) ==
    /\ phase[j] = "creating"
    /\ phase' = [phase EXCEPT ![j] = "pending"]
    /\ AddJob(j)
    /\ UNCHANGED <<connected, lost, requests, owner, reporting, completion,
                   finished, cancelled, answer, account>>

\* f.get() throws: there is no job.
CreateFailed(j) ==
    /\ phase[j] = "creating"
    /\ reporting[j] = "no"
    /\ phase' = [phase EXCEPT ![j] = "gone"]
    /\ UNCHANGED <<connected, lost, requests, owner, uploads, downloads, services,
                   watched, reporting, completion, finished, cancelled, answer, account>>

(***************************************************************************)
(* remove_upload / remove_download: the key is the caller's bus name and   *)
(* the id it sent.                                                         *)
(***************************************************************************)
Registered(c, j) == j \in Table /\ owner[j] = c

\* Mutant: the job is looked up and not erased.
Remove_NoErase(c, j) ==
    /\ UNCHANGED <<uploads, downloads>>
    /\ UnwatchPeer(c)

Remove(c, j) ==
    /\ uploads' = uploads \ {j}
    /\ downloads' = downloads \ {j}
    /\ UnwatchPeer(c)

\* Mutant: completed_ is not looked at.
FinishJob_Always(j) ==
    /\ answer' = [answer EXCEPT ![j] = "provider"]
    /\ finished' = [finished EXCEPT ![j] = @ + 1]

\* UploadJobImpl::finish, DownloadJobImpl::finish
FinishJob(j) ==
    IF completion[j] # "none"
    THEN /\ answer' = [answer EXCEPT ![j] = completion[j]]
         /\ UNCHANGED finished
    ELSE /\ answer' = [answer EXCEPT ![j] = "provider"]
         /\ finished' = [finished EXCEPT ![j] = @ + 1]

\* UploadJobImpl::cancel, DownloadJobImpl::cancel, for every job of S
CancelJobs(S) ==
    cancelled' = [j \in Jobs |-> IF j \in S /\ completion[j] = "none"
                                 THEN cancelled[j] + 1 ELSE cancelled[j]]

\* FinishUpload and FinishDownload, once the handler runs the callback
Finish(r) ==
    /\ r.op = "finish"
    /\ Registered(r.client, r.job)
    /\ requests' = requests \ {r}
    /\ Remove(r.client, r.job)
    /\ phase' = [phase EXCEPT ![r.job] = "finishing"]
    /\ FinishJob(r.job)
    /\ UNCHANGED <<connected, lost, owner, reporting, completion, cancelled, account>>

\* CancelUpload, once the handler runs the callback
Cancel(r) ==
    /\ r.op = "cancel"
    /\ Registered(r.client, r.job)
    /\ requests' = requests \ {r}
    /\ Remove(r.client, r.job)
    /\ phase' = [phase EXCEPT ![r.job] = "cancelling"]
    /\ CancelJobs({r.job})
    /\ UNCHANGED <<connected, lost, owner, reporting, completion, finished, answer,
                   account>>

\* LogicException "No such upload" / "No such download"
NoSuchJob(r) ==
    /\ ~ Registered(r.client, r.job)
    /\ requests' = requests \ {r}
    /\ UNCHANGED <<connected, lost, phase, owner, uploads, downloads, services,
                   watched, reporting, completion, finished, cancelled, answer, account>>

\* The continuation on the future of finish() or cancel() drops the last
\* reference to the job.  A provider keeps its job alive while one of its
\* threads is inside report_error().
Release(j) ==
    /\ phase[j] \in {"finishing", "cancelling", "aborting"}
    /\ reporting[j] = "no"
    /\ phase' = [phase EXCEPT ![j] = "gone"]
    /\ UNCHANGED <<connected, lost, requests, owner, uploads, downloads, services,
                   watched, reporting, completion, finished, cancelled, answer, account>>

(***************************************************************************)
(* report_error() and report_complete(): the socket is closed first, then  *)
(* completed_ is set under the completion lock that finish() and cancel()  *)
(* hold as well.                                                           *)
(***************************************************************************)
ReportClose(j, result) ==
    /\ phase[j] \notin {"unborn", "gone"}
    /\ reporting[j] = "no"
    /\ completion[j] = "none"
    /\ result = "ok" => j \in DownloadJobs
    /\ reporting' = [reporting EXCEPT ![j] = result]
    /\ UNCHANGED <<connected, lost, requests, phase, owner, uploads, downloads,
                   services, watched, completion, finished, cancelled, answer, account>>

ReportComplete(j) ==
    /\ reporting[j] # "no"
    /\ completion' = [completion EXCEPT ![j] = reporting[j]]
    /\ reporting' = [reporting EXCEPT ![j] = "no"]
    /\ UNCHANGED <<connected, lost, requests, phase, owner, uploads, downloads,
                   services, watched, finished, cancelled, answer, account>>

(***************************************************************************)
(* service_disconnected: forget the client, then take out and cancel every *)
(* job of it.                                                              *)
(***************************************************************************)
ServiceDisconnected(c) ==
    LET dropped == JobsOf(c, Table)
    IN /\ c \in lost
       /\ account # "destroyed"
       /\ lost' = lost \ {c}
       /\ services' = [services EXCEPT ![c] = 0]
       /\ watched' = watched \ {c}
       /\ uploads' = uploads \ dropped
       /\ downloads' = downloads \ dropped
       /\ phase' = [j \in Jobs |-> IF j \in dropped THEN "aborting" ELSE phase[j]]
       /\ CancelJobs(dropped)
       /\ UNCHANGED <<connected, requests, owner, reporting, completion, finished,
                      answer, account>>

(***************************************************************************)
(* ServerImpl::remove_account destroys the interface and its handlers;     *)
(* AccountData, which owns the table, lives on in the continuations of the *)
(* open futures and is destroyed with the last of them.                    *)
(***************************************************************************)
RemoveAccount ==
    /\ account = "live"
    /\ account' = "removed"
    /\ requests' = {}
    /\ UNCHANGED <<connected, lost, phase, owner, uploads, downloads, services,
                   watched, reporting, completion, finished, cancelled, answer>>

\* Mutant: jobs in the table keep the account alive.
DestroyPendingJobs_Cycle ==
    /\ account = "removed"
    /\ \A j \in Jobs : phase[j] \in {"unborn", "gone"}
    /\ account' = "destroyed"
    /\ UNCHANGED <<connected, lost, requests, phase, owner, uploads, downloads,
                   services, watched, reporting, completion, finished, cancelled, answer>>

DestroyPendingJobs ==
    /\ account = "removed"
    /\ \A j \in Jobs : phase[j] \notin {"creating", "finishing", "cancelling"}
    /\ account' = "destroyed"
    /\ uploads' = {} /\ downloads' = {}
    /\ services' = [c \in Clients |-> 0]
    /\ watched' = {}
    /\ phase' = [j \in Jobs |-> IF j \in Table THEN "aborting" ELSE phase[j]]
    /\ CancelJobs(Table)
    /\ UNCHANGED <<connected, lost, requests, owner, reporting, completion,
                   finished, answer>>

-----------------------------------------------------------------------------
Runtime ==
    \/ \E j \in Jobs : CreateDone(j) \/ CreateFailed(j) \/ Release(j) \/ ReportComplete(j)
    \/ \E r \in requests : Finish(r) \/ Cancel(r) \/ NoSuchJob(r)
    \/ \E c \in Clients : ServiceDisconnected(c)
    \/ DestroyPendingJobs

Environment ==
    \/ \E c \in Clients : Disconnect(c)
    \/ \E r \in Requests : Send(r)
    \/ \E c \in Clients, j \in Jobs : Create(c, j)
    \/ \E j \in Jobs, result \in Reports : ReportClose(j, result)
    \/ RemoveAccount

Next == Runtime \/ Environment

Spec == Init /\ [][Next]_vars

\* The main loop delivers what is queued on it, and a provider eventually
\* makes the futures it returned ready.  Clients and reports are not fair.
FairSpec ==
    /\ Spec
    /\ \A j \in Jobs : /\ WF_vars(CreateDone(j) \/ CreateFailed(j))
                       /\ WF_vars(Release(j))
                       /\ WF_vars(ReportComplete(j))
    /\ \A r \in Requests : WF_vars(r \in requests /\ (Finish(r) \/ Cancel(r) \/ NoSuchJob(r)))
    /\ \A c \in Clients : WF_vars(ServiceDisconnected(c))
    /\ WF_vars(DestroyPendingJobs)

-----------------------------------------------------------------------------
(***************************************************************************)
(* Properties.                                                             *)
(***************************************************************************)
\* Types of the variables of PendingJobs, of the jobs in it and of the bus.
TypeOK ==
    /\ connected \subseteq Clients
    /\ lost \subseteq Clients
    /\ requests \subseteq Requests
    /\ phase \in [Jobs -> Phases]
    /\ owner \in [Jobs -> Clients \cup {NoClient}]
    /\ uploads \subseteq UploadJobs
    /\ downloads \subseteq DownloadJobs
    /\ services \in [Clients -> Nat]
    /\ watched \subseteq Clients
    /\ reporting \in [Jobs -> Reports \cup {"no"}]
    /\ completion \in [Jobs -> Reports \cup {"none"}]
    /\ finished \in [Jobs -> Nat]
    /\ cancelled \in [Jobs -> Nat]
    /\ answer \in [Jobs -> Reports \cup {"none", "provider"}]
    /\ account \in {"live", "removed", "destroyed"}

\* services_ counts exactly the jobs a client has in both maps together, and
\* the watcher knows exactly the clients with a count (watch_peer,
\* unwatch_peer and service_disconnected keep the three in step).
WatchMatchesTable ==
    \A c \in Clients : /\ services[c] = Cardinality(JobsOf(c, Table))
                       /\ c \in watched <=> services[c] > 0

\* UploadJob.h, DownloadJob.h: finish() and cancel() are called at most once
\* between them, whatever mix of FinishX, CancelUpload, vanished clients and
\* account removal ends the job.
EndedAtMostOnce ==
    \A j \in Jobs : finished[j] + cancelled[j] <= 1

\* No job leaves the table silently: one that is no longer pending was
\* finished or cancelled, or had itself reported its end, and one still in the
\* table was not told to end yet.
NeverDropped ==
    \A j \in Jobs :
        /\ phase[j] \in {"finishing", "cancelling", "aborting"}
             => finished[j] + cancelled[j] = 1 \/ completion[j] # "none"
        /\ j \in Table => finished[j] + cancelled[j] = 0

\* The phase of a job says whether it is in the table, has an owner, and has
\* been told to end.
PhaseMatchesTable ==
    \A j \in Jobs :
        /\ j \in Table <=> phase[j] = "pending"
        /\ phase[j] # "unborn" => owner[j] \in Clients
        /\ phase[j] \in {"unborn", "creating", "pending"} => finished[j] + cancelled[j] = 0

\* A report that is under way is the first one of its job, and a job that is
\* gone has none under way.
ReportsOnce ==
    \A j \in Jobs : reporting[j] # "no" =>
        completion[j] = "none" /\ phase[j] \notin {"unborn", "gone"}

\* The inductive invariant behind the safety properties: table, counts, calls
\* and reports of the jobs agree after every callback of the main loop.
IInv ==
    /\ TypeOK
    /\ WatchMatchesTable
    /\ PhaseMatchesTable
    /\ ReportsOnce
    /\ EndedAtMostOnce
    /\ NeverDropped

\* Once completed_ is set the provider's finish() and cancel() are not called
\* any more, and a finish request is answered with what was reported.
ReportIsFinal ==
    [][\A j \in Jobs : completion[j] # "none" =>
            /\ finished'[j] = finished[j]
            /\ cancelled'[j] = cancelled[j]
            /\ completion'[j] = completion[j]
            /\ answer'[j] \in {answer[j], completion[j]}]_vars

\* "each ID can be used only by its corresponding client" (UploadJob.h): a job
\* leaves the table by a call of its owner, by the owner leaving the bus, or
\* with the whole table.
OnlyOwnerEnds ==
    [][\A j \in Table : j \notin Table' =>
            \/ \E r \in requests \ requests' : r.client = owner[j] /\ r.job = j
            \/ owner[j] \in lost \ lost'
            \/ account' = "destroyed"]_vars

\* A job that was in the table while its client was connected does not stay
\* there once the client has left the bus (service_disconnected).
VanishedClientsJobsEnd ==
    \A j \in Jobs : (j \in Table /\ owner[j] \in connected)
                        ~> (j \notin Table \/ [](owner[j] \in connected))

\* After remove_account every job is out of the table and AccountData goes:
\* no job keeps the account alive that keeps the job alive.
RemovalEndsEverything ==
    (account = "removed") ~> (account = "destroyed" /\ Table = {})

\* UploadJob.h:109: cancel() is called "when a client explicitly cancels an
\* upload or crashes": a job whose client is gone does not stay in the table.
CrashCancels ==
    \A j \in Jobs : (j \in Table /\ owner[j] \notin connected) ~> (j \notin Table)
=============================================================================
