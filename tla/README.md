# Formal specification of storage-framework

TLA+ modules for the core of storage-framework, the TLC configurations that
model-check them, and proofs that TLAPS checks. Paths below are relative to the
repository unless they name a module of this directory.

## The system

storage-framework gives applications one client API for many storage services.
Three kinds of process take part, joined by D-Bus:

* **Clients** (`src/qt`) use the v2 library: a `Runtime` (one D-Bus connection),
  `Account`s, `Item`s, and asynchronous *jobs*: `ItemJob`, `ItemListJob`,
  `VoidJob`, `AccountsJob`, and the two socket-based ones, `Uploader` and
  `Downloader`. A job leaves its first state for a final state and announces
  every change by a signal. An older v1 library is in `src/qt/client`.
* **Providers** (`src/provider`, `src/local-provider`) each serve the accounts
  of one service. `ProviderInterface` receives the D-Bus calls. Each call is a
  `Handler`, which waits until the account is authenticated, looks up the
  caller's credentials, runs the provider's method, retries once after an
  authorization error, and replies. `PendingJobs` keeps uploads and downloads
  between the call that starts them and the call that ends them.
* **The registry** (`src/registry`) lists the accounts that clients can use.

Each process has one Qt main loop. Continuations of futures are brought back to
it by `MainLoopExecutor`, so a slot or a continuation runs without interruption
and is one action here. Concurrency comes from elsewhere: any slot of one
handler may run between two slots of another; replies, signals of the bus,
time-outs and deferred deletions are queued and arrive in any order; processes
leave the bus at any time; and a provider may report the end of a job from any
thread.

### Inventory

| Component | State | Operations | Hard behaviour | What makes it correct |
|---|---|---|---|---|
| Pending jobs, upload and download jobs (`PendingJobs.cpp`, `UploadJobImpl.cpp`, `DownloadJobImpl.cpp`, the methods of `ProviderInterface.cpp`) | two maps keyed by client and id, jobs per client, watched names; per job: `completed_`, the promise, the lock | add, remove, FinishX, CancelUpload, report_error, report_complete, service_disconnected, destruction | clients vanish at any point; a report from a thread against finish and cancel; account removed with open futures | a job ends exactly once, on behalf of its owner; counts, watches and tables agree; a vanished client or a removed account ends its jobs |
| Request handling (`Handler.cpp`, `ProviderInterface.cpp`) | per call: retry flag, credentials in use, future | begin, on_authenticated, credentials_received, handle_unauthorized, send_reply, deletion | shared credentials change between check and use; retries | one reply; at most two runs of the method; a retry with new credentials |
| Account data (`OnlineAccountData.cpp`, `FixedAccountData.cpp`) | credentials, current session and its requirements | authenticate, on_authenticated, on_changed | sessions joined or replaced by several handlers | nobody waits for a signal that will not come |
| Inactivity timer (`InactivityTimer.cpp`, `ActivityNotifier.h`) | number of activities, timer | request_started, request_finished, timeout | every handler and every job counts on a path of its own | the count is exact; no exit with work left |
| D-Bus peer cache (`DBusPeerCache.cpp`) | current and old generation, pending questions with promises | get, received_credentials | callers join a question under way; rotation at the limit | entries are true; every caller is answered |
| Provider server, registry and start-up (`ServerImpl.cpp`, `RegistryAdaptor.cpp`, `ListAccountsHandler.cpp`, `registry/main.cpp`) | accounts and their objects, bus names, one handler and one time-out per ListAccounts() call | start, account enabled or disabled, list, exit on inactivity | processes that are started on demand and exit when idle; Online Accounts that never answers; a time-out against its answer | every call gets one answer that fits the account |
| Temp-file uploads (`TempfileUploadJobImpl.cpp`) | temporary file, socket | read_some, drain | data still in the socket at finish | all data is in the file |
| Local provider, jobs (`LocalUploadJob.cpp`, `LocalDownloadJob.cpp`) | bytes left, temporary file, state | on_bytes_ready, finish, cancel, read_and_write_chunk | surplus or missing bytes; files changed meanwhile; crash between unlink and link | old or new contents, never neither; no overwritten conflict |
| Local provider, items (`LocalProvider.cpp`) | the file system | list, lookup, create, move, copy, delete | check and change in separate system calls, on threads | no item outside the root, no item lost |
| Client uploads and downloads (`UploaderImpl.cpp`, `DownloaderImpl.cpp`) | status, buffer, socket, id, finalizing | writeData, process_reply, process_error, cancel, close, destruction | cancel, close, time-out and shutdown cross replies | no data lost or reordered; Finished is true; final states stay |
| Client list and item jobs (`*JobImpl.cpp`) | status, replies remaining, items | replies, errors, paging | replies in any order, shutdown between them, deferred signals | one final state, one signal, all items before it |
| Client runtime, account, item (`RuntimeImpl.cpp`, `AccountImpl.cpp`, `ItemImpl.cpp`, `validate.cpp`, `unmarshal_error.cpp`) | validity, cached fields | calls with their guards, validation, comparison, hashing | used after shutdown; kept in sorted and hashed containers | every invalid call gives an error, not a call; a strict order that agrees with equality and hashes |
| Client v1, local (`src/qt/client/internal/local_client`) | handles with a mutex and a cached path, the runtime, workers with sockets | copy, move, delete, list, lookup, create_folder, get, parents, accessors, uploads and downloads | lambdas in a thread pool look again at what the caller looked at; two mutexes; worker threads; other processes | a handle ends once; futures end; an upload says the truth |
| Client v1, remote (`src/qt/client/internal/remote_client`) | handles, transfers, calls | the same methods as D-Bus calls, `accounts()`, validation of replies | objects dropped and runtime shut down before a reply; any exception; bad metadata | the future ends with the error the provider meant; only valid items |

The others (test server, public classes, QML plugin, demo, packaging) are in
`PROJECT.json` with the reason why they are left out.

## Modules

| Module | Models | Extends / instantiates |
|---|---|---|
| `PendingJobs` | the job table of one account and the life of its jobs | |
| `DBusPeerCache` | the two-generation cache of peers' credentials | |
| `InactivityTimer` | the count of activities and the exit | |
| `RequestReply` | abstract: what a provider promises for every call | |
| `ProviderRequests` | handlers, account data, exit | extends `InactivityTimer`; implements `RequestReply` |
| `MCProviderRequests` | the same on an online or a fixed account | extends and instantiates `ProviderRequests` |
| `Transfers` | client-side uploads and downloads (v2) | |
| `ClientJob`, `MCClientJob` | one list, item, void or accounts job of the v2 client, `validate()`, the guards of calls | |
| `Comparison` | order, equality and hash of accounts and items (v2) | |
| `FileTree` | external: the system calls on a small tree of files and folders | |
| `LocalProvider` | item operations of the local provider, as threads | extends `FileTree` |
| `LocalJobs` | uploads and downloads of the local provider on one path | |
| `TempfileUpload` | uploads that are collected in a temporary file | |
| `MCLocalProvider` | a local provider with one of these three loads | extends `LocalJobs`, `TempfileUpload`, `LocalProvider` |
| `Accounts` | registry, provider server, v1 `accounts()`, processes started by the bus | |
| `V1Local` | items of the local v1 client | extends `FileTree` |
| `V1Transfers` | uploads and downloads of the local v1 client | |
| `Marshalling` | exceptions and metadata between a provider and the v1 client | |
| `V1Remote`, `MCV1Remote` | items and transfers of the remote v1 client | extends `Marshalling` |
| `PendingJobsProofs`, `TransfersProofs`, `AccountsProofs` | theorems about the module they are named after | |
| `ProviderRequestsProofs` | theorems about `ProviderRequests` and `DBusPeerCache` | |
| `ClientJobProofs` | theorems about `ClientJob` and `Comparison` | |
| `LocalProviderProofs` | theorems about `LocalJobs`, `TempfileUpload` and `LocalProvider` | |
| `V1LocalProofs` | theorems about `V1Local` and `V1Transfers` | |
| `V1RemoteProofs` | theorems about `V1Remote` and `Marshalling` | |

Where one proof module is about two modules, or an `MC` module extends two, the second
one's definitions carry a prefix (`CacheSpec`, `TransfersNext`, `TempInit`), so that both
can be extended.

Definitions named `X_Y` with a comment "Mutant" are faulty versions of `X`; they
are not part of a specification and only serve to show that a property notices
them.

**PendingJobs.** `uploads`, `downloads`, `services`, `watched` are the members of
the class. The key of a map entry is the pair of owner and id; ids are unique,
so the tables are sets of ids and `owner` gives the other half. `phase` is where
the job is between the provider's first future and its destruction. `completion`
is `completed_` together with the promise's value. `finished` and `cancelled`
count the calls of the provider's own methods. `ReportClose` and
`ReportComplete` are the two halves of `report_error()`/`report_complete()`: the
socket is closed before the completion lock is taken, and `finish()` or
`cancel()` may run in between. A client may send calls with any id.
`RemoveAccount` destroys the interface with its handlers; the account data, and
the table in it, live until the last continuation is done.

**DBusPeerCache.** `get()` is four actions: a hit in the current generation, one
in the old generation, a question already under way, and a new question. What
the code reads from memory it has freed (line 97) is the value `Garbage`. A
peer's uid, pid and label are one value, since only whether they are the peer's
own matters.

**ProviderRequests.** A handler's `pc` follows its slots. The account's
credentials are token numbers, 0 for none; `session` is the running
authentication session with its two requirements. Calls are of three kinds:
`create` leaves a job with an activity notifier of its own, `finish` takes its
job out of the table before it calls the provider (so a second run finds none),
`plain` does neither. Peers' credentials are external here: known or not.
`exited` stops everything.

**Transfers.** `status`, `finalizing`, `buffer`, `socket` are the members of
`UploaderImpl` and `DownloaderImpl`; `call` and `finish` are the replies to
CreateFile/Update/Download and FinishUpload/FinishDownload. Data is a sequence of
numbered chunks. The provider (`asked`, `job`) is external: it creates, finishes
and cancels as told, in any order. A D-Bus call may time out at the client while
the provider still handles it. `waitForBytesWritten()` handles the reply at once,
which is the action `ProcessReply` like the queued delivery.

**ClientJob.** One job and the runtime; `method` says which call made it and so which
class it is of. `status`, `error` and `remaining` are members of the job, `log` is
what its client heard, `queued` a signal that waits in the event loop. Metadata is a
record of what `validate()` looks at: whether id, name and etag are there, how many
parents, and whether the two mandatory keys are absent, bad or good. `total` is how
many pages the provider has, or how many parents were asked for. A slot of
`itemsReady` that shuts the runtime down is the same as a shutdown right after the
step, except that the call for the next page is on its way already; its reply makes
the job fail. The early return of `MultiItemListJobImpl.cpp:52` is never taken: that
job has one call open at a time and none in a final state. A type that `operator>>`
refuses is left as it was, and nothing is read after it (`dbusmarshal.cpp:62` of
`src/internal`): such metadata are "impossible" ones, which `validate()` lets through
if the rest is there. The item a client calls a method of was validated, or comes from
`Uploader::item()`, which looks at its type only. `Builds` says whether assertions are
compiled in, or both.

**LocalProvider.** A call is a thread (`invoke_async()`), and its steps are its
system calls: it checks its arguments, acts in one or more changes of `fs`, then
asks for the status of what it made. Arguments are any item, the root, an id
outside the root, one whose canonical form is another path, and good, reserved and
dotted names. `op[t]` holds what the thread has found out so far and the result.
Files carry data, so that a lost or overwritten file can be seen. `copy()` of a folder asks `canonical()` for the parent, then
`create_directories()` looks upwards for what is missing and makes it, one `mkdir()` a
step, and then the source is opened; each of these may find that another call has
changed the tree, and a parent that was deleted in between is made again, in sight of
everyone. A thread's temporary
folder is named by the thread (`unique_path()`), and the constants say that clients pass no
such names and that there are none when the provider starts. A `move()` of an entry that is
neither file nor folder is done and then answered with NotExists (`LocalProvider.cpp:397`
renames, `make_item()` refuses the type), so `ErrorAfterSuccessIsInterference` is about files
and folders, and counts such an entry that is moved over a fresh file as interference.

**LocalJobs.** A job's handlers are broken up at their system calls. `path` is what
is at the one path, `disk` every file there was, with its size, its modification time
and who wrote it; a job remembers what it found when it began. `finish()` is the drain of the
socket, the second check of the ETag, `unlink()`, `linkat()` and the final `stat`;
between any two of them others write, replace or remove the file, and the process may
die.

**TempfileUpload.** The client writes and closes while `read_some()` and the loop of
`drain()` copy. Whether `assert()` is compiled in is a constant, since the temporary
file is opened within one.

**Accounts.** A process (the registry, a provider, the local provider) is not running,
starting or up, and has one inbox, in which the bus keeps the order of messages and
signals. A client lists the accounts and then calls one it was told of. Online Accounts
may answer late or never.

**V1Local.** A handle has a path, a type, a root it does not keep alive, and whether it
was deleted or moved. A call is begun in the client's thread under the handles'
mutexes, queued, and continued by a lambda which takes the mutexes again, looks again
and then makes its system calls. Methods that do all their work in the client's thread keep
the mutex meanwhile. A root lives as long as the account, the client or a call that has
locked it (`Keeps`); the client may shut the runtime down, or drop it with the account and
the roots. Handles that `copy()`, `move()` and `create_folder()` make get the root of the
new parent or of the folder, and `set_root()` asserts that it is still there: if it is not,
a build with assertions aborts (`MakeWithoutRoot`), one without makes a handle that
answers RuntimeDestroyed; `parents()` dereferences a null pointer.

**V1Transfers.** The client's object and its worker share a future, a pair of sockets
and a queue of signals; the worker takes what the socket says and what is queued in
either order. `abort()` in `handle_error()` does not disconnect the socket's signals, so
`readChannelFinished` may come back into `do_finish()` before the state is "error"
(`UploadErrors`): an upload whose last write failed may then be finalised, as all of its
bytes were counted (`bytes_read_` is raised before the write). `lost` marks it. If the root is
gone when `finalize()` needs the name of the file for a message, the exception leaves
the slot and the client terminates.

**V1Remote, Marshalling.** Every method that sends a call, the Handler that waits as a
child of the object whose method it was, and its closure. A reply is an error of any kind, or
metadata that differ from good ones in one thing `validate()` looks at. The account keeps
the roots of its last `roots()`, an Uploader its root, a Downloader its file (`Kept`); what
nobody keeps is destroyed with the Handlers of its calls (`Orphan`), also when another
`roots()` replaces a root the client has dropped. The client crashes on an item of no
type, on an unusable descriptor in the reply to `create_file()`, on an empty transfer id
in a build with assertions, and on `cancel()` of a Downloader whose file was deleted or
whose runtime is gone: that is `noexcept` and calls `name()`, which throws.

**Comparison.** Strings are integers in the order of QStrings; `qHash` and
`hash_combine` are constants about which nothing is assumed.

## Runs

| Run | Instance | Result |
|---|---|---|
| `pending_jobs` | 2 clients, 1 upload, 1 download, 2 calls waiting | passes: counts, watches and tables agree, a job is ended once, a report is final, jobs of vanished clients and of a removed account end |
| `pending_jobs_crash` | 1 client | `CrashCancels` is violated (below) |
| `peer_cache` | 4 peers, generations of 2, 2 callers | passes: entries true and kept for one rotation, every caller answered |
| `requests` | 2 calls of any kind, online or fixed account, 1 account change | passes: exact activity count, exit only when idle, retries with new tokens, and `RequestReply` is implemented |
| `transfers` | 1 upload, 1 download, 2 chunks | passes: no chunk lost or overtaken, Finished true, close and cancel come to an end |
| `client_jobs` | 1 job of any kind, on a validated item or one of `Uploader::item()`, 19 kinds of metadata, up to 3 pages, with and without assertions | passes: jobs hand out only items that fit the assertions of `sizeInBytes()` and `parents()`, complete when Finished, one final signal, nothing after a shutdown, every job ends |
| `client_jobs_abort` | 1 job | `ErrorsConstructible` is violated (below) |
| `local_provider` | 2 calls on items of a tree of 4 paths, with any arguments; or 2 uploads, or an upload and a download, of 1 byte on a path others change once (files of 1 or 3 bytes, read 2 at a time); or a temp-file upload of up to 3 bytes | passes: data are lost only by a delete or by the race `move()` accepts, copies appear whole and show nothing before but a parent made again, temporary folders stay out of sight, an error after a change is another call's doing; uploads are stored whole and replace only what the client agreed to, nothing is at the path only between `unlink()` and `linkat()`, downloads end; a drained file is complete |
| `v1_local` | 2 calls from one of five mixes of methods, 5 handles, 1 change by others, runtime, account and roots dropped at any time, with and without assertions | passes: a handle ends once, refused calls change nothing, futures end unless the process was aborted because of an expired root |
| `v1_remote` | 2 calls, 3 handles, 10 kinds of metadata, every exception, with and without assertions | passes: errors keep their kind, only valid items, futures end (with the exceptions below) |
| `v1_transfers` | 1 upload and 1 download of 2 bytes, 1 change by others, the runtime gone at any time | passes: the future of an upload tells the truth, futures and threads end |
| `accounts` | 2 calls, 1 account of the service, 1 of another, the local one, 2 changes | passes: answers and lists fit the accounts, every call to registry and local provider is answered |

**Bounds.** Jobs of one account interact only through their owner's count and
watch, so two jobs and two clients give every combination: the same and
different owners, the first and the last job of a client, a foreign id. Two
waiting calls allow a finish and a cancel for the same job. Four peers over
generations of two entries make the cache rotate twice. Two handlers are enough
for one to disturb what the other waits for; with one account change the
credentials change under a running call. An upload and a download share only the
runtime. Two chunks can be both before, both after, or on either side of the
reply with the socket. Jobs of `ClientJob`
share only the runtime's validity, so one job meets every case; the metadata are a
good file, folder and root, and a file and a root with each single fault, alone or
beside a good item; a first, a middle and a last page are three; a folder with two
parents has a first and a last reply. The proofs do not have these bounds.

Safety of `LocalProvider`, `LocalJobs`, `TempfileUpload`, `V1Local`, `V1Transfers`, `V1Remote`
and `Accounts` is proved without bounds as well; for their liveness the bounds matter
more. Two threads of `LocalProvider` on a
tree with a folder, a file in it, a file beside it and an entry that is neither: a
thread is disturbed by any one call between any two of its system calls, and
disturbances add up only through the tree. `LocalJobs`: one byte announced can be
missing, right or surplus; the file of three bytes takes two reads, the one of one byte
a short read; one change by others falls into every gap. A temp-file upload of three
bytes has data before, during and after the loop of `drain()`. `V1Local`: two calls
are a pair that may race for a handle or for two mutexes; the methods are split into
mixes that can disturb each other, because all at once are too many; a run has one of them. `V1Remote`: what one
call does to the next goes through a handle or the runtime. `V1Transfers`: two
bytes can arrive apart, and the change removes the file, writes it or makes another one at
any point; the theorem about uploads is for any number of changes. `Accounts`:
two changes disable an account and enable it again under one call.

**Deadlock** checking is off where a behaviour may end: all jobs used up, the
process has exited, all transfers destroyed, a job final and forgotten, all calls
made.

**Fairness.** The main loop delivers what is queued on it: replies, signals,
deferred deletions. A provider makes the futures it returned ready. An
authentication session ends, the bus daemon answers or the call times out, a
started timer fires, and threads of a pool and a worker's event loop run on. Clients,
users, reports of a provider, processes leaving the bus, other processes that write
files and Online Accounts have no fairness: nothing in the code makes them act. The
time-outs of D-Bus calls are not needed for liveness in `Transfers`, because the
provider's answer is fair. In `V1Remote` the bus answers every call, if with an error, as
QtDBus does after its time-out. Download jobs progress only as far as the client reads,
which `DownloadEnds` takes for granted; that is its premise and not the code's doing.

## Disagreements between the code and what it says

Those that have a run:

* `pending_jobs_crash`: a job is watched under its client's name only when the
  provider's future is ready. If the client has left by then, no signal comes for
  that name again, and the job is never cancelled (`PendingJobs.cpp:103`,
  `UploadJob.h:109`).
* `client_jobs_abort`: errors of the types Unauthorized and QuotaExceeded are made with
  a constructor that asserts they are not (`StorageErrorImpl.cpp:73`); without
  assertions, the table of names has 13 names for 14 types (`:38`).

Those with a formula in a module, which TLC refutes when it is added to the run's
configuration:

* `GetIsTrue` (`DBusPeerCache`): a hit in the old generation answers with a reference
  to an entry that was moved from and erased (`DBusPeerCache.cpp:97`).
* `MethodHasCredentials` (`ProviderRequests`): a handler checks that there are
  credentials, then asks for its peer, then uses the credentials, which another
  handler's retry may have blanked (`Handler.cpp:98`, `ProviderBase.h:63`).
* `RetryReachesProvider` (`ProviderRequests`): a refused `finish()` is retried against a
  table the job was already taken from (`ProviderInterface.cpp:259`, `tutorial.dox:500`).
* `CancelReachesProvider` (`Transfers`): cancelling an upload that is still Loading never
  reaches the provider (`UploaderImpl.cpp:201`, `UploadJob.h:109`).
* `DrainedIsComplete` with `Asserts = FALSE`: the temporary file is opened inside an
  `assert()` (`TempfileUploadJobImpl.cpp:49`, `TempfileUploadJob.h:84`).

Those that the models show as behaviour, or that were met while reading:

* Provider: `report_error()` closes the socket before it takes the completion lock
  (`UploadJobImpl.cpp:119`, `UploadJob.h:98`). Hits in the old generation enter the
  current one without the check of `MAX_CACHE_SIZE` (`DBusPeerCache.cpp:94` and `:175`),
  and an error of the bus daemon is cached like an answer (`:183`).
* An `UnauthorizedException` thrown by the method itself, rather than by its future, is
  not retried (`Handler.cpp:121`, `tutorial.dox:288` and `:498`), and a thrown object
  that is not a `std::exception` escapes the handler (`Handler.cpp:121`,
  `tutorial.dox:286`).
* A time-out of 0 exits at once instead of never, and large ones overflow
  (`InactivityTimer.cpp:34`, `EnvVars.cpp:74`, `tutorial.dox:607`). A provider that is
  never called, or only for objects it does not have, never exits
  (`InactivityTimer.cpp:57`, `tutorial.dox:240`).
* Registry: its own time-out and the client's for the call are both 25 seconds, so the
  client may give up first (`ListAccountsHandler.cpp`).
* Local provider: surplus data found by the drain of `finish()` make `report_error()`
  wait for a lock its own thread holds (`LocalUploadJob.cpp:325`): in `LocalJobs` the
  main loop is then "hung". A download of a file that shrinks stops without a report,
  one of a file that grows trips an assertion (`LocalDownloadJob.cpp:124`).
* Client v2: an error reply to CreateFile turns Cancelled into Error
  (`UploaderImpl.cpp:110`), while all other handlers of replies look at the status first
  (`:62`: "Don't transition to a final state more than once"). `NeverRevived` allows
  exactly this step and no other. `cancel()` of a download only closes the socket
  (`DownloaderImpl.cpp:181`). The item of a finished upload is made without
  `validate()` (`UploaderImpl.cpp:286`, where the comment at `:291` says "validate_() or
  make_item() have logged it"): if it has no parents, its `parents()` fails an assertion
  (`ItemImpl.cpp:143`), and without assertions makes a job that is Loading for ever, the
  exception in `JobEnds`. An item of an impossible type passes `validate()`, and its
  `type()` aborts (`ItemImpl.cpp:93`); `ItemsUsable` says nothing about `type()`.
* `accounts()` called after a shutdown turns a Finished accounts job into a failed one
  without a signal; called while the job is Loading it queues a signal, and an error
  reply then emits a second one (`AccountsJobImpl.cpp:65`; the comment at `:147` says
  "Once in a final state, we don't emit the signal again"). `EndsWithOneSignal`
  therefore leaves accounts jobs out.
* `Account.h:170` describes another equality of accounts than the code has (see
  `Comparison`).
* Client v1, remote: a `list()` with more than one lot of results makes a second Handler
  with a future of its own, so the client's future never ends
  (`FolderImpl.cpp:118`); this and calls whose object was dropped are the exceptions
  `RemoteFuturesEnd` names, besides the crashes: an item of no type (`ItemImpl.cpp:301`), an
  unusable descriptor or an empty id of a transfer (`UploaderImpl.cpp:59`,
  `DownloaderImpl.cpp:57`), and `DownloaderImpl::cancel()`, which is `noexcept` and throws
  for a deleted file or a destroyed runtime (`:94`). `parents()` is not implemented. Unauthorized has no entry in
  the table of exceptions (`dbusmarshal.cpp:87`). An item type out of range is read
  from uninitialised memory (`dbusmarshal.cpp:67` of `src/internal`). `BUS_NAMES` says
  `storage-provider-nextloud` (`RuntimeImpl.cpp:55`). After a time-out `accounts()`
  stays failed, and after a shutdown it returns its old result.
* Client v1, local: `set_timestamps()` goes on after a failed `stat()` with a structure
  that was never filled (`ItemImpl.cpp:400`). `copy()`, `move()` and `create_folder()` abort
  if the client has dropped runtime, account and root while they were at work
  (`ItemBase.cpp:73`), the one exception in `LocalFuturesEnd`. The constructor of a
  download that cannot open its file waits for ever (`DownloaderImpl.cpp:83`), and an upload
  whose last write failed may still be stored and reported as a file
  (`UploaderImpl.cpp:212` and `:343`): `TrueUploads` says that all bytes were counted, not
  that the last write has succeeded.
* Local provider: `create_directories()` in `copy()` makes a parent again that another call
  has deleted since `canonical()` (`LocalProvider.cpp:438`), with whatever is missing above it.

## Proofs

All theorems hold for any number of clients, jobs, peers, callers, handles, calls and
transfers, and any bound. The only assumptions are those on constants, named
`...Assumption` in the modules: disjoint sets of ids, a null value outside them,
natural numbers as bounds, and finite sets where elements are counted. TLC
evaluates them in the runs. One theorem has a premise of its own: `DrainIsComplete` is
about builds with assertions, since without them it is false (see above).

Each proof has the same shape: an inductive invariant, lemmas that say what one action
does to it, one step per action for `Inv /\ [Next]_vars => Inv'`, and theorems that follow
from it.

### The provider

* **PendingJobsProofs.** `WatchMatchesTable` is not inductive: whether a removed job
  lowers the right count depends on the owner and the phase of the job, and
  `EndedAtMostOnce` on the fact that a job in the table was not told to end. `IInv`
  adds `PhaseMatchesTable` and `ReportsOnce`. Facts about cardinalities (adding
  or removing one job, removing all jobs of a client) are lemmas. Proved:
  `Invariance`, `TypeCorrect`, `WatchesCorrect`, `EndsOnce`, `NothingDropped`,
  `ReportsFinal`, `OwnersEnd`.
* **ProviderRequestsProofs, handlers.** `IInv` adds what links the parts: `AccountInv` (a
  session that invalidates is interactive, so nothing replaces it), `WaitInv`,
  `ProgressInv` (the pc tells how often the method was run and whether a reply was
  sent) and `FreshInv` (tokens only grow). Proved: `Invariance`, `TypeCorrect`,
  `CountCorrect`, `NeverExitsBusy`, `RetryFresh`, `WakeupComes`,
  `InvalidationKept`, and `Implements`: every behaviour of the handlers is one of
  `RequestReply!Spec`; each step is a step of it or a stutter.
* **ProviderRequestsProofs, peer cache.** The conjunction of `CacheTypeOK`, `OnePlace`,
  `NoLostPromise` and `CacheIsTrue` is inductive: that a rotation or a move leaves entries
  true needs that there is one place for each. Proved: `CacheIInvHolds`, `CacheCorrect`,
  `EntriesSurvive`.
* **AccountsProofs.** Whether a call finds its account depends on the signals that are
  ahead of it in the provider's inbox. `View` is what the provider will export once it has
  handled the first k messages; by the invariant the view after the whole inbox is what
  Online Accounts has enabled (or less, before it has answered), and the view at a call's
  place in the inbox fits what was enabled while the call waited. Lemmas say what one more
  message at the end, and one less at the front, make of a view. The provider has no name, and
  so gets no call, until it has been told of its accounts. Proved: `AccountsIInvHolds`,
  `AnswersFit`, `ListsFit`, `CallsHaveAProvider`.

### The local provider (LocalProviderProofs)

* **LocalJobs.** `WholeTransfers` and `AgreedReplacement` look at results, which a job has
  long after the checks they rest on. `LocalIInv` says how far a job has come: what is left and what was
  taken add up to the size announced, only one `finish()` is past its checks at a time
  (`OneFinish`), no modification time lies in the future, so what somebody writes has an
  ETag no one knows yet (`DiskInv`), what is at the path when `finish()` has checked is what the client agreed to
  unless somebody came in between (`ETagOK`), and of two updates from one ETag at most one
  is past the second check (`OneOfRivals`). For downloads: offset, bytes on their way and
  bytes left add up to the size of an unchanged file. Proved: `LocalIInvHolds`,
  `TransfersAreWhole`, `ReplacementIsAgreed`, `GoneInTheWindow`.
* **TempfileUpload.** `TempIInv`: what was written is in the socket or in the file, and
  the file is closed only when the client has closed its end and nothing is left.
  Proved: `DrainIsComplete`.
* **LocalProvider.** The assumptions are that names of clients and threads differ
  (`ArgumentsAssumption`) and that the first tree has no temporary folders
  (`TreesAssumption`); the tree, the calls and their number are arbitrary. A path is a
  sequence of names, and the first lemmas say where in it a temporary folder can be:
  `Tmp(a, t, b)` is the path `b` below the temporary folder of `t` in `a`. `ItemsIInv` says

  * that every path is one of clients or lies in one temporary folder (`TreeInv`), that a
    thread has one such folder (`OneTmp`), and that it belongs to a `copy()` that runs or has
    failed and holds only what that has copied (`TmpInv`); a `move()` of a folder around it
    takes all of it along or nothing (`TmpMoved`);
  * that what a call has made is where it made it, with its type, until the answer is sent,
    unless another call has interfered (`MadeInv`), so that `make_item()` cannot fail
    otherwise;
  * that what `copy()` is done with and is still there has its counterpart in the temporary
    folder, and that at the rename nothing of what it saw at the beginning is left out
    (`CopyInv`), unless another call put an entry back or disturbed the target.

  For what copy() may show before its rename there is one invariant more, `WayInv`: from
  `canonical()` on, every folder on the way to the target is there, or another call has
  begun to delete it or to move it away, so that what `create_directories()` makes in
  sight is only what was removed.

  A step either leaves the tree alone (`Quiet`) or is one of eight that change it; there
  is a lemma for `Quiet` and one for each of the eight, and what others have done stays
  done (`Monotone`). Proved: `ItemsIInvHolds`, `TemporariesPrivateHolds`,
  `ErrorAfterSuccessHolds`, `NoSilentLossHolds`, `CopyAppearsWholeHolds`.

### Client library v2

* **TransfersProofs.** `IInv` adds `LifeInv`, which links status, replies and job: a
  transfer is Ready or Finished only after the first reply, its second call exists
  only after `close()`, and a successful reply to it means a finished job. Lemmas on
  sequences say that flushing and appending keep what stream and buffer hold
  together. Proved: `Invariance`, `DataSafe`, `FinishedSafe`, `StaysFinal`.
* **ClientJobProofs, jobs.** `IInv` adds `ProgressInv`, which links the calls without a
  reply to the status: a job is Loading only with a call open and with nothing but items in
  its log, for parents the counter equals the open calls, and a final job has none
  open unless other parents' replies are still to come. Lemmas on the log say what one
  or two more signals make of it. Proved: `Invariance`, `HandedOutItems`, `Complete`,
  `OneEnd`, `StopsAtShutdown`.
* **ClientJobProofs, comparison.** There is no state; the theorems are about operators.
  `AccountOrder` and `ItemOrder`: `<` is irreflexive, transitive, and of two objects exactly
  one of `<`, `==`, `>` holds, also for objects that are not valid. `Converses`: the other
  four operators are what their names say. `EqualHashes`: equal objects have equal
  hashes, whatever the hash of a string is.

### Client library v1

* **V1LocalProofs, items.** `EndedHandles` needs that the look at a handle and the end of it
  are one critical section. `LocalInv` says that a call has the mutex of its item while it works
  and that no two calls have one mutex (`CallsInv`), that what is about to end a handle has seen that
  it is not ended (`CheckedInv`), and that a call changes something only when it is past the
  checks that refuse it. It holds for any tree and any mix of methods; of the system calls it needs only
  what they answer. Proved: `LocalInvHolds`, `HandlesEndOnce`.
* **V1LocalProofs, uploads.** `UploadInv`: the worker is in `finalize()` only with all of the
  bytes and before the future has an outcome, and what is at the path says how far it came.
  Proved: `UploadInvHolds`, `UploadsAreTrue`.
* **V1RemoteProofs.** `ExceptionsArrive` is about operators: an exception that a provider
  throws, taken through `convert_exception_ptr()`, made into a D-Bus error and looked up in the
  client's table, arrives as what it was or as `LocalComms`. `RemoteInv` says that a call to which the provider threw has that outcome
  and that live handles were validated. Proved: `RemoteInvHolds`, `ErrorsArriveAsThrown`,
  `ItemsAreValid`, `OrphansAreExplained` (the safety half of `RemoteFuturesEnd`).

### Only model-checked

* Everything about liveness, since the prover has no reasoning under fairness:
  `VanishedClientsJobsEnd`, `RemovalEndsEverything`, `EveryGetAnswered`, `CloseEnds`,
  `CancelEndsKnownUpload`, `JobEnds`, `DownloadEnds`, `LocalFuturesEnd`,
  `TransferFuturesEnd`, `RemoteFuturesEnd`, `AccountsAnswered`, the fairness part of
  `AnswersOnce`.

Every safety property of the passing runs is proved.

## Not modelled

* The layout of D-Bus messages, texts of errors, logging, content types, and dates.
* Symbolic links, and more than one path for uploads and downloads of one provider.
* What Qt delivers inside a nested call into its event loop (`waitForBytesWritten()`,
  `abort()`) is a step of its own, later, except in `V1Transfers`. A slot of `itemsReady` that deletes its job
  (`MultiItemListJobImpl.cpp:89`) is therefore not covered.
* Contents: chunks are numbered in `Transfers`, bytes are counted elsewhere. The
  two ends of an upload are in separate modules: `Transfers` takes the provider's job as
  external, `LocalJobs` and `TempfileUpload` the client.
* The executor of the main loop is the reason why a continuation is one action; as code
  it is not modelled. The test server sets up what `ProviderRequests` models on a private
  bus. The public classes forward every call, and the QML plugin, demo, tools, tests and
  packaging have no logic of the system's own.

What would come next: `Transfers` composed with `PendingJobs` and `TempfileUpload` over one socket, to show that
Finished means stored, end to end.
