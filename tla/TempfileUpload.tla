--------------------------- MODULE TempfileUpload ---------------------------
(***************************************************************************)
(* TempfileUploadJobImpl.cpp: an upload job that collects what the client  *)
(* sends in a temporary file, for providers that want a file in their      *)
(* finish().  The slots run on the provider's main loop; the client writes *)
(* and closes its end of the socket whenever it likes, also while drain()  *)
(* is in its loop.                                                         *)
(***************************************************************************)
EXTENDS Naturals

CONSTANTS
    Asserts,    \* assert() is compiled in: TRUE unless NDEBUG is defined
    MaxBytes    \* bound: how much a client writes

VARIABLES
    tst,      \* "none" (no such job), "new", "running", "draining", and then
              \* "drained", "thrown" or "aborted" (by an assertion)
    wrote,    \* bytes the client has written
    open,     \* the client's end of the socket is open
    socket,   \* bytes in the socket
    tmpOpen,  \* tmpfile_->isOpen()
    tmp       \* bytes in tmpfile_

tempVars == <<tst, wrote, open, socket, tmpOpen, tmp>>

TempInit ==
    /\ tst \in {"none", "new"}
    /\ wrote = 0 /\ open = (tst = "new") /\ socket = 0
    /\ tmpOpen = FALSE /\ tmp = 0

\* The client writes; it closes its end when it is done, gives up or dies.
ClientWritesTemp ==
    /\ open /\ tst # "new" /\ wrote < MaxBytes
    /\ wrote' = wrote + 1 /\ socket' = socket + 1
    /\ UNCHANGED <<tst, open, tmpOpen, tmp>>

ClientCloses ==
    /\ open /\ tst # "new"
    /\ open' = FALSE
    /\ UNCHANGED <<tst, wrote, socket, tmpOpen, tmp>>

\* complete_init().  The file is opened inside of an assertion.
CompleteInit ==
    /\ tst = "new"
    /\ \/ Asserts /\ tst' = "running" /\ tmpOpen' = TRUE
       \/ Asserts /\ tst' = "aborted" /\ UNCHANGED tmpOpen
       \/ ~Asserts /\ tst' = "running" /\ UNCHANGED tmpOpen
    /\ UNCHANGED <<wrote, open, socket, tmp>>

\* on_ready_read(): everything that is there; a write may fail.
OnReadyRead ==
    /\ socket' = 0
    /\ \/ tmpOpen /\ tmp' = tmp + socket /\ UNCHANGED tst
       \/ UNCHANGED tmp /\ IF Asserts THEN tst' = "aborted" ELSE UNCHANGED tst

\* on_read_channel_finished(): reads the rest and closes the file.
OnReadChannelFinished ==
    /\ socket' = 0 /\ tmp' = tmp + socket
    /\ tmpOpen' = FALSE
    /\ UNCHANGED tst

\* Qt's notifications, from the event loop or from waitForReadyRead(0): data
\* first, and the end of the channel when there are no more.
Notified ==
    \/ socket > 0 /\ OnReadyRead /\ UNCHANGED tmpOpen
    \/ socket = 0 /\ ~open /\ tmpOpen /\ OnReadChannelFinished

Notify ==
    /\ tst = "running"
    /\ Notified
    /\ UNCHANGED <<wrote, open>>

\* The provider's finish() calls drain() ...
StartDrain ==
    /\ tst = "running"
    /\ tst' = "draining"
    /\ UNCHANGED <<wrote, open, socket, tmpOpen, tmp>>

\* Mutant: nothing to read is taken for the end.
DrainStep_NothingIsEnd ==
    /\ tst = "draining"
    /\ \/ tmpOpen /\ Notified
       \/ socket = 0 /\ tst' = "drained" /\ UNCHANGED <<socket, tmpOpen, tmp>>
    /\ UNCHANGED <<wrote, open>>

\* ... a round of its loop: a closed file ends it, an open file with nothing
\* to read and a client that has not closed is an error.
DrainStep ==
    /\ tst = "draining"
    /\ \/ ~tmpOpen /\ tst' = "drained" /\ UNCHANGED <<socket, tmpOpen, tmp>>
       \/ tmpOpen /\ Notified
       \/ tmpOpen /\ socket = 0 /\ open /\ tst' = "thrown" /\ UNCHANGED <<socket, tmpOpen, tmp>>
    /\ UNCHANGED <<wrote, open>>

TempNext ==
    ClientWritesTemp \/ ClientCloses \/ CompleteInit \/ Notify \/ StartDrain \/ DrainStep

TempSpec == TempInit /\ [][TempNext]_tempVars

\* drain() returns only when the temporary file holds everything the client
\* wrote and the client can write no more ("Its implementation reads any
\* remaining data from the upload socket and writes it to the temporary file",
\* TempfileUploadJob.h:84).
DrainedIsComplete == tst = "drained" => ~open /\ tmp = wrote
=============================================================================
