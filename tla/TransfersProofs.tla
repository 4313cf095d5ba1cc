-------------------------- MODULE TransfersProofs --------------------------
(***************************************************************************)
(* Proofs about Transfers, for any number of uploads and downloads and any *)
(* amount of data.                                                         *)
(***************************************************************************)
EXTENDS Transfers, TLAPS

\* The chunks 1 to n in the order in which the client wrote them.
Written(n) == [i \in 1 .. n |-> i]

\* Flushing moves the buffer behind the stream and changes nothing in what the
\* two hold together.
LEMMA FlushKeeps ==
  ASSUME NEW s \in Seq(Nat), NEW b \in Seq(Nat)
  PROVE  (s \o b) \o << >> = s \o b /\ s \o << >> = s /\ s \o b \in Seq(Nat)
  OBVIOUS

\* A sequence of chunks with another chunk behind it is one.
LEMMA ChunkTyped ==
  ASSUME NEW s \in Seq(Nat), NEW b \in Seq(Nat), NEW n \in Nat
  PROVE  Append(s \o b, n + 1) \in Seq(Nat) /\ Append(b, n + 1) \in Seq(Nat)
<1>1. s \o b \in Seq(Nat) /\ n + 1 \in Nat
  OBVIOUS
<1> QED
  BY <1>1

\* Appending to the buffer appends to what the two hold together.
LEMMA AppendBehind ==
  ASSUME NEW s \in Seq(Nat), NEW b \in Seq(Nat), NEW c \in Nat
  PROVE  s \o Append(b, c) = Append(s \o b, c)
  OBVIOUS

\* The next chunk behind the first n makes the first n + 1.
LEMMA WrittenNext ==
  ASSUME NEW n \in Nat
  PROVE  Append(Written(n), n + 1) = Written(n + 1)
  BY DEF Written

\* Replacing one transfer's chunks keeps the type of all.
LEMMA ChunksTyped ==
  ASSUME NEW f \in [Transfers -> Seq(Nat)], NEW t \in Transfers, NEW v \in Seq(Nat)
  PROVE  [f EXCEPT ![t] = v] \in [Transfers -> Seq(Nat)]
  OBVIOUS

\* Flushing keeps the types of stream and buffer.
LEMMA FlushTyped ==
  ASSUME TypeOK, NEW t \in Transfers, FlushBuffer(t)
  PROVE  buffer' \in [Transfers -> Seq(Nat)] /\ stream' \in [Transfers -> Seq(Nat)]
<1>1. stream[t] \in Seq(Nat) /\ buffer[t] \in Seq(Nat)
  BY DEF TypeOK
<1>2. stream[t] \o buffer[t] \in Seq(Nat) /\ << >> \in Seq(Nat)
  BY <1>1, FlushKeeps
<1> QED
  BY <1>2 DEF TypeOK, FlushBuffer

\* Sending CancelUpload or a finish call keeps the type of what is on its way.
LEMMA AskedTyped ==
  ASSUME TypeOK, NEW t \in Transfers,
         \/ asked' = asked
         \/ \E c \in {"finish", "cancel"} : asked' = [asked EXCEPT ![t] = @ \cup {c}]
  PROVE  asked' \in [Transfers -> SUBSET {"finish", "cancel"}]
<1>1. CASE asked' = asked
  BY <1>1 DEF TypeOK
<1>2. ASSUME NEW c \in {"finish", "cancel"}, asked' = [asked EXCEPT ![t] = @ \cup {c}]
      PROVE  asked' \in [Transfers -> SUBSET {"finish", "cancel"}]
  <2>1. asked \in [Transfers -> SUBSET {"finish", "cancel"}]
    BY DEF TypeOK
  <2>2. asked[t] \cup {c} \in SUBSET {"finish", "cancel"}
    BY <2>1
  <2> QED
    BY <1>2, <2>1, <2>2
<1> QED
  BY <1>1, <1>2

\* Steps that leave the client's data alone, or flush it, keep NothingLost.
LEMMA DataStep ==
  ASSUME TypeOK, NothingLost, NEW t \in Transfers,
         accepted' = accepted,
         \/ UNCHANGED <<stream, buffer>>
         \/ FlushBuffer(t),
         \A u \in Uploads : finish'[u] # "none" => finish[u] # "none" \/ buffer'[u] = << >>
  PROVE  NothingLost'
<1> SUFFICES ASSUME NEW u \in Uploads
             PROVE  /\ stream'[u] \o buffer'[u] = Written(accepted[u])
                    /\ finish'[u] # "none" => buffer'[u] = << >>
  BY DEF NothingLost, Written
<1>1. /\ u \in Transfers /\ stream[u] \in Seq(Nat) /\ buffer[u] \in Seq(Nat)
      /\ stream[u] \o buffer[u] = Written(accepted[u])
      /\ finish[u] # "none" => buffer[u] = << >>
  BY DEF TypeOK, NothingLost, Written, Transfers
<1>2. \/ stream'[u] = stream[u] /\ buffer'[u] = buffer[u]
      \/ stream'[u] = stream[u] \o buffer[u] /\ buffer'[u] = << >>
  BY <1>1 DEF FlushBuffer, TypeOK
<1> QED
  BY <1>1, <1>2, FlushKeeps

\* A chunk that is written, to the buffer or behind it, keeps NothingLost.
LEMMA WriteStep ==
  ASSUME IInv, NEW t \in Transfers, WriteData(t)
  PROVE  NothingLost'
<1> SUFFICES ASSUME NEW u \in Uploads
             PROVE  /\ stream'[u] \o buffer'[u] = Written(accepted'[u])
                    /\ finish'[u] # "none" => buffer'[u] = << >>
  BY DEF NothingLost, Written
<1>1. /\ u \in Transfers /\ stream[u] \in Seq(Nat) /\ buffer[u] \in Seq(Nat)
      /\ accepted[u] \in Nat
      /\ stream[u] \o buffer[u] = Written(accepted[u])
      /\ finish[u] # "none" => buffer[u] = << >>
  BY DEF IInv, TypeOK, NothingLost, Written, Transfers
<1>2. CASE u # t
  BY <1>1, <1>2 DEF WriteData, IInv, TypeOK
<1>3. CASE u = t /\ status[t] = "loading"
  <2>1. /\ stream'[u] = stream[u] /\ buffer'[u] = Append(buffer[u], accepted[u] + 1)
        /\ accepted'[u] = accepted[u] + 1
        /\ finish'[u] = "none"
    BY <1>1, <1>3 DEF WriteData, IInv, TypeOK, LifeInv
  <2>2. stream'[u] \o buffer'[u] = Append(Written(accepted[u]), accepted[u] + 1)
    <3>1. accepted[u] + 1 \in Nat
      BY <1>1
    <3> QED
      BY <1>1, <2>1, <3>1, AppendBehind
  <2> QED
    BY <1>1, <2>1, <2>2, WrittenNext
<1>4. CASE u = t /\ status[t] = "ready"
  <2>1. /\ stream'[u] = Append(stream[u] \o buffer[u], accepted[u] + 1)
        /\ buffer'[u] = << >>
        /\ accepted'[u] = accepted[u] + 1
    BY <1>1, <1>4 DEF WriteData, IInv, TypeOK
  <2>2. stream'[u] = Written(accepted[u] + 1)
    BY <1>1, <2>1, WrittenNext
  <2>3. stream'[u] \in Seq(Nat)
    BY <1>1, <2>1, ChunkTyped
  <2> QED
    BY <2>1, <2>2, <2>3, FlushKeeps
<1> QED
  BY <1>2, <1>3, <1>4 DEF WriteData

(***************************************************************************)
(* Every step of one of the two classes is one of the shared definitions.  *)
(***************************************************************************)
LEMMA CreateSteps ==
  ASSUME NEW t, Create(t)
  PROVE  MakeJob(t) \/ MakeFailedJob(t)
BY DEF Create, CreateFile, CreateUploader, CreateDownloader, MakeUploader, MakeDownloader

LEMMA ReplySteps ==
  ASSUME NEW t, Reply(t)
  PROVE  \/ \E b \in BOOLEAN : ProcessReply(t, b) \/ FinishReply(t, b)
         \/ ProcessError(t) \/ FinishError(t)
BY DEF Reply, UploadReply, DownloadReply, FinishUploadReply, FinishDownloadReply,
       UploadError, DownloadError, FinishUploadError, FinishDownloadError

LEMMA NextSteps ==
  ASSUME Next
  PROVE  \/ \E t \in Transfers :
              \/ MakeJob(t) \/ MakeFailedJob(t) \/ WriteData(t)
              \/ Cancel(t) \/ Close(t) \/ Destroy(t)
              \/ Reply(t) \/ Provider(t) \/ TimeOut(t)
         \/ Shutdown
BY CreateSteps DEF Next, CancelUpload, CancelDownload, CloseUpload, CloseDownload,
       DestroyUploader, DestroyDownloader

\* Every action keeps the types, the data, and what status, replies and the
\* provider's job have to do with each other.
LEMMA InvariantStep == IInv /\ [Next]_vars => IInv'
<1> SUFFICES ASSUME IInv, [Next]_vars
             PROVE  IInv'
  OBVIOUS
<1> USE DEF IInv, Statuses, Final, CallStates, Sockets, Jobs
<1>1. ASSUME NEW t \in Transfers, MakeJob(t) PROVE IInv'
  <2>1. TypeOK'
    BY <1>1 DEF TypeOK, MakeJob, clientVars, providerVars
  <2>2. LifeInv'
    BY <1>1 DEF TypeOK, LifeInv, MakeJob, clientVars, providerVars
  <2>3. NothingLost'
    <3>1. accepted' = accepted /\ (UNCHANGED <<stream, buffer>> \/ FlushBuffer(t))
      BY <1>1 DEF MakeJob, clientVars, providerVars
    <3>2. \A u \in Uploads : finish'[u] # "none" => finish[u] # "none" \/ buffer'[u] = << >>
      BY <1>1 DEF TypeOK, Transfers, MakeJob, clientVars, providerVars
    <3> QED
      BY <3>1, <3>2, DataStep
  <2>4. FinishedIsTrue'
    BY <1>1 DEF TypeOK, LifeInv, FinishedIsTrue, MakeJob, clientVars, providerVars
  <2> QED
    BY <2>1, <2>2, <2>3, <2>4
<1>2. ASSUME NEW t \in Transfers, MakeFailedJob(t) PROVE IInv'
  <2>1. TypeOK'
    BY <1>2 DEF TypeOK, MakeFailedJob, clientVars, providerVars
  <2>2. LifeInv'
    BY <1>2 DEF TypeOK, LifeInv, MakeFailedJob, clientVars, providerVars
  <2>3. NothingLost'
    <3>1. accepted' = accepted /\ (UNCHANGED <<stream, buffer>> \/ FlushBuffer(t))
      BY <1>2 DEF MakeFailedJob, clientVars, providerVars
    <3>2. \A u \in Uploads : finish'[u] # "none" => finish[u] # "none" \/ buffer'[u] = << >>
      BY <1>2 DEF TypeOK, Transfers, MakeFailedJob, clientVars, providerVars
    <3> QED
      BY <3>1, <3>2, DataStep
  <2>4. FinishedIsTrue'
    BY <1>2 DEF TypeOK, LifeInv, FinishedIsTrue, MakeFailedJob, clientVars, providerVars
  <2> QED
    BY <2>1, <2>2, <2>3, <2>4
<1>3. ASSUME NEW t \in Transfers, WriteData(t) PROVE IInv'
  <2>1. TypeOK'
    <3>1. /\ accepted' \in [Transfers -> Nat]
          /\ buffer' \in [Transfers -> Seq(Nat)]
          /\ stream' \in [Transfers -> Seq(Nat)]
      <4>1. /\ t \in Transfers /\ stream[t] \in Seq(Nat) /\ buffer[t] \in Seq(Nat)
            /\ accepted[t] \in Nat
        BY DEF TypeOK
      <4>2. /\ Append(stream[t] \o buffer[t], accepted[t] + 1) \in Seq(Nat)
            /\ Append(buffer[t], accepted[t] + 1) \in Seq(Nat)
            /\ << >> \in Seq(Nat)
        BY <4>1, ChunkTyped
      <4>3. /\ accepted' = [accepted EXCEPT ![t] = @ + 1]
            /\ buffer' \in {[buffer EXCEPT ![t] = Append(buffer[t], accepted[t] + 1)],
                           [buffer EXCEPT ![t] = << >>]}
            /\ stream' \in {stream,
                           [stream EXCEPT ![t] = Append(stream[t] \o buffer[t], accepted[t] + 1)]}
        BY <1>3 DEF WriteData
      <4>4. accepted' \in [Transfers -> Nat]
        BY <4>1, <4>3 DEF TypeOK
      <4>5. buffer' \in [Transfers -> Seq(Nat)]
        BY <4>2, <4>3, ChunksTyped DEF TypeOK
      <4>6. stream' \in [Transfers -> Seq(Nat)]
        BY <4>2, <4>3, ChunksTyped DEF TypeOK
      <4> QED
        BY <4>4, <4>5, <4>6
    <3>2. /\ status' \in [Transfers -> Statuses]
          /\ socket' \in [Transfers -> Sockets]
          /\ finalizing' \in [Transfers -> BOOLEAN]
          /\ gone' \in [Transfers -> BOOLEAN]
          /\ hasId' \in [Transfers -> BOOLEAN]
          /\ call' \in [Transfers -> CallStates]
          /\ finish' \in [Transfers -> CallStates]
      BY <1>3 DEF TypeOK, WriteData, clientVars, providerVars
    <3>3. /\ runtime' \in {"valid", "destroyed"}
          /\ asked' \in [Transfers -> SUBSET {"finish", "cancel"}]
          /\ job' \in [Transfers -> Jobs]
      BY <1>3 DEF TypeOK, WriteData, clientVars, providerVars
    <3> QED
      BY <3>1, <3>2, <3>3 DEF TypeOK
  <2>2. LifeInv'
    BY <1>3 DEF TypeOK, LifeInv, WriteData, clientVars, providerVars
  <2>3. NothingLost'
    BY <1>3, WriteStep
  <2>4. FinishedIsTrue'
    BY <1>3 DEF TypeOK, LifeInv, FinishedIsTrue, WriteData, clientVars, providerVars
  <2> QED
    BY <2>1, <2>2, <2>3, <2>4
<1>4. ASSUME NEW t \in Transfers, Cancel(t) PROVE IInv'
  <2>1. TypeOK'
    <3>1. /\ accepted' \in [Transfers -> Nat]
          /\ buffer' \in [Transfers -> Seq(Nat)]
          /\ stream' \in [Transfers -> Seq(Nat)]
      BY <1>4, FlushKeeps DEF TypeOK, Cancel, CancelNow, SetStatus, Abort, clientVars,
         providerVars
    <3>2. /\ status' \in [Transfers -> Statuses]
          /\ socket' \in [Transfers -> Sockets]
          /\ finalizing' \in [Transfers -> BOOLEAN]
          /\ gone' \in [Transfers -> BOOLEAN]
          /\ hasId' \in [Transfers -> BOOLEAN]
          /\ call' \in [Transfers -> CallStates]
          /\ finish' \in [Transfers -> CallStates]
      BY <1>4 DEF TypeOK, Cancel, CancelNow, SetStatus, Abort, clientVars, providerVars
    <3>3. /\ runtime' \in {"valid", "destroyed"}
          /\ asked' \in [Transfers -> SUBSET {"finish", "cancel"}]
          /\ job' \in [Transfers -> Jobs]
      <4>1. \/ asked' = asked
            \/ \E c \in {"finish", "cancel"} : asked' = [asked EXCEPT ![t] = @ \cup {c}]
        BY <1>4 DEF TypeOK, Cancel, CancelNow, SetStatus
      <4>2. asked' \in [Transfers -> SUBSET {"finish", "cancel"}]
        BY <4>1, AskedTyped
      <4> QED
        BY <1>4, <4>2 DEF TypeOK, Cancel
    <3> QED
      BY <3>1, <3>2, <3>3 DEF TypeOK
  <2>2. LifeInv'
    BY <1>4 DEF TypeOK, LifeInv, Cancel, CancelNow, SetStatus, Abort, clientVars,
       providerVars
  <2>3. NothingLost'
    <3>1. accepted' = accepted /\ (UNCHANGED <<stream, buffer>> \/ FlushBuffer(t))
      BY <1>4 DEF Cancel, CancelNow, SetStatus, Abort, clientVars, providerVars
    <3>2. \A u \in Uploads : finish'[u] # "none" => finish[u] # "none" \/ buffer'[u] = << >>
      BY <1>4 DEF TypeOK, Transfers, Cancel, CancelNow, SetStatus, Abort, clientVars,
         providerVars
    <3> QED
      BY <3>1, <3>2, DataStep
  <2>4. FinishedIsTrue'
    BY <1>4 DEF TypeOK, LifeInv, FinishedIsTrue, Cancel, CancelNow, SetStatus, Abort,
       clientVars, providerVars
  <2> QED
    BY <2>1, <2>2, <2>3, <2>4
<1>5. ASSUME NEW t \in Transfers, Close(t) PROVE IInv'
  <2>1. TypeOK'
    <3>1. /\ accepted' \in [Transfers -> Nat]
          /\ buffer' \in [Transfers -> Seq(Nat)]
          /\ stream' \in [Transfers -> Seq(Nat)]
      BY <1>5, FlushTyped DEF TypeOK, Close, clientVars, providerVars
    <3>2. /\ status' \in [Transfers -> Statuses]
          /\ socket' \in [Transfers -> Sockets]
          /\ finalizing' \in [Transfers -> BOOLEAN]
          /\ gone' \in [Transfers -> BOOLEAN]
          /\ hasId' \in [Transfers -> BOOLEAN]
          /\ call' \in [Transfers -> CallStates]
          /\ finish' \in [Transfers -> CallStates]
      BY <1>5 DEF TypeOK, Close, SetStatus, Abort, clientVars, providerVars
    <3>3. /\ runtime' \in {"valid", "destroyed"}
          /\ asked' \in [Transfers -> SUBSET {"finish", "cancel"}]
          /\ job' \in [Transfers -> Jobs]
      <4>1. \/ asked' = asked
            \/ \E c \in {"finish", "cancel"} : asked' = [asked EXCEPT ![t] = @ \cup {c}]
        BY <1>5 DEF TypeOK, Close
      <4>2. asked' \in [Transfers -> SUBSET {"finish", "cancel"}]
        BY <4>1, AskedTyped
      <4> QED
        BY <1>5, <4>2 DEF TypeOK, Close
    <3> QED
      BY <3>1, <3>2, <3>3 DEF TypeOK
  <2>2. LifeInv'
    BY <1>5 DEF TypeOK, LifeInv, Close, SetStatus, Abort, FlushBuffer, clientVars,
       providerVars
  <2>3. NothingLost'
    <3>1. accepted' = accepted /\ (UNCHANGED <<stream, buffer>> \/ FlushBuffer(t))
      BY <1>5 DEF Close, SetStatus, Abort, clientVars, providerVars
    <3>2. \A u \in Uploads : finish'[u] # "none" => finish[u] # "none" \/ buffer'[u] = << >>
      BY <1>5 DEF TypeOK, Transfers, Close, SetStatus, Abort, FlushBuffer, clientVars,
         providerVars
    <3> QED
      BY <3>1, <3>2, DataStep
  <2>4. FinishedIsTrue'
    BY <1>5 DEF TypeOK, LifeInv, FinishedIsTrue, Close, SetStatus, Abort, FlushBuffer,
       clientVars, providerVars
  <2> QED
    BY <2>1, <2>2, <2>3, <2>4
<1>6. ASSUME NEW t \in Transfers, Destroy(t) PROVE IInv'
  <2>1. TypeOK'
    <3>1. /\ accepted' \in [Transfers -> Nat]
          /\ buffer' \in [Transfers -> Seq(Nat)]
          /\ stream' \in [Transfers -> Seq(Nat)]
      BY <1>6, FlushKeeps DEF TypeOK, Destroy, CancelNow, SetStatus, Abort, clientVars,
         providerVars
    <3>2. /\ status' \in [Transfers -> Statuses]
          /\ socket' \in [Transfers -> Sockets]
          /\ finalizing' \in [Transfers -> BOOLEAN]
          /\ gone' \in [Transfers -> BOOLEAN]
          /\ hasId' \in [Transfers -> BOOLEAN]
          /\ call' \in [Transfers -> CallStates]
          /\ finish' \in [Transfers -> CallStates]
      BY <1>6 DEF TypeOK, Destroy, CancelNow, SetStatus, Abort, clientVars, providerVars
    <3>3. /\ runtime' \in {"valid", "destroyed"}
          /\ asked' \in [Transfers -> SUBSET {"finish", "cancel"}]
          /\ job' \in [Transfers -> Jobs]
      <4>1. \/ asked' = asked
            \/ \E c \in {"finish", "cancel"} : asked' = [asked EXCEPT ![t] = @ \cup {c}]
        BY <1>6 DEF TypeOK, Destroy, CancelNow, SetStatus
      <4>2. asked' \in [Transfers -> SUBSET {"finish", "cancel"}]
        BY <4>1, AskedTyped
      <4> QED
        BY <1>6, <4>2 DEF TypeOK, Destroy
    <3> QED
      BY <3>1, <3>2, <3>3 DEF TypeOK
  <2>2. LifeInv'
    BY <1>6 DEF TypeOK, LifeInv, Destroy, CancelNow, SetStatus, Abort, clientVars,
       providerVars
  <2>3. NothingLost'
    <3>1. accepted' = accepted /\ (UNCHANGED <<stream, buffer>> \/ FlushBuffer(t))
      BY <1>6 DEF Destroy, CancelNow, SetStatus, Abort, clientVars, providerVars
    <3>2. \A u \in Uploads : finish'[u] # "none" => finish[u] # "none" \/ buffer'[u] = << >>
      BY <1>6 DEF TypeOK, Transfers, Destroy, CancelNow, SetStatus, Abort, clientVars,
         providerVars
    <3> QED
      BY <3>1, <3>2, DataStep
  <2>4. FinishedIsTrue'
    BY <1>6 DEF TypeOK, LifeInv, FinishedIsTrue, Destroy, CancelNow, SetStatus, Abort,
       clientVars, providerVars
  <2> QED
    BY <2>1, <2>2, <2>3, <2>4
<1>7. ASSUME NEW t \in Transfers, NEW b \in BOOLEAN, ProcessReply(t, b) PROVE IInv'
  <2>1. TypeOK'
    <3>1. /\ accepted' \in [Transfers -> Nat]
          /\ buffer' \in [Transfers -> Seq(Nat)]
          /\ stream' \in [Transfers -> Seq(Nat)]
      BY <1>7, FlushTyped DEF TypeOK, ProcessReply, clientVars, providerVars
    <3>2. /\ status' \in [Transfers -> Statuses]
          /\ socket' \in [Transfers -> Sockets]
          /\ finalizing' \in [Transfers -> BOOLEAN]
          /\ gone' \in [Transfers -> BOOLEAN]
          /\ hasId' \in [Transfers -> BOOLEAN]
          /\ call' \in [Transfers -> CallStates]
          /\ finish' \in [Transfers -> CallStates]
      BY <1>7 DEF TypeOK, ProcessReply, SetStatus, Abort, clientVars, providerVars
    <3>3. /\ runtime' \in {"valid", "destroyed"}
          /\ asked' \in [Transfers -> SUBSET {"finish", "cancel"}]
          /\ job' \in [Transfers -> Jobs]
      BY <1>7 DEF TypeOK, ProcessReply, SetStatus, Abort, clientVars, providerVars
    <3> QED
      BY <3>1, <3>2, <3>3 DEF TypeOK
  <2>2. LifeInv'
    BY <1>7 DEF TypeOK, LifeInv, ProcessReply, SetStatus, Abort, FlushBuffer,
       clientVars, providerVars
  <2>3. NothingLost'
    <3>1. accepted' = accepted /\ (UNCHANGED <<stream, buffer>> \/ FlushBuffer(t))
      BY <1>7 DEF ProcessReply, SetStatus, Abort, clientVars, providerVars
    <3>2. \A u \in Uploads : finish'[u] # "none" => finish[u] # "none" \/ buffer'[u] = << >>
      BY <1>7 DEF TypeOK, Transfers, ProcessReply, SetStatus, Abort, FlushBuffer,
         clientVars, providerVars
    <3> QED
      BY <3>1, <3>2, DataStep
  <2>4. FinishedIsTrue'
    BY <1>7 DEF TypeOK, LifeInv, FinishedIsTrue, ProcessReply, SetStatus, Abort,
       FlushBuffer, clientVars, providerVars
  <2> QED
    BY <2>1, <2>2, <2>3, <2>4
<1>8. ASSUME NEW t \in Transfers, NEW b \in BOOLEAN, FinishReply(t, b) PROVE IInv'
  <2>1. TypeOK'
    <3>1. /\ accepted' \in [Transfers -> Nat]
          /\ buffer' \in [Transfers -> Seq(Nat)]
          /\ stream' \in [Transfers -> Seq(Nat)]
      BY <1>8, FlushKeeps DEF TypeOK, FinishReply, SetStatus, Abort, clientVars,
         providerVars
    <3>2. /\ status' \in [Transfers -> Statuses]
          /\ socket' \in [Transfers -> Sockets]
          /\ finalizing' \in [Transfers -> BOOLEAN]
          /\ gone' \in [Transfers -> BOOLEAN]
          /\ hasId' \in [Transfers -> BOOLEAN]
          /\ call' \in [Transfers -> CallStates]
          /\ finish' \in [Transfers -> CallStates]
      BY <1>8 DEF TypeOK, FinishReply, SetStatus, Abort, clientVars, providerVars
    <3>3. /\ runtime' \in {"valid", "destroyed"}
          /\ asked' \in [Transfers -> SUBSET {"finish", "cancel"}]
          /\ job' \in [Transfers -> Jobs]
      BY <1>8 DEF TypeOK, FinishReply, SetStatus, Abort, clientVars, providerVars
    <3> QED
      BY <3>1, <3>2, <3>3 DEF TypeOK
  <2>2. LifeInv'
    BY <1>8 DEF TypeOK, LifeInv, FinishReply, SetStatus, Abort, clientVars, providerVars
  <2>3. NothingLost'
    <3>1. accepted' = accepted /\ (UNCHANGED <<stream, buffer>> \/ FlushBuffer(t))
      BY <1>8 DEF FinishReply, SetStatus, Abort, clientVars, providerVars
    <3>2. \A u \in Uploads : finish'[u] # "none" => finish[u] # "none" \/ buffer'[u] = << >>
      BY <1>8 DEF TypeOK, Transfers, FinishReply, SetStatus, Abort, clientVars,
         providerVars
    <3> QED
      BY <3>1, <3>2, DataStep
  <2>4. FinishedIsTrue'
    BY <1>8 DEF TypeOK, LifeInv, FinishedIsTrue, FinishReply, SetStatus, Abort,
       clientVars, providerVars
  <2> QED
    BY <2>1, <2>2, <2>3, <2>4
<1>9. ASSUME NEW t \in Transfers, ProcessError(t) PROVE IInv'
  <2>1. TypeOK'
    BY <1>9 DEF TypeOK, ProcessError, SetStatus, Abort, clientVars, providerVars
  <2>2. LifeInv'
    BY <1>9 DEF TypeOK, LifeInv, ProcessError, SetStatus, Abort, clientVars, providerVars
  <2>3. NothingLost'
    <3>1. accepted' = accepted /\ (UNCHANGED <<stream, buffer>> \/ FlushBuffer(t))
      BY <1>9 DEF ProcessError, SetStatus, Abort, clientVars, providerVars
    <3>2. \A u \in Uploads : finish'[u] # "none" => finish[u] # "none" \/ buffer'[u] = << >>
      BY <1>9 DEF TypeOK, Transfers, ProcessError, SetStatus, Abort, clientVars,
         providerVars
    <3> QED
      BY <3>1, <3>2, DataStep
  <2>4. FinishedIsTrue'
    BY <1>9 DEF TypeOK, LifeInv, FinishedIsTrue, ProcessError, SetStatus, Abort,
       clientVars, providerVars
  <2> QED
    BY <2>1, <2>2, <2>3, <2>4
<1>10. ASSUME NEW t \in Transfers, FinishError(t) PROVE IInv'
  <2>1. TypeOK'
    BY <1>10 DEF TypeOK, FinishError, SetStatus, Abort, clientVars, providerVars
  <2>2. LifeInv'
    BY <1>10 DEF TypeOK, LifeInv, FinishError, SetStatus, Abort, clientVars, providerVars
  <2>3. NothingLost'
    <3>1. accepted' = accepted /\ (UNCHANGED <<stream, buffer>> \/ FlushBuffer(t))
      BY <1>10 DEF FinishError, SetStatus, Abort, clientVars, providerVars
    <3>2. \A u \in Uploads : finish'[u] # "none" => finish[u] # "none" \/ buffer'[u] = << >>
      BY <1>10 DEF TypeOK, Transfers, FinishError, SetStatus, Abort, clientVars,
         providerVars
    <3> QED
      BY <3>1, <3>2, DataStep
  <2>4. FinishedIsTrue'
    BY <1>10 DEF TypeOK, LifeInv, FinishedIsTrue, FinishError, SetStatus, Abort,
       clientVars, providerVars
  <2> QED
    BY <2>1, <2>2, <2>3, <2>4
<1>11. ASSUME NEW t \in Transfers, NEW b \in BOOLEAN, ProviderCreates(t, b) PROVE IInv'
  <2>1. TypeOK'
    BY <1>11 DEF TypeOK, ProviderCreates, clientVars, providerVars
  <2>2. LifeInv'
    BY <1>11 DEF TypeOK, LifeInv, ProviderCreates, clientVars, providerVars
  <2>3. NothingLost'
    <3>1. accepted' = accepted /\ (UNCHANGED <<stream, buffer>> \/ FlushBuffer(t))
      BY <1>11 DEF ProviderCreates, clientVars, providerVars
    <3>2. \A u \in Uploads : finish'[u] # "none" => finish[u] # "none" \/ buffer'[u] = << >>
      BY <1>11 DEF TypeOK, Transfers, ProviderCreates, clientVars, providerVars
    <3> QED
      BY <3>1, <3>2, DataStep
  <2>4. FinishedIsTrue'
    BY <1>11 DEF TypeOK, LifeInv, FinishedIsTrue, ProviderCreates, clientVars,
       providerVars
  <2> QED
    BY <2>1, <2>2, <2>3, <2>4
<1>12. ASSUME NEW t \in Transfers, NEW b \in BOOLEAN, ProviderFinishes(t, b) PROVE IInv'
  <2>1. TypeOK'
    BY <1>12 DEF TypeOK, ProviderFinishes, clientVars, providerVars
  <2>2. LifeInv'
    BY <1>12 DEF TypeOK, LifeInv, ProviderFinishes, clientVars, providerVars
  <2>3. NothingLost'
    <3>1. accepted' = accepted /\ (UNCHANGED <<stream, buffer>> \/ FlushBuffer(t))
      BY <1>12 DEF ProviderFinishes, clientVars, providerVars
    <3>2. \A u \in Uploads : finish'[u] # "none" => finish[u] # "none" \/ buffer'[u] = << >>
      BY <1>12 DEF TypeOK, Transfers, ProviderFinishes, clientVars, providerVars
    <3> QED
      BY <3>1, <3>2, DataStep
  <2>4. FinishedIsTrue'
    BY <1>12 DEF TypeOK, LifeInv, FinishedIsTrue, ProviderFinishes, clientVars,
       providerVars
  <2> QED
    BY <2>1, <2>2, <2>3, <2>4
<1>13. ASSUME NEW t \in Transfers, ProviderCancels(t) PROVE IInv'
  <2>1. TypeOK'
    BY <1>13 DEF TypeOK, ProviderCancels, clientVars, providerVars
  <2>2. LifeInv'
    BY <1>13 DEF TypeOK, LifeInv, ProviderCancels, clientVars, providerVars
  <2>3. NothingLost'
    <3>1. accepted' = accepted /\ (UNCHANGED <<stream, buffer>> \/ FlushBuffer(t))
      BY <1>13 DEF ProviderCancels, clientVars, providerVars
    <3>2. \A u \in Uploads : finish'[u] # "none" => finish[u] # "none" \/ buffer'[u] = << >>
      BY <1>13 DEF TypeOK, Transfers, ProviderCancels, clientVars, providerVars
    <3> QED
      BY <3>1, <3>2, DataStep
  <2>4. FinishedIsTrue'
    BY <1>13 DEF TypeOK, LifeInv, FinishedIsTrue, ProviderCancels, clientVars,
       providerVars
  <2> QED
    BY <2>1, <2>2, <2>3, <2>4
<1>14. ASSUME NEW t \in Transfers, TimeOut(t) PROVE IInv'
  <2>1. TypeOK'
    BY <1>14 DEF TypeOK, TimeOut, clientVars, providerVars
  <2>2. LifeInv'
    BY <1>14 DEF TypeOK, LifeInv, TimeOut, clientVars, providerVars
  <2>3. NothingLost'
    <3>1. accepted' = accepted /\ (UNCHANGED <<stream, buffer>> \/ FlushBuffer(t))
      BY <1>14 DEF TimeOut, clientVars, providerVars
    <3>2. \A u \in Uploads : finish'[u] # "none" => finish[u] # "none" \/ buffer'[u] = << >>
      BY <1>14 DEF TypeOK, Transfers, TimeOut, clientVars, providerVars
    <3> QED
      BY <3>1, <3>2, DataStep
  <2>4. FinishedIsTrue'
    BY <1>14 DEF TypeOK, LifeInv, FinishedIsTrue, TimeOut, clientVars, providerVars
  <2> QED
    BY <2>1, <2>2, <2>3, <2>4
<1>15. CASE Shutdown
  BY <1>15 DEF TypeOK, LifeInv, NothingLost, FinishedIsTrue, Shutdown, clientVars,
     providerVars
<1>16. CASE UNCHANGED vars
  BY <1>16 DEF TypeOK, LifeInv, NothingLost, FinishedIsTrue, vars, clientVars,
     providerVars
<1> QED
  BY <1>1, <1>2, <1>3, <1>4, <1>5, <1>6, <1>7, <1>8, <1>9, <1>10, <1>11, <1>12, <1>13,
     <1>14, <1>15, <1>16, NextSteps, ReplySteps DEF Provider

\* Behind all that follows: transfers, their replies and the provider's jobs
\* agree in every reachable state.
THEOREM Invariance == Spec => []IInv
<1>1. Init => IInv
  <2> SUFFICES ASSUME Init
               PROVE  IInv
    OBVIOUS
  <2>1. TypeOK
    BY DEF Init, TypeOK, Statuses, Final, CallStates, Sockets, Jobs
  <2>2. LifeInv /\ FinishedIsTrue
    BY DEF Init, LifeInv, FinishedIsTrue
  <2>3. NothingLost
    <3> SUFFICES ASSUME NEW t \in Uploads
                 PROVE  << >> \o << >> = [i \in 1 .. 0 |-> i]
      BY DEF Init, NothingLost, Transfers
    <3> QED
      OBVIOUS
  <2> QED
    BY <2>1, <2>2, <2>3 DEF IInv
<1> QED
  BY <1>1, InvariantStep, PTL DEF Spec

\* Type correctness of client and provider.
THEOREM TypeCorrect == Spec => []TypeOK
<1>1. IInv => TypeOK
  BY DEF IInv
<1> QED
  BY <1>1, Invariance, PTL

\* No chunk that writeData() took is lost or overtaken, however the reply with
\* the socket, further writes and close() are interleaved.
THEOREM DataSafe == Spec => []NothingLost
<1>1. IInv => NothingLost
  BY DEF IInv
<1> QED
  BY <1>1, Invariance, PTL

\* Finished is only ever told of a job that the provider has finished.
THEOREM FinishedSafe == Spec => []FinishedIsTrue
<1>1. IInv => FinishedIsTrue
  BY DEF IInv
<1> QED
  BY <1>1, Invariance, PTL

\* Replies that come after a final state do not bring a transfer back to life.
THEOREM StaysFinal == Spec => NeverRevived
<1> DEFINE Kept == \A t \in Transfers :
              /\ status[t] = "cancelled" => status'[t] \in {"cancelled", "error"}
              /\ status[t] \in {"finished", "error"} => status'[t] = status[t]
<1>1. IInv /\ [Next]_vars => [Kept]_vars
  <2> SUFFICES ASSUME IInv, Next
               PROVE  Kept
    BY DEF vars
  <2>1. ASSUME NEW t \in Transfers,
               MakeJob(t) \/ MakeFailedJob(t) \/ Cancel(t) \/ Close(t) \/ Destroy(t)
        PROVE  Kept
    BY <2>1 DEF IInv, TypeOK, LifeInv, MakeJob, MakeFailedJob, Cancel, Close, Destroy,
       CancelNow, SetStatus
  <2>2. ASSUME NEW t \in Transfers, Reply(t)
        PROVE  Kept
    BY <2>2, ReplySteps DEF IInv, TypeOK, LifeInv, ProcessReply, FinishReply,
                ProcessError, FinishError, SetStatus, Final, Statuses
  <2>3. CASE UNCHANGED status
    BY <2>3
  <2>4. ASSUME NEW t \in Transfers, WriteData(t) \/ Provider(t) \/ TimeOut(t)
        PROVE  UNCHANGED status
    BY <2>4 DEF WriteData, Provider, ProviderCreates, ProviderFinishes, ProviderCancels,
                TimeOut, clientVars
  <2>5. CASE Shutdown
    BY <2>3, <2>5 DEF Shutdown, clientVars
  <2> QED
    BY <2>1, <2>2, <2>3, <2>4, <2>5, NextSteps
<1> QED
  BY <1>1, Invariance, PTL DEF Spec, NeverRevived

=============================================================================
