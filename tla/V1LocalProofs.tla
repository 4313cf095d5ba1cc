--------------------------- MODULE V1LocalProofs ---------------------------
(***************************************************************************)
(* Proofs about the local version of client library v1: V1Transfers, for   *)
(* uploads of any size and any number of changes by other processes; and   *)
(* V1Local, for any number of handles and calls, and any mix of methods.   *)
(***************************************************************************)
EXTENDS V1Local, V1Transfers, TLAPS

Outcomes == {"none", "file", "Resource", "Logic", "Cancelled", "Conflict", "Exists"}

UploadRecord ==
    [obj : {"none", "live", "broken", "dropped"}, st : {"in_progress", "finalized", "cancelled", "error"},
     file : BOOLEAN, etag : {"none", "old"}, written : Nat, got : Nat, closed : BOOLEAN, cancel : BOOLEAN,
     lost : BOOLEAN, step : {"idle", "check", "flush", "unlink", "link", "rename"}, linkat : BOOLEAN,
     thread : BOOLEAN, future : Outcomes]

\* The worker is in finalize() only with all of the bytes and before the future has an
\* outcome; an upload that has ended well stays as it is; and what the upload has left at
\* the path says how far it came.
UploadInv ==
    /\ up \in UploadRecord
    /\ up.obj = "none" => up = NoUpload
    /\ up.step # "idle" => up.st = "finalized" /\ up.got = Bytes /\ up.future = "none"
    /\ up.future = "file" => up.st \in {"finalized", "error"} /\ up.got = Bytes
    /\ up.future # "none" => up.thread = FALSE
    /\ path = "upload" => up.future = "file"
    /\ path = "empty" => ~ up.file /\ (up.step \in {"flush", "unlink", "rename"} \/ up.future = "Resource")

\* An upload that is under way has left nothing at the path.
LEMMA NothingYet ==
    ASSUME UploadInv, up.step = "idle", up.future = "none"
    PROVE  path \notin {"upload", "empty"}
  BY DEF UploadInv

\* What Report and Quit do to a job: the first outcome stays.
LEMMA ReportQuit ==
    ASSUME NEW job \in UploadRecord, NEW outcome \in Outcomes \ {"none"}
    PROVE  Quit(Report(job, outcome)) =
             [job EXCEPT !.future = IF job.future = "none" THEN outcome ELSE job.future, !.thread = FALSE]
  <1> DEFINE o == IF job.future = "none" THEN outcome ELSE job.future
             j == [job EXCEPT !.future = o]
  <1>1. Report(job, outcome) = j
    BY DEF Report, UploadRecord
  <1>2. j.future = o /\ o # "none"
    BY DEF UploadRecord, Outcomes
  <1> HIDE DEF o
  <1>3. Quit(j) = [j EXCEPT !.thread = FALSE]
    BY <1>2 DEF Quit, UploadRecord
  <1> QED
    BY <1>1, <1>3 DEF o

\* The worker gives up, in finalize() or before, and nothing of the upload is left but
\* the empty file of create_file().
LEMMA EndsBadly ==
    ASSUME UploadInv, UNCHANGED path,
           NEW st \in {"in_progress", "cancelled", "error"}, NEW outcome \in Outcomes \ {"none", "file"},
           NEW got \in Nat, NEW lost \in BOOLEAN, up.future # "file",
           path = "empty" => outcome = "Resource" \/ up.future = "Resource",
           up' = Quit(Report([up EXCEPT !.got = got, !.lost = lost, !.st = st, !.step = "idle"], outcome)),
           up.obj # "none"
    PROVE  UploadInv'
  <1> DEFINE job == [up EXCEPT !.got = got, !.lost = lost, !.st = st, !.step = "idle"]
  <1>1. job \in UploadRecord
    BY DEF UploadInv, UploadRecord
  <1>2. up' = [job EXCEPT !.future = IF job.future = "none" THEN outcome ELSE job.future, !.thread = FALSE]
    BY <1>1, ReportQuit
  <1>3. up' = [up EXCEPT !.got = got, !.lost = lost, !.st = st, !.step = "idle",
                         !.future = IF up.future = "none" THEN outcome ELSE up.future, !.thread = FALSE]
    BY <1>2 DEF UploadInv, UploadRecord
  <1>4. /\ up'.got = got /\ up'.st = st /\ up'.step = "idle" /\ up'.file = up.file /\ up'.obj = up.obj
        /\ up'.future = (IF up.future = "none" THEN outcome ELSE up.future) /\ up'.thread = FALSE
    BY <1>3 DEF UploadInv, UploadRecord
  <1>5. up' \in UploadRecord
    BY <1>3, ZenonT(60) DEF UploadInv, UploadRecord
  <1>6. up'.future # "file" /\ (path = "empty" => ~ up.file /\ up'.future = "Resource")
    BY <1>4 DEF UploadInv
  <1> QED
    BY <1>4, <1>5, <1>6 DEF UploadInv

\* The client's steps leave what the worker relies on alone.
LEMMA ClientStepsKeep == ASSUME UploadInv, ClientSteps PROVE UploadInv'
<1>1. UploadInv /\ UNCHANGED <<path, up>> => UploadInv'
  BY DEF UploadInv
<1>2. ASSUME NEW job \in {NoUpload, [NoUpload EXCEPT !.file = TRUE, !.etag = "old"]}, up.obj = "none",
             MakeUploader(job), UNCHANGED path
      PROVE  UploadInv'
  <2>0. path \notin {"upload", "empty"}
    <3>1. NoUpload.future = "none" /\ NoUpload.step = "idle"
      BY DEF NoUpload
    <3>2. up = NoUpload
      BY <1>2 DEF UploadInv
    <3>3. up.future = "none" /\ up.step = "idle"
      BY <3>1, <3>2
    <3> QED
      BY <3>3, NothingYet
  <2>1. job \in UploadRecord /\ job.future = "none" /\ job.step = "idle" /\ job.thread = FALSE
    <3> DEFINE update == [NoUpload EXCEPT !.file = TRUE, !.etag = "old"]
    <3>1. NoUpload \in UploadRecord /\ NoUpload.future = "none" /\ NoUpload.step = "idle" /\ NoUpload.thread = FALSE
      BY DEF NoUpload, UploadRecord, Outcomes
    <3>2. update \in UploadRecord /\ update.future = "none" /\ update.step = "idle" /\ update.thread = FALSE
      BY <3>1 DEF UploadRecord
    <3>3. job = NoUpload \/ job = update
      BY <1>2
    <3> HIDE DEF update
    <3> QED
      BY <3>1, <3>2, <3>3
  <2>2. CASE \E linkat \in BOOLEAN : up' = [job EXCEPT !.obj = "live", !.thread = TRUE, !.linkat = linkat]
    <3>1. PICK linkat \in BOOLEAN : up' = [job EXCEPT !.obj = "live", !.thread = TRUE, !.linkat = linkat]
      BY <2>2
    <3>2. up' \in UploadRecord /\ up'.obj = "live" /\ up'.future = "none" /\ up'.step = "idle"
      BY <2>1, <3>1 DEF UploadRecord
    <3> QED
      BY <1>2, <2>0, <3>2 DEF UploadInv
  <2>3. CASE up' = [job EXCEPT !.obj = "live"]
    BY <1>2, <2>0, <2>1, <2>3 DEF UploadInv, UploadRecord
  <2>4. CASE up' = Report([job EXCEPT !.obj = "broken"], "Resource")
    <3>1. up' = [job EXCEPT !.obj = "broken", !.future = "Resource"]
      BY <2>1, <2>4 DEF Report, UploadRecord
    <3> QED
      BY <1>2, <2>0, <2>1, <3>1 DEF UploadInv, UploadRecord, Outcomes
  <2> QED
    BY <1>2, <2>2, <2>3, <2>4 DEF MakeUploader, StartUploading
<1>3. CASE CreateFile
  BY <1>2, <1>3 DEF CreateFile
<1>4. CASE CreateUploader
  BY <1>2, <1>4 DEF CreateUploader
<1>5. ASSUME NEW file \in BOOLEAN, NEW written \in Nat, NEW closed \in BOOLEAN, NEW cancel \in BOOLEAN,
             NEW obj \in {"live", "dropped", "broken"}, UNCHANGED path,
             up' = [up EXCEPT !.obj = obj, !.file = file, !.written = written, !.closed = closed,
                              !.cancel = cancel],
             file => up.file
      PROVE  UploadInv'
  <2>0. up \in UploadRecord
    BY DEF UploadInv
  <2>0a. up'.thread = up.thread
    BY <1>5, <2>0 DEF UploadRecord
  <2>1. /\ up' \in UploadRecord /\ up'.obj # "none" /\ up'.file = file
        /\ up'.step = up.step /\ up'.st = up.st /\ up'.got = up.got /\ up'.future = up.future
    <3>1. up' \in UploadRecord
      <4> DEFINE u1 == [up EXCEPT !.obj = obj]
                 u2 == [u1 EXCEPT !.file = file]
                 u3 == [u2 EXCEPT !.written = written]
                 u4 == [u3 EXCEPT !.closed = closed]
                 u5 == [u4 EXCEPT !.cancel = cancel]
      <4>1. u1 \in UploadRecord
        BY <2>0 DEF UploadRecord
      <4> HIDE DEF u1
      <4>2. u2 \in UploadRecord
        BY <4>1 DEF UploadRecord
      <4> HIDE DEF u2
      <4>3. u3 \in UploadRecord
        BY <4>2 DEF UploadRecord
      <4> HIDE DEF u3
      <4>4. u4 \in UploadRecord
        BY <4>3 DEF UploadRecord
      <4> HIDE DEF u4
      <4>5. u5 \in UploadRecord
        BY <4>4 DEF UploadRecord
      <4>6. up' = u5
        BY <1>5 DEF u1, u2, u3, u4
      <4> QED
        BY <4>5, <4>6
    <3>2. up'.obj # "none"
      BY <1>5, <2>0 DEF UploadRecord
    <3>3. up'.file = file
      BY <1>5, <2>0 DEF UploadRecord
    <3>4. up'.step = up.step /\ up'.st = up.st /\ up'.got = up.got /\ up'.future = up.future
      BY <1>5, <2>0 DEF UploadRecord
    <3> QED
      BY <3>1, <3>2, <3>3, <3>4
  <2>2. up.future # "none" => up'.thread = FALSE
    BY <2>0a, <2>1, Zenon DEF UploadInv
  <2>3. path' = "empty" => ~ up'.file /\ (up'.step \in {"flush", "unlink", "rename"} \/ up'.future = "Resource")
    BY <1>5, <2>1, Zenon DEF UploadInv
  <2>4. path' = "upload" => up'.future = "file"
    BY <1>5, <2>1, Zenon DEF UploadInv
  <2>5. /\ up'.step # "idle" => up'.st = "finalized" /\ up'.got = Bytes /\ up'.future = "none"
        /\ up'.future = "file" => up'.st \in {"finalized", "error"} /\ up'.got = Bytes
    BY <2>1, Zenon DEF UploadInv
  <2> QED
    BY <2>1, <2>2, <2>3, <2>4, <2>5, Zenon DEF UploadInv
<1>6. up \in UploadRecord
  BY DEF UploadInv
<1>7. CASE DropFile
  <2>1. up' = [up EXCEPT !.obj = up.obj, !.file = FALSE, !.written = up.written, !.closed = up.closed,
                         !.cancel = up.cancel]
    BY <1>6, <1>7 DEF DropFile, UploadRecord
  <2>2. up.obj \in {"live", "dropped", "broken"} /\ UNCHANGED path
    BY <1>7 DEF DropFile
  <2> QED
    BY <1>5, <1>6, <2>1, <2>2 DEF UploadRecord
<1>8. CASE ClientWrites
  <2>1. up' = [up EXCEPT !.obj = up.obj, !.file = up.file, !.written = up.written + 1, !.closed = up.closed,
                         !.cancel = up.cancel]
    BY <1>6, <1>8 DEF ClientWrites, UploadRecord
  <2>2. up.obj \in {"live", "dropped", "broken"} /\ up.written + 1 \in Nat /\ UNCHANGED path
    BY <1>6, <1>8 DEF ClientWrites, UploadRecord
  <2> QED
    BY <1>5, <1>6, <2>1, <2>2 DEF UploadRecord
<1>9. CASE FinishUpload
  <2>1. up' = [up EXCEPT !.obj = up.obj, !.file = up.file, !.written = up.written, !.closed = TRUE,
                         !.cancel = up.cancel]
    BY <1>6, <1>9 DEF FinishUpload, UploadRecord
  <2>2. up.obj \in {"live", "dropped", "broken"} /\ UNCHANGED path
    BY <1>9 DEF FinishUpload
  <2> QED
    BY <1>5, <1>6, <2>1, <2>2 DEF UploadRecord
<1>10. CASE CancelUpload
  <2>1. PICK sent \in up.got..up.written : up' = [up EXCEPT !.cancel = TRUE, !.closed = TRUE, !.written = sent]
    BY <1>10 DEF CancelUpload
  <2>2. up' = [up EXCEPT !.obj = up.obj, !.file = up.file, !.written = sent, !.closed = TRUE, !.cancel = TRUE]
    BY <1>6, <2>1 DEF UploadRecord
  <2>3. up.obj \in {"live", "dropped", "broken"} /\ UNCHANGED path /\ sent \in Nat
    BY <1>6, <1>10 DEF CancelUpload, UploadRecord
  <2> QED
    BY <1>5, <1>6, <2>2, <2>3 DEF UploadRecord
<1>11. CASE DropUploader
  <2>1. up' = [up EXCEPT !.obj = "dropped", !.file = up.file, !.written = up.written, !.closed = up.closed,
                         !.cancel = up.cancel \/ up.thread]
    BY <1>6, <1>11 DEF DropUploader, UploadRecord
  <2>2. (up.cancel \/ up.thread) \in BOOLEAN /\ UNCHANGED path
    BY <1>11 DEF DropUploader
  <2> QED
    BY <1>5, <1>6, <2>1, <2>2 DEF UploadRecord
<1>12. ASSUME CreateDownloader \/ FinishDownload \/ CancelDownload \/ CloseSocket \/ DropDownloader \/ DropRuntime
       PROVE  UploadInv'
  BY <1>1, <1>12 DEF CreateDownloader, FinishDownload, CancelDownload, CloseSocket, DropDownloader, DropRuntime
<1> QED
  BY <1>3, <1>4, <1>7, <1>8, <1>9, <1>10, <1>11, <1>12 DEF ClientSteps

\* do_finish(): an upload in progress is finalised if it is whole; otherwise its future
\* gets an exception.
LEMMA DoFinishKeeps ==
    ASSUME UploadInv, UNCHANGED path, up.step = "idle", up.future # "file", up.obj # "none",
           NEW st \in {"in_progress", "cancelled", "error"}, NEW got \in Nat,
           NEW lost \in BOOLEAN,
           st = "in_progress" => up.future = "none",
           up' = UploadDoFinish([up EXCEPT !.got = got, !.lost = lost, !.st = st])
    PROVE  UploadInv'
<1> DEFINE job == [up EXCEPT !.got = got, !.lost = lost, !.st = st]
<1>1. up \in UploadRecord /\ job.st = st /\ job.got = got
  BY DEF UploadInv, UploadRecord
<1>2. job = [up EXCEPT !.got = got, !.lost = lost, !.st = st, !.step = "idle"]
  BY <1>1 DEF UploadRecord
<1>3. path = "empty" => up.future = "Resource"
  BY DEF UploadInv
<1>4. CASE st = "in_progress" /\ got = Bytes
  <2>1. up' = [job EXCEPT !.st = "finalized", !.step = "check"]
    BY <1>1, <1>4 DEF UploadDoFinish
  <2>2. up' = [up EXCEPT !.got = got, !.lost = lost, !.st = "finalized", !.step = "check"]
    BY <1>1, <2>1 DEF UploadRecord
  <2>3. path \notin {"upload", "empty"}
    BY <1>4, NothingYet
  <2>4. /\ up' \in UploadRecord /\ up'.obj = up.obj /\ up'.step = "check" /\ up'.st = "finalized"
        /\ up'.got = Bytes /\ up'.future = "none"
    BY <1>1, <1>4, <2>2, ZenonT(60) DEF UploadRecord
  <2> QED
    BY <2>3, <2>4 DEF UploadInv
<1>5. ASSUME NEW outcome \in {"Logic", "Cancelled", "Resource"}, up' = Quit(Report(job, outcome))
      PROVE  UploadInv'
  <2>1. up' = Quit(Report([up EXCEPT !.got = got, !.lost = lost, !.st = st, !.step = "idle"], outcome))
    BY <1>2, <1>5
  <2>2. outcome \in Outcomes \ {"none", "file"}
    BY DEF Outcomes
  <2> QED
    BY <1>3, <2>1, <2>2, EndsBadly
<1> QED
  BY <1>1, <1>4, <1>5 DEF UploadDoFinish

\* Every step of the worker keeps the invariant, with any change by another process
\* between two of them.
LEMMA UploadStepsKeep == ASSUME UploadInv, UploadSteps PROVE UploadInv'
<1>1. up \in UploadRecord
  BY DEF UploadInv
<1>2. ASSUME Working PROVE up.step = "idle" /\ up.obj # "none"
  <2>1. NoUpload.thread = FALSE
    BY DEF NoUpload
  <2> QED
    BY <1>2, <2>1 DEF Working, UploadInv
<1>3. CASE OnBytesReady
  <2>1. Working /\ up.st = "in_progress" /\ UNCHANGED path
    BY <1>3 DEF OnBytesReady
  <2>2. up.future = "none" /\ path \notin {"upload", "empty"}
    BY <1>2, <2>1, NothingYet DEF UploadInv, Working
  <2>3. up.got \in Nat /\ up.written \in Nat
    BY <1>1 DEF UploadRecord
  <2>4. ASSUME NEW n \in (up.got + 1)..up.written, up' = [up EXCEPT !.got = n]
        PROVE  UploadInv'
    <3>1. /\ up' \in UploadRecord /\ up'.obj = up.obj /\ up'.step = "idle" /\ up'.st = up.st
          /\ up'.future = up.future /\ up'.file = up.file /\ up'.thread = up.thread
      BY <1>1, <1>2, <2>1, <2>3, <2>4 DEF UploadRecord
    <3> QED
      BY <1>2, <2>1, <2>2, <3>1 DEF UploadInv
  <2>5. ASSUME NEW n \in (up.got + 1)..up.written, up' \in UploadErrors([up EXCEPT !.got = n, !.lost = TRUE])
        PROVE  UploadInv'
    <3> DEFINE job == [up EXCEPT !.got = n, !.lost = TRUE]
    <3>1. n \in Nat /\ up.step = "idle" /\ up.obj # "none"
      BY <1>2, <2>1, <2>3
    <3>2. job \in UploadRecord /\ job.st = "in_progress" /\ job.got = n /\ job.step = "idle"
      BY <1>1, <2>1, <3>1 DEF UploadRecord
    <3>3. CASE up' = Quit(Report([job EXCEPT !.st = "error"], "Resource"))
      <4>1. [job EXCEPT !.st = "error"] = [up EXCEPT !.got = n, !.lost = TRUE, !.st = "error", !.step = "idle"]
        BY <1>1, <3>1 DEF UploadRecord
      <4>2. up' = Quit(Report([up EXCEPT !.got = n, !.lost = TRUE, !.st = "error", !.step = "idle"], "Resource"))
        BY <3>3, <4>1
      <4> QED
        BY <2>1, <2>2, <3>1, <4>2, EndsBadly DEF Outcomes
    \* The abort() comes back, with too few or too many bytes.
    <3>4. CASE n # Bytes /\ up' = [UploadDoFinish(job) EXCEPT !.st = "error"]
      <4>1. UploadDoFinish(job) = Quit(Report(job, "Logic"))
        BY <3>2, <3>4 DEF UploadDoFinish
      <4>2. UploadDoFinish(job) =
               [job EXCEPT !.future = IF job.future = "none" THEN "Logic" ELSE job.future, !.thread = FALSE]
        BY <3>2, <4>1, ReportQuit DEF Outcomes
      <4>3. up' = [up EXCEPT !.got = n, !.lost = TRUE, !.st = "error", !.thread = FALSE,
                             !.future = IF up.future = "none" THEN "Logic" ELSE up.future]
        BY <1>1, <3>4, <4>2 DEF UploadRecord
      <4>4. /\ up' \in UploadRecord /\ up'.obj = up.obj /\ up'.step = "idle" /\ up'.st = "error"
            /\ up'.file = up.file /\ up'.thread = FALSE /\ up'.future = IF up.future = "none" THEN "Logic" ELSE up.future
        BY <1>1, <3>1, <4>3 DEF UploadRecord, Outcomes
      <4> QED
        BY <2>1, <2>2, <3>1, <4>4 DEF UploadInv
    \* It comes back with all of the bytes counted.
    <3>5. CASE n = Bytes /\ up' = UploadDoFinish(job)
      <4>1. up' = [job EXCEPT !.st = "finalized", !.step = "check"]
        BY <3>2, <3>5 DEF UploadDoFinish
      <4>2. /\ up' \in UploadRecord /\ up'.obj = up.obj /\ up'.step = "check" /\ up'.st = "finalized"
            /\ up'.got = Bytes /\ up'.future = "none" /\ up'.thread = up.thread
        BY <1>1, <2>2, <3>1, <3>5, <4>1 DEF UploadRecord
      <4> QED
        BY <2>1, <2>2, <3>1, <4>2 DEF UploadInv
    <3>6. UploadDoFinish(job).step = "idle" <=> n # Bytes
      <4>1. CASE n = Bytes
        <5>1. UploadDoFinish(job) = [job EXCEPT !.st = "finalized", !.step = "check"]
          BY <3>2, <4>1 DEF UploadDoFinish
        <5> QED
          BY <3>2, <4>1, <5>1 DEF UploadRecord
      <4>2. CASE n # Bytes
        <5>1. UploadDoFinish(job) = Quit(Report(job, "Logic"))
          BY <3>2, <4>2 DEF UploadDoFinish
        <5>2. UploadDoFinish(job) =
                 [job EXCEPT !.future = IF job.future = "none" THEN "Logic" ELSE job.future, !.thread = FALSE]
          BY <3>2, <5>1, ReportQuit DEF Outcomes
        <5> QED
          BY <3>2, <4>2, <5>2 DEF UploadRecord
      <4> QED
        BY <4>1, <4>2
    <3> QED
      BY <2>5, <3>3, <3>4, <3>5, <3>6 DEF UploadErrors
  <2> QED
    BY <1>3, <2>4, <2>5 DEF OnBytesReady
<1>4. CASE OnReadChannelFinished
  <2>1. /\ Working /\ up.st \in {"in_progress", "error"} /\ up.future = "none" /\ UNCHANGED path
        /\ up' = UploadDoFinish([up EXCEPT !.got = up.written])
    BY <1>4 DEF OnReadChannelFinished
  <2>2. /\ [up EXCEPT !.got = up.written] = [up EXCEPT !.got = up.written, !.lost = up.lost, !.st = up.st]
        /\ up.written \in Nat /\ up.lost \in BOOLEAN
    BY <1>1 DEF UploadRecord
  <2>3. up' = UploadDoFinish([up EXCEPT !.got = up.written, !.lost = up.lost, !.st = up.st])
    BY <2>1, <2>2
  <2> QED
    BY <1>2, <2>1, <2>2, <2>3, DoFinishKeeps
<1>5. CASE UploadDoCancel
  <2>1. /\ Working /\ up.st = "in_progress" /\ UNCHANGED path
        /\ up' = UploadDoFinish([up EXCEPT !.st = "cancelled"])
    BY <1>5 DEF UploadDoCancel
  <2>2. /\ [up EXCEPT !.st = "cancelled"] = [up EXCEPT !.got = up.got, !.lost = up.lost, !.st = "cancelled"]
        /\ up.got \in Nat /\ up.lost \in BOOLEAN
    BY <1>1 DEF UploadRecord
  <2>3. up' = UploadDoFinish([up EXCEPT !.got = up.got, !.lost = up.lost, !.st = "cancelled"])
    BY <2>1, <2>2
  <2>4. up.future # "file"
    BY <2>1 DEF UploadInv
  <2> QED
    BY <1>2, <2>1, <2>2, <2>3, <2>4, DoFinishKeeps
<1>6. ASSUME up.step # "idle"
      PROVE  up.future = "none" /\ up.obj # "none" /\ path # "upload" /\ up.st = "finalized" /\ up.got = Bytes
  <2>1. NoUpload.step = "idle"
    BY DEF NoUpload
  <2> QED
    BY <1>6, <2>1 DEF UploadInv
<1>7. ASSUME up.step # "idle", NEW outcome \in Outcomes \ {"none", "file"}, FinalizeFails(outcome),
             UNCHANGED path, path = "empty" => outcome = "Resource"
      PROVE  UploadInv'
  <2>1. [up EXCEPT !.st = "error", !.step = "idle"]
          = [up EXCEPT !.got = up.got, !.lost = up.lost, !.st = "error", !.step = "idle"]
    BY <1>1 DEF UploadRecord
  <2>2. up' = Quit(Report([up EXCEPT !.got = up.got, !.lost = up.lost, !.st = "error", !.step = "idle"], outcome))
    BY <1>7, <2>1 DEF FinalizeFails
  <2>3. up.got \in Nat /\ up.lost \in BOOLEAN
    BY <1>1 DEF UploadRecord
  <2> QED
    BY <1>6, <1>7, <2>2, <2>3, EndsBadly
<1>7a. ASSUME up.step # "idle", FailsByName PROVE UploadInv'
  <2>1. CASE FinalizeFails("Resource") /\ UNCHANGED path
    BY <1>7, <1>7a, <2>1 DEF Outcomes
  <2>2. CASE UNCHANGED <<up, path>>
    BY <2>2 DEF UploadInv
  <2> QED
    BY <1>7a, <2>1, <2>2 DEF FailsByName
\* The next system call, with the path as it must be for it.
<1>8. ASSUME up.step # "idle", NEW step \in {"flush", "unlink", "link", "rename"},
             up' = [up EXCEPT !.step = step], path' # "upload",
             path' = "empty" => ~ up.file /\ step # "link"
      PROVE  UploadInv'
  <2>1. /\ up' \in UploadRecord /\ up'.obj = up.obj /\ up'.step = step /\ up'.st = up.st /\ up'.got = up.got
        /\ up'.future = "none" /\ up'.file = up.file
    BY <1>1, <1>6, <1>8 DEF UploadRecord
  <2> QED
    BY <1>6, <1>8, <2>1 DEF UploadInv
<1>9. ASSUME up.step # "idle", up' = Stored, path' = "upload" PROVE UploadInv'
  <2> DEFINE st == IF up.lost THEN "error" ELSE up.st
             job == [up EXCEPT !.step = "idle", !.st = st]
  <2>0. st \in {"finalized", "error"} /\ Stored = Quit(Report(job, "file"))
    BY <1>1, <1>6, <1>9 DEF Stored, UploadRecord
  <2> HIDE DEF st
  <2>1. job \in UploadRecord /\ job.future = "none"
    BY <1>1, <1>6, <1>9, <2>0 DEF UploadRecord
  <2>2. Stored = [job EXCEPT !.future = "file", !.thread = FALSE]
    BY <2>0, <2>1, ReportQuit DEF Outcomes
  <2>3. up' \in UploadRecord /\ up'.obj = up.obj /\ up'.step = "idle" /\ up'.st \in {"finalized", "error"}
        /\ up'.got = up.got /\ up'.future = "file" /\ up'.thread = FALSE
    BY <1>1, <1>6, <1>9, <2>0, <2>2 DEF UploadRecord, Outcomes
  <2> QED
    BY <1>6, <1>9, <2>3 DEF UploadInv
<1>10. CASE CheckConflict
  <2>1. up.step = "check"
    BY <1>10 DEF CheckConflict
  <2>2. path # "empty"
    BY <1>6, <2>1 DEF UploadInv
  <2>3. CASE FinalizeFails("Conflict") /\ UNCHANGED path
    BY <1>7, <2>1, <2>2, <2>3 DEF Outcomes
  <2>4. CASE FinalizeFails("Exists") /\ UNCHANGED path
    BY <1>7, <2>1, <2>2, <2>4 DEF Outcomes
  <2>5. CASE up' = [up EXCEPT !.step = "flush"] /\ (path' = path \/ (path' = "empty" /\ ~ up.file))
    BY <1>6, <1>8, <2>1, <2>2, <2>5
  <2> QED
    BY <1>10, <2>3, <2>4, <2>5 DEF CheckConflict
<1>11. CASE Flush
  <2>1. up.step = "flush" /\ UNCHANGED path /\ (path = "empty" => ~ up.file)
    BY <1>11 DEF Flush, UploadInv
  <2>2. CASE up' = [up EXCEPT !.step = IF up.linkat THEN "unlink" ELSE "rename"]
    BY <1>6, <1>8, <2>1, <2>2
  <2>3. CASE FinalizeFails("Resource")
    BY <1>7, <2>1, <2>3 DEF Outcomes
  <2>4. CASE UNCHANGED up
    BY <2>1, <2>4 DEF UploadInv
  <2> QED
    BY <1>11, <2>2, <2>3, <2>4 DEF Flush
<1>12. CASE Unlink
  BY <1>8, <1>12 DEF Unlink
<1>13. CASE Link
  <2>1. up.step = "link"
    BY <1>13 DEF Link
  <2>2. CASE path' = "upload" /\ up' = Stored
    BY <1>9, <2>1, <2>2
  <2>3. CASE FailsByName
    BY <1>7a, <2>1, <2>3
  <2> QED
    BY <1>13, <2>2, <2>3 DEF Link
<1>14. CASE RenameUpload
  <2>1. up.step = "rename"
    BY <1>14 DEF RenameUpload
  <2>2. CASE path' = "upload" /\ up' = Stored
    BY <1>9, <2>1, <2>2
  <2>3. CASE FailsByName
    BY <1>7a, <2>1, <2>3
  <2> QED
    BY <1>14, <2>2, <2>3 DEF RenameUpload
<1> QED
  BY <1>3, <1>4, <1>5, <1>10, <1>11, <1>12, <1>13, <1>14 DEF UploadSteps

\* The invariant of an upload holds in every reachable state.
THEOREM UploadInvHolds == TransfersSpec => []UploadInv
<1>1. TransfersInit => UploadInv
  BY DEF TransfersInit, UploadInv, UploadRecord, NoUpload, Outcomes
<1>2. UploadInv /\ [TransfersNext]_transferVars => UploadInv'
  <2> SUFFICES ASSUME UploadInv, [TransfersNext]_transferVars PROVE UploadInv'
    OBVIOUS
  <2>1. ASSUME UNCHANGED up, path' \in {path, "none", "others"} PROVE UploadInv'
    BY <2>1 DEF UploadInv
  <2>2. CASE OnBytesWritten \/ DownloadEnds \/ LateFinish
    BY <2>1, <2>2 DEF OnBytesWritten, DownloadEnds, OnDisconnected, DownloadDoFinish, DownloadDoCancel, LateFinish
  <2>3. CASE OthersReplace
    BY <2>1, <2>3 DEF OthersReplace
  <2>4. CASE UNCHANGED transferVars
    BY <2>1, <2>4 DEF transferVars
  <2> QED
    BY <2>2, <2>3, <2>4, ClientStepsKeep, UploadStepsKeep DEF TransfersNext
<1> QED
  BY <1>1, <1>2, PTL DEF TransfersSpec

\* The future of a local v1 upload tells the truth about what is at the path, for files
\* of any size and however often other processes replace or remove the file.
THEOREM UploadsAreTrue == TransfersSpec => []TrueUploads
<1>1. UploadInv => TrueUploads
  BY DEF UploadInv, TrueUploads
<1> QED
  BY <1>1, UploadInvHolds, PTL

-----------------------------------------------------------------------------
(***************************************************************************)
(* V1Local.                                                                *)
(***************************************************************************)
HandleFields == {"st", "path", "type", "deleted", "root", "account", "ends"}
CallFields == {"op", "pc", "h", "parent", "name", "held", "seen", "touched", "result"}

Waits == {"idle", "queued", "done"}
Works == {"locked", "checked", "parent", "tmp", "made"}
Honest == {"ok", "Resource", "Permission", "Quota"}

\* A handle has come to its end as often as it is marked as deleted.
HandleOK(x) ==
    /\ DOMAIN x = HandleFields
    /\ x.deleted \in BOOLEAN
    /\ x.ends = IF x.deleted THEN 1 ELSE 0

\* A call has the mutex of its item while it works and only then, and has changed
\* something only once it is past its checks.
CallOK(r) ==
    /\ DOMAIN r = CallFields
    /\ r.pc \in Waits \cup Works
    /\ r.h \in Handles
    /\ r.touched \in BOOLEAN
    /\ r.pc \in Waits => r.held = {}
    /\ r.pc \in Works => r.h \in r.held
    /\ r.touched => r.pc \in {"tmp", "made", "done"}
    /\ r.pc \in {"parent", "tmp"} => r.op = "copy"
    /\ r.pc = "made" /\ r.touched => r.op \in {"copy", "move", "create_folder"}
    /\ r.pc = "done" /\ r.touched => r.result \in Honest

HandlesInv == DOMAIN handle = Handles /\ \A h \in Handles : HandleOK(handle[h])

CallsInv ==
    /\ DOMAIN call = Calls
    /\ \A c \in Calls : CallOK(call[c])
    /\ \A c, d \in Calls : c # d => call[c].held \cap call[d].held = {}

\* What is about to end the handle has made sure that nobody else has.
Ends(r) == r.pc = "checked" /\ r.op \in {"move", "delete"}
CheckedInv == \A c \in Calls : Ends(call[c]) => ~ handle[call[c].h].deleted

LocalInv == HandlesInv /\ CallsInv /\ CheckedInv

\* The calls are well-formed and exclude each other after one of them took a step.
LEMMA CallUpdate ==
    ASSUME CallsInv, NEW c \in Calls, NEW r, CallOK(r), call' = [call EXCEPT ![c] = r],
           r.held = {} \/ r.held = call[c].held \/ LocksFree(r.held)
    PROVE  CallsInv'
  <1>1. DOMAIN call' = Calls /\ call'[c] = r /\ \A d \in Calls : d # c => call'[d] = call[d]
    BY DEF CallsInv
  <1>2. \A d \in Calls : CallOK(call'[d])
    BY <1>1 DEF CallsInv
  <1>3. \A d \in Calls : d # c => r.held \cap call[d].held = {}
    BY DEF CallsInv, LocksFree
  <1>4. ASSUME NEW d \in Calls, NEW e \in Calls, d # e PROVE call'[d].held \cap call'[e].held = {}
    BY <1>1, <1>3, <1>4 DEF CallsInv
  <1> QED
    BY <1>1, <1>2, <1>4 DEF CallsInv

\* A step of one call that ends no handle.
LEMMA QuietStep ==
    ASSUME LocalInv, NEW c \in Calls, NEW r, CallOK(r), call' = [call EXCEPT ![c] = r],
           r.held = {} \/ r.held = call[c].held \/ LocksFree(r.held),
           Ends(r) => ~ handle[r.h].deleted,
           HandlesInv', \A h \in Handles : handle'[h].deleted => handle[h].deleted
    PROVE  LocalInv'
  <1>1. CallsInv'
    BY CallUpdate DEF LocalInv
  <1>2. call'[c] = r /\ \A d \in Calls : d # c => call'[d] = call[d]
    BY DEF LocalInv, CallsInv
  <1>3. ASSUME NEW d \in Calls, Ends(call'[d]) PROVE ~ handle'[call'[d].h].deleted
    <2>1. call[d].h \in Handles /\ r.h \in Handles
      BY DEF LocalInv, CallsInv, CallOK
    <2>2. CASE d = c
      BY <1>2, <1>3, <2>1, <2>2
    <2>3. CASE d # c
      BY <1>2, <1>3, <2>1, <2>3 DEF LocalInv, CheckedInv
    <2> QED
      BY <2>2, <2>3
  <1>4. CheckedInv'
    BY <1>3 DEF CheckedInv
  <1> QED
    BY <1>1, <1>4 DEF LocalInv

\* The step that ends the handle of a call that has checked it: nobody else has, and
\* nobody else is about to.
LEMMA EndingStep ==
    ASSUME LocalInv, NEW c \in Calls, NEW r, CallOK(r), call' = [call EXCEPT ![c] = r],
           r.held = {} \/ r.held = call[c].held, ~ Ends(r),
           Ends(call[c]), handle' = Ended(call[c].h)
    PROVE  LocalInv'
  <1> DEFINE h == call[c].h
  <1>1. h \in Handles /\ h \in call[c].held /\ ~ handle[h].deleted
    BY DEF LocalInv, CallsInv, CallOK, CheckedInv, Ends, Works
  <1>2. CallsInv'
    BY CallUpdate DEF LocalInv
  <1>3. call'[c] = r /\ \A d \in Calls : d # c => call'[d] = call[d]
    BY DEF LocalInv, CallsInv
  <1>4. DOMAIN handle = Handles /\ HandleOK(handle[h])
    BY <1>1 DEF LocalInv, HandlesInv
  <1>5. /\ DOMAIN handle' = Handles
        /\ handle'[h] = [handle[h] EXCEPT !.deleted = TRUE, !.ends = @ + 1]
        /\ \A g \in Handles : g # h => handle'[g] = handle[g]
    BY <1>1, <1>4 DEF Ended
  <1>6. handle[h].ends = 0
    BY <1>1, <1>4 DEF HandleOK
  <1>7. HandleOK(handle'[h])
    <2>1. DOMAIN handle'[h] = HandleFields
      BY <1>4, <1>5 DEF HandleOK
    <2>2. handle'[h].deleted = TRUE
      BY <1>4, <1>5 DEF HandleOK, HandleFields
    <2>3. handle'[h].ends = 1
      <3>1. handle'[h].ends = handle[h].ends + 1
        BY <1>4, <1>5 DEF HandleOK, HandleFields
      <3>2. 0 + 1 = 1
        OBVIOUS
      <3> QED
        BY <1>6, <3>1, <3>2, Zenon
    <2> QED
      BY <2>1, <2>2, <2>3, Zenon DEF HandleOK
  <1>8. HandlesInv'
    BY <1>5, <1>7 DEF HandlesInv, LocalInv
  <1>9. ASSUME NEW d \in Calls, Ends(call'[d]) PROVE ~ handle'[call'[d].h].deleted
    <2>1. d # c /\ call'[d] = call[d] /\ call[d].h \in Handles
      BY <1>3, <1>9 DEF LocalInv, CallsInv, CallOK
    <2>2. call[d].h \in call[d].held
      BY <1>9, <2>1 DEF LocalInv, CallsInv, CallOK, Ends, Works
    <2>3. call[d].h # h
      BY <1>1, <2>1, <2>2 DEF LocalInv, CallsInv
    <2> QED
      BY <1>5, <1>9, <2>1, <2>3 DEF LocalInv, CheckedInv
  <1>10. CheckedInv'
    BY <1>9 DEF CheckedInv
  <1> QED
    BY <1>2, <1>8, <1>10 DEF LocalInv

\* What a call is when it is over, and that its mutexes are free then.
LEMMA DoneOK ==
    ASSUME NEW op, NEW touched \in BOOLEAN, NEW result, touched => result \in Honest
    PROVE  CallOK(Done(op, touched, result)) /\ Done(op, touched, result).held = {} /\ ~ Ends(Done(op, touched, result))
  <1> DEFINE r == Done(op, touched, result)
  <1>1. /\ DOMAIN r = CallFields /\ r.pc = "done" /\ r.h = "r" /\ r.held = {} /\ r.touched = touched
        /\ r.result = result
    BY DEF Done, NoCall, CallFields
  <1>2. "r" \in Handles
    BY BoundsAssumption
  <1> HIDE DEF r
  <1>3. CallOK(r) /\ ~ Ends(r)
    BY <1>1, <1>2 DEF CallOK, Ends, Waits, Works
  <1> QED
    BY <1>1, <1>3 DEF r

\* New handles have not come to their end.
LEMMA NewHandleOK ==
    ASSUME NEW h, NEW path_, NEW type, NEW root
    PROVE  /\ HandleOK(RootHandle(h)) /\ ~ RootHandle(h).deleted
           /\ HandleOK(HandleOn(path_, type, root)) /\ ~ HandleOn(path_, type, root).deleted
           /\ HandleOK(NoHandle) /\ HandleOK(Foreign)
  BY DEF HandleOK, HandleFields, RootHandle, HandleOn, NoHandle, Foreign

\* Entering one handle that has not come to its end keeps the others.
LEMMA HandleUpdate ==
    ASSUME HandlesInv, NEW h, NEW x, HandleOK(x), x.deleted => h \in Handles /\ handle[h].deleted,
           handle' = [handle EXCEPT ![h] = x]
    PROVE  HandlesInv' /\ \A g \in Handles : handle'[g].deleted => handle[g].deleted
  <1>1. DOMAIN handle' = Handles /\ \A g \in Handles : handle'[g] = IF g = h THEN x ELSE handle[g]
    BY DEF HandlesInv
  <1> QED
    BY <1>1 DEF HandlesInv

\* Nothing is made of a handle that stays the same.
LEMMA HandlesSame ==
    ASSUME HandlesInv, UNCHANGED handle
    PROVE  HandlesInv' /\ \A g \in Handles : handle'[g].deleted => handle[g].deleted
  BY DEF HandlesInv

\* A call ends, with an answer that fits what it has done.
LEMMA EndKeeps ==
    ASSUME LocalInv, NEW c \in Calls, NEW result, End(c, result), call[c].touched => result \in Honest,
           HandlesInv', \A h \in Handles : handle'[h].deleted => handle[h].deleted
    PROVE  LocalInv'
  <1>1. DOMAIN call = Calls /\ call[c].touched \in BOOLEAN
    BY DEF LocalInv, CallsInv, CallOK
  <1> DEFINE r == Done(call[c].op, call[c].touched, result)
  <1>2. call' = [call EXCEPT ![c] = r]
    BY <1>1 DEF End
  <1>3. CallOK(r) /\ r.held = {} /\ ~ Ends(r)
    BY <1>1, DoneOK
  <1> HIDE DEF r
  <1> QED
    BY <1>2, <1>3, QuietStep

\* A method that is over at once.
LEMMA RefusedKeeps ==
    ASSUME LocalInv, NEW c \in Calls, NEW op, NEW result,
           call' = [call EXCEPT ![c] = Done(op, FALSE, result)],
           HandlesInv', \A h \in Handles : handle'[h].deleted => handle[h].deleted
    PROVE  LocalInv'
  <1> DEFINE r == Done(op, FALSE, result)
  <1>1. CallOK(r) /\ r.held = {} /\ ~ Ends(r)
    BY DoneOK
  <1> HIDE DEF r
  <1> QED
    BY <1>1, QuietStep DEF r

LEMMA ErrnoIsHonest == ASSUME NEW errno PROVE StorageException(errno) \in Honest
  BY DEF StorageException, Honest

\* The client's thread: a method is refused, answered, queued or begun with the mutex of
\* its handle.
LEMMA StartKeeps == ASSUME LocalInv, NEW c \in Calls, Start(c) PROVE LocalInv'
<1>0. HandlesInv /\ DOMAIN call = Calls
  BY DEF LocalInv, CallsInv
<1>1. ASSUME NEW op, NEW h \in Handles, NEW parent, NEW name, Begin(c, op, h, parent, name)
      PROVE  LocalInv'
  <2> DEFINE r == [[NoCall EXCEPT !.op = op, !.h = h, !.parent = parent, !.name = name] EXCEPT !.pc = "queued"]
  <2>1. call' = [call EXCEPT ![c] = Done(op, FALSE, Check(h, parent))] \/ call' = [call EXCEPT ![c] = r]
    BY <1>1 DEF Begin
  <2>2. UNCHANGED handle
    BY <1>1 DEF Begin
  <2>3. CallOK(r) /\ r.held = {} /\ ~ Ends(r)
    <3>1. DOMAIN r = CallFields /\ r.pc = "queued" /\ r.h = h /\ r.held = {} /\ r.touched = FALSE
      BY DEF NoCall, CallFields
    <3> HIDE DEF r
    <3> QED
      BY <3>1 DEF CallOK, Ends, Waits, Works
  <2> HIDE DEF r
  <2> QED
    BY <1>0, <2>1, <2>2, <2>3, HandlesSame, RefusedKeeps, QuietStep
<1>2. ASSUME NEW op, NEW h \in Handles, NEW name, BeginSync(c, op, h, name) PROVE LocalInv'
  <2> DEFINE r == [NoCall EXCEPT !.op = op, !.h = h, !.name = name, !.pc = "locked", !.held = {h}]
  <2>1. call' = [call EXCEPT ![c] = Done(op, FALSE, ThrowIfDestroyed(h))] \/ call' = [call EXCEPT ![c] = r]
    BY <1>2 DEF BeginSync
  <2>2. UNCHANGED handle /\ LocksFree({h})
    BY <1>2 DEF BeginSync
  <2>3. CallOK(r) /\ r.held = {h} /\ ~ Ends(r)
    <3>1. DOMAIN r = CallFields /\ r.pc = "locked" /\ r.h = h /\ r.held = {h} /\ r.touched = FALSE
      BY DEF NoCall, CallFields
    <3> HIDE DEF r
    <3> QED
      BY <3>1 DEF CallOK, Ends, Waits, Works
  <2> HIDE DEF r
  <2> QED
    BY <1>0, <2>1, <2>2, <2>3, HandlesSame, RefusedKeeps, QuietStep
<1>3. ASSUME NEW op, NEW h \in Handles, NEW answer, Answer(c, op, h, answer) PROVE LocalInv'
  BY <1>0, <1>3, HandlesSame, RefusedKeeps DEF Answer
<1>4. CASE NullParent(c)
  BY <1>0, <1>4, HandlesSame, RefusedKeeps DEF NullParent
<1>5. CASE Roots(c)
  <2>1. call' = [call EXCEPT ![c] =
            Done("roots", FALSE, IF runtime = "up" THEN "ok" ELSE "RuntimeDestroyed")]
    BY <1>5 DEF Roots
  <2>2. UNCHANGED handle \/ handle' = [handle EXCEPT !["r"] = RootHandle("r")]
    BY <1>5 DEF Roots
  <2>3. HandlesInv' /\ \A g \in Handles : handle'[g].deleted => handle[g].deleted
    BY <1>0, <2>2, HandlesSame, HandleUpdate, NewHandleOK
  <2> QED
    BY <2>1, <2>3, RefusedKeeps
<1>6. CASE RootsFails(c)
  BY <1>0, <1>6, HandlesSame, RefusedKeeps DEF RootsFails
<1>7. ASSUME Copy(c) \/ Move(c) \/ DeleteItem(c) \/ List(c) \/ Lookup(c) PROVE LocalInv'
  BY <1>1, <1>7 DEF Copy, Move, DeleteItem, List, Lookup
<1>8. ASSUME CreateFolder(c) \/ Get(c) \/ Parents(c) \/ Size(c) PROVE LocalInv'
  BY <1>2, <1>8 DEF CreateFolder, Get, Parents, Size
<1>9. ASSUME RootParents(c) \/ Accessor(c) \/ Space(c) \/ DeleteRoot(c) PROVE LocalInv'
  BY <1>3, <1>9 DEF RootParents, Accessor, Space, DeleteRoot
<1> QED
  BY <1>4, <1>5, <1>6, <1>7, <1>8, <1>9 DEF Start

\* A call goes on with the mutexes it has: it ends no handle, or it ends its own.
LEMMA GoOnKeeps ==
    ASSUME LocalInv, NEW c \in Calls, call[c].pc \in Works, NEW pc \in {"checked", "parent", "tmp", "made"}, NEW seen,
           NEW touched \in BOOLEAN,
           call' = [call EXCEPT ![c].pc = pc, ![c].seen = seen, ![c].touched = touched],
           touched => pc \notin {"checked", "parent"} /\ (pc = "made" => call[c].op \in {"copy", "move", "create_folder"}),
           pc \in {"parent", "tmp"} => call[c].op = "copy"
    PROVE  \/ /\ pc = "checked" /\ call[c].op \in {"move", "delete"} => ~ handle[call[c].h].deleted
              /\ HandlesInv' /\ \A h \in Handles : handle'[h].deleted => handle[h].deleted
           \/ Ends(call[c]) /\ pc # "checked" /\ handle' = Ended(call[c].h)
           => LocalInv'
  <1> DEFINE r == [call[c] EXCEPT !.pc = pc, !.seen = seen, !.touched = touched]
  <1>1. DOMAIN call = Calls /\ CallOK(call[c])
    BY DEF LocalInv, CallsInv
  <1>2. call' = [call EXCEPT ![c] = r]
    BY <1>1
  <1>3. /\ DOMAIN r = CallFields /\ r.pc = pc /\ r.touched = touched /\ r.op = call[c].op /\ r.h = call[c].h
        /\ r.held = call[c].held
    BY <1>1 DEF CallOK, CallFields
  <1> HIDE DEF r
  <1>4. CallOK(r) /\ (Ends(r) <=> pc = "checked" /\ call[c].op \in {"move", "delete"})
    BY <1>1, <1>3 DEF CallOK, Ends, Waits, Works
  <1> QED
    BY <1>2, <1>3, <1>4, QuietStep, EndingStep

\* The lambda, or the rest of the method: it takes the mutexes of its handles, looks at
\* them again, does its system calls and makes the handles of its result.
LEMMA WorkKeeps == ASSUME LocalInv, NEW c \in Calls, Work(c) PROVE LocalInv'
<1>0. HandlesInv /\ DOMAIN call = Calls /\ CallOK(call[c])
  BY DEF LocalInv, CallsInv
<1>1. ASSUME UNCHANGED handle
      PROVE  HandlesInv' /\ \A h \in Handles : handle'[h].deleted => handle[h].deleted
  BY <1>0, <1>1, HandlesSame
<1>2. CASE TakeLocks(c)
  <2> DEFINE r == [call[c] EXCEPT !.pc = "locked", !.held = Needs(c)]
  <2>1. call' = [call EXCEPT ![c] = r] /\ call[c].pc = "queued" /\ LocksFree(Needs(c)) /\ UNCHANGED handle
    BY <1>0, <1>2 DEF TakeLocks, At
  <2>2. /\ DOMAIN r = CallFields /\ r.pc = "locked" /\ r.held = Needs(c) /\ r.h = call[c].h
        /\ r.touched = call[c].touched
    BY <1>0 DEF CallOK, CallFields
  <2>3. call[c].h \in Needs(c)
    BY <1>0, BoundsAssumption DEF CallOK, Needs
  <2> HIDE DEF r
  <2>4. CallOK(r) /\ ~ Ends(r)
    BY <1>0, <2>1, <2>2, <2>3 DEF CallOK, Ends, Waits, Works
  <2> QED
    BY <1>1, <2>1, <2>2, <2>4, QuietStep
<1>3. CASE Examine(c)
  <2>1. call[c].pc = "locked" /\ UNCHANGED handle /\ ~ call[c].touched
    BY <1>0, <1>3 DEF Examine, At, CallOK
  <2>2. CASE End(c, Refusal(c)) \/ End(c, "ok")
    BY <1>1, <2>1, <2>2, EndKeeps
  <2>3. ASSUME NEW pc \in {"checked", "made"}, NEW seen,
               call' = [call EXCEPT ![c].pc = pc, ![c].seen = seen],
               pc = "checked" => Refusal(c) = "ok"
        PROVE  LocalInv'
    <3>1. call' = [call EXCEPT ![c].pc = pc, ![c].seen = seen, ![c].touched = FALSE]
      <4>1. call[c].touched = FALSE
        BY <1>0, <2>1 DEF CallOK
      <4>2. [call[c] EXCEPT !.pc = pc, !.seen = seen]
              = [call[c] EXCEPT !.pc = pc, !.seen = seen, !.touched = FALSE]
        BY <1>0, <4>1 DEF CallOK, CallFields
      <4> QED
        BY <1>0, <2>3, <4>2
    <3>2. ASSUME pc = "checked" PROVE ~ handle[call[c].h].deleted
      <4>1. Check(call[c].h, call[c].parent) = "ok"
        BY <2>3, <3>2 DEF Refusal, RefusalAfter
      <4>2. ThrowIfDestroyed(call[c].h) = "ok"
        BY <4>1 DEF Check
      <4> QED
        BY <4>2 DEF ThrowIfDestroyed
    <3> QED
      BY <1>1, <2>1, <3>1, <3>2, GoOnKeeps DEF Works
  <2>4. \/ End(c, Refusal(c)) \/ End(c, "ok")
        \/ \E seen : call' = [call EXCEPT ![c].pc = "made", ![c].seen = seen]
        \/ Refusal(c) = "ok" /\ call' = [call EXCEPT ![c].pc = "checked", ![c].seen = {}]
    BY <1>3 DEF Examine
  <2> QED
    BY <2>2, <2>3, <2>4
<1>4. ASSUME NEW errno, NEW new, NEW pc \in {"tmp", "made"}, Do(c, errno, new, pc),
             call[c].pc \in Works, pc = "tmp" => call[c].op = "copy",
             call[c].op \in {"copy", "move", "create_folder"},
             \/ UNCHANGED handle
             \/ errno = "ok" /\ Ends(call[c]) /\ handle' = Ended(call[c].h)
      PROVE  LocalInv'
  <2>1. CASE errno # "ok"
    <3>1. End(c, StorageException(errno)) /\ UNCHANGED handle
      BY <1>4, <2>1 DEF Do
    <3> QED
      BY <1>1, <3>1, EndKeeps, ErrnoIsHonest
  <2>2. CASE errno = "ok"
    <3>1. call' = [call EXCEPT ![c].pc = pc, ![c].seen = {Target(c)}, ![c].touched = TRUE]
      BY <1>4, <2>2 DEF Do
    <3> QED
      BY <1>1, <1>4, <3>1, GoOnKeeps
  <2> QED
    BY <2>1, <2>2
<1>5. CASE DoCreateFolder(c)
  BY <1>4, <1>5 DEF DoCreateFolder, At, Works
<1>6. CASE DoCopyFile(c)
  BY <1>4, <1>6 DEF DoCopyFile, At, Works
<1>7. CASE CanonicalParent(c)
  <2>1. call[c].pc = "checked" /\ call[c].op = "copy" /\ UNCHANGED handle /\ call[c].touched = FALSE
    BY <1>0, <1>7 DEF CanonicalParent, At, CallOK
  <2>2. CASE call' = [call EXCEPT ![c].pc = "parent"]
    <3>1. [call[c] EXCEPT !.pc = "parent"]
            = [call[c] EXCEPT !.pc = "parent", !.seen = call[c].seen, !.touched = FALSE]
      BY <1>0, <2>1 DEF CallOK, CallFields
    <3>2. call' = [call EXCEPT ![c].pc = "parent", ![c].seen = call[c].seen, ![c].touched = FALSE]
      BY <1>0, <2>2, <3>1
    <3> QED
      BY <1>1, <2>1, <3>2, GoOnKeeps DEF Works
  <2>3. CASE End(c, StorageException("ENOENT"))
    BY <1>1, <2>1, <2>3, EndKeeps
  <2> QED
    BY <1>7, <2>2, <2>3 DEF CanonicalParent
<1>8. CASE DoCopyFolder(c)
  <2>1. call[c].pc = "parent" /\ call[c].op = "copy" /\ UNCHANGED handle
    BY <1>0, <1>8 DEF DoCopyFolder, At, CallOK
  <2>2. CASE End(c, StorageException("ENOTDIR"))
    BY <1>1, <2>1, <2>2, EndKeeps, ErrnoIsHonest
  <2>3. CASE call' = [call EXCEPT ![c].pc = "tmp", ![c].seen = {Target(c)}, ![c].touched = TRUE]
    BY <1>1, <2>1, <2>3, GoOnKeeps DEF Works
  <2>4. CASE call' = [call EXCEPT ![c] = Done("copy", TRUE, StorageException("ENOENT"))]
    <3> DEFINE r == Done("copy", TRUE, StorageException("ENOENT"))
    <3>1. CallOK(r) /\ r.held = {} /\ ~ Ends(r)
      BY DoneOK, ErrnoIsHonest
    <3> HIDE DEF r
    <3> QED
      BY <1>1, <2>1, <2>4, <3>1, QuietStep DEF r
  <2> QED
    BY <1>8, <2>2, <2>3, <2>4 DEF DoCopyFolder
<1>8a. CASE DoRenameTmp(c)
  BY <1>0, <1>4, <1>8a DEF DoRenameTmp, At, Works, CallOK
<1>9. CASE DoMove(c)
  <2>1. call[c].pc = "checked" /\ call[c].op = "move" /\ ~ call[c].touched
    BY <1>0, <1>9 DEF DoMove, At, CallOK
  <2>2. CASE Check(call[c].h, None) # "ok"
    <3>1. End(c, Check(call[c].h, None)) /\ UNCHANGED handle
      BY <1>9, <2>2 DEF DoMove
    <3> QED
      BY <1>1, <2>1, <3>1, EndKeeps
  <2>3. CASE Check(call[c].h, None) = "ok"
    <3> DEFINE errno == RenameErrno(tree, handle[call[c].h].path, Target(c))
               new == IF errno = "ok" THEN Rename(tree, handle[call[c].h].path, Target(c)) ELSE tree
    <3>1. Do(c, errno, new, "made") /\ handle' = IF errno = "ok" THEN Ended(call[c].h) ELSE handle
      BY <1>9, <2>3 DEF DoMove
    <3> HIDE DEF errno, new
    <3> QED
      BY <1>4, <2>1, <3>1 DEF Works, Ends
  <2> QED
    BY <2>2, <2>3
<1>10. CASE DoDelete(c)
  <2>1. call[c].pc = "checked" /\ call[c].op = "delete"
    BY <1>10 DEF DoDelete, At
  <2>2. CASE handle' = Ended(call[c].h) /\ call' = [call EXCEPT ![c] = Done("delete", TRUE, "ok")]
    <3> DEFINE r == Done("delete", TRUE, "ok")
    <3>1. CallOK(r) /\ r.held = {} /\ ~ Ends(r)
      BY DoneOK DEF Honest
    <3> HIDE DEF r
    <3> QED
      BY <2>1, <2>2, <3>1, EndingStep DEF Ends, r
  <2>3. CASE UNCHANGED handle /\ call' = [call EXCEPT ![c] = Done("delete", TRUE, StorageException("EACCES"))]
    <3> DEFINE r == Done("delete", TRUE, StorageException("EACCES"))
    <3>1. CallOK(r) /\ r.held = {} /\ ~ Ends(r)
      BY DoneOK, ErrnoIsHonest
    <3> HIDE DEF r
    <3> QED
      BY <1>1, <2>3, <3>1, QuietStep DEF r
  <2> QED
    BY <1>10, <2>2, <2>3 DEF DoDelete
<1>11. ASSUME call[c].pc = "made",
              UNCHANGED handle \/ \E type : Make(Target(c), type, ResultRoot(c)),
              End(c, ResultError(c))
       PROVE  LocalInv'
  <2>1. call[c].touched => call[c].op \notin {"parents", "get"}
    BY <1>0, <1>11 DEF CallOK
  <2>2. call[c].touched => ResultError(c) \in {"ok", StorageException("ENOENT")}
    BY <2>1 DEF ResultError
  <2>3. call[c].touched => ResultError(c) \in Honest
    BY <2>2, ErrnoIsHonest DEF Honest
  <2>4. ASSUME NEW type, Make(Target(c), type, ResultRoot(c))
        PROVE  HandlesInv' /\ \A h \in Handles : handle'[h].deleted => handle[h].deleted
    BY <1>0, <1>1, <2>4, HandleUpdate, NewHandleOK DEF Make
  <2> QED
    BY <1>1, <1>11, <2>3, <2>4, EndKeeps
<1>12. CASE MakeResult(c)
  BY <1>11, <1>12 DEF MakeResult, At
<1>13. CASE MakeWithoutRoot(c)
  <2>1. CASE UNCHANGED <<call, handle>>
    BY <2>1 DEF LocalInv, HandlesInv, CallsInv, CheckedInv, CallOK
  <2>2. CASE /\ UNCHANGED handle \/ Make(Target(c), ResultType(c), ResultRoot(c))
             /\ End(c, ResultError(c))
    BY <1>11, <1>13, <2>2 DEF MakeWithoutRoot, At
  <2> QED
    BY <1>13, <2>1, <2>2 DEF MakeWithoutRoot
<1> QED
  BY <1>2, <1>3, <1>5, <1>6, <1>7, <1>8, <1>8a, <1>9, <1>10, <1>12, <1>13 DEF Work

\* The invariant of the handles and calls holds in every reachable state.
THEOREM LocalInvHolds == Spec => []LocalInv
<1>1. Init => LocalInv
  <2> SUFFICES ASSUME Init PROVE LocalInv
    OBVIOUS
  <2>1. call = [c \in Calls |-> NoCall]
    BY DEF Init
  <2>2. CallOK(NoCall) /\ NoCall.held = {} /\ ~ Ends(NoCall)
    <3>1. /\ DOMAIN NoCall = CallFields /\ NoCall.pc = "idle" /\ NoCall.h = "r" /\ NoCall.held = {}
          /\ NoCall.touched = FALSE
      BY DEF NoCall, CallFields
    <3> QED
      BY <3>1, BoundsAssumption DEF CallOK, Ends, Waits, Works
  <2>3. CallsInv /\ CheckedInv
    BY <2>1, <2>2 DEF CallsInv, CheckedInv
  <2>4. CASE handle = [h \in Handles |-> IF h = "x" THEN Foreign ELSE NoHandle]
    <3>1. HandleOK(NoHandle) /\ HandleOK(Foreign)
      BY NewHandleOK, Zenon
    <3>2. DOMAIN handle = Handles /\ \A h \in Handles : handle[h] \in {Foreign, NoHandle}
      BY <2>4
    <3> QED
      BY <2>3, <3>1, <3>2 DEF HandlesInv, LocalInv
  <2>5. ASSUME NEW item \in DOMAIN tree \ {Root},
               handle = [h \in Handles |->
                    CASE h = "r"           -> RootHandle("r")
                      [] h = "x"           -> Foreign
                      [] h = "h1"          -> HandleOn(item, tree[item].type, "r")
                      [] h = "h2"          -> HandleOn(<<"b">>, "folder", "r")
                      [] OTHER             -> NoHandle]
        PROVE  HandlesInv
    BY <2>5, NewHandleOK DEF HandlesInv
  <2> QED
    BY <2>3, <2>4, <2>5 DEF Init, LocalInv
<1>2. LocalInv /\ [Next]_vars => LocalInv'
  <2> SUFFICES ASSUME LocalInv, [Next]_vars PROVE LocalInv'
    OBVIOUS
  <2>1. ASSUME UNCHANGED call, HandlesInv', \A h \in Handles : handle'[h].deleted => handle[h].deleted
        PROVE  LocalInv'
    BY <2>1 DEF LocalInv, CallsInv, CheckedInv, CallOK
  <2>2. ASSUME UNCHANGED <<call, handle>> PROVE LocalInv'
    BY <2>1, <2>2, HandlesSame DEF LocalInv
  <2>3. ASSUME NEW c \in Calls, Fails(c) PROVE LocalInv'
    BY <2>3, HandlesSame, EndKeeps, ErrnoIsHonest DEF Fails, LocalInv
  <2>4. ASSUME NEW h \in Handles, DropRoot(h) PROVE LocalInv'
    <3> DEFINE x == [handle[h] EXCEPT !.st = "dropped"]
    <3>1. HandlesInv /\ HandleOK(handle[h])
      BY DEF LocalInv, HandlesInv
    <3>2. handle' = [handle EXCEPT ![h] = x] /\ UNCHANGED call
      BY <2>4 DEF DropRoot
    <3>3. DOMAIN x = HandleFields /\ x.deleted = handle[h].deleted /\ x.ends = handle[h].ends
      BY <3>1 DEF HandleOK, HandleFields
    <3> HIDE DEF x
    <3>4. HandleOK(x)
      BY <3>1, <3>3 DEF HandleOK
    <3>5. HandlesInv' /\ \A g \in Handles : handle'[g].deleted => handle[g].deleted
      BY <3>1, <3>2, <3>3, <3>4, HandleUpdate
    <3> QED
      BY <2>1, <3>2, <3>5
  <2>5. CASE Shutdown \/ DropAccount \/ OthersChange \/ UNCHANGED vars
    BY <2>2, <2>5 DEF Shutdown, DropAccount, OthersChange, Objects, vars
  <2> QED
    BY <2>3, <2>4, <2>5, StartKeeps, WorkKeeps DEF Next
<1> QED
  BY <1>1, <1>2, PTL DEF Spec

\* Of the calls that move or delete an item through one handle, however many run
\* together, at most one ends it; and a call that has changed something never answers
\* that the item, the runtime or an argument was no good.
THEOREM HandlesEndOnce == Spec => []EndedHandles
<1>1. LocalInv => EndedHandles
  <2> SUFFICES ASSUME LocalInv PROVE EndedHandles
    OBVIOUS
  <2>1. ASSUME NEW h \in Handles PROVE handle[h].ends <= 1
    <3>1. handle[h].ends = 1 \/ handle[h].ends = 0
      BY DEF LocalInv, HandlesInv, HandleOK
    <3> QED
      BY <3>1
  <2>2. ASSUME NEW c \in Calls, call[c].touched, call[c].pc = "done"
        PROVE  call[c].result \in {"ok", "Resource", "Permission", "Quota"}
    BY <2>2 DEF LocalInv, CallsInv, CallOK, Honest
  <2> QED
    BY <2>1, <2>2 DEF EndedHandles
<1> QED
  BY <1>1, LocalInvHolds, PTL
=============================================================================
