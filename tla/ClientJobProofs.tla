-------------------------- MODULE ClientJobProofs --------------------------
(***************************************************************************)
(* Proofs about the v2 client library: ClientJob, for any metadata a       *)
(* provider may return, any number of parents and of pages; and, at the    *)
(* end, Comparison, for any accounts, items and hash functions.            *)
(***************************************************************************)
EXTENDS ClientJob, Comparison, TLAPS

Usable(md) ==
    /\ md.id
    /\ md.type = "file" => md.size = "ok" /\ md.time = "ok" /\ md.etag
    /\ md.type # "root" => md.parents > 0
    /\ method \in {"list", "move"} => md.type # "root"
    /\ method = "roots" => md.type = "root"

\* What validate() and the job's own check let through is usable, whatever the
\* provider sent.
LEMMA AcceptedIsUsable ==
    ASSUME NEW md \in ItemMetadata, Accepted(md)
    PROVE  Usable(md)
  BY DEF ItemMetadata, Accepted, Expected, ExpectedRoot, Validate, Usable

Logs == Seq({"items"} \cup Final)

\* What the log is after the signals that a step may emit.
LEMMA LogFacts ==
    ASSUME TypeOK
    PROVE  /\ \A st \in Final : Append(log, st) \in Logs /\ log \o <<"items", st>> \in Logs
           /\ Append(log, "items") \in Logs
           /\ log = << >> => OnlyItems(log)
           /\ OnlyItems(log) =>
                 /\ OnlyItems(Append(log, "items"))
                 /\ \A st : EndsAtMostWith(log, st)
                 /\ \A st : EndsAtMostWith(Append(log, "items"), st)
                 /\ \A st \in Final : /\ EndsAtMostWith(Append(log, st), st)
                                      /\ EndsAtMostWith(log \o <<"items", st>>, st)
  <1>0. log \in Seq({"items"} \cup Final)
    BY DEF TypeOK
  <1>1. /\ \A st \in Final : Append(log, st) \in Logs /\ log \o <<"items", st>> \in Logs
        /\ Append(log, "items") \in Logs
        /\ log = << >> => OnlyItems(log)
    BY <1>0 DEF OnlyItems, Logs
  <1> SUFFICES ASSUME OnlyItems(log)
      PROVE  /\ OnlyItems(Append(log, "items"))
             /\ \A st : EndsAtMostWith(log, st)
             /\ \A st : EndsAtMostWith(Append(log, "items"), st)
             /\ \A st \in Final : /\ EndsAtMostWith(Append(log, st), st)
                                  /\ EndsAtMostWith(log \o <<"items", st>>, st)
    BY <1>1
  <1>2. "items" \notin Final
    BY DEF Final
  <1>3. OnlyItems(Append(log, "items"))
    BY <1>0 DEF OnlyItems
  <1>4. \A st : EndsAtMostWith(log, st) /\ EndsAtMostWith(Append(log, "items"), st)
    BY <1>0, <1>2, <1>3 DEF OnlyItems, EndsAtMostWith
  <1>5. ASSUME NEW st \in Final PROVE EndsAtMostWith(Append(log, st), st)
    BY <1>0, <1>2 DEF OnlyItems, EndsAtMostWith
  <1>6. ASSUME NEW st \in Final PROVE EndsAtMostWith(log \o <<"items", st>>, st)
    BY <1>0, <1>2 DEF OnlyItems, EndsAtMostWith
  <1> QED BY <1>3, <1>4, <1>5, <1>6

\* A job under way goes on with items, or ends with one signal, after the last
\* items perhaps.
LEMMA StepLog ==
    ASSUME TypeOK, OnlyItems(log),
           \/ status' \in Final /\ log' \in {Append(log, status'), log \o <<"items", status'>>}
           \/ status' = "loading" /\ log' = Append(log, "items")
    PROVE  /\ log' \in Logs
           /\ EndsAtMostWith(log', status')
           /\ status' = "loading" => OnlyItems(log')
  <1>1. "loading" \notin Final
    BY DEF Final
  <1> QED BY <1>1, LogFacts

\* Metadata is well formed.
LEMMA MetadataTypes == /\ Metadata \subseteq ItemMetadata
                       /\ \A mds \in Pages : mds \subseteq ItemMetadata
  BY PagesAssumption DEF Metadata

-----------------------------------------------------------------------------
\* Initially there is no job.
LEMMA InitInv == Init => IInv
  <1> SUFFICES ASSUME Init PROVE IInv
    OBVIOUS
  <1>1. TypeOK
    <2>1. log \in Seq({"items"} \cup Final)
      BY DEF Init
    <2> QED BY <2>1 DEF Init, TypeOK
  <1>2. ItemsUsable /\ CompleteWhenFinished /\ ErrorIsSet
    BY DEF Init, ItemsUsable, CompleteWhenFinished, ErrorIsSet
  <1>3. EndsAtMostWith(log, status)
    BY <1>1, LogFacts DEF Init
  <1>4. EndsWithOneSignal /\ ProgressInv
    BY <1>3 DEF Init, EndsWithOneSignal, ProgressInv, Final
  <1> QED BY <1>1, <1>2, <1>4 DEF IInv

\* A step that leaves the job alone.
LEMMA SameJob ==
    ASSUME IInv, runtime' \in {runtime, "destroyed"}, gone' \in {"no", "destroyed", "aborted", "asserted"},
           UNCHANGED <<method, source, status, error, open, remaining, total, count, items,
                       log, queued>>
    PROVE  IInv'
  BY DEF IInv, TypeOK, ItemsUsable, CompleteWhenFinished, EndsWithOneSignal, ErrorIsSet,
         ProgressInv, EndsAtMostWith, OnlyItems

\* What a reply finds when the job is Loading.
LEMMA LoadingFacts ==
    ASSUME IInv, status = "loading"
    PROVE  /\ IInv /\ TypeOK /\ ItemsUsable /\ ProgressInv
           /\ source \in ItemMetadata /\ error = "none" /\ queued = "none"
           /\ log \in Logs /\ OnlyItems(log)
           /\ method \in Methods /\ method # "none"
  BY DEF IInv, TypeOK, ErrorIsSet, ProgressInv, Logs

\* The reply to get, copy, move or createFolder.
LEMMA ItemReplyKeeps ==
    ASSUME IInv, NEW md \in Metadata, ItemReply(md)
    PROVE  IInv'
  <1>0. status = "loading"
    BY DEF IInv, TypeOK, ProgressInv, ItemReply, Arrives, ItemMethods, Final
  <1>a. \/ status' \in Final /\ log' \in {Append(log, status'), log \o <<"items", status'>>}
        \/ status' = "loading" /\ log' = Append(log, "items")
    BY <1>0 DEF ItemReply, Arrives, Fail, ItemMethods, Final
  <1>b. /\ log' \in Logs
        /\ EndsAtMostWith(log', status')
        /\ status' = "loading" => OnlyItems(log')
    BY <1>0, <1>a, StepLog, LoadingFacts
  <1>1. TypeOK'
    BY <1>0, <1>b, LoadingFacts, MetadataTypes
       DEF TypeOK, Logs, ItemReply, Arrives, Fail, ItemMethods, Errors, Final
  <1>2. ItemsUsable'
    BY <1>0, <1>b, LoadingFacts, AcceptedIsUsable, MetadataTypes
       DEF ItemsUsable, Usable, ItemReply, Arrives, Fail, ItemMethods
  <1>3. CompleteWhenFinished'
    BY DEF CompleteWhenFinished, ItemReply, Arrives, ItemMethods
  <1>4. EndsWithOneSignal'
    BY <1>0, <1>b, LoadingFacts
       DEF EndsWithOneSignal, ItemReply, Arrives, Fail, ItemMethods
  <1>5. ErrorIsSet'
    BY <1>0, <1>b, LoadingFacts DEF ErrorIsSet, ItemReply, Arrives, Fail, ItemMethods
  <1>6. ProgressInv'
    BY <1>0, <1>b, LoadingFacts
       DEF TypeOK, ProgressInv, ItemReply, Arrives, Fail, ItemMethods, Final
  <1> QED BY <1>1, <1>2, <1>3, <1>4, <1>5, <1>6 DEF IInv

\* The reply to deleteItem.
LEMMA VoidReplyKeeps ==
    ASSUME IInv, VoidReply
    PROVE  IInv'
  <1>0. status = "loading"
    BY DEF IInv, TypeOK, ProgressInv, VoidReply, Arrives, Final
  <1>a. \/ status' \in Final /\ log' \in {Append(log, status'), log \o <<"items", status'>>}
        \/ status' = "loading" /\ log' = Append(log, "items")
    BY <1>0 DEF VoidReply, Arrives, Fail, Final
  <1>b. /\ log' \in Logs
        /\ EndsAtMostWith(log', status')
        /\ status' = "loading" => OnlyItems(log')
    BY <1>0, <1>a, StepLog, LoadingFacts
  <1>1. TypeOK'
    BY <1>0, <1>b, LoadingFacts DEF TypeOK, Logs, VoidReply, Arrives, Fail, Errors, Final
  <1>2. ItemsUsable'
    BY <1>0, <1>b, LoadingFacts DEF ItemsUsable, VoidReply, Arrives, Fail
  <1>3. CompleteWhenFinished'
    BY DEF CompleteWhenFinished, VoidReply, Arrives
  <1>4. EndsWithOneSignal'
    BY <1>0, <1>b, LoadingFacts DEF EndsWithOneSignal, VoidReply, Arrives, Fail
  <1>5. ErrorIsSet'
    BY <1>0, <1>b, LoadingFacts DEF ErrorIsSet, VoidReply, Arrives, Fail
  <1>6. ProgressInv'
    BY <1>0, <1>b, LoadingFacts DEF TypeOK, ProgressInv, VoidReply, Arrives, Fail, Final
  <1> QED BY <1>1, <1>2, <1>3, <1>4, <1>5, <1>6 DEF IInv

\* The reply to roots or lookup, with good and bad items.
LEMMA ItemListReplyKeeps ==
    ASSUME IInv, NEW mds \in Pages, ItemListReply(mds)
    PROVE  IInv'
  <1>0. status = "loading"
    BY DEF IInv, TypeOK, ProgressInv, ItemListReply, Arrives, ItemListMethods, Final
  <1>a. \/ status' \in Final /\ log' \in {Append(log, status'), log \o <<"items", status'>>}
        \/ status' = "loading" /\ log' = Append(log, "items")
    BY <1>0 DEF ItemListReply, Arrives, Fail, ItemListMethods, Final
  <1>b. /\ log' \in Logs
        /\ EndsAtMostWith(log', status')
        /\ status' = "loading" => OnlyItems(log')
    BY <1>0, <1>a, StepLog, LoadingFacts
  <1>1. TypeOK'
    BY <1>0, <1>b, LoadingFacts, MetadataTypes
       DEF TypeOK, Logs, ItemListReply, Arrives, Fail, ItemListMethods, Errors, Final
  <1>2. ItemsUsable'
    BY <1>0, <1>b, LoadingFacts, AcceptedIsUsable, MetadataTypes
       DEF ItemsUsable, Usable, ItemListReply, Arrives, Fail, ItemListMethods
  <1>3. CompleteWhenFinished'
    BY DEF CompleteWhenFinished, ItemListReply, Arrives, ItemListMethods
  <1>4. EndsWithOneSignal'
    BY <1>0, <1>b, LoadingFacts
       DEF EndsWithOneSignal, ItemListReply, Arrives, Fail, ItemListMethods
  <1>5. ErrorIsSet'
    BY <1>0, <1>b, LoadingFacts
       DEF ErrorIsSet, ItemListReply, Arrives, Fail, ItemListMethods
  <1>6. ProgressInv'
    BY <1>0, <1>b, LoadingFacts
       DEF TypeOK, ProgressInv, ItemListReply, Arrives, Fail, ItemListMethods, Final
  <1> QED BY <1>1, <1>2, <1>3, <1>4, <1>5, <1>6 DEF IInv

\* A page of list(): only a job that is Loading waits for one.
LEMMA PageReplyKeeps ==
    ASSUME IInv, NEW mds \in Pages, PageReply(mds)
    PROVE  IInv'
  <1>0. status = "loading"
    BY DEF IInv, TypeOK, ProgressInv, PageReply, Final
  <1>a. \/ status' \in Final /\ log' \in {Append(log, status'), log \o <<"items", status'>>}
        \/ status' = "loading" /\ log' = Append(log, "items")
    BY <1>0 DEF PageReply, Fail, Final
  <1>b. /\ log' \in Logs
        /\ EndsAtMostWith(log', status')
        /\ status' = "loading" => OnlyItems(log')
    BY <1>0, <1>a, StepLog, LoadingFacts
  <1>1. TypeOK'
    BY <1>0, <1>b, LoadingFacts, MetadataTypes
       DEF TypeOK, Logs, PageReply, Fail, Errors, Final
  <1>2. ItemsUsable'
    BY <1>0, <1>b, LoadingFacts, AcceptedIsUsable, MetadataTypes
       DEF ItemsUsable, Usable, PageReply, Fail
  <1>3. CompleteWhenFinished'
    BY <1>0, <1>b, LoadingFacts
       DEF TypeOK, CompleteWhenFinished, ProgressInv, PageReply, Fail
  <1>4. EndsWithOneSignal'
    BY <1>0, <1>b, LoadingFacts DEF EndsWithOneSignal, PageReply, Fail
  <1>5. ErrorIsSet'
    BY <1>0, <1>b, LoadingFacts DEF ErrorIsSet, PageReply, Fail
  <1>6. ProgressInv'
    BY <1>0, <1>b, LoadingFacts DEF TypeOK, ProgressInv, PageReply, Fail, Final
  <1> QED BY <1>1, <1>2, <1>3, <1>4, <1>5, <1>6 DEF IInv

\* One of the replies to parents(), perhaps after another one has failed.
LEMMA MultiReplyKeeps ==
    ASSUME IInv, NEW md \in Metadata, MultiReply(md)
    PROVE  IInv'
  <1>1. CASE status # "loading"
    BY <1>1
       DEF IInv, TypeOK, ItemsUsable, CompleteWhenFinished, EndsWithOneSignal, ErrorIsSet,
           ProgressInv, MultiReply, Arrives, EndsAtMostWith, OnlyItems, Final
  <1>2. CASE status = "loading"
    <2>0. method = "parents" /\ remaining = open /\ count + remaining = total /\ open > 0
      BY <1>2, LoadingFacts DEF MultiReply, Arrives, ProgressInv
    <2>a. \/ status' \in Final /\ log' \in {Append(log, status'), log \o <<"items", status'>>}
          \/ status' = "loading" /\ log' = Append(log, "items")
      BY <1>2 DEF MultiReply, Arrives, Fail, Delivered, Final
    <2>b. /\ log' \in Logs
          /\ EndsAtMostWith(log', status')
          /\ status' = "loading" => OnlyItems(log')
      BY <1>2, <2>a, StepLog, LoadingFacts
    <2>1. TypeOK'
      BY <1>2, <2>0, <2>b, LoadingFacts, MetadataTypes
         DEF TypeOK, Logs, MultiReply, Arrives, Fail, Delivered, Errors, Final
    <2>2. ItemsUsable'
      BY <1>2, <2>0, <2>b, LoadingFacts, AcceptedIsUsable, MetadataTypes
         DEF ItemsUsable, Usable, MultiReply, Arrives, Fail, Delivered
    <2>3. CompleteWhenFinished'
      BY <1>2, <2>0, <2>b, LoadingFacts
         DEF TypeOK, CompleteWhenFinished, ProgressInv, MultiReply, Arrives, Fail,
             Delivered
    <2>4. EndsWithOneSignal'
      BY <1>2, <2>0, <2>b, LoadingFacts
         DEF EndsWithOneSignal, MultiReply, Arrives, Fail, Delivered
    <2>5. ErrorIsSet'
      BY <1>2, <2>0, <2>b, LoadingFacts
         DEF ErrorIsSet, MultiReply, Arrives, Fail, Delivered
    <2>6. ProgressInv'
      <3>1. CASE status' = "error"
        BY <1>2, <2>0, <3>1, LoadingFacts DEF TypeOK, ProgressInv, MultiReply, Arrives, Final
      <3>2. CASE status' = "finished" /\ remaining' = 0
        BY <1>2, <2>0, <3>2, LoadingFacts DEF TypeOK, ProgressInv, MultiReply, Arrives, Final
      <3>3. CASE status' = "loading" /\ remaining' # 0 /\ count' = count + 1
        BY <1>2, <2>0, <2>b, <3>3, LoadingFacts DEF TypeOK, ProgressInv, MultiReply, Arrives, Final
      <3> QED BY <1>2, <3>1, <3>2, <3>3 DEF MultiReply, Fail, Delivered
    <2> QED BY <2>1, <2>2, <2>3, <2>4, <2>5, <2>6 DEF IInv
  <1> QED BY <1>1, <1>2

\* The deferred signal of a job that was final from the start.
LEMMA EmitQueuedKeeps ==
    ASSUME IInv, EmitQueued
    PROVE  IInv'
  <1>0. TypeOK /\ status \in Final /\ queued \in Final
    BY DEF IInv, TypeOK, ProgressInv, EmitQueued, Final
  <1>a. log' \in Logs
    BY <1>0, LogFacts DEF EmitQueued
  <1>b. method # "accounts" => EndsAtMostWith(log', status)
    BY <1>0, LogFacts DEF IInv, EndsWithOneSignal, EmitQueued
  <1>1. TypeOK'
    BY <1>0, <1>a DEF TypeOK, Logs, EmitQueued
  <1>2. ItemsUsable' /\ CompleteWhenFinished' /\ ErrorIsSet'
    BY DEF IInv, ItemsUsable, CompleteWhenFinished, ErrorIsSet, EmitQueued
  <1>3. EndsWithOneSignal'
    BY <1>b DEF EndsWithOneSignal, EmitQueued
  <1>4. ProgressInv'
    BY <1>0 DEF IInv, ProgressInv, EmitQueued, Final
  <1> QED BY <1>1, <1>2, <1>3, <1>4 DEF IInv

\* Jobs of the class AccountsJobImpl.
LEMMA AccountsKeeps ==
    ASSUME IInv, method = "accounts",
           UNCHANGED <<runtime, method, source, remaining, total, count, items, gone>>,
           open' \in 0 .. open, error' \in Errors \cup {"none"}, queued' \in Final \cup {"none"},
           log' \in Logs, status # "none", status' \in Final,
           (status' = "error") <=> (error' # "none"),
           open' > 0 => runtime = "destroyed"
    PROVE  IInv'
  <1>1. TypeOK'
    BY DEF IInv, TypeOK, Logs, Errors, Final
  <1>2. ItemsUsable' /\ CompleteWhenFinished' /\ EndsWithOneSignal' /\ ErrorIsSet'
    BY DEF IInv, ItemsUsable, CompleteWhenFinished, EndsWithOneSignal, ErrorIsSet
  <1>3. ProgressInv'
    BY DEF IInv, TypeOK, ProgressInv, Final
  <1> QED BY <1>1, <1>2, <1>3 DEF IInv

\* The reply to accounts(), which may find the runtime gone.
LEMMA AccountsReplyKeeps ==
    ASSUME IInv, AccountsReply
    PROVE  IInv'
  <1>0. TypeOK /\ ProgressInv /\ ErrorIsSet
    BY DEF IInv
  <1>1. open \in Nat /\ open = 1 /\ open' = 0 /\ method = "accounts"
    BY <1>0 DEF TypeOK, ProgressInv, AccountsReply, Arrives
  <1>2. log' \in Logs /\ status' \in Final /\ status # "none"
    BY <1>0, <1>1, LogFacts DEF TypeOK, Logs, ProgressInv, AccountsReply, RuntimeGone, Final
  <1>3. (status' = "error") <=> (error' # "none")
    BY <1>0, <1>1 DEF TypeOK, ProgressInv, ErrorIsSet, AccountsReply, RuntimeGone, Final
  <1>4. error' \in Errors \cup {"none"} /\ queued' \in Final \cup {"none"}
    BY <1>0 DEF TypeOK, AccountsReply, RuntimeGone, Errors, Final
  <1>5. UNCHANGED <<runtime, method, source, remaining, total, count, items, gone>>
    BY DEF AccountsReply
  <1> QED BY <1>1, <1>2, <1>3, <1>4, <1>5, AccountsKeeps

\* accounts() after a shutdown makes any job fail.
LEMMA AskAccountsKeeps ==
    ASSUME IInv, AskAccounts
    PROVE  IInv'
  <1>0. TypeOK /\ ProgressInv
    BY DEF IInv
  <1>1. open' \in 0 .. open /\ log' \in Logs /\ runtime = "destroyed" /\ status # "none"
    BY <1>0 DEF TypeOK, Logs, AskAccounts, RuntimeGone
  <1>2. status' \in Final /\ error' \in Errors /\ error' # "none" /\ status' = "error"
    BY DEF AskAccounts, RuntimeGone, Errors, Final
  <1>3. queued' \in Final \cup {"none"}
    BY <1>0 DEF TypeOK, AskAccounts, RuntimeGone, Final
  <1>4. /\ method = "accounts"
        /\ UNCHANGED <<runtime, method, source, remaining, total, count, items, gone>>
    BY DEF AskAccounts
  <1> QED BY <1>1, <1>2, <1>3, <1>4, AccountsKeeps

\* A call has failed.
LEMMA ErrorReplyKeeps ==
    ASSUME IInv, NEW failure \in Failures, ErrorReply(failure)
    PROVE  IInv'
  <1>0. TypeOK /\ ProgressInv /\ open > 0 /\ open' = open - 1 /\ status # "none"
    BY DEF IInv, ProgressInv, ErrorReply, Arrives
  <1>1. CASE method = "parents" /\ status # "loading"
    BY <1>1
       DEF IInv, TypeOK, ItemsUsable, CompleteWhenFinished, EndsWithOneSignal, ErrorIsSet,
           ProgressInv, ErrorReply, AccountsError, ItemError, VoidError, ItemListError, PageError,
           MultiError, ItemMethods, ItemListMethods, Arrives, EndsAtMostWith, OnlyItems, Final
  <1>2. CASE ~(method = "parents" /\ status # "loading")
    <2>0. /\ status' = "error" /\ log' = Append(log, "error")
          /\ error' \in Errors /\ error' # "none"
          /\ UNCHANGED <<runtime, method, source, remaining, total, count, items, queued, gone>>
      BY <1>2 DEF ErrorReply, AccountsError, ItemError, VoidError, ItemListError, PageError,
                  MultiError, Fail, UnmarshalError, Errors
    <2>1. status' \in Final /\ log' \in Logs
      BY <1>0, <2>0, LogFacts DEF Final
    <2>2. CASE method = "accounts"
      <3>1. open' \in 0 .. open /\ ~(open' > 0) /\ queued' \in Final \cup {"none"}
        BY <1>0, <2>0, <2>2 DEF TypeOK, ProgressInv
      <3> QED BY <1>0, <2>0, <2>1, <2>2, <3>1, AccountsKeeps
    <2>3. CASE method # "accounts"
      <3>0. status = "loading"
        BY <1>0, <1>2, <2>3 DEF TypeOK, ProgressInv, Final
      <3>1. EndsAtMostWith(log', status')
        BY <2>0, <2>1, <3>0, StepLog, LoadingFacts
      <3>2. TypeOK'
        BY <1>0, <2>0, <2>1 DEF TypeOK, ProgressInv, Logs
      <3>3. ItemsUsable' /\ CompleteWhenFinished' /\ ErrorIsSet'
        BY <2>0 DEF IInv, ItemsUsable, CompleteWhenFinished, ErrorIsSet
      <3>4. EndsWithOneSignal'
        BY <2>0, <3>0, <3>1, LoadingFacts DEF EndsWithOneSignal
      <3>5. ProgressInv'
        BY <1>0, <2>0, <2>3, <3>0, LoadingFacts DEF TypeOK, ProgressInv, Final
      <3> QED BY <3>2, <3>3, <3>4, <3>5 DEF IInv
    <2> QED BY <2>2, <2>3
  <1> QED BY <1>1, <1>2

\* A new job: refused, empty or under way.
LEMMA MakeKeeps ==
    ASSUME IInv, NEW m \in Methods, NEW s \in Metadata, NEW arg \in Arguments,
           Make(m, s, arg)
    PROVE  IInv'
  <1>0. /\ TypeOK /\ status = "none" /\ log = << >> /\ items = {} /\ count = 0 /\ open = 0
        /\ total = 0 /\ queued = "none" /\ error = "none" /\ s \in ItemMetadata
        /\ method' = m /\ source' = s
        /\ UNCHANGED <<runtime, count, items, log, gone>>
    BY MetadataTypes DEF IInv, ProgressInv, ErrorIsSet, Make
  <1>a. m # "none"
    BY DEF Methods, ItemListMethods, ItemMethods
  <1>1. OnlyItems(log) /\ \A st : EndsAtMostWith(log, st)
    BY <1>0, LogFacts
  <1>2. ASSUME NEW st \in Final, NEW e \in Errors \cup {"none"}, MakeFinal(st, e),
               (st = "error") <=> (e # "none")
        PROVE  IInv'
    <2>1. TypeOK'
      BY <1>0, <1>2 DEF TypeOK, MakeFinal
    <2>2. ItemsUsable' /\ CompleteWhenFinished' /\ ErrorIsSet'
      BY <1>0, <1>2 DEF ItemsUsable, CompleteWhenFinished, ErrorIsSet, MakeFinal
    <2>3. EndsWithOneSignal'
      BY <1>0, <1>1, <1>2 DEF EndsWithOneSignal, MakeFinal
    <2>4. ProgressInv'
      BY <1>0, <1>2, <1>a DEF ProgressInv, MakeFinal, Final
    <2> QED BY <2>1, <2>2, <2>3, <2>4 DEF IInv
  <1>3. ASSUME NEW calls \in Nat, NEW replies \in Nat, MakeLoading(calls, replies),
               m # "parents" => calls = 1 /\ replies # 0,
               m = "parents" => replies = calls /\ (calls > 0 \/ ~HasParents(s))
        PROVE  IInv'
    <2>1. TypeOK'
      BY <1>0, <1>3 DEF TypeOK, MakeLoading
    <2>2. ItemsUsable' /\ CompleteWhenFinished' /\ ErrorIsSet'
      BY <1>0, <1>3 DEF ItemsUsable, CompleteWhenFinished, ErrorIsSet, MakeLoading
    <2>3. EndsWithOneSignal'
      BY <1>0, <1>1, <1>3 DEF EndsWithOneSignal, MakeLoading
    <2>4. ProgressInv'
      BY <1>0, <1>1, <1>3, <1>a DEF ProgressInv, MakeLoading, HasParents, Final
    <2> QED BY <2>1, <2>2, <2>3, <2>4 DEF IInv
  <1> DEFINE e == Refusal(m, s, arg)
  <1>4. e \in Errors \cup {"none"}
    BY DEF Refusal, AccountRefusal, Unusable, CopyMoveError, Errors
  <1>5. s.parents \in Nat /\ (s.type # "root" => s.parents > 0 \/ ~HasParents(s))
    BY <1>0 DEF HasParents, ItemMetadata
  <1>6. CASE e # "none" /\ MakeFinal("error", e)
    BY <1>2, <1>4, <1>6 DEF Final
  <1>7. CASE MakeFinal("finished", "none")
    BY <1>2, <1>7 DEF Final
  <1>8. CASE m = "parents" /\ s.type # "root" /\ MakeLoading(s.parents, s.parents)
    BY <1>3, <1>5, <1>8
  <1>9. CASE m = "list" /\ \E n \in 1 .. MaxPages : MakeLoading(1, n)
    BY <1>3, <1>9, PagesAssumption
  <1>10. CASE m \notin {"parents", "list"} /\ MakeLoading(1, 1)
    BY <1>3, <1>10
  <1> QED BY <1>6, <1>7, <1>8, <1>9, <1>10
          DEF Make, MakeSingle, MakeAccountsJob, MakeItemJob, MakeVoidJob, MakeItemListJob,
              MakeMultiItemListJob, MakeMultiItemJob, ItemMethods, ItemListMethods

-----------------------------------------------------------------------------
\* A reply, of whatever kind.
LEMMA ReplyKeeps == ASSUME IInv, Reply PROVE IInv'
  <1>1. ASSUME NEW failure \in Failures, AbortOnError(failure) PROVE IInv'
    BY <1>1, SameJob DEF AbortOnError
  <1> QED
    BY <1>1, ItemReplyKeeps, MultiReplyKeeps, ItemListReplyKeeps, PageReplyKeeps,
       VoidReplyKeeps, AccountsReplyKeeps, ErrorReplyKeeps
       DEF Reply

\* The invariant is inductive: whatever the client, the provider and the shutdown
\* of the runtime do to a job of the v2 client, and in whatever order.
THEOREM Invariance == Spec => []IInv
  <1>1. Init => IInv
    BY InitInv
  <1>2. ASSUME IInv, [Next]_vars PROVE IInv'
    <2>1. CASE \E m \in Methods, s \in Metadata, arg \in Arguments : Make(m, s, arg)
      BY <1>2, <2>1, MakeKeeps
    <2>0. CASE \E s \in Metadata : AssertParents(s)
      BY <1>2, <2>0, SameJob DEF AssertParents
    <2>2. CASE Reply
      BY <1>2, <2>2, ReplyKeeps
    <2>3. CASE EmitQueued
      BY <1>2, <2>3, EmitQueuedKeeps
    <2>4. CASE AskAccounts
      BY <1>2, <2>4, AskAccountsKeeps
    <2>5. CASE Destroy
      BY <1>2, <2>5, SameJob DEF Destroy
    <2>6. CASE Shutdown
      BY <1>2, <2>6, SameJob DEF Shutdown, IInv, TypeOK
    <2>7. CASE UNCHANGED vars
      BY <1>2, <2>7, SameJob DEF vars, IInv, TypeOK
    <2> QED BY <1>2, <2>0, <2>1, <2>2, <2>3, <2>4, <2>5, <2>6, <2>7 DEF Next
  <1> QED BY <1>1, <1>2, PTL DEF Spec

\* Items that jobs hand out do not trip the assertions of sizeInBytes() and parents(),
\* whatever a provider sends, a type included that operator>> refuses.
THEOREM HandedOutItems == Spec => []ItemsUsable
  <1>1. IInv => ItemsUsable
    BY DEF IInv
  <1> QED BY <1>1, Invariance, PTL

\* list() and parents() are Finished only after the last of their replies.
THEOREM Complete == Spec => []CompleteWhenFinished
  <1>1. IInv => CompleteWhenFinished
    BY DEF IInv
  <1> QED BY <1>1, Invariance, PTL

\* The last signal is the only final one and says what status() says.
THEOREM OneEnd == Spec => []EndsWithOneSignal
  <1>1. IInv => EndsWithOneSignal
    BY DEF IInv
  <1> QED BY <1>1, Invariance, PTL

\* After a shutdown a job hands out nothing and does not become Finished.
THEOREM StopsAtShutdown == Spec => ShutdownStops
  <1> DEFINE Stops == runtime = "destroyed" => /\ items' = items /\ count' = count
                                               /\ status' = "finished" => status = "finished"
  <1>1. ASSUME IInv, [Next]_vars PROVE [Stops]_vars
    <2> SUFFICES ASSUME runtime = "destroyed", ~UNCHANGED vars
                 PROVE  /\ items' = items /\ count' = count
                        /\ status' = "finished" => status = "finished"
      OBVIOUS
    <2>1. ASSUME NEW m \in Methods, NEW s \in Metadata, NEW arg \in Arguments, Make(m, s, arg)
          PROVE  items' = items /\ count' = count /\ status' # "finished"
      <3>1. Refusal(m, s, arg) # "none"
        BY DEF Refusal, AccountRefusal, Unusable
      <3> QED BY <2>1, <3>1
              DEF Make, MakeFinal, MakeSingle, MakeAccountsJob, MakeItemJob, MakeVoidJob,
                  MakeItemListJob, MakeMultiItemListJob, MakeMultiItemJob
    <2>2. CASE Reply
      BY <2>2 DEF Reply, ItemReply, MultiReply, ItemListReply, PageReply, VoidReply, AccountsReply,
                  ErrorReply, AccountsError, ItemError, VoidError, ItemListError, PageError,
                  MultiError, AbortOnError, Fail, RuntimeGone
    <2>3. CASE EmitQueued \/ AskAccounts \/ Destroy \/ Shutdown \/ \E s \in Metadata : AssertParents(s)
      BY <2>3 DEF AssertParents, EmitQueued, AskAccounts, RuntimeGone, Destroy, Shutdown
    <2> QED BY <1>1, <2>1, <2>2, <2>3 DEF Next
  <1> QED BY <1>1, Invariance, PTL DEF Spec, ShutdownStops

-----------------------------------------------------------------------------
\* Exactly one of <, == and > holds between the details of two accounts.
LEMMA DetailsTrichotomy ==
    ASSUME NEW a \in AccountDetails, NEW b \in AccountDetails
    PROVE  /\ DetailsLess(a, b) \/ DetailsEqual(a, b) \/ DetailsLess(b, a)
           /\ ~(DetailsLess(a, b) /\ DetailsLess(b, a))
           /\ ~(DetailsLess(a, b) /\ DetailsEqual(a, b))
           /\ DetailsEqual(a, b) <=> DetailsEqual(b, a)
  BY DEF AccountDetails, DetailsLess, DetailsEqual

\* < of details is transitive, and == does not disturb it.
LEMMA DetailsTransitive ==
    ASSUME NEW a \in AccountDetails, NEW b \in AccountDetails, NEW c \in AccountDetails
    PROVE  /\ DetailsLess(a, b) /\ DetailsLess(b, c) => DetailsLess(a, c)
           /\ DetailsEqual(a, b) /\ DetailsLess(b, c) => DetailsLess(a, c)
           /\ DetailsLess(a, b) /\ DetailsEqual(b, c) => DetailsLess(a, c)
           /\ DetailsEqual(a, b) /\ DetailsEqual(b, c) => DetailsEqual(a, c)
  BY DEF AccountDetails, DetailsLess, DetailsEqual

\* AccountImpl's < is a strict total order up to ==, with the invalid accounts as
\* one class below all others: what std::map and std::sort ask for.
THEOREM AccountOrder ==
    ASSUME NEW a \in Account, NEW b \in Account, NEW c \in Account
    PROVE  /\ AccountLess(a, b) \/ AccountEqual(a, b) \/ AccountLess(b, a)
           /\ ~(AccountLess(a, b) /\ AccountLess(b, a))
           /\ ~(AccountLess(a, b) /\ AccountEqual(a, b))
           /\ AccountEqual(a, b) <=> AccountEqual(b, a)
           /\ AccountLess(a, b) /\ AccountLess(b, c) => AccountLess(a, c)
           /\ AccountEqual(a, b) /\ AccountLess(b, c) => AccountLess(a, c)
           /\ AccountLess(a, b) /\ AccountEqual(b, c) => AccountLess(a, c)
           /\ AccountEqual(a, b) /\ AccountEqual(b, c) => AccountEqual(a, c)
  <1>1. a.details \in AccountDetails /\ b.details \in AccountDetails /\ c.details \in AccountDetails
    BY DEF Account
  <1>2. a.valid \in BOOLEAN /\ b.valid \in BOOLEAN /\ c.valid \in BOOLEAN
    BY DEF Account
  <1> QED BY <1>1, <1>2, DetailsTrichotomy, DetailsTransitive DEF AccountLess, AccountEqual

\* The same for ItemImpl's <, which asks the account's > as well as its <.
THEOREM ItemOrder ==
    ASSUME NEW a \in Item, NEW b \in Item, NEW c \in Item
    PROVE  /\ ItemLess(a, b) \/ ItemEqual(a, b) \/ ItemLess(b, a)
           /\ ~(ItemLess(a, b) /\ ItemLess(b, a))
           /\ ~(ItemLess(a, b) /\ ItemEqual(a, b))
           /\ ItemLess(a, b) /\ ItemLess(b, c) => ItemLess(a, c)
           /\ ItemEqual(a, b) /\ ItemLess(b, c) => ItemLess(a, c)
           /\ ItemLess(a, b) /\ ItemEqual(b, c) => ItemLess(a, c)
  <1>1. a.account \in Account /\ b.account \in Account /\ c.account \in Account
    BY DEF Item
  <1>2. a.item_id \in Int /\ b.item_id \in Int /\ c.item_id \in Int
    BY DEF Item
  <1> DEFINE L(x, y) == AccountLess(x, y)
             E(x, y) == AccountEqual(x, y)
  <1>3. ASSUME NEW x \in Item, NEW y \in Item
        PROVE  /\ ItemEqual(x, y) <=> (x.valid /\ y.valid /\ E(x.account, y.account) /\ x.item_id = y.item_id)
                                        \/ (~x.valid /\ ~y.valid)
               /\ ItemLess(x, y) <=>
                    \/ ~x.valid /\ y.valid
                    \/ x.valid /\ y.valid /\ L(x.account, y.account)
                    \/ x.valid /\ y.valid /\ E(x.account, y.account) /\ x.item_id < y.item_id
    <2>1. x.account \in Account /\ y.account \in Account
      BY DEF Item
    <2> QED BY <2>1, AccountOrder
            DEF ItemEqual, ItemLess, AccountGreater, AccountLessEqual
  <1>4. ASSUME NEW x \in Account, NEW y \in Account, NEW z \in Account
        PROVE  /\ L(x, y) \/ E(x, y) \/ L(y, x)
               /\ ~(L(x, y) /\ L(y, x)) /\ ~(L(x, y) /\ E(x, y)) /\ (E(x, y) <=> E(y, x))
               /\ L(x, y) /\ L(y, z) => L(x, z)
               /\ E(x, y) /\ L(y, z) => L(x, z)
               /\ L(x, y) /\ E(y, z) => L(x, z)
               /\ E(x, y) /\ E(y, z) => E(x, z)
    BY AccountOrder
  <1> HIDE DEF L, E
  <1>5. /\ ItemLess(a, b) \/ ItemEqual(a, b) \/ ItemLess(b, a)
        /\ ~(ItemLess(a, b) /\ ItemLess(b, a))
        /\ ~(ItemLess(a, b) /\ ItemEqual(a, b))
    BY <1>1, <1>2, <1>3, <1>4
  <1>6. /\ ItemLess(a, b) /\ ItemLess(b, c) => ItemLess(a, c)
        /\ ItemEqual(a, b) /\ ItemLess(b, c) => ItemLess(a, c)
        /\ ItemLess(a, b) /\ ItemEqual(b, c) => ItemLess(a, c)
    BY <1>1, <1>2, <1>3, <1>4
  <1> QED BY <1>5, <1>6

\* > and >=, which the code defines by negation, are < and <= with the operands
\* exchanged, for accounts and for items.
THEOREM Converses ==
    ASSUME NEW a \in Item, NEW b \in Item
    PROVE  /\ AccountGreater(a.account, b.account) <=> AccountLess(b.account, a.account)
           /\ AccountGreaterEqual(a.account, b.account) <=> AccountLessEqual(b.account, a.account)
           /\ ItemGreater(a, b) <=> ItemLess(b, a)
           /\ ItemGreaterEqual(a, b) <=> ItemLessEqual(b, a)
  <1>1. a.account \in Account /\ b.account \in Account
    BY DEF Item
  <1>2. ItemEqual(a, b) <=> ItemEqual(b, a)
    BY <1>1, AccountOrder DEF ItemEqual
  <1> QED BY <1>1, <1>2, AccountOrder, ItemOrder
          DEF AccountGreater, AccountGreaterEqual, AccountLessEqual,
              ItemGreater, ItemGreaterEqual, ItemLessEqual

\* Equal accounts and equal items have equal hashes (std::hash, qHash), whatever
\* the hash functions are.
THEOREM EqualHashes ==
    ASSUME NEW a \in Item, NEW b \in Item
    PROVE  /\ AccountEqual(a.account, b.account) => AccountHash(a.account) = AccountHash(b.account)
           /\ ItemEqual(a, b) => ItemHash(a) = ItemHash(b)
  <1>1. AccountEqual(a.account, b.account) => AccountHash(a.account) = AccountHash(b.account)
    BY DEF AccountEqual, AccountHash, DetailsEqual
  <1> QED BY <1>1 DEF ItemEqual, ItemHash
=============================================================================
