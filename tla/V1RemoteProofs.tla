--------------------------- MODULE V1RemoteProofs ---------------------------
(***************************************************************************)
(* Proofs about V1Remote and Marshalling, for any number of handles and    *)
(* calls, and for whatever metadata providers send.                        *)
(***************************************************************************)
EXTENDS V1Remote, TLAPS

HandleFields == {"st", "type", "deleted", "root", "valid"}
CallFields == {"op", "owner", "pc", "thrown", "result"}

\* What becomes of an exception between the provider that throws it and the client.
Arrives(e) == IF e \in ProviderExceptions \ {"Unauthorized", "Unknown"} THEN e ELSE "LocalComms"

HandleOK(x) ==
    /\ DOMAIN x = HandleFields
    /\ x.st = "live" /\ x.type # "root" => x.valid

\* A call to which the provider threw ends with what arrives of the exception.
CallOK(r) ==
    /\ DOMAIN r = CallFields
    /\ r.thrown # "none" => r.result = Arrives(r.thrown)

TransferStates == [up : {"none", "uploading", "finalized", "gone"}, down : {"none", "downloading", "gone"}]

RemoteInv ==
    /\ DOMAIN handle = Handles /\ \A h \in Handles : HandleOK(handle[h])
    /\ DOMAIN call = Calls /\ \A c \in Calls : CallOK(call[c])
    /\ transfer \in TransferStates
    /\ OrphansExplained

-----------------------------------------------------------------------------
\* An exception of the library arrives as what it was, except Unauthorized and Unknown,
\* which the client's table does not have or maps to LocalComms; any other exception
\* arrives as LocalComms.
THEOREM ExceptionsArrive ==
    ASSUME NEW e \in ProviderExceptions \cup OtherExceptions
    PROVE  Cloned(UnmarshalException(MarshalException(ConvertExceptionPtr(e)))) = Arrives(e)
  <1> DEFINE thrown == ConvertExceptionPtr(e)
             name == IF thrown \in ProviderExceptions THEN thrown ELSE "Unknown"
  <1>1. MarshalException(thrown).name = name
    BY DEF MarshalException
  <1>2. /\ thrown \in ProviderExceptions \cup {"other"}
        /\ e \in ProviderExceptions => thrown = e
        /\ e \notin ProviderExceptions => thrown = "other"
    BY DEF ConvertExceptionPtr
  <1> HIDE DEF thrown
  <1>3. UnmarshalException(MarshalException(thrown)) = Arrives(thrown)
    BY <1>1, <1>2 DEF UnmarshalException, Factories, Arrives, ProviderExceptions
  <1>4. Arrives(thrown) = Arrives(e)
    BY <1>2 DEF Arrives, ProviderExceptions
  <1>5. Arrives(thrown) \in ClientExceptions
    BY <1>2 DEF Arrives, ClientExceptions, ProviderExceptions
  <1>6. Cloned(UnmarshalException(MarshalException(thrown))) = Arrives(e)
    BY <1>3, <1>4, <1>5 DEF Cloned
  <1> QED
    BY <1>6 DEF thrown

\* The errors of the bus arrive as LocalComms.
LEMMA BusErrorsArrive ==
    ASSUME NEW e \in BusErrors
    PROVE  Cloned(UnmarshalException(BusError(e))) = Arrives(e)
  <1>1. BusError(e).name = e /\ e \notin ProviderExceptions
    BY DEF BusError, BusErrors, ProviderExceptions
  <1> QED
    BY <1>1 DEF UnmarshalException, Factories, Arrives, Cloned, ClientExceptions

-----------------------------------------------------------------------------
\* A future that ends: in one way or another the call is over and is no orphan.
LEMMA DoneOK ==
    ASSUME NEW thrown, NEW result, thrown # "none" => result = Arrives(thrown)
    PROVE  CallOK(Done(thrown, result)) /\ Done(thrown, result).pc = "done"
  BY DEF Done, NoCall, CallOK, CallFields

\* One call takes a step, and at most one handle is new.
LEMMA OneCall ==
    ASSUME RemoteInv, NEW c \in Calls, NEW r, CallOK(r), r.pc = "orphan" => r.op = "list",
           call' = [call EXCEPT ![c] = r],
           DOMAIN handle' = Handles, \A h \in Handles : HandleOK(handle'[h]),
           \A h \in Handles : handle[h].st = "dropped" => handle'[h].st = "dropped",
           transfer' \in TransferStates,
           transfer.up = "gone" => transfer'.up = "gone", transfer.down = "gone" => transfer'.down = "gone"
    PROVE  RemoteInv'
  <1>1. DOMAIN call' = Calls /\ call'[c] = r /\ \A d \in Calls : d # c => call'[d] = call[d]
    BY DEF RemoteInv
  <1>2. \A d \in Calls : CallOK(call'[d])
    BY <1>1 DEF RemoteInv
  <1>3. ASSUME NEW d \in Calls, call'[d].pc = "orphan"
        PROVE  \/ call'[d].op = "list"
               \/ call'[d].owner \in Handles /\ handle'[call'[d].owner].st = "dropped"
               \/ call'[d].owner \in {"up", "down"} /\ transfer'[call'[d].owner] = "gone"
    <2>1. CASE d = c
      BY <1>1, <1>3, <2>1
    <2>2. CASE d # c
      <3>1. call'[d] = call[d]
        BY <1>1, <2>2
      <3>2. \/ call[d].op = "list"
            \/ call[d].owner \in Handles /\ handle[call[d].owner].st = "dropped"
            \/ call[d].owner = "up" /\ transfer.up = "gone"
            \/ call[d].owner = "down" /\ transfer.down = "gone"
        BY <1>3, <3>1 DEF RemoteInv, OrphansExplained, Explained
      <3> QED
        BY <3>1, <3>2
    <2> QED
      BY <2>1, <2>2
  <1>4. OrphansExplained'
    BY <1>3 DEF OrphansExplained, Explained
  <1> QED
    BY <1>1, <1>2, <1>4 DEF RemoteInv

\* Only the calls move.
LEMMA CallOnly ==
    ASSUME RemoteInv, NEW c \in Calls, NEW r, CallOK(r), r.pc = "orphan" => r.op = "list",
           call' = [call EXCEPT ![c] = r], UNCHANGED handle, UNCHANGED transfer
    PROVE  RemoteInv'
  BY OneCall DEF RemoteInv

LEMMA EndKeeps ==
    ASSUME RemoteInv, NEW c \in Calls, NEW result, End(c, result), UNCHANGED handle, UNCHANGED transfer
    PROVE  RemoteInv'
  <1> DEFINE r == Done("none", result)
  <1>1. CallOK(r) /\ r.pc = "done"
    BY DoneOK
  <1>2. call' = [call EXCEPT ![c] = r]
    BY DEF End
  <1> HIDE DEF r
  <1> QED
    BY <1>1, <1>2, CallOnly

\* What Send makes of a call.
LEMMA SendMakes ==
    ASSUME NEW c \in Calls, NEW op, NEW owner, NEW problem, Send(c, op, owner, problem)
    PROVE  \E r : CallOK(r) /\ r.pc # "orphan" /\ call' = [call EXCEPT ![c] = r]
  <1> DEFINE sent == [NoCall EXCEPT !.op = op, !.owner = owner, !.pc = "sent"]
             done == Done("none", problem)
  <1>1. CallOK(sent) /\ sent.pc = "sent"
    BY DEF NoCall, CallOK, CallFields
  <1>2. CallOK(done) /\ done.pc = "done"
    BY DoneOK
  <1>3. call' = [call EXCEPT ![c] = sent] \/ call' = [call EXCEPT ![c] = done]
    BY DEF Send
  <1> HIDE DEF sent, done
  <1> QED
    BY <1>1, <1>2, <1>3

LEMMA SendKeeps ==
    ASSUME RemoteInv, NEW c \in Calls, \E op, owner, problem : Send(c, op, owner, problem),
           UNCHANGED handle, UNCHANGED transfer
    PROVE  RemoteInv'
  <1>1. PICK r : CallOK(r) /\ r.pc # "orphan" /\ call' = [call EXCEPT ![c] = r]
    BY SendMakes
  <1> QED
    BY <1>1, CallOnly

\* The methods: each sends a call, or ends its future at once.
LEMMA MethodsKeep ==
    ASSUME RemoteInv, NEW c \in Calls,
           \/ Copy(c) \/ Move(c) \/ DeleteItem(c) \/ DeleteRoot(c) \/ List(c) \/ Lookup(c)
           \/ CreateFolder(c) \/ CreateFile(c) \/ CreateUploader(c) \/ CreateDownloader(c)
           \/ Get(c) \/ Accessor(c) \/ Parents(c) \/ RootAccessor(c) \/ Roots(c) \/ FinishUpload(c)
           \/ CancelUpload(c) \/ FinishDownload(c) \/ CancelDownload(c)
    PROVE  RemoteInv'
<1>1. ASSUME NEW op, NEW types, NEW problems, Method(c, op, types, problems) PROVE RemoteInv'
  <2>1. (\E o, owner, problem : Send(c, o, owner, problem)) /\ UNCHANGED <<handle, transfer>>
    BY <1>1 DEF Method
  <2> QED
    BY <2>1, SendKeeps
<1>2. ASSUME NEW op, WithParent(c, op) PROVE RemoteInv'
  <2>1. (\E o, owner, problem : Send(c, o, owner, problem)) /\ UNCHANGED <<handle, transfer>>
    BY <1>2 DEF WithParent
  <2> QED
    BY <2>1, SendKeeps
<1>3. ASSUME NEW types, NEW outcome, Answer(c, types, outcome) PROVE RemoteInv'
  BY <1>3, EndKeeps DEF Answer
<1>4. ASSUME DeleteRoot(c) \/ Roots(c) \/ FinishDownload(c) PROVE RemoteInv'
  <2>1. (\E o, owner, problem : Send(c, o, owner, problem)) /\ UNCHANGED <<handle, transfer>>
    BY <1>4 DEF DeleteRoot, Roots, FinishDownload
  <2> QED
    BY <2>1, SendKeeps
<1>5. ASSUME NEW op, EndUpload(c, op) PROVE RemoteInv'
  <2>1. PICK r : CallOK(r) /\ r.pc # "orphan" /\ call' = [call EXCEPT ![c] = r]
    BY <1>5, SendMakes DEF EndUpload
  <2>2. UNCHANGED handle /\ transfer' = [transfer EXCEPT !.up = "finalized"] /\ transfer.up # "gone"
    BY <1>5 DEF EndUpload
  <2>3. transfer' \in TransferStates /\ transfer'.down = transfer.down
    BY <2>2 DEF RemoteInv, TransferStates
  <2> QED
    BY <2>1, <2>2, <2>3, OneCall DEF RemoteInv
<1>6. ASSUME CancelDownload(c) PROVE RemoteInv'
  <2>1. UNCHANGED <<handle, transfer>>
    BY <1>6 DEF CancelDownload
  <2>2. (\E o, owner, problem : Send(c, o, owner, problem)) \/ UNCHANGED call
    BY <1>6 DEF CancelDownload
  <2>3. CASE UNCHANGED call
    BY <2>1, <2>3 DEF RemoteInv, OrphansExplained, Explained
  <2> QED
    BY <2>1, <2>2, <2>3, SendKeeps
<1> QED
  BY <1>1, <1>2, <1>3, <1>4, <1>5, <1>6
  DEF Copy, Move, DeleteItem, List, Lookup, CreateFolder, CreateFile, CreateUploader, CreateDownloader,
      Get, Accessor, Parents, RootAccessor, FinishUpload, CancelUpload

-----------------------------------------------------------------------------
\* A handle for what was validated, or for a root.
LEMMA NewHandle ==
    ASSUME RemoteInv, NEW h \in Handles, handle[h].st = "free", NEW type, NEW root, NEW valid,
           type # "root" => valid,
           handle' = [handle EXCEPT ![h] =
               [NoHandle EXCEPT !.st = "live", !.type = type, !.root = root, !.valid = valid]]
    PROVE  /\ DOMAIN handle' = Handles /\ \A g \in Handles : HandleOK(handle'[g])
           /\ \A g \in Handles : handle[g].st = "dropped" => handle'[g].st = "dropped"
  <1> DEFINE x == [NoHandle EXCEPT !.st = "live", !.type = type, !.root = root, !.valid = valid]
  <1>1. DOMAIN x = HandleFields /\ x.type = type /\ x.valid = valid
    BY DEF NoHandle, HandleFields
  <1> HIDE DEF x
  <1>2. HandleOK(x)
    BY <1>1 DEF HandleOK
  <1>3. handle' = [handle EXCEPT ![h] = x]
    BY DEF x
  <1>4. DOMAIN handle' = Handles /\ \A g \in Handles : handle'[g] = IF g = h THEN x ELSE handle[g]
    BY <1>3 DEF RemoteInv
  <1> QED
    BY <1>2, <1>4 DEF RemoteInv

LEMMA MakeOK ==
    ASSUME RemoteInv, NEW md, NEW root, Make(md, root), Validate(md)
    PROVE  /\ DOMAIN handle' = Handles /\ \A g \in Handles : HandleOK(handle'[g])
           /\ \A g \in Handles : handle[g].st = "dropped" => handle'[g].st = "dropped"
  <1>1. CASE UNCHANGED handle
    BY <1>1 DEF RemoteInv
  <1>2. ASSUME NEW h \in Handles, handle[h].st = "free",
               handle' = [handle EXCEPT ![h] = [NoHandle EXCEPT !.st = "live", !.type = md.type,
                           !.root = IF md.type = "root" THEN h ELSE root, !.valid = Validate(md)]]
        PROVE  /\ DOMAIN handle' = Handles /\ \A g \in Handles : HandleOK(handle'[g])
               /\ \A g \in Handles : handle[g].st = "dropped" => handle'[g].st = "dropped"
    BY <1>2, NewHandle
  <1> QED
    BY <1>1, <1>2 DEF Make

\* A future ends well, with or without a new handle.
LEMMA EndWithHandle ==
    ASSUME RemoteInv, NEW c \in Calls, NEW result, End(c, result), UNCHANGED transfer,
           DOMAIN handle' = Handles, \A g \in Handles : HandleOK(handle'[g]),
           \A g \in Handles : handle[g].st = "dropped" => handle'[g].st = "dropped"
    PROVE  RemoteInv'
  <1> DEFINE r == Done("none", result)
  <1>1. CallOK(r) /\ r.pc = "done"
    BY DoneOK
  <1>2. call' = [call EXCEPT ![c] = r]
    BY DEF End
  <1>3. transfer' \in TransferStates /\ transfer' = transfer
    BY DEF RemoteInv
  <1> HIDE DEF r
  <1> QED
    BY <1>1, <1>2, <1>3, OneCall

LEMMA ReplyErrorKeeps == ASSUME RemoteInv, NEW c \in Calls, ReplyError(c) PROVE RemoteInv'
<1>1. UNCHANGED handle /\ UNCHANGED transfer
  BY DEF ReplyError
<1>2. ASSUME NEW thrown, NEW error, Reported(c, thrown, error),
             Cloned(UnmarshalException(error)) = Arrives(thrown)
      PROVE  RemoteInv'
  <2> DEFINE r == Done(thrown, Cloned(UnmarshalException(error)))
  <2>1. CallOK(r) /\ r.pc = "done"
    BY <1>2, DoneOK
  <2>2. call' = [call EXCEPT ![c] = r]
    BY <1>2 DEF Reported
  <2> HIDE DEF r
  <2> QED
    BY <1>1, <2>1, <2>2, CallOnly
<1>3. ASSUME NEW e \in ProviderExceptions \cup OtherExceptions,
             Reported(c, e, MarshalException(ConvertExceptionPtr(e)))
      PROVE  RemoteInv'
  BY <1>2, <1>3, ExceptionsArrive
<1>4. ASSUME NEW e \in BusErrors, Reported(c, e, BusError(e)) PROVE RemoteInv'
  BY <1>2, <1>4, BusErrorsArrive
<1> QED
  BY <1>3, <1>4 DEF ReplyError

\* One item: a handle is made only of metadata that were validated.
LEMMA ReplyItemKeeps == ASSUME RemoteInv, NEW c \in Calls, ReplyItem(c) PROVE RemoteInv'
<1>1. UNCHANGED transfer
  BY DEF ReplyItem
<1>2. PICK sent \in Replies, t \in Garbage :
          LET md == Unmarshal(sent, t)
              op == call[c].op
              root == IF op = "finish_upload" THEN keeps.up ELSE handle[call[c].owner].root
          IN  IF op # "finish_upload" /\ ~ GetRoot(call[c].owner)
              THEN End(c, "RuntimeDestroyed") /\ UNCHANGED <<client, handle>>
              ELSE CASE ~ (Validate(md) /\ Acceptable(op, md)) ->
                          End(c, "LocalComms") /\ UNCHANGED <<client, handle>>
                     [] Validate(md) /\ Acceptable(op, md) /\ md.type = "impossible" ->
                          client' = "crashed" /\ UNCHANGED <<call, handle>>
                     [] OTHER -> Make(md, root) /\ End(c, "ok") /\ UNCHANGED client
  BY DEF ReplyItem
<1> DEFINE md == Unmarshal(sent, t)
           root == IF call[c].op = "finish_upload" THEN keeps.up ELSE handle[call[c].owner].root
<1> HIDE DEF md, root
<1>3. \/ (End(c, "RuntimeDestroyed") \/ End(c, "LocalComms")) /\ UNCHANGED handle
      \/ UNCHANGED <<call, handle>>
      \/ Validate(md) /\ Make(md, root) /\ End(c, "ok")
  BY <1>2 DEF md, root
<1>4. CASE (End(c, "RuntimeDestroyed") \/ End(c, "LocalComms")) /\ UNCHANGED handle
  BY <1>1, <1>4, EndKeeps
<1>5. CASE UNCHANGED <<call, handle>>
  BY <1>1, <1>5 DEF RemoteInv, OrphansExplained, Explained
<1>6. CASE Validate(md) /\ Make(md, root) /\ End(c, "ok")
  BY <1>1, <1>6, MakeOK, EndWithHandle
<1> QED
  BY <1>3, <1>4, <1>5, <1>6

\* Items: none is made when one of the lot is not valid.
LEMMA ReplyItemsKeep == ASSUME RemoteInv, NEW c \in Calls, ReplyItems(c) PROVE RemoteInv'
<1>1. UNCHANGED transfer
  BY DEF ReplyItems
<1>2. PICK mds :
          \/ \E result : End(c, result) /\ UNCHANGED handle
          \/ UNCHANGED <<call, handle>>
          \/ /\ \A md \in mds : Validate(md)
             /\ UNCHANGED handle \/ \E md \in mds : Make(md, handle[call[c].owner].root)
             /\ End(c, "ok") \/ (call[c].op = "list" /\ call' = [call EXCEPT ![c].pc = "orphan"])
  <2>1. PICK lot \in Lots, t \in Garbage :
          LET mds == {Unmarshal(md, t) : md \in lot}
              items == {md \in mds : md.type # "root"}
          IN  IF ~ GetRoot(call[c].owner)
              THEN End(c, "RuntimeDestroyed") /\ UNCHANGED <<client, handle>>
              ELSE CASE (\E md \in mds : ~ Validate(md)) ->
                          End(c, "LocalComms") /\ UNCHANGED <<client, handle>>
                     [] (\A md \in mds : Validate(md)) /\ (\E md \in items : md.type = "impossible") ->
                          client' = "crashed" /\ UNCHANGED <<call, handle>>
                     [] (\A md \in mds : Validate(md)) /\ items = {} /\ call[c].op = "lookup" ->
                          End(c, "NotExists") /\ UNCHANGED <<client, handle>>
                     [] OTHER ->
                          /\ IF items = {} THEN UNCHANGED handle
                             ELSE \E md \in items : Make(md, handle[call[c].owner].root)
                          /\ \/ End(c, "ok") /\ UNCHANGED client
                             \/ /\ call[c].op = "list"
                                /\ call' = [call EXCEPT ![c].pc = "orphan"]
                                /\ client' \in {client, "crashed"}
    BY DEF ReplyItems
  <2> DEFINE mds == {Unmarshal(md, t) : md \in lot}
             items == {md \in mds : md.type # "root"}
  <2>2. items \subseteq mds
    OBVIOUS
  <2> HIDE DEF mds, items
  <2>3. \/ \E result : End(c, result) /\ UNCHANGED handle
        \/ UNCHANGED <<call, handle>>
        \/ /\ \A md \in mds : Validate(md)
           /\ UNCHANGED handle \/ \E md \in items : Make(md, handle[call[c].owner].root)
           /\ End(c, "ok") \/ (call[c].op = "list" /\ call' = [call EXCEPT ![c].pc = "orphan"])
    BY <2>1 DEF mds, items
  <2> QED
    BY <2>2, <2>3
<1>3. CASE \E result : End(c, result) /\ UNCHANGED handle
  BY <1>1, <1>3, EndKeeps
<1>4. CASE UNCHANGED <<call, handle>>
  BY <1>1, <1>4 DEF RemoteInv, OrphansExplained, Explained
<1>5. CASE /\ \A md \in mds : Validate(md)
           /\ UNCHANGED handle \/ \E md \in mds : Make(md, handle[call[c].owner].root)
           /\ End(c, "ok") \/ (call[c].op = "list" /\ call' = [call EXCEPT ![c].pc = "orphan"])
  <2>1. /\ DOMAIN handle' = Handles /\ \A g \in Handles : HandleOK(handle'[g])
        /\ \A g \in Handles : handle[g].st = "dropped" => handle'[g].st = "dropped"
    <3>1. CASE UNCHANGED handle
      BY <3>1 DEF RemoteInv
    <3>2. CASE \E md \in mds : Make(md, handle[call[c].owner].root)
      BY <1>5, <3>2, MakeOK
    <3> QED
      BY <1>5, <3>1, <3>2
  <2>2. CASE End(c, "ok")
    BY <1>1, <2>1, <2>2, EndWithHandle
  <2>3. CASE call[c].op = "list" /\ call' = [call EXCEPT ![c].pc = "orphan"]
    <3> DEFINE r == [call[c] EXCEPT !.pc = "orphan"]
    <3>1. CallOK(call[c]) /\ DOMAIN call = Calls /\ transfer \in TransferStates
      BY DEF RemoteInv
    <3>2. call' = [call EXCEPT ![c] = r]
      BY <2>3, <3>1
    <3>3. CallOK(r) /\ r.op = "list"
      BY <2>3, <3>1 DEF CallOK, CallFields
    <3> HIDE DEF r
    <3> QED
      BY <1>1, <2>1, <3>1, <3>2, <3>3, OneCall
  <2> QED
    BY <1>5, <2>2, <2>3
<1> QED
  BY <1>2, <1>3, <1>4, <1>5

LEMMA ReplyVoidKeeps == ASSUME RemoteInv, NEW c \in Calls, ReplyVoid(c) PROVE RemoteInv'
<1>1. UNCHANGED transfer /\ End(c, "ok")
  BY DEF ReplyVoid
<1>2. \/ UNCHANGED handle
      \/ handle' = [handle EXCEPT ![call[c].owner].deleted = TRUE]
  BY DEF ReplyVoid
<1>3. CASE UNCHANGED handle
  BY <1>1, <1>3, EndKeeps
<1>4. CASE handle' = [handle EXCEPT ![call[c].owner].deleted = TRUE]
  <2> DEFINE o == call[c].owner
             x == [handle[o] EXCEPT !.deleted = TRUE]
  <2>1. DOMAIN handle' = Handles /\ \A g \in Handles : handle'[g] = IF g = o THEN x ELSE handle[g]
    BY <1>4 DEF RemoteInv
  <2>2. ASSUME o \in Handles PROVE HandleOK(x) /\ x.st = handle[o].st
    <3>1. HandleOK(handle[o])
      BY <2>2 DEF RemoteInv
    <3>2. DOMAIN x = HandleFields /\ x.st = handle[o].st /\ x.type = handle[o].type /\ x.valid = handle[o].valid
      BY <3>1 DEF HandleOK, HandleFields
    <3> HIDE DEF x
    <3> QED
      BY <3>1, <3>2 DEF HandleOK
  <2> HIDE DEF x, o
  <2>3. \A g \in Handles : HandleOK(handle'[g]) /\ (handle[g].st = "dropped" => handle'[g].st = "dropped")
    BY <2>1, <2>2 DEF RemoteInv
  <2> QED
    BY <1>1, <2>1, <2>3, EndWithHandle
<1> QED
  BY <1>2, <1>3, <1>4

LEMMA ReplyTransferKeeps == ASSUME RemoteInv, NEW c \in Calls, ReplyTransfer(c) PROVE RemoteInv'
<1> DEFINE New(t) == transfer[t] = "none" /\ transfer' =
                       [transfer EXCEPT ![t] = IF t = "up" THEN "uploading" ELSE "downloading"]
<1>1. UNCHANGED handle
  BY DEF ReplyTransfer
<1>2. \/ \E result : End(c, result) /\ UNCHANGED transfer
      \/ UNCHANGED <<call, transfer>>
      \/ End(c, "ok") /\ \E t \in {"up", "down"} : New(t)
  BY DEF ReplyTransfer
<1>3. CASE \E result : End(c, result) /\ UNCHANGED transfer
  BY <1>1, <1>3, EndKeeps
<1>4. CASE UNCHANGED <<call, transfer>>
  BY <1>1, <1>4 DEF RemoteInv, OrphansExplained, Explained
<1>5. CASE End(c, "ok") /\ \E t \in {"up", "down"} : New(t)
  <2>1. /\ transfer' \in TransferStates
        /\ transfer.up = "gone" => transfer'.up = "gone"
        /\ transfer.down = "gone" => transfer'.down = "gone"
    BY <1>5 DEF RemoteInv, TransferStates
  <2> DEFINE r == Done("none", "ok")
  <2>2. CallOK(r) /\ r.pc = "done"
    BY DoneOK
  <2>3. call' = [call EXCEPT ![c] = r]
    BY <1>5 DEF End
  <2> HIDE DEF r, New
  <2> QED
    BY <1>1, <2>1, <2>2, <2>3, OneCall DEF RemoteInv
<1> QED
  BY <1>2, <1>3, <1>4, <1>5

-----------------------------------------------------------------------------
\* What becomes of the calls of objects that are destroyed.
LEMMA OrphanMakes ==
    ASSUME NEW gone, NEW calls, DOMAIN calls = Calls, \A c \in Calls : CallOK(calls[c]),
           call' = Orphan(gone, calls)
    PROVE  /\ DOMAIN call' = Calls
           /\ \A c \in Calls : /\ CallOK(call'[c]) /\ call'[c].op = calls[c].op /\ call'[c].owner = calls[c].owner
                               /\ call'[c].pc = "orphan" => calls[c].pc = "orphan" \/ calls[c].owner \in gone
  <1>1. DOMAIN call' = Calls /\ \A c \in Calls : call'[c] = calls[c]
             \/ (calls[c].owner \in gone /\ call'[c] = [calls[c] EXCEPT !.pc = "orphan"])
    BY DEF Orphan
  <1>2. ASSUME NEW c \in Calls
        PROVE  /\ CallOK(call'[c]) /\ call'[c].op = calls[c].op /\ call'[c].owner = calls[c].owner
               /\ call'[c].pc = "orphan" => calls[c].pc = "orphan" \/ calls[c].owner \in gone
    <2>1. CallOK(calls[c])
      OBVIOUS
    <2>2. CASE call'[c] = calls[c]
      BY <2>1, <2>2
    <2>3. CASE calls[c].owner \in gone /\ call'[c] = [calls[c] EXCEPT !.pc = "orphan"]
      BY <2>1, <2>3 DEF CallOK, CallFields
    <2> QED
      BY <1>1, <2>2, <2>3
  <1> QED
    BY <1>1, <1>2

\* The new roots: those that are destroyed had been dropped.
LEMMA ReplyRootsKeeps == ASSUME RemoteInv, NEW c \in Calls, ReplyRoots(c) PROVE RemoteInv'
<1> DEFINE gone == {h \in Handles : h \in roots /\ h # keeps.up /\ handle[h].st = "dropped"}
           ended == [call EXCEPT ![c] = Done("none", "ok")]
<1>1. UNCHANGED transfer /\ transfer \in TransferStates
  BY DEF ReplyRoots, RemoteInv
<1>2. CASE client # "up"
  <2>1. End(c, "RuntimeDestroyed") /\ UNCHANGED handle
    BY <1>2 DEF ReplyRoots
  <2> QED
    BY <1>1, <2>1, EndKeeps
<1>3. CASE client = "up"
  <2>1. call' = Orphan(gone, ended)
    BY <1>3 DEF ReplyRoots
  <2>2. \/ UNCHANGED handle
        \/ \E h \in Handles : \E md :
              /\ handle[h].st = "free"
              /\ handle' = [handle EXCEPT ![h] = [NoHandle EXCEPT !.st = "live", !.type = "root",
                                                       !.root = h, !.valid = Validate(md)]]
    BY <1>3 DEF ReplyRoots
  <2>3. /\ DOMAIN handle' = Handles /\ \A g \in Handles : HandleOK(handle'[g])
        /\ \A g \in Handles : handle[g].st = "dropped" => handle'[g].st = "dropped"
    <3>1. CASE UNCHANGED handle
      BY <3>1 DEF RemoteInv
    <3>2. ASSUME NEW h \in Handles, NEW md, handle[h].st = "free",
                 handle' = [handle EXCEPT ![h] = [NoHandle EXCEPT !.st = "live", !.type = "root",
                                                         !.root = h, !.valid = Validate(md)]]
          PROVE  /\ DOMAIN handle' = Handles /\ \A g \in Handles : HandleOK(handle'[g])
                 /\ \A g \in Handles : handle[g].st = "dropped" => handle'[g].st = "dropped"
      BY <3>2, NewHandle
    <3> QED
      BY <2>2, <3>1, <3>2
  <2> DEFINE r == Done("none", "ok")
  <2>4. CallOK(r) /\ r.pc = "done"
    BY DoneOK
  <2> HIDE DEF r
  <2>5. DOMAIN ended = Calls /\ \A d \in Calls : ended[d] = IF d = c THEN r ELSE call[d]
    BY DEF RemoteInv, r
  <2>6. \A d \in Calls : CallOK(ended[d]) /\ (ended[d].pc = "orphan" => d # c /\ ended[d] = call[d])
    BY <2>4, <2>5 DEF RemoteInv
  <2>7. \A g \in gone : g \in Handles /\ handle[g].st = "dropped"
    OBVIOUS
  <2> HIDE DEF ended, gone
  <2>8. /\ DOMAIN call' = Calls
        /\ \A d \in Calls : /\ CallOK(call'[d]) /\ call'[d].op = ended[d].op /\ call'[d].owner = ended[d].owner
                            /\ call'[d].pc = "orphan" => ended[d].pc = "orphan" \/ ended[d].owner \in gone
    BY <2>1, <2>5, <2>6, OrphanMakes
  <2>9. OrphansExplained'
    <3> SUFFICES ASSUME NEW d \in Calls, call'[d].pc = "orphan"
                 PROVE  \/ call'[d].op = "list"
                        \/ call'[d].owner \in Handles /\ handle'[call'[d].owner].st = "dropped"
                        \/ call'[d].owner \in {"up", "down"} /\ transfer'[call'[d].owner] = "gone"
      BY DEF OrphansExplained, Explained
    <3>1. CASE ended[d].owner \in gone
      BY <2>3, <2>7, <2>8, <3>1
    <3>2. CASE ended[d].pc = "orphan"
      <4>1. call[d].pc = "orphan" /\ call'[d].op = call[d].op /\ call'[d].owner = call[d].owner
        BY <2>6, <2>8, <3>2
      <4>2. \/ call[d].op = "list"
            \/ call[d].owner \in Handles /\ handle[call[d].owner].st = "dropped"
            \/ call[d].owner \in {"up", "down"} /\ transfer[call[d].owner] = "gone"
        BY <4>1 DEF RemoteInv, OrphansExplained, Explained
      <4> QED
        BY <1>1, <2>3, <4>1, <4>2
    <3> QED
      BY <2>8, <3>1, <3>2
  <2> QED
    BY <1>1, <2>3, <2>8, <2>9 DEF RemoteInv
<1> QED
  BY <1>2, <1>3

LEMMA DropItemKeeps == ASSUME RemoteInv, NEW h \in Handles, DropItem(h) PROVE RemoteInv'
<1> DEFINE x == [handle[h] EXCEPT !.st = "dropped"]
<1>1. UNCHANGED transfer /\ transfer \in TransferStates
  BY DEF DropItem, RemoteInv
<1>2. DOMAIN handle' = Handles /\ \A g \in Handles : handle'[g] = IF g = h THEN x ELSE handle[g]
  BY DEF DropItem, RemoteInv
<1>3. HandleOK(x) /\ x.st = "dropped"
  <2>1. HandleOK(handle[h])
    BY DEF RemoteInv
  <2>2. DOMAIN x = HandleFields /\ x.st = "dropped"
    BY <2>1 DEF HandleOK, HandleFields
  <2> HIDE DEF x
  <2> QED
    BY <2>2 DEF HandleOK
<1> HIDE DEF x
<1>4. \A g \in Handles : HandleOK(handle'[g]) /\ (handle[g].st = "dropped" => handle'[g].st = "dropped")
  BY <1>2, <1>3 DEF RemoteInv
<1>5. handle'[h].st = "dropped"
  BY <1>2, <1>3
<1>6. /\ DOMAIN call' = Calls
      /\ \A c \in Calls : /\ CallOK(call'[c]) /\ call'[c].op = call[c].op /\ call'[c].owner = call[c].owner
                          /\ call'[c].pc = "orphan" => call[c].pc = "orphan" \/ call[c].owner = h
  <2> DEFINE gone == {h} \ Kept
  <2>1. call' = Orphan(gone, call)
    BY DEF DropItem
  <2>2. \A o : o \in gone => o = h
    OBVIOUS
  <2> HIDE DEF gone
  <2> QED
    BY <2>1, <2>2, OrphanMakes DEF RemoteInv
<1>7. OrphansExplained'
  BY <1>1, <1>4, <1>5, <1>6 DEF OrphansExplained, Explained, RemoteInv
<1> QED
  BY <1>1, <1>2, <1>4, <1>6, <1>7 DEF RemoteInv

LEMMA DropTransferKeeps ==
    ASSUME RemoteInv, NEW t \in {"up", "down"}, DropTransfer(t)
    PROVE  RemoteInv'
<1> DEFINE gone == {t} \cup {h \in Handles : h = keeps[t] /\ h \notin roots /\ handle[h].st = "dropped"}
<1>1. UNCHANGED handle
  BY DEF DropTransfer
<1>2. transfer' \in TransferStates /\ transfer'[t] = "gone"
  BY DEF DropTransfer, RemoteInv, TransferStates
<1>3. \A s \in {"up", "down"} : transfer[s] = "gone" => transfer'[s] = "gone"
  BY DEF DropTransfer, RemoteInv, TransferStates
<1>4. /\ DOMAIN call' = Calls
      /\ \A c \in Calls : /\ CallOK(call'[c]) /\ call'[c].op = call[c].op /\ call'[c].owner = call[c].owner
                          /\ call'[c].pc = "orphan" => call[c].pc = "orphan" \/ call[c].owner \in gone
  <2>1. call' = Orphan(gone, call)
    BY DEF DropTransfer
  <2> HIDE DEF gone
  <2> QED
    BY <2>1, OrphanMakes DEF RemoteInv
<1>5. OrphansExplained'
  <2> SUFFICES ASSUME NEW c \in Calls, call'[c].pc = "orphan"
               PROVE  \/ call'[c].op = "list"
                      \/ call'[c].owner \in Handles /\ handle'[call'[c].owner].st = "dropped"
                      \/ call'[c].owner \in {"up", "down"} /\ transfer'[call'[c].owner] = "gone"
    BY DEF OrphansExplained, Explained
  <2>1. CASE call[c].owner \in gone
    BY <1>1, <1>2, <1>4, <2>1
  <2>2. CASE call[c].pc = "orphan"
    BY <1>1, <1>3, <1>4, <2>2 DEF RemoteInv, OrphansExplained, Explained
  <2> QED
    BY <1>4, <2>1, <2>2
<1> QED
  BY <1>1, <1>2, <1>4, <1>5 DEF RemoteInv

\* The invariant of the remote v1 client holds in every reachable state.
THEOREM RemoteInvHolds == Spec => []RemoteInv
<1>1. Init => RemoteInv
  <2> SUFFICES ASSUME Init PROVE RemoteInv
    OBVIOUS
  <2>1. CallOK(NoCall) /\ NoCall.pc = "idle"
    BY DEF NoCall, CallOK, CallFields
  <2>2. DOMAIN call = Calls /\ (\A c \in Calls : CallOK(call[c])) /\ OrphansExplained
    BY <2>1 DEF Init, OrphansExplained, Explained
  <2>3. transfer \in TransferStates
    BY DEF Init, TransferStates
  <2>4. ASSUME NEW type \in {"file", "folder", "root"}
        PROVE  HandleOK([NoHandle EXCEPT !.st = "live", !.type = type]) /\ HandleOK(NoHandle)
    BY DEF NoHandle, HandleOK, HandleFields
  <2>5. DOMAIN handle = Handles /\ \A h \in Handles : HandleOK(handle[h])
    <3> DEFINE new(type) == [NoHandle EXCEPT !.st = "live", !.type = type]
    <3>1. PICK type \in {"file", "folder"} :
              handle = [h \in Handles |-> CASE h = "r" -> new("root") [] h = "h" -> new(type) [] OTHER -> NoHandle]
      BY DEF Init
    <3>2. HandleOK(new("root")) /\ HandleOK(new(type)) /\ HandleOK(NoHandle)
      BY <2>4
    <3> HIDE DEF new
    <3>3. \A h \in Handles : handle[h] \in {new("root"), new(type), NoHandle}
      BY <3>1
    <3> QED
      BY <3>1, <3>2, <3>3
  <2> QED
    BY <2>2, <2>3, <2>5 DEF RemoteInv
<1>2. RemoteInv /\ [Next]_vars => RemoteInv'
  <2> SUFFICES ASSUME RemoteInv, [Next]_vars PROVE RemoteInv'
    OBVIOUS
  <2>1. ASSUME NEW c \in Calls, Reply(c) PROVE RemoteInv'
    BY <2>1, ReplyErrorKeeps, ReplyItemKeeps, ReplyItemsKeep, ReplyVoidKeeps, ReplyTransferKeeps, ReplyRootsKeeps
    DEF Reply
  <2>2. CASE DropUploader \/ DropDownloader
    BY <2>2, DropTransferKeeps DEF DropUploader, DropDownloader
  <2>3. CASE Shutdown \/ UNCHANGED vars
    BY <2>3 DEF Shutdown, vars, RemoteInv, OrphansExplained, Explained
  <2> QED
    BY <2>1, <2>2, <2>3, MethodsKeep, DropItemKeeps DEF Next
<1> QED
  BY <1>1, <1>2, PTL DEF Spec

\* The exception in a client's future is the one that the provider threw, except for the
\* kinds that arrive as LocalComms.
THEOREM ErrorsArriveAsThrown == Spec => []ErrorsKeepTheirKind
<1>1. RemoteInv => ErrorsKeepTheirKind
  BY DEF RemoteInv, CallOK, Arrives, ErrorsKeepTheirKind
<1> QED
  BY <1>1, RemoteInvHolds, PTL

\* No metadata that a provider may send make a handle that breaks its accessors.
THEOREM ItemsAreValid == Spec => []OnlyValidItems
<1>1. RemoteInv => OnlyValidItems
  BY DEF RemoteInv, HandleOK, OnlyValidItems
<1> QED
  BY <1>1, RemoteInvHolds, PTL

\* A future is left without an end only by a dropped object or by a list() in lots, in any
\* number of calls.
THEOREM OrphansAreExplained == Spec => []OrphansExplained
<1>1. RemoteInv => OrphansExplained
  BY DEF RemoteInv
<1> QED
  BY <1>1, RemoteInvHolds, PTL
=============================================================================
