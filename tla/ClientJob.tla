----------------------------- MODULE ClientJob -----------------------------
(***************************************************************************)
(* One asynchronous job of the v2 client library, from the call that makes *)
(* it (RuntimeImpl, AccountImpl, ItemImpl) to its last signal:             *)
(* AccountsJobImpl, ItemJobImpl, VoidJobImpl and the three list jobs.      *)
(* Jobs share nothing but the runtime, which may be shut down at any time. *)
(* Provider and registry are external: they answer each call once, with a  *)
(* value or an error, in any order.                                        *)
(***************************************************************************)
EXTENDS Naturals, Sequences

CONSTANTS
    Pages,    \* the sets of metadata a provider may return in one reply
    MaxPages, \* bound: how many pages a list() has
    Builds    \* the builds to look at: is assert() compiled in?

Metadata == UNION Pages

\* An abstract ItemMetadata as operator>> leaves it.  id, name, etag: not empty;
\* parents: how many ids; blank: one of them is empty; size, time: the two mandatory
\* keys, "bad" when the value has the wrong type, is negative, or is no date with a
\* time zone.  When a provider sends a type that is none, operator>> returns before it
\* sets the type or reads the keys: then the type may be anything, also "impossible".
ItemMetadata ==
    [type : {"file", "folder", "root", "impossible"}, id : BOOLEAN, parents : Nat,
     blank : BOOLEAN, name : BOOLEAN, etag : BOOLEAN,
     size : {"absent", "bad", "ok"}, time : {"absent", "bad", "ok"}]

ASSUME PagesAssumption ==
    /\ Pages \subseteq SUBSET ItemMetadata
    /\ MaxPages \in Nat \ {0}
    /\ Builds \subseteq BOOLEAN /\ Builds # {}

VARIABLES
    runtime,    \* "valid" or "destroyed"
    method,     \* the method that made the job
    source,     \* the item it was called on
    status,     \* status_; "none" before the job is made
    error,      \* error_
    open,       \* calls without a reply
    remaining,  \* replies_remaining_
    total,      \* external: how many replies with items the provider has
    count,      \* how often itemsReady was emitted
    items,      \* the items the client got
    log,        \* the signals the client got, in order
    queued,     \* a statusChanged that waits in the event loop
    gone        \* "destroyed": the client has deleted the job; "aborted", "asserted": the
                \* client is dead, by the assertion of StorageErrorImpl or of parents()

vars == <<runtime, method, source, status, error, open, remaining, total, count, items,
          log, queued, gone>>

ItemListMethods == {"roots", "lookup"}
ItemMethods == {"get", "copy", "move", "createFolder"}
Methods == {"accounts", "list", "parents", "deleteItem"} \cup ItemListMethods \cup ItemMethods
Final == {"finished", "error"}

\* The types of StorageErrorImpl's errors: the library's own and, as "other", those
\* that only providers report.
Errors == {"destroyed", "logic", "permission", "invalidargument", "localcomms", "other"}

\* The arguments of a call: is the item (or account) valid, what is newParent,
\* is newName not empty?
Arguments ==
    [valid : BOOLEAN, newParent : {"invalid", "foreign", "file", "folder"}, newName : BOOLEAN]

Init ==
    /\ runtime = "valid"
    /\ method = "none" /\ source = "none"
    /\ status = "none" /\ error = "none"
    /\ open = 0 /\ remaining = 0 /\ total = 0 /\ count = 0
    /\ items = {}
    /\ log = << >>
    /\ queued = "none"
    /\ gone = "no"

-----------------------------------------------------------------------------
(***************************************************************************)
(* What the library accepts.                                               *)
(***************************************************************************)
\* Mutant: the mandatory keys of a file are not asked for.
Validate_NoKeys(md) ==
    /\ md.id
    /\ md.type # "root" => md.parents > 0 /\ ~md.blank /\ md.name
    /\ md.type = "root" => md.parents = 0
    /\ md.size # "bad" /\ md.time # "bad"

\* validate()
Validate(md) ==
    /\ md.id
    /\ md.type # "root" => md.parents > 0 /\ ~md.blank /\ md.name
    /\ md.type = "root" => md.parents = 0
    /\ md.type = "file" => md.etag
    /\ md.size # "bad" /\ md.time # "bad"
    /\ md.type = "file" => md.size # "absent" /\ md.time # "absent"

\* The validate_ of Account::roots(); that of Account::get() takes anything.
ExpectedRoot(md) == md.type = "root"

\* The validate_ of the job: which type of item the method can return.
Expected(md) ==
    /\ method = "roots" => ExpectedRoot(md)
    /\ method = "parents" => md.type # "file"
    /\ method \in {"list", "move"} => md.type # "root"
    /\ method = "createFolder" => md.type # "file"
    /\ method \in {"copy", "move"} => (md.type = "file" <=> source.type = "file")

Accepted(md) == Expected(md) /\ Validate(md)

\* check_copy_move_precondition()
CopyMoveError(arg) ==
    IF arg.newParent = "invalid" \/ ~arg.newName THEN "invalidargument"
    ELSE IF arg.newParent \in {"foreign", "file"} THEN "logic"
    ELSE "none"

\* check_invalid_or_destroyed()
Unusable(valid) ==
    IF ~valid THEN "logic" ELSE IF runtime = "destroyed" THEN "destroyed" ELSE "none"

\* Account::roots() and get() make the same checks of the account.
AccountRefusal(valid) == Unusable(valid)

\* Why the method m makes a job that has failed already.  The runtime itself is
\* never invalid without being destroyed.
Refusal(m, s, arg) ==
    LET unusable == CASE m = "accounts" -> Unusable(TRUE)
                      [] m \in {"roots", "get"} -> AccountRefusal(arg.valid)
                      [] OTHER -> Unusable(arg.valid)
    IN IF unusable # "none" THEN unusable
       ELSE IF m \in {"copy", "move"} THEN CopyMoveError(arg)
       ELSE IF m = "deleteItem" /\ s.type = "root" THEN "permission"
       ELSE IF m \in {"list", "lookup", "createFolder"} /\ s.type = "file" THEN "logic"
       ELSE "none"

-----------------------------------------------------------------------------
(***************************************************************************)
(* Making a job.  A job that is final from the start announces it by a     *)
(* queued signal, so that the client has time to connect to it.            *)
(***************************************************************************)
MakeFinal(s, e) ==
    /\ status' = s
    /\ error' = e
    /\ queued' = s
    /\ UNCHANGED <<open, remaining, total>>

MakeLoading(calls, replies) ==
    /\ status' = "loading"
    /\ open' = calls
    /\ remaining' = calls
    /\ total' = replies
    /\ UNCHANGED <<error, queued>>

\* make_job() and the constructors of each class of jobs, for a method that is
\* refused with e or, if e is "none", has called the provider or the registry.
MakeSingle(e) ==
    \/ e # "none" /\ MakeFinal("error", e)
    \/ e = "none" /\ MakeLoading(1, 1)

MakeAccountsJob(m, e) == m = "accounts" /\ MakeSingle(e)
MakeItemJob(m, e) == m \in ItemMethods /\ MakeSingle(e)
MakeVoidJob(m, e) == m = "deleteItem" /\ MakeSingle(e)
MakeItemListJob(m, e) == m \in ItemListMethods /\ MakeSingle(e)

\* list(): one call, whose reply may lead to others.
MakeMultiItemListJob(m, e) ==
    /\ m = "list"
    /\ \/ e # "none" /\ MakeFinal("error", e)
       \/ e = "none" /\ \E n \in 1 .. MaxPages : MakeLoading(1, n)

\* What parents() asserts of the item, unless it is a root.
HasParents(s) == s.type # "root" => s.parents > 0

\* parents(): one call for each parent, at once; a root has none.  Without assertions
\* an item that has no parents makes a job that waits for no reply.
MakeMultiItemJob(m, s, e) ==
    /\ m = "parents"
    /\ \/ e # "none" /\ MakeFinal("error", e)
       \/ e = "none" /\ s.type = "root" /\ MakeFinal("finished", "none")
       \/ /\ e = "none" /\ s.type # "root"
          /\ HasParents(s) \/ FALSE \in Builds
          /\ MakeLoading(s.parents, s.parents)

\* An item the client holds came from an earlier job, or from Uploader::item(), which
\* has checked the type and nothing else.
Held(s) == Validate(s) \/ s.type = "file"

Make(m, s, arg) ==
    LET e == Refusal(m, s, arg)
    IN /\ status = "none" /\ gone = "no"
       /\ Held(s)
       /\ method' = m
       /\ source' = s
       /\ \/ MakeAccountsJob(m, e) \/ MakeItemJob(m, e) \/ MakeVoidJob(m, e)
          \/ MakeItemListJob(m, e) \/ MakeMultiItemListJob(m, e) \/ MakeMultiItemJob(m, s, e)
       /\ UNCHANGED <<runtime, count, items, log, gone>>

\* The assertion of parents() fails.
AssertParents(s) ==
    /\ status = "none" /\ gone = "no" /\ runtime = "valid"
    /\ Held(s) /\ ~HasParents(s) /\ TRUE \in Builds
    /\ gone' = "asserted"
    /\ UNCHANGED <<runtime, method, source, status, error, open, remaining, total, count,
                   items, log, queued>>

\* emit_status_changed() and the event loop.
EmitQueued ==
    /\ gone = "no" /\ queued # "none"
    /\ log' = Append(log, queued)
    /\ queued' = "none"
    /\ UNCHANGED <<runtime, method, source, status, error, open, remaining, total, count,
                   items, gone>>

-----------------------------------------------------------------------------
(***************************************************************************)
(* Replies.                                                                *)
(***************************************************************************)
\* Mutant: the signal is forgotten.
Fail_Silent(e) ==
    /\ status' = "error"
    /\ error' = e
    /\ UNCHANGED log

\* error_, status_ and the signal.
Fail(e) ==
    /\ status' = "error"
    /\ error' = e
    /\ log' = Append(log, "error")

\* How a call fails: with an exception of the provider, of which Quota and
\* Unauthorized are two, or otherwise.
Failures == {"exception", "quota", "unauthorized", "other"}

\* unmarshal_error(): what is not an exception of ours, and UnknownException,
\* is an error of communication.
UnmarshalError(failure) == IF failure = "other" THEN "localcomms" ELSE "other"

\* The assertion of StorageErrorImpl's constructor for a type and a message.
Constructible(failure) == failure \notin {"quota", "unauthorized"}

\* A reply of class C arrives.
Arrives(C) == gone = "no" /\ open > 0 /\ method \in C /\ open' = open - 1

\* ItemJobImpl's process_reply
ItemReply(md) ==
    /\ Arrives(ItemMethods)
    /\ \/ runtime = "destroyed" /\ Fail("destroyed") /\ UNCHANGED items
       \/ runtime = "valid" /\ ~Accepted(md) /\ Fail("localcomms") /\ UNCHANGED items
       \/ /\ runtime = "valid" /\ Accepted(md)
          /\ items' = {md}
          /\ status' = "finished"
          /\ log' = Append(log, "finished")
          /\ UNCHANGED error
    /\ UNCHANGED <<runtime, method, source, remaining, total, count, queued, gone>>

\* VoidJobImpl's process_reply
VoidReply ==
    /\ Arrives({"deleteItem"})
    /\ \/ runtime = "destroyed" /\ Fail("destroyed")
       \/ /\ runtime = "valid"
          /\ status' = "finished"
          /\ log' = Append(log, "finished")
          /\ UNCHANGED error
    /\ UNCHANGED <<runtime, method, source, remaining, total, count, items, queued, gone>>

\* ItemListJobImpl's process_reply: good items are delivered even when others
\* are bad, which makes the job fail.
ItemListReply(mds) ==
    /\ Arrives(ItemListMethods)
    /\ \/ runtime = "destroyed" /\ Fail("destroyed") /\ UNCHANGED <<items, count>>
       \/ /\ runtime = "valid"
          /\ items' = {md \in mds : Accepted(md)}
          /\ count' = count + 1
          /\ error' = IF items' = mds THEN "none" ELSE "localcomms"
          /\ status' = IF items' = mds THEN "finished" ELSE "error"
          /\ log' = log \o <<"items", status'>>
    /\ UNCHANGED <<runtime, method, source, remaining, total, queued, gone>>

\* Mutant: the runtime is not looked at.
PageReply_NoCheck(mds) ==
    /\ gone = "no" /\ open > 0 /\ method = "list" /\ status = "loading"
    /\ items' = items \cup mds
    /\ count' = count + 1
    /\ IF count + 1 = total
       THEN /\ status' = "finished"
            /\ log' = log \o <<"items", "finished">>
            /\ open' = open - 1
       ELSE /\ log' = Append(log, "items")
            /\ UNCHANGED <<status, open>>
    /\ UNCHANGED <<runtime, method, source, error, remaining, total, queued, gone>>

\* MultiItemListJobImpl's process_reply_: a page, and the call for the next one
\* if there is a token for it.  If the slot of itemsReady shuts the runtime down,
\* that call is made nevertheless, as if the shutdown came after this step.
PageReply(mds) ==
    /\ gone = "no" /\ open > 0 /\ method = "list"
    /\ \/ /\ status # "loading"
          /\ open' = open - 1
          /\ UNCHANGED <<status, error, log, items, count>>
       \/ /\ status = "loading"
          /\ runtime = "destroyed" \/ \E md \in mds : ~Accepted(md)
          /\ Fail(IF runtime = "destroyed" THEN "destroyed" ELSE "localcomms")
          /\ open' = open - 1
          /\ UNCHANGED <<items, count>>
       \/ /\ status = "loading" /\ runtime = "valid" /\ \A md \in mds : Accepted(md)
          /\ items' = items \cup mds
          /\ count' = count + 1
          /\ IF count + 1 = total
             THEN /\ status' = "finished"
                  /\ log' = log \o <<"items", "finished">>
                  /\ open' = open - 1
             ELSE /\ log' = Append(log, "items")
                  /\ UNCHANGED <<status, open>>
          /\ UNCHANGED error
    /\ UNCHANGED <<runtime, method, source, remaining, total, queued, gone>>

\* The last of the parents' replies makes the job Finished.
Delivered(md, last) ==
    /\ items' = items \cup {md}
    /\ count' = count + 1
    /\ IF last
       THEN status' = "finished" /\ log' = log \o <<"items", "finished">>
       ELSE UNCHANGED status /\ log' = Append(log, "items")
    /\ UNCHANGED error

\* Mutant: one reply is not waited for.
MultiReply_OffByOne(md) ==
    /\ Arrives({"parents"})
    /\ status = "loading" /\ runtime = "valid" /\ Accepted(md)
    /\ remaining' = remaining - 1
    /\ Delivered(md, remaining' <= 1)
    /\ UNCHANGED <<runtime, method, source, total, queued, gone>>

\* Mutant: replies are used after an error, too.
MultiReply_Unchecked(md) ==
    /\ Arrives({"parents"})
    /\ runtime = "valid" /\ Accepted(md)
    /\ remaining' = remaining - 1
    /\ Delivered(md, remaining' = 0)
    /\ UNCHANGED <<runtime, method, source, total, queued, gone>>

\* MultiItemJobImpl's process_reply, for each of the parents
MultiReply(md) ==
    /\ Arrives({"parents"})
    /\ \/ status # "loading" /\ UNCHANGED <<status, error, log, items, count, remaining>>
       \/ /\ status = "loading"
          /\ remaining' = remaining - 1
          /\ \/ /\ runtime = "destroyed" \/ ~Accepted(md)
                /\ Fail(IF runtime = "destroyed" THEN "destroyed" ELSE "localcomms")
                /\ UNCHANGED <<items, count>>
             \/ /\ runtime = "valid" /\ Accepted(md)
                /\ Delivered(md, remaining' = 0)
    /\ UNCHANGED <<runtime, method, source, total, queued, gone>>

\* AccountsJobImpl::get_runtime_impl() after a shutdown.
RuntimeGone ==
    /\ runtime = "destroyed"
    /\ error' = "destroyed"
    /\ status' = "error"
    /\ queued' = IF status = "loading" THEN "error" ELSE queued

\* AccountsJobImpl's process_reply
AccountsReply ==
    /\ Arrives({"accounts"})
    /\ \/ RuntimeGone /\ UNCHANGED log
       \/ /\ runtime = "valid"
          /\ status' = "finished"
          /\ log' = Append(log, "finished")
          /\ UNCHANGED <<error, queued>>
    /\ UNCHANGED <<runtime, method, source, remaining, total, count, items, gone>>

\* AccountsJobImpl::accounts(), which turns a job into a failed one when the
\* runtime is gone.
AskAccounts ==
    /\ gone = "no" /\ method = "accounts" /\ status # "none"
    /\ RuntimeGone
    /\ UNCHANGED <<runtime, method, source, open, remaining, total, count, items, log,
                   gone>>

\* process_error of each class.  Only MultiItemJobImpl looks at the status.
AccountsError(e) == method = "accounts" /\ Fail(e)
ItemError(e) == method \in ItemMethods /\ Fail(e)
VoidError(e) == method = "deleteItem" /\ Fail(e)
ItemListError(e) == method \in ItemListMethods /\ Fail(e)
PageError(e) == method = "list" /\ Fail(e)
MultiError(e) ==
    /\ method = "parents"
    /\ \/ status = "loading" /\ Fail(e)
       \/ status # "loading" /\ UNCHANGED <<status, error, log>>

ErrorReply(failure) ==
    LET e == UnmarshalError(failure)
    IN /\ Arrives(Methods)
       /\ Constructible(failure) \/ FALSE \in Builds
       /\ \/ AccountsError(e) \/ ItemError(e) \/ VoidError(e)
          \/ ItemListError(e) \/ PageError(e) \/ MultiError(e)
       /\ UNCHANGED <<runtime, method, source, remaining, total, count, items, queued, gone>>

\* The assertion fails: the client's process ends, within unmarshal_error().
AbortOnError(failure) ==
    /\ gone = "no" /\ open > 0 /\ method # "accounts"
    /\ ~Constructible(failure) /\ TRUE \in Builds
    /\ gone' = "aborted"
    /\ UNCHANGED <<runtime, method, source, status, error, open, remaining, total, count,
                   items, log, queued>>

-----------------------------------------------------------------------------
Destroy ==
    /\ status # "none" /\ gone = "no"
    /\ gone' = "destroyed"
    /\ UNCHANGED <<runtime, method, source, status, error, open, remaining, total, count,
                   items, log, queued>>

\* RuntimeImpl::shutdown()
Shutdown ==
    /\ runtime = "valid"
    /\ runtime' = "destroyed"
    /\ UNCHANGED <<method, source, status, error, open, remaining, total, count, items,
                   log, queued, gone>>

Reply ==
    \/ \E md \in Metadata : ItemReply(md) \/ MultiReply(md)
    \/ \E mds \in Pages : ItemListReply(mds) \/ PageReply(mds)
    \/ VoidReply
    \/ AccountsReply
    \/ \E failure \in Failures : ErrorReply(failure) \/ AbortOnError(failure)

Next ==
    \/ \E m \in Methods, s \in Metadata, arg \in Arguments : Make(m, s, arg)
    \/ \E s \in Metadata : AssertParents(s)
    \/ Reply \/ EmitQueued
    \/ AskAccounts \/ Destroy \/ Shutdown

Spec == Init /\ [][Next]_vars

\* Every call is answered or times out, and the event loop delivers what is
\* queued.
FairSpec == Spec /\ WF_vars(Reply) /\ WF_vars(EmitQueued)

-----------------------------------------------------------------------------
(***************************************************************************)
(* Properties.                                                             *)
(***************************************************************************)
\* Types of the job's members and of what the client has seen.
TypeOK ==
    /\ runtime \in {"valid", "destroyed"}
    /\ method \in Methods \cup {"none"}
    /\ status \in {"none", "loading"} \cup Final
    /\ status # "none" => source \in ItemMetadata
    /\ error \in Errors \cup {"none"}
    /\ open \in Nat /\ remaining \in Nat /\ total \in Nat /\ count \in Nat
    /\ items \subseteq ItemMetadata
    /\ log \in Seq({"items"} \cup Final)
    /\ queued \in Final \cup {"none"}
    /\ gone \in {"no", "destroyed", "aborted", "asserted"}

\* Items that a job hands out never trip the assertions of sizeInBytes() and parents(),
\* also when operator>> has refused their type: a file has its size, what is not a root
\* has parents; and list() and move() give no root, roots() nothing else.  It is not
\* said that an item has a type: validate() does not ask, and type() of an item with
\* an impossible one aborts.
ItemsUsable ==
    \A md \in items :
        /\ md.id
        /\ md.type = "file" => md.size = "ok" /\ md.time = "ok" /\ md.etag
        /\ md.type # "root" => md.parents > 0
        /\ method \in {"list", "move"} => md.type # "root"
        /\ method = "roots" => md.type = "root"

\* A list job is Finished only when the replies to all its calls, for each page
\* or each parent, were announced, in whatever order they came.
CompleteWhenFinished ==
    status = "finished" /\ method \in {"list", "parents"} => count = total

OnlyItems(l) == \A i \in 1 .. Len(l) : l[i] = "items"
EndsAtMostWith(l, st) == \A i \in 1 .. Len(l) : l[i] \in Final => i = Len(l) /\ l[i] = st

\* A client hears of the end once, of the right end, and of nothing after it: it
\* may drop the job in the slot of statusChanged.  Not so for AccountsJob, where
\* accounts() itself changes the status after a shutdown.
EndsWithOneSignal ==
    method # "accounts" =>
        /\ EndsAtMostWith(log, status)
        /\ queued # "none" => queued = status /\ log = << >>

\* A job is in error exactly if it has an error to show (isValid, error).
ErrorIsSet == (status = "error") <=> (error # "none")

\* How far the job is: what is open, what was announced, what is still to come.
ProgressInv ==
    /\ status = "none" => method = "none" /\ open = 0 /\ log = << >> /\ items = {} /\ count = 0
                           /\ total = 0 /\ queued = "none"
    /\ status # "none" => method # "none"
    /\ status = "loading" =>
          /\ open > 0 \/ (method = "parents" /\ ~HasParents(source))
          /\ queued = "none"
          /\ OnlyItems(log)
          /\ method = "list" => count < total
          /\ method \notin {"list", "parents"} => count = 0
    /\ method = "parents" /\ status = "loading" =>
          remaining = open /\ count + remaining = total
    /\ method # "parents" => open <= 1
    /\ status \in Final /\ method \notin {"parents", "accounts"} => open = 0
    /\ status = "finished" /\ method = "parents" => open = 0
    /\ status \in Final /\ open > 0 /\ method = "accounts" => runtime = "destroyed"

\* The inductive invariant behind them.
IInv ==
    /\ TypeOK
    /\ ItemsUsable
    /\ CompleteWhenFinished
    /\ EndsWithOneSignal
    /\ ErrorIsSet
    /\ ProgressInv

\* After Runtime::shutdown() a job hands out nothing any more and does not finish
\* well, however many replies are still to come.
ShutdownStops ==
    [][runtime = "destroyed" =>
          /\ items' = items /\ count' = count
          /\ status' = "finished" => status = "finished"]_vars

\* No error that a provider reports kills the client: StorageErrorImpl.cpp:73 asserts
\* that the type of an error is one of those it lists.
ErrorsConstructible == gone # "aborted"

\* Every job ends, and the client hears of it, whatever replies are missing, bad or late;
\* except for parents() of an item without parents, which only Uploader::item() gives and
\* which only a build without assertions lets pass: that job waits for no reply.
JobEnds ==
    (status # "none" /\ ~ (method = "parents" /\ ~HasParents(source)))
        ~> (gone # "no" \/ (log # << >> /\ log[Len(log)] \in Final /\ status \in Final))
=============================================================================
