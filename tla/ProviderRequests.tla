-------------------------- MODULE ProviderRequests --------------------------
(***************************************************************************)
(* The D-Bus calls a provider serves for one account:                      *)
(*   - Handler.cpp: one Handler per call, from begin() to the reply;       *)
(*   - ProviderInterface.cpp: how handlers are made and destroyed, and the *)
(*     part of each method that matters to the handler;                    *)
(*   - OnlineAccountData.cpp, FixedAccountData.cpp: the credentials that   *)
(*     all handlers of the account share;                                  *)
(*   - ServerImpl.cpp: exit after inactivity.                              *)
(* Everything runs on the main loop.  What two handlers share is the       *)
(* account's credentials_ and auth_watcher_; between two slots of one      *)
(* handler any slot of another may run.                                    *)
(***************************************************************************)
EXTENDS InactivityTimer, FiniteSets

CONSTANTS
    Handlers,    \* one per D-Bus call
    Kinds,       \* what the calls ask for, see AllKinds
    Fixed,       \* TRUE: FixedAccountData, FALSE: OnlineAccountData
    MaxChanges   \* bound: how often the user changes the account

\* "finish" takes its job out of the table before it calls the provider, so
\* its callback throws a LogicException when it is run again.
AllKinds == {"plain", "create", "finish"}

ASSUME HandlersAssumption ==
    /\ IsFiniteSet(Handlers)
    /\ Kinds \subseteq AllKinds
    /\ Fixed \in BOOLEAN
    /\ MaxChanges \in Nat

VARIABLES
    pc,       \* the slot or future each handler waits for, see PCs
    kind,     \* what the call asks for, see AllKinds
    retry,    \* retry_
    context,  \* the credentials in context_
    refused,  \* the credentials of the handler's first call, if it was refused
    calls,    \* how often the provider's method was run for this handler
    reply,    \* reply_
    sent,     \* how many replies were sent
    job,      \* the upload or download a "create" call made: its ActivityNotifier
    creds,    \* credentials_; Blank is boost::blank
    session,  \* auth_watcher_ and the flags of the session it watches
    emissions,\* queued emissions of authenticated (FixedAccountData)
    token,    \* external: the account's current token at the service
    changes   \* how often the account was changed

handlerVars == <<pc, kind, retry, context, refused, calls, reply, sent, job>>
accountVars == <<creds, session, emissions, token, changes>>
vars == <<handlerVars, accountVars, timerVars>>

Blank == 0
PCs == {"idle",     \* the call has not arrived
        "auth",     \* connected to the authenticated signal
        "peer",     \* waiting for the caller's D-Bus credentials
        "call",     \* credentials_received is queued
        "open",     \* the future of the provider's method is open
        "unauth",   \* handle_unauthorized is queued
        "reply",    \* send_reply is queued
        "sent",     \* replied, deleteLater is queued
        "deleted"}
Errors == {"unauthorized", "error", "nosuchjob"}
Replies == {"none", "value"} \cup Errors
Session == [active : BOOLEAN, interactive : BOOLEAN, invalidate : BOOLEAN]

Init ==
    /\ pc = [h \in Handlers |-> "idle"]
    /\ kind = [h \in Handlers |-> "plain"]
    /\ retry = [h \in Handlers |-> FALSE]
    /\ context = [h \in Handlers |-> Blank]
    /\ refused = [h \in Handlers |-> Blank]
    /\ calls = [h \in Handlers |-> 0]
    /\ reply = [h \in Handlers |-> "none"]
    /\ sent = [h \in Handlers |-> 0]
    /\ job = [h \in Handlers |-> "none"]
    /\ creds = Blank
    \* The constructor of OnlineAccountData calls authenticate(false).
    /\ session = [active |-> ~Fixed, interactive |-> FALSE, invalidate |-> FALSE]
    /\ emissions = 0
    /\ token = 1
    /\ changes = 0
    /\ TimerInit

-----------------------------------------------------------------------------
(***************************************************************************)
(* AccountData.                                                            *)
(***************************************************************************)
HasCredentials == Fixed \/ creds # Blank

\* Does the running session meet the requirements of authenticate()?
SessionWillDo(interactive, invalidate) ==
    /\ session.active
    /\ IF invalidate THEN session.invalidate ELSE interactive => session.interactive

\* authenticate(): joins the running session or replaces it; the reply of a
\* replaced session is dropped together with its watcher.
Authenticate(interactive, invalidate) ==
    \/ /\ Fixed
       /\ emissions' = emissions + 1
       /\ UNCHANGED <<creds, session, token, changes>>
    \/ /\ ~Fixed
       /\ SessionWillDo(interactive, invalidate)
       /\ UNCHANGED accountVars
    \/ /\ ~Fixed
       /\ ~SessionWillDo(interactive, invalidate)
       /\ session' = [active |-> TRUE, interactive |-> interactive,
                      invalidate |-> invalidate]
       /\ creds' = Blank
       /\ UNCHANGED <<emissions, token, changes>>

\* Handler::on_authenticated of every handler that waits for the signal.
WakeHandlers(hasCredentials) ==
    /\ pc' = [h \in Handlers |->
                IF pc[h] # "auth" THEN pc[h] ELSE IF hasCredentials THEN "peer" ELSE "reply"]
    /\ reply' = [h \in Handlers |->
                IF pc[h] = "auth" /\ ~hasCredentials THEN "unauthorized" ELSE reply[h]]
    /\ UNCHANGED <<kind, retry, context, refused, calls, sent, job>>

\* on_authenticated(): the session's reply arrives.  A session that
\* invalidates the cache gets a new token, any other the current one.
Authenticated(success) ==
    /\ session.active
    /\ session' = [session EXCEPT !.active = FALSE]
    /\ token' = IF success /\ session.invalidate THEN token + 1 ELSE token
    /\ creds' = IF success THEN token' ELSE Blank
    /\ WakeHandlers(success)
    /\ UNCHANGED <<emissions, changes, timerVars>>

\* FixedAccountData: a queued emission of the signal.
EmitAuthenticated ==
    /\ emissions > 0
    /\ emissions' = emissions - 1
    /\ WakeHandlers(TRUE)
    /\ UNCHANGED <<creds, session, token, changes, timerVars>>

\* The user changes the account: on_changed()
Changed ==
    /\ ~Fixed /\ ~exited
    /\ changes < MaxChanges
    /\ changes' = changes + 1
    /\ token' = token + 1
    /\ creds' = IF session.active THEN creds ELSE Blank
    /\ UNCHANGED <<session, emissions, handlerVars, timerVars>>

-----------------------------------------------------------------------------
(***************************************************************************)
(* Handler.                                                                *)
(***************************************************************************)
\* begin() with retry_ = again; on_authenticated() runs at once when the
\* account has credentials.
Begin(h, again) ==
    IF HasCredentials /\ ~again
    THEN /\ pc' = [pc EXCEPT ![h] = "peer"]
         /\ UNCHANGED accountVars
    ELSE /\ pc' = [pc EXCEPT ![h] = "auth"]
         /\ Authenticate(TRUE, again)

\* queue_request(): a new Handler holds an ActivityNotifier from here on.
Arrive(h, k) ==
    /\ ~exited
    /\ pc[h] = "idle"
    /\ kind' = [kind EXCEPT ![h] = k]
    /\ Begin(h, FALSE)
    /\ RequestStarted
    /\ UNCHANGED <<retry, context, refused, calls, reply, sent, job>>

\* The continuation on DBusPeerCache::get: the account's credentials are read
\* here, not where they were checked.
PeerKnown(h) ==
    /\ pc[h] = "peer"
    /\ pc' = [pc EXCEPT ![h] = "call"]
    /\ context' = [context EXCEPT ![h] = creds]
    /\ UNCHANGED <<kind, retry, refused, calls, reply, sent, job, accountVars, timerVars>>

PeerUnknown(h) ==
    /\ pc[h] = "peer"
    /\ pc' = [pc EXCEPT ![h] = "reply"]
    /\ reply' = [reply EXCEPT ![h] = "unauthorized"]
    /\ UNCHANGED <<kind, retry, context, refused, calls, sent, job, accountVars, timerVars>>

\* A finish call that is run for the second time finds no job any more.
JobTaken(h) == kind[h] = "finish" /\ calls[h] > 0

\* credentials_received(): the provider's method returns a future ...
CallMethod(h) ==
    /\ pc[h] = "call"
    /\ ~JobTaken(h)
    /\ pc' = [pc EXCEPT ![h] = "open"]
    /\ calls' = [calls EXCEPT ![h] = @ + 1]
    /\ UNCHANGED <<kind, retry, context, refused, reply, sent, job, accountVars, timerVars>>

\* ... or throws, which goes to the client whatever the exception is.
MethodThrows(h, e) ==
    /\ pc[h] = "call"
    /\ e = "nosuchjob" <=> JobTaken(h)
    /\ pc' = [pc EXCEPT ![h] = "reply"]
    /\ calls' = [calls EXCEPT ![h] = IF JobTaken(h) THEN @ ELSE @ + 1]
    /\ reply' = [reply EXCEPT ![h] = e]
    /\ UNCHANGED <<kind, retry, context, refused, sent, job, accountVars, timerVars>>

\* Mutant: the job gets no ActivityNotifier.
MethodReturns_NoNotifier(h) ==
    /\ pc[h] = "open"
    /\ pc' = [pc EXCEPT ![h] = "reply"]
    /\ reply' = [reply EXCEPT ![h] = "value"]
    /\ job' = [job EXCEPT ![h] = IF kind[h] = "create" THEN "alive" ELSE @]
    /\ UNCHANGED <<kind, retry, context, refused, calls, sent, accountVars, timerVars>>

\* The future of the method becomes ready with a value.  For CreateFile, Update
\* and Download the job gets an ActivityNotifier of its own.
MethodReturns(h) ==
    /\ pc[h] = "open"
    /\ pc' = [pc EXCEPT ![h] = "reply"]
    /\ reply' = [reply EXCEPT ![h] = "value"]
    /\ IF kind[h] = "create"
       THEN job' = [job EXCEPT ![h] = "alive"] /\ RequestStarted
       ELSE UNCHANGED <<job, timerVars>>
    /\ UNCHANGED <<kind, retry, context, refused, calls, sent, accountVars>>

\* ... with an exception other than UnauthorizedException ...
MethodFails(h) ==
    /\ pc[h] = "open"
    /\ pc' = [pc EXCEPT ![h] = "reply"]
    /\ reply' = [reply EXCEPT ![h] = "error"]
    /\ UNCHANGED <<kind, retry, context, refused, calls, sent, job, accountVars, timerVars>>

\* ... or with UnauthorizedException.
MethodRefused(h) ==
    /\ pc[h] = "open"
    /\ pc' = [pc EXCEPT ![h] = "unauth"]
    /\ UNCHANGED <<kind, retry, context, refused, calls, reply, sent, job, accountVars,
                   timerVars>>

\* send_reply(); request_finished() queues the handler's deletion.
Send(h) ==
    /\ sent' = [sent EXCEPT ![h] = @ + 1]
    /\ pc' = [pc EXCEPT ![h] = "sent"]

SendReply(h) ==
    /\ pc[h] = "reply"
    /\ Send(h)
    /\ UNCHANGED <<kind, retry, context, refused, calls, reply, job, accountVars, timerVars>>

\* Mutant: retry_ is never set.
HandleUnauthorized_Forever(h) ==
    /\ pc[h] = "unauth"
    /\ refused' = [refused EXCEPT ![h] = context[h]]
    /\ Begin(h, TRUE)
    /\ UNCHANGED <<kind, retry, context, calls, reply, sent, job, timerVars>>

\* Mutant: the second attempt is made without new credentials.
HandleUnauthorized_Stale(h) ==
    /\ pc[h] = "unauth"
    /\ IF retry[h]
       THEN /\ reply' = [reply EXCEPT ![h] = "unauthorized"]
            /\ Send(h)
            /\ UNCHANGED <<retry, refused, accountVars>>
       ELSE /\ retry' = [retry EXCEPT ![h] = TRUE]
            /\ refused' = [refused EXCEPT ![h] = context[h]]
            /\ Begin(h, FALSE)
            /\ UNCHANGED <<reply, sent>>
    /\ UNCHANGED <<kind, context, calls, job, timerVars>>

HandleUnauthorized(h) ==
    /\ pc[h] = "unauth"
    /\ IF retry[h]
       THEN /\ reply' = [reply EXCEPT ![h] = "unauthorized"]
            /\ Send(h)
            /\ UNCHANGED <<retry, refused, accountVars>>
       ELSE /\ retry' = [retry EXCEPT ![h] = TRUE]
            /\ refused' = [refused EXCEPT ![h] = context[h]]
            /\ Begin(h, TRUE)
            /\ UNCHANGED <<reply, sent>>
    /\ UNCHANGED <<kind, context, calls, job, timerVars>>

\* The deferred deletion of the handler ends its ActivityNotifier.
Delete(h) ==
    /\ pc[h] = "sent"
    /\ pc' = [pc EXCEPT ![h] = "deleted"]
    /\ RequestFinished
    /\ UNCHANGED <<kind, retry, context, refused, calls, reply, sent, job, accountVars>>

\* The last reference to the job goes: finished, cancelled, or its client left.
JobReleased(h) ==
    /\ job[h] = "alive"
    /\ job' = [job EXCEPT ![h] = "gone"]
    /\ RequestFinished
    /\ UNCHANGED <<pc, kind, retry, context, refused, calls, reply, sent, accountVars>>

OnTimeout == Expire /\ UNCHANGED <<handlerVars, accountVars>>

-----------------------------------------------------------------------------
\* A process that has left its event loop handles nothing any more.
HandlerStep(h) ==
    /\ ~exited
    /\ \/ PeerKnown(h) \/ PeerUnknown(h)
       \/ CallMethod(h) \/ \E e \in Errors : MethodThrows(h, e)
       \/ MethodReturns(h) \/ MethodFails(h) \/ MethodRefused(h)
       \/ HandleUnauthorized(h) \/ SendReply(h) \/ Delete(h)

AccountStep ==
    /\ ~exited
    /\ (\E success \in BOOLEAN : Authenticated(success)) \/ EmitAuthenticated

Next ==
    \/ \E h \in Handlers, k \in Kinds : Arrive(h, k)
    \/ \E h \in Handlers : HandlerStep(h)
    \/ \E h \in Handlers : JobReleased(h)
    \/ AccountStep
    \/ Changed
    \/ OnTimeout

Spec == Init /\ [][Next]_vars

\* Queued slots are delivered, futures and authentication sessions end, the
\* timer fires.  Calls, account changes and the end of jobs are up to others.
FairSpec ==
    /\ Spec
    /\ \A h \in Handlers : WF_vars(HandlerStep(h))
    /\ WF_vars(AccountStep)
    /\ WF_vars(OnTimeout)

-----------------------------------------------------------------------------
(***************************************************************************)
(* Properties.                                                             *)
(***************************************************************************)
Active(h) == pc[h] \notin {"idle", "deleted"}
JobsAlive == {h \in Handlers : job[h] = "alive"}

\* Types of the variables of the handlers, the account and the timer.
TypeOK ==
    /\ pc \in [Handlers -> PCs]
    /\ kind \in [Handlers -> AllKinds]
    /\ retry \in [Handlers -> BOOLEAN]
    /\ context \in [Handlers -> Nat]
    /\ refused \in [Handlers -> Nat]
    /\ calls \in [Handlers -> Nat]
    /\ reply \in [Handlers -> Replies]
    /\ sent \in [Handlers -> Nat]
    /\ job \in [Handlers -> {"none", "alive", "gone"}]
    /\ creds \in Nat
    /\ session \in Session
    /\ emissions \in Nat
    /\ token \in Nat
    /\ changes \in Nat
    /\ TimerTypeOK

\* num_requests_ counts the living handlers and jobs exactly, and the timer
\* runs only while there are none and always once the last of them is gone
\* (ActivityNotifier objects are created and destroyed in pairs of calls).
ActivityCounted ==
    /\ numRequests = Cardinality({h \in Handlers : Active(h)}) + Cardinality(JobsAlive)
    /\ timer = "running" => numRequests = 0
    /\ numRequests = 0 /\ (\E h \in Handlers : pc[h] = "deleted")
            => timer = "running" \/ exited

\* TempfileUploadJob.h: the provider "will not exit while an upload is in
\* progress", nor with a call that is not answered yet.
ExitsOnlyIdle ==
    exited => \A h \in Handlers : ~Active(h) /\ job[h] # "alive"

\* tutorial.dox:499: the second attempt is made "with the new token": never
\* with the credentials that were refused.
RetryIsFresh ==
    \A h \in Handlers :
        pc[h] = "open" /\ retry[h] /\ refused[h] # Blank => context[h] # refused[h]

\* No handler waits for a signal that nobody is going to emit: someone waiting
\* for authenticated has a session, or an emission, under way.
NoLostWakeup ==
    (\E h \in Handlers : pc[h] = "auth") => session.active \/ emissions > 0

\* A handler that wants the cached token invalidated never waits for a session
\* that does not: replacing a session drops its reply (OnlineAccountData).
RetryWaitsForInvalidation ==
    \A h \in Handlers : pc[h] = "auth" /\ retry[h] /\ ~Fixed => session.invalidate

\* The account: credentials are dropped while a session runs, otherwise they
\* are the current token; a session that invalidates is also interactive, so
\* no later authenticate() replaces it.
AccountInv ==
    /\ creds \in {Blank, token}
    /\ token > 0
    /\ session.active => creds = Blank
    /\ session.active /\ session.invalidate => session.interactive
    /\ Fixed => creds = Blank /\ ~session.active
    /\ ~Fixed => emissions = 0

\* A handler that waits for the signal will get it, from a session that meets
\* its needs.
WaitInv ==
    \A h \in Handlers : pc[h] = "auth" =>
        IF Fixed THEN emissions > 0 ELSE session.active /\ (retry[h] => session.invalidate)

\* How far a handler is tells how often the method was run, whether there can
\* be a job and whether the reply was sent.
ProgressInv ==
    \A h \in Handlers :
        /\ sent[h] = IF pc[h] \in {"sent", "deleted"} THEN 1 ELSE 0
        /\ pc[h] = "idle" => ~retry[h]
        /\ pc[h] \in {"idle", "auth", "peer", "call"} => calls[h] = IF retry[h] THEN 1 ELSE 0
        /\ pc[h] \in {"open", "unauth"} => calls[h] = IF retry[h] THEN 2 ELSE 1
        /\ calls[h] <= 2
        /\ job[h] # "none" => pc[h] \in {"reply", "sent", "deleted"}

\* Tokens only grow, and a handler that retries has waited for a newer one.
FreshInv ==
    \A h \in Handlers :
        /\ context[h] <= token /\ refused[h] <= token
        /\ Fixed => context[h] = Blank /\ refused[h] = Blank
        /\ retry[h] /\ pc[h] = "peer" => refused[h] < token
        /\ retry[h] /\ pc[h] \in {"call", "open"}
             => context[h] = Blank \/ refused[h] < context[h]

\* The inductive invariant behind the properties of handlers and account.
IInv ==
    /\ TypeOK
    /\ AccountInv
    /\ WaitInv
    /\ ProgressInv
    /\ FreshInv
    /\ ActivityCounted
    /\ exited => numRequests = 0

\* The refinement mapping: what the client of a call can tell of it.
Status(h) ==
    IF pc[h] = "idle" THEN "idle" ELSE IF sent[h] > 0 THEN "answered" ELSE "open"

Abstract == INSTANCE RequestReply WITH
    Requests <- Handlers,
    status <- [h \in Handlers |-> Status(h)],
    calls <- calls,
    replies <- sent

\* Each call is answered exactly once, after at most two runs of the
\* provider's method, and each call is eventually answered.
AnswersOnce == Abstract!FairSpec

\* ProviderBase.h:63: the context has the "Credentials to authenticate with the
\* cloud provider": an online account's method is not run without them.
MethodHasCredentials ==
    \A h \in Handlers : pc[h] = "open" /\ ~Fixed => context[h] # Blank

\* tutorial.dox:500: "If that second attempt also throws UnauthorizedException,
\* the runtime propagates the error to the client": the second attempt is made.
RetryReachesProvider ==
    \A h \in Handlers : sent[h] > 0 /\ retry[h] => reply[h] # "nosuchjob"
=============================================================================
