------------------------------ MODULE Accounts ------------------------------
(***************************************************************************)
(* How a client finds an account and reaches its provider:                 *)
(*   - registry/internal: ListAccounts(), one ListAccountsHandler per call *)
(*     with its own account manager and time-out, in a process that is     *)
(*     started on demand and ends when it is idle (registry/main.cpp);     *)
(*   - provider/internal/ServerImpl.cpp: a provider process that follows   *)
(*     Online Accounts, exports an object per account and takes its bus    *)
(*     name, and the local provider, which has the single account 0;       *)
(*   - qt/client/.../remote_client/RuntimeImpl.cpp: accounts() of client   *)
(*     library v1, which asks Online Accounts itself.                      *)
(* External: Online Accounts, which may never answer, and the bus daemon.  *)
(* The daemon starts a service for a message to a name nobody owns and     *)
(* keeps the message until the name is taken.  To one process it delivers  *)
(* messages and signals in order, which is why a process has one inbox.    *)
(***************************************************************************)
EXTENDS Naturals, Sequences

CONSTANTS
    Own,         \* accounts of the online provider's service
    Other,       \* accounts of services that are no storage provider
    Local,       \* account 0, of the local provider
    Calls,       \* D-Bus calls of the clients
    MaxChanges   \* bound: how often an account is enabled or disabled

ASSUME AccountsAssumption ==
    /\ Own \cap Other = {} /\ Local \notin Own \cup Other
    /\ MaxChanges \in Nat

VARIABLES
    enabled,   \* external: the accounts that are enabled in Online Accounts
    changes,   \* how often that changed
    server,    \* the online provider's process: ServerImpl
    fixed,     \* the local provider's process: ServerImpl without a service id
    registry,  \* the registry's process
    call,      \* the clients' calls
    listed,    \* what clients were told: the accounts they may call
    v1         \* RuntimeImpl of client library v1

vars == <<enabled, changes, server, fixed, registry, call, listed, v1>>

Managed == Own \cup Other
\* What the registry's BUS_NAMES has a provider for.
Known == Own
Nobody == "nobody"

\* A process: not running, starting (without its name), running with its
\* name, or running for ever without it.
Process == [run |-> "off",
            asked |-> FALSE,     \* its account manager waits for Online Accounts
            objects |-> {},      \* the accounts in interfaces_
            inbox |-> <<>>,      \* messages and signals of the bus
            idle |-> FALSE]      \* the InactivityTimer is running

\* steady and ever follow what was enabled all the time, and at some time,
\* since the call was sent.
NoCall == [to |-> Nobody, account |-> Local, msg |-> "unsent", snapshot |-> {},
           reply |-> "none", list |-> {}, steady |-> {}, ever |-> {}]

\* timer_ runs while state is "started".
NewRuntime(state) == [state |-> state, asked |-> FALSE, ready |-> FALSE, destroyed |-> FALSE]

Init ==
    /\ enabled \in SUBSET Managed
    /\ changes = 0
    /\ server = Process /\ fixed = Process /\ registry = Process
    /\ call = [c \in Calls |-> NoCall]
    /\ listed = {}
    \* The clients use either version of the library.
    /\ v1 \in {NewRuntime("new"), NewRuntime("absent")}

-----------------------------------------------------------------------------
(***************************************************************************)
(* Online Accounts (external).                                             *)
(***************************************************************************)
Signal(type, a) == [type |-> type, accounts |-> {a}, call |-> Nobody]
Ready(accounts) == [type |-> "ready", accounts |-> accounts, call |-> Nobody]
Message(c) == [type |-> "call", accounts |-> {}, call |-> c]

\* The user enables or disables an account; running managers are signalled.
Toggle(a) ==
    /\ changes < MaxChanges
    /\ changes' = changes + 1
    /\ enabled' = IF a \in enabled THEN enabled \ {a} ELSE enabled \cup {a}
    /\ server' = IF server.run = "off" THEN server
                 ELSE [server EXCEPT !.inbox = Append(@,
                         Signal(IF a \in enabled THEN "disabled" ELSE "available", a))]
    /\ call' = [c \in Calls |-> IF call[c].msg = "unsent" THEN call[c]
                  ELSE [call[c] EXCEPT !.steady = @ \cap enabled', !.ever = @ \cup enabled']]
    /\ UNCHANGED <<fixed, registry, listed, v1>>

\* Online Accounts answers a manager; its ready signal follows.
AnswerServer ==
    /\ server.asked
    /\ server' = [server EXCEPT !.asked = FALSE, !.inbox = Append(@, Ready(enabled))]
    /\ UNCHANGED <<enabled, changes, fixed, registry, call, listed, v1>>

AnswerHandler(c) ==
    /\ call[c].msg = "waiting"
    /\ call' = [call EXCEPT ![c].msg = "ready", ![c].snapshot = enabled]
    /\ UNCHANGED <<enabled, changes, server, fixed, registry, listed, v1>>

AnswerRuntime ==
    /\ v1.asked /\ ~v1.destroyed
    /\ v1' = [v1 EXCEPT !.asked = FALSE, !.ready = TRUE]
    /\ UNCHANGED <<enabled, changes, server, fixed, registry, call, listed>>

-----------------------------------------------------------------------------
(***************************************************************************)
(* Clients and the bus daemon.                                             *)
(***************************************************************************)
Send(c, to, a) ==
    /\ call[c].msg = "unsent"
    /\ call' = [call EXCEPT ![c] = [@ EXCEPT !.to = to, !.account = a, !.msg = "held",
                                             !.steady = enabled, !.ever = enabled]]
    /\ UNCHANGED <<enabled, changes, server, fixed, registry, listed, v1>>

\* RuntimeImpl::accounts() of the v2 client
ListAccountsCall(c) == v1.state = "absent" /\ Send(c, "registry", Local)

\* Any method of an account that the client was told of
AccountCall(c) ==
    \E a \in listed : Send(c, IF a = Local THEN "fixed" ELSE "server", a)

\* The reply of a call; the client takes the first one.
Replied(c, what) ==
    [call[c] EXCEPT !.msg = "gone", !.reply = IF @ = "none" THEN what ELSE @]

\* The client's D-Bus time-out: 25 s, no call sets another.
TimeOutCall(c) ==
    /\ call[c].msg # "unsent" /\ call[c].reply = "none"
    /\ call' = [call EXCEPT ![c].reply = "error"]
    /\ UNCHANGED <<enabled, changes, server, fixed, registry, listed, v1>>

Held(to) == {c \in Calls : call[c].msg = "held" /\ call[c].to = to}

\* The daemon delivers a message to the owner of the name.
Deliver(c) ==
    /\ call[c].msg = "held"
    /\ \/ call[c].to = "server" /\ server.run = "named"
          /\ server' = [server EXCEPT !.inbox = Append(@, Message(c))]
          /\ UNCHANGED <<fixed, registry>>
       \/ call[c].to = "fixed" /\ fixed.run = "named"
          /\ fixed' = [fixed EXCEPT !.inbox = Append(@, Message(c))]
          /\ UNCHANGED <<server, registry>>
       \/ call[c].to = "registry" /\ registry.run = "named"
          /\ registry' = [registry EXCEPT !.inbox = Append(@, Message(c))]
          /\ UNCHANGED <<server, fixed>>
    /\ call' = [call EXCEPT ![c].msg = "queued"]
    /\ UNCHANGED <<enabled, changes, listed, v1>>

\* A process ends: the daemon answers what it had not replied to.
EndOf(to) ==
    call' = [c \in Calls |->
        IF call[c].to = to /\ call[c].msg \notin {"unsent", "held", "gone"}
        THEN Replied(c, "error") ELSE call[c]]

\* A process ends before it has its name: what was held for it fails.
FailedStart(to) ==
    call' = [c \in Calls |-> IF c \in Held(to) THEN Replied(c, "error") ELSE call[c]]

-----------------------------------------------------------------------------
(***************************************************************************)
(* ServerImpl: the online provider.                                        *)
(***************************************************************************)
\* Mutant: the name is taken before the accounts are known.
StartServer_NamedFirst ==
    /\ server.run = "off" /\ Held("server") # {}
    /\ server' = [Process EXCEPT !.run = "named", !.asked = TRUE]
    /\ UNCHANGED <<enabled, changes, fixed, registry, call, listed, v1>>

\* init(): a manager is made and asks Online Accounts.
StartServer ==
    /\ server.run = "off" /\ Held("server") # {}
    /\ server' = [Process EXCEPT !.run = "starting", !.asked = TRUE]
    /\ UNCHANGED <<enabled, changes, fixed, registry, call, listed, v1>>

\* add_account() of each account of the service; known ones are left alone.
AddAccounts(objects, accounts) == objects \cup (accounts \cap Own)

Head1 == Head(server.inbox)
Took(s) == [s EXCEPT !.inbox = Tail(@)]

\* on_account_manager_ready() when register_bus_name() succeeds
ManagerReady ==
    /\ server.inbox # <<>> /\ Head1.type = "ready"
    /\ server' = [Took(server) EXCEPT !.objects = AddAccounts(@, Head1.accounts), !.run = "named"]
    /\ UNCHANGED <<enabled, changes, fixed, registry, call, listed, v1>>

\* ... and when it fails: the application exits.
ManagerReadyNoName ==
    /\ server.run = "starting"
    /\ server.inbox # <<>> /\ Head1.type = "ready"
    /\ server' = Process
    /\ FailedStart("server")
    /\ UNCHANGED <<enabled, changes, fixed, registry, listed, v1>>

\* on_account_available(): also before the manager is ready
AccountAvailable ==
    /\ server.inbox # <<>> /\ Head1.type = "available"
    /\ server' = [Took(server) EXCEPT
                    !.objects = AddAccounts(@, Head1.accounts)]
    /\ UNCHANGED <<enabled, changes, fixed, registry, call, listed, v1>>

Serving(to) == {c \in Calls : call[c].to = to /\ call[c].msg = "handled"}

\* The Handlers of a removed account are destroyed without a reply.
Orphaned(a) ==
    [c \in Calls |-> IF call[c].account = a /\ c \in Serving("server")
                     THEN [call[c] EXCEPT !.msg = "gone"] ELSE call[c]]

\* on_account_disabled(), remove_account()
AccountDisabled ==
    /\ server.inbox # <<>> /\ Head1.type = "disabled"
    /\ \E a \in Head1.accounts :
         /\ server' = [Took(server) EXCEPT !.objects = @ \ {a}, !.idle = @ \/
                         (Serving("server") # {} /\
                          \A c \in Serving("server") : call[c].account = a)]
         /\ call' = Orphaned(a)
    /\ UNCHANGED <<enabled, changes, fixed, registry, listed, v1>>

\* A call arrives: Qt replies UnknownObject when no object has its path; a
\* Handler holds up the inactivity timer.
Arrived(s) ==
    LET c == Head(s.inbox).call IN
      /\ s.run = "named" /\ s.inbox # <<>> /\ Head(s.inbox).type = "call"
      /\ call' = [call EXCEPT ![c] = IF @.account \in s.objects
                                     THEN [@ EXCEPT !.msg = "handled"] ELSE Replied(c, "unknown")]

AfterArrival(s) ==
    [Took(s) EXCEPT !.idle = @ /\ call[Head(s.inbox).call].account \notin s.objects]

ServerCall ==
    /\ Arrived(server)
    /\ server' = AfterArrival(server)
    /\ UNCHANGED <<enabled, changes, fixed, registry, listed, v1>>

\* A Handler replies and goes (ProviderRequests has the details).
ServerReply(c) ==
    /\ c \in Serving("server")
    /\ call' = [call EXCEPT ![c] = Replied(c, "ok")]
    /\ server' = [server EXCEPT !.idle = Serving("server") = {c}]
    /\ UNCHANGED <<enabled, changes, fixed, registry, listed, v1>>

\* on_timeout(): messages that wait are lost, and so are the accounts.
ServerIdle ==
    /\ server.idle
    /\ server' = Process
    /\ EndOf("server")
    /\ UNCHANGED <<enabled, changes, fixed, registry, listed, v1>>

-----------------------------------------------------------------------------
(***************************************************************************)
(* ServerImpl without a service id: the local provider.                    *)
(***************************************************************************)
\* init(): the account first, then the name.  When the name is refused,
\* exit(1) has no effect, because the event loop does not run yet: the
\* process stays, without a name.  When the provider cannot be made, main()
\* ends.
StartFixed ==
    /\ fixed.run \in {"off", "nameless"} /\ Held("fixed") # {}
    /\ \/ fixed' = [Process EXCEPT !.objects = {Local}, !.run = "named"]
          /\ UNCHANGED call
       \/ fixed' = [Process EXCEPT !.objects = {Local}, !.run = "nameless"]
          /\ FailedStart("fixed")
       \/ FailedStart("fixed") /\ UNCHANGED fixed
    /\ UNCHANGED <<enabled, changes, server, registry, listed, v1>>

FixedCall ==
    /\ Arrived(fixed)
    /\ fixed' = AfterArrival(fixed)
    /\ UNCHANGED <<enabled, changes, server, registry, listed, v1>>

FixedReply(c) ==
    /\ c \in Serving("fixed")
    /\ call' = [call EXCEPT ![c] = Replied(c, "ok")]
    /\ fixed' = [fixed EXCEPT !.idle = Serving("fixed") = {c}]
    /\ UNCHANGED <<enabled, changes, server, registry, listed, v1>>

FixedIdle ==
    /\ fixed.idle
    /\ fixed' = Process
    /\ EndOf("fixed")
    /\ UNCHANGED <<enabled, changes, server, registry, listed, v1>>

-----------------------------------------------------------------------------
(***************************************************************************)
(* The registry.                                                           *)
(***************************************************************************)
\* main(): object and name, or the process ends.
StartRegistry ==
    /\ registry.run = "off" /\ Held("registry") # {}
    /\ \/ registry' = [Process EXCEPT !.run = "named"] /\ UNCHANGED call
       \/ FailedStart("registry") /\ UNCHANGED registry
    /\ UNCHANGED <<enabled, changes, server, fixed, listed, v1>>

\* RegistryAdaptor::ListAccounts(): a handler is made; its notifier holds up
\* the inactivity timer.
ListAccounts ==
    /\ registry.run = "named" /\ registry.inbox # <<>>
    /\ registry' = [Took(registry) EXCEPT !.idle = FALSE]
    /\ call' = [call EXCEPT ![Head(registry.inbox).call].msg = "waiting"]
    /\ UNCHANGED <<enabled, changes, server, fixed, listed, v1>>

\* Mutant: every account is reported, as if it had a provider.
HandlerReady_NoFilter(c) ==
    /\ call[c].msg = "ready"
    /\ call' = [call EXCEPT ![c].msg = "closing", ![c].reply = IF @ = "none" THEN "ok" ELSE @,
                            ![c].list = call[c].snapshot \cup {Local}]
    /\ listed' = listed \cup call'[c].list
    /\ UNCHANGED <<enabled, changes, server, fixed, registry, v1>>

\* ListAccountsHandler::manager_ready(): the reply is sent and the handler
\* waits for its deletion.
HandlerReady(c) ==
    /\ call[c].msg = "ready"
    /\ call' = [call EXCEPT ![c].msg = "closing", ![c].reply = IF @ = "none" THEN "ok" ELSE @,
                            ![c].list = (call[c].snapshot \cap Known) \cup {Local}]
    /\ listed' = IF call[c].reply = "none" THEN listed \cup call'[c].list ELSE listed
    /\ UNCHANGED <<enabled, changes, server, fixed, registry, v1>>

\* Mutant: the handler is not deleted when it timed out.
HandlerTimeout_Stays(c) ==
    /\ call[c].msg \in {"waiting", "ready"}
    /\ call[c].reply = "none"
    /\ call' = [call EXCEPT ![c].reply = "error"]
    /\ UNCHANGED <<enabled, changes, server, fixed, registry, listed, v1>>

\* ListAccountsHandler::timeout().  A ready signal that comes before the
\* deletion finds the slot still connected and sends a second reply, which
\* the client no longer waits for.
HandlerTimeout(c) ==
    /\ call[c].msg \in {"waiting", "ready"}
    /\ call' = [call EXCEPT ![c].msg = "closing", ![c].reply = IF @ = "none" THEN "error" ELSE @]
    /\ UNCHANGED <<enabled, changes, server, fixed, registry, listed, v1>>

Handling == {c \in Calls : call[c].msg \in {"waiting", "ready", "closing"}}

\* The deferred deletion: the last handler starts the inactivity timer.
DeleteHandler(c) ==
    /\ call[c].msg = "closing"
    /\ call' = [call EXCEPT ![c].msg = "gone"]
    /\ registry' = [registry EXCEPT !.idle = Handling = {c}]
    /\ UNCHANGED <<enabled, changes, server, fixed, listed, v1>>

\* The inactivity timer ends main().
RegistryIdle ==
    /\ registry.idle
    /\ registry' = Process
    /\ EndOf("registry")
    /\ UNCHANGED <<enabled, changes, server, fixed, listed, v1>>

-----------------------------------------------------------------------------
(***************************************************************************)
(* RuntimeImpl of client library v1.  All calls of accounts() share one    *)
(* future; only the first one asks Online Accounts.                        *)
(***************************************************************************)
\* accounts() before shutdown
V1Accounts ==
    /\ ~v1.destroyed /\ v1.state = "new"
    /\ v1' = [v1 EXCEPT !.state = "started", !.asked = TRUE]
    /\ UNCHANGED <<enabled, changes, server, fixed, registry, call, listed>>

\* accounts() after shutdown: an exception, unless the future has ended.
V1AccountsDestroyed ==
    /\ v1.destroyed /\ v1.state \in {"new", "started"}
    /\ v1' = [v1 EXCEPT !.state = "ended"]
    /\ UNCHANGED <<enabled, changes, server, fixed, registry, call, listed>>

\* manager_ready(): the accounts of the services in v1's own BUS_NAMES, or an
\* exception after a shutdown; after a time-out the future stays as it is.
V1ManagerReady ==
    /\ v1.ready
    /\ v1' = [v1 EXCEPT !.ready = FALSE, !.state = "ended"]
    /\ listed' = IF v1.destroyed \/ v1.state = "ended" THEN listed ELSE listed \cup (enabled \cap Known)
    /\ UNCHANGED <<enabled, changes, server, fixed, registry, call>>

\* timeout() of the 5 s timer, which shutdown() does not stop
V1Timeout ==
    /\ v1.state = "started"
    /\ v1' = [v1 EXCEPT !.state = "ended"]
    /\ UNCHANGED <<enabled, changes, server, fixed, registry, call, listed>>

\* shutdown(): the bus connection is closed.
V1Shutdown ==
    /\ ~v1.destroyed /\ v1.state # "absent"
    /\ v1' = [v1 EXCEPT !.destroyed = TRUE]
    /\ UNCHANGED <<enabled, changes, server, fixed, registry, call, listed>>

-----------------------------------------------------------------------------
ServerSlot ==
    ManagerReady \/ ManagerReadyNoName \/ AccountAvailable \/ AccountDisabled \/ ServerCall

HandlerSlot(c) == HandlerReady(c) \/ HandlerTimeout(c) \/ DeleteHandler(c)

Next ==
    \/ \E a \in Managed : Toggle(a)
    \/ AnswerServer \/ AnswerRuntime
    \/ StartServer \/ ServerSlot \/ ServerIdle
    \/ StartFixed \/ FixedCall \/ FixedIdle
    \/ StartRegistry \/ ListAccounts \/ RegistryIdle
    \/ V1Accounts \/ V1AccountsDestroyed \/ V1ManagerReady \/ V1Timeout \/ V1Shutdown
    \/ \E c \in Calls :
         \/ ListAccountsCall(c) \/ AccountCall(c) \/ TimeOutCall(c) \/ Deliver(c)
         \/ AnswerHandler(c) \/ HandlerSlot(c)
         \/ ServerReply(c) \/ FixedReply(c)

\* The daemon delivers, starts services and answers for processes that ended;
\* main loops run their slots and timers; a provider's Handlers reply.
\* Nothing is assumed of Online Accounts, of the user, or of the clients.
Fairness ==
    /\ WF_vars(StartRegistry) /\ WF_vars(ListAccounts) /\ WF_vars(RegistryIdle)
    /\ WF_vars(StartFixed) /\ WF_vars(FixedCall)
    /\ \A c \in Calls :
         /\ WF_vars(Deliver(c)) /\ WF_vars(FixedReply(c))
         /\ WF_vars(HandlerReady(c) \/ HandlerTimeout(c)) /\ WF_vars(DeleteHandler(c))
    /\ WF_vars(V1ManagerReady) /\ WF_vars(V1Timeout)

Spec == Init /\ [][Next]_vars /\ Fairness

-----------------------------------------------------------------------------
TypeOK ==
    /\ enabled \subseteq Managed /\ listed \subseteq Managed \cup {Local}
    /\ server.objects \subseteq Own /\ fixed.objects \subseteq {Local}
    /\ registry.objects = {}
    /\ \A c \in Calls :
         /\ call[c].msg \in {"unsent", "held", "queued", "handled", "waiting", "ready",
                             "closing", "gone"}
         /\ call[c].reply \in {"none", "ok", "unknown", "error"}
    /\ v1.state \in {"absent", "new", "started", "ended"}

\* A provider's answer fits its account: UnknownObject is never the answer
\* for an account that was enabled from the call to the answer, not even when
\* the provider was just started or had an older view of the accounts, and an
\* account that was disabled all the time is never served.  This is what the
\* order in ServerImpl (accounts first, then the bus name) is for.
AnswersFitTheAccount ==
    \A c \in Calls : call[c].to = "server" =>
        /\ call[c].reply = "unknown" => call[c].account \notin call[c].steady
        /\ call[c].reply = "ok" => call[c].account \in call[c].ever

\* A list the registry returns has every account of a storage provider that
\* was enabled all through the call, none that was disabled all through it or
\* has no provider, and always the local account.
ListsFitTheAccounts ==
    \A c \in Calls : call[c].to = "registry" /\ call[c].reply = "ok" =>
        /\ Local \in call[c].list
        /\ Own \cap call[c].steady \subseteq call[c].list
        /\ call[c].list \subseteq (Own \cap call[c].ever) \cup {Local}

\* Every ListAccounts() call and every call to the local account gets an
\* answer, and the registry ends after it, even if Online Accounts never
\* answers: the handler's time-out sees to both.  The future of v1's
\* accounts() ends as well, shut down or not.
AccountsAnswered ==
    /\ \A c \in Calls : call[c].msg = "held" /\ call[c].to # "server" ~> call[c].reply # "none"
    /\ registry.run = "named" ~> registry.run = "off"
    /\ v1.state = "started" ~> v1.state = "ended"
=============================================================================
