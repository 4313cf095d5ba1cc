--------------------------- MODULE AccountsProofs ---------------------------
(***************************************************************************)
(* Proofs about Accounts, for any accounts, any number of calls and any    *)
(* number of changes in Online Accounts: a provider's answer fits the      *)
(* account, and a list of the registry fits the accounts.                  *)
(***************************************************************************)
EXTENDS Accounts, TLAPS

(***************************************************************************)
(* What a provider will think of an account.                               *)
(***************************************************************************)
Adds(m, a) == m.type \in {"ready", "available"} /\ a \in m.accounts
Removes(m, a) == m.type = "disabled" /\ a \in m.accounts

\* Whether the provider exports the account once it has handled the first k messages
\* of the inbox q, if its objects are now objs.
View(q, objs, a, k) ==
    \/ \E i \in 1..k : Adds(q[i], a) /\ \A j \in (i + 1)..k : ~ Removes(q[j], a)
    \/ a \in objs /\ \A j \in 1..k : ~ Removes(q[j], a)

MessageType ==
    [type : {"available", "disabled", "ready", "call"}, accounts : SUBSET Managed,
     call : Calls \cup {Nobody}]

\* The view before the first message, after one, and after one more.
LEMMA ViewEmpty ==
  ASSUME NEW q, NEW objs, NEW a
  PROVE  View(q, objs, a, 0) <=> a \in objs
  BY DEF View

LEMMA ViewOne ==
  ASSUME NEW q, NEW objs, NEW a
  PROVE  View(q, objs, a, 1) <=> Adds(q[1], a) \/ (a \in objs /\ ~ Removes(q[1], a))
  BY DEF View

LEMMA ViewMore ==
  ASSUME NEW q \in Seq(MessageType), NEW objs, NEW a, NEW m \in MessageType
  PROVE  /\ \A k \in 0..Len(q) : View(Append(q, m), objs, a, k) <=> View(q, objs, a, k)
         /\ View(Append(q, m), objs, a, Len(q) + 1) <=>
               Adds(m, a) \/ (View(q, objs, a, Len(q)) /\ ~ Removes(m, a))
<1> DEFINE r == Append(q, m)
<1>1. /\ Len(q) \in Nat /\ Len(r) = Len(q) + 1 /\ r[Len(q) + 1] = m
      /\ \A i \in 1..Len(q) : r[i] = q[i]
  OBVIOUS
<1> HIDE DEF r
<1>2. ASSUME NEW k \in 0..Len(q)
      PROVE  View(r, objs, a, k) <=> View(q, objs, a, k)
  <2>1. \A i \in 1..k : r[i] = q[i] /\ \A j \in (i + 1)..k : r[j] = q[j]
    BY <1>1
  <2> QED
    BY <2>1 DEF View
<1>3. ASSUME View(r, objs, a, Len(q) + 1)
      PROVE  Adds(m, a) \/ (View(q, objs, a, Len(q)) /\ ~ Removes(m, a))
  <2>1. CASE a \in objs /\ \A j \in 1..(Len(q) + 1) : ~ Removes(r[j], a)
    BY <1>1, <2>1 DEF View
  <2>2. ASSUME NEW i \in 1..(Len(q) + 1), Adds(r[i], a), \A j \in (i + 1)..(Len(q) + 1) : ~ Removes(r[j], a)
        PROVE  Adds(m, a) \/ (View(q, objs, a, Len(q)) /\ ~ Removes(m, a))
    <3>1. CASE i = Len(q) + 1
      BY <1>1, <2>2, <3>1
    <3>2. CASE i \in 1..Len(q)
      <4>1. ~ Removes(m, a) /\ Adds(q[i], a)
        BY <1>1, <2>2, <3>2
      <4>2. \A j \in (i + 1)..Len(q) : ~ Removes(q[j], a)
        BY <1>1, <2>2, <3>2
      <4> QED
        BY <3>2, <4>1, <4>2 DEF View
    <3> QED
      BY <1>1, <3>1, <3>2
  <2> QED
    BY <1>3, <2>1, <2>2 DEF View
<1>4. ASSUME Adds(m, a) PROVE View(r, objs, a, Len(q) + 1)
  BY <1>1, <1>4 DEF View
<1>5. ASSUME View(q, objs, a, Len(q)), ~ Removes(m, a) PROVE View(r, objs, a, Len(q) + 1)
  <2>1. CASE a \in objs /\ \A j \in 1..Len(q) : ~ Removes(q[j], a)
    BY <1>1, <1>5, <2>1 DEF View
  <2>2. ASSUME NEW i \in 1..Len(q), Adds(q[i], a), \A j \in (i + 1)..Len(q) : ~ Removes(q[j], a)
        PROVE  View(r, objs, a, Len(q) + 1)
    <3>1. \A j \in (i + 1)..(Len(q) + 1) : ~ Removes(r[j], a)
      BY <1>1, <1>5, <2>2
    <3> QED
      BY <1>1, <2>2, <3>1 DEF View
  <2> QED
    BY <1>5, <2>1, <2>2 DEF View
<1> QED
  BY <1>2, <1>3, <1>4, <1>5 DEF r

\* Handling the first message leaves the view of what comes later as it was.
LEMMA ViewTail ==
  ASSUME NEW q \in Seq(MessageType), q # <<>>, NEW objs, NEW new, NEW a,
         a \in new <=> Adds(Head(q), a) \/ (a \in objs /\ ~ Removes(Head(q), a))
  PROVE  \A k \in 0..(Len(q) - 1) : View(Tail(q), new, a, k) <=> View(q, objs, a, k + 1)
<1> DEFINE r == Tail(q)
<1>1. /\ Len(q) \in Nat \ {0} /\ Len(r) = Len(q) - 1 /\ q[1] = Head(q)
      /\ \A i \in 1..(Len(q) - 1) : r[i] = q[i + 1]
  OBVIOUS
<1> HIDE DEF r
<1> SUFFICES ASSUME NEW k \in 0..(Len(q) - 1)
             PROVE  View(r, new, a, k) <=> View(q, objs, a, k + 1)
  BY DEF r
<1>2. ASSUME View(r, new, a, k) PROVE View(q, objs, a, k + 1)
  <2>1. ASSUME NEW i \in 1..k, Adds(r[i], a), \A j \in (i + 1)..k : ~ Removes(r[j], a)
        PROVE  View(q, objs, a, k + 1)
    <3>1. Adds(q[i + 1], a) /\ i + 1 \in 1..(k + 1)
      BY <1>1, <2>1
    <3>2. ASSUME NEW j \in (i + 2)..(k + 1) PROVE ~ Removes(q[j], a)
      <4>1. j - 1 \in (i + 1)..k /\ r[j - 1] = q[j]
        BY <1>1
      <4> QED
        BY <2>1, <4>1
    <3>3. \A j \in ((i + 1) + 1)..(k + 1) : ~ Removes(q[j], a)
      BY <3>2
    <3> QED
      BY <3>1, <3>3 DEF View
  <2>2. CASE a \in new /\ \A j \in 1..k : ~ Removes(r[j], a)
    <3>1. ASSUME NEW j \in 2..(k + 1) PROVE ~ Removes(q[j], a)
      <4>1. j - 1 \in 1..k /\ r[j - 1] = q[j]
        BY <1>1
      <4> QED
        BY <2>2, <4>1
    <3>2. CASE Adds(q[1], a)
      <4>1. 1 \in 1..(k + 1) /\ \A j \in (1 + 1)..(k + 1) : ~ Removes(q[j], a)
        BY <3>1
      <4> QED
        BY <3>2, <4>1 DEF View
    <3>3. CASE a \in objs /\ ~ Removes(q[1], a)
      <4>1. \A j \in 1..(k + 1) : ~ Removes(q[j], a)
        BY <3>1, <3>3
      <4> QED
        BY <3>3, <4>1 DEF View
    <3> QED
      BY <1>1, <2>2, <3>2, <3>3
  <2> QED
    BY <1>2, <2>1, <2>2 DEF View
<1>3. ASSUME View(q, objs, a, k + 1) PROVE View(r, new, a, k)
  <2>1. ASSUME NEW i \in 1..(k + 1), Adds(q[i], a), \A j \in (i + 1)..(k + 1) : ~ Removes(q[j], a)
        PROVE  View(r, new, a, k)
    <3>1. CASE i = 1
      <4>1. ASSUME NEW j \in 1..k PROVE ~ Removes(r[j], a)
        <5>1. j + 1 \in (1 + 1)..(k + 1) /\ r[j] = q[j + 1]
          BY <1>1
        <5> QED
          BY <2>1, <3>1, <5>1
      <4> QED
        BY <1>1, <2>1, <3>1, <4>1 DEF View
    <3>2. CASE i > 1
      <4>1. i - 1 \in 1..k /\ Adds(r[i - 1], a)
        BY <1>1, <2>1, <3>2
      <4>2. ASSUME NEW j \in ((i - 1) + 1)..k PROVE ~ Removes(r[j], a)
        <5>1. j + 1 \in (i + 1)..(k + 1) /\ r[j] = q[j + 1]
          BY <1>1, <3>2
        <5> QED
          BY <2>1, <5>1
      <4> QED
        BY <4>1, <4>2 DEF View
    <3> QED
      BY <3>1, <3>2
  <2>2. CASE a \in objs /\ \A j \in 1..(k + 1) : ~ Removes(q[j], a)
    <3>1. a \in new
      BY <1>1, <2>2
    <3>2. ASSUME NEW j \in 1..k PROVE ~ Removes(r[j], a)
      <4>1. j + 1 \in 1..(k + 1) /\ r[j] = q[j + 1]
        BY <1>1
      <4> QED
        BY <2>2, <4>1
    <3> QED
      BY <3>1, <3>2 DEF View
  <2> QED
    BY <1>3, <2>1, <2>2 DEF View
<1> QED
  BY <1>2, <1>3

-----------------------------------------------------------------------------
(***************************************************************************)
(* The inductive invariant.                                                *)
(***************************************************************************)
CallType ==
    [to : {"server", "fixed", "registry", Nobody}, account : Managed \cup {Local},
     msg : {"unsent", "held", "queued", "handled", "waiting", "ready", "closing", "gone"},
     snapshot : SUBSET Managed, reply : {"none", "ok", "unknown", "error"},
     list : SUBSET (Managed \cup {Local}), steady : SUBSET Managed, ever : SUBSET Managed]

ProcessType ==
    [run : {"off", "starting", "named", "nameless"}, asked : BOOLEAN,
     objects : SUBSET (Managed \cup {Local}), inbox : Seq(MessageType), idle : BOOLEAN]

AccountTypes ==
    /\ enabled \in SUBSET Managed
    /\ server \in ProcessType /\ fixed \in ProcessType /\ registry \in ProcessType
    /\ call \in [Calls -> CallType]
    /\ listed \in SUBSET (Own \cup {Local})

\* What the registry may return for the accounts that were enabled all the time and
\* at some time.
ListOK(job) ==
    /\ Local \in job.list
    /\ Own \cap job.steady \subseteq job.list
    /\ job.list \subseteq (Own \cap job.ever) \cup {Local}

\* A call: the accounts that it follows lie on both sides of the enabled ones, en, and
\* what handlers and clients were told fits them.
CallOK(job, en) ==
    /\ job.msg = "unsent" => job.reply = "none"
    /\ job.msg # "unsent" => job.steady \subseteq en /\ en \subseteq job.ever
    /\ job.to = "server" => job.account \in Own
    /\ job.to = "server" /\ job.msg = "handled" => job.account \in job.ever
    /\ job.to = "server" /\ job.reply = "unknown" => job.account \notin job.steady
    /\ job.to = "server" /\ job.reply = "ok" => job.account \in job.ever
    /\ job.msg \in {"waiting", "ready", "closing"} => job.to = "registry"
    /\ job.msg = "ready" => job.steady \subseteq job.snapshot /\ job.snapshot \subseteq job.ever
    /\ job.to = "registry" /\ job.reply = "ok" => ListOK(job)

CallsInv == \A c \in Calls : CallOK(call[c], enabled)

\* When the provider has handled its inbox, it exports what is enabled, or less as long
\* as Online Accounts has not answered; and it has no name until then.
ServerInv(s, en) ==
    /\ s.run = "off" => s.inbox = <<>> /\ ~ s.asked
    /\ s.run = "named" => ~ s.asked
    /\ s.asked => \A i \in 1..Len(s.inbox) : s.inbox[i].type # "ready"
    /\ s.run # "off" => \A a \in Own :
          /\ View(s.inbox, s.objects, a, Len(s.inbox)) => a \in en
          /\ a \in en => s.asked \/ View(s.inbox, s.objects, a, Len(s.inbox))

\* A signal of a disabled account is about one account.
SignalsInv(q) ==
    \A i \in 1..Len(q) : q[i].type = "disabled" => \E a \in Managed : q[i].accounts = {a}

\* A call in the inbox of a process was sent to it.
SentTo(m, to, calls) ==
    m.type = "call" => m.call \in Calls /\ calls[m.call].msg # "unsent" /\ calls[m.call].to = to

InboxOK(q, to, calls) == \A i \in 1..Len(q) : SentTo(q[i], to, calls)

\* When the provider comes to a call, it exports the account if that was enabled all
\* the time, and only if it was enabled at some time.
ViewFits(q, objs, job, k) ==
    /\ job.account \in job.steady => View(q, objs, job.account, k)
    /\ View(q, objs, job.account, k) => job.account \in job.ever

ViewsInv(q, objs, calls) ==
    \A k \in 1..Len(q) : q[k].type = "call" => ViewFits(q, objs, calls[q[k].call], k)

ServerOK(s, en, calls) ==
    /\ s \in ProcessType
    /\ ServerInv(s, en)
    /\ SignalsInv(s.inbox)
    /\ InboxOK(s.inbox, "server", calls)
    /\ ViewsInv(s.inbox, s.objects, calls)

\* The inbox of the registry holds nothing but calls.
OnlyCalls(q) == \A i \in 1..Len(q) : q[i].type = "call"

AccountsIInv ==
    /\ AccountTypes
    /\ CallsInv
    /\ ServerOK(server, enabled, call)
    /\ InboxOK(fixed.inbox, "fixed", call)
    /\ InboxOK(registry.inbox, "registry", call) /\ OnlyCalls(registry.inbox)

-----------------------------------------------------------------------------
(***************************************************************************)
(* Steps keep what inboxes say of calls.                                   *)
(***************************************************************************)
\* A call that was sent stays the same call.
Follows ==
    \A c \in Calls : call[c].msg # "unsent" =>
        /\ call'[c].msg # "unsent" /\ call'[c].to = call[c].to /\ call'[c].account = call[c].account
        /\ call'[c].steady \subseteq call[c].steady /\ call[c].ever \subseteq call'[c].ever

LEMMA InboxKept ==
  ASSUME Follows, NEW q, NEW to, InboxOK(q, to, call)
  PROVE  InboxOK(q, to, call')
  BY DEF Follows, InboxOK, SentTo

LEMMA ServerKept ==
  ASSUME Follows, NEW s, NEW en, ServerOK(s, en, call)
  PROVE  ServerOK(s, en, call')
<1>1. InboxOK(s.inbox, "server", call')
  BY InboxKept DEF ServerOK
<1>2. ViewsInv(s.inbox, s.objects, call')
  <2> SUFFICES ASSUME NEW k \in 1..Len(s.inbox), s.inbox[k].type = "call"
               PROVE  ViewFits(s.inbox, s.objects, call'[s.inbox[k].call], k)
    BY DEF ViewsInv
  <2> DEFINE c == s.inbox[k].call
  <2>1. c \in Calls /\ call[c].msg # "unsent"
    BY DEF ServerOK, InboxOK, SentTo
  <2>2. ViewFits(s.inbox, s.objects, call[c], k)
    BY DEF ServerOK, ViewsInv
  <2> HIDE DEF c
  <2>3. /\ call'[c].account = call[c].account
        /\ call'[c].steady \subseteq call[c].steady /\ call[c].ever \subseteq call'[c].ever
    BY <2>1 DEF Follows
  <2>4. ViewFits(s.inbox, s.objects, call'[c], k)
    BY <2>2, <2>3 DEF ViewFits
  <2> QED
    BY <2>4 DEF c
<1> QED
  BY <1>1, <1>2 DEF ServerOK

\* A step keeps the invariant if it keeps its parts: the calls on their own, and the
\* processes as the calls were before it.
LEMMA PartsKept ==
  ASSUME AccountsIInv, Follows, call' \in [Calls -> CallType], CallsInv',
         enabled' \in SUBSET Managed, listed' \in SUBSET (Own \cup {Local}),
         ServerOK(server', enabled', call),
         fixed' \in ProcessType, InboxOK(fixed'.inbox, "fixed", call),
         registry' \in ProcessType, InboxOK(registry'.inbox, "registry", call), OnlyCalls(registry'.inbox)
  PROVE  AccountsIInv'
<1>1. ServerOK(server', enabled', call')
  BY ServerKept
<1>2. InboxOK(fixed'.inbox, "fixed", call') /\ InboxOK(registry'.inbox, "registry", call')
  BY InboxKept
<1>3. AccountTypes'
  BY DEF ServerOK, AccountTypes
<1> QED
  BY <1>1, <1>2, <1>3 DEF AccountsIInv

\* One call changes, and the accounts do not.
LEMMA CallKept ==
  ASSUME AccountsIInv, NEW c \in Calls, NEW job \in CallType, call' = [call EXCEPT ![c] = job],
         CallOK(job, enabled), enabled' = enabled,
         call[c].msg # "unsent" => /\ job.msg # "unsent" /\ job.to = call[c].to
                                   /\ job.account = call[c].account
                                   /\ job.steady = call[c].steady /\ job.ever = call[c].ever
  PROVE  call' \in [Calls -> CallType] /\ CallsInv' /\ Follows
<1>1. call \in [Calls -> CallType]
  BY DEF AccountsIInv, AccountTypes
<1>2. call' \in [Calls -> CallType] /\ \A d \in Calls : call'[d] = IF d = c THEN job ELSE call[d]
  BY <1>1
<1>3. CallsInv'
  <2> SUFFICES ASSUME NEW d \in Calls PROVE CallOK(call'[d], enabled')
    BY DEF CallsInv
  <2> QED
    BY <1>2 DEF AccountsIInv, CallsInv
<1>4. Follows
  BY <1>2 DEF Follows
<1> QED
  BY <1>2, <1>3, <1>4

\* What the invariant says of one call, and of the processes.
LEMMA CallFacts ==
  ASSUME AccountsIInv
  PROVE  /\ call \in [Calls -> CallType]
         /\ \A c \in Calls : call[c] \in CallType /\ CallOK(call[c], enabled)
         /\ server \in ProcessType /\ fixed \in ProcessType /\ registry \in ProcessType
         /\ ServerOK(server, enabled, call)
         /\ enabled \in SUBSET Managed /\ listed \in SUBSET (Own \cup {Local})
         /\ InboxOK(fixed.inbox, "fixed", call)
         /\ InboxOK(registry.inbox, "registry", call) /\ OnlyCalls(registry.inbox)
  BY DEF AccountsIInv, AccountTypes, CallsInv

\* Only one call changes.
LEMMA OnlyCallKept ==
  ASSUME AccountsIInv, NEW c \in Calls, NEW job \in CallType, call' = [call EXCEPT ![c] = job],
         CallOK(job, enabled), enabled' = enabled, UNCHANGED <<server, fixed, registry>>,
         listed' \in SUBSET (Own \cup {Local}),
         call[c].msg # "unsent" => /\ job.msg # "unsent" /\ job.to = call[c].to
                                   /\ job.account = call[c].account
                                   /\ job.steady = call[c].steady /\ job.ever = call[c].ever
  PROVE  AccountsIInv'
<1>1. call' \in [Calls -> CallType] /\ CallsInv' /\ Follows
  BY CallKept
<1>2. /\ ServerOK(server', enabled', call) /\ enabled' \in SUBSET Managed
      /\ fixed' \in ProcessType /\ InboxOK(fixed'.inbox, "fixed", call)
      /\ registry' \in ProcessType /\ InboxOK(registry'.inbox, "registry", call)
      /\ OnlyCalls(registry'.inbox)
  BY CallFacts
<1> QED
  BY <1>1, <1>2, PartsKept

-----------------------------------------------------------------------------
(***************************************************************************)
(* Steps of the provider's process.                                        *)
(***************************************************************************)
LEMMA ProcessTyped == Process \in ProcessType
<1>1. <<>> \in Seq(MessageType) /\ {} \in SUBSET (Managed \cup {Local})
  OBVIOUS
<1> QED
  BY <1>1 DEF Process, ProcessType

\* A process that does not run.
LEMMA EndedOK ==
  ASSUME AccountsIInv
  PROVE  ServerOK(Process, enabled, call)
<1>1. Process.inbox = <<>> /\ Process.run = "off" /\ ~ Process.asked
  BY DEF Process
<1> QED
  BY <1>1, ProcessTyped DEF ServerOK, ServerInv, SignalsInv, InboxOK, ViewsInv

\* A change of the inactivity timer.
LEMMA TimerOK ==
  ASSUME NEW s, NEW en, NEW calls, ServerOK(s, en, calls), NEW t \in ProcessType,
         t.run = s.run, t.asked = s.asked, t.inbox = s.inbox, t.objects = s.objects
  PROVE  ServerOK(t, en, calls)
  BY DEF ServerOK, ServerInv

\* The account of a call in the provider's inbox.
LEMMA InboxAccount ==
  ASSUME AccountsIInv, NEW k \in 1..Len(server.inbox), server.inbox[k].type = "call"
  PROVE  /\ server.inbox[k].call \in Calls
         /\ call[server.inbox[k].call].msg # "unsent" /\ call[server.inbox[k].call].to = "server"
         /\ call[server.inbox[k].call].account \in Own
         /\ ViewFits(server.inbox, server.objects, call[server.inbox[k].call], k)
<1>1. /\ server.inbox[k].call \in Calls
      /\ call[server.inbox[k].call].msg # "unsent" /\ call[server.inbox[k].call].to = "server"
  BY DEF AccountsIInv, ServerOK, InboxOK, SentTo
<1>2. call[server.inbox[k].call].account \in Own
  BY <1>1, CallFacts DEF CallOK
<1>3. ViewFits(server.inbox, server.objects, call[server.inbox[k].call], k)
  BY DEF AccountsIInv, ServerOK, ViewsInv
<1> QED
  BY <1>1, <1>2, <1>3

\* With one more message in its inbox, the provider comes to think what is enabled.
Tells(m, en, asked) ==
    \A a \in Own :
        LET after == \/ Adds(m, a)
                     \/ View(server.inbox, server.objects, a, Len(server.inbox)) /\ ~ Removes(m, a)
        IN  (after => a \in en) /\ (a \in en => asked \/ after)

Queued(t, m) == t.inbox = Append(server.inbox, m)

\* A message is added to the provider's inbox; en is what is enabled then.
LEMMA AppendOK ==
  ASSUME AccountsIInv, NEW m \in MessageType, NEW t \in ProcessType, NEW en \in SUBSET Managed,
         Queued(t, m), t.objects = server.objects,
         t.run = server.run, server.run # "off",
         t.asked => server.asked /\ m.type # "ready",
         m.type = "disabled" => \E a \in Managed : m.accounts = {a},
         SentTo(m, "server", call), m.type = "call" => server.run = "named",
         Tells(m, en, t.asked)
  PROVE  ServerOK(t, en, call)
<1> DEFINE q == server.inbox
           n == Len(server.inbox)
<1>1. ServerOK(server, enabled, call) /\ server \in ProcessType
  BY CallFacts
<1>2. q \in Seq(MessageType) /\ n \in Nat
  BY <1>1 DEF ProcessType
<1>3. /\ Len(t.inbox) = n + 1 /\ t.inbox[n + 1] = m
      /\ \A i \in 1..n : t.inbox[i] = q[i]
      /\ t.inbox # <<>>
  BY <1>2 DEF Queued
<1>4. ASSUME NEW a
      PROVE  /\ \A k \in 0..n : View(t.inbox, t.objects, a, k) <=> View(q, server.objects, a, k)
             /\ View(t.inbox, t.objects, a, n + 1) <=>
                   Adds(m, a) \/ (View(q, server.objects, a, n) /\ ~ Removes(m, a))
  <2>1. /\ \A k \in 0..Len(q) : View(Append(q, m), t.objects, a, k) <=> View(q, t.objects, a, k)
        /\ View(Append(q, m), t.objects, a, Len(q) + 1) <=>
              Adds(m, a) \/ (View(q, t.objects, a, Len(q)) /\ ~ Removes(m, a))
    BY <1>2, ViewMore, Zenon
  <2>2. Append(q, m) = t.inbox
    BY DEF Queued
  <2> QED
    BY <2>1, <2>2, Zenon
<1> HIDE DEF q, n
<1>5. ServerInv(t, en)
  <2>1. t.run # "off" /\ (t.run = "named" => ~ t.asked)
    BY <1>1 DEF ServerOK, ServerInv
  <2>2. t.asked => \A i \in 1..(n + 1) : t.inbox[i].type # "ready"
    <3> SUFFICES ASSUME t.asked, NEW i \in 1..(n + 1) PROVE t.inbox[i].type # "ready"
      OBVIOUS
    <3>1. CASE i = n + 1
      BY <1>3, <3>1
    <3>2. CASE i \in 1..n
      BY <1>1, <1>3, <3>2 DEF ServerOK, ServerInv, q, n
    <3> QED
      BY <1>2, <3>1, <3>2
  <2>3. ASSUME NEW a \in Own
        PROVE  /\ View(t.inbox, t.objects, a, n + 1) => a \in en
               /\ a \in en => t.asked \/ View(t.inbox, t.objects, a, n + 1)
    BY <1>4 DEF Tells, q, n
  <2> QED
    BY <1>3, <2>1, <2>2, <2>3 DEF ServerInv
<1>6. SignalsInv(t.inbox)
  <2> SUFFICES ASSUME NEW i \in 1..(n + 1), t.inbox[i].type = "disabled"
               PROVE  \E a \in Managed : t.inbox[i].accounts = {a}
    BY <1>3 DEF SignalsInv
  <2>1. CASE i = n + 1
    BY <1>3, <2>1
  <2>2. CASE i \in 1..n
    BY <1>1, <1>3, <2>2 DEF ServerOK, SignalsInv, q, n
  <2> QED
    BY <1>2, <2>1, <2>2
<1>7. InboxOK(t.inbox, "server", call)
  <2> SUFFICES ASSUME NEW i \in 1..(n + 1) PROVE SentTo(t.inbox[i], "server", call)
    BY <1>3 DEF InboxOK
  <2>1. CASE i = n + 1
    BY <1>3, <2>1
  <2>2. CASE i \in 1..n
    BY <1>1, <1>3, <2>2 DEF ServerOK, InboxOK, q, n
  <2> QED
    BY <1>2, <2>1, <2>2
<1>8. ViewsInv(t.inbox, t.objects, call)
  <2> SUFFICES ASSUME NEW k \in 1..(n + 1), t.inbox[k].type = "call"
               PROVE  ViewFits(t.inbox, t.objects, call[t.inbox[k].call], k)
    BY <1>3 DEF ViewsInv
  <2> DEFINE c == t.inbox[k].call
  <2>1. CASE k \in 1..n
    <3>1. t.inbox[k] = q[k]
      BY <1>3, <2>1
    <3>2. ViewFits(q, server.objects, call[c], k)
      BY <2>1, <3>1, InboxAccount DEF q, n
    <3>3. k \in 0..n
      BY <1>2, <2>1
    <3> QED
      BY <1>4, <3>2, <3>3 DEF ViewFits
  <2>2. CASE k = n + 1
    <3>1. c \in Calls /\ call[c].msg # "unsent" /\ call[c].to = "server" /\ c = m.call /\ m.type = "call"
      BY <1>3, <2>2 DEF SentTo
    <3>2. call[c].account \in Own /\ call[c].steady \subseteq enabled /\ enabled \subseteq call[c].ever
      BY <3>1, CallFacts DEF CallOK
    <3>3. server.run = "named" /\ ~ server.asked
      BY <1>1, <3>1 DEF ServerOK, ServerInv
    <3>4. View(q, server.objects, call[c].account, n) <=> call[c].account \in enabled
      BY <1>1, <3>2, <3>3 DEF ServerOK, ServerInv, q, n
    <3>5. View(t.inbox, t.objects, call[c].account, n + 1) <=> call[c].account \in enabled
      <4>1. ~ Adds(m, call[c].account) /\ ~ Removes(m, call[c].account)
        BY <3>1 DEF Adds, Removes
      <4> QED
        BY <1>4, <3>4, <4>1
    <3> HIDE DEF c
    <3>6. ViewFits(t.inbox, t.objects, call[c], n + 1)
      BY <3>2, <3>5 DEF ViewFits
    <3> QED
      BY <2>2, <3>6 DEF c
  <2> QED
    BY <1>2, <2>1, <2>2
<1> QED
  BY <1>5, <1>6, <1>7, <1>8 DEF ServerOK

\* The provider handles the first message of its inbox.
LEMMA TailOK ==
  ASSUME AccountsIInv, NEW t \in ProcessType, server.inbox # <<>>,
         t.inbox = Tail(server.inbox), t.asked = server.asked,
         t.run = server.run \/ (t.run = "named" /\ Head(server.inbox).type = "ready"),
         \A a \in Own : a \in t.objects <=>
             \/ Adds(Head(server.inbox), a)
             \/ a \in server.objects /\ ~ Removes(Head(server.inbox), a)
  PROVE  ServerOK(t, enabled, call)
<1> DEFINE q == server.inbox
           n == Len(server.inbox)
<1>1. ServerOK(server, enabled, call) /\ server \in ProcessType
  BY CallFacts
<1>2. q \in Seq(MessageType) /\ n \in Nat \ {0}
  BY <1>1 DEF ProcessType
<1>3. /\ Len(t.inbox) = n - 1 /\ Head(q) = q[1]
      /\ \A i \in 1..(n - 1) : t.inbox[i] = q[i + 1] /\ i + 1 \in 1..n
  BY <1>2
<1>4. ASSUME NEW a \in Own, NEW k \in 0..(n - 1)
      PROVE  View(t.inbox, t.objects, a, k) <=> View(q, server.objects, a, k + 1)
  BY <1>2, ViewTail
<1>5. server.run # "off"
  BY <1>1 DEF ServerOK, ServerInv
<1> HIDE DEF q, n
<1>6. ServerInv(t, enabled)
  <2>1. t.run # "off" /\ (t.run = "named" => ~ t.asked)
    <3>1. Head(q).type = "ready" => ~ server.asked
      BY <1>1, <1>2, <1>3 DEF ServerOK, ServerInv, q, n
    <3> QED
      BY <1>1, <1>5, <3>1 DEF ServerOK, ServerInv, q
  <2>2. t.asked => \A i \in 1..(n - 1) : t.inbox[i].type # "ready"
    BY <1>1, <1>3 DEF ServerOK, ServerInv, q, n
  <2>3. ASSUME NEW a \in Own
        PROVE  /\ View(t.inbox, t.objects, a, n - 1) => a \in enabled
               /\ a \in enabled => t.asked \/ View(t.inbox, t.objects, a, n - 1)
    <3>1. n - 1 \in 0..(n - 1) /\ (n - 1) + 1 = n
      BY <1>2
    <3>2. View(t.inbox, t.objects, a, n - 1) <=> View(q, server.objects, a, n)
      BY <1>4, <3>1
    <3> QED
      BY <1>1, <1>5, <3>2 DEF ServerOK, ServerInv, q, n
  <2> QED
    BY <1>3, <2>1, <2>2, <2>3 DEF ServerInv
<1>7. SignalsInv(t.inbox)
  BY <1>1, <1>3 DEF ServerOK, SignalsInv, q, n
<1>8. InboxOK(t.inbox, "server", call)
  BY <1>1, <1>3 DEF ServerOK, InboxOK, q, n
<1>9. ViewsInv(t.inbox, t.objects, call)
  <2> SUFFICES ASSUME NEW k \in 1..(n - 1), t.inbox[k].type = "call"
               PROVE  ViewFits(t.inbox, t.objects, call[t.inbox[k].call], k)
    BY <1>3 DEF ViewsInv
  <2> DEFINE c == t.inbox[k].call
  <2>1. t.inbox[k] = q[k + 1] /\ k + 1 \in 1..n /\ k \in 0..(n - 1)
    BY <1>2, <1>3
  <2>2. call[c].account \in Own /\ ViewFits(q, server.objects, call[c], k + 1)
    BY <2>1, InboxAccount DEF q, n
  <2> HIDE DEF c
  <2>3. ViewFits(t.inbox, t.objects, call[c], k)
    BY <1>4, <2>1, <2>2 DEF ViewFits
  <2> QED
    BY <2>3 DEF c
<1> QED
  BY <1>6, <1>7, <1>8, <1>9 DEF ServerOK
-----------------------------------------------------------------------------
(***************************************************************************)
(* Replies.                                                                *)
(***************************************************************************)
LEMMA RepliedOK ==
  ASSUME AccountsIInv, NEW c \in Calls, NEW what \in {"ok", "unknown", "error"},
         call[c].msg # "unsent",
         what = "ok" => call[c].to # "registry" /\ (call[c].to = "server" => call[c].account \in call[c].ever),
         what = "unknown" => (call[c].to = "server" => call[c].account \notin call[c].steady)
  PROVE  /\ Replied(c, what) \in CallType /\ CallOK(Replied(c, what), enabled)
         /\ Replied(c, what).msg = "gone" /\ Replied(c, what).to = call[c].to
         /\ Replied(c, what).account = call[c].account
         /\ Replied(c, what).steady = call[c].steady /\ Replied(c, what).ever = call[c].ever
<1> DEFINE job == Replied(c, what)
           r == IF call[c].reply = "none" THEN what ELSE call[c].reply
<1>1. call[c] \in CallType /\ CallOK(call[c], enabled)
  BY CallFacts
<1>2. job = [call[c] EXCEPT !.msg = "gone", !.reply = r]
  BY DEF Replied
<1>3. r \in {"none", "ok", "unknown", "error"}
  BY <1>1 DEF CallType
<1>4. r = call[c].reply \/ r = what
  OBVIOUS
<1> HIDE DEF r
<1>5. job \in CallType
  BY <1>1, <1>2, <1>3 DEF CallType
<1>6. /\ job.msg = "gone" /\ job.reply = r /\ job.to = call[c].to /\ job.account = call[c].account
      /\ job.steady = call[c].steady /\ job.ever = call[c].ever /\ job.list = call[c].list
      /\ job.snapshot = call[c].snapshot
  BY <1>1, <1>2 DEF CallType
<1> HIDE DEF job
<1>7. CallOK(job, enabled)
  BY <1>1, <1>4, <1>6 DEF CallOK, ListOK
<1> QED
  BY <1>5, <1>6, <1>7 DEF job

\* A Handler that goes without a reply.
LEMMA OrphanedOK ==
  ASSUME AccountsIInv, NEW c \in Calls, call[c].msg # "unsent"
  PROVE  LET job == [call[c] EXCEPT !.msg = "gone"]
         IN  /\ job \in CallType /\ CallOK(job, enabled)
             /\ job.msg = "gone" /\ job.to = call[c].to /\ job.account = call[c].account
             /\ job.steady = call[c].steady /\ job.ever = call[c].ever
<1> DEFINE job == [call[c] EXCEPT !.msg = "gone"]
<1>1. call[c] \in CallType /\ CallOK(call[c], enabled)
  BY CallFacts
<1>2. job \in CallType
  BY <1>1 DEF CallType
<1>3. /\ job.msg = "gone" /\ job.reply = call[c].reply /\ job.to = call[c].to
      /\ job.account = call[c].account /\ job.steady = call[c].steady /\ job.ever = call[c].ever
      /\ job.list = call[c].list /\ job.snapshot = call[c].snapshot
  BY <1>1 DEF CallType
<1> HIDE DEF job
<1>4. CallOK(job, enabled)
  BY <1>1, <1>3 DEF CallOK, ListOK
<1> QED
  BY <1>2, <1>3, <1>4 DEF job

\* Any number of calls end with an error, or without a reply.
LEMMA ManyKept ==
  ASSUME AccountsIInv, enabled' = enabled, NEW f, call' = [c \in Calls |-> f[c]],
         \A c \in Calls :
            \/ f[c] = call[c]
            \/ call[c].msg # "unsent" /\ f[c] \in {Replied(c, "error"), [call[c] EXCEPT !.msg = "gone"]}
  PROVE  call' \in [Calls -> CallType] /\ CallsInv' /\ Follows
<1>1. ASSUME NEW c \in Calls
      PROVE  /\ call'[c] \in CallType /\ CallOK(call'[c], enabled)
             /\ call[c].msg # "unsent" =>
                  /\ call'[c].msg # "unsent" /\ call'[c].to = call[c].to
                  /\ call'[c].account = call[c].account
                  /\ call'[c].steady = call[c].steady /\ call'[c].ever = call[c].ever
  <2>1. call'[c] = f[c]
    OBVIOUS
  <2>2. CASE f[c] = call[c]
    BY <2>1, <2>2, CallFacts
  <2>3. CASE call[c].msg # "unsent" /\ f[c] = Replied(c, "error")
    BY <2>1, <2>3, RepliedOK
  <2>4. CASE call[c].msg # "unsent" /\ f[c] = [call[c] EXCEPT !.msg = "gone"]
    BY <2>1, <2>4, OrphanedOK
  <2> QED
    BY <2>2, <2>3, <2>4
<1>2. call' \in [Calls -> CallType]
  BY <1>1
<1>3. CallsInv'
  <2> SUFFICES ASSUME NEW c \in Calls PROVE CallOK(call'[c], enabled')
    BY DEF CallsInv
  <2> QED
    BY <1>1
<1>4. Follows
  BY <1>1 DEF Follows
<1> QED
  BY <1>2, <1>3, <1>4

\* The bus daemon answers for a process.
LEMMA DaemonAnswers ==
  ASSUME AccountsIInv, enabled' = enabled, NEW to, EndOf(to) \/ FailedStart(to)
  PROVE  call' \in [Calls -> CallType] /\ CallsInv' /\ Follows
<1>1. CASE EndOf(to)
  <2> DEFINE f == [c \in Calls |-> IF call[c].to = to /\ call[c].msg \notin {"unsent", "held", "gone"}
                                   THEN Replied(c, "error") ELSE call[c]]
  <2>1. call' = [c \in Calls |-> f[c]]
    BY <1>1 DEF EndOf
  <2>2. ASSUME NEW c \in Calls
        PROVE  f[c] = call[c] \/ (call[c].msg # "unsent" /\ f[c] = Replied(c, "error"))
    OBVIOUS
  <2> HIDE DEF f
  <2> QED
    BY <2>1, <2>2, ManyKept
<1>2. CASE FailedStart(to)
  <2> DEFINE f == [c \in Calls |-> IF c \in Held(to) THEN Replied(c, "error") ELSE call[c]]
  <2>1. call' = [c \in Calls |-> f[c]]
    BY <1>2 DEF FailedStart
  <2>2. ASSUME NEW c \in Calls
        PROVE  f[c] = call[c] \/ (call[c].msg # "unsent" /\ f[c] = Replied(c, "error"))
    BY DEF Held
  <2> HIDE DEF f
  <2> QED
    BY <2>1, <2>2, ManyKept
<1> QED
  BY <1>1, <1>2

\* Nothing happens to the calls.
LEMMA CallsUnchanged ==
  ASSUME AccountsIInv, enabled' = enabled, call' = call
  PROVE  call' \in [Calls -> CallType] /\ CallsInv' /\ Follows
<1>1. CallsInv'
  BY CallFacts DEF CallsInv
<1> QED
  BY <1>1, CallFacts DEF Follows
-----------------------------------------------------------------------------
(***************************************************************************)
(* Steps of one process.                                                   *)
(***************************************************************************)
CallsKept == call' \in [Calls -> CallType] /\ CallsInv' /\ Follows

LEMMA ServerStep ==
  ASSUME AccountsIInv, CallsKept, UNCHANGED <<enabled, listed, fixed, registry>>,
         ServerOK(server', enabled, call)
  PROVE  AccountsIInv'
  BY CallFacts, PartsKept DEF CallsKept

LEMMA FixedStep ==
  ASSUME AccountsIInv, CallsKept, UNCHANGED <<enabled, listed, server, registry>>,
         fixed' \in ProcessType, InboxOK(fixed'.inbox, "fixed", call)
  PROVE  AccountsIInv'
  BY CallFacts, PartsKept DEF CallsKept

LEMMA RegistryStep ==
  ASSUME AccountsIInv, CallsKept, UNCHANGED <<enabled, listed, server, fixed>>,
         registry' \in ProcessType, InboxOK(registry'.inbox, "registry", call),
         OnlyCalls(registry'.inbox)
  PROVE  AccountsIInv'
  BY CallFacts, PartsKept DEF CallsKept

LEMMA EmptyInbox ==
  ASSUME NEW to, NEW calls
  PROVE  /\ Process.inbox = <<>> /\ InboxOK(Process.inbox, to, calls) /\ OnlyCalls(Process.inbox)
         /\ InboxOK(<<>>, to, calls) /\ OnlyCalls(<<>>)
  BY DEF Process, InboxOK, OnlyCalls

LEMMA TailInbox ==
  ASSUME NEW q \in Seq(MessageType), q # <<>>, NEW to, NEW calls, InboxOK(q, to, calls)
  PROVE  /\ Tail(q) \in Seq(MessageType) /\ InboxOK(Tail(q), to, calls)
         /\ OnlyCalls(q) => OnlyCalls(Tail(q))
         /\ SentTo(Head(q), to, calls) /\ (OnlyCalls(q) => Head(q).type = "call")
<1>1. /\ Tail(q) \in Seq(MessageType) /\ Len(Tail(q)) = Len(q) - 1 /\ Len(q) \in Nat \ {0}
      /\ Head(q) = q[1] /\ 1 \in 1..Len(q)
      /\ \A i \in 1..(Len(q) - 1) : Tail(q)[i] = q[i + 1] /\ i + 1 \in 1..Len(q)
  OBVIOUS
<1> QED
  BY <1>1 DEF InboxOK, OnlyCalls

LEMMA AppendInbox ==
  ASSUME NEW q \in Seq(MessageType), NEW m \in MessageType, NEW to, NEW calls,
         InboxOK(q, to, calls), SentTo(m, to, calls)
  PROVE  /\ Append(q, m) \in Seq(MessageType) /\ InboxOK(Append(q, m), to, calls)
         /\ OnlyCalls(q) /\ m.type = "call" => OnlyCalls(Append(q, m))
<1>1. /\ Append(q, m) \in Seq(MessageType) /\ Len(Append(q, m)) = Len(q) + 1 /\ Len(q) \in Nat
      /\ Append(q, m)[Len(q) + 1] = m
      /\ \A i \in 1..Len(q) : Append(q, m)[i] = q[i]
  OBVIOUS
<1>2. \A i \in 1..(Len(q) + 1) : i = Len(q) + 1 \/ i \in 1..Len(q)
  BY <1>1
<1> QED
  BY <1>1, <1>2 DEF InboxOK, OnlyCalls

\* A process as it is once its inbox has changed.
LEMMA NewInbox ==
  ASSUME NEW s \in ProcessType, NEW q \in Seq(MessageType)
  PROVE  LET t == [s EXCEPT !.inbox = q]
         IN  /\ t \in ProcessType /\ t.inbox = q /\ t.run = s.run /\ t.asked = s.asked
             /\ t.objects = s.objects /\ t.idle = s.idle
  BY DEF ProcessType

LEMMA NewTimer ==
  ASSUME NEW s \in ProcessType, NEW b \in BOOLEAN
  PROVE  LET t == [s EXCEPT !.idle = b]
         IN  /\ t \in ProcessType /\ t.inbox = s.inbox /\ t.run = s.run /\ t.asked = s.asked
             /\ t.objects = s.objects
  BY DEF ProcessType

LEMMA StartServerStep ==
  ASSUME AccountsIInv, StartServer
  PROVE  AccountsIInv'
<1> DEFINE s == [Process EXCEPT !.run = "starting", !.asked = TRUE]
<1>1. /\ s \in ProcessType /\ s.run = "starting" /\ s.asked /\ s.inbox = <<>> /\ s.objects = {}
  BY ProcessTyped DEF Process, ProcessType
<1>2. server' = s /\ UNCHANGED <<enabled, listed, fixed, registry, call>>
  BY DEF StartServer
<1> HIDE DEF s
<1>3. ServerInv(s, enabled)
  <2>1. \A a \in Own : ~ View(s.inbox, s.objects, a, 0)
    BY <1>1, ViewEmpty
  <2> QED
    BY <1>1, <2>1 DEF ServerInv
<1>4. ServerOK(s, enabled, call)
  BY <1>1, <1>3 DEF ServerOK, SignalsInv, InboxOK, ViewsInv
<1>5. CallsKept
  BY <1>2, CallsUnchanged DEF CallsKept
<1> QED
  BY <1>2, <1>4, <1>5, ServerStep

\* ServerImpl loses its process, and the daemon answers.
LEMMA ServerEndStep ==
  ASSUME AccountsIInv, ServerIdle \/ ManagerReadyNoName
  PROVE  AccountsIInv'
<1>1. server' = Process /\ UNCHANGED <<enabled, listed, fixed, registry>>
  BY DEF ServerIdle, ManagerReadyNoName
<1>2. CallsKept
  BY <1>1, DaemonAnswers DEF ServerIdle, ManagerReadyNoName, CallsKept
<1>3. ServerOK(server', enabled, call)
  BY <1>1, EndedOK
<1> QED
  BY <1>1, <1>2, <1>3, ServerStep

\* The account manager's answer.
LEMMA AnswerServerStep ==
  ASSUME AccountsIInv, AnswerServer
  PROVE  AccountsIInv'
<1> DEFINE m == Ready(enabled)
           q == Append(server.inbox, m)
           s == [server EXCEPT !.asked = FALSE, !.inbox = q]
<1>1. server \in ProcessType /\ enabled \in SUBSET Managed /\ server.asked
      /\ ServerInv(server, enabled)
  BY CallFacts DEF AnswerServer, ServerOK
<1>2. m \in MessageType /\ m.type = "ready" /\ m.accounts = enabled
  BY <1>1 DEF Ready, MessageType
<1>3. server.inbox \in Seq(MessageType)
  BY <1>1 DEF ProcessType
<1>4. server' = s /\ UNCHANGED <<enabled, listed, fixed, registry, call>>
  BY DEF AnswerServer
<1> HIDE DEF m
<1>5. q \in Seq(MessageType)
  BY <1>2, <1>3
<1> HIDE DEF q
<1>6. /\ s \in ProcessType /\ s.inbox = q /\ ~ s.asked /\ s.run = server.run /\ s.objects = server.objects
  BY <1>1, <1>5 DEF ProcessType
<1> HIDE DEF s
<1>7. Queued(s, m)
  BY <1>6 DEF Queued, q
<1>8. server.run # "off"
  BY <1>1 DEF ServerInv
<1>9. Tells(m, enabled, s.asked)
  BY <1>1, <1>2, <1>8 DEF Tells, Adds, Removes, ServerInv
<1>10. SentTo(m, "server", call)
  BY <1>2 DEF SentTo
<1>11. ServerOK(s, enabled, call)
  BY <1>1, <1>2, <1>6, <1>7, <1>8, <1>9, <1>10, AppendOK
<1>12. CallsKept
  BY <1>4, CallsUnchanged DEF CallsKept
<1> QED
  BY <1>4, <1>11, <1>12, ServerStep

\* The slots of ServerImpl that handle a signal.
LEMMA ReadyStep ==
  ASSUME AccountsIInv, ManagerReady \/ AccountAvailable
  PROVE  AccountsIInv'
<1> DEFINE q == server.inbox
           o == AddAccounts(server.objects, Head(q).accounts)
<1>1. /\ server \in ProcessType /\ q # <<>> /\ Head(q).type \in {"ready", "available"}
      /\ UNCHANGED <<enabled, listed, fixed, registry, call>>
  BY CallFacts DEF ManagerReady, AccountAvailable, Head1
<1>2. q \in Seq(MessageType) /\ server.objects \in SUBSET (Managed \cup {Local})
  BY <1>1 DEF ProcessType
<1>3. Tail(q) \in Seq(MessageType) /\ Head(q) \in MessageType
  BY <1>1, <1>2
<1>4. o \in SUBSET (Managed \cup {Local}) /\ \A a \in Own : a \in o <=>
          Adds(Head(q), a) \/ (a \in server.objects /\ ~ Removes(Head(q), a))
  BY <1>1, <1>2 DEF AddAccounts, Adds, Removes, Managed
<1>5. /\ Took(server) \in ProcessType /\ Took(server).inbox = Tail(q) /\ Took(server).run = server.run
      /\ Took(server).asked = server.asked /\ Took(server).objects = server.objects
  BY <1>1, <1>3, NewInbox DEF Took
<1>6. \/ /\ server' = [Took(server) EXCEPT !.objects = o, !.run = "named"]
         /\ Head(q).type = "ready"
      \/ server' = [Took(server) EXCEPT !.objects = o]
  BY <1>5 DEF ManagerReady, AccountAvailable, Head1
<1> HIDE DEF o
<1>7. /\ server' \in ProcessType /\ server'.inbox = Tail(q) /\ server'.objects = o
      /\ server'.asked = server.asked
      /\ server'.run = server.run \/ (server'.run = "named" /\ Head(q).type = "ready")
  <2>1. CASE server' = [Took(server) EXCEPT !.objects = o, !.run = "named"] /\ Head(q).type = "ready"
    BY <1>4, <1>5, <2>1 DEF ProcessType
  <2>2. CASE server' = [Took(server) EXCEPT !.objects = o]
    BY <1>4, <1>5, <2>2 DEF ProcessType
  <2> QED
    BY <1>6, <2>1, <2>2
<1>8. ServerOK(server', enabled, call)
  BY <1>1, <1>4, <1>7, TailOK
<1>9. CallsKept
  BY <1>1, CallsUnchanged DEF CallsKept
<1> QED
  BY <1>1, <1>8, <1>9, ServerStep

LEMMA DisabledStep ==
  ASSUME AccountsIInv, AccountDisabled
  PROVE  AccountsIInv'
<1> DEFINE q == server.inbox
<1>1. /\ server \in ProcessType /\ q # <<>> /\ Head(q).type = "disabled"
      /\ UNCHANGED <<enabled, listed, fixed, registry>> /\ SignalsInv(q)
  BY CallFacts DEF AccountDisabled, Head1, ServerOK
<1>2. PICK a \in Head(q).accounts :
         /\ server' = [Took(server) EXCEPT !.objects = @ \ {a}, !.idle = @ \/
                         (Serving("server") # {} /\
                          \A c \in Serving("server") : call[c].account = a)]
         /\ call' = Orphaned(a)
  BY DEF AccountDisabled, Head1
<1> DEFINE b == Took(server).idle \/
                  (Serving("server") # {} /\ \A c \in Serving("server") : call[c].account = a)
           o == server.objects \ {a}
<1>3. q \in Seq(MessageType) /\ server.objects \in SUBSET (Managed \cup {Local})
  BY <1>1 DEF ProcessType
<1>4. Tail(q) \in Seq(MessageType) /\ Head(q) = q[1] /\ 1 \in 1..Len(q)
  BY <1>1, <1>3
<1>5. Head(q).accounts = {a}
  BY <1>1, <1>4 DEF SignalsInv
<1>6. o \in SUBSET (Managed \cup {Local}) /\ \A x \in Own : x \in o <=>
          Adds(Head(q), x) \/ (x \in server.objects /\ ~ Removes(Head(q), x))
  BY <1>1, <1>3, <1>5 DEF Adds, Removes
<1>7. /\ Took(server) \in ProcessType /\ Took(server).inbox = Tail(q) /\ Took(server).run = server.run
      /\ Took(server).asked = server.asked /\ Took(server).objects = server.objects
  BY <1>1, <1>4, NewInbox DEF Took
<1>8. b \in BOOLEAN
  OBVIOUS
<1>9. server' = [Took(server) EXCEPT !.objects = o, !.idle = b]
  BY <1>2, <1>7
<1> HIDE DEF o, b
<1>10. /\ server' \in ProcessType /\ server'.inbox = Tail(q) /\ server'.objects = o
       /\ server'.asked = server.asked /\ server'.run = server.run
  BY <1>6, <1>7, <1>8, <1>9 DEF ProcessType
<1>11. ServerOK(server', enabled, call)
  BY <1>1, <1>6, <1>10, TailOK
<1>12. CallsKept
  <2> DEFINE f == [c \in Calls |-> IF call[c].account = a /\ c \in Serving("server")
                                   THEN [call[c] EXCEPT !.msg = "gone"] ELSE call[c]]
  <2>1. call' = [c \in Calls |-> f[c]]
    BY <1>2 DEF Orphaned
  <2>2. ASSUME NEW c \in Calls
        PROVE  f[c] = call[c] \/ (call[c].msg # "unsent" /\ f[c] = [call[c] EXCEPT !.msg = "gone"])
    BY DEF Serving
  <2> HIDE DEF f
  <2> QED
    BY <1>1, <2>1, <2>2, ManyKept DEF CallsKept
<1> QED
  BY <1>1, <1>11, <1>12, ServerStep
\* A call is handled or refused: the account is exported if it was enabled all the
\* time, and only if it was enabled at some time.
LEMMA ServerCallStep ==
  ASSUME AccountsIInv, ServerCall
  PROVE  AccountsIInv'
<1> DEFINE q == server.inbox
           c == Head(q).call
           b == Took(server).idle /\ call[c].account \notin server.objects
<1>1. /\ server \in ProcessType /\ q # <<>> /\ Head(q).type = "call"
      /\ UNCHANGED <<enabled, listed, fixed, registry>>
  BY CallFacts DEF ServerCall, Arrived
<1>2. q \in Seq(MessageType)
  BY <1>1 DEF ProcessType
<1>3. Tail(q) \in Seq(MessageType) /\ Head(q) = q[1] /\ 1 \in 1..Len(q)
  BY <1>1, <1>2
<1>4. /\ c \in Calls /\ call[c].msg # "unsent" /\ call[c].to = "server" /\ call[c].account \in Own
      /\ ViewFits(q, server.objects, call[c], 1)
  BY <1>1, <1>3, InboxAccount
<1>5. /\ Took(server) \in ProcessType /\ Took(server).inbox = Tail(q) /\ Took(server).run = server.run
      /\ Took(server).asked = server.asked /\ Took(server).objects = server.objects
  BY <1>1, <1>3, NewInbox DEF Took
<1>6. b \in BOOLEAN /\ server' = [Took(server) EXCEPT !.idle = b]
  BY <1>5 DEF ServerCall, AfterArrival
<1>7. call' = [call EXCEPT ![c] = IF call[c].account \in server.objects
                                  THEN [call[c] EXCEPT !.msg = "handled"] ELSE Replied(c, "unknown")]
  BY DEF ServerCall, Arrived
<1> HIDE DEF b, c
<1>8. /\ server' \in ProcessType /\ server'.inbox = Tail(q) /\ server'.objects = server.objects
      /\ server'.asked = server.asked /\ server'.run = server.run
  BY <1>5, <1>6, NewTimer
<1>9. \A a \in Own : a \in server.objects <=>
          Adds(Head(q), a) \/ (a \in server.objects /\ ~ Removes(Head(q), a))
  BY <1>1 DEF Adds, Removes
<1>10. ServerOK(server', enabled, call)
  BY <1>1, <1>8, <1>9, TailOK
<1>11. View(q, server.objects, call[c].account, 1) <=> call[c].account \in server.objects
  BY <1>1, <1>3, ViewOne DEF Adds, Removes
<1>12. CallsKept
  <2>1. CASE call[c].account \in server.objects
    <3> DEFINE job == [call[c] EXCEPT !.msg = "handled"]
    <3>1. call[c] \in CallType /\ CallOK(call[c], enabled)
      BY <1>4, CallFacts
    <3>2. job \in CallType
      BY <3>1 DEF CallType
    <3>3. /\ job.msg = "handled" /\ job.reply = call[c].reply /\ job.to = call[c].to
          /\ job.account = call[c].account /\ job.steady = call[c].steady /\ job.ever = call[c].ever
          /\ job.list = call[c].list /\ job.snapshot = call[c].snapshot
      BY <3>1 DEF CallType
    <3>4. call' = [call EXCEPT ![c] = job]
      BY <1>7, <2>1
    <3> HIDE DEF job
    <3>5. call[c].account \in call[c].ever
      BY <1>4, <1>11, <2>1 DEF ViewFits
    <3>6. CallOK(job, enabled)
      BY <1>4, <3>1, <3>3, <3>5 DEF CallOK, ListOK
    <3> QED
      BY <1>1, <1>4, <3>2, <3>3, <3>4, <3>6, CallKept DEF CallsKept
  <2>2. CASE call[c].account \notin server.objects
    <3>1. call[c].account \notin call[c].steady
      BY <1>4, <1>11, <2>2 DEF ViewFits
    <3>2. call' = [call EXCEPT ![c] = Replied(c, "unknown")]
      BY <1>7, <2>2
    <3>3. /\ Replied(c, "unknown") \in CallType /\ CallOK(Replied(c, "unknown"), enabled)
          /\ Replied(c, "unknown").msg = "gone" /\ Replied(c, "unknown").to = call[c].to
          /\ Replied(c, "unknown").account = call[c].account
          /\ Replied(c, "unknown").steady = call[c].steady /\ Replied(c, "unknown").ever = call[c].ever
      BY <1>4, <3>1, RepliedOK
    <3> QED
      BY <1>1, <1>4, <3>2, <3>3, CallKept DEF CallsKept
  <2> QED
    BY <2>1, <2>2
<1> QED
  BY <1>1, <1>10, <1>12, ServerStep

\* The Handler of a call replies.
LEMMA HandlerReplies ==
  ASSUME AccountsIInv, NEW c \in Calls, NEW to \in {"server", "fixed"}, c \in Serving(to),
         enabled' = enabled, call' = [call EXCEPT ![c] = Replied(c, "ok")]
  PROVE  CallsKept
<1>1. call[c].to = to /\ call[c].msg = "handled" /\ CallOK(call[c], enabled)
  BY CallFacts DEF Serving
<1>2. call[c].to # "registry" /\ (call[c].to = "server" => call[c].account \in call[c].ever)
  BY <1>1 DEF CallOK
<1>3. /\ Replied(c, "ok") \in CallType /\ CallOK(Replied(c, "ok"), enabled)
      /\ Replied(c, "ok").msg = "gone" /\ Replied(c, "ok").to = call[c].to
      /\ Replied(c, "ok").account = call[c].account
      /\ Replied(c, "ok").steady = call[c].steady /\ Replied(c, "ok").ever = call[c].ever
  BY <1>1, <1>2, RepliedOK
<1> QED
  BY <1>3, CallKept DEF CallsKept

LEMMA ServerReplyStep ==
  ASSUME AccountsIInv, NEW c \in Calls, ServerReply(c)
  PROVE  AccountsIInv'
<1> DEFINE b == Serving("server") = {c}
<1>1. UNCHANGED <<enabled, listed, fixed, registry>> /\ b \in BOOLEAN
      /\ server' = [server EXCEPT !.idle = b]
  BY DEF ServerReply
<1>2. CallsKept
  BY <1>1, HandlerReplies DEF ServerReply
<1> HIDE DEF b
<1>3. ServerOK(server', enabled, call)
  BY <1>1, CallFacts, NewTimer, TimerOK
<1> QED
  BY <1>1, <1>2, <1>3, ServerStep

LEMMA FixedReplyStep ==
  ASSUME AccountsIInv, NEW c \in Calls, FixedReply(c)
  PROVE  AccountsIInv'
<1> DEFINE b == Serving("fixed") = {c}
<1>1. UNCHANGED <<enabled, listed, server, registry>> /\ b \in BOOLEAN
      /\ fixed' = [fixed EXCEPT !.idle = b]
  BY DEF FixedReply
<1>2. CallsKept
  BY <1>1, HandlerReplies DEF FixedReply
<1> HIDE DEF b
<1>3. fixed' \in ProcessType /\ fixed'.inbox = fixed.inbox
  BY <1>1, CallFacts, NewTimer
<1> QED
  BY <1>1, <1>2, <1>3, CallFacts, FixedStep

LEMMA FixedCallStep ==
  ASSUME AccountsIInv, FixedCall
  PROVE  AccountsIInv'
<1> DEFINE q == fixed.inbox
           c == Head(q).call
           b == Took(fixed).idle /\ call[c].account \notin fixed.objects
<1>1. /\ fixed \in ProcessType /\ q # <<>> /\ Head(q).type = "call" /\ InboxOK(q, "fixed", call)
      /\ UNCHANGED <<enabled, listed, server, registry>>
  BY CallFacts DEF FixedCall, Arrived
<1>2. q \in Seq(MessageType)
  BY <1>1 DEF ProcessType
<1>3. Tail(q) \in Seq(MessageType) /\ InboxOK(Tail(q), "fixed", call) /\ SentTo(Head(q), "fixed", call)
  BY <1>1, <1>2, TailInbox
<1>4. c \in Calls /\ call[c].msg # "unsent" /\ call[c].to = "fixed"
  BY <1>1, <1>3 DEF SentTo
<1>5. Took(fixed) \in ProcessType /\ Took(fixed).inbox = Tail(q)
  BY <1>1, <1>3, NewInbox DEF Took
<1>6. b \in BOOLEAN /\ fixed' = [Took(fixed) EXCEPT !.idle = b]
  BY <1>5 DEF FixedCall, AfterArrival
<1>7. call' = [call EXCEPT ![c] = IF call[c].account \in fixed.objects
                                  THEN [call[c] EXCEPT !.msg = "handled"] ELSE Replied(c, "unknown")]
  BY DEF FixedCall, Arrived
<1> HIDE DEF b, c
<1>8. fixed' \in ProcessType /\ fixed'.inbox = Tail(q)
  BY <1>5, <1>6, NewTimer
<1>9. CallsKept
  <2>1. CASE call[c].account \in fixed.objects
    <3> DEFINE job == [call[c] EXCEPT !.msg = "handled"]
    <3>1. call[c] \in CallType /\ CallOK(call[c], enabled)
      BY <1>4, CallFacts
    <3>2. job \in CallType
      BY <3>1 DEF CallType
    <3>3. /\ job.msg = "handled" /\ job.reply = call[c].reply /\ job.to = call[c].to
          /\ job.account = call[c].account /\ job.steady = call[c].steady /\ job.ever = call[c].ever
          /\ job.list = call[c].list /\ job.snapshot = call[c].snapshot
      BY <3>1 DEF CallType
    <3>4. call' = [call EXCEPT ![c] = job]
      BY <1>7, <2>1
    <3> HIDE DEF job
    <3>5. CallOK(job, enabled)
      BY <1>4, <3>1, <3>3 DEF CallOK, ListOK
    <3> QED
      BY <1>1, <1>4, <3>2, <3>3, <3>4, <3>5, CallKept DEF CallsKept
  <2>2. CASE call[c].account \notin fixed.objects
    <3>1. call' = [call EXCEPT ![c] = Replied(c, "unknown")]
      BY <1>7, <2>2
    <3>2. /\ Replied(c, "unknown") \in CallType /\ CallOK(Replied(c, "unknown"), enabled)
          /\ Replied(c, "unknown").msg = "gone" /\ Replied(c, "unknown").to = call[c].to
          /\ Replied(c, "unknown").account = call[c].account
          /\ Replied(c, "unknown").steady = call[c].steady /\ Replied(c, "unknown").ever = call[c].ever
      BY <1>4, RepliedOK
    <3> QED
      BY <1>1, <1>4, <3>1, <3>2, CallKept DEF CallsKept
  <2> QED
    BY <2>1, <2>2
<1> QED
  BY <1>1, <1>3, <1>8, <1>9, FixedStep

LEMMA FixedProcessStep ==
  ASSUME AccountsIInv, StartFixed \/ FixedIdle
  PROVE  AccountsIInv'
<1>1. UNCHANGED <<enabled, listed, server, registry>>
  BY DEF StartFixed, FixedIdle
<1>2. CallsKept
  BY <1>1, DaemonAnswers, CallsUnchanged DEF StartFixed, FixedIdle, CallsKept
<1>3. ASSUME NEW run \in {"named", "nameless"}
      PROVE  LET s == [Process EXCEPT !.objects = {Local}, !.run = run]
             IN  s \in ProcessType /\ s.inbox = <<>>
  BY ProcessTyped DEF Process, ProcessType
<1>4. \/ fixed' = fixed \/ fixed' = Process
      \/ \E run \in {"named", "nameless"} : fixed' = [Process EXCEPT !.objects = {Local}, !.run = run]
  BY DEF StartFixed, FixedIdle
<1>5. fixed' \in ProcessType /\ (fixed' = fixed \/ fixed'.inbox = <<>>)
  BY <1>3, <1>4, ProcessTyped, CallFacts DEF Process
<1>6. InboxOK(fixed'.inbox, "fixed", call)
  BY <1>5, CallFacts, EmptyInbox
<1> QED
  BY <1>1, <1>2, <1>5, <1>6, FixedStep

LEMMA RegistryProcessStep ==
  ASSUME AccountsIInv, StartRegistry \/ RegistryIdle
  PROVE  AccountsIInv'
<1>1. UNCHANGED <<enabled, listed, server, fixed>>
  BY DEF StartRegistry, RegistryIdle
<1>2. CallsKept
  BY <1>1, DaemonAnswers, CallsUnchanged DEF StartRegistry, RegistryIdle, CallsKept
<1>3. LET s == [Process EXCEPT !.run = "named"] IN s \in ProcessType /\ s.inbox = <<>>
  BY ProcessTyped DEF Process, ProcessType
<1>4. registry' = registry \/ registry' = Process \/ registry' = [Process EXCEPT !.run = "named"]
  BY DEF StartRegistry, RegistryIdle
<1>5. registry' \in ProcessType /\ (registry' = registry \/ registry'.inbox = <<>>)
  BY <1>3, <1>4, ProcessTyped, CallFacts DEF Process
<1>6. InboxOK(registry'.inbox, "registry", call) /\ OnlyCalls(registry'.inbox)
  BY <1>5, CallFacts, EmptyInbox
<1> QED
  BY <1>1, <1>2, <1>5, <1>6, RegistryStep
-----------------------------------------------------------------------------
(***************************************************************************)
(* The registry's handlers, the clients and the bus daemon.                *)
(***************************************************************************)
\* A call that goes on to another state, with what it has been told so far.
LEMMA MovesOn ==
  ASSUME AccountsIInv, NEW c \in Calls, enabled' = enabled,
         NEW msg \in {"queued", "waiting", "closing", "gone"},
         call' = [call EXCEPT ![c].msg = msg], call[c].msg # "unsent",
         msg \in {"waiting", "closing"} => call[c].to = "registry"
  PROVE  CallsKept
<1> DEFINE job == [call[c] EXCEPT !.msg = msg]
<1>1. call \in [Calls -> CallType] /\ call[c] \in CallType /\ CallOK(call[c], enabled)
  BY CallFacts
<1>2. job \in CallType /\ call' = [call EXCEPT ![c] = job]
  BY <1>1 DEF CallType
<1>3. /\ job.msg = msg /\ job.reply = call[c].reply /\ job.to = call[c].to
      /\ job.account = call[c].account /\ job.steady = call[c].steady /\ job.ever = call[c].ever
      /\ job.list = call[c].list /\ job.snapshot = call[c].snapshot
  BY <1>1 DEF CallType
<1> HIDE DEF job
<1>4. CallOK(job, enabled)
  BY <1>1, <1>3 DEF CallOK, ListOK
<1> QED
  BY <1>2, <1>3, <1>4, CallKept DEF CallsKept

LEMMA ListAccountsStep ==
  ASSUME AccountsIInv, ListAccounts
  PROVE  AccountsIInv'
<1> DEFINE q == registry.inbox
           c == Head(q).call
<1>1. /\ registry \in ProcessType /\ q # <<>> /\ InboxOK(q, "registry", call) /\ OnlyCalls(q)
      /\ UNCHANGED <<enabled, listed, server, fixed>>
      /\ registry' = [Took(registry) EXCEPT !.idle = FALSE] /\ call' = [call EXCEPT ![c].msg = "waiting"]
  BY CallFacts DEF ListAccounts
<1>2. q \in Seq(MessageType)
  BY <1>1 DEF ProcessType
<1>3. /\ Tail(q) \in Seq(MessageType) /\ InboxOK(Tail(q), "registry", call) /\ OnlyCalls(Tail(q))
      /\ SentTo(Head(q), "registry", call) /\ Head(q).type = "call"
  BY <1>1, <1>2, TailInbox
<1>4. c \in Calls /\ call[c].msg # "unsent" /\ call[c].to = "registry"
  BY <1>3 DEF SentTo
<1>5. Took(registry) \in ProcessType /\ Took(registry).inbox = Tail(q)
  BY <1>1, <1>3, NewInbox DEF Took
<1>6. registry' \in ProcessType /\ registry'.inbox = Tail(q)
  BY <1>1, <1>5, NewTimer
<1>7. CallsKept
  BY <1>1, <1>4, MovesOn
<1> QED
  BY <1>1, <1>3, <1>6, <1>7, RegistryStep

LEMMA DeleteHandlerStep ==
  ASSUME AccountsIInv, NEW c \in Calls, DeleteHandler(c)
  PROVE  AccountsIInv'
<1> DEFINE b == Handling = {c}
<1>1. UNCHANGED <<enabled, listed, server, fixed>> /\ b \in BOOLEAN
      /\ registry' = [registry EXCEPT !.idle = b]
  BY DEF DeleteHandler
<1>2. CallsKept
  BY <1>1, MovesOn DEF DeleteHandler
<1> HIDE DEF b
<1>3. registry' \in ProcessType /\ registry'.inbox = registry.inbox
  BY <1>1, CallFacts, NewTimer
<1> QED
  BY <1>1, <1>2, <1>3, CallFacts, RegistryStep

\* Online Accounts answers the manager of a handler.
LEMMA AnswerHandlerStep ==
  ASSUME AccountsIInv, NEW c \in Calls, AnswerHandler(c)
  PROVE  AccountsIInv'
<1> DEFINE job == [call[c] EXCEPT !.msg = "ready", !.snapshot = enabled]
<1>1. /\ call \in [Calls -> CallType] /\ call[c] \in CallType /\ CallOK(call[c], enabled)
      /\ enabled \in SUBSET Managed /\ listed \in SUBSET (Own \cup {Local})
  BY CallFacts
<1>2. job \in CallType /\ call' = [call EXCEPT ![c] = job]
  BY <1>1 DEF CallType, AnswerHandler
<1>3. /\ job.msg = "ready" /\ job.reply = call[c].reply /\ job.to = call[c].to
      /\ job.account = call[c].account /\ job.steady = call[c].steady /\ job.ever = call[c].ever
      /\ job.list = call[c].list /\ job.snapshot = enabled
  BY <1>1 DEF CallType
<1> HIDE DEF job
<1>4. /\ UNCHANGED <<enabled, listed, server, fixed, registry>> /\ call[c].msg = "waiting"
  BY DEF AnswerHandler
<1>5. CallOK(job, enabled)
  BY <1>1, <1>3, <1>4 DEF CallOK, ListOK
<1> QED
  BY <1>1, <1>2, <1>3, <1>4, <1>5, OnlyCallKept

\* manager_ready(): the reply.
LEMMA HandlerReadyStep ==
  ASSUME AccountsIInv, NEW c \in Calls, HandlerReady(c)
  PROVE  AccountsIInv'
<1> DEFINE r == IF call[c].reply = "none" THEN "ok" ELSE call[c].reply
           l == (call[c].snapshot \cap Known) \cup {Local}
           job == [call[c] EXCEPT !.msg = "closing", !.reply = r, !.list = l]
<1>1. /\ call \in [Calls -> CallType] /\ call[c] \in CallType /\ CallOK(call[c], enabled)
      /\ listed \in SUBSET (Own \cup {Local})
  BY CallFacts
<1>2. r \in {"none", "ok", "unknown", "error"} /\ l \in SUBSET (Managed \cup {Local})
      /\ l \in SUBSET (Own \cup {Local}) /\ l = (call[c].snapshot \cap Own) \cup {Local}
  BY <1>1 DEF CallType, Known, Managed
<1>3. UNCHANGED <<enabled, server, fixed, registry>> /\ call[c].msg = "ready"
  BY DEF HandlerReady
<1>4. r # "none" /\ (r = "unknown" => call[c].reply = "unknown")
  OBVIOUS
<1>5. call' = [call EXCEPT ![c] = job]
  BY <1>1 DEF CallType, HandlerReady
<1> HIDE DEF r, l
<1>6. job \in CallType
  BY <1>1, <1>2 DEF CallType
<1>7. /\ job.msg = "closing" /\ job.reply = r /\ job.to = call[c].to
      /\ job.account = call[c].account /\ job.steady = call[c].steady /\ job.ever = call[c].ever
      /\ job.list = l /\ job.snapshot = call[c].snapshot
  BY <1>1 DEF CallType
<1> HIDE DEF job
<1>8. listed' \in SUBSET (Own \cup {Local})
  <2>1. call'[c].list = l
    BY <1>1, <1>5, <1>7
  <2> QED
    BY <1>1, <1>2, <2>1 DEF HandlerReady
<1>9. CallOK(job, enabled)
  <2>1. ListOK(job)
    BY <1>1, <1>2, <1>3, <1>7 DEF CallOK, ListOK
  <2> QED
    BY <1>1, <1>3, <1>4, <1>7, <2>1 DEF CallOK
<1> QED
  BY <1>3, <1>5, <1>6, <1>7, <1>8, <1>9, OnlyCallKept

\* The time-outs of the handler and of the client.
LEMMA TimeOutStep ==
  ASSUME AccountsIInv, NEW c \in Calls, HandlerTimeout(c) \/ TimeOutCall(c)
  PROVE  AccountsIInv'
<1> DEFINE m == IF HandlerTimeout(c) THEN "closing" ELSE call[c].msg
           r == IF call[c].reply = "none" THEN "error" ELSE call[c].reply
           job == [call[c] EXCEPT !.msg = m, !.reply = r]
<1>1. /\ call \in [Calls -> CallType] /\ call[c] \in CallType /\ CallOK(call[c], enabled)
      /\ listed \in SUBSET (Own \cup {Local})
  BY CallFacts
<1>2. r \in {"none", "ok", "unknown", "error"} /\ (r = "unknown" \/ r = "ok" => call[c].reply = r)
  BY <1>1 DEF CallType
<1>3. UNCHANGED <<enabled, server, fixed, registry, listed>> /\ call[c].msg # "unsent"
  BY DEF HandlerTimeout, TimeOutCall
<1>4. m = call[c].msg \/ (m = "closing" /\ call[c].msg \in {"waiting", "ready"})
  BY DEF HandlerTimeout
<1>5. call' = [call EXCEPT ![c] = job]
  <2>1. CASE HandlerTimeout(c)
    BY <1>1, <2>1 DEF CallType, HandlerTimeout
  <2>2. CASE ~ HandlerTimeout(c)
    <3>1. call' = [call EXCEPT ![c].reply = "error"] /\ call[c].reply = "none"
      BY <2>2 DEF TimeOutCall
    <3>2. m = call[c].msg /\ r = "error"
      BY <2>2, <3>1
    <3> QED
      BY <1>1, <3>1, <3>2 DEF CallType
  <2> QED
    BY <2>1, <2>2
<1> HIDE DEF r, m
<1>6. m \in {"held", "queued", "handled", "waiting", "ready", "closing", "gone"}
  BY <1>1, <1>3, <1>4 DEF CallType
<1>7. job \in CallType
  BY <1>1, <1>2, <1>6 DEF CallType
<1>8. /\ job.msg = m /\ job.reply = r /\ job.to = call[c].to
      /\ job.account = call[c].account /\ job.steady = call[c].steady /\ job.ever = call[c].ever
      /\ job.list = call[c].list /\ job.snapshot = call[c].snapshot
  BY <1>1 DEF CallType
<1> HIDE DEF job
<1>9. CallOK(job, enabled)
  BY <1>1, <1>2, <1>3, <1>4, <1>6, <1>8 DEF CallOK, ListOK
<1> QED
  BY <1>1, <1>3, <1>5, <1>6, <1>7, <1>8, <1>9, OnlyCallKept

\* A client sends a call.
LEMMA SendStep ==
  ASSUME AccountsIInv, NEW c \in Calls, NEW to \in {"server", "fixed", "registry"},
         NEW a \in Managed \cup {Local}, Send(c, to, a), to = "server" => a \in Own
  PROVE  AccountsIInv'
<1> DEFINE job == [call[c] EXCEPT !.to = to, !.account = a, !.msg = "held",
                                  !.steady = enabled, !.ever = enabled]
<1>1. /\ call \in [Calls -> CallType] /\ call[c] \in CallType /\ CallOK(call[c], enabled)
      /\ enabled \in SUBSET Managed /\ listed \in SUBSET (Own \cup {Local})
  BY CallFacts
<1>2. /\ UNCHANGED <<enabled, server, fixed, registry, listed>> /\ call[c].msg = "unsent"
      /\ call' = [call EXCEPT ![c] = job]
  BY DEF Send
<1>3. job \in CallType
  BY <1>1 DEF CallType
<1>4. /\ job.msg = "held" /\ job.reply = call[c].reply /\ job.to = to
      /\ job.account = a /\ job.steady = enabled /\ job.ever = enabled
  BY <1>1 DEF CallType
<1> HIDE DEF job
<1>5. CallOK(job, enabled)
  BY <1>1, <1>2, <1>4 DEF CallOK
<1> QED
  BY <1>1, <1>2, <1>3, <1>5, OnlyCallKept

LEMMA ClientStep ==
  ASSUME AccountsIInv, NEW c \in Calls, ListAccountsCall(c) \/ AccountCall(c)
  PROVE  AccountsIInv'
<1>1. CASE ListAccountsCall(c)
  BY <1>1, SendStep DEF ListAccountsCall
<1>2. CASE AccountCall(c)
  <2>1. PICK a \in listed : Send(c, IF a = Local THEN "fixed" ELSE "server", a)
    BY <1>2 DEF AccountCall
  <2>2. a \in Own \cup {Local} /\ a \in Managed \cup {Local}
    BY CallFacts DEF Managed
  <2> QED
    BY <2>1, <2>2, SendStep
<1> QED
  BY <1>1, <1>2

LEMMA DeliverStep ==
  ASSUME AccountsIInv, NEW c \in Calls, Deliver(c)
  PROVE  AccountsIInv'
<1> DEFINE m == Message(c)
<1>1. m \in MessageType /\ m.type = "call" /\ m.call = c
  BY DEF Message, MessageType
<1>2. UNCHANGED <<enabled, listed>> /\ call[c].msg = "held"
  BY DEF Deliver
<1>3. CallsKept
  BY <1>2, MovesOn DEF Deliver
<1>4. \A to : call[c].to = to => SentTo(m, to, call)
  BY <1>1, <1>2 DEF SentTo
<1> HIDE DEF m
<1>5. CASE /\ call[c].to = "server" /\ server.run = "named"
           /\ server' = [server EXCEPT !.inbox = Append(@, Message(c))]
           /\ UNCHANGED <<fixed, registry>>
  <2> DEFINE q == Append(server.inbox, m)
  <2>1. server \in ProcessType /\ ServerInv(server, enabled) /\ enabled \in SUBSET Managed
    BY CallFacts DEF ServerOK
  <2>2. server.inbox \in Seq(MessageType)
    BY <2>1 DEF ProcessType
  <2>3. q \in Seq(MessageType)
    BY <1>1, <2>2
  <2>4. server' = [server EXCEPT !.inbox = q]
    BY <1>5 DEF m
  <2>5. Queued(server', m)
    BY <2>1, <2>2, <2>3, <2>4, NewInbox DEF Queued
  <2> HIDE DEF q
  <2>6. /\ server' \in ProcessType /\ server'.run = server.run
        /\ server'.asked = server.asked /\ server'.objects = server.objects
    BY <2>1, <2>3, <2>4, NewInbox
  <2>7. ~ server.asked /\ server.run # "off"
    BY <1>5, <2>1 DEF ServerInv
  <2>8. Tells(m, enabled, server'.asked)
    BY <1>1, <2>1, <2>7 DEF Tells, Adds, Removes, ServerInv
  <2>9. ServerOK(server', enabled, call)
    BY <1>1, <1>4, <1>5, <2>1, <2>5, <2>6, <2>7, <2>8, AppendOK
  <2> QED
    BY <1>2, <1>3, <1>5, <2>9, ServerStep
<1>6. CASE /\ call[c].to = "fixed"
           /\ fixed' = [fixed EXCEPT !.inbox = Append(@, Message(c))]
           /\ UNCHANGED <<server, registry>>
  <2> DEFINE q == Append(fixed.inbox, m)
  <2>1. fixed \in ProcessType /\ InboxOK(fixed.inbox, "fixed", call)
    BY CallFacts
  <2>2. fixed.inbox \in Seq(MessageType)
    BY <2>1 DEF ProcessType
  <2>3. q \in Seq(MessageType) /\ InboxOK(q, "fixed", call)
    BY <1>1, <1>4, <1>6, <2>1, <2>2, AppendInbox
  <2>4. fixed' = [fixed EXCEPT !.inbox = q]
    BY <1>6 DEF m
  <2> HIDE DEF q
  <2>5. fixed' \in ProcessType /\ fixed'.inbox = q
    BY <2>1, <2>3, <2>4, NewInbox
  <2> QED
    BY <1>2, <1>3, <1>6, <2>3, <2>5, FixedStep
<1>7. CASE /\ call[c].to = "registry"
           /\ registry' = [registry EXCEPT !.inbox = Append(@, Message(c))]
           /\ UNCHANGED <<server, fixed>>
  <2> DEFINE q == Append(registry.inbox, m)
  <2>1. registry \in ProcessType /\ InboxOK(registry.inbox, "registry", call) /\ OnlyCalls(registry.inbox)
    BY CallFacts
  <2>2. registry.inbox \in Seq(MessageType)
    BY <2>1 DEF ProcessType
  <2>3. q \in Seq(MessageType) /\ InboxOK(q, "registry", call) /\ OnlyCalls(q)
    BY <1>1, <1>4, <1>7, <2>1, <2>2, AppendInbox
  <2>4. registry' = [registry EXCEPT !.inbox = q]
    BY <1>7 DEF m
  <2> HIDE DEF q
  <2>5. registry' \in ProcessType /\ registry'.inbox = q
    BY <2>1, <2>3, <2>4, NewInbox
  <2> QED
    BY <1>2, <1>3, <1>7, <2>3, <2>5, RegistryStep
<1> QED
  BY <1>5, <1>6, <1>7 DEF Deliver
\* The user enables or disables an account.
LEMMA ToggleStep ==
  ASSUME AccountsIInv, NEW a \in Managed, Toggle(a)
  PROVE  AccountsIInv'
<1> DEFINE type == IF a \in enabled THEN "disabled" ELSE "available"
           m == Signal(type, a)
<1>1. /\ enabled' = (IF a \in enabled THEN enabled \ {a} ELSE enabled \cup {a})
      /\ UNCHANGED <<fixed, registry, listed>>
  BY DEF Toggle
<1>2. enabled \in SUBSET Managed /\ enabled' \in SUBSET Managed
      /\ listed' \in SUBSET (Own \cup {Local})
  BY <1>1, CallFacts
<1>3. m \in MessageType /\ m.type = type /\ m.accounts = {a} /\ type \in {"available", "disabled"}
      /\ (type = "disabled" <=> a \in enabled)
  BY DEF Signal, MessageType
<1>4. server \in ProcessType /\ ServerOK(server, enabled, call) /\ ServerInv(server, enabled)
  BY CallFacts DEF ServerOK
<1> HIDE DEF m, type
<1>5. ServerOK(server', enabled', call)
  <2>1. CASE server.run = "off"
    <3>1. server' = server
      BY <2>1 DEF Toggle
    <3>2. ServerInv(server, enabled')
      BY <1>4, <2>1 DEF ServerInv
    <3> QED
      BY <1>4, <3>1, <3>2 DEF ServerOK
  <2>2. CASE server.run # "off"
    <3> DEFINE q == Append(server.inbox, m)
    <3>1. server.inbox \in Seq(MessageType)
      BY <1>4 DEF ProcessType
    <3>2. q \in Seq(MessageType)
      BY <1>3, <3>1
    <3>3. server' = [server EXCEPT !.inbox = q]
      BY <2>2 DEF Toggle, m, type
    <3>4. Queued(server', m)
      BY <1>4, <3>2, <3>3, NewInbox DEF Queued
    <3> HIDE DEF q
    <3>5. /\ server' \in ProcessType /\ server'.run = server.run
          /\ server'.asked = server.asked /\ server'.objects = server.objects
      BY <1>4, <3>2, <3>3, NewInbox
    <3>6. Tells(m, enabled', server'.asked)
      <4> SUFFICES ASSUME NEW x \in Own
                   PROVE  LET after == \/ Adds(m, x)
                                       \/ /\ View(server.inbox, server.objects, x, Len(server.inbox))
                                          /\ ~ Removes(m, x)
                          IN  (after => x \in enabled') /\ (x \in enabled' => server'.asked \/ after)
        BY DEF Tells
      <4>1. /\ View(server.inbox, server.objects, x, Len(server.inbox)) => x \in enabled
            /\ x \in enabled => server.asked \/ View(server.inbox, server.objects, x, Len(server.inbox))
        BY <1>4, <2>2 DEF ServerInv
      <4>2. CASE x = a /\ a \in enabled
        BY <1>1, <1>3, <4>2 DEF Adds, Removes
      <4>3. CASE x = a /\ a \notin enabled
        BY <1>1, <1>3, <4>3 DEF Adds, Removes
      <4>4. CASE x # a
        <5>1. ~ Adds(m, x) /\ ~ Removes(m, x) /\ (x \in enabled' <=> x \in enabled)
          BY <1>1, <1>3, <4>4 DEF Adds, Removes
        <5> QED
          BY <3>5, <4>1, <5>1
      <4> QED
        BY <4>2, <4>3, <4>4
    <3>7. SentTo(m, "server", call)
      BY <1>3 DEF SentTo
    <3>8. server'.asked => server.asked /\ m.type # "ready"
      BY <1>3, <3>5
    <3>9. m.type = "disabled" => \E x \in Managed : m.accounts = {x}
      BY <1>3
    <3>10. m.type # "call"
      BY <1>3
    <3> QED
      BY <1>2, <1>3, <2>2, <3>4, <3>5, <3>6, <3>7, <3>8, <3>9, <3>10, AppendOK
  <2> QED
    BY <2>1, <2>2
<1>6. ASSUME NEW c \in Calls
      PROVE  /\ call'[c] \in CallType /\ CallOK(call'[c], enabled')
             /\ call[c].msg # "unsent" =>
                  /\ call'[c].msg # "unsent" /\ call'[c].to = call[c].to
                  /\ call'[c].account = call[c].account
                  /\ call'[c].steady \subseteq call[c].steady /\ call[c].ever \subseteq call'[c].ever
  <2>1. call[c] \in CallType /\ CallOK(call[c], enabled)
    BY CallFacts
  <2>2. CASE call[c].msg = "unsent"
    <3>1. call'[c] = call[c]
      BY <2>2 DEF Toggle
    <3> QED
      BY <2>1, <2>2, <3>1 DEF CallOK
  <2>3. CASE call[c].msg # "unsent"
    <3> DEFINE st == call[c].steady \cap enabled'
               ev == call[c].ever \cup enabled'
               job == [call[c] EXCEPT !.steady = st, !.ever = ev]
    <3>1. call'[c] = job
      BY <2>3 DEF Toggle
    <3>2. st \in SUBSET Managed /\ ev \in SUBSET Managed
      BY <1>2, <2>1 DEF CallType
    <3>3. st \subseteq call[c].steady /\ st \subseteq enabled' /\ call[c].ever \subseteq ev /\ enabled' \subseteq ev
      OBVIOUS
    <3> HIDE DEF st, ev
    <3>4. job \in CallType
      BY <2>1, <3>2 DEF CallType
    <3>5. /\ job.msg = call[c].msg /\ job.reply = call[c].reply /\ job.to = call[c].to
          /\ job.account = call[c].account /\ job.steady = st /\ job.ever = ev
          /\ job.list = call[c].list /\ job.snapshot = call[c].snapshot
      BY <2>1 DEF CallType
    <3> HIDE DEF job
    <3>6. CallOK(job, enabled')
      <4>1. job.to = "registry" /\ job.reply = "ok" => ListOK(job)
        BY <2>1, <3>3, <3>5 DEF CallOK, ListOK
      <4> QED
        BY <2>1, <2>3, <3>3, <3>5, <4>1 DEF CallOK
    <3> QED
      BY <2>3, <3>1, <3>3, <3>4, <3>5, <3>6
  <2> QED
    BY <2>2, <2>3
<1>7. call' \in [Calls -> CallType] /\ CallsInv' /\ Follows
  <2>1. call' \in [Calls -> CallType]
    BY <1>6 DEF Toggle
  <2>2. CallsInv'
    BY <1>6 DEF CallsInv
  <2>3. Follows
    BY <1>6 DEF Follows
  <2> QED
    BY <2>1, <2>2, <2>3
<1> QED
  BY <1>1, <1>2, <1>5, <1>7, CallFacts, PartsKept

\* Client library v1, whose accounts() adds to what clients were told, and steps that
\* change none of this.
LEMMA RestStep ==
  ASSUME AccountsIInv, UNCHANGED <<enabled, server, fixed, registry, call>>,
         listed' \in SUBSET (Own \cup {Local})
  PROVE  AccountsIInv'
<1>1. call' \in [Calls -> CallType] /\ CallsInv' /\ Follows
  BY CallsUnchanged
<1> QED
  BY <1>1, CallFacts, PartsKept

LEMMA V1Step ==
  ASSUME AccountsIInv,
         \/ AnswerRuntime \/ V1Accounts \/ V1AccountsDestroyed \/ V1ManagerReady \/ V1Timeout
         \/ V1Shutdown \/ UNCHANGED vars
  PROVE  AccountsIInv'
<1>1. UNCHANGED <<enabled, server, fixed, registry, call>>
  BY DEF AnswerRuntime, V1Accounts, V1AccountsDestroyed, V1ManagerReady, V1Timeout, V1Shutdown, vars
<1>2. listed' = listed \/ listed' = listed \cup (enabled \cap Known)
  BY DEF AnswerRuntime, V1Accounts, V1AccountsDestroyed, V1ManagerReady, V1Timeout, V1Shutdown, vars
<1>3. listed' \in SUBSET (Own \cup {Local})
  BY <1>2, CallFacts DEF Known
<1> QED
  BY <1>1, <1>3, RestStep

LEMMA AccountsInit == Init => AccountsIInv
<1> SUFFICES ASSUME Init PROVE AccountsIInv
  OBVIOUS
<1>1. NoCall \in CallType /\ CallOK(NoCall, enabled)
  <2>1. NoCall \in CallType
    BY DEF NoCall, CallType
  <2>2. NoCall.msg = "unsent" /\ NoCall.reply = "none" /\ NoCall.to = "nobody"
    BY DEF NoCall, Nobody
  <2> QED
    BY <2>1, <2>2 DEF CallOK
<1>2. call = [c \in Calls |-> NoCall] /\ server = Process /\ fixed = Process /\ registry = Process
      /\ enabled \in SUBSET Managed /\ listed = {}
  BY DEF Init
<1>3. CallsInv /\ call \in [Calls -> CallType]
  BY <1>1, <1>2 DEF CallsInv
<1>4. AccountTypes
  BY <1>2, <1>3, ProcessTyped DEF AccountTypes
<1>5. ServerOK(Process, enabled, call)
  <2>1. Process.inbox = <<>> /\ Process.run = "off" /\ ~ Process.asked
    BY DEF Process
  <2> QED
    BY <2>1, ProcessTyped DEF ServerOK, ServerInv, SignalsInv, InboxOK, ViewsInv
<1> QED
  BY <1>2, <1>3, <1>4, <1>5, EmptyInbox DEF AccountsIInv

-----------------------------------------------------------------------------
(***************************************************************************)
(* The theorems.                                                           *)
(***************************************************************************)
\* Every step of Online Accounts, the daemon, the providers, the registry and the
\* clients keeps the invariant.
THEOREM AccountsIInvHolds == Spec => []AccountsIInv
<1>1. AccountsIInv /\ [Next]_vars => AccountsIInv'
  <2> SUFFICES ASSUME AccountsIInv, [Next]_vars PROVE AccountsIInv'
    OBVIOUS
  <2>1. ASSUME NEW a \in Managed, Toggle(a) PROVE AccountsIInv'
    BY <2>1, ToggleStep
  <2>2. CASE AnswerServer \/ StartServer \/ ServerSlot \/ ServerIdle
    BY <2>2, AnswerServerStep, StartServerStep, ServerEndStep, ReadyStep, DisabledStep,
       ServerCallStep DEF ServerSlot
  <2>3. CASE StartFixed \/ FixedCall \/ FixedIdle
    BY <2>3, FixedProcessStep, FixedCallStep
  <2>4. CASE StartRegistry \/ ListAccounts \/ RegistryIdle
    BY <2>4, RegistryProcessStep, ListAccountsStep
  <2>5. CASE \/ AnswerRuntime \/ V1Accounts \/ V1AccountsDestroyed \/ V1ManagerReady \/ V1Timeout
             \/ V1Shutdown \/ UNCHANGED vars
    BY <2>5, V1Step
  <2>6. ASSUME NEW c \in Calls,
               \/ ListAccountsCall(c) \/ AccountCall(c) \/ TimeOutCall(c) \/ Deliver(c)
               \/ AnswerHandler(c) \/ HandlerSlot(c)
               \/ ServerReply(c) \/ FixedReply(c)
        PROVE  AccountsIInv'
    BY <2>6, ClientStep, TimeOutStep, DeliverStep, AnswerHandlerStep, HandlerReadyStep,
       DeleteHandlerStep, ServerReplyStep, FixedReplyStep DEF HandlerSlot
  <2> QED
    BY <2>1, <2>2, <2>3, <2>4, <2>5, <2>6 DEF Next
<1> QED
  BY <1>1, AccountsInit, PTL DEF Spec

\* ServerImpl exports the accounts before it takes its name, and the daemon delivers
\* signals and calls in one order: no call to an account that was enabled all the time
\* finds no object, and none to an account that was disabled all the time is served.
THEOREM AnswersFit == Spec => []AnswersFitTheAccount
<1>1. AccountsIInv => AnswersFitTheAccount
  BY DEF AccountsIInv, CallsInv, CallOK, AnswersFitTheAccount
<1> QED
  BY <1>1, AccountsIInvHolds, PTL

\* A reply of the registry's ListAccountsHandler has every account of a provider that
\* was enabled all through the call, none that was never enabled, and the local one.
THEOREM ListsFit == Spec => []ListsFitTheAccounts
<1>1. AccountsIInv => ListsFitTheAccounts
  BY DEF AccountsIInv, CallsInv, CallOK, ListOK, ListsFitTheAccounts
<1> QED
  BY <1>1, AccountsIInvHolds, PTL

\* An account that the registry, or accounts() of client library v1, told a client of has
\* a provider: calls to it go to a provider that knows the account's service.
THEOREM CallsHaveAProvider ==
  Spec => [](/\ listed \subseteq Own \cup {Local}
             /\ \A c \in Calls : call[c].to = "server" => call[c].account \in Own)
<1>1. AccountsIInv => /\ listed \subseteq Own \cup {Local}
                      /\ \A c \in Calls : call[c].to = "server" => call[c].account \in Own
  BY DEF AccountsIInv, AccountTypes, CallsInv, CallOK
<1> QED
  BY <1>1, AccountsIInvHolds, PTL
=============================================================================
