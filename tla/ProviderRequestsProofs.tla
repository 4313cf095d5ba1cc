----------------------- MODULE ProviderRequestsProofs -----------------------
(***************************************************************************)
(* Proofs about ProviderRequests, for any number of calls and of account   *)
(* changes, on online and on fixed accounts; and about DBusPeerCache, of   *)
(* which the handlers ask who their peer is, for any number of peers and   *)
(* any size of a generation.                                               *)
(***************************************************************************)
EXTENDS ProviderRequests, DBusPeerCache, FiniteSetTheorems, TLAPS

\* What authenticate(true, again) does: on a fixed account it queues a signal;
\* on an online account it joins a session that will do or starts a new one.
LEMMA AuthenticateEffect ==
  ASSUME TypeOK, NEW again \in BOOLEAN, Authenticate(TRUE, again)
  PROVE  /\ token' = token /\ changes' = changes
         /\ Fixed => /\ emissions' = emissions + 1
                     /\ session' = session /\ creds' = creds
         /\ ~Fixed => /\ emissions' = emissions
                      /\ \/ /\ session' = session /\ creds' = creds
                            /\ session.active
                            /\ IF again THEN session.invalidate ELSE session.interactive
                         \/ /\ session' = [active |-> TRUE, interactive |-> TRUE,
                                           invalidate |-> again]
                            /\ creds' = Blank
                            /\ session.active => IF again THEN ~session.invalidate
                                                          ELSE ~session.interactive
<1>1. CASE Fixed
  BY <1>1 DEF Authenticate
<1>2. CASE ~Fixed
  <2>1. CASE SessionWillDo(TRUE, again)
    BY <1>2, <2>1 DEF Authenticate, SessionWillDo, accountVars
  <2>2. CASE ~SessionWillDo(TRUE, again)
    BY <1>2, <2>2 DEF Authenticate, SessionWillDo, TypeOK, Session
  <2> QED
    BY <2>1, <2>2
<1> QED
  BY <1>1, <1>2

\* begin() keeps the handler and the account in their types.
LEMMA BeginTypes ==
  ASSUME TypeOK, NEW h \in Handlers, NEW again \in BOOLEAN, Begin(h, again)
  PROVE  /\ pc' \in [Handlers -> PCs]
         /\ creds' \in Nat /\ session' \in Session /\ emissions' \in Nat
         /\ token' \in Nat /\ changes' \in Nat
<1>1. pc' \in [Handlers -> PCs]
  BY DEF Begin, TypeOK, PCs
<1>2. CASE UNCHANGED accountVars
  BY <1>1, <1>2 DEF accountVars, TypeOK
<1>3. CASE Authenticate(TRUE, again)
  <2>1. /\ token' = token /\ changes' = changes
        /\ emissions' \in {emissions, emissions + 1}
        /\ creds' \in {creds, Blank}
    BY <1>3 DEF Authenticate, accountVars
  <2>2. session' \in {session, [active |-> TRUE, interactive |-> TRUE, invalidate |-> again]}
    BY <1>3 DEF Authenticate, accountVars
  <2>3. session' \in Session
    <3>1. [active |-> TRUE, interactive |-> TRUE, invalidate |-> again] \in Session
      BY Zenon DEF Session
    <3>2. session \in Session
      BY DEF TypeOK
    <3> QED
      BY <2>2, <3>1, <3>2, Zenon
  <2>4. token \in Nat /\ changes \in Nat /\ emissions \in Nat /\ creds \in Nat
    BY DEF TypeOK
  <2> QED
    BY <1>1, <2>1, <2>3, <2>4 DEF Blank
<1> QED
  BY <1>2, <1>3 DEF Begin

\* The two sets that num_requests_ counts are finite, and while either has a
\* member the count is positive.
LEMMA CountsFinite ==
  /\ IsFiniteSet({h \in Handlers : Active(h)})
  /\ IsFiniteSet(JobsAlive)
  BY HandlersAssumption, FS_Subset DEF JobsAlive

LEMMA Busy ==
  ASSUME IInv, NEW h \in Handlers, Active(h) \/ job[h] = "alive"
  PROVE  numRequests > 0
<1> DEFINE A == {q \in Handlers : Active(q)}
<1>1. Cardinality(A) \in Nat /\ Cardinality(JobsAlive) \in Nat
  BY CountsFinite, FS_CardinalityType
<1>2. numRequests = Cardinality(A) + Cardinality(JobsAlive)
  BY DEF IInv, ActivityCounted
<1>3. CASE Active(h)
  <2>1. h \in A
    BY <1>3
  <2>2. Cardinality(A) # 0
    BY <2>1, CountsFinite, FS_EmptySet
  <2> HIDE DEF A
  <2> QED
    BY <1>1, <1>2, <2>2
<1>4. CASE job[h] = "alive"
  <2>1. h \in JobsAlive
    BY <1>4 DEF JobsAlive
  <2>2. Cardinality(JobsAlive) # 0
    BY <2>1, CountsFinite, FS_EmptySet
  <2> HIDE DEF A
  <2> QED
    BY <1>1, <1>2, <2>2
<1> QED
  BY <1>3, <1>4

\* Every action keeps the variables in their types; that the count never drops
\* below zero is where ActivityCounted is needed.
LEMMA TypeStep == IInv /\ [Next]_vars => TypeOK'
<1> SUFFICES ASSUME IInv, [Next]_vars
             PROVE  TypeOK'
  OBVIOUS
<1>t. TypeOK
  BY DEF IInv
<1> USE <1>t, HandlersAssumption
    DEF TypeOK, TimerTypeOK, PCs, AllKinds, Replies, Errors, Blank,
        handlerVars, accountVars, timerVars
<1>1. ASSUME NEW h \in Handlers, NEW k \in Kinds, Arrive(h, k) PROVE TypeOK'
  <2>1. /\ pc' \in [Handlers -> PCs]
        /\ creds' \in Nat /\ session' \in Session /\ emissions' \in Nat
        /\ token' \in Nat /\ changes' \in Nat
    <3>1. Begin(h, FALSE)
      BY <1>1 DEF Arrive
    <3> QED
      BY <3>1, BeginTypes, Zenon
  <2>2. /\ kind' \in [Handlers -> AllKinds]
        /\ UNCHANGED <<retry, context, refused, calls, reply, sent, job>>
    BY <1>1 DEF Arrive
  <2>3. TimerTypeOK'
    BY <1>1 DEF Arrive, RequestStarted
  <2> HIDE DEF PCs, AllKinds, Replies, Errors, TimerTypeOK
  <2> QED
    BY <2>1, <2>2, <2>3
<1>2. ASSUME NEW h \in Handlers, PeerKnown(h) PROVE TypeOK'
  BY <1>2 DEF PeerKnown
<1>3. ASSUME NEW h \in Handlers, PeerUnknown(h) PROVE TypeOK'
  BY <1>3 DEF PeerUnknown
<1>4. ASSUME NEW h \in Handlers, CallMethod(h) PROVE TypeOK'
  BY <1>4 DEF CallMethod
<1>5. ASSUME NEW h \in Handlers, NEW e \in Errors, MethodThrows(h, e) PROVE TypeOK'
  BY <1>5 DEF MethodThrows, JobTaken
<1>6. ASSUME NEW h \in Handlers, MethodReturns(h) PROVE TypeOK'
  BY <1>6 DEF MethodReturns, RequestStarted
<1>7. ASSUME NEW h \in Handlers, MethodFails(h) PROVE TypeOK'
  BY <1>7 DEF MethodFails
<1>8. ASSUME NEW h \in Handlers, MethodRefused(h) PROVE TypeOK'
  BY <1>8 DEF MethodRefused
<1>9. ASSUME NEW h \in Handlers, HandleUnauthorized(h) PROVE TypeOK'
  <2>1. CASE retry[h]
    BY <1>9, <2>1 DEF HandleUnauthorized, Send
  <2>2. CASE ~retry[h]
    <3>1. /\ pc' \in [Handlers -> PCs]
          /\ creds' \in Nat /\ session' \in Session /\ emissions' \in Nat
          /\ token' \in Nat /\ changes' \in Nat
      <4>1. Begin(h, TRUE)
        BY <1>9, <2>2 DEF HandleUnauthorized
      <4> QED
        BY <4>1, BeginTypes, Zenon
    <3>2. /\ retry' \in [Handlers -> BOOLEAN]
          /\ refused' \in [Handlers -> Nat]
      <4>1. /\ retry' = [retry EXCEPT ![h] = TRUE]
            /\ refused' = [refused EXCEPT ![h] = context[h]]
        BY <1>9, <2>2 DEF HandleUnauthorized
      <4>2. retry' \in [Handlers -> BOOLEAN]
        BY <4>1
      <4> QED
        BY <4>1, <4>2
    <3>3. UNCHANGED <<kind, context, calls, reply, sent, job, timerVars>>
      BY <1>9, <2>2 DEF HandleUnauthorized
    <3>4. TimerTypeOK'
      BY <3>3
    <3> HIDE DEF PCs, AllKinds, Replies, Errors, TimerTypeOK
    <3> QED
      BY <3>1, <3>2, <3>3, <3>4
  <2> QED
    BY <2>1, <2>2
<1>10. ASSUME NEW h \in Handlers, SendReply(h) PROVE TypeOK'
  BY <1>10 DEF SendReply, Send
<1>11. ASSUME NEW h \in Handlers, Delete(h) PROVE TypeOK'
  <2>1. numRequests > 0
    BY <1>11, Busy DEF Delete, Active
  <2> QED
    BY <1>11, <2>1 DEF Delete, RequestFinished
<1>12. ASSUME NEW h \in Handlers, JobReleased(h) PROVE TypeOK'
  <2>1. numRequests > 0
    BY <1>12, Busy DEF JobReleased
  <2> QED
    BY <1>12, <2>1 DEF JobReleased, RequestFinished
<1>13. ASSUME NEW success \in BOOLEAN, Authenticated(success) PROVE TypeOK'
  <2>1. session' \in Session
    BY <1>13 DEF Authenticated, Session
  <2>2. token' \in Nat
    BY <1>13 DEF Authenticated
  <2>3. creds' \in Nat
    BY <1>13, <2>2 DEF Authenticated
  <2> QED
    BY <1>13, <2>1, <2>2, <2>3 DEF Authenticated, WakeHandlers
<1>14. ASSUME EmitAuthenticated PROVE TypeOK'
  BY <1>14 DEF EmitAuthenticated, WakeHandlers
<1>15. ASSUME Changed PROVE TypeOK'
  BY <1>15 DEF Changed
<1>16. ASSUME OnTimeout PROVE TypeOK'
  BY <1>16 DEF OnTimeout, Expire
<1>17. ASSUME UNCHANGED vars PROVE TypeOK'
  BY <1>17 DEF vars
<1> QED
  BY <1>1, <1>2, <1>3, <1>4, <1>5, <1>6, <1>7, <1>8, <1>9,
     <1>10, <1>11, <1>12, <1>13, <1>14, <1>15, <1>16, <1>17 DEF Next, HandlerStep, AccountStep

-----------------------------------------------------------------------------
\* A step that leaves the account alone, and makes no handler wait, keeps what
\* is known of the account and of those who wait.
LEMMA AccountQuiet ==
  ASSUME AccountInv, WaitInv, UNCHANGED accountVars,
         \A q \in Handlers : pc'[q] = "auth" => pc[q] = "auth" /\ retry'[q] = retry[q]
  PROVE  AccountInv' /\ WaitInv'
<1>1. AccountInv'
  BY DEF AccountInv, accountVars, Blank
<1>2. WaitInv'
  BY DEF WaitInv, accountVars
<1> QED
  BY <1>1, <1>2

\* begin() never replaces a session somebody relies on: a session that
\* invalidates the cache is interactive, so only another that invalidates it
\* could want a better one, and that one joins.
LEMMA BeginWaits ==
  ASSUME IInv, NEW h \in Handlers, NEW again \in BOOLEAN, Begin(h, again),
         retry'[h] = again,
         \A q \in Handlers \ {h} : retry'[q] = retry[q]
  PROVE  AccountInv' /\ WaitInv'
<1>t. TypeOK /\ AccountInv /\ WaitInv
  BY DEF IInv
<1>1. \A q \in Handlers \ {h} : pc'[q] = pc[q]
  BY <1>t DEF Begin, TypeOK
<1>2. CASE HasCredentials /\ ~again
  <2>1. UNCHANGED accountVars /\ pc'[h] = "peer"
    BY <1>2, <1>t DEF Begin, TypeOK
  <2>2. \A q \in Handlers : pc'[q] = "auth" => pc[q] = "auth" /\ retry'[q] = retry[q]
    BY <1>1, <2>1
  <2> QED
    BY <1>t, <2>1, <2>2, AccountQuiet
<1>3. CASE ~(HasCredentials /\ ~again)
  <2>1. Authenticate(TRUE, again)
    BY <1>3 DEF Begin
  <2>2. CASE Fixed
    <3>1. /\ token' = token /\ emissions' = emissions + 1
          /\ session' = session /\ creds' = creds
      BY <1>t, <2>1, <2>2, AuthenticateEffect
    <3>2. AccountInv'
      BY <1>t, <2>2, <3>1 DEF AccountInv, Blank
    <3>3. emissions' > 0
      BY <1>t, <3>1 DEF TypeOK
    <3> QED
      BY <2>2, <3>2, <3>3 DEF WaitInv
  <2>3. CASE ~Fixed /\ SessionWillDo(TRUE, again)
    <3>1. UNCHANGED accountVars
      BY <2>1, <2>3 DEF Authenticate
    <3>2. AccountInv'
      BY <1>t, <3>1 DEF AccountInv, Blank, accountVars
    <3>3. session.active /\ (again => session.invalidate)
      BY <2>3 DEF SessionWillDo
    <3> QED
      BY <1>t, <1>1, <2>3, <3>1, <3>2, <3>3 DEF WaitInv, accountVars
  <2>4. CASE ~Fixed /\ ~SessionWillDo(TRUE, again)
    <3>1. /\ session' = [active |-> TRUE, interactive |-> TRUE, invalidate |-> again]
          /\ creds' = Blank /\ token' = token /\ emissions' = emissions
      BY <2>1, <2>4 DEF Authenticate
    <3>2. session'.active /\ session'.interactive /\ session'.invalidate = again
      BY <3>1
    <3>3. AccountInv'
      BY <1>t, <2>4, <3>1, <3>2 DEF AccountInv
    <3>4. ~again => ~(session.active /\ session.invalidate)
      BY <1>t, <2>4 DEF SessionWillDo, AccountInv
    <3> QED
      BY <1>t, <1>1, <2>4, <3>2, <3>3, <3>4 DEF WaitInv
  <2> QED
    BY <2>2, <2>3, <2>4
<1> QED
  BY <1>2, <1>3

\* The account's state and those who wait for it, over every action.
LEMMA AccountStepInv == IInv /\ [Next]_vars => AccountInv' /\ WaitInv'
<1> SUFFICES ASSUME IInv, [Next]_vars
             PROVE  AccountInv' /\ WaitInv'
  OBVIOUS
<1>t. TypeOK /\ AccountInv /\ WaitInv /\ ProgressInv
  BY DEF IInv
<1>1. ASSUME NEW h \in Handlers, NEW k \in Kinds, Arrive(h, k) PROVE AccountInv' /\ WaitInv'
  <2>1. Begin(h, FALSE) /\ retry' = retry /\ retry[h] = FALSE
    BY <1>t, <1>1 DEF Arrive, ProgressInv, TypeOK
  <2> QED
    BY <2>1, BeginWaits, Zenon
<1>2. ASSUME NEW h \in Handlers, PeerKnown(h) PROVE AccountInv' /\ WaitInv'
  <2>1. /\ UNCHANGED accountVars
        /\ \A q \in Handlers : pc'[q] = "auth" => pc[q] = "auth" /\ retry'[q] = retry[q]
    BY <1>t, <1>2 DEF PeerKnown, TypeOK, handlerVars
  <2> QED
    BY <1>t, <2>1, AccountQuiet
<1>3. ASSUME NEW h \in Handlers, PeerUnknown(h) PROVE AccountInv' /\ WaitInv'
  <2>1. /\ UNCHANGED accountVars
        /\ \A q \in Handlers : pc'[q] = "auth" => pc[q] = "auth" /\ retry'[q] = retry[q]
    BY <1>t, <1>3 DEF PeerUnknown, TypeOK, handlerVars
  <2> QED
    BY <1>t, <2>1, AccountQuiet
<1>4. ASSUME NEW h \in Handlers, CallMethod(h) PROVE AccountInv' /\ WaitInv'
  <2>1. /\ UNCHANGED accountVars
        /\ \A q \in Handlers : pc'[q] = "auth" => pc[q] = "auth" /\ retry'[q] = retry[q]
    BY <1>t, <1>4 DEF CallMethod, TypeOK, handlerVars
  <2> QED
    BY <1>t, <2>1, AccountQuiet
<1>5. ASSUME NEW h \in Handlers, NEW e \in Errors, MethodThrows(h, e) PROVE AccountInv' /\ WaitInv'
  <2>1. /\ UNCHANGED accountVars
        /\ \A q \in Handlers : pc'[q] = "auth" => pc[q] = "auth" /\ retry'[q] = retry[q]
    BY <1>t, <1>5 DEF MethodThrows, TypeOK, handlerVars
  <2> QED
    BY <1>t, <2>1, AccountQuiet
<1>6. ASSUME NEW h \in Handlers, MethodReturns(h) PROVE AccountInv' /\ WaitInv'
  <2>1. /\ UNCHANGED accountVars
        /\ \A q \in Handlers : pc'[q] = "auth" => pc[q] = "auth" /\ retry'[q] = retry[q]
    BY <1>t, <1>6 DEF MethodReturns, TypeOK, handlerVars
  <2> QED
    BY <1>t, <2>1, AccountQuiet
<1>7. ASSUME NEW h \in Handlers, MethodFails(h) PROVE AccountInv' /\ WaitInv'
  <2>1. /\ UNCHANGED accountVars
        /\ \A q \in Handlers : pc'[q] = "auth" => pc[q] = "auth" /\ retry'[q] = retry[q]
    BY <1>t, <1>7 DEF MethodFails, TypeOK, handlerVars
  <2> QED
    BY <1>t, <2>1, AccountQuiet
<1>8. ASSUME NEW h \in Handlers, MethodRefused(h) PROVE AccountInv' /\ WaitInv'
  <2>1. /\ UNCHANGED accountVars
        /\ \A q \in Handlers : pc'[q] = "auth" => pc[q] = "auth" /\ retry'[q] = retry[q]
    BY <1>t, <1>8 DEF MethodRefused, TypeOK, handlerVars
  <2> QED
    BY <1>t, <2>1, AccountQuiet
<1>9. ASSUME NEW h \in Handlers, HandleUnauthorized(h) PROVE AccountInv' /\ WaitInv'
  <2>1. CASE retry[h]
    <3>1. /\ UNCHANGED accountVars
          /\ \A q \in Handlers : pc'[q] = "auth" => pc[q] = "auth" /\ retry'[q] = retry[q]
      BY <1>t, <1>9, <2>1 DEF HandleUnauthorized, Send, TypeOK
    <3> QED
      BY <1>t, <3>1, AccountQuiet
  <2>2. CASE ~retry[h]
    <3>1. Begin(h, TRUE) /\ retry'[h] = TRUE
      BY <1>t, <1>9, <2>2 DEF HandleUnauthorized, TypeOK
    <3>2. \A q \in Handlers \ {h} : retry'[q] = retry[q]
      BY <1>t, <1>9, <2>2 DEF HandleUnauthorized, TypeOK
    <3> QED
      BY <3>1, <3>2, BeginWaits, Zenon
  <2> QED
    BY <2>1, <2>2
<1>10. ASSUME NEW h \in Handlers, SendReply(h) PROVE AccountInv' /\ WaitInv'
  <2>1. /\ UNCHANGED accountVars
        /\ \A q \in Handlers : pc'[q] = "auth" => pc[q] = "auth" /\ retry'[q] = retry[q]
    BY <1>t, <1>10 DEF SendReply, Send, TypeOK, handlerVars
  <2> QED
    BY <1>t, <2>1, AccountQuiet
<1>11. ASSUME NEW h \in Handlers, Delete(h) PROVE AccountInv' /\ WaitInv'
  <2>1. /\ UNCHANGED accountVars
        /\ \A q \in Handlers : pc'[q] = "auth" => pc[q] = "auth" /\ retry'[q] = retry[q]
    BY <1>t, <1>11 DEF Delete, TypeOK, handlerVars
  <2> QED
    BY <1>t, <2>1, AccountQuiet
<1>12. ASSUME NEW h \in Handlers, JobReleased(h) PROVE AccountInv' /\ WaitInv'
  <2>1. /\ UNCHANGED accountVars
        /\ \A q \in Handlers : pc'[q] = "auth" => pc[q] = "auth" /\ retry'[q] = retry[q]
    BY <1>t, <1>12 DEF JobReleased, TypeOK, handlerVars
  <2> QED
    BY <1>t, <2>1, AccountQuiet
<1>13. ASSUME NEW success \in BOOLEAN, Authenticated(success) PROVE AccountInv' /\ WaitInv'
  <2>1. \A q \in Handlers : pc'[q] # "auth"
    BY <1>t, <1>13 DEF Authenticated, WakeHandlers, TypeOK
  <2>2. /\ creds' \in {Blank, token'} /\ token' > 0
        /\ ~session'.active /\ ~Fixed /\ emissions' = emissions
    BY <1>t, <1>13 DEF Authenticated, TypeOK, Session, AccountInv
  <2> QED
    BY <1>t, <2>1, <2>2 DEF AccountInv, WaitInv
<1>14. ASSUME EmitAuthenticated PROVE AccountInv' /\ WaitInv'
  <2>1. \A q \in Handlers : pc'[q] # "auth"
    BY <1>t, <1>14 DEF EmitAuthenticated, WakeHandlers, TypeOK
  <2>2. UNCHANGED <<creds, session, token>> /\ Fixed
    BY <1>t, <1>14, HandlersAssumption DEF EmitAuthenticated, AccountInv
  <2> QED
    BY <1>t, <2>1, <2>2 DEF AccountInv, WaitInv, Blank
<1>15. ASSUME Changed PROVE AccountInv' /\ WaitInv'
  <2>1. /\ ~Fixed /\ session' = session /\ token' = token + 1
        /\ creds' = Blank /\ emissions' = emissions
    BY <1>t, <1>15 DEF Changed, AccountInv
  <2>2. AccountInv'
    BY <1>t, <2>1 DEF AccountInv, TypeOK
  <2>3. WaitInv'
    BY <1>t, <1>15, <2>1 DEF WaitInv, Changed, handlerVars
  <2> QED
    BY <2>2, <2>3
<1>16. ASSUME OnTimeout PROVE AccountInv' /\ WaitInv'
  <2>1. /\ UNCHANGED accountVars
        /\ \A q \in Handlers : pc'[q] = "auth" => pc[q] = "auth" /\ retry'[q] = retry[q]
    BY <1>t, <1>16 DEF OnTimeout, TypeOK, handlerVars
  <2> QED
    BY <1>t, <2>1, AccountQuiet
<1>17. ASSUME UNCHANGED vars PROVE AccountInv' /\ WaitInv'
  <2>1. /\ UNCHANGED accountVars
        /\ \A q \in Handlers : pc'[q] = "auth" => pc[q] = "auth" /\ retry'[q] = retry[q]
    BY <1>t, <1>17 DEF vars, TypeOK, handlerVars
  <2> QED
    BY <1>t, <2>1, AccountQuiet
<1> QED
  BY <1>1, <1>2, <1>3, <1>4, <1>5, <1>6, <1>7, <1>8, <1>9,
     <1>10, <1>11, <1>12, <1>13, <1>14, <1>15, <1>16, <1>17 DEF Next, HandlerStep, AccountStep

-----------------------------------------------------------------------------
\* Runs of the method, replies and jobs follow the handler's progress.
LEMMA ProgressStep == IInv /\ [Next]_vars => ProgressInv'
<1> SUFFICES ASSUME IInv, [Next]_vars
             PROVE  ProgressInv'
  OBVIOUS
<1>t. TypeOK /\ ProgressInv
  BY DEF IInv
<1> USE <1>t DEF TypeOK, ProgressInv, handlerVars
<1>1. ASSUME NEW h \in Handlers, NEW k \in Kinds, Arrive(h, k) PROVE ProgressInv'
  BY <1>1 DEF Arrive, Begin
<1>2. ASSUME NEW h \in Handlers, PeerKnown(h) PROVE ProgressInv'
  BY <1>2 DEF PeerKnown
<1>3. ASSUME NEW h \in Handlers, PeerUnknown(h) PROVE ProgressInv'
  BY <1>3 DEF PeerUnknown
<1>4. ASSUME NEW h \in Handlers, CallMethod(h) PROVE ProgressInv'
  BY <1>4 DEF CallMethod
<1>5. ASSUME NEW h \in Handlers, NEW e \in Errors, MethodThrows(h, e) PROVE ProgressInv'
  BY <1>5 DEF MethodThrows, JobTaken
<1>6. ASSUME NEW h \in Handlers, MethodReturns(h) PROVE ProgressInv'
  BY <1>6 DEF MethodReturns
<1>7. ASSUME NEW h \in Handlers, MethodFails(h) PROVE ProgressInv'
  BY <1>7 DEF MethodFails
<1>8. ASSUME NEW h \in Handlers, MethodRefused(h) PROVE ProgressInv'
  BY <1>8 DEF MethodRefused
<1>9. ASSUME NEW h \in Handlers, HandleUnauthorized(h) PROVE ProgressInv'
  <2>1. CASE retry[h]
    BY <1>9, <2>1 DEF HandleUnauthorized, Send
  <2>2. CASE ~retry[h]
    <3>1. /\ pc' = [pc EXCEPT ![h] = "auth"]
          /\ retry' = [retry EXCEPT ![h] = TRUE]
          /\ UNCHANGED <<calls, sent, job>>
      BY <1>9, <2>2 DEF HandleUnauthorized, Begin
    <3> QED
      BY <1>9, <2>2, <3>1 DEF HandleUnauthorized
  <2> QED
    BY <2>1, <2>2
<1>10. ASSUME NEW h \in Handlers, SendReply(h) PROVE ProgressInv'
  BY <1>10 DEF SendReply, Send
<1>11. ASSUME NEW h \in Handlers, Delete(h) PROVE ProgressInv'
  BY <1>11 DEF Delete
<1>12. ASSUME NEW h \in Handlers, JobReleased(h) PROVE ProgressInv'
  BY <1>12 DEF JobReleased
<1>13. ASSUME NEW success \in BOOLEAN, Authenticated(success) PROVE ProgressInv'
  BY <1>13 DEF Authenticated, WakeHandlers
<1>14. ASSUME EmitAuthenticated PROVE ProgressInv'
  BY <1>14 DEF EmitAuthenticated, WakeHandlers
<1>15. ASSUME Changed PROVE ProgressInv'
  BY <1>15 DEF Changed
<1>16. ASSUME OnTimeout PROVE ProgressInv'
  BY <1>16 DEF OnTimeout
<1>17. ASSUME UNCHANGED vars PROVE ProgressInv'
  BY <1>17 DEF vars
<1> QED
  BY <1>1, <1>2, <1>3, <1>4, <1>5, <1>6, <1>7, <1>8, <1>9,
     <1>10, <1>11, <1>12, <1>13, <1>14, <1>15, <1>16, <1>17 DEF Next, HandlerStep, AccountStep

\* The token never goes back, and begin() does not change it.
LEMMA BeginToken ==
  ASSUME NEW h \in Handlers, NEW again \in BOOLEAN, Begin(h, again)
  PROVE  /\ token' = token
         /\ again => pc' = [pc EXCEPT ![h] = "auth"]
         /\ pc' \in {[pc EXCEPT ![h] = "auth"], [pc EXCEPT ![h] = "peer"]}
  BY DEF Begin, Authenticate, accountVars

\* What a handler knows of tokens: those it used are old, and one that was
\* refused is older than the one its second attempt will use.
LEMMA FreshStep == IInv /\ [Next]_vars => FreshInv'
<1> SUFFICES ASSUME IInv, [Next]_vars
             PROVE  FreshInv'
  OBVIOUS
<1>t. TypeOK /\ FreshInv
  BY DEF IInv
<1> USE <1>t DEF TypeOK, FreshInv, Blank, handlerVars, accountVars
<1>1. ASSUME NEW h \in Handlers, NEW k \in Kinds, Arrive(h, k) PROVE FreshInv'
  <2>1. Begin(h, FALSE)
    BY <1>1 DEF Arrive
  <2>2. token' = token /\ \A q \in Handlers : q # h => pc'[q] = pc[q]
    BY <2>1, BeginToken
  <2>3. retry' = retry /\ context' = context /\ refused' = refused /\ ~retry[h]
    BY <1>1 DEF Arrive, IInv, ProgressInv
  <2> QED
    BY <2>2, <2>3
<1>2. ASSUME NEW h \in Handlers, PeerKnown(h) PROVE FreshInv'
  <2>1. creds \in {Blank, token} /\ (Fixed => creds = Blank)
    BY DEF IInv, AccountInv
  <2> QED
    BY <1>2, <2>1 DEF PeerKnown
<1>3. ASSUME NEW h \in Handlers, PeerUnknown(h) PROVE FreshInv'
  BY <1>3 DEF PeerUnknown
<1>4. ASSUME NEW h \in Handlers, CallMethod(h) PROVE FreshInv'
  BY <1>4 DEF CallMethod
<1>5. ASSUME NEW h \in Handlers, NEW e \in Errors, MethodThrows(h, e) PROVE FreshInv'
  BY <1>5 DEF MethodThrows
<1>6. ASSUME NEW h \in Handlers, MethodReturns(h) PROVE FreshInv'
  BY <1>6 DEF MethodReturns
<1>7. ASSUME NEW h \in Handlers, MethodFails(h) PROVE FreshInv'
  BY <1>7 DEF MethodFails
<1>8. ASSUME NEW h \in Handlers, MethodRefused(h) PROVE FreshInv'
  BY <1>8 DEF MethodRefused
<1>9. ASSUME NEW h \in Handlers, HandleUnauthorized(h) PROVE FreshInv'
  <2>1. CASE retry[h]
    BY <1>9, <2>1 DEF HandleUnauthorized, Send
  <2>2. CASE ~retry[h]
    <3>1. Begin(h, TRUE)
      BY <1>9, <2>2 DEF HandleUnauthorized
    <3>2. token' = token /\ pc' = [pc EXCEPT ![h] = "auth"]
      BY <3>1, BeginToken
    <3> QED
      BY <1>9, <2>2, <3>2 DEF HandleUnauthorized
  <2> QED
    BY <2>1, <2>2
<1>10. ASSUME NEW h \in Handlers, SendReply(h) PROVE FreshInv'
  BY <1>10 DEF SendReply, Send
<1>11. ASSUME NEW h \in Handlers, Delete(h) PROVE FreshInv'
  BY <1>11 DEF Delete
<1>12. ASSUME NEW h \in Handlers, JobReleased(h) PROVE FreshInv'
  BY <1>12 DEF JobReleased
<1>13. ASSUME NEW success \in BOOLEAN, Authenticated(success) PROVE FreshInv'
  <2>1. /\ token' \in Nat /\ token <= token'
        /\ success /\ session.invalidate => token' = token + 1
    BY <1>13 DEF Authenticated
  <2>2. \A q \in Handlers : pc[q] = "auth" => ~Fixed /\ (retry[q] => session.invalidate)
    BY <1>13 DEF Authenticated, IInv, WaitInv, AccountInv
  <2>3. UNCHANGED <<retry, context, refused>>
    BY <1>13 DEF Authenticated, WakeHandlers
  <2>4. \A q \in Handlers : /\ pc[q] # "auth" => pc'[q] = pc[q]
                            /\ pc[q] = "auth" => pc'[q] = IF success THEN "peer" ELSE "reply"
    BY <1>13 DEF Authenticated, WakeHandlers
  <2> QED
    BY <2>1, <2>2, <2>3, <2>4
<1>14. ASSUME EmitAuthenticated PROVE FreshInv'
  <2>1. token > 0 /\ token' = token
    BY <1>14 DEF EmitAuthenticated, IInv, AccountInv
  <2>2. \A q \in Handlers : refused[q] = Blank
    BY <1>14, HandlersAssumption DEF EmitAuthenticated, IInv, AccountInv
  <2> QED
    BY <1>14, <2>1, <2>2 DEF EmitAuthenticated, WakeHandlers
<1>15. ASSUME Changed PROVE FreshInv'
  BY <1>15 DEF Changed
<1>16. ASSUME OnTimeout PROVE FreshInv'
  BY <1>16 DEF OnTimeout
<1>17. ASSUME UNCHANGED vars PROVE FreshInv'
  BY <1>17 DEF vars
<1> QED
  BY <1>1, <1>2, <1>3, <1>4, <1>5, <1>6, <1>7, <1>8, <1>9,
     <1>10, <1>11, <1>12, <1>13, <1>14, <1>15, <1>16, <1>17 DEF Next, HandlerStep, AccountStep

-----------------------------------------------------------------------------
\* What the count and the timer promise together.
Activity == ActivityCounted /\ (exited => numRequests = 0)
ActiveSet == {h \in Handlers : Active(h)}

\* A step that neither creates nor destroys a handler or a job and leaves the
\* timer alone.
LEMMA ActivityQuiet ==
  ASSUME TypeOK, Activity, UNCHANGED <<job, timerVars>>,
         \A q \in Handlers : (Active(q)' <=> Active(q)) /\ (pc'[q] = "deleted" <=> pc[q] = "deleted")
  PROVE  Activity'
<1>1. ActiveSet' = ActiveSet /\ JobsAlive' = JobsAlive
  BY DEF ActiveSet, JobsAlive
<1>2. numRequests = Cardinality(ActiveSet) + Cardinality(JobsAlive)
  BY DEF Activity, ActivityCounted, ActiveSet
<1>3. numRequests' = Cardinality(ActiveSet') + Cardinality(JobsAlive')
  BY <1>1, <1>2 DEF timerVars
<1> QED
  BY <1>3 DEF Activity, ActivityCounted, ActiveSet, timerVars

\* A new ActivityNotifier: of a handler, or of a job.
LEMMA ActivityStarts ==
  ASSUME TypeOK, Activity, ~exited, RequestStarted, NEW h \in Handlers,
         \/ ActiveSet' = ActiveSet \cup {h} /\ h \notin ActiveSet /\ JobsAlive' = JobsAlive
         \/ JobsAlive' = JobsAlive \cup {h} /\ h \notin JobsAlive /\ ActiveSet' = ActiveSet
  PROVE  Activity'
<1>1. IsFiniteSet(ActiveSet) /\ IsFiniteSet(JobsAlive)
  BY CountsFinite DEF ActiveSet
<1>2. Cardinality(ActiveSet) \in Nat /\ Cardinality(JobsAlive) \in Nat
  BY <1>1, FS_CardinalityType
<1>3. numRequests = Cardinality(ActiveSet) + Cardinality(JobsAlive)
  BY DEF Activity, ActivityCounted, ActiveSet
<1>4. Cardinality(ActiveSet') + Cardinality(JobsAlive')
        = Cardinality(ActiveSet) + Cardinality(JobsAlive) + 1
  <2>1. CASE ActiveSet' = ActiveSet \cup {h} /\ h \notin ActiveSet /\ JobsAlive' = JobsAlive
    <3>1. Cardinality(ActiveSet') = Cardinality(ActiveSet) + 1
      BY <1>1, <2>1, FS_AddElement
    <3>2. Cardinality(JobsAlive') = Cardinality(JobsAlive)
      BY <2>1
    <3> QED
      BY <1>2, <3>1, <3>2
  <2>2. CASE JobsAlive' = JobsAlive \cup {h} /\ h \notin JobsAlive /\ ActiveSet' = ActiveSet
    <3>1. Cardinality(JobsAlive') = Cardinality(JobsAlive) + 1
      BY <1>1, <2>2, FS_AddElement
    <3>2. Cardinality(ActiveSet') = Cardinality(ActiveSet)
      BY <2>2
    <3> QED
      BY <1>2, <3>1, <3>2
  <2> QED
    BY <2>1, <2>2
<1>5. numRequests' = numRequests + 1 /\ numRequests \in Nat
  BY DEF RequestStarted, TypeOK, TimerTypeOK
<1>6. numRequests' = Cardinality(ActiveSet') + Cardinality(JobsAlive')
  BY <1>3, <1>4, <1>5
<1>7. (timer' = "running" => numRequests' = 0) /\ ~exited' /\ numRequests' # 0
  BY <1>5 DEF RequestStarted, Activity, ActivityCounted
<1> QED
  BY <1>6, <1>7 DEF Activity, ActivityCounted, ActiveSet

\* An ActivityNotifier ends.
LEMMA ActivityEnds ==
  ASSUME TypeOK, Activity, RequestFinished, NEW h \in Handlers,
         \/ ActiveSet' = ActiveSet \ {h} /\ h \in ActiveSet /\ JobsAlive' = JobsAlive
         \/ JobsAlive' = JobsAlive \ {h} /\ h \in JobsAlive /\ ActiveSet' = ActiveSet
  PROVE  Activity'
<1>1. IsFiniteSet(ActiveSet) /\ IsFiniteSet(JobsAlive)
  BY CountsFinite DEF ActiveSet
<1>2. /\ Cardinality(ActiveSet) \in Nat /\ Cardinality(JobsAlive) \in Nat
      /\ Cardinality(ActiveSet') \in Nat /\ Cardinality(JobsAlive') \in Nat
  BY <1>1, FS_CardinalityType, FS_RemoveElement
<1>3. numRequests = Cardinality(ActiveSet) + Cardinality(JobsAlive)
  BY DEF Activity, ActivityCounted, ActiveSet
<1>4. Cardinality(ActiveSet') + Cardinality(JobsAlive')
        = Cardinality(ActiveSet) + Cardinality(JobsAlive) - 1
  <2>1. CASE ActiveSet' = ActiveSet \ {h} /\ h \in ActiveSet /\ JobsAlive' = JobsAlive
    <3>1. Cardinality(ActiveSet') = Cardinality(ActiveSet) - 1
      BY <1>1, <2>1, FS_RemoveElement
    <3>2. Cardinality(JobsAlive') = Cardinality(JobsAlive)
      BY <2>1
    <3> QED
      BY <1>2, <3>1, <3>2
  <2>2. CASE JobsAlive' = JobsAlive \ {h} /\ h \in JobsAlive /\ ActiveSet' = ActiveSet
    <3>1. Cardinality(JobsAlive') = Cardinality(JobsAlive) - 1
      BY <1>1, <2>2, FS_RemoveElement
    <3>2. Cardinality(ActiveSet') = Cardinality(ActiveSet)
      BY <2>2
    <3> QED
      BY <1>2, <3>1, <3>2
  <2> QED
    BY <2>1, <2>2
<1>5. numRequests' = numRequests - 1 /\ numRequests \in Nat
  BY DEF RequestFinished, TypeOK, TimerTypeOK
<1>6. numRequests' = Cardinality(ActiveSet') + Cardinality(JobsAlive')
  BY <1>2, <1>3, <1>4, <1>5
<1>7. numRequests > 0
  BY <1>2, <1>5, <1>6
<1>8. /\ timer' = "running" => numRequests' = 0
      /\ numRequests' = 0 => timer' = "running"
      /\ ~exited'
  BY <1>5, <1>7 DEF RequestFinished, Activity, ActivityCounted
<1> QED
  BY <1>6, <1>8 DEF Activity, ActivityCounted, ActiveSet

\* num_requests_ counts handlers and jobs exactly, and decides about the timer.
LEMMA ActivityStep == IInv /\ [Next]_vars => Activity'
<1> SUFFICES ASSUME IInv, [Next]_vars
             PROVE  Activity'
  OBVIOUS
<1>t. TypeOK /\ Activity /\ ProgressInv
  BY DEF IInv, Activity
<1>1. ASSUME NEW h \in Handlers, NEW k \in Kinds, Arrive(h, k) PROVE Activity'
  <2>1. pc[h] = "idle" /\ job' = job /\ ~exited /\ RequestStarted
    BY <1>1 DEF Arrive
  <2>2. pc' \in {[pc EXCEPT ![h] = "auth"], [pc EXCEPT ![h] = "peer"]}
    BY <1>1 DEF Arrive, Begin
  <2>3. ActiveSet' = ActiveSet \cup {h} /\ h \notin ActiveSet
    BY <1>t, <2>1, <2>2 DEF ActiveSet, Active, TypeOK
  <2>4. JobsAlive' = JobsAlive
    BY <2>1 DEF JobsAlive
  <2> QED
    BY <1>t, <2>1, <2>3, <2>4, ActivityStarts
<1>2. ASSUME NEW h \in Handlers, PeerKnown(h) PROVE Activity'
  <2>1. /\ UNCHANGED <<job, timerVars>>
        /\ \A q \in Handlers : (Active(q)' <=> Active(q)) /\ (pc'[q] = "deleted" <=> pc[q] = "deleted")
    BY <1>t, <1>2 DEF PeerKnown, Active, TypeOK, handlerVars
  <2> QED
    BY <1>t, <2>1, ActivityQuiet
<1>3. ASSUME NEW h \in Handlers, PeerUnknown(h) PROVE Activity'
  <2>1. /\ UNCHANGED <<job, timerVars>>
        /\ \A q \in Handlers : (Active(q)' <=> Active(q)) /\ (pc'[q] = "deleted" <=> pc[q] = "deleted")
    BY <1>t, <1>3 DEF PeerUnknown, Active, TypeOK, handlerVars
  <2> QED
    BY <1>t, <2>1, ActivityQuiet
<1>4. ASSUME NEW h \in Handlers, CallMethod(h) PROVE Activity'
  <2>1. /\ UNCHANGED <<job, timerVars>>
        /\ \A q \in Handlers : (Active(q)' <=> Active(q)) /\ (pc'[q] = "deleted" <=> pc[q] = "deleted")
    BY <1>t, <1>4 DEF CallMethod, Active, TypeOK, handlerVars
  <2> QED
    BY <1>t, <2>1, ActivityQuiet
<1>5. ASSUME NEW h \in Handlers, NEW e \in Errors, MethodThrows(h, e) PROVE Activity'
  <2>1. /\ UNCHANGED <<job, timerVars>>
        /\ \A q \in Handlers : (Active(q)' <=> Active(q)) /\ (pc'[q] = "deleted" <=> pc[q] = "deleted")
    BY <1>t, <1>5 DEF MethodThrows, Active, TypeOK, handlerVars
  <2> QED
    BY <1>t, <2>1, ActivityQuiet
<1>6. ASSUME NEW h \in Handlers, ~exited, MethodReturns(h) PROVE Activity'
  <2>1. pc[h] = "open" /\ pc' = [pc EXCEPT ![h] = "reply"]
    BY <1>6 DEF MethodReturns
  <2>2. \A q \in Handlers : (Active(q)' <=> Active(q)) /\ (pc'[q] = "deleted" <=> pc[q] = "deleted")
    BY <1>t, <2>1 DEF Active, TypeOK
  <2>3. CASE kind[h] = "create"
    <3>1. RequestStarted /\ job' = [job EXCEPT ![h] = "alive"]
      BY <1>6, <2>3 DEF MethodReturns
    <3>2. JobsAlive' = JobsAlive \cup {h} /\ h \notin JobsAlive
      BY <1>t, <2>1, <3>1 DEF JobsAlive, TypeOK, ProgressInv
    <3>3. ActiveSet' = ActiveSet
      BY <2>2 DEF ActiveSet
    <3> QED
      BY <1>t, <1>6, <3>1, <3>2, <3>3, ActivityStarts
  <2>4. CASE kind[h] # "create"
    BY <1>t, <1>6, <2>2, <2>4, ActivityQuiet DEF MethodReturns
  <2> QED
    BY <2>3, <2>4
<1>7. ASSUME NEW h \in Handlers, MethodFails(h) PROVE Activity'
  <2>1. /\ UNCHANGED <<job, timerVars>>
        /\ \A q \in Handlers : (Active(q)' <=> Active(q)) /\ (pc'[q] = "deleted" <=> pc[q] = "deleted")
    BY <1>t, <1>7 DEF MethodFails, Active, TypeOK, handlerVars
  <2> QED
    BY <1>t, <2>1, ActivityQuiet
<1>8. ASSUME NEW h \in Handlers, MethodRefused(h) PROVE Activity'
  <2>1. /\ UNCHANGED <<job, timerVars>>
        /\ \A q \in Handlers : (Active(q)' <=> Active(q)) /\ (pc'[q] = "deleted" <=> pc[q] = "deleted")
    BY <1>t, <1>8 DEF MethodRefused, Active, TypeOK, handlerVars
  <2> QED
    BY <1>t, <2>1, ActivityQuiet
<1>9. ASSUME NEW h \in Handlers, HandleUnauthorized(h) PROVE Activity'
  <2>1. /\ UNCHANGED <<job, timerVars>>
        /\ \A q \in Handlers : (Active(q)' <=> Active(q)) /\ (pc'[q] = "deleted" <=> pc[q] = "deleted")
    BY <1>t, <1>9 DEF HandleUnauthorized, Begin, Send, Active, TypeOK, handlerVars
  <2> QED
    BY <1>t, <2>1, ActivityQuiet
<1>10. ASSUME NEW h \in Handlers, SendReply(h) PROVE Activity'
  <2>1. /\ UNCHANGED <<job, timerVars>>
        /\ \A q \in Handlers : (Active(q)' <=> Active(q)) /\ (pc'[q] = "deleted" <=> pc[q] = "deleted")
    BY <1>t, <1>10 DEF SendReply, Send, Active, TypeOK, handlerVars
  <2> QED
    BY <1>t, <2>1, ActivityQuiet
<1>11. ASSUME NEW h \in Handlers, Delete(h) PROVE Activity'
  <2>1. pc[h] = "sent" /\ pc' = [pc EXCEPT ![h] = "deleted"] /\ job' = job
    BY <1>11 DEF Delete
  <2>2. ActiveSet' = ActiveSet \ {h} /\ h \in ActiveSet
    BY <1>t, <2>1 DEF ActiveSet, Active, TypeOK
  <2>3. JobsAlive' = JobsAlive
    BY <2>1 DEF JobsAlive
  <2> QED
    BY <1>t, <1>11, <2>2, <2>3, ActivityEnds DEF Delete
<1>12. ASSUME NEW h \in Handlers, JobReleased(h) PROVE Activity'
  <2>1. job[h] = "alive" /\ job' = [job EXCEPT ![h] = "gone"] /\ pc' = pc
    BY <1>12 DEF JobReleased
  <2>2. JobsAlive' = JobsAlive \ {h} /\ h \in JobsAlive
    BY <1>t, <2>1 DEF JobsAlive, TypeOK
  <2>3. ActiveSet' = ActiveSet
    BY <2>1 DEF ActiveSet, Active
  <2> QED
    BY <1>t, <1>12, <2>2, <2>3, ActivityEnds DEF JobReleased
<1>13. ASSUME NEW success \in BOOLEAN, Authenticated(success) PROVE Activity'
  <2>1. /\ UNCHANGED <<job, timerVars>>
        /\ \A q \in Handlers : (Active(q)' <=> Active(q)) /\ (pc'[q] = "deleted" <=> pc[q] = "deleted")
    BY <1>t, <1>13 DEF Authenticated, WakeHandlers, Active, TypeOK, handlerVars
  <2> QED
    BY <1>t, <2>1, ActivityQuiet
<1>14. ASSUME EmitAuthenticated PROVE Activity'
  <2>1. /\ UNCHANGED <<job, timerVars>>
        /\ \A q \in Handlers : (Active(q)' <=> Active(q)) /\ (pc'[q] = "deleted" <=> pc[q] = "deleted")
    BY <1>t, <1>14 DEF EmitAuthenticated, WakeHandlers, Active, TypeOK, handlerVars
  <2> QED
    BY <1>t, <2>1, ActivityQuiet
<1>15. ASSUME Changed PROVE Activity'
  <2>1. /\ UNCHANGED <<job, timerVars>>
        /\ \A q \in Handlers : (Active(q)' <=> Active(q)) /\ (pc'[q] = "deleted" <=> pc[q] = "deleted")
    BY <1>t, <1>15 DEF Changed, Active, TypeOK, handlerVars
  <2> QED
    BY <1>t, <2>1, ActivityQuiet
<1>16. ASSUME OnTimeout PROVE Activity'
  <2>1. pc' = pc /\ job' = job /\ numRequests' = numRequests /\ numRequests = 0
    BY <1>t, <1>16 DEF OnTimeout, Expire, handlerVars, Activity, ActivityCounted
  <2>2. ActiveSet' = ActiveSet /\ JobsAlive' = JobsAlive
    BY <2>1 DEF ActiveSet, Active, JobsAlive
  <2>3. numRequests' = Cardinality(ActiveSet') + Cardinality(JobsAlive')
    BY <1>t, <2>1, <2>2 DEF Activity, ActivityCounted, ActiveSet
  <2>4. timer' = "idle" /\ exited'
    BY <1>16 DEF OnTimeout, Expire
  <2> QED
    BY <2>1, <2>3, <2>4 DEF Activity, ActivityCounted, ActiveSet
<1>17. ASSUME UNCHANGED vars PROVE Activity'
  <2>1. /\ UNCHANGED <<job, timerVars>>
        /\ \A q \in Handlers : (Active(q)' <=> Active(q)) /\ (pc'[q] = "deleted" <=> pc[q] = "deleted")
    BY <1>t, <1>17 DEF vars, Active, TypeOK, handlerVars
  <2> QED
    BY <1>t, <2>1, ActivityQuiet
<1> QED
  BY <1>1, <1>2, <1>3, <1>4, <1>5, <1>6, <1>7, <1>8, <1>9,
     <1>10, <1>11, <1>12, <1>13, <1>14, <1>15, <1>16, <1>17 DEF Next, HandlerStep, AccountStep

-----------------------------------------------------------------------------
\* Handler.cpp, OnlineAccountData.cpp, InactivityTimer.cpp: the inductive
\* invariant holds in every reachable state, for any number of calls.
THEOREM Invariance == Spec => []IInv
<1>1. Init => IInv
  <2> SUFFICES ASSUME Init PROVE IInv
    OBVIOUS
  <2>1. TypeOK
    <3>1. session \in Session
      BY HandlersAssumption, Zenon DEF Init, Session
    <3> QED
      BY <3>1 DEF Init, TypeOK, TimerTypeOK, TimerInit, PCs, AllKinds, Replies, Errors, Blank
  <2>2. AccountInv
    <3>1. (session.active => ~Fixed) /\ ~session.invalidate
      BY HandlersAssumption DEF Init
    <3>2. creds = Blank /\ token = 1 /\ emissions = 0
      BY DEF Init
    <3>3. token > 0 /\ creds \in {Blank, token}
      BY <3>2
    <3> QED
      BY <3>1, <3>2, <3>3 DEF AccountInv
  <2>3. WaitInv /\ ProgressInv /\ FreshInv
    BY DEF Init, WaitInv, ProgressInv, FreshInv, Blank
  <2>4. ActivityCounted /\ (exited => numRequests = 0)
    <3>1. {h \in Handlers : Active(h)} = {} /\ JobsAlive = {}
      BY DEF Init, Active, JobsAlive
    <3>2. Cardinality({}) = 0
      BY FS_EmptySet
    <3>3. numRequests = Cardinality({h \in Handlers : Active(h)}) + Cardinality(JobsAlive)
      BY <3>1, <3>2 DEF Init, TimerInit
    <3> QED
      BY <3>3 DEF Init, TimerInit, ActivityCounted
  <2> QED
    BY <2>1, <2>2, <2>3, <2>4 DEF IInv
<1>2. IInv /\ [Next]_vars => IInv'
  BY TypeStep, AccountStepInv, ProgressStep, FreshStep, ActivityStep DEF IInv, Activity
<1> QED
  BY <1>1, <1>2, PTL DEF Spec

\* The variables keep their types; num_requests_ never goes below zero, which
\* InactivityTimer.cpp asserts.
THEOREM TypeCorrect == Spec => []TypeOK
<1>1. IInv => TypeOK
  BY DEF IInv
<1> QED
  BY <1>1, Invariance, PTL

\* InactivityTimer.cpp: the count is exact and the timer runs only while the
\* provider is idle.
THEOREM CountCorrect == Spec => []ActivityCounted
<1>1. IInv => ActivityCounted
  BY DEF IInv
<1> QED
  BY <1>1, Invariance, PTL

\* ServerImpl::on_timeout: the provider never exits with a call unanswered or
\* an upload or download in progress.
THEOREM NeverExitsBusy == Spec => []ExitsOnlyIdle
<1>1. IInv => ExitsOnlyIdle
  <2> SUFFICES ASSUME IInv, exited, NEW h \in Handlers
               PROVE  ~Active(h) /\ job[h] # "alive"
    BY DEF ExitsOnlyIdle
  <2>1. numRequests = 0
    BY DEF IInv
  <2> QED
    BY <2>1, Busy
<1> QED
  BY <1>1, Invariance, PTL

\* Handler::handle_unauthorized: the second attempt is never made with the
\* credentials that were refused, whatever other handlers do to the account.
THEOREM RetryFresh == Spec => []RetryIsFresh
<1>1. IInv => RetryIsFresh
  BY DEF IInv, TypeOK, FreshInv, RetryIsFresh, Blank
<1> QED
  BY <1>1, Invariance, PTL

\* Handler::begin: a handler waiting for the authenticated signal has someone
\* who is going to emit it.
THEOREM WakeupComes == Spec => []NoLostWakeup
<1>1. IInv => NoLostWakeup
  BY HandlersAssumption DEF IInv, WaitInv, NoLostWakeup
<1> QED
  BY <1>1, Invariance, PTL

\* OnlineAccountData::authenticate: no session that a retrying handler relies
\* on is replaced by a weaker one.
THEOREM InvalidationKept == Spec => []RetryWaitsForInvalidation
<1>1. IInv => RetryWaitsForInvalidation
  BY HandlersAssumption DEF IInv, WaitInv, RetryWaitsForInvalidation
<1> QED
  BY <1>1, Invariance, PTL

-----------------------------------------------------------------------------
\* The four ways in which a step of the provider looks to RequestReply.
LEMMA LooksIdle ==
  ASSUME UNCHANGED <<calls, sent>>, \A q \in Handlers : Status(q)' = Status(q)
  PROVE  UNCHANGED Abstract!vars
<1>1. [q \in Handlers |-> Status(q)'] = [q \in Handlers |-> Status(q)]
  OBVIOUS
<1> QED
  BY <1>1 DEF Abstract!vars

LEMMA LooksReceived ==
  ASSUME TypeOK, ProgressInv, NEW h \in Handlers, pc[h] = "idle", UNCHANGED <<calls, sent>>,
         pc' \in {[pc EXCEPT ![h] = "auth"], [pc EXCEPT ![h] = "peer"]}
  PROVE  Abstract!Receive(h)
<1>1. Status(h) = "idle" /\ Status(h)' = "open"
  BY DEF Status, TypeOK, ProgressInv
<1>2. \A q \in Handlers : q # h => Status(q)' = Status(q)
  BY DEF Status, TypeOK
<1>3. [q \in Handlers |-> Status(q)'] = [[q \in Handlers |-> Status(q)] EXCEPT ![h] = "open"]
  BY <1>1, <1>2
<1> QED
  BY <1>1, <1>3 DEF Abstract!Receive

LEMMA LooksRun ==
  ASSUME TypeOK, ProgressInv, NEW h \in Handlers, pc[h] = "call", sent' = sent,
         calls' = [calls EXCEPT ![h] = @ + 1],
         NEW p \in {"open", "reply"}, pc' = [pc EXCEPT ![h] = p]
  PROVE  Abstract!RunMethod(h)
<1>1. Status(h) = "open" /\ calls[h] < 2
  BY DEF Status, TypeOK, ProgressInv
<1>2. \A q \in Handlers : Status(q)' = Status(q)
  BY DEF Status, TypeOK
<1>3. [q \in Handlers |-> Status(q)'] = [q \in Handlers |-> Status(q)]
  BY <1>2
<1> QED
  BY <1>1, <1>3 DEF Abstract!RunMethod

LEMMA LooksAnswered ==
  ASSUME TypeOK, ProgressInv, NEW h \in Handlers, pc[h] \in {"unauth", "reply"}, Send(h),
         calls' = calls
  PROVE  Abstract!Answer(h)
<1>1. Status(h) = "open" /\ Status(h)' = "answered"
  BY DEF Status, Send, TypeOK, ProgressInv
<1>2. \A q \in Handlers : q # h => Status(q)' = Status(q)
  BY DEF Status, Send, TypeOK
<1>3. [q \in Handlers |-> Status(q)'] = [[q \in Handlers |-> Status(q)] EXCEPT ![h] = "answered"]
  BY <1>1, <1>2
<1>4. sent' = [sent EXCEPT ![h] = @ + 1]
  BY DEF Send
<1> QED
  BY <1>1, <1>3, <1>4 DEF Abstract!Answer

\* Handler.cpp implements RequestReply (its safety part): every call is
\* answered at most once, after at most two runs of the provider's method, and
\* neither is done for it afterwards.
THEOREM Implements == Spec => Abstract!Spec
<1>1. Init => Abstract!Init
  <2> SUFFICES ASSUME Init PROVE Abstract!Init
    OBVIOUS
  <2>1. [q \in Handlers |-> Status(q)] = [q \in Handlers |-> "idle"]
    BY DEF Init, Status
  <2> QED
    BY <2>1 DEF Init, Abstract!Init
<1>2. IInv /\ [Next]_vars => [Abstract!Next]_(Abstract!vars)
  <2> SUFFICES ASSUME IInv, [Next]_vars
               PROVE  Abstract!Next \/ UNCHANGED Abstract!vars
    OBVIOUS
  <2>t. TypeOK /\ ProgressInv
    BY DEF IInv
  <2>1. ASSUME NEW h \in Handlers, NEW k \in Kinds, Arrive(h, k)
        PROVE  Abstract!Next \/ UNCHANGED Abstract!vars
    <3>1. /\ pc[h] = "idle" /\ UNCHANGED <<calls, sent>>
          /\ pc' \in {[pc EXCEPT ![h] = "auth"], [pc EXCEPT ![h] = "peer"]}
      BY <2>1 DEF Arrive, Begin
    <3> QED
      BY <2>t, <3>1, LooksReceived DEF Abstract!Next
  <2>2. ASSUME NEW h \in Handlers, PeerKnown(h)
        PROVE  Abstract!Next \/ UNCHANGED Abstract!vars
    <3>1. /\ UNCHANGED <<calls, sent>>
          /\ \A q \in Handlers : Status(q)' = Status(q)
      BY <2>t, <2>2 DEF PeerKnown, Status, TypeOK, handlerVars
    <3> QED
      BY <3>1, LooksIdle
  <2>3. ASSUME NEW h \in Handlers, PeerUnknown(h)
        PROVE  Abstract!Next \/ UNCHANGED Abstract!vars
    <3>1. /\ UNCHANGED <<calls, sent>>
          /\ \A q \in Handlers : Status(q)' = Status(q)
      BY <2>t, <2>3 DEF PeerUnknown, Status, TypeOK, handlerVars
    <3> QED
      BY <3>1, LooksIdle
  <2>4. ASSUME NEW h \in Handlers, CallMethod(h)
        PROVE  Abstract!Next \/ UNCHANGED Abstract!vars
    BY <2>t, <2>4, LooksRun DEF CallMethod, Abstract!Next
  <2>5. ASSUME NEW h \in Handlers, NEW e \in Errors, MethodThrows(h, e)
        PROVE  Abstract!Next \/ UNCHANGED Abstract!vars
    <3>1. CASE JobTaken(h)
      <4>1. UNCHANGED <<calls, sent>> /\ pc' = [pc EXCEPT ![h] = "reply"] /\ pc[h] = "call"
        BY <2>t, <2>5, <3>1 DEF MethodThrows, TypeOK
      <4>2. \A q \in Handlers : Status(q)' = Status(q)
        BY <2>t, <4>1 DEF Status, TypeOK
      <4> QED
        BY <4>1, <4>2, LooksIdle
    <3>2. CASE ~JobTaken(h)
      BY <2>t, <2>5, <3>2, LooksRun DEF MethodThrows, Abstract!Next
    <3> QED
      BY <3>1, <3>2
  <2>6. ASSUME NEW h \in Handlers, MethodReturns(h)
        PROVE  Abstract!Next \/ UNCHANGED Abstract!vars
    <3>1. /\ UNCHANGED <<calls, sent>>
          /\ \A q \in Handlers : Status(q)' = Status(q)
      BY <2>t, <2>6 DEF MethodReturns, Status, TypeOK, handlerVars
    <3> QED
      BY <3>1, LooksIdle
  <2>7. ASSUME NEW h \in Handlers, MethodFails(h)
        PROVE  Abstract!Next \/ UNCHANGED Abstract!vars
    <3>1. /\ UNCHANGED <<calls, sent>>
          /\ \A q \in Handlers : Status(q)' = Status(q)
      BY <2>t, <2>7 DEF MethodFails, Status, TypeOK, handlerVars
    <3> QED
      BY <3>1, LooksIdle
  <2>8. ASSUME NEW h \in Handlers, MethodRefused(h)
        PROVE  Abstract!Next \/ UNCHANGED Abstract!vars
    <3>1. /\ UNCHANGED <<calls, sent>>
          /\ \A q \in Handlers : Status(q)' = Status(q)
      BY <2>t, <2>8 DEF MethodRefused, Status, TypeOK, handlerVars
    <3> QED
      BY <3>1, LooksIdle
  <2>9. ASSUME NEW h \in Handlers, HandleUnauthorized(h)
        PROVE  Abstract!Next \/ UNCHANGED Abstract!vars
    <3>1. CASE retry[h]
      BY <2>t, <2>9, <3>1, LooksAnswered DEF HandleUnauthorized, Abstract!Next
    <3>2. CASE ~retry[h]
      <4>1. /\ UNCHANGED <<calls, sent>> /\ pc[h] = "unauth"
            /\ pc' = [pc EXCEPT ![h] = "auth"]
        BY <2>9, <3>2 DEF HandleUnauthorized, Begin
      <4>2. \A q \in Handlers : Status(q)' = Status(q)
        BY <2>t, <4>1 DEF Status, TypeOK
      <4> QED
        BY <4>1, <4>2, LooksIdle
    <3> QED
      BY <3>1, <3>2
  <2>10. ASSUME NEW h \in Handlers, SendReply(h)
        PROVE  Abstract!Next \/ UNCHANGED Abstract!vars
    BY <2>t, <2>10, LooksAnswered DEF SendReply, Abstract!Next
  <2>11. ASSUME NEW h \in Handlers, Delete(h)
        PROVE  Abstract!Next \/ UNCHANGED Abstract!vars
    <3>1. /\ UNCHANGED <<calls, sent>>
          /\ \A q \in Handlers : Status(q)' = Status(q)
      BY <2>t, <2>11 DEF Delete, Status, TypeOK, handlerVars
    <3> QED
      BY <3>1, LooksIdle
  <2>12. ASSUME NEW h \in Handlers, JobReleased(h)
        PROVE  Abstract!Next \/ UNCHANGED Abstract!vars
    <3>1. /\ UNCHANGED <<calls, sent>>
          /\ \A q \in Handlers : Status(q)' = Status(q)
      BY <2>t, <2>12 DEF JobReleased, Status, TypeOK, handlerVars
    <3> QED
      BY <3>1, LooksIdle
  <2>13. ASSUME NEW success \in BOOLEAN, Authenticated(success)
        PROVE  Abstract!Next \/ UNCHANGED Abstract!vars
    <3>1. /\ UNCHANGED <<calls, sent>>
          /\ \A q \in Handlers : Status(q)' = Status(q)
      BY <2>t, <2>13 DEF Authenticated, WakeHandlers, Status, TypeOK, handlerVars
    <3> QED
      BY <3>1, LooksIdle
  <2>14. ASSUME EmitAuthenticated
        PROVE  Abstract!Next \/ UNCHANGED Abstract!vars
    <3>1. /\ UNCHANGED <<calls, sent>>
          /\ \A q \in Handlers : Status(q)' = Status(q)
      BY <2>t, <2>14 DEF EmitAuthenticated, WakeHandlers, Status, TypeOK, handlerVars
    <3> QED
      BY <3>1, LooksIdle
  <2>15. ASSUME Changed
        PROVE  Abstract!Next \/ UNCHANGED Abstract!vars
    <3>1. /\ UNCHANGED <<calls, sent>>
          /\ \A q \in Handlers : Status(q)' = Status(q)
      BY <2>t, <2>15 DEF Changed, Status, TypeOK, handlerVars
    <3> QED
      BY <3>1, LooksIdle
  <2>16. ASSUME OnTimeout
        PROVE  Abstract!Next \/ UNCHANGED Abstract!vars
    <3>1. /\ UNCHANGED <<calls, sent>>
          /\ \A q \in Handlers : Status(q)' = Status(q)
      BY <2>t, <2>16 DEF OnTimeout, Status, TypeOK, handlerVars
    <3> QED
      BY <3>1, LooksIdle
  <2>17. ASSUME UNCHANGED vars
        PROVE  Abstract!Next \/ UNCHANGED Abstract!vars
    <3>1. /\ UNCHANGED <<calls, sent>>
          /\ \A q \in Handlers : Status(q)' = Status(q)
      BY <2>t, <2>17 DEF vars, Status, TypeOK, handlerVars
    <3> QED
      BY <3>1, LooksIdle
  <2> QED
    BY <2>1, <2>2, <2>3, <2>4, <2>5, <2>6, <2>7, <2>8, <2>9, <2>10, <2>11,
       <2>12, <2>13, <2>14, <2>15, <2>16, <2>17 DEF Next, HandlerStep, AccountStep
<1> QED
  BY <1>1, <1>2, Invariance, PTL DEF Spec, Abstract!Spec

-----------------------------------------------------------------------------
(***************************************************************************)
(* The cache of peer credentials that the requests consult.                *)
(***************************************************************************)
\* What starting a new generation leaves: the current generation is as before
\* or moved to the old one as a whole.
LEMMA GenerationMoves ==
  \/ NextGeneration.current = Empty /\ NextGeneration.old = cache
  \/ NextGeneration.current = cache /\ NextGeneration.old = oldCache
  BY DEF NextGeneration

\* Every action keeps the places of the entries, the promises and the contents.
LEMMA CacheStep == CacheIInv /\ [CacheNext]_cacheVars => CacheIInv'
<1> SUFFICES ASSUME CacheIInv, [CacheNext]_cacheVars
             PROVE  CacheIInv'
  OBVIOUS
<1> USE CacheAssumption
    DEF CacheIInv, CacheTypeOK, OnePlace, NoLostPromise, CacheIsTrue, Unknown, Entries, Credentials,
        Garbage
<1>1. ASSUME NEW g \in Callers, NEW p \in Peers, GetCached(g, p) PROVE CacheIInv'
  BY <1>1 DEF GetCached
<1>2. ASSUME NEW g \in Callers, NEW p \in Peers, GetOld(g, p) PROVE CacheIInv'
  <2>1. CacheTypeOK'
    BY <1>2 DEF GetOld
  <2>2. OnePlace'
    BY <1>2 DEF GetOld
  <2>3. NoLostPromise'
    BY <1>2 DEF GetOld
  <2>4. CacheIsTrue'
    BY <1>2 DEF GetOld
  <2> QED
    BY <2>1, <2>2, <2>3, <2>4
<1>3. ASSUME NEW g \in Callers, NEW p \in Peers, GetPending(g, p) PROVE CacheIInv'
  BY <1>3 DEF GetPending
<1>4. ASSUME NEW g \in Callers, NEW p \in Peers, GetAsk(g, p) PROVE CacheIInv'
  BY <1>4 DEF GetAsk
<1>5. ASSUME NEW g \in Callers, Take(g) PROVE CacheIInv'
  BY <1>5 DEF Take
<1>6. ASSUME NEW p \in Peers, NEW c \in Credentials, ReceivedCredentials(p, c) PROVE CacheIInv'
  <2>1. /\ cache[p] = "none" /\ oldCache[p] = "none"
        /\ cache' = [NextGeneration.current EXCEPT ![p] = c]
        /\ oldCache' = NextGeneration.old
        /\ told' = [told EXCEPT ![p] = c]
        /\ pending' = pending \ {p}
        /\ asked' = asked
    BY <1>6, GenerationMoves DEF ReceivedCredentials, Empty
  <2>2. \/ cache' = [Empty EXCEPT ![p] = c] /\ oldCache' = cache
        \/ cache' = [cache EXCEPT ![p] = c] /\ oldCache' = oldCache
    BY <2>1, GenerationMoves
  <2>3. result' = [g \in Callers |-> IF g \in Waiting(p) THEN c ELSE result[g]]
    BY <1>6 DEF ReceivedCredentials, SetPromises
  <2>4. CacheTypeOK'
    BY <2>1, <2>2, <2>3 DEF Empty
  <2>5. OnePlace'
    BY <2>1, <2>2 DEF Empty
  <2>6. NoLostPromise'
    BY <2>1, <2>3 DEF Waiting
  <2>7. CacheIsTrue'
    BY <2>1, <2>2 DEF Empty
  <2> QED
    BY <2>4, <2>5, <2>6, <2>7
<1>7. ASSUME UNCHANGED cacheVars PROVE CacheIInv'
  BY <1>7 DEF cacheVars
<1> QED
  BY <1>1, <1>2, <1>3, <1>4, <1>5, <1>6, <1>7 DEF CacheNext, Get

\* The invariant of the peer cache holds in every reachable state.
THEOREM CacheIInvHolds == CacheSpec => []CacheIInv
<1>1. CacheInit => CacheIInv
  BY CacheAssumption DEF CacheInit, CacheIInv, CacheTypeOK, OnePlace, NoLostPromise, CacheIsTrue, Unknown,
         Empty, Entries, Garbage
<1> QED
  BY <1>1, CacheStep, PTL DEF CacheSpec

\* No peer is in two places, no waiting caller is forgotten, and what is cached
\* is what the bus daemon said.
THEOREM CacheCorrect == CacheSpec => [](OnePlace /\ NoLostPromise /\ CacheIsTrue)
<1>1. CacheIInv => OnePlace /\ NoLostPromise /\ CacheIsTrue
  BY DEF CacheIInv
<1> QED
  BY <1>1, CacheIInvHolds, PTL

\* An entry of the current generation is still cached after any step.
THEOREM EntriesSurvive == CacheSpec => SurvivesOneGeneration
<1> DEFINE Survive == \A p \in Peers :
                cache[p] # "none" => cache'[p] # "none" \/ oldCache'[p] # "none"
<1>1. CacheIInv /\ [CacheNext]_cacheVars => [Survive]_cacheVars
  <2> SUFFICES ASSUME CacheIInv, CacheNext, NEW q \in Peers, cache[q] # "none"
               PROVE  cache'[q] # "none" \/ oldCache'[q] # "none"
    OBVIOUS
  <2>1. ASSUME NEW p \in Peers, NEW c \in Credentials, ReceivedCredentials(p, c)
        PROVE  cache'[q] # "none" \/ oldCache'[q] # "none"
    <3>1. CASE NextGeneration.old = cache
      BY <2>1, <3>1 DEF ReceivedCredentials
    <3>2. CASE NextGeneration.current = cache
      BY <2>1, <3>2 DEF ReceivedCredentials, CacheIInv, CacheTypeOK, Credentials
    <3> QED
      BY <3>1, <3>2, GenerationMoves
  <2>2. ASSUME NEW g \in Callers, NEW p \in Peers, GetOld(g, p)
        PROVE  cache'[q] # "none"
    BY <2>2 DEF GetOld, CacheIInv, CacheTypeOK
  <2>3. ASSUME UNCHANGED cache PROVE cache'[q] # "none"
    BY <2>3
  <2> QED
    BY <2>1, <2>2, <2>3 DEF CacheNext, Get, GetCached, GetPending, GetAsk, Take
<1> QED
  BY <1>1, CacheIInvHolds, PTL DEF CacheSpec, SurvivesOneGeneration
=============================================================================
