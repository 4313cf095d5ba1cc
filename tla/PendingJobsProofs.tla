------------------------- MODULE PendingJobsProofs -------------------------
(***************************************************************************)
(* Proofs about PendingJobs, for any number of clients, jobs and waiting   *)
(* calls.                                                                  *)
(***************************************************************************)
EXTENDS PendingJobs, FiniteSetTheorems, TLAPS

\* The set of jobs is finite.
LEMMA JobsFinite == IsFiniteSet(Jobs)
  BY ConstantsAssumption, FS_Union DEF Jobs

\* Every action of PendingJobs keeps its variables in their types, given that
\* a job that was asked for has an owner.
LEMMA TypeStep == TypeOK /\ PhaseMatchesTable /\ [Next]_vars => TypeOK'
<1> SUFFICES ASSUME TypeOK, PhaseMatchesTable, [Next]_vars
               PROVE  TypeOK'
    OBVIOUS
<1> USE DEF TypeOK, Phases, Reports, Jobs
<1>1. ASSUME NEW c \in Clients, Disconnect(c) PROVE TypeOK'
    BY <1>1 DEF Disconnect
<1>2. ASSUME NEW r \in Requests, Send(r) PROVE TypeOK'
    BY <1>2 DEF Send
<1>3. ASSUME NEW c \in Clients, NEW j \in Jobs, Create(c, j) PROVE TypeOK'
    BY <1>3 DEF Create
<1>4. ASSUME NEW j \in Jobs, CreateDone(j) PROVE TypeOK'
    BY <1>4 DEF CreateDone, AddJob, WatchPeer, PhaseMatchesTable
<1>5. ASSUME NEW j \in Jobs, CreateFailed(j) PROVE TypeOK'
    BY <1>5 DEF CreateFailed
<1>6. ASSUME NEW r \in requests, Finish(r) PROVE TypeOK'
    BY <1>6 DEF Finish, Remove, UnwatchPeer, FinishJob, Requests
<1>7. ASSUME NEW r \in requests, Cancel(r) PROVE TypeOK'
    BY <1>7 DEF Cancel, Remove, UnwatchPeer, CancelJobs, Requests
<1>8. ASSUME NEW r \in requests, NoSuchJob(r) PROVE TypeOK'
    BY <1>8 DEF NoSuchJob
<1>9. ASSUME NEW j \in Jobs, Release(j) PROVE TypeOK'
    BY <1>9 DEF Release
<1>10. ASSUME NEW j \in Jobs, NEW result \in Reports, ReportClose(j, result) PROVE TypeOK'
    BY <1>10 DEF ReportClose
<1>11. ASSUME NEW j \in Jobs, ReportComplete(j) PROVE TypeOK'
    BY <1>11 DEF ReportComplete
<1>12. ASSUME NEW c \in Clients, ServiceDisconnected(c) PROVE TypeOK'
    BY <1>12 DEF ServiceDisconnected, CancelJobs
<1>13. ASSUME RemoveAccount PROVE TypeOK'
    BY <1>13 DEF RemoveAccount
<1>14. ASSUME DestroyPendingJobs PROVE TypeOK'
    BY <1>14 DEF DestroyPendingJobs, CancelJobs
<1>15. ASSUME UNCHANGED vars PROVE TypeOK'
    BY <1>15 DEF vars
<1> QED
    BY <1>1, <1>2, <1>3, <1>4, <1>5, <1>6, <1>7, <1>8, <1>9, <1>10, <1>11, <1>12,
     <1>13, <1>14, <1>15 DEF Next, Runtime, Environment
\* What the phase, the reports and the calls of one job say of each other is
\* kept by every action; actions on other jobs leave it alone.
LEMMA JobStep == IInv /\ [Next]_vars
                   => (PhaseMatchesTable /\ ReportsOnce /\ EndedAtMostOnce /\ NeverDropped)'
<1> SUFFICES ASSUME IInv, [Next]_vars, NEW j \in Jobs
             PROVE  /\ (j \in Table <=> phase[j] = "pending")'
                    /\ (phase[j] # "unborn" => owner[j] \in Clients)'
                    /\ (phase[j] \in {"unborn", "creating", "pending"}
                            => finished[j] + cancelled[j] = 0)'
                    /\ (reporting[j] # "no" =>
                            completion[j] = "none" /\ phase[j] \notin {"unborn", "gone"})'
                    /\ (finished[j] + cancelled[j] <= 1)'
                    /\ (phase[j] \in {"finishing", "cancelling", "aborting"}
                            => finished[j] + cancelled[j] = 1 \/ completion[j] # "none")'
                    /\ (j \in Table => finished[j] + cancelled[j] = 0)'
  BY DEF PhaseMatchesTable, ReportsOnce, EndedAtMostOnce, NeverDropped
<1> DEFINE JobOK == 
    /\ j \in Table <=> phase[j] = "pending"
    /\ phase[j] # "unborn" => owner[j] \in Clients
    /\ phase[j] \in {"unborn", "creating", "pending"} => finished[j] + cancelled[j] = 0
    /\ reporting[j] # "no" => completion[j] = "none" /\ phase[j] \notin {"unborn", "gone"}
    /\ finished[j] + cancelled[j] <= 1
    /\ phase[j] \in {"finishing", "cancelling", "aborting"}
         => finished[j] + cancelled[j] = 1 \/ completion[j] # "none"
    /\ j \in Table => finished[j] + cancelled[j] = 0
<1> SUFFICES JobOK'
  OBVIOUS
<1>0. JobOK
  BY DEF IInv, PhaseMatchesTable, ReportsOnce, EndedAtMostOnce, NeverDropped
<1>t. TypeOK
  BY DEF IInv
<1> USE <1>0, <1>t DEF TypeOK, Table, Jobs, Reports
<1>1. ASSUME NEW c \in Clients, Disconnect(c) PROVE JobOK'
  BY <1>1 DEF Disconnect
<1>2. ASSUME NEW r \in Requests, Send(r) PROVE JobOK'
  BY <1>2 DEF Send
<1>3. ASSUME NEW c \in Clients, NEW i \in Jobs, Create(c, i) PROVE JobOK'
  BY <1>3 DEF Create
<1>4. ASSUME NEW i \in Jobs, CreateDone(i) PROVE JobOK'
  BY <1>4 DEF CreateDone, AddJob
<1>5. ASSUME NEW i \in Jobs, CreateFailed(i) PROVE JobOK'
  BY <1>5 DEF CreateFailed
<1>6. ASSUME NEW r \in requests, Finish(r) PROVE JobOK'
  BY <1>6 DEF Finish, Remove, FinishJob, Registered, Requests
<1>7. ASSUME NEW r \in requests, Cancel(r) PROVE JobOK'
  BY <1>7 DEF Cancel, Remove, CancelJobs, Registered, Requests
<1>8. ASSUME NEW r \in requests, NoSuchJob(r) PROVE JobOK'
  BY <1>8 DEF NoSuchJob
<1>9. ASSUME NEW i \in Jobs, Release(i) PROVE JobOK'
  BY <1>9 DEF Release
<1>10. ASSUME NEW i \in Jobs, NEW result \in Reports, ReportClose(i, result) PROVE JobOK'
  BY <1>10 DEF ReportClose
<1>11. ASSUME NEW i \in Jobs, ReportComplete(i) PROVE JobOK'
  BY <1>11 DEF ReportComplete
<1>12. ASSUME NEW c \in Clients, ServiceDisconnected(c) PROVE JobOK'
  BY <1>12 DEF ServiceDisconnected, CancelJobs, JobsOf
<1>13. ASSUME RemoveAccount PROVE JobOK'
  BY <1>13 DEF RemoveAccount
<1>14. ASSUME DestroyPendingJobs PROVE JobOK'
  BY <1>14 DEF DestroyPendingJobs, CancelJobs
<1>15. ASSUME UNCHANGED vars PROVE JobOK'
  BY <1>15 DEF vars
<1> QED
  BY <1>1, <1>2, <1>3, <1>4, <1>5, <1>6, <1>7, <1>8,
     <1>9, <1>10, <1>11, <1>12, <1>13, <1>14, <1>15 DEF Next, Runtime, Environment

\* The set of jobs a client has in the table is finite.
LEMMA JobsOfFinite ==
  ASSUME TypeOK, NEW c PROVE IsFiniteSet(JobsOf(c, Table))
  BY JobsFinite, FS_Subset DEF TypeOK, Table, JobsOf, Jobs

\* Where neither the tables nor the watches change, they still agree.
LEMMA WatchUnchanged ==
  ASSUME WatchMatchesTable, UNCHANGED <<uploads, downloads, services, watched>>,
         \A j \in Table : owner'[j] = owner[j]
  PROVE  WatchMatchesTable'
<1>1. ASSUME NEW c \in Clients PROVE JobsOf(c, Table)' = JobsOf(c, Table)
  BY DEF JobsOf, Table
<1> QED
  BY <1>1 DEF WatchMatchesTable

\* watch_peer, with the job already entered: the count of its owner goes up
\* with the set of its jobs.
LEMMA WatchAdds ==
  ASSUME IInv, NEW i \in Jobs, CreateDone(i)
  PROVE  WatchMatchesTable'
<1>0. /\ TypeOK /\ owner[i] \in Clients /\ i \notin Table
      /\ owner' = owner
      /\ Table' = Table \cup {i}
  BY DEF IInv, PhaseMatchesTable, CreateDone, AddJob, TypeOK, Table, Jobs
<1>1. ASSUME NEW c \in Clients
      PROVE  /\ (services[c] = Cardinality(JobsOf(c, Table)))'
             /\ (c \in watched <=> services[c] > 0)'
  <2>1. CASE c = owner[i]
    <3>1. JobsOf(c, Table)' = JobsOf(c, Table) \cup {i}
      BY <1>0, <2>1 DEF JobsOf
    <3>2. Cardinality(JobsOf(c, Table)') = Cardinality(JobsOf(c, Table)) + 1
      <4>1. i \notin JobsOf(c, Table)
        BY <1>0 DEF JobsOf
      <4> QED
        BY <4>1, <1>0, <3>1, JobsOfFinite, FS_AddElement
    <3> QED
      BY <1>0, <2>1, <3>2 DEF IInv, WatchMatchesTable, TypeOK, CreateDone, AddJob, WatchPeer
  <2>2. CASE c # owner[i]
    <3>1. JobsOf(c, Table)' = JobsOf(c, Table)
      BY <1>0, <2>2 DEF JobsOf
    <3> QED
      BY <1>0, <2>2, <3>1 DEF IInv, WatchMatchesTable, TypeOK, CreateDone, AddJob, WatchPeer
  <2> QED
    BY <2>1, <2>2
<1> QED
  BY <1>1 DEF WatchMatchesTable

\* unwatch_peer after the job of r was erased.
LEMMA WatchRemoves ==
  ASSUME IInv, NEW r \in requests, Registered(r.client, r.job), Remove(r.client, r.job),
         owner' = owner
  PROVE  WatchMatchesTable'
<1> DEFINE i == r.job
           o == r.client
<1>0. /\ TypeOK /\ o \in Clients /\ owner[i] = o /\ i \in Table
      /\ Table' = Table \ {i}
  BY DEF IInv, Registered, Remove, TypeOK, Table, Requests
<1>1. ASSUME NEW c \in Clients
      PROVE  /\ (services[c] = Cardinality(JobsOf(c, Table)))'
             /\ (c \in watched <=> services[c] > 0)'
  <2>1. CASE c = o
    <3>1. JobsOf(c, Table)' = JobsOf(c, Table) \ {i}
      BY <1>0, <2>1 DEF JobsOf
    <3>2. /\ Cardinality(JobsOf(c, Table)') = Cardinality(JobsOf(c, Table)) - 1
          /\ Cardinality(JobsOf(c, Table)) # 0
      <4>1. i \in JobsOf(c, Table)
        BY <1>0, <2>1 DEF JobsOf
      <4> QED
        BY <4>1, <1>0, <3>1, JobsOfFinite, FS_RemoveElement, FS_EmptySet
    <3>3. services[c] = Cardinality(JobsOf(c, Table)) /\ services[c] \in Nat
          /\ (c \in watched <=> services[c] > 0)
      BY <1>0 DEF IInv, WatchMatchesTable, TypeOK
    <3> QED
      BY <1>0, <2>1, <3>2, <3>3 DEF TypeOK, Remove, UnwatchPeer
  <2>2. CASE c # o
    <3>1. JobsOf(c, Table)' = JobsOf(c, Table)
      BY <1>0, <2>2 DEF JobsOf
    <3> QED
      BY <1>0, <2>2, <3>1 DEF IInv, WatchMatchesTable, TypeOK, Remove, UnwatchPeer
  <2> QED
    BY <2>1, <2>2
<1> QED
  BY <1>1 DEF WatchMatchesTable

\* service_disconnected empties the client's share of the table and forgets
\* its count and its watch; the other clients are not touched.
LEMMA WatchDrops ==
  ASSUME IInv, NEW d \in Clients, ServiceDisconnected(d)
  PROVE  WatchMatchesTable'
<1>1. ASSUME NEW c \in Clients
      PROVE  /\ (services[c] = Cardinality(JobsOf(c, Table)))'
             /\ (c \in watched <=> services[c] > 0)'
  <2>1. CASE c = d
    <3>1. JobsOf(c, Table)' = {}
      BY <2>1 DEF ServiceDisconnected, JobsOf, Table
    <3> QED
      BY <2>1, <3>1, FS_EmptySet DEF ServiceDisconnected, IInv, TypeOK
  <2>2. CASE c # d
    <3>1. JobsOf(c, Table)' = JobsOf(c, Table)
      BY <2>2 DEF ServiceDisconnected, JobsOf, Table
    <3> QED
      BY <2>2, <3>1 DEF ServiceDisconnected, IInv, WatchMatchesTable, TypeOK
  <2> QED
    BY <2>1, <2>2
<1> QED
  BY <1>1 DEF WatchMatchesTable

\* Every action keeps services_ and the watcher in step with the tables.
LEMMA WatchStep == IInv /\ [Next]_vars => WatchMatchesTable'
<1> SUFFICES ASSUME IInv, [Next]_vars
             PROVE  WatchMatchesTable'
  OBVIOUS
<1>0. WatchMatchesTable
  BY DEF IInv
<1>1. ASSUME NEW c \in Clients, NEW i \in Jobs, Create(c, i) PROVE WatchMatchesTable'
  <2>1. i \notin Table
    BY <1>1 DEF Create, IInv, PhaseMatchesTable
  <2>2. \A j \in Table : owner'[j] = owner[j]
    BY <1>1, <2>1 DEF Create, IInv, TypeOK, Table, Jobs
  <2> QED
    BY <1>0, <1>1, <2>2, WatchUnchanged DEF Create
<1>2. ASSUME NEW i \in Jobs, CreateDone(i) PROVE WatchMatchesTable'
  BY <1>2, WatchAdds
<1>3. ASSUME NEW r \in requests, Finish(r) \/ Cancel(r) PROVE WatchMatchesTable'
  BY <1>3, WatchRemoves DEF Finish, Cancel
<1>4. ASSUME NEW c \in Clients, ServiceDisconnected(c) PROVE WatchMatchesTable'
  BY <1>4, WatchDrops
<1>5. ASSUME DestroyPendingJobs PROVE WatchMatchesTable'
  <2>1. ASSUME NEW c \in Clients PROVE JobsOf(c, Table)' = {}
    BY <1>5 DEF DestroyPendingJobs, JobsOf, Table
  <2> QED
    BY <1>5, <2>1, FS_EmptySet DEF DestroyPendingJobs, WatchMatchesTable
<1>6. ASSUME UNCHANGED <<uploads, downloads, services, watched, owner>>
      PROVE  WatchMatchesTable'
  BY <1>0, <1>6, WatchUnchanged
<1> QED
  BY <1>1, <1>2, <1>3, <1>4, <1>5, <1>6
  DEF Next, Runtime, Environment, vars, Disconnect, Send, CreateFailed, NoSuchJob,
      Release, ReportClose, ReportComplete, RemoveAccount

\* The strengthened invariant holds initially and is kept by every step.
THEOREM Invariance == Spec => []IInv
<1>1. Init => IInv
  <2> SUFFICES ASSUME Init PROVE IInv
    OBVIOUS
  <2>1. TypeOK
    BY DEF Init, TypeOK, Phases, Reports
  <2>2. WatchMatchesTable
    <3>1. ASSUME NEW c \in Clients PROVE JobsOf(c, Table) = {}
      BY DEF Init, JobsOf, Table
    <3> QED
      BY <3>1, FS_EmptySet DEF Init, WatchMatchesTable
  <2>3. PhaseMatchesTable /\ ReportsOnce /\ EndedAtMostOnce /\ NeverDropped
    BY DEF Init, PhaseMatchesTable, ReportsOnce, EndedAtMostOnce, NeverDropped, Table
  <2> QED
    BY <2>1, <2>2, <2>3 DEF IInv
<1>2. IInv /\ [Next]_vars => IInv'
  <2> SUFFICES ASSUME IInv, [Next]_vars PROVE IInv'
    OBVIOUS
  <2>1. TypeOK'
    BY TypeStep DEF IInv
  <2> QED
    BY <2>1, WatchStep, JobStep DEF IInv
<1> QED
  BY <1>1, <1>2, PTL DEF Spec

\* Type correctness of PendingJobs.
THEOREM TypeCorrect == Spec => []TypeOK
<1>1. IInv => TypeOK
  BY DEF IInv
<1> QED
  BY <1>1, Invariance, PTL

\* services_ and the watcher agree with the tables: a client with a job is
\* watched, and one without is not.
THEOREM WatchesCorrect == Spec => []WatchMatchesTable
<1>1. IInv => WatchMatchesTable
  BY DEF IInv
<1> QED
  BY <1>1, Invariance, PTL

\* finish() and cancel() of a job are called at most once between them.
THEOREM EndsOnce == Spec => []EndedAtMostOnce
<1>1. IInv => EndedAtMostOnce
  BY DEF IInv
<1> QED
  BY <1>1, Invariance, PTL

\* No job leaves the table without being ended.
THEOREM NothingDropped == Spec => []NeverDropped
<1>1. IInv => NeverDropped
  BY DEF IInv
<1> QED
  BY <1>1, Invariance, PTL

\* Once completed_ is set, the provider's finish() and cancel() stay uncalled
\* and the finish request is answered with what was reported.
THEOREM ReportsFinal == Spec => ReportIsFinal
<1> DEFINE Final == \A j \in Jobs : completion[j] # "none" =>
                       /\ finished'[j] = finished[j]
                       /\ cancelled'[j] = cancelled[j]
                       /\ completion'[j] = completion[j]
                       /\ answer'[j] \in {answer[j], completion[j]}
<1>1. IInv /\ [Next]_vars => [Final]_vars
  <2> SUFFICES ASSUME IInv, Next, NEW j \in Jobs, completion[j] # "none"
               PROVE  /\ finished'[j] = finished[j]
                      /\ cancelled'[j] = cancelled[j]
                      /\ completion'[j] = completion[j]
                      /\ answer'[j] \in {answer[j], completion[j]}
    OBVIOUS
  <2> DEFINE Goal == /\ finished'[j] = finished[j]
                     /\ cancelled'[j] = cancelled[j]
                     /\ completion'[j] = completion[j]
                     /\ answer'[j] \in {answer[j], completion[j]}
  <2>0. TypeOK /\ (reporting[j] = "no")
    BY DEF IInv, ReportsOnce
  <2>1. ASSUME NEW r \in requests, Finish(r) PROVE Goal
    BY <2>0, <2>1 DEF Finish, FinishJob, TypeOK, Requests
  <2>2. ASSUME NEW r \in requests, Cancel(r) PROVE Goal
    BY <2>0, <2>2 DEF Cancel, CancelJobs, TypeOK, Requests
  <2>3. ASSUME NEW c \in Clients, ServiceDisconnected(c) PROVE Goal
    BY <2>0, <2>3 DEF ServiceDisconnected, CancelJobs, TypeOK
  <2>4. ASSUME DestroyPendingJobs PROVE Goal
    BY <2>0, <2>4 DEF DestroyPendingJobs, CancelJobs, TypeOK
  <2>5. ASSUME NEW i \in Jobs, ReportComplete(i) PROVE Goal
    BY <2>0, <2>5 DEF ReportComplete, TypeOK
  <2>6. ASSUME UNCHANGED <<finished, cancelled, completion, answer>> PROVE Goal
    BY <2>6
  <2> QED
    BY <2>1, <2>2, <2>3, <2>4, <2>5, <2>6
    DEF Next, Runtime, Environment, Disconnect, Send, Create, CreateDone, AddJob, CreateFailed,
        NoSuchJob, Release, ReportClose, RemoveAccount
<1> QED
  BY <1>1, Invariance, PTL DEF Spec, ReportIsFinal

\* A job leaves the table only by a call of its owner, by its owner leaving
\* the bus, or together with the table.
THEOREM OwnersEnd == Spec => OnlyOwnerEnds
<1> DEFINE ByOwner == \A j \in Table : j \notin Table' =>
                         \/ \E r \in requests \ requests' : r.client = owner[j] /\ r.job = j
                         \/ owner[j] \in lost \ lost'
                         \/ account' = "destroyed"
<1>1. [Next]_vars => [ByOwner]_vars
  <2> SUFFICES ASSUME Next, NEW j \in Table, j \notin Table'
               PROVE  \/ \E r \in requests \ requests' : r.client = owner[j] /\ r.job = j
                      \/ owner[j] \in lost \ lost'
                      \/ account' = "destroyed"
    OBVIOUS
  <2>1. ASSUME NEW r \in requests, Finish(r) \/ Cancel(r)
        PROVE  r \in requests \ requests' /\ r.client = owner[j] /\ r.job = j
    BY <2>1 DEF Finish, Cancel, Remove, Registered, Table
  <2>2. ASSUME NEW c \in Clients, ServiceDisconnected(c)
        PROVE  owner[j] \in lost \ lost'
    BY <2>2 DEF ServiceDisconnected, JobsOf, Table
  <2>3. ASSUME DestroyPendingJobs PROVE account' = "destroyed"
    BY <2>3 DEF DestroyPendingJobs
  <2>4. ASSUME NEW i \in Jobs, CreateDone(i) PROVE FALSE
    BY <2>4 DEF CreateDone, AddJob, Table
  <2>5. ASSUME UNCHANGED <<uploads, downloads>> PROVE FALSE
    BY <2>5 DEF Table
  <2> QED
    BY <2>1, <2>2, <2>3, <2>4, <2>5
    DEF Next, Runtime, Environment, Disconnect, Send, Create, CreateFailed,
        NoSuchJob, Release, ReportClose, ReportComplete, RemoveAccount
<1> QED
  BY <1>1, PTL DEF Spec, OnlyOwnerEnds
=============================================================================
