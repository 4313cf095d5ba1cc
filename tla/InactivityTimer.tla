-------------------------- MODULE InactivityTimer --------------------------
(***************************************************************************)
(* The timer that ends an idle provider or registry (InactivityTimer.cpp,  *)
(* ActivityNotifier.h): it counts the requests in progress and runs while  *)
(* there are none, after the first one.  How long it runs (EnvVars.cpp) is *)
(* abstracted: it may expire at any time.                                  *)
(***************************************************************************)
EXTENDS Naturals

VARIABLES
    numRequests,  \* num_requests_
    timer,        \* the QTimer: "idle" (not running) or "running"
    exited        \* app_->quit() was called

timerVars == <<numRequests, timer, exited>>

TimerTypeOK ==
    /\ numRequests \in Nat
    /\ timer \in {"idle", "running"}
    /\ exited \in BOOLEAN

TimerInit ==
    /\ numRequests = 0
    /\ timer = "idle"
    /\ exited = FALSE

RequestStarted ==
    /\ numRequests' = numRequests + 1
    /\ timer' = IF numRequests = 0 THEN "idle" ELSE timer
    /\ UNCHANGED exited

\* Mutant: the timer is started whenever a request ends.
RequestFinished_AlwaysStarts ==
    /\ numRequests' = numRequests - 1
    /\ timer' = "running"
    /\ UNCHANGED exited

RequestFinished ==
    /\ numRequests' = numRequests - 1
    /\ timer' = IF numRequests = 1 THEN "running" ELSE timer
    /\ UNCHANGED exited

\* The single-shot timer fires; on_timeout quits the application.
Expire ==
    /\ timer = "running"
    /\ timer' = "idle"
    /\ exited' = TRUE
    /\ UNCHANGED numRequests
=============================================================================
