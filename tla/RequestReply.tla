---------------------------- MODULE RequestReply ----------------------------
(***************************************************************************)
(* What a provider promises for every D-Bus call: the provider's method is *)
(* run at most twice, one reply is sent, and nothing happens to the        *)
(* request afterwards.                                                     *)
(***************************************************************************)
EXTENDS Naturals

CONSTANT Requests
VARIABLES status, calls, replies

vars == <<status, calls, replies>>

Init ==
    /\ status = [q \in Requests |-> "idle"]
    /\ calls = [q \in Requests |-> 0]
    /\ replies = [q \in Requests |-> 0]

Receive(q) ==
    /\ status[q] = "idle"
    /\ status' = [status EXCEPT ![q] = "open"]
    /\ UNCHANGED <<calls, replies>>

RunMethod(q) ==
    /\ status[q] = "open"
    /\ calls[q] < 2
    /\ calls' = [calls EXCEPT ![q] = @ + 1]
    /\ UNCHANGED <<status, replies>>

Answer(q) ==
    /\ status[q] = "open"
    /\ status' = [status EXCEPT ![q] = "answered"]
    /\ replies' = [replies EXCEPT ![q] = @ + 1]
    /\ UNCHANGED calls

Next == \E q \in Requests : Receive(q) \/ RunMethod(q) \/ Answer(q)

Spec == Init /\ [][Next]_vars

\* Every request that was received is answered.
FairSpec == Spec /\ \A q \in Requests : WF_vars(Answer(q))
=============================================================================
