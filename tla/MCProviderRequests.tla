------------------------- MODULE MCProviderRequests -------------------------
(***************************************************************************)
(* The same calls on an online and on a fixed account.  The module itself  *)
(* is the online one (Fixed is FALSE); the two never mix.                  *)
(***************************************************************************)
EXTENDS ProviderRequests

VARIABLE account    \* the kind of account the provider has

FixedAccount == INSTANCE ProviderRequests WITH Fixed <- TRUE

MCInit ==
    \/ account = "online" /\ Init
    \/ account = "fixed" /\ FixedAccount!Init

OnlineStep(A) == account = "online" /\ A /\ UNCHANGED account
FixedStep(A) == account = "fixed" /\ A /\ UNCHANGED account

MCNext == OnlineStep(Next) \/ FixedStep(FixedAccount!Next)
mcVars == <<account, vars>>

\* The fairness of FairSpec, for either account.
MCSpec ==
    /\ MCInit /\ [][MCNext]_mcVars
    /\ \A h \in Handlers : WF_mcVars(OnlineStep(HandlerStep(h)) \/ FixedStep(FixedAccount!HandlerStep(h)))
    /\ WF_mcVars(OnlineStep(AccountStep) \/ FixedStep(FixedAccount!AccountStep))
    /\ WF_mcVars(OnlineStep(OnTimeout) \/ FixedStep(FixedAccount!OnTimeout))
=============================================================================
