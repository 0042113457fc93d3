---------------------------- MODULE Deactivation ----------------------------
(***************************************************************************)
(* Accounts with a history variable: which users were inactive, or did not *)
(* exist, at every moment of a request so far.  A request that races with  *)
(* a deactivation may still find the user active; this says that no other  *)
(* does.                                                                   *)
(***************************************************************************)
EXTENDS Accounts

VARIABLE dormant

deactivationVars == <<users, agents, sessions, dormant>>

DormantTypeOK == TypeOK /\ dormant \in [Sessions -> SUBSET Users]

DeactivationInit ==
  /\ Init
  /\ dormant = [s \in Sessions |-> {}]

\* A request starts with the users that are inactive then and loses those that
\* are activated while it runs.
Observe ==
  dormant' = [s \in Sessions |->
    CASE sessions'[s] = Idle -> {}
      [] sessions'[s] # Idle /\ sessions[s] = Idle -> InactiveUsers'
      [] OTHER -> dormant[s] \cap InactiveUsers']

DeactivationNext == Next /\ Observe

DeactivationSpec == DeactivationInit /\ [][DeactivationNext]_deactivationVars

-----------------------------------------------------------------------------
\* The users a request that has decided acts on as active ones: the owner of the
\* profile it assigns, makes available or otherwise, or creates.
Relies(s) ==
  LET plan == sessions[s].plan IN
  CASE sessions[s].op = "assign"         -> {agents[plan.profile].user_id}
    [] sessions[s].op = "update_status"  -> {plan.user}
    [] sessions[s].op = "create_profile" -> {plan.user}
    [] OTHER                             -> {}

\* README: "Deactivation and role changes therefore affect existing tokens
\* immediately", and "the target must be active and AVAILABLE".  A deactivated user
\* neither calls nor is assigned, given a profile or made available by any request
\* that starts after the deactivation, although requests that raced with it may
\* have left the profile AVAILABLE.
DeactivationIsFelt ==
  \A s \in Sessions : sessions[s] # Idle =>
    /\ sessions[s].actor \notin dormant[s]
    /\ sessions[s].pc = "decided" => Relies(s) \cap dormant[s] = {}
=============================================================================
