------------------------------- MODULE Races -------------------------------
(***************************************************************************)
(* Accounts with two more history variables: the users whose row was       *)
(* changed by one request while another relied on it, and the bootstrap    *)
(* commands that did not run alone.  What the README promises of roles,    *)
(* availability and the first administrator is not true of requests that   *)
(* race so; this says that it is true of all others, however many run at   *)
(* once.                                                                   *)
(***************************************************************************)
EXTENDS Deactivation

VARIABLES raced, contested

racesVars == <<users, agents, sessions, dormant, raced, contested>>

\* s has read the user u to PATCH it.  A PATCH of oneself writes nothing.
Patches(s, u) ==
  /\ sessions[s].pc \in {"read", "decided"}
  /\ sessions[s].op = "update_user"
  /\ sessions[s].target = u
  /\ sessions[s].actor # u

\* What the checks of s, made or to come, say of u may no longer be so when it
\* commits: of the user it makes a profile for, of the user whose status it changes,
\* and of itself while it changes a status, since its own row was read at
\* authentication.
RestsOn(s, u) ==
  \/ /\ sessions[s] # Idle
     /\ sessions[s].op = "update_status"
     /\ sessions[s].actor = u
  \/ /\ sessions[s].pc \in {"read", "decided"}
     /\ sessions[s].op = "create_profile"
     /\ sessions[s].target = u
  \/ /\ sessions[s].pc \in {"read", "decided"}
     /\ sessions[s].op = "update_status"
     /\ sessions[s].first.user_id = u

Race(u) == \E s, t \in Sessions : Patches(s, u) /\ RestsOn(t, u)

Runs(s, ops) == sessions[s] # Idle /\ sessions[s].op \in ops

Bootstraps(s) == Runs(s, {"bootstrap"})

\* The command s met another, or began while a request that may make an administrator
\* was on its way.
Meets(s) ==
  \E t \in Sessions \ {s} :
    \/ Bootstraps(t)'
    \/ sessions[s] = Idle /\ Runs(t, {"register", "update_user"})'

RacesInit == DeactivationInit /\ raced = {} /\ contested = {}

RacesNext ==
  /\ DeactivationNext
  /\ raced' = raced \cup {u \in Users : Race(u)'}
  /\ contested' = {s \in Sessions : Bootstraps(s)' /\ (s \in contested \/ Meets(s))}

RacesSpec == RacesInit /\ [][RacesNext]_racesVars

-----------------------------------------------------------------------------
RacesTypeOK ==
  /\ DormantTypeOK
  /\ raced \in SUBSET Users
  /\ contested \in SUBSET Sessions

\* README: "An account with a profile must retain its AGENT role."  It does, unless
\* the user was PATCHed while another request rested on what it had read of them.
OnlyRacesMisplaceRoles ==
  \A a \in Profiles :
    agents[a] # NoProfileRow /\ agents[a].user_id \notin raced =>
      users[agents[a].user_id].role = "AGENT"

\* README: deactivating a user "sets their profile OFFLINE in the same transaction".
\* It stays so of a user that was never PATCHed while a request rested on what it had
\* read of them: one that changes the status of their profile, that they make to change
\* a status, or that makes their profile.
OnlyRacesLeaveOnDuty ==
  \A a \in Profiles :
    agents[a] # NoProfileRow /\ agents[a].user_id \notin raced /\
      ~users[agents[a].user_id].is_active => agents[a].status = "OFFLINE"

\* README: the bootstrap command "refuses to create another initial administrator if
\* one already exists".  Between its check and its insert there is none either, unless
\* it met another command, or began while the request of somebody who was
\* administrator until then was on its way: nobody else may make one.
UncontestedIsFirst ==
  \A s \in Sessions \ contested : Bootstraps(s) => ~HasAdmin
=============================================================================
