------------------------------ MODULE Accounts ------------------------------
(***************************************************************************)
(* Users and agent profiles: AuthService, AgentService and the bootstrap   *)
(* command.  Every request is a transaction at READ COMMITTED that locks   *)
(* nothing it reads.  Its SELECTs are steps of their own, and so is the    *)
(* commit of what it flushed; the requests of other sessions run between.  *)
(*                                                                         *)
(* Two things of the session matter.  A user it has loaded stays in its    *)
(* identity map, so that users.get of the caller returns the row read at   *)
(* authentication.  And an UPDATE writes the columns that differ from what *)
(* was loaded, no others.                                                  *)
(*                                                                         *)
(* With one session the requests run one after the other.                  *)
(*                                                                         *)
(* A request that assigns an agent to a conversation, an escalation or a   *)
(* call asks for the agent's eligibility here; what it writes is the       *)
(* matter of Cases.                                                        *)
(***************************************************************************)
CONSTANTS
  Users,      \* ids a user may get
  Profiles,   \* ids an agent profile may get
  Emails,     \* normalised email addresses
  Sessions,   \* requests that may be in flight at once
  None        \* NULL, and "not in the UPDATE" in a plan

VARIABLES users, agents, sessions

vars == <<users, agents, sessions>>

UserRole == {"ADMIN", "SUPPORT_HEAD", "AGENT"}
ManagerRoles == {"ADMIN", "SUPPORT_HEAD"}
AgentStatus == {"AVAILABLE", "BUSY", "OFFLINE"}

ASSUME NoneIsNoId ==
  /\ None \notin Users \cup Profiles \cup Emails \cup BOOLEAN
  /\ None \notin UserRole \cup AgentStatus

UserRow == [email : Emails, role : UserRole, is_active : BOOLEAN]
NoUser == [email |-> None, role |-> None, is_active |-> FALSE]

ProfileRow == [user_id : Users, status : AgentStatus]
NoProfileRow == [user_id |-> None, status |-> None]

\* What a session flushed: the row it inserts, or the columns it writes.
Plan ==
  [kind : {"insert_user"}, email : Emails, role : UserRole]
    \cup [kind : {"insert_profile"}, user : Users]
    \cup [kind : {"assign"}, profile : Profiles]
    \cup [kind : {"update"}, user : Users, role : UserRole \cup {None},
          is_active : BOOLEAN \cup {None},
          profile : Profiles \cup {None}, status : AgentStatus \cup {None}]

Operations ==
  {"register", "bootstrap", "update_user", "create_profile", "update_status", "assign"}

\* me is the caller's row as authentication read it, first the row the handler
\* read first.
Session ==
  [pc     : {"started", "read", "decided"},
   op     : Operations,
   actor  : Users \cup {None},
   me     : UserRow \cup {NoUser},
   target : Users \cup Profiles \cup {None},
   first  : UserRow \cup ProfileRow \cup {None},
   plan   : Plan \cup {None}]

Idle == [pc |-> "idle"]

TypeOK ==
  /\ users \in [Users -> UserRow \cup {NoUser}]
  /\ agents \in [Profiles -> ProfileRow \cup {NoProfileRow}]
  /\ sessions \in [Sessions -> Session \cup {Idle}]

Init ==
  /\ users = [u \in Users |-> NoUser]
  /\ agents = [a \in Profiles |-> NoProfileRow]
  /\ sessions = [s \in Sessions |-> Idle]

-----------------------------------------------------------------------------
(***************************************************************************)
(* What a SELECT returns                                                   *)
(***************************************************************************)

Exists(u) == users[u] # NoUser

InactiveUsers == {u \in Users : ~users[u].is_active}

HasAdmin == \E u \in Users : users[u].role = "ADMIN"

EmailTaken(email) == \E u \in Users : users[u].email = email

ProfilesOf(u) == {a \in Profiles : agents[a].user_id = u}

\* users.get(u): the session's own copy when u is the caller.
Loaded(s, u) == IF u = sessions[s].actor THEN sessions[s].me ELSE users[u]

\* What of a column an UPDATE writes: nothing when the value is the loaded one.
Dirty(value, loaded) == IF value = loaded THEN None ELSE value

-----------------------------------------------------------------------------
(***************************************************************************)
(* The steps of a request                                                  *)
(***************************************************************************)

Start(s, op, actor, me) ==
  sessions' = [sessions EXCEPT ![s] =
    [pc |-> "started", op |-> op, actor |-> actor, me |-> me,
     target |-> None, first |-> None, plan |-> None]]

\* Faulty variant of MayCall: every manager may change users.
MayCallAsManager(op, me) ==
  CASE op = "register"                           -> me.role = "ADMIN"
    [] op \in {"update_user", "create_profile"}  -> me.role \in ManagerRoles
    [] op \in {"update_status", "assign"}        -> TRUE

\* get_current_user, require_roles and the role checks of the services: the
\* caller's row is read once and decides for the whole request.
MayCall(op, me) ==
  CASE op \in {"register", "update_user"} -> me.role = "ADMIN"
    [] op = "create_profile"              -> me.role \in ManagerRoles
    [] op \in {"update_status", "assign"} -> TRUE

Authenticate(s, op, u) ==
  /\ sessions[s] = Idle
  /\ op # "bootstrap"
  /\ users[u].is_active
  /\ MayCall(op, users[u])
  /\ Start(s, op, u, users[u])
  /\ UNCHANGED <<users, agents>>

\* Faulty variant of BeginBootstrap: nobody asks whether there is an admin.
BeginBootstrapAlways(s) ==
  /\ sessions[s] = Idle
  /\ Start(s, "bootstrap", None, NoUser)
  /\ UNCHANGED <<users, agents>>

\* bootstrap_admin accepts no role but ADMIN, and no second administrator.
MayBootstrap == ~HasAdmin

\* The command line has no caller, only that check.
BeginBootstrap(s) ==
  /\ sessions[s] = Idle
  /\ MayBootstrap
  /\ Start(s, "bootstrap", None, NoUser)
  /\ UNCHANGED <<users, agents>>

\* The first SELECT of a handler that makes two.
Read(s, target, row) ==
  sessions' = [sessions EXCEPT ![s] =
    [@ EXCEPT !.pc = "read", !.target = target, !.first = row]]

ReadUser(s, u) ==
  /\ sessions[s].pc = "started"
  /\ sessions[s].op \in {"update_user", "create_profile"}
  /\ Exists(u)
  /\ Read(s, u, Loaded(s, u))
  /\ UNCHANGED <<users, agents>>

ReadProfile(s, a) ==
  /\ sessions[s].pc = "started"
  /\ sessions[s].op \in {"update_status", "assign"}
  /\ agents[a] # NoProfileRow
  /\ Read(s, a, agents[a])
  /\ UNCHANGED <<users, agents>>

Decide(s, plan) ==
  /\ sessions' = [sessions EXCEPT ![s] = [@ EXCEPT !.pc = "decided", !.plan = plan]]
  /\ UNCHANGED <<users, agents>>

\* _create_user: the email is looked up, then the password is hashed in a thread.
DecideNewUser(s, email, role) ==
  /\ sessions[s].pc = "started"
  /\ sessions[s].op \in {"register", "bootstrap"}
  /\ sessions[s].op = "bootstrap" => role = "ADMIN"
  /\ ~EmailTaken(email)
  /\ Decide(s, [kind |-> "insert_user", email |-> email, role |-> role])

\* Faulty variants of MayUpdateUser: without the check of the profile, and
\* without the check that the administrator is not the user.
MayUpdateAnyRole(s, role, active) ==
  sessions[s].target = sessions[s].actor => active # FALSE /\ role \in {None, "ADMIN"}

MayUpdateOneself(s, role, active) ==
  ProfilesOf(sessions[s].target) # {} => role \in {None, "AGENT"}

\* role and active are None when the body leaves them out.
MayUpdateUser(s, role, active) ==
  LET u == sessions[s].target IN
  /\ u = sessions[s].actor => active # FALSE /\ role \in {None, "ADMIN"}
  /\ ProfilesOf(u) # {} => role \in {None, "AGENT"}

DecideUserUpdate(s, role, active) ==
  LET u   == sessions[s].target
      row == sessions[s].first
      off == {a \in ProfilesOf(u) : active = FALSE}
  IN
  /\ sessions[s].pc = "read"
  /\ sessions[s].op = "update_user"
  /\ MayUpdateUser(s, role, active)
  /\ \E a \in IF off = {} THEN {None} ELSE off :
       Decide(s, [kind |-> "update", user |-> u,
                  role |-> Dirty(role, row.role),
                  is_active |-> Dirty(active, row.is_active),
                  profile |-> a,
                  status |-> IF a = None THEN None
                             ELSE Dirty("OFFLINE", agents[a].status)])

DecideNewProfile(s) ==
  /\ sessions[s].pc = "read"
  /\ sessions[s].op = "create_profile"
  /\ sessions[s].first.role = "AGENT"
  /\ sessions[s].first.is_active
  /\ ProfilesOf(sessions[s].target) = {}
  /\ Decide(s, [kind |-> "insert_profile", user |-> sessions[s].target])

\* Faulty variant of MayChangeStatus: an inactive user may become available.
MayChangeAnyStatus(s, row) ==
  sessions[s].me.role \in ManagerRoles \/ row.user_id = sessions[s].actor

MayChangeStatus(s, row) ==
  /\ sessions[s].me.role \in ManagerRoles \/ row.user_id = sessions[s].actor
  /\ Loaded(s, row.user_id).is_active

\* Faulty variant of MayAssign: only the profile is asked, not the user.
MayAssignAvailable(s, row) ==
  /\ sessions[s].me.role \in ManagerRoles \/ row.user_id = sessions[s].actor
  /\ row.status = "AVAILABLE"

\* eligible_agent, for a manager or, when a call starts, for the assignee itself.
MayAssign(s, row) ==
  /\ sessions[s].me.role \in ManagerRoles \/ row.user_id = sessions[s].actor
  /\ Loaded(s, row.user_id).is_active
  /\ row.status = "AVAILABLE"

DecideAssignment(s) ==
  /\ sessions[s].pc = "read"
  /\ sessions[s].op = "assign"
  /\ MayAssign(s, sessions[s].first)
  /\ Decide(s, [kind |-> "assign", profile |-> sessions[s].target])

DecideStatus(s, status) ==
  LET row == sessions[s].first IN
  /\ sessions[s].pc = "read"
  /\ sessions[s].op = "update_status"
  /\ MayChangeStatus(s, row)
  /\ Decide(s, [kind |-> "update", user |-> row.user_id, role |-> None,
                is_active |-> None, profile |-> sessions[s].target,
                status |-> Dirty(status, row.status)])

-----------------------------------------------------------------------------
(***************************************************************************)
(* The end of a request                                                    *)
(***************************************************************************)

Finish(s) == sessions' = [sessions EXCEPT ![s] = Idle]

\* Faulty variant of EmailFree: no unique index.
EmailUnchecked(email) == TRUE

\* The unique index on users.email; a violation is answered 409.
EmailFree(email) == ~EmailTaken(email)

CommitNewUser(s, u) ==
  LET plan == sessions[s].plan IN
  /\ sessions[s].pc = "decided"
  /\ plan.kind = "insert_user"
  /\ ~Exists(u)
  /\ EmailFree(plan.email)
  /\ users' = [users EXCEPT ![u] =
       [email |-> plan.email, role |-> plan.role, is_active |-> TRUE]]
  /\ Finish(s)
  /\ UNCHANGED agents

\* Faulty variant of UserFree: no unique index.
UserUnchecked(u) == TRUE

\* The unique index on agents.user_id.
UserFree(u) == ProfilesOf(u) = {}

CommitNewProfile(s, a) ==
  LET plan == sessions[s].plan IN
  /\ sessions[s].pc = "decided"
  /\ plan.kind = "insert_profile"
  /\ agents[a] = NoProfileRow
  /\ UserFree(plan.user)
  /\ agents' = [agents EXCEPT ![a] = [user_id |-> plan.user, status |-> "OFFLINE"]]
  /\ Finish(s)
  /\ UNCHANGED users

\* A column of a row after an UPDATE that may or may not write it.
Written(value, old) == IF value = None THEN old ELSE value

WrittenUser(row, plan) ==
  [row EXCEPT !.role = Written(plan.role, @),
              !.is_active = Written(plan.is_active, @)]

\* Faulty variant of WrittenProfile: a status that stays is written as NULL.
WrittenProfileAlways(row, plan) == [row EXCEPT !.status = plan.status]

WrittenProfile(row, plan) == [row EXCEPT !.status = Written(plan.status, @)]

CommitUpdate(s) ==
  LET plan == sessions[s].plan IN
  /\ sessions[s].pc = "decided"
  /\ plan.kind = "update"
  /\ users' = [users EXCEPT ![plan.user] = WrittenUser(@, plan)]
  /\ agents' = [a \in Profiles |->
       IF a = plan.profile THEN WrittenProfile(agents[a], plan) ELSE agents[a]]
  /\ Finish(s)

\* The assignment takes effect; no row of users or agents changes.
CommitAssignment(s) ==
  /\ sessions[s].pc = "decided"
  /\ sessions[s].plan.kind = "assign"
  /\ Finish(s)
  /\ UNCHANGED <<users, agents>>

\* A check that fails, a unique index, a client that goes away, a server that
\* stops: nothing is written.
Rollback(s) ==
  /\ sessions[s] # Idle
  /\ Finish(s)
  /\ UNCHANGED <<users, agents>>

\* What a request does once it has begun, and the command line.
Serve(s) ==
  \/ BeginBootstrap(s)
  \/ \E u \in Users : ReadUser(s, u)
  \/ \E a \in Profiles : ReadProfile(s, a)
  \/ \E email \in Emails, role \in UserRole : DecideNewUser(s, email, role)
  \/ \E role \in UserRole \cup {None}, active \in BOOLEAN \cup {None} :
       DecideUserUpdate(s, role, active)
  \/ DecideNewProfile(s)
  \/ \E status \in AgentStatus : DecideStatus(s, status)
  \/ DecideAssignment(s)
  \/ \E u \in Users : CommitNewUser(s, u)
  \/ \E a \in Profiles : CommitNewProfile(s, a)
  \/ CommitUpdate(s)
  \/ CommitAssignment(s)
  \/ Rollback(s)

Next ==
  \E s \in Sessions :
    \/ \E op \in Operations, u \in Users : Authenticate(s, op, u)
    \/ Serve(s)

Spec == Init /\ [][Next]_vars

-----------------------------------------------------------------------------
(***************************************************************************)
(* Whatever the number of sessions                                         *)
(***************************************************************************)

\* Two registrations that both found the email free do not both get it: the
\* lookup is only a courtesy, the index decides.
EmailsAreUnique ==
  \A u, v \in Users : Exists(u) /\ users[u].email = users[v].email => u = v

\* "Each user can have at most one profile", also when two managers create it at
\* the same time.
OneProfilePerUser == \A u \in Users : \A a, b \in ProfilesOf(u) : a = b

-----------------------------------------------------------------------------
(***************************************************************************)
(* Promises that requests which run one at a time keep, and two that race  *)
(* may break                                                               *)
(***************************************************************************)

\* README: "An account with a profile must retain its AGENT role."
ProfilesKeepAgentRole ==
  \A a \in Profiles : agents[a] # NoProfileRow => users[agents[a].user_id].role = "AGENT"

\* README: deactivating a user "sets their profile OFFLINE in the same
\* transaction", and AgentService refuses to make an inactive user available.
InactiveIsOffline ==
  \A a \in Profiles : agents[a] # NoProfileRow /\ ~users[agents[a].user_id].is_active
                        => agents[a].status = "OFFLINE"

ActiveAdmin(u) == users[u].role = "ADMIN" /\ users[u].is_active

\* Because administrators cannot disable or demote themselves, and only an
\* administrator disables or demotes, an installation does not lose its last one.
AdminRemains == (\E u \in Users : Exists(u)) => \E u \in Users : ActiveAdmin(u)

\* What the README says of accounts with a profile, of deactivation and of who may
\* change whom, which six operations have to keep between them.
StaffInOrder == ProfilesKeepAgentRole /\ InactiveIsOffline /\ AdminRemains

\* README: the bootstrap command "refuses to create another initial
\* administrator if one already exists".  Each of two commands that run at once
\* finds none, and each creates one.
BootstrapIsFirst ==
  [][\A s \in Sessions :
       sessions[s] # Idle /\ sessions[s].pc = "decided" /\ sessions[s].op = "bootstrap"
         /\ users' # users /\ sessions'[s] = Idle => ~HasAdmin]_vars

\* Whatever races, the last active administrator falls only to the PATCH of somebody
\* who was one when it was authenticated, and was disabled or demoted before that PATCH
\* took effect: update_user lets nobody disable or demote themselves.
OnlyTheDeposedTakeTheLast ==
  [][AdminRemains /\ ~AdminRemains' =>
       \E s \in Sessions :
         /\ sessions[s] # Idle
         /\ sessions[s].op = "update_user"
         /\ sessions'[s] = Idle
         /\ ~ActiveAdmin(sessions[s].actor)]_vars
=============================================================================
