----------------------------- MODULE Staff_proofs -----------------------------
(***************************************************************************)
(* What else holds of users and profiles, for every number of sessions.    *)
(*                                                                         *)
(* First, roles and availability.  What a request has read may be changed  *)
(* before it writes; who is not raced is not changed so.  The argument: of *)
(* such a user, what any request has found is still so (Finds), so that    *)
(* its checks are about the row it changes, and the profile agrees with    *)
(* the row (Agrees).  With one session nobody is ever raced.               *)
(*                                                                         *)
(* Then administrators: who takes the last one, and that none appears      *)
(* beside a bootstrap command that met no rival.                           *)
(*                                                                         *)
(* Last, that a deactivation is felt by the requests that start after it,  *)
(* and what a token is good for.                                           *)
(***************************************************************************)
EXTENDS Accounts_proofs, Races, Clients

\* What a request may say of its caller: who it is, and what it was allowed as.
CallerIs(q) ==
  IF q.op = "bootstrap"
  THEN q.actor = None
  ELSE /\ q.actor \in Users
       /\ Exists(q.actor)
       /\ q.me.is_active
       /\ q.op \in {"register", "update_user"} => q.me.role = "ADMIN"
       /\ q.op = "create_profile" => q.me.role \in ManagerRoles

\* An administrator that PATCHes its own account finds what authentication read.
ReadIs(q) ==
  q.pc \in {"read", "decided"} /\ q.op = "update_user" /\ q.target = q.actor =>
    q.first = q.me

\* An UPDATE of update_user writes nothing of the caller, and takes off duty none but
\* a profile of the user.
UserUpdateIs(q) ==
  LET p == q.plan IN
  /\ p.kind = "update"
  /\ p.user = q.target
  /\ p.user = q.actor => p.role = None /\ p.is_active = None
  /\ p.status \in {None, "OFFLINE"}
  /\ p.profile # None => p.profile \in Profiles /\ agents[p.profile].user_id = p.user

\* An UPDATE of update_status writes nothing but the status of the profile read.
StatusIs(q) ==
  LET p == q.plan IN
  /\ p.kind = "update"
  /\ p.user = q.first.user_id
  /\ p.role = None
  /\ p.is_active = None
  /\ p.profile \in Profiles
  /\ agents[p.profile].user_id = p.user

\* What is flushed is of the kind the operation writes.
PlanIs(q) ==
  q.pc = "decided" =>
    /\ q.op \in {"register", "bootstrap"} => q.plan.kind = "insert_user"
    /\ q.op = "bootstrap" => q.plan.role = "ADMIN"
    /\ q.op = "create_profile" => q.plan.kind = "insert_profile" /\ q.plan.user = q.target
    /\ q.op = "update_user" => UserUpdateIs(q)
    /\ q.op = "update_status" => StatusIs(q)
    /\ q.op = "assign" => q.plan.kind = "assign"

\* What holds of a request whatever the others do.
Sound(q) == q.pc # "idle" => CallerIs(q) /\ ReadIs(q) /\ PlanIs(q)

\* What the request q has found of the user u, and what is still so while nobody
\* changes the row that q rests on.
Finds(q, u) ==
  /\ q.op = "update_status" /\ q.actor = u => users[u].is_active
  /\ q.op = "create_profile" /\ q.target = u =>
       /\ q.pc = "read" /\ q.first.role = "AGENT" => users[u].role = "AGENT"
       /\ q.pc = "decided" => users[u].role = "AGENT"
  /\ q.op = "update_status" /\ q.pc = "decided" /\ q.plan.user = u => users[u].is_active
  /\ q.op = "update_user" /\ q.pc = "decided" /\ q.plan.user = u =>
       \A a \in ProfilesOf(u) :
         /\ q.plan.role \in {None, "AGENT"}
         /\ q.plan.is_active = FALSE =>
              \/ agents[a].status = "OFFLINE"
              \/ q.plan.profile = a /\ q.plan.status = "OFFLINE"

\* The profile of the user u agrees with its row.
Agrees(u) ==
  \A a \in ProfilesOf(u) :
    /\ users[u].role = "AGENT"
    /\ ~users[u].is_active => agents[a].status = "OFFLINE"

\* What is so of the user u until it is raced.
UserInv(u) ==
  /\ Agrees(u)
  /\ \A s \in Sessions : sessions[s].pc # "idle" => Finds(sessions[s], u)

\* What holds of all requests.
RequestsInv == AccountsInv /\ \A s \in Sessions : Sound(sessions[s])

-----------------------------------------------------------------------------
(***************************************************************************)
(* The steps of a request                                                  *)
(***************************************************************************)

\* While no row goes away, a sound request stays sound.
LEMMA SoundStays ==
  ASSUME RowsStay, NEW q \in Session \cup {Idle}, NamesRows(q), Sound(q)
  PROVE  Sound(q)'
<1>1. q.pc = "decided" /\ q.plan.kind = "update" /\ q.plan.profile # None
        => q.plan.profile \in Profiles /\ agents[q.plan.profile] # NoProfileRow
  BY DEF NamesRows, Plan
<1>2. q.pc = "decided" /\ q.op = "update_status" /\ StatusIs(q) => StatusIs(q)'
  BY <1>1, NoneIsNoId DEF StatusIs, RowsStay
<1>3. q.pc = "decided" /\ q.op = "update_user" /\ UserUpdateIs(q) => UserUpdateIs(q)'
  BY <1>1 DEF UserUpdateIs, RowsStay
<1>4. q.pc # "idle" => CallerIs(q)' /\ ReadIs(q)'
  BY DEF Sound, CallerIs, ReadIs, RowsStay
<1> QED BY <1>2, <1>3, <1>4 DEF Sound, PlanIs

\* The session s goes on as q: a sound request, that finds of every user what is so.
GoesOn(s, q) ==
  /\ sessions' = [sessions EXCEPT ![s] = q]
  /\ UNCHANGED <<users, agents>>
  /\ Sound(q)
  /\ \A u \in Users : UserInv(u) /\ q.pc # "idle" => Finds(q, u)

\* Authentication, and the check of the command line.
LEMMA StartGoesOn ==
  ASSUME RequestsInv, NEW s \in Sessions,
         \/ \E op \in Operations, u \in Users : Authenticate(s, op, u)
         \/ BeginBootstrap(s)
  PROVE  \E q : GoesOn(s, q)
<1>1. CASE \E op \in Operations, u \in Users : Authenticate(s, op, u)
  <2>1. PICK op \in Operations, u \in Users : Authenticate(s, op, u)
    BY <1>1
  <2> DEFINE q == [pc |-> "started", op |-> op, actor |-> u, me |-> users[u],
                   target |-> None, first |-> None, plan |-> None]
  <2>2. /\ op # "bootstrap"
        /\ users[u].is_active
        /\ op \in {"register", "update_user"} => users[u].role = "ADMIN"
        /\ op = "create_profile" => users[u].role \in ManagerRoles
    BY <2>1 DEF Authenticate, MayCall
  <2>3. Sound(q)
    BY <2>2 DEF Sound, CallerIs, ReadIs, PlanIs, Exists, NoUser
  <2>4. \A v \in Users : Finds(q, v)
    BY <2>2, NoneIsNoId DEF Finds
  <2>5. sessions' = [sessions EXCEPT ![s] = q] /\ UNCHANGED <<users, agents>>
    BY <2>1 DEF Authenticate, Start
  <2> HIDE DEF q
  <2> QED BY <2>3, <2>4, <2>5 DEF GoesOn
<1>2. CASE BeginBootstrap(s)
  <2> DEFINE q == [pc |-> "started", op |-> "bootstrap", actor |-> None, me |-> NoUser,
                   target |-> None, first |-> None, plan |-> None]
  <2>1. Sound(q) /\ \A v \in Users : Finds(q, v)
    BY DEF Sound, CallerIs, ReadIs, PlanIs, Finds
  <2>2. sessions' = [sessions EXCEPT ![s] = q] /\ UNCHANGED <<users, agents>>
    BY <1>2 DEF BeginBootstrap, Start
  <2> HIDE DEF q
  <2> QED BY <2>1, <2>2 DEF GoesOn
<1> QED BY <1>1, <1>2

\* The first read.
LEMMA ReadGoesOn ==
  ASSUME RequestsInv, NEW s \in Sessions,
         \/ \E u \in Users : ReadUser(s, u)
         \/ \E a \in Profiles : ReadProfile(s, a)
  PROVE  \E q : GoesOn(s, q)
<1>1. /\ sessions[s] \in Session
      /\ Sound(sessions[s])
      /\ sessions[s].pc = "started"
      /\ \A u \in Users : UserInv(u) => Finds(sessions[s], u)
  BY BusySession DEF RequestsInv, AccountsInv, ReadUser, ReadProfile, UserInv
<1>2. CASE \E u \in Users : ReadUser(s, u)
  <2>1. PICK u \in Users : ReadUser(s, u)
    BY <1>2
  <2> DEFINE q == [sessions[s] EXCEPT !.pc = "read", !.target = u, !.first = Loaded(s, u)]
  <2>2. /\ q.pc = "read"
        /\ q.op = sessions[s].op
        /\ q.op \in {"update_user", "create_profile"}
        /\ q.actor = sessions[s].actor
        /\ q.me = sessions[s].me
        /\ q.target = u
        /\ q.first = IF u = q.actor THEN q.me ELSE users[u]
    BY <1>1, <2>1 DEF ReadUser, Session, Loaded
  <2>3. sessions' = [sessions EXCEPT ![s] = q] /\ UNCHANGED <<users, agents>>
    BY <2>1 DEF ReadUser, Read
  <2> HIDE DEF q
  <2>4. Sound(q)
    BY <1>1, <2>2 DEF Sound, CallerIs, ReadIs, PlanIs
  <2>5. q.op = "create_profile" /\ q.first.role = "AGENT" => users[u].role = "AGENT"
    BY <2>2, <2>4 DEF Sound, CallerIs, ManagerRoles
  <2>6. \A v \in Users : UserInv(v) => Finds(q, v)
    BY <1>1, <2>2, <2>5 DEF Finds
  <2> QED BY <2>3, <2>4, <2>6 DEF GoesOn
<1>3. CASE \E a \in Profiles : ReadProfile(s, a)
  <2>1. PICK a \in Profiles : ReadProfile(s, a)
    BY <1>3
  <2> DEFINE q == [sessions[s] EXCEPT !.pc = "read", !.target = a, !.first = agents[a]]
  <2>2. /\ q.pc = "read"
        /\ q.op = sessions[s].op
        /\ q.op \in {"update_status", "assign"}
        /\ q.actor = sessions[s].actor
        /\ q.me = sessions[s].me
    BY <1>1, <2>1 DEF ReadProfile, Session
  <2>3. sessions' = [sessions EXCEPT ![s] = q] /\ UNCHANGED <<users, agents>>
    BY <2>1 DEF ReadProfile, Read
  <2> HIDE DEF q
  <2>4. Sound(q)
    BY <1>1, <2>2 DEF Sound, CallerIs, ReadIs, PlanIs
  <2>5. \A v \in Users : UserInv(v) => Finds(q, v)
    BY <1>1, <2>2 DEF Finds
  <2> QED BY <2>3, <2>4, <2>5 DEF GoesOn
<1> QED BY <1>2, <1>3

\* A plan that is of the kind the operation writes, and that the checks allow.
LEMMA PlanGoesOn ==
  ASSUME RequestsInv, NEW s \in Sessions, NEW plan,
         sessions[s].pc \in {"started", "read"},
         sessions[s].pc = "read" \/ sessions[s].op # "update_user",
         Decide(s, plan),
         \A q : /\ q.pc = "decided"
                /\ q.plan = plan
                /\ q.op = sessions[s].op
                /\ q.actor = sessions[s].actor
                /\ q.target = sessions[s].target
                /\ q.first = sessions[s].first
                => /\ PlanIs(q)
                   /\ \A u \in Users : UserInv(u) /\ Finds(sessions[s], u) => Finds(q, u)
  PROVE  \E q : GoesOn(s, q)
<1> DEFINE q == [sessions[s] EXCEPT !.pc = "decided", !.plan = plan]
<1>1. /\ sessions[s] \in Session
      /\ sessions[s].pc # "idle"
      /\ Sound(sessions[s])
      /\ \A u \in Users : UserInv(u) => Finds(sessions[s], u)
  BY BusySession DEF RequestsInv, AccountsInv, UserInv
<1>2. /\ q.pc = "decided"
      /\ q.plan = plan
      /\ q.op = sessions[s].op
      /\ q.actor = sessions[s].actor
      /\ q.me = sessions[s].me
      /\ q.target = sessions[s].target
      /\ q.first = sessions[s].first
  BY <1>1 DEF Session
<1>3. sessions' = [sessions EXCEPT ![s] = q] /\ UNCHANGED <<users, agents>>
  BY DEF Decide
<1> HIDE DEF q
<1>4. PlanIs(q) /\ \A u \in Users : UserInv(u) => Finds(q, u)
  BY <1>1, <1>2
<1>5. ReadIs(q)
  BY <1>1, <1>2 DEF Sound, ReadIs
<1> QED BY <1>1, <1>2, <1>3, <1>4, <1>5 DEF GoesOn, Sound, CallerIs

\* What update_user flushes.
LEMMA UserUpdateFinds ==
  ASSUME RequestsInv, NEW s \in Sessions,
         NEW role \in UserRole \cup {None}, NEW active \in BOOLEAN \cup {None},
         sessions[s].pc = "read",
         sessions[s].op = "update_user",
         sessions[s].target \in Users,
         MayUpdateUser(s, role, active),
         NEW a \in ProfilesOf(sessions[s].target) \cup {None},
         active = FALSE /\ ProfilesOf(sessions[s].target) # {} => a # None,
         NEW plan,
         plan.kind = "update",
         plan.user = sessions[s].target,
         plan.role = Dirty(role, sessions[s].first.role),
         plan.is_active = Dirty(active, sessions[s].first.is_active),
         plan.profile = a,
         plan.status = IF a = None THEN None ELSE Dirty("OFFLINE", agents[a].status),
         NEW q,
         q.pc = "decided",
         q.plan = plan,
         q.op = sessions[s].op,
         q.actor = sessions[s].actor,
         q.target = sessions[s].target
  PROVE  /\ UserUpdateIs(q)
         /\ \A u \in Users : Finds(sessions[s], u) => Finds(q, u)
<1> DEFINE v == sessions[s].target
<1>1. /\ plan.role \in {None, role}
      /\ plan.is_active \in {None, active}
      /\ plan.status \in {None, "OFFLINE"}
  BY DEF Dirty
<1>2. plan.user = q.actor => plan.role = None /\ plan.is_active = None
  <2> SUFFICES ASSUME v = sessions[s].actor
               PROVE  plan.role = None /\ plan.is_active = None
    OBVIOUS
  <2>1. /\ sessions[s].first.role = "ADMIN"
        /\ sessions[s].first.is_active = TRUE
    <3>1. Sound(sessions[s])
      BY DEF RequestsInv
    <3>2. sessions[s] \in Session /\ NamesRows(sessions[s])
      BY BusySession DEF RequestsInv, AccountsInv
    <3>3. sessions[s].me \in UserRow
      BY <3>1, <3>2, NoneIsNoId DEF Sound, CallerIs, NamesRows
    <3>4. sessions[s].first = sessions[s].me
      BY <3>1 DEF Sound, ReadIs
    <3> QED BY <3>1, <3>3, <3>4 DEF Sound, CallerIs, UserRow
  <2>2. active # FALSE /\ role \in {None, "ADMIN"}
    BY DEF MayUpdateUser
  <2> QED BY <2>1, <2>2 DEF Dirty
<1>3. a # None => a \in Profiles /\ agents[a].user_id = v
  BY DEF ProfilesOf
<1>4. UserUpdateIs(q)
  BY <1>1, <1>2, <1>3 DEF UserUpdateIs
<1>5. ASSUME NEW b \in ProfilesOf(v)
      PROVE  /\ plan.role \in {None, "AGENT"}
             /\ plan.is_active = FALSE =>
                  \/ agents[b].status = "OFFLINE"
                  \/ plan.profile = b /\ plan.status = "OFFLINE"
  <2>1. plan.role \in {None, "AGENT"}
    BY <1>1, <1>5 DEF MayUpdateUser
  <2>2. ASSUME plan.is_active = FALSE
        PROVE  a = b
    <3>1. active = FALSE
      BY <1>1, <2>2, NoneIsNoId
    <3>2. a \in ProfilesOf(v)
      BY <1>5, <3>1
    <3> QED BY <1>5, <3>2 DEF RequestsInv, AccountsInv, OneProfilePerUser
  <2>3. a = b => \/ agents[b].status = "OFFLINE"
                 \/ plan.profile = b /\ plan.status = "OFFLINE"
    BY <1>5, NoneIsNoId DEF Dirty, ProfilesOf
  <2> QED BY <2>1, <2>2, <2>3
<1> QED BY <1>4, <1>5 DEF Finds

\* The second read, and the decision.
LEMMA DecideGoesOn ==
  ASSUME RequestsInv, NEW s \in Sessions,
         \/ \E email \in Emails, role \in UserRole : DecideNewUser(s, email, role)
         \/ \E role \in UserRole \cup {None}, active \in BOOLEAN \cup {None} :
              DecideUserUpdate(s, role, active)
         \/ DecideNewProfile(s)
         \/ \E status \in AgentStatus : DecideStatus(s, status)
         \/ DecideAssignment(s)
  PROVE  \E q : GoesOn(s, q)
<1>1. /\ sessions[s].pc = "read" => sessions[s] \in Session /\ NamesRows(sessions[s])
      /\ Sound(sessions[s])
  BY BusySession DEF RequestsInv, AccountsInv
<1>2. CASE \E email \in Emails, role \in UserRole : DecideNewUser(s, email, role)
  <2>1. PICK email \in Emails, role \in UserRole : DecideNewUser(s, email, role)
    BY <1>2
  <2>2. PICK plan : plan = [kind |-> "insert_user", email |-> email, role |-> role]
    OBVIOUS
  <2>3. /\ sessions[s].pc = "started"
        /\ sessions[s].op \in {"register", "bootstrap"}
        /\ sessions[s].op = "bootstrap" => plan.role = "ADMIN"
        /\ plan.kind = "insert_user"
        /\ Decide(s, plan)
    BY <2>1, <2>2 DEF DecideNewUser
  <2>4. \A q : /\ q.pc = "decided"
               /\ q.plan = plan
               /\ q.op = sessions[s].op
               /\ q.actor = sessions[s].actor
               /\ q.target = sessions[s].target
               => /\ PlanIs(q)
                  /\ \A v \in Users : Finds(sessions[s], v) => Finds(q, v)
    BY <2>3 DEF PlanIs, Finds
  <2> QED BY <2>3, <2>4, PlanGoesOn
<1>3. CASE \E role \in UserRole \cup {None}, active \in BOOLEAN \cup {None} :
             DecideUserUpdate(s, role, active)
  <2>1. PICK role \in UserRole \cup {None}, active \in BOOLEAN \cup {None} :
          DecideUserUpdate(s, role, active)
    BY <1>3
  <2> DEFINE u   == sessions[s].target
             row == sessions[s].first
             off == {a \in ProfilesOf(u) : active = FALSE}
             plan(a) == [kind |-> "update", user |-> u,
                         role |-> Dirty(role, row.role),
                         is_active |-> Dirty(active, row.is_active),
                         profile |-> a,
                         status |-> IF a = None THEN None
                                    ELSE Dirty("OFFLINE", agents[a].status)]
  <2>2. PICK a \in IF off = {} THEN {None} ELSE off : Decide(s, plan(a))
    BY <2>1 DEF DecideUserUpdate
  <2>3. /\ sessions[s].op = "update_user"
        /\ sessions[s].pc = "read"
        /\ u \in Users
        /\ MayUpdateUser(s, role, active)
    BY <1>1, <2>1 DEF DecideUserUpdate, NamesRows
  <2>4. PICK p : p = plan(a)
    OBVIOUS
  <2>5. /\ p.kind = "update"
        /\ p.user = u
        /\ p.role = Dirty(role, row.role)
        /\ p.is_active = Dirty(active, row.is_active)
        /\ p.profile = a
        /\ p.status = IF a = None THEN None ELSE Dirty("OFFLINE", agents[a].status)
    BY <2>4
  <2>6. /\ a \in ProfilesOf(u) \cup {None}
        /\ active = FALSE /\ ProfilesOf(u) # {} => a # None
    BY <2>2, NoneIsNoId DEF ProfilesOf
  <2>7. Decide(s, p)
    BY <2>2, <2>4
  <2> HIDE DEF off, plan
  <2>8. \A q : /\ q.pc = "decided"
               /\ q.plan = p
               /\ q.op = sessions[s].op
               /\ q.actor = sessions[s].actor
               /\ q.target = sessions[s].target
               => /\ UserUpdateIs(q)
                  /\ \A v \in Users : Finds(sessions[s], v) => Finds(q, v)
    BY <2>3, <2>5, <2>6, UserUpdateFinds
  <2>9. \A q : /\ q.pc = "decided"
               /\ q.op = sessions[s].op
               /\ UserUpdateIs(q)
               => PlanIs(q)
    BY <2>3 DEF PlanIs
  <2> QED BY <2>3, <2>7, <2>8, <2>9, PlanGoesOn
<1>4. CASE DecideNewProfile(s)
  <2>1. PICK plan : plan = [kind |-> "insert_profile", user |-> sessions[s].target]
    OBVIOUS
  <2>2. /\ sessions[s].pc = "read"
        /\ sessions[s].op = "create_profile"
        /\ sessions[s].first.role = "AGENT"
        /\ plan.kind = "insert_profile"
        /\ plan.user = sessions[s].target
        /\ Decide(s, plan)
    BY <1>4, <2>1 DEF DecideNewProfile
  <2>3. \A q : /\ q.pc = "decided"
               /\ q.plan = plan
               /\ q.op = sessions[s].op
               /\ q.actor = sessions[s].actor
               /\ q.target = sessions[s].target
               => /\ PlanIs(q)
                  /\ \A v \in Users : Finds(sessions[s], v) => Finds(q, v)
    BY <2>2 DEF PlanIs, Finds
  <2> QED BY <2>2, <2>3, PlanGoesOn
<1>5. CASE \E status \in AgentStatus : DecideStatus(s, status)
  <2>1. PICK status \in AgentStatus : DecideStatus(s, status)
    BY <1>5
  <2> DEFINE row == sessions[s].first
  <2>2. PICK plan : plan = [kind |-> "update", user |-> row.user_id, role |-> None,
                            is_active |-> None, profile |-> sessions[s].target,
                            status |-> Dirty(status, row.status)]
    OBVIOUS
  <2>3. /\ sessions[s].pc = "read"
        /\ sessions[s].op = "update_status"
        /\ Loaded(s, row.user_id).is_active
        /\ plan.kind = "update"
        /\ plan.user = row.user_id
        /\ plan.role = None
        /\ plan.is_active = None
        /\ plan.profile = sessions[s].target
        /\ Decide(s, plan)
    BY <2>1, <2>2 DEF DecideStatus, MayChangeStatus
  <2>4. /\ sessions[s].target \in Profiles
        /\ agents[sessions[s].target].user_id = row.user_id
        /\ row.user_id \in Users
    BY <1>1, <2>3 DEF NamesRows, ProfileRow
  <2>5. \A q : /\ q.plan = plan
               /\ q.first = row
               => StatusIs(q)
    BY <2>3, <2>4 DEF StatusIs
  <2>6. \A q : /\ q.pc = "decided"
               /\ q.plan = plan
               /\ q.op = sessions[s].op
               /\ q.first = row
               => PlanIs(q)
    BY <2>3, <2>5 DEF PlanIs
  <2>7. Finds(sessions[s], row.user_id) => users[row.user_id].is_active
    BY <2>3 DEF Finds, Loaded
  <2>8. \A q : /\ q.pc = "decided"
               /\ q.plan = plan
               /\ q.op = sessions[s].op
               /\ q.actor = sessions[s].actor
               => \A u \in Users : Finds(sessions[s], u) => Finds(q, u)
    BY <2>3, <2>7 DEF Finds
  <2> QED BY <2>3, <2>6, <2>8, PlanGoesOn
<1>6. CASE DecideAssignment(s)
  <2>1. PICK plan : plan = [kind |-> "assign", profile |-> sessions[s].target]
    OBVIOUS
  <2>2. /\ sessions[s].pc = "read"
        /\ sessions[s].op = "assign"
        /\ plan.kind = "assign"
        /\ Decide(s, plan)
    BY <1>6, <2>1 DEF DecideAssignment
  <2>3. \A q : /\ q.pc = "decided"
               /\ q.plan = plan
               /\ q.op = sessions[s].op
               /\ q.actor = sessions[s].actor
               /\ q.target = sessions[s].target
               => /\ PlanIs(q)
                  /\ \A v \in Users : Finds(sessions[s], v) => Finds(q, v)
    BY <2>2 DEF PlanIs, Finds
  <2> QED BY <2>2, <2>3, PlanGoesOn
<1> QED BY <1>2, <1>3, <1>4, <1>5, <1>6

\* A request that ends without a write.
LEMMA EndGoesOn ==
  ASSUME RequestsInv, NEW s \in Sessions, Rollback(s) \/ CommitAssignment(s)
  PROVE  \E q : GoesOn(s, q)
<1>1. GoesOn(s, Idle)
  BY DEF GoesOn, Rollback, CommitAssignment, Finish, Sound, Idle
<1> QED BY <1>1

\* No request has found anything of a user that is not there.
LEMMA NobodyFindsTheAbsent ==
  ASSUME RequestsInv, NEW u \in Users, ~Exists(u), NEW s \in Sessions,
         sessions[s].pc # "idle"
  PROVE  /\ sessions[s].op # "bootstrap" => sessions[s].actor # u
         /\ sessions[s].op = "create_profile" /\ sessions[s].pc \in {"read", "decided"}
              => sessions[s].target # u
         /\ sessions[s].op \in {"update_user", "update_status"} /\ sessions[s].pc = "decided"
              => sessions[s].plan.user # u
<1>1. Sound(sessions[s]) /\ NamesRows(sessions[s])
  BY DEF RequestsInv, AccountsInv
<1>2. CallerIs(sessions[s]) /\ PlanIs(sessions[s])
  BY <1>1 DEF Sound
<1>3. sessions[s].op # "bootstrap" => sessions[s].actor # u
  BY <1>2 DEF CallerIs
<1>4. sessions[s].pc = "read" /\ sessions[s].op = "create_profile" => sessions[s].target # u
  BY <1>1 DEF NamesRows
<1>5. sessions[s].pc = "decided" /\ sessions[s].op = "create_profile"
        => sessions[s].target # u
  BY <1>1, <1>2 DEF PlanIs, NamesRows
<1>6. sessions[s].pc = "decided" /\ sessions[s].op \in {"update_user", "update_status"}
        => sessions[s].plan.user # u
  BY <1>1, <1>2 DEF PlanIs, UserUpdateIs, StatusIs, NamesRows
<1> QED BY <1>3, <1>4, <1>5, <1>6

\* A step of a request that is not a commit keeps what holds of all of them, and of
\* each user.
LEMMA GoingOnKeeps ==
  ASSUME RequestsInv, NEW s \in Sessions, NEW q, GoesOn(s, q)
  PROVE  /\ \A t \in Sessions : Sound(sessions[t])'
         /\ \A u \in Users : UserInv(u) => UserInv(u)'
<1>1. /\ \A t \in Sessions : sessions'[t] = IF t = s THEN q ELSE sessions[t]
      /\ UNCHANGED <<users, agents>>
  BY DEF GoesOn, RequestsInv, AccountsInv, TypeOK
<1>2. \A t \in Sessions : Sound(sessions[t])'
  <2> SUFFICES ASSUME NEW t \in Sessions, NEW d, d = sessions'[t]
               PROVE  Sound(d)'
    BY DEF Sound, CallerIs, ReadIs, PlanIs, UserUpdateIs, StatusIs, Exists
  <2>1. Sound(d)
    BY <1>1 DEF GoesOn, RequestsInv
  <2>2. d.pc # "idle" => CallerIs(d)' /\ ReadIs(d)'
    BY <1>1, <2>1 DEF Sound, CallerIs, ReadIs, Exists
  <2>3. d.pc # "idle" => PlanIs(d)'
    BY <1>1, <2>1 DEF Sound, PlanIs, UserUpdateIs, StatusIs
  <2> QED BY <2>2, <2>3 DEF Sound
<1>3. ASSUME NEW u \in Users, UserInv(u)
      PROVE  UserInv(u)'
  <2>1. Agrees(u)'
    BY <1>1, <1>3 DEF UserInv, Agrees, ProfilesOf
  <2>2. \A t \in Sessions : sessions'[t].pc # "idle" => Finds(sessions[t], u)'
    <3> SUFFICES ASSUME NEW t \in Sessions, NEW d, d = sessions'[t], d.pc # "idle"
                 PROVE  Finds(d, u)'
      BY DEF Finds
    <3>1. Finds(d, u)
      BY <1>1, <1>3 DEF GoesOn, UserInv
    <3> QED BY <1>1, <3>1 DEF Finds, ProfilesOf
  <2> QED BY <2>1, <2>2 DEF UserInv
<1> QED BY <1>2, <1>3

\* Every step is of one of these kinds.
LEMMA StepIs ==
  ASSUME RequestsInv, Next
  PROVE  \E s \in Sessions :
           \/ \E q : GoesOn(s, q)
           \/ \E u \in Users : CommitNewUser(s, u)
           \/ \E a \in Profiles : CommitNewProfile(s, a)
           \/ CommitUpdate(s)
BY StartGoesOn, ReadGoesOn, DecideGoesOn, EndGoesOn DEF Next, Serve

\* What holds of all requests, keeps holding.
LEMMA RequestsNextInv ==
  ASSUME RequestsInv, [Next]_vars
  PROVE  RequestsInv'
<1>1. AccountsInv' /\ RowsStay
  BY AccountsNextInv, StepsKeepRows DEF RequestsInv
<1>2. CASE UNCHANGED vars
  <2>1. \A t \in Sessions : sessions[t] \in Session \cup {Idle} /\ NamesRows(sessions[t])
    BY DEF RequestsInv, AccountsInv, TypeOK
  <2>2. ASSUME NEW t \in Sessions
        PROVE  Sound(sessions[t])'
    <3> SUFFICES ASSUME NEW d, d = sessions'[t]
                 PROVE  Sound(d)'
      BY DEF Sound, CallerIs, ReadIs, PlanIs, UserUpdateIs, StatusIs, Exists
    <3> QED BY <1>1, <1>2, <2>1, SoundStays DEF vars, RequestsInv
  <2> QED BY <1>1, <2>2 DEF RequestsInv
<1>3. ASSUME NEW s \in Sessions, Finish(s)
      PROVE  \A t \in Sessions : Sound(sessions[t])'
  <2> SUFFICES ASSUME NEW t \in Sessions, NEW d, d = sessions'[t]
               PROVE  Sound(d)'
    BY DEF Sound, CallerIs, ReadIs, PlanIs, UserUpdateIs, StatusIs, Exists
  <2>1. d = Idle \/ d = sessions[t]
    BY <1>3 DEF Finish, RequestsInv, AccountsInv, TypeOK
  <2>2. CASE d = Idle
    BY <2>2 DEF Sound, Idle
  <2>3. CASE d = sessions[t]
    <3>1. d \in Session \cup {Idle} /\ NamesRows(d) /\ Sound(d)
      BY <2>3 DEF RequestsInv, AccountsInv, TypeOK
    <3> QED BY <1>1, <3>1, SoundStays
  <2> QED BY <2>1, <2>2, <2>3
<1>4. CASE Next
  <2>1. PICK s \in Sessions : (\E q : GoesOn(s, q)) \/ Finish(s)
    BY <1>4, StepIs DEF CommitNewUser, CommitNewProfile, CommitUpdate
  <2> QED BY <1>1, <1>3, <2>1, GoingOnKeeps DEF RequestsInv
<1> QED BY <1>2, <1>4

-----------------------------------------------------------------------------
(***************************************************************************)
(* Commits beside requests that do not race                                *)
(***************************************************************************)

\* A commit ends its own request, and the others find what they found of the user u
\* still so.
LEMMA OthersFind ==
  ASSUME RequestsInv, NEW s \in Sessions, Finish(s), NEW u \in Users,
         \A t \in Sessions \ {s} : \A q : q = sessions[t] /\ q.pc # "idle" => Finds(q, u)'
  PROVE  \A t \in Sessions : sessions'[t].pc # "idle" => Finds(sessions[t], u)'
<1> SUFFICES ASSUME NEW t \in Sessions, NEW d, d = sessions'[t], d.pc # "idle"
             PROVE  Finds(d, u)'
  BY DEF Finds
<1>1. d = IF t = s THEN Idle ELSE sessions[t]
  BY DEF Finish, RequestsInv, AccountsInv, TypeOK
<1> QED BY <1>1 DEF Idle

\* A new user has no profile, and no request knows of it.
LEMMA NewUserKeeps ==
  ASSUME RequestsInv, NEW s \in Sessions, NEW v \in Users, CommitNewUser(s, v),
         NEW u \in Users, UserInv(u)
  PROVE  UserInv(u)'
<1>1. /\ \A w \in Users : w # v => users'[w] = users[w]
      /\ ~Exists(v)
      /\ UNCHANGED agents
      /\ Finish(s)
  BY DEF CommitNewUser, RequestsInv, AccountsInv, TypeOK
<1>2. ProfilesOf(v) = {}
  BY <1>1, NoneIsNoId DEF RequestsInv, AccountsInv, ProfilesHaveUsers, ProfilesOf, NoProfileRow
<1>3. Agrees(u)'
  <2>1. CASE u = v
    BY <1>1, <1>2, <2>1 DEF Agrees, ProfilesOf
  <2>2. CASE u # v
    BY <1>1, <2>2 DEF UserInv, Agrees, ProfilesOf
  <2> QED BY <2>1, <2>2
<1>4. ASSUME NEW t \in Sessions \ {s}, NEW q, q = sessions[t], q.pc # "idle"
      PROVE  Finds(q, u)'
  <2>1. CASE u # v
    BY <1>1, <1>4, <2>1 DEF UserInv, Finds, ProfilesOf
  <2>2. CASE u = v
    BY <1>1, <1>4, <2>2, NobodyFindsTheAbsent DEF Finds
  <2> QED BY <2>1, <2>2
<1> QED BY <1>1, <1>3, <1>4, OthersFind DEF UserInv

\* Who PATCHes the user u without being u races with the request s that rests on u.
LEMMA NobodyPatches ==
  ASSUME RequestsInv, NEW u \in Users, ~Race(u),
         NEW s \in Sessions, RestsOn(s, u),
         NEW t \in Sessions, sessions[t].pc = "decided", sessions[t].op = "update_user",
         sessions[t].plan.user = u
  PROVE  sessions[t].plan.role = None /\ sessions[t].plan.is_active = None
<1>1. UserUpdateIs(sessions[t])
  BY DEF RequestsInv, Sound, PlanIs
<1>2. ~Patches(t, u)
  BY DEF Race
<1> QED BY <1>1, <1>2 DEF Patches, UserUpdateIs

\* A new profile is OFFLINE and belongs to a user with the role AGENT, whose role no
\* other request is about to change.
LEMMA NewProfileKeeps ==
  ASSUME RequestsInv, NEW s \in Sessions, NEW a \in Profiles, CommitNewProfile(s, a),
         NEW u \in Users, UserInv(u), ~Race(u)
  PROVE  UserInv(u)'
<1> DEFINE v == sessions[s].plan.user
<1>1. /\ \A b \in Profiles : b # a => agents'[b] = agents[b]
      /\ agents'[a].user_id = v
      /\ agents'[a].status = "OFFLINE"
      /\ agents[a] = NoProfileRow
      /\ ProfilesOf(v) = {}
      /\ UNCHANGED users
      /\ Finish(s)
  BY DEF CommitNewProfile, UserFree, RequestsInv, AccountsInv, TypeOK
<1>2. /\ sessions[s].pc = "decided"
      /\ sessions[s].op = "create_profile"
      /\ sessions[s].target = v
  <2>1. /\ sessions[s].pc = "decided"
        /\ sessions[s].plan.kind = "insert_profile"
        /\ PlanIs(sessions[s])
        /\ sessions[s] \in Session
    BY BusySession DEF CommitNewProfile, RequestsInv, AccountsInv, Sound
  <2>2. sessions[s].op = "create_profile"
    BY <2>1 DEF PlanIs, UserUpdateIs, StatusIs, Session, Operations
  <2> QED BY <2>1, <2>2 DEF PlanIs
<1>3. CASE u # v
  <2>1. ProfilesOf(u)' = ProfilesOf(u) /\ a \notin ProfilesOf(u)
    <3>1. u # None
      BY NoneIsNoId
    <3> QED BY <1>1, <1>3, <3>1 DEF ProfilesOf, NoProfileRow
  <2>2. Agrees(u)'
    BY <1>1, <2>1 DEF UserInv, Agrees, ProfilesOf
  <2>3. ASSUME NEW t \in Sessions \ {s}, NEW q, q = sessions[t], q.pc # "idle"
        PROVE  Finds(q, u)'
    <3>1. Finds(q, u)
      BY <2>3 DEF UserInv
    <3>2. \A b \in ProfilesOf(u)' : b \in ProfilesOf(u) /\ agents'[b] = agents[b]
      BY <1>1, <2>1 DEF ProfilesOf
    <3> QED BY <1>1, <3>1, <3>2 DEF Finds
  <2> QED BY <1>1, <2>2, <2>3, OthersFind DEF UserInv
<1>4. CASE u = v
  <2>1. users[u].role = "AGENT"
    BY <1>2, <1>4 DEF UserInv, Finds
  <2>2. \A b \in ProfilesOf(u)' : agents'[b].status = "OFFLINE"
    BY <1>1, <1>4 DEF ProfilesOf
  <2>3. Agrees(u)'
    BY <1>1, <2>1, <2>2 DEF Agrees
  <2>4. RestsOn(s, u)
    BY <1>2, <1>4 DEF RestsOn
  <2>5. ASSUME NEW t \in Sessions \ {s}, NEW q, q = sessions[t], q.pc # "idle"
        PROVE  Finds(q, u)'
    <3>1. Finds(q, u)
      BY <2>5 DEF UserInv
    <3>2. q.pc = "decided" /\ q.op = "update_user" /\ q.plan.user = u
            => q.plan.role = None /\ q.plan.is_active = None
      BY <2>4, <2>5, NobodyPatches
    <3> QED BY <1>1, <3>1, <3>2, NoneIsNoId DEF Finds
  <2> QED BY <1>1, <2>3, <2>5, OthersFind DEF UserInv
<1> QED BY <1>3, <1>4

\* What an UPDATE writes.
LEMMA UpdateWrites ==
  ASSUME RequestsInv, NEW s \in Sessions, CommitUpdate(s), NEW p, p = sessions[s].plan
  PROVE  /\ sessions[s].pc = "decided"
         /\ sessions[s].op \in {"update_user", "update_status"}
         /\ Sound(sessions[s])
         /\ p.user \in Users
         /\ p.is_active \in BOOLEAN \cup {None}
         /\ \A v \in Users : v # p.user => users'[v] = users[v]
         /\ users'[p.user].role = Written(p.role, users[p.user].role)
         /\ users'[p.user].is_active = Written(p.is_active, users[p.user].is_active)
         /\ \A v \in Users : ProfilesOf(v)' = ProfilesOf(v)
         /\ \A a \in Profiles :
              agents'[a].status = IF a = p.profile THEN Written(p.status, agents[a].status)
                                  ELSE agents[a].status
         /\ Finish(s)
<1>1. /\ sessions[s].pc = "decided"
      /\ p.kind = "update"
      /\ p \in Plan
      /\ sessions[s] \in Session
      /\ Sound(sessions[s])
      /\ Exists(p.user)
      /\ p.profile # None => agents[p.profile] # NoProfileRow
  BY BusySession DEF CommitUpdate, RequestsInv, AccountsInv, NamesRows
<1>2. p.user \in Users /\ p.is_active \in BOOLEAN \cup {None}
  BY <1>1 DEF Plan
<1>3. sessions[s].op \in {"update_user", "update_status"}
  BY <1>1 DEF Sound, PlanIs, Session, Operations
<1>4. /\ \A v \in Users : v # p.user => users'[v] = users[v]
      /\ users'[p.user].role = Written(p.role, users[p.user].role)
      /\ users'[p.user].is_active = Written(p.is_active, users[p.user].is_active)
  <2>1. users[p.user] \in UserRow
    BY <1>1, <1>2, UserRows DEF RequestsInv, AccountsInv
  <2>2. \A v \in Users : users'[v] = IF v = p.user THEN WrittenUser(users[p.user], p)
                                                   ELSE users[v]
    BY <1>2 DEF CommitUpdate, RequestsInv, AccountsInv, TypeOK
  <2>3. /\ WrittenUser(users[p.user], p).role = Written(p.role, users[p.user].role)
        /\ WrittenUser(users[p.user], p).is_active
             = Written(p.is_active, users[p.user].is_active)
    BY <2>1 DEF WrittenUser, UserRow
  <2> QED BY <1>2, <2>2, <2>3
<1>5. \A a \in Profiles :
        /\ agents'[a].user_id = agents[a].user_id
        /\ agents'[a].status = IF a = p.profile THEN Written(p.status, agents[a].status)
                               ELSE agents[a].status
  <2> SUFFICES ASSUME NEW a \in Profiles
               PROVE  /\ agents'[a].user_id = agents[a].user_id
                      /\ agents'[a].status = IF a = p.profile
                                             THEN Written(p.status, agents[a].status)
                                             ELSE agents[a].status
    OBVIOUS
  <2>1. agents'[a] = IF a = p.profile THEN WrittenProfile(agents[a], p) ELSE agents[a]
    BY DEF CommitUpdate
  <2>2. a = p.profile => agents[a] \in ProfileRow
    BY <1>1, ProfileRows, NoneIsNoId DEF RequestsInv, AccountsInv
  <2>3. agents[a] \in ProfileRow =>
          /\ WrittenProfile(agents[a], p).user_id = agents[a].user_id
          /\ WrittenProfile(agents[a], p).status = Written(p.status, agents[a].status)
    BY DEF WrittenProfile, ProfileRow
  <2> QED BY <2>1, <2>2, <2>3
<1>6. \A v \in Users : ProfilesOf(v)' = ProfilesOf(v)
  BY <1>5 DEF ProfilesOf
<1> QED BY <1>1, <1>2, <1>3, <1>4, <1>5, <1>6 DEF CommitUpdate

\* A new status of the profile of a user whom no other request is about to disable.
LEMMA StatusUpdateKeeps ==
  ASSUME RequestsInv, NEW s \in Sessions, CommitUpdate(s),
         sessions[s].op = "update_status",
         NEW u \in Users, UserInv(u), ~Race(u)
  PROVE  UserInv(u)'
<1> DEFINE q == sessions[s]
           p == sessions[s].plan
<1>1. /\ StatusIs(q)
      /\ q.pc = "decided"
      /\ Finish(s)
      /\ \A v \in Users : ProfilesOf(v)' = ProfilesOf(v)
      /\ \A a \in Profiles : a # p.profile => agents'[a].status = agents[a].status
  BY UpdateWrites DEF Sound, PlanIs
<1>2. /\ users'[u].role = users[u].role
      /\ users'[u].is_active = users[u].is_active
  BY <1>1, UpdateWrites DEF StatusIs, Written
<1>3. CASE u # p.user
  <2>1. \A a \in ProfilesOf(u) : agents'[a].status = agents[a].status
    BY <1>1, <1>3 DEF StatusIs, ProfilesOf
  <2>2. Agrees(u)'
    BY <1>1, <1>2, <2>1 DEF UserInv, Agrees
  <2>3. ASSUME NEW t \in Sessions \ {s}, NEW d, d = sessions[t], d.pc # "idle"
        PROVE  Finds(d, u)'
    <3>1. Finds(d, u)
      BY <2>3 DEF UserInv
    <3> QED BY <1>1, <1>2, <2>1, <3>1 DEF Finds
  <2> QED BY <1>1, <2>2, <2>3, OthersFind DEF UserInv
<1>4. CASE u = p.user
  <2>1. users[u].is_active
    BY <1>1, <1>4 DEF UserInv, Finds
  <2>2. Agrees(u)'
    BY <1>1, <1>2, <2>1 DEF UserInv, Agrees
  <2>3. RestsOn(s, u)
    BY <1>1, <1>4 DEF RestsOn, StatusIs
  <2>4. ASSUME NEW t \in Sessions \ {s}, NEW d, d = sessions[t], d.pc # "idle"
        PROVE  Finds(d, u)'
    <3>1. Finds(d, u)
      BY <2>4 DEF UserInv
    <3>2. d.pc = "decided" /\ d.op = "update_user" /\ d.plan.user = u
            => d.plan.role = None /\ d.plan.is_active = None
      BY <2>3, <2>4, NobodyPatches
    <3> QED BY <1>1, <1>2, <3>1, <3>2, NoneIsNoId DEF Finds
  <2> QED BY <1>1, <2>2, <2>4, OthersFind DEF UserInv
<1> QED BY <1>3, <1>4

\* A PATCH of a user on whom no other request rests.
LEMMA UserUpdateKeeps ==
  ASSUME RequestsInv, NEW s \in Sessions, CommitUpdate(s),
         sessions[s].op = "update_user",
         NEW u \in Users, UserInv(u), ~Race(u)
  PROVE  UserInv(u)'
<1> DEFINE q == sessions[s]
<1>1. PICK p : p = sessions[s].plan
  OBVIOUS
<1>2. /\ UserUpdateIs(q)
      /\ q.pc = "decided"
      /\ Finish(s)
      /\ \A v \in Users : ProfilesOf(v)' = ProfilesOf(v)
  BY UpdateWrites DEF Sound, PlanIs
<1>3. /\ p.user = q.target
      /\ p.user = q.actor => p.role = None /\ p.is_active = None
      /\ p.status \in {None, "OFFLINE"}
  BY <1>1, <1>2 DEF UserUpdateIs
<1>4. \A a \in Profiles : agents[a].status = "OFFLINE" => agents'[a].status = "OFFLINE"
  BY <1>1, <1>3, UpdateWrites DEF Written
<1>5. ASSUME users'[u].role = users[u].role, users'[u].is_active = users[u].is_active
      PROVE  UserInv(u)'
  <2>1. Agrees(u)'
    BY <1>2, <1>4, <1>5 DEF UserInv, Agrees, ProfilesOf
  <2>2. ASSUME NEW t \in Sessions \ {s}, NEW d, d = sessions[t], d.pc # "idle"
        PROVE  Finds(d, u)'
    <3>1. Finds(d, u)
      BY <2>2 DEF UserInv
    <3> QED BY <1>2, <1>4, <1>5, <3>1 DEF Finds, ProfilesOf
  <2> QED BY <1>2, <2>1, <2>2, OthersFind DEF UserInv
<1>6. CASE u # p.user
  <2>1. users'[u] = users[u]
    BY <1>1, <1>6, UpdateWrites
  <2> QED BY <1>5, <2>1
<1>7. CASE u = p.user /\ u = q.actor
  <2>1. p.role = None /\ p.is_active = None
    BY <1>3, <1>7
  <2>2. users'[u].role = users[u].role /\ users'[u].is_active = users[u].is_active
    BY <1>1, <1>7, <2>1, UpdateWrites DEF Written
  <2> QED BY <1>5, <2>2
<1>8. CASE u = p.user /\ u # q.actor
  <2>1. Patches(s, u)
    BY <1>2, <1>3, <1>8 DEF Patches
  <2>2. \A t \in Sessions : ~RestsOn(t, u)
    BY <2>1 DEF Race
  <2>3. \A a \in ProfilesOf(u) :
          /\ p.role \in {None, "AGENT"}
          /\ p.is_active = FALSE =>
               \/ agents[a].status = "OFFLINE"
               \/ p.profile = a /\ p.status = "OFFLINE"
    BY <1>1, <1>2, <1>8 DEF UserInv, Finds
  <2>4. /\ p.is_active \in BOOLEAN \cup {None}
        /\ users'[u].role = Written(p.role, users[u].role)
        /\ users'[u].is_active = Written(p.is_active, users[u].is_active)
        /\ \A a \in Profiles :
             agents'[a].status = IF a = p.profile THEN Written(p.status, agents[a].status)
                                 ELSE agents[a].status
    BY <1>1, <1>8, UpdateWrites
  <2>5. Agrees(u)'
    <3> SUFFICES ASSUME NEW a \in ProfilesOf(u)
                 PROVE  /\ users'[u].role = "AGENT"
                        /\ ~users'[u].is_active => agents'[a].status = "OFFLINE"
      BY <1>2 DEF Agrees
    <3>1. users[u].role = "AGENT" /\ (~users[u].is_active => agents[a].status = "OFFLINE")
      BY DEF UserInv, Agrees
    <3>2. users'[u].role = "AGENT"
      BY <2>3, <2>4, <3>1 DEF Written
    <3>3. CASE p.is_active = None
      BY <1>4, <2>4, <3>1, <3>2, <3>3 DEF Written, ProfilesOf
    <3>4. CASE p.is_active = FALSE
      BY <1>4, <2>3, <2>4, <3>2, <3>4, NoneIsNoId DEF Written, ProfilesOf, AgentStatus
    <3>5. CASE p.is_active = TRUE
      BY <2>4, <3>2, <3>5, NoneIsNoId DEF Written
    <3> QED BY <2>4, <3>3, <3>4, <3>5
  <2>6. ASSUME NEW t \in Sessions \ {s}, NEW d, d = sessions[t], d.pc # "idle"
        PROVE  Finds(d, u)'
    <3>1. Finds(d, u)
      BY <2>6 DEF UserInv
    <3>2. /\ d.op = "update_status" => d.actor # u
          /\ d.op = "create_profile" /\ d.pc \in {"read", "decided"} => d.target # u
          /\ d.op = "update_status" /\ d.pc = "decided" => d.first.user_id # u
      BY <2>2, <2>6 DEF RestsOn, Idle
    <3>3. d.op = "update_status" /\ d.pc = "decided" => d.plan.user # u
      BY <2>6, <3>2 DEF RequestsInv, Sound, PlanIs, StatusIs
    <3> QED BY <1>2, <1>4, <3>1, <3>2, <3>3 DEF Finds, ProfilesOf
  <2> QED BY <1>2, <2>5, <2>6, OthersFind DEF UserInv
<1> QED BY <1>6, <1>7, <1>8

\* Until a user is raced, its profile agrees with its row.
LEMMA UserNextInv ==
  ASSUME RequestsInv, [Next]_vars, NEW u \in Users, UserInv(u), ~Race(u)
  PROVE  UserInv(u)'
<1>1. CASE UNCHANGED vars
  <2>1. Agrees(u)'
    BY <1>1 DEF vars, UserInv, Agrees, ProfilesOf
  <2>2. \A t \in Sessions : sessions'[t].pc # "idle" => Finds(sessions[t], u)'
    <3> SUFFICES ASSUME NEW t \in Sessions, NEW d, d = sessions'[t], d.pc # "idle"
                 PROVE  Finds(d, u)'
      BY DEF Finds
    <3>1. Finds(d, u)
      BY <1>1 DEF vars, UserInv
    <3> QED BY <1>1, <3>1 DEF vars, Finds, ProfilesOf
  <2> QED BY <2>1, <2>2 DEF UserInv
<1>2. CASE Next
  <2>1. PICK s \in Sessions :
          \/ \E q : GoesOn(s, q)
          \/ \E v \in Users : CommitNewUser(s, v)
          \/ \E a \in Profiles : CommitNewProfile(s, a)
          \/ CommitUpdate(s)
    BY <1>2, StepIs
  <2>2. CASE CommitUpdate(s)
    <3>1. sessions[s].op \in {"update_user", "update_status"}
      BY <2>2, UpdateWrites
    <3> QED BY <2>2, <3>1, UserUpdateKeeps, StatusUpdateKeeps
  <2> QED BY <2>1, <2>2, GoingOnKeeps, NewUserKeeps, NewProfileKeeps
<1> QED BY <1>1, <1>2

-----------------------------------------------------------------------------
(***************************************************************************)
(* Administrators, whatever races                                          *)
(***************************************************************************)

\* A step after which no active administrator remains is the PATCH of somebody who is
\* none any more: whoever still is one writes nothing of its own row.
LEMMA TheLastFalls ==
  ASSUME RequestsInv, [Next]_vars, AdminRemains, ~AdminRemains'
  PROVE  \E s \in Sessions :
           /\ sessions[s] # Idle
           /\ sessions[s].op = "update_user"
           /\ sessions'[s] = Idle
           /\ ~ActiveAdmin(sessions[s].actor)
<1>1. CASE UNCHANGED users
  BY <1>1 DEF AdminRemains, Exists, ActiveAdmin
<1>2. ASSUME NEW s \in Sessions, NEW u \in Users, CommitNewUser(s, u)
      PROVE  FALSE
  <2>1. /\ \A v \in Users : v # u => users'[v] = users[v]
        /\ users'[u].role = sessions[s].plan.role
        /\ users'[u].is_active = TRUE
        /\ ~Exists(u)
        /\ sessions[s].pc = "decided"
    BY <1>2 DEF CommitNewUser, RequestsInv, AccountsInv, TypeOK
  <2>2. CASE sessions[s].op = "bootstrap"
    <3>1. sessions[s].plan.role = "ADMIN"
      BY <2>1, <2>2 DEF RequestsInv, Sound, PlanIs
    <3> QED BY <2>1, <3>1 DEF AdminRemains, ActiveAdmin
  <2>3. CASE sessions[s].op # "bootstrap"
    <3>1. \E v \in Users : Exists(v)
      BY <2>1, <2>3 DEF RequestsInv, Sound, CallerIs
    <3>2. PICK v \in Users : ActiveAdmin(v)
      BY <3>1 DEF AdminRemains
    <3>3. v # u
      BY <2>1, <3>2 DEF Exists, NoUser, ActiveAdmin
    <3> QED BY <2>1, <3>2, <3>3 DEF AdminRemains, ActiveAdmin
  <2> QED BY <2>2, <2>3
<1>3. ASSUME NEW s \in Sessions, CommitUpdate(s)
      PROVE  /\ sessions[s] # Idle
             /\ sessions[s].op = "update_user"
             /\ sessions'[s] = Idle
             /\ ~ActiveAdmin(sessions[s].actor)
  <2>1. PICK p : p = sessions[s].plan
    OBVIOUS
  <2>2. /\ sessions[s].pc = "decided"
        /\ sessions[s].op \in {"update_user", "update_status"}
        /\ Sound(sessions[s])
        /\ \A v \in Users : v # p.user => users'[v] = users[v]
        /\ users'[p.user].role = Written(p.role, users[p.user].role)
        /\ users'[p.user].is_active = Written(p.is_active, users[p.user].is_active)
        /\ Finish(s)
    BY <1>3, <2>1, UpdateWrites
  <2>3. \E v \in Users : Exists(v)
    BY <2>2 DEF Sound, CallerIs
  <2>4. \A v \in Users : v = p.user /\ p.role = None /\ p.is_active = None
                           => users'[v].role = users[v].role
                              /\ users'[v].is_active = users[v].is_active
    BY <2>2 DEF Written
  <2>5. sessions[s].op = "update_user"
    <3> SUFFICES ASSUME sessions[s].op = "update_status"
                 PROVE  FALSE
      BY <2>2
    <3>1. p.role = None /\ p.is_active = None
      BY <2>1, <2>2 DEF Sound, PlanIs, StatusIs
    <3>2. PICK v \in Users : ActiveAdmin(v)
      BY <2>3 DEF AdminRemains
    <3> QED BY <2>2, <2>4, <3>1, <3>2 DEF AdminRemains, ActiveAdmin
  <2>6. ~ActiveAdmin(sessions[s].actor)
    <3> SUFFICES ASSUME NEW v \in Users, v = sessions[s].actor, ActiveAdmin(v)
                 PROVE  FALSE
      BY <2>2, <2>5 DEF Sound, CallerIs
    <3>1. p.user = v => p.role = None /\ p.is_active = None
      BY <2>1, <2>2, <2>5 DEF Sound, PlanIs, UserUpdateIs
    <3> QED BY <2>2, <2>4, <3>1 DEF AdminRemains, ActiveAdmin
  <2>7. sessions[s] # Idle /\ sessions'[s] = Idle
    BY <2>2 DEF Idle, Finish, RequestsInv, AccountsInv, TypeOK
  <2> QED BY <2>5, <2>6, <2>7
<1> QED BY <1>1, <1>2, <1>3, StepIs DEF GoesOn, CommitNewProfile, vars

-----------------------------------------------------------------------------
(***************************************************************************)
(* Roles, availability and administrators                                  *)
(***************************************************************************)

\* No request changes the row of a user while another rests on it.
NoRace == \A u \in Users : ~Race(u)

\* What holds of every request is so of every behaviour.
LEMMA RequestsInvariant == Spec => []RequestsInv
<1>1. Init => RequestsInv
  BY AccountsInitInv DEF Init, RequestsInv, Sound, Idle
<1>2. RequestsInv /\ [Next]_vars => RequestsInv'
  BY RequestsNextInv
<1> QED BY <1>1, <1>2, PTL DEF Spec

\* The inductive invariant while no user is raced.
InOrder == RequestsInv /\ \A u \in Users : UserInv(u)

\* The initial state satisfies it.
LEMMA InitInOrder == Init => InOrder
<1> SUFFICES ASSUME Init
             PROVE  InOrder
  OBVIOUS
<1>1. \A s \in Sessions : sessions[s].pc = "idle"
  BY DEF Init, Idle
<1>2. \A u \in Users : ProfilesOf(u) = {}
  BY NoneIsNoId DEF Init, ProfilesOf, NoProfileRow
<1>3. \A u \in Users : UserInv(u)
  BY <1>1, <1>2 DEF UserInv, Agrees
<1>4. RequestsInv
  BY <1>1, AccountsInitInv DEF RequestsInv, Sound
<1> QED BY <1>3, <1>4 DEF InOrder

\* A profile that agrees with its row has the right role and is OFFLINE when it must.
LEMMA Agreement ==
  ASSUME RequestsInv, NEW a \in Profiles, agents[a] # NoProfileRow,
         UserInv(agents[a].user_id)
  PROVE  /\ users[agents[a].user_id].role = "AGENT"
         /\ ~users[agents[a].user_id].is_active => agents[a].status = "OFFLINE"
BY DEF UserInv, Agrees, ProfilesOf

\* The user of a profile is an id.
LEMMA ProfileUser ==
  ASSUME RequestsInv, NEW a \in Profiles, agents[a] # NoProfileRow
  PROVE  agents[a].user_id \in Users
BY ProfileRows DEF RequestsInv, AccountsInv, ProfileRow

\* However many requests run at once, while none changes a user whom another rests on,
\* no profile is left with a user of another role, and no inactive user is on duty.
THEOREM ProfilesKeptInOrder ==
  Spec /\ []NoRace => [](ProfilesKeepAgentRole /\ InactiveIsOffline)
<1>1. InOrder => ProfilesKeepAgentRole
  BY Agreement, ProfileUser DEF InOrder, ProfilesKeepAgentRole
<1>2. InOrder => InactiveIsOffline
  BY Agreement, ProfileUser DEF InOrder, InactiveIsOffline
<1>3. InOrder /\ NoRace /\ [Next]_vars => InOrder'
  BY RequestsNextInv, UserNextInv DEF InOrder, NoRace
<1> QED BY <1>1, <1>2, <1>3, InitInOrder, PTL DEF Spec

\* Who is in a request was in it before, or has just begun it: as an administrator, to
\* register or PATCH, and at the command line where there is none.
LEMMA RequestStays ==
  ASSUME RequestsInv, Next, NEW s \in Sessions, NEW d, d = sessions'[s], d # Idle
  PROVE  \/ /\ sessions[s] # Idle
            /\ d.op = sessions[s].op
            /\ d.actor = sessions[s].actor
            /\ d.me = sessions[s].me
         \/ /\ sessions[s] = Idle
            /\ UNCHANGED users
            /\ d.op = "bootstrap" => ~HasAdmin
            /\ d.op # "bootstrap" => d.me = users[d.actor]
            /\ d.op \in {"register", "update_user"} => HasAdmin
<1> DEFINE Goal == \/ /\ sessions[s] # Idle
                      /\ d.op = sessions[s].op
                      /\ d.actor = sessions[s].actor
                      /\ d.me = sessions[s].me
                   \/ /\ sessions[s] = Idle
                      /\ UNCHANGED users
                      /\ d.op = "bootstrap" => ~HasAdmin
                      /\ d.op # "bootstrap" => d.me = users[d.actor]
                      /\ d.op \in {"register", "update_user"} => HasAdmin
<1>1. PICK t \in Sessions : \/ \E op \in Operations, u \in Users : Authenticate(t, op, u)
                            \/ Serve(t)
  BY DEF Next
<1>2. ASSUME NEW q, sessions' = [sessions EXCEPT ![t] = q]
      PROVE  d = IF s = t THEN q ELSE sessions[s]
  BY <1>2 DEF RequestsInv, AccountsInv, TypeOK
<1>3. ASSUME sessions[t] # Idle, NEW q, sessions' = [sessions EXCEPT ![t] = q],
             q.op = sessions[t].op, q.actor = sessions[t].actor, q.me = sessions[t].me
      PROVE  Goal
  <2>1. CASE s = t
    BY <1>2, <1>3, <2>1
  <2>2. CASE s # t
    BY <1>2, <1>3, <2>2
  <2> QED BY <2>1, <2>2
<1>4. CASE \E op \in Operations, u \in Users : Authenticate(t, op, u)
  <2>1. PICK op \in Operations, u \in Users : Authenticate(t, op, u)
    BY <1>4
  <2>2. PICK q : q = [pc |-> "started", op |-> op, actor |-> u, me |-> users[u],
                      target |-> None, first |-> None, plan |-> None]
    OBVIOUS
  <2>3. /\ sessions[t] = Idle
        /\ q.op # "bootstrap"
        /\ q.me = users[q.actor]
        /\ q.op \in {"register", "update_user"} => users[u].role = "ADMIN"
        /\ sessions' = [sessions EXCEPT ![t] = q]
        /\ UNCHANGED users
    BY <2>1, <2>2 DEF Authenticate, Start, MayCall
  <2>4. users[u].role = "ADMIN" => HasAdmin
    BY DEF HasAdmin
  <2> QED BY <1>2, <2>3, <2>4
<1>5. CASE BeginBootstrap(t)
  <2>1. PICK q : q = [pc |-> "started", op |-> "bootstrap", actor |-> None, me |-> NoUser,
                      target |-> None, first |-> None, plan |-> None]
    OBVIOUS
  <2>2. /\ sessions[t] = Idle
        /\ q.op = "bootstrap"
        /\ ~HasAdmin
        /\ sessions' = [sessions EXCEPT ![t] = q]
        /\ UNCHANGED users
    BY <1>5, <2>1 DEF BeginBootstrap, MayBootstrap, Start
  <2> QED BY <1>2, <2>2
<1>6. CASE \/ \E u \in Users : ReadUser(t, u)
           \/ \E a \in Profiles : ReadProfile(t, a)
  <2>1. /\ sessions[t] \in Session
        /\ sessions[t].pc = "started"
        /\ sessions[t] # Idle
    BY <1>6, BusySession DEF ReadUser, ReadProfile, RequestsInv, AccountsInv, Idle
  <2>2. PICK target, row : Read(t, target, row)
    BY <1>6 DEF ReadUser, ReadProfile
  <2>3. PICK q : q = [sessions[t] EXCEPT !.pc = "read", !.target = target, !.first = row]
    OBVIOUS
  <2>4. /\ q.op = sessions[t].op
        /\ q.actor = sessions[t].actor
        /\ q.me = sessions[t].me
        /\ sessions' = [sessions EXCEPT ![t] = q]
    BY <2>1, <2>2, <2>3 DEF Session, Read
  <2> QED BY <1>3, <2>1, <2>4
<1>7. ASSUME NEW plan, Decide(t, plan), sessions[t].pc \in {"started", "read"}
      PROVE  Goal
  <2>1. sessions[t] \in Session /\ sessions[t] # Idle
    BY <1>7, BusySession DEF RequestsInv, AccountsInv, Idle
  <2>2. PICK q : q = [sessions[t] EXCEPT !.pc = "decided", !.plan = plan]
    OBVIOUS
  <2>3. /\ q.op = sessions[t].op
        /\ q.actor = sessions[t].actor
        /\ q.me = sessions[t].me
        /\ sessions' = [sessions EXCEPT ![t] = q]
    BY <1>7, <2>1, <2>2 DEF Session, Decide
  <2> QED BY <1>3, <1>7, <2>1, <2>3
<1>8. CASE Finish(t)
  <2>1. d = IF s = t THEN Idle ELSE sessions[s]
    BY <1>2, <1>8 DEF Finish
  <2> QED BY <2>1
<1> QED BY <1>1, <1>4, <1>5, <1>6, <1>7, <1>8
        DEF Serve, DecideNewUser, DecideUserUpdate, DecideNewProfile, DecideStatus,
            DecideAssignment, CommitNewUser, CommitNewProfile, CommitUpdate,
            CommitAssignment, Rollback

\* There is one session at most.
OneSession == \A s, t \in Sessions : s = t

\* Nobody is changed while it is the caller of a request.
CallersStand ==
  \A s \in Sessions :
    sessions[s] # Idle /\ sessions[s].op # "bootstrap" =>
      sessions[s].me = users[sessions[s].actor]

\* With one session a request is over when a user is changed.
LEMMA OneSessionStands ==
  ASSUME OneSession, RequestsInv, CallersStand, [Next]_vars
  PROVE  CallersStand'
<1> SUFFICES ASSUME NEW s \in Sessions, NEW d, d = sessions'[s], d # Idle, d.op # "bootstrap"
             PROVE  d.me = users'[d.actor]
  BY DEF CallersStand
<1>1. CASE UNCHANGED vars
  BY <1>1 DEF vars, CallersStand
<1>2. CASE Next
  <2>1. UNCHANGED users
    <3>1. PICK t \in Sessions : (\E q : GoesOn(t, q)) \/ UNCHANGED users \/ Finish(t)
      BY <1>2, StepIs DEF CommitNewUser, CommitNewProfile, CommitUpdate
    <3>2. Finish(t) => d = Idle
      BY DEF OneSession, Finish, RequestsInv, AccountsInv, TypeOK
    <3> QED BY <3>1, <3>2 DEF GoesOn
  <2>2. PICK e : e = sessions[s]
    OBVIOUS
  <2>3. \/ e # Idle /\ d.op = e.op /\ d.actor = e.actor /\ d.me = e.me
        \/ d.me = users[d.actor]
    BY <1>2, <2>2, RequestStays
  <2>4. e # Idle /\ e.op # "bootstrap" => e.me = users[e.actor]
    BY <2>2 DEF CallersStand
  <2> QED BY <2>1, <2>3, <2>4
<1> QED BY <1>1, <1>2

\* Whose caller is unchanged is an active administrator while it PATCHes, so that one
\* remains.
LEMMA StandingAdminRemains ==
  ASSUME RequestsInv, CallersStand, AdminRemains, [Next]_vars
  PROVE  AdminRemains'
<1> SUFFICES ASSUME NEW s \in Sessions, sessions[s] # Idle, sessions[s].op = "update_user"
             PROVE  ActiveAdmin(sessions[s].actor)
  BY TheLastFalls
<1>1. sessions[s].pc # "idle"
  BY DEF Idle, Session, RequestsInv, AccountsInv, TypeOK
<1>2. sessions[s].me.role = "ADMIN" /\ sessions[s].me.is_active
  BY <1>1 DEF RequestsInv, Sound, CallerIs
<1> QED BY <1>2 DEF CallersStand, ActiveAdmin

\* Requests that run one at a time do not race, since whoever PATCHes another user rests
\* on nobody, and nobody deposes their caller: roles, availability and administrators
\* are as promised.
THEOREM OneAtATime ==
  ASSUME OneSession
  PROVE  Spec => []StaffInOrder
<1>1. NoRace
  BY DEF OneSession, NoRace, Race, Patches, RestsOn
<1>2. Init => CallersStand /\ AdminRemains
  BY DEF Init, CallersStand, AdminRemains, Exists
<1>3. RequestsInv /\ CallersStand /\ AdminRemains /\ [Next]_vars
        => CallersStand' /\ AdminRemains'
  BY OneSessionStands, StandingAdminRemains
<1>4. ProfilesKeepAgentRole /\ InactiveIsOffline /\ AdminRemains => StaffInOrder
  BY DEF StaffInOrder
<1> QED BY <1>1, <1>2, <1>3, <1>4, ProfilesKeptInOrder, RequestsInvariant, PTL DEF Spec

\* However many requests run at once, the last active administrator falls to nobody but
\* one who was deposed meanwhile.
THEOREM TheDeposedTakeTheLast == Spec => OnlyTheDeposedTakeTheLast
<1>1. RequestsInv /\ [Next]_vars =>
        [AdminRemains /\ ~AdminRemains' =>
           \E s \in Sessions :
             /\ sessions[s] # Idle
             /\ sessions[s].op = "update_user"
             /\ sessions'[s] = Idle
             /\ ~ActiveAdmin(sessions[s].actor)]_vars
  BY TheLastFalls
<1> QED BY <1>1, RequestsInvariant, PTL DEF Spec, OnlyTheDeposedTakeTheLast

-----------------------------------------------------------------------------
(***************************************************************************)
(* Races                                                                   *)
(***************************************************************************)

\* The inductive invariant with the history variable: who is not raced yet agrees.
RacesInv ==
  /\ RequestsInv
  /\ raced \in SUBSET Users
  /\ \A u \in Users : Race(u) => u \in raced
  /\ \A u \in Users : u \notin raced => UserInv(u)

\* Every step keeps it.
LEMMA RacesNextInv ==
  ASSUME RacesInv, [RacesNext]_racesVars
  PROVE  RacesInv'
<1>1. [Next]_vars
  BY DEF RacesNext, DeactivationNext, racesVars, vars
<1>2. /\ raced \subseteq raced'
      /\ raced' \in SUBSET Users
      /\ \A u \in Users : Race(u)' => u \in raced'
  <2>1. CASE RacesNext
    BY <2>1 DEF RacesNext, RacesInv
  <2>2. CASE UNCHANGED racesVars
    BY <2>2 DEF racesVars, RacesInv, Race, Patches, RestsOn
  <2> QED BY <2>1, <2>2
<1>3. RequestsInv'
  BY <1>1, RequestsNextInv DEF RacesInv
<1>4. \A u \in Users : u \notin raced' => UserInv(u)'
  BY <1>1, <1>2, UserNextInv DEF RacesInv
<1> QED BY <1>2, <1>3, <1>4 DEF RacesInv

\* The inductive invariant holds in every state.
LEMMA RacesInvariant == RacesSpec => []RacesInv
<1>1. RacesInit => RacesInv
  <2> SUFFICES ASSUME RacesInit
               PROVE  RacesInv
    OBVIOUS
  <2>1. InOrder
    BY InitInOrder DEF RacesInit, DeactivationInit
  <2>2. \A u \in Users : ~Race(u)
    BY DEF RacesInit, DeactivationInit, Init, Race, Patches, Idle
  <2> QED BY <2>1, <2>2 DEF RacesInit, RacesInv, InOrder
<1>2. RacesInv /\ [RacesNext]_racesVars => RacesInv'
  BY RacesNextInv
<1> QED BY <1>1, <1>2, PTL DEF RacesSpec

\* However many requests run at once and race: the profile of a user who was never
\* raced is an AGENT's.
THEOREM RolesAreMisplacedByRaces == RacesSpec => []OnlyRacesMisplaceRoles
<1>1. RacesInv => OnlyRacesMisplaceRoles
  BY Agreement, ProfileUser DEF RacesInv, OnlyRacesMisplaceRoles
<1> QED BY <1>1, RacesInvariant, PTL

\* And it is OFFLINE when the user is inactive.
THEOREM InactiveAreLeftByRaces == RacesSpec => []OnlyRacesLeaveOnDuty
<1>1. RacesInv => OnlyRacesLeaveOnDuty
  BY Agreement, ProfileUser DEF RacesInv, OnlyRacesLeaveOnDuty
<1> QED BY <1>1, RacesInvariant, PTL

-----------------------------------------------------------------------------
(***************************************************************************)
(* The first administrator                                                 *)
(***************************************************************************)

\* Beside a command that met no rival there is no administrator, and no request that
\* could make one.
UncontestedInv ==
  /\ contested \in SUBSET Sessions
  /\ \A s \in Sessions \ contested :
       Bootstraps(s) =>
         /\ ~HasAdmin
         /\ \A t \in Sessions \ {s} : ~Runs(t, {"bootstrap", "register", "update_user"})

\* Where there is none, an administrator is made by the command, a registration or a
\* PATCH, which thereby ends.
LEMMA AdminsAreMade ==
  ASSUME RequestsInv, Next, ~HasAdmin, HasAdmin'
  PROVE  \E t \in Sessions : /\ Runs(t, {"bootstrap", "register", "update_user"})
                             /\ sessions'[t] = Idle
<1>1. CASE UNCHANGED users
  BY <1>1 DEF HasAdmin
<1>2. ASSUME NEW t \in Sessions, NEW u \in Users, CommitNewUser(t, u)
      PROVE  Runs(t, {"bootstrap", "register", "update_user"}) /\ sessions'[t] = Idle
  <2>1. /\ sessions[t].pc = "decided"
        /\ sessions[t].plan.kind = "insert_user"
        /\ PlanIs(sessions[t])
        /\ sessions[t] \in Session
    BY <1>2, BusySession DEF CommitNewUser, RequestsInv, AccountsInv, Sound
  <2>2. sessions[t].op \in {"bootstrap", "register"}
    BY <2>1 DEF PlanIs, UserUpdateIs, StatusIs, Session, Operations
  <2>3. sessions'[t] = Idle
    BY <1>2 DEF CommitNewUser, Finish, RequestsInv, AccountsInv, TypeOK
  <2> QED BY <2>1, <2>2, <2>3 DEF Runs, Idle
<1>3. ASSUME NEW t \in Sessions, CommitUpdate(t)
      PROVE  Runs(t, {"bootstrap", "register", "update_user"}) /\ sessions'[t] = Idle
  <2>1. PICK p : p = sessions[t].plan
    OBVIOUS
  <2>2. /\ sessions[t].pc = "decided"
        /\ sessions[t].op \in {"update_user", "update_status"}
        /\ Sound(sessions[t])
        /\ \A v \in Users : v # p.user => users'[v] = users[v]
        /\ users'[p.user].role = Written(p.role, users[p.user].role)
        /\ Finish(t)
    BY <1>3, <2>1, UpdateWrites
  <2>3. sessions[t].op # "update_status"
    <3> SUFFICES ASSUME sessions[t].op = "update_status"
                 PROVE  FALSE
      OBVIOUS
    <3>1. p.role = None
      BY <2>1, <2>2 DEF Sound, PlanIs, StatusIs
    <3>2. \A v \in Users : users'[v].role = users[v].role
      BY <2>2, <3>1 DEF Written
    <3> QED BY <3>2 DEF HasAdmin
  <2>4. sessions'[t] = Idle
    BY <2>2 DEF Finish, RequestsInv, AccountsInv, TypeOK
  <2> QED BY <2>2, <2>3, <2>4 DEF Runs, Idle
<1> QED BY <1>1, <1>2, <1>3, StepIs DEF GoesOn, CommitNewProfile

\* Every step keeps the invariant.
LEMMA UncontestedNextInv ==
  ASSUME RequestsInv, UncontestedInv, [RacesNext]_racesVars
  PROVE  UncontestedInv'
<1>1. CASE UNCHANGED racesVars
  BY <1>1 DEF racesVars, UncontestedInv, Bootstraps, Runs, HasAdmin
<1>2. CASE RacesNext
  <2>1. /\ Next
        /\ contested' = {s \in Sessions : Bootstraps(s)' /\ (s \in contested \/ Meets(s))}
    BY <1>2 DEF RacesNext, DeactivationNext
  <2>2. SUFFICES ASSUME NEW s \in Sessions, s \notin contested', Bootstraps(s)'
                 PROVE  /\ ~HasAdmin'
                        /\ \A t \in Sessions \ {s} :
                             ~Runs(t, {"bootstrap", "register", "update_user"})'
    BY <2>1 DEF UncontestedInv
  <2>3. s \notin contested /\ ~Meets(s)
    BY <2>1, <2>2
  <2>4. CASE sessions[s] = Idle
    <3>1. ~HasAdmin /\ UNCHANGED users
      BY <2>1, <2>2, <2>4, RequestStays DEF Bootstraps, Runs
    <3>2. \A t \in Sessions \ {s} : ~Runs(t, {"bootstrap", "register", "update_user"})'
      BY <2>3, <2>4 DEF Meets, Bootstraps, Runs
    <3> QED BY <3>1, <3>2 DEF HasAdmin
  <2>5. CASE sessions[s] # Idle
    <3>1. Bootstraps(s)
      BY <2>1, <2>2, <2>5, RequestStays DEF Bootstraps, Runs
    <3>2. /\ ~HasAdmin
          /\ \A t \in Sessions \ {s} : ~Runs(t, {"bootstrap", "register", "update_user"})
      BY <2>3, <3>1 DEF UncontestedInv
    <3>3. ~HasAdmin'
      BY <2>1, <2>2, <3>2, AdminsAreMade DEF Bootstraps, Runs
    <3>4. ASSUME NEW t \in Sessions \ {s}, Runs(t, {"bootstrap", "register", "update_user"})'
          PROVE  FALSE
      <4>1. PICK d : d = sessions'[t]
        OBVIOUS
      <4>2. d # Idle /\ d.op \in {"register", "update_user"}
        BY <2>3, <3>4, <4>1 DEF Meets, Bootstraps, Runs
      <4>3. \/ sessions[t] # Idle /\ d.op = sessions[t].op
            \/ d.op \in {"register", "update_user"} => HasAdmin
        BY <2>1, <4>1, <4>2, RequestStays
      <4> QED BY <3>2, <4>2, <4>3 DEF Runs
    <3> QED BY <3>3, <3>4
  <2> QED BY <2>4, <2>5
<1> QED BY <1>1, <1>2

\* The inductive invariant holds in every state.
LEMMA UncontestedInvariant == RacesSpec => []UncontestedInv
<1>1. RacesInit => UncontestedInv
  BY DEF RacesInit, DeactivationInit, Init, UncontestedInv, Bootstraps, Runs
<1>2. RacesInv => RequestsInv
  BY DEF RacesInv
<1>3. RequestsInv /\ UncontestedInv /\ [RacesNext]_racesVars => UncontestedInv'
  BY UncontestedNextInv
<1> QED BY <1>1, <1>2, <1>3, RacesInvariant, PTL DEF RacesSpec

\* A command that met no rival finds no administrator until it inserts its own, however
\* many other requests run beside it.
THEOREM UncontestedBootstraps == RacesSpec => []UncontestedIsFirst
<1>1. UncontestedInv => UncontestedIsFirst
  BY DEF UncontestedInv, UncontestedIsFirst
<1> QED BY <1>1, UncontestedInvariant, PTL

-----------------------------------------------------------------------------
(***************************************************************************)
(* Deactivation                                                            *)
(***************************************************************************)

\* A request q relies on none of the users d, who are all inactive still.
Felt(q, d) ==
  /\ d \subseteq InactiveUsers
  /\ q.actor \notin d
  /\ q.pc = "read" /\ q.op = "create_profile" /\ q.first.is_active => q.target \notin d
  /\ q.pc = "decided" =>
       /\ q.op = "assign" => /\ q.plan.kind = "assign"
                             /\ agents[q.plan.profile].user_id \notin d
       /\ q.op \in {"update_status", "create_profile"} => q.plan.user \notin d

\* The inductive invariant.
DormantInv ==
  /\ AccountsInv
  /\ DormantTypeOK
  /\ \A s \in Sessions : sessions[s] # Idle => Felt(sessions[s], dormant[s])

\* A request goes on relying on none of those that are inactive still.
LEMMA FeltStays ==
  ASSUME RowsStay, NEW q \in Session, NamesRows(q), NEW d, Felt(q, d),
         NEW e, e \subseteq d, e \subseteq InactiveUsers'
  PROVE  Felt(q, e)'
<1>1. q.pc = "decided" /\ q.op = "assign" =>
        /\ q.plan.profile \in Profiles
        /\ agents[q.plan.profile] # NoProfileRow
  BY DEF Felt, NamesRows, Plan
<1>2. q.pc = "decided" /\ q.op = "assign" =>
        agents'[q.plan.profile].user_id = agents[q.plan.profile].user_id
  BY <1>1 DEF RowsStay
<1> QED BY <1>2 DEF Felt

\* What Observe does to one session.
LEMMA Observed ==
  ASSUME Observe, NEW s \in Sessions
  PROVE  /\ sessions'[s] = Idle => dormant'[s] = {}
         /\ sessions'[s] # Idle /\ sessions[s] = Idle => dormant'[s] = InactiveUsers'
         /\ sessions'[s] # Idle /\ sessions[s] # Idle =>
              dormant'[s] = dormant[s] \cap InactiveUsers'
BY DEF Observe

\* The request that moves, or ends.
LEMMA MoverFeels ==
  ASSUME DormantInv, DormantTypeOK, NEW s \in Sessions, Observe,
         \/ \E op \in Operations, u \in Users : Authenticate(s, op, u)
         \/ Serve(s)
  PROVE  /\ \A t \in Sessions : t # s => sessions'[t] = sessions[t]
         /\ sessions'[s] # Idle => Felt(sessions[s], dormant[s])'
<1> SUFFICES ASSUME NEW q, q = sessions'[s], NEW d, d = dormant'[s]
             PROVE  /\ \A t \in Sessions : t # s => sessions'[t] = sessions[t]
                    /\ q # Idle => Felt(q, d)'
  BY DEF Felt
<1>1. /\ DOMAIN sessions = Sessions
      /\ sessions[s] # Idle => /\ sessions[s] \in Session
                               /\ NamesRows(sessions[s])
                               /\ Felt(sessions[s], dormant[s])
  BY BusySession DEF DormantInv, AccountsInv, TypeOK
<1>2. /\ q = Idle => d = {}
      /\ q # Idle /\ sessions[s] = Idle => d = InactiveUsers'
      /\ q # Idle /\ sessions[s] # Idle => d \subseteq dormant[s] /\ d \subseteq InactiveUsers'
  BY Observed
<1>3. ASSUME Finish(s)
      PROVE  q = Idle /\ \A t \in Sessions : t # s => sessions'[t] = sessions[t]
  BY <1>1, <1>3 DEF Finish, DormantInv, AccountsInv, TypeOK
<1>4. ASSUME NEW op \in Operations, NEW u \in Users, Authenticate(s, op, u)
      PROVE  /\ \A t \in Sessions : t # s => sessions'[t] = sessions[t]
             /\ q # Idle => Felt(q, d)'
  <2>1. /\ q.pc = "started"
        /\ q.actor = u
        /\ \A t \in Sessions : t # s => sessions'[t] = sessions[t]
        /\ users' = users
        /\ users[u].is_active
        /\ sessions[s] = Idle
    BY <1>1, <1>4 DEF Authenticate, Start, DormantInv, AccountsInv, TypeOK
  <2> QED BY <1>2, <2>1 DEF Felt, InactiveUsers
<1>5. CASE BeginBootstrap(s)
  <2>1. /\ q.pc = "started"
        /\ q.actor = None
        /\ \A t \in Sessions : t # s => sessions'[t] = sessions[t]
        /\ sessions[s] = Idle
    BY <1>1, <1>5 DEF BeginBootstrap, Start, DormantInv, AccountsInv, TypeOK
  <2> QED BY <1>2, <2>1, NoneIsNoId DEF Felt, InactiveUsers
<1>6. ASSUME NEW u \in Users, ReadUser(s, u)
      PROVE  /\ \A t \in Sessions : t # s => sessions'[t] = sessions[t]
             /\ q # Idle => Felt(q, d)'
  <2>1. sessions[s] # Idle /\ sessions[s].pc = "started"
    BY <1>6 DEF ReadUser, Idle
  <2>2. /\ q.pc = "read"
        /\ q.actor = sessions[s].actor
        /\ q.target = u
        /\ q.first = Loaded(s, u)
        /\ \A t \in Sessions : t # s => sessions'[t] = sessions[t]
    BY <1>1, <1>6, <2>1 DEF ReadUser, Read, Session, DormantInv, AccountsInv, TypeOK
  <2>3. Felt(sessions[s], dormant[s])
    BY <1>1, <2>1
  <2>4. Loaded(s, u).is_active => u \notin dormant[s]
    BY <2>3 DEF Loaded, Felt, InactiveUsers
  <2> QED BY <1>2, <2>1, <2>2, <2>3, <2>4 DEF Felt
<1>7. ASSUME NEW a \in Profiles, ReadProfile(s, a)
      PROVE  /\ \A t \in Sessions : t # s => sessions'[t] = sessions[t]
             /\ q # Idle => Felt(q, d)'
  <2>1. /\ sessions[s] # Idle
        /\ sessions[s].pc = "started"
        /\ sessions[s].op \in {"update_status", "assign"}
    BY <1>7 DEF ReadProfile, Idle
  <2>2. /\ q.pc = "read"
        /\ q.op = sessions[s].op
        /\ q.actor = sessions[s].actor
        /\ \A t \in Sessions : t # s => sessions'[t] = sessions[t]
    BY <1>1, <1>7, <2>1 DEF ReadProfile, Read, Session, DormantInv, AccountsInv, TypeOK
  <2>3. Felt(sessions[s], dormant[s])
    BY <1>1, <2>1
  <2> QED BY <1>2, <2>1, <2>2, <2>3 DEF Felt
<1>8. ASSUME NEW plan, Decide(s, plan), sessions[s] # Idle,
             sessions[s].op = "assign" => /\ plan.kind = "assign"
                                          /\ agents[plan.profile].user_id \notin dormant[s],
             sessions[s].op \in {"update_status", "create_profile"} =>
               plan.user \notin dormant[s]
      PROVE  /\ \A t \in Sessions : t # s => sessions'[t] = sessions[t]
             /\ q # Idle => Felt(q, d)'
  <2>1. /\ q.pc = "decided"
        /\ q.op = sessions[s].op
        /\ q.actor = sessions[s].actor
        /\ q.plan = plan
        /\ \A t \in Sessions : t # s => sessions'[t] = sessions[t]
        /\ agents' = agents
    BY <1>1, <1>8 DEF Decide, Session, DormantInv, AccountsInv, TypeOK
  <2>2. Felt(sessions[s], dormant[s])
    BY <1>1, <1>8
  <2> QED BY <1>2, <1>8, <2>1, <2>2 DEF Felt
<1>9. ASSUME NEW email \in Emails, NEW role \in UserRole, DecideNewUser(s, email, role)
      PROVE  /\ \A t \in Sessions : t # s => sessions'[t] = sessions[t]
             /\ q # Idle => Felt(q, d)'
  BY <1>8, <1>9 DEF DecideNewUser, Idle
<1>10. ASSUME NEW role \in UserRole \cup {None}, NEW active \in BOOLEAN \cup {None},
              DecideUserUpdate(s, role, active)
       PROVE  /\ \A t \in Sessions : t # s => sessions'[t] = sessions[t]
              /\ q # Idle => Felt(q, d)'
  <2>1. PICK plan : Decide(s, plan)
    BY <1>10 DEF DecideUserUpdate
  <2>2. sessions[s] # Idle /\ sessions[s].op = "update_user"
    BY <1>10 DEF DecideUserUpdate, Idle
  <2> QED BY <1>8, <2>1, <2>2
<1>11. CASE DecideNewProfile(s)
  <2>1. /\ sessions[s] # Idle
        /\ sessions[s].pc = "read"
        /\ sessions[s].op = "create_profile"
        /\ sessions[s].first.is_active
        /\ Decide(s, [kind |-> "insert_profile", user |-> sessions[s].target])
    BY <1>11 DEF DecideNewProfile, Idle
  <2>2. sessions[s].target \notin dormant[s]
    BY <1>1, <2>1 DEF Felt
  <2> QED BY <1>8, <2>1, <2>2
<1>12. ASSUME sessions[s] # Idle, sessions[s].pc = "read",
              sessions[s].op \in {"update_status", "assign"}
       PROVE  /\ Loaded(s, sessions[s].first.user_id).is_active =>
                   sessions[s].first.user_id \notin dormant[s]
              /\ agents[sessions[s].target].user_id = sessions[s].first.user_id
  BY <1>1, <1>12 DEF Felt, Loaded, InactiveUsers, NamesRows
<1>13. ASSUME NEW status \in AgentStatus, DecideStatus(s, status)
       PROVE  /\ \A t \in Sessions : t # s => sessions'[t] = sessions[t]
              /\ q # Idle => Felt(q, d)'
  <2>1. PICK plan : Decide(s, plan) /\ plan.user = sessions[s].first.user_id
    BY <1>13 DEF DecideStatus
  <2>2. /\ sessions[s] # Idle
        /\ sessions[s].pc = "read"
        /\ sessions[s].op = "update_status"
        /\ Loaded(s, sessions[s].first.user_id).is_active
    BY <1>13 DEF DecideStatus, MayChangeStatus, Idle
  <2> QED BY <1>8, <1>12, <2>1, <2>2
<1>14. CASE DecideAssignment(s)
  <2>1. PICK plan : /\ Decide(s, plan)
                    /\ plan.kind = "assign"
                    /\ plan.profile = sessions[s].target
    BY <1>14 DEF DecideAssignment
  <2>2. /\ sessions[s] # Idle
        /\ sessions[s].pc = "read"
        /\ sessions[s].op = "assign"
        /\ Loaded(s, sessions[s].first.user_id).is_active
    BY <1>14 DEF DecideAssignment, MayAssign, Idle
  <2> QED BY <1>8, <1>12, <2>1, <2>2
<1>15. CASE \/ \E u \in Users : CommitNewUser(s, u)
            \/ \E a \in Profiles : CommitNewProfile(s, a)
            \/ CommitUpdate(s)
            \/ CommitAssignment(s)
            \/ Rollback(s)
  BY <1>3, <1>15 DEF CommitNewUser, CommitNewProfile, CommitUpdate, CommitAssignment, Rollback
<1> QED BY <1>4, <1>5, <1>6, <1>7, <1>9, <1>10, <1>11, <1>13, <1>14, <1>15 DEF Serve

\* Every step keeps the invariant.
LEMMA DormantNextInv ==
  ASSUME DormantInv, [DeactivationNext]_deactivationVars
  PROVE  DormantInv'
<1>1. [Next]_vars
  BY DEF DeactivationNext, deactivationVars, vars
<1>2. AccountsInv' /\ RowsStay
  BY <1>1, AccountsNextInv, StepsKeepRows DEF DormantInv
<1>3. CASE UNCHANGED deactivationVars
  BY <1>2, <1>3 DEF deactivationVars, DormantInv, DormantTypeOK, TypeOK, Felt, InactiveUsers
<1>4. CASE DeactivationNext
  <2>1. PICK s \in Sessions :
          \/ \E op \in Operations, u \in Users : Authenticate(s, op, u)
          \/ Serve(s)
    BY <1>4 DEF DeactivationNext, Next
  <2>2. Observe
    BY <1>4 DEF DeactivationNext
  <2>3. DormantTypeOK'
    <3>1. \A t \in Sessions : dormant'[t] \in SUBSET Users
      <4> TAKE t \in Sessions
      <4>1. InactiveUsers' \subseteq Users /\ dormant[t] \in SUBSET Users
        BY DEF InactiveUsers, DormantInv, DormantTypeOK
      <4> QED BY <2>2, <4>1, Observed
    <3>2. dormant' = [t \in Sessions |-> dormant'[t]]
      BY <2>2 DEF Observe
    <3>3. TypeOK'
      BY <1>2 DEF AccountsInv
    <3> QED BY <3>1, <3>2, <3>3 DEF DormantTypeOK
  <2>4. \A t \in Sessions : sessions'[t] # Idle => Felt(sessions[t], dormant[t])'
    <3> SUFFICES ASSUME NEW t \in Sessions, t # s, sessions'[t] # Idle
                 PROVE  Felt(sessions[t], dormant[t])'
      BY <2>1, <2>2, MoverFeels DEF DormantInv
    <3>1. sessions'[t] = sessions[t]
      BY <2>1, <2>2, MoverFeels DEF DormantInv
    <3>2. PICK q \in Session : q = sessions[t]
      BY <3>1, BusySession DEF DormantInv, AccountsInv
    <3>3. PICK d : d = dormant[t]
      OBVIOUS
    <3>4. PICK e : e = dormant'[t]
      OBVIOUS
    <3>5. e \subseteq d /\ e \subseteq InactiveUsers'
      BY <2>2, <3>1, <3>3, <3>4, Observed
    <3>6. NamesRows(q) /\ Felt(q, d)
      BY <3>1, <3>2, <3>3 DEF DormantInv, AccountsInv
    <3>7. Felt(q, e)'
      BY <1>2, <3>5, <3>6, FeltStays
    <3> QED BY <3>1, <3>2, <3>4, <3>7 DEF Felt
  <2> QED BY <1>2, <2>3, <2>4 DEF DormantInv, Felt
<1> QED BY <1>3, <1>4

\* The inductive invariant holds in every state.
LEMMA DormantInvariant == DeactivationSpec => []DormantInv
<1>1. DeactivationInit => DormantInv
  BY AccountsInitInv
     DEF DeactivationInit, DormantInv, DormantTypeOK, Init, AccountsInv
<1>2. DormantInv /\ [DeactivationNext]_deactivationVars => DormantInv'
  BY DormantNextInv
<1> QED BY <1>1, <1>2, PTL DEF DeactivationSpec

\* Type correctness with the history variable.
THEOREM DormantTypeCorrect == DeactivationSpec => []DormantTypeOK
<1>1. DormantInv => DormantTypeOK
  BY DEF DormantInv
<1> QED BY <1>1, DormantInvariant, PTL

\* A deactivated user neither calls nor is assigned, given a profile or made
\* available by a request that starts after the deactivation.
THEOREM DeactivationTakesEffect == DeactivationSpec => []DeactivationIsFelt
<1>1. DormantInv => DeactivationIsFelt
  <2> SUFFICES ASSUME DormantInv, NEW s \in Sessions, sessions[s] # Idle
               PROVE  /\ sessions[s].actor \notin dormant[s]
                      /\ sessions[s].pc = "decided" => Relies(s) \cap dormant[s] = {}
    BY DEF DeactivationIsFelt
  <2>1. Felt(sessions[s], dormant[s])
    BY DEF DormantInv
  <2>2. \/ Relies(s) = {}
        \/ sessions[s].op = "assign"
             /\ Relies(s) = {agents[sessions[s].plan.profile].user_id}
        \/ sessions[s].op \in {"update_status", "create_profile"}
             /\ Relies(s) = {sessions[s].plan.user}
    BY DEF Relies
  <2> QED BY <2>1, <2>2 DEF Felt
<1> QED BY <1>1, DormantInvariant, PTL

\* Watching for races changes nothing, so that all that is proved of Deactivation, and
\* of Accounts, holds of RacesSpec.
THEOREM RacesKeepDeactivation == RacesSpec => DeactivationSpec
<1>1. RacesInit => DeactivationInit
  BY DEF RacesInit
<1>2. [RacesNext]_racesVars => [DeactivationNext]_deactivationVars
  BY DEF RacesNext, racesVars, deactivationVars
<1> QED BY <1>1, <1>2, PTL DEF RacesSpec, DeactivationSpec

\* Type correctness with the three history variables.
THEOREM RacesTypeCorrect == RacesSpec => []RacesTypeOK
<1>1. DormantTypeOK /\ RacesInv /\ UncontestedInv => RacesTypeOK
  BY DEF RacesInv, UncontestedInv, RacesTypeOK
<1> QED BY <1>1, RacesKeepDeactivation, DormantTypeCorrect, RacesInvariant,
           UncontestedInvariant, PTL

-----------------------------------------------------------------------------
(***************************************************************************)
(* Tokens                                                                  *)
(***************************************************************************)

\* A token is dated by the clock that signed it; a login has a key, and one that found
\* its user active is of a user that was not away.
TokenHolds ==
  /\ away \subseteq InactiveUsers
  /\ token # None =>
       /\ token.iat = token.at \div 2
       /\ token.exp = (token.at + 2 * Lifetime) \div 2
       /\ token.user \notin away
  /\ login # None =>
       /\ key # None
       /\ login.row.is_active => login.user \notin away

\* The inductive invariant.
ClientsInv == AccountsInv /\ ClientsTypeOK /\ TokenHolds

\* What clients do to users and profiles is what the requests of Accounts do.
LEMMA ClientsStepAccounts ==
  ASSUME ClientsTypeOK, [ClientsNext]_clientVars
  PROVE  [Next]_vars
<1>1. ASSUME NEW s \in Sessions, NEW op \in Operations, Request(s, op)
      PROVE  Next
  <2>1. token.user \in Users
    BY <1>1 DEF Request, ClientsTypeOK, Token
  <2> QED BY <1>1, <2>1 DEF Request, Next
<1>2. ASSUME NEW s \in Sessions, Continue(s)
      PROVE  Next
  BY <1>2 DEF Continue, Next
<1>3. CASE UNCHANGED clientVars
  BY <1>3 DEF clientVars, vars
<1>4. CASE \/ \E u \in Users : BeginLogin(u)
           \/ IssueToken
           \/ FailLogin
           \/ \E time \in Clock : SetClock(time)
           \/ \E k \in Keys \cup {None} : Restart(k)
  BY <1>4 DEF vars, BeginLogin, IssueToken, FailLogin, SetClock, Restart
<1> QED BY <1>1, <1>2, <1>3, <1>4 DEF ClientsNext

\* The initial state satisfies the invariant.
LEMMA ClientsInitInv == ClientsInit => ClientsInv
BY AccountsInitInv, TokenBounds
   DEF ClientsInit, ClientsInv, ClientsTypeOK, TokenHolds, AccountsInv, Clock

\* What was told of a token and of a login stays while away only shrinks.
LEMMA AwayShrinks ==
  ASSUME TokenHolds, away' \subseteq away \cap InactiveUsers',
         token' = token \/ token' = None,
         (login' = login /\ key' = key) \/ login' = None
  PROVE  TokenHolds'
BY DEF TokenHolds

\* Every step keeps the invariant.
LEMMA ClientsNextInv ==
  ASSUME ClientsInv, [ClientsNext]_clientVars
  PROVE  ClientsInv'
<1>1. AccountsInv'
  BY ClientsStepAccounts, AccountsNextInv DEF ClientsInv
<1>2. TypeOK'
  BY <1>1 DEF AccountsInv
<1>3. away' \in SUBSET Users
  BY DEF ClientsNext, Watch, InactiveUsers, ClientsInv, ClientsTypeOK, clientVars
<1>4. Clock \subseteq Nat /\ Lifetime \in Nat
  BY TokenBounds DEF Clock
<1>5. ASSUME NEW u \in Users, BeginLogin(u), Watch
      PROVE  ClientsInv'
  <2>1. login' \in Login
    BY <1>5, UserRows DEF BeginLogin, Login, ClientsInv, AccountsInv
  <2>2. ClientsTypeOK'
    BY <1>2, <1>3, <1>5, <2>1 DEF BeginLogin, ClientsInv, ClientsTypeOK
  <2>3. away' \subseteq InactiveUsers'
    BY <1>5 DEF Watch
  <2>4. login'.row.is_active => login'.user \notin InactiveUsers'
    BY <1>5 DEF BeginLogin, InactiveUsers
  <2>5. token' = None /\ key' # None
    BY <1>5 DEF BeginLogin, HasKey
  <2> QED BY <1>1, <2>2, <2>3, <2>4, <2>5 DEF ClientsInv, TokenHolds
<1>6. ASSUME IssueToken, Watch
      PROVE  ClientsInv'
  <2>1. /\ login \in Login
        /\ login.row.is_active
        /\ login' = None
        /\ clock \in Nat
        /\ key \in Keys \cup {None}
        /\ UNCHANGED <<clock, key>>
        /\ token' = NewToken(login.user)
    BY <1>4, <1>6 DEF IssueToken, MayLogin, ClientsInv, ClientsTypeOK
  <2>2. away' \subseteq away /\ away' \subseteq InactiveUsers'
    BY <1>6, <2>1 DEF Watch, IssueToken
  <2>3. /\ token'.iat = clock \div 2
        /\ token'.exp = (clock + 2 * Lifetime) \div 2
        /\ token'.at = clock
        /\ token'.user = login.user
    BY <2>1 DEF NewToken, Claim
  <2>4. login.user \notin away
    BY <1>6, <2>1 DEF ClientsInv, TokenHolds, IssueToken, MayLogin
  <2>5. key \in Keys
    BY <1>6, <2>1 DEF ClientsInv, TokenHolds, IssueToken, MayLogin
  <2> QED
    <3>1. clock \div 2 \in Nat /\ (clock + 2 * Lifetime) \div 2 \in Nat
      BY <1>4, <2>1
    <3>2. token' \in Token
      BY <2>1, <2>5, <3>1 DEF NewToken, Claim, Token, Login, ClientsInv, ClientsTypeOK
    <3>3. ClientsTypeOK'
      BY <1>2, <1>3, <1>6, <2>1, <3>2 DEF IssueToken, ClientsInv, ClientsTypeOK
    <3>4. TokenHolds'
      BY <2>1, <2>2, <2>3, <2>4 DEF TokenHolds
    <3> QED BY <1>1, <3>3, <3>4 DEF ClientsInv
<1>7. ASSUME token' = token, (login' = login /\ key' = key) \/ login' = None, Watch,
             clock' \in Clock, key' \in Keys \cup {None}
      PROVE  ClientsInv'
  <2>1. away' \subseteq away \cap InactiveUsers'
    BY <1>7 DEF Watch
  <2>2. TokenHolds'
    BY <1>7, <2>1, AwayShrinks DEF ClientsInv
  <2>3. ClientsTypeOK'
    BY <1>2, <1>3, <1>7 DEF ClientsInv, ClientsTypeOK
  <2> QED BY <1>1, <2>2, <2>3 DEF ClientsInv
<1>8. CASE UNCHANGED clientVars
  BY <1>1, <1>8 DEF clientVars, ClientsInv, ClientsTypeOK, TypeOK, TokenHolds, InactiveUsers
<1>9. CASE ClientsNext
  <2>1. Watch /\ clock \in Clock /\ key \in Keys \cup {None}
    BY <1>9 DEF ClientsNext, ClientsInv, ClientsTypeOK
  <2>2. CASE (\E u \in Users : BeginLogin(u)) \/ IssueToken
    BY <1>5, <1>6, <2>1, <2>2
  <2>3. CASE \/ FailLogin
             \/ \E s \in Sessions, op \in Operations : Request(s, op)
             \/ \E s \in Sessions : Continue(s)
             \/ \E time \in Clock : SetClock(time)
             \/ \E k \in Keys \cup {None} : Restart(k)
    BY <1>7, <2>1, <2>3 DEF FailLogin, Request, Continue, SetClock, Restart
  <2> QED BY <1>9, <2>2, <2>3 DEF ClientsNext
<1> QED BY <1>8, <1>9

\* The inductive invariant holds in every state.
LEMMA ClientsInvariant == ClientsSpec => []ClientsInv
<1>1. ClientsInv /\ [ClientsNext]_clientVars => ClientsInv'
  BY ClientsNextInv
<1> QED BY <1>1, ClientsInitInv, PTL DEF ClientsSpec

\* Clients with tokens do to users and profiles nothing that Accounts does not, so
\* that all that is proved of Accounts holds with them.
THEOREM ClientsKeepAccounts == ClientsSpec => Spec
<1>1. ClientsInit => Init
  BY DEF ClientsInit
<1>2. ClientsInv /\ [ClientsNext]_clientVars => [Next]_vars
  BY ClientsStepAccounts DEF ClientsInv
<1> QED BY <1>1, <1>2, ClientsInvariant, PTL DEF ClientsSpec, Spec

\* A client that sends one request at a time, with whatever token it holds, leaves
\* the staff in order.
THEOREM OneClientAtATime ==
  ASSUME OneSession
  PROVE  ClientsSpec => []StaffInOrder
BY OneAtATime, ClientsKeepAccounts, PTL

\* Type correctness of tokens and logins.
THEOREM ClientsTypeCorrect == ClientsSpec => []ClientsTypeOK
<1>1. ClientsInv => ClientsTypeOK
  BY DEF ClientsInv
<1> QED BY <1>1, ClientsInvariant, PTL

\* A token lives its time, whatever clock, key and restarts do.
THEOREM TokensExpire == ClientsSpec => []TokensLiveTheirTime
<1>1. ClientsInv => TokensLiveTheirTime
  <2> SUFFICES ASSUME ClientsInv, token # None,
                      NEW at, at = token.at, NEW iat, iat = token.iat, NEW exp, exp = token.exp
               PROVE  /\ Decodes(token) => /\ key = token.key
                                           /\ -2 < clock - at
                                           /\ clock - at < 2 * Lifetime
                      /\ key = token.key /\ 0 <= clock - at /\ clock - at + 2 <= 2 * Lifetime
                           => Decodes(token)
    BY DEF TokensLiveTheirTime
  <2>1. /\ at \in Nat
        /\ clock \in Nat
        /\ Lifetime \in Nat
        /\ iat = at \div 2
        /\ exp = (at + 2 * Lifetime) \div 2
    BY TokenBounds DEF ClientsInv, ClientsTypeOK, TokenHolds, Token, Clock
  <2>2. token.key # None
    BY NoneIsNoKey DEF ClientsInv, ClientsTypeOK, Token
  <2>3. Decodes(token) <=> key = token.key /\ 2 * iat <= clock /\ clock < 2 * exp
    BY <2>2 DEF Decodes, HasKey
  <2>4. 2 * iat <= at /\ at < 2 * iat + 2
    BY <2>1
  <2>5. 2 * exp <= at + 2 * Lifetime /\ at + 2 * Lifetime < 2 * exp + 2
    BY <2>1
  <2> QED BY <2>1, <2>3, <2>4, <2>5
<1> QED BY <1>1, ClientsInvariant, PTL

\* Who was inactive all through a login has no token from it.
THEOREM LoginsAreOfTheActive == ClientsSpec => []LoginIsForTheActive
<1>1. ClientsInv => LoginIsForTheActive
  BY DEF ClientsInv, TokenHolds, LoginIsForTheActive
<1> QED BY <1>1, ClientsInvariant, PTL
=============================================================================
