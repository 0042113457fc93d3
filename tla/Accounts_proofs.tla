--------------------------- MODULE Accounts_proofs ---------------------------
(***************************************************************************)
(* What holds of users and profiles for every number of sessions, without  *)
(* any lock: types, and the two unique indexes seen from the rows.  The    *)
(* argument: rows are never deleted, so that what a session read by id is  *)
(* still there when it commits; and an UPDATE writes neither an address    *)
(* nor the user of a profile.                                              *)
(***************************************************************************)
EXTENDS Accounts, TLAPS

\* A profile belongs to a user that exists: the foreign key of agents.user_id.
ProfilesHaveUsers == \A a \in Profiles : agents[a] # NoProfileRow => Exists(agents[a].user_id)

\* What the session q has read, and what it will write, names rows that exist.
NamesRows(q) ==
  /\ q.pc # "idle" /\ q.actor # None => q.me \in UserRow
  /\ q.pc = "read" =>
       \/ /\ q.op \in {"update_user", "create_profile"}
          /\ q.target \in Users
          /\ Exists(q.target)
       \/ /\ q.op \in {"update_status", "assign"}
          /\ q.target \in Profiles
          /\ agents[q.target] # NoProfileRow
          /\ q.first \in ProfileRow
          /\ q.first.user_id = agents[q.target].user_id
          /\ Exists(q.first.user_id)
  /\ q.pc = "decided" =>
       /\ q.plan \in Plan
       /\ q.plan.kind \in {"insert_profile", "update"} => Exists(q.plan.user)
       /\ q.plan.kind = "update" /\ q.plan.profile # None
            => agents[q.plan.profile] # NoProfileRow
       /\ q.plan.kind = "assign" => agents[q.plan.profile] # NoProfileRow

\* Rows are not deleted, and a profile stays with its user.
RowsStay ==
  /\ \A u \in Users : Exists(u) => Exists(u)'
  /\ \A a \in Profiles : agents[a] # NoProfileRow =>
       agents'[a] # NoProfileRow /\ agents'[a].user_id = agents[a].user_id

\* The inductive invariant.
AccountsInv ==
  /\ TypeOK
  /\ ProfilesHaveUsers
  /\ \A s \in Sessions : NamesRows(sessions[s])
  /\ EmailsAreUnique
  /\ OneProfilePerUser

-----------------------------------------------------------------------------
(***************************************************************************)
(* Rows and sessions                                                       *)
(***************************************************************************)

\* A user that exists is a row, and an absent one is not.
LEMMA UserRows ==
  ASSUME TypeOK
  PROVE  \A u \in Users : users[u] \in UserRow <=> Exists(u)
BY NoneIsNoId DEF TypeOK, UserRow, NoUser, Exists

\* The same of profiles.
LEMMA ProfileRows ==
  ASSUME TypeOK
  PROVE  \A a \in Profiles : agents[a] \in ProfileRow <=> agents[a] # NoProfileRow
BY NoneIsNoId DEF TypeOK, ProfileRow, NoProfileRow

\* A session in a request is a Session record.
LEMMA BusySession ==
  ASSUME TypeOK, NEW s \in Sessions, sessions[s].pc # "idle" \/ sessions[s] # Idle
  PROVE  sessions[s] \in Session
BY DEF TypeOK, Idle

\* While no row goes away, what a session names stays.
LEMMA NamesRowsStays ==
  ASSUME RowsStay, NEW q \in Session \cup {Idle}, NamesRows(q)
  PROVE  NamesRows(q)'
<1>1. q.plan \in Plan =>
        /\ q.plan.kind \in {"insert_profile", "update"} => q.plan.user \in Users
        /\ q.plan.kind = "update" /\ q.plan.profile # None => q.plan.profile \in Profiles
        /\ q.plan.kind = "assign" => q.plan.profile \in Profiles
  BY DEF Plan
<1>2. q.first \in ProfileRow => q.first.user_id \in Users
  BY DEF ProfileRow
<1> QED BY <1>1, <1>2 DEF NamesRows, RowsStay

\* A step that changes one session, and no row.
LEMMA SessionStep ==
  ASSUME AccountsInv, NEW s \in Sessions, NEW q \in Session \cup {Idle},
         sessions' = [sessions EXCEPT ![s] = q],
         NamesRows(q),
         UNCHANGED <<users, agents>>
  PROVE  AccountsInv'
<1>1. TypeOK'
  BY DEF AccountsInv, TypeOK
<1>2. ProfilesHaveUsers' /\ EmailsAreUnique' /\ OneProfilePerUser'
  BY DEF AccountsInv, ProfilesHaveUsers, EmailsAreUnique, OneProfilePerUser, Exists, ProfilesOf
<1>3. \A t \in Sessions : NamesRows(sessions[t])'
  <2> TAKE t \in Sessions
  <2>1. sessions'[t] = IF t = s THEN q ELSE sessions[t]
    BY DEF AccountsInv, TypeOK
  <2>2. NamesRows(sessions'[t])
    BY <2>1 DEF AccountsInv
  <2> QED BY <2>2 DEF NamesRows, Exists
<1> QED BY <1>1, <1>2, <1>3 DEF AccountsInv

-----------------------------------------------------------------------------
(***************************************************************************)
(* The steps of a request                                                  *)
(***************************************************************************)

\* The initial state satisfies the invariant.
LEMMA AccountsInitInv == Init => AccountsInv
BY NoneIsNoId
   DEF Init, AccountsInv, TypeOK, ProfilesHaveUsers, NamesRows, EmailsAreUnique,
       OneProfilePerUser, ProfilesOf, Exists, Idle, NoProfileRow

\* Authentication keeps the caller's row, and the command line has no caller.
LEMMA StartInv ==
  ASSUME AccountsInv, NEW s \in Sessions,
         \/ \E op \in Operations, u \in Users : Authenticate(s, op, u)
         \/ BeginBootstrap(s)
  PROVE  AccountsInv'
<1>1. PICK op \in Operations, actor \in Users \cup {None}, me \in UserRow \cup {NoUser} :
        /\ Start(s, op, actor, me)
        /\ actor # None => me \in UserRow
        /\ UNCHANGED <<users, agents>>
  <2>1. CASE \E op \in Operations, u \in Users : Authenticate(s, op, u)
    BY <2>1, NoneIsNoId
       DEF Authenticate, AccountsInv, TypeOK, NoUser
  <2>2. CASE BeginBootstrap(s)
    BY <2>2 DEF BeginBootstrap, Operations
  <2> QED BY <2>1, <2>2
<1> DEFINE q == [pc |-> "started", op |-> op, actor |-> actor, me |-> me,
                 target |-> None, first |-> None, plan |-> None]
<1>2. q \in Session
  BY DEF Session
<1>3. NamesRows(q)
  BY <1>1 DEF NamesRows
<1> QED BY <1>1, <1>2, <1>3, SessionStep DEF Start

\* The first read of a handler that makes two.
LEMMA ReadInv ==
  ASSUME AccountsInv, NEW s \in Sessions,
         \/ \E u \in Users : ReadUser(s, u)
         \/ \E a \in Profiles : ReadProfile(s, a)
  PROVE  AccountsInv'
<1>1. sessions[s] \in Session /\ NamesRows(sessions[s]) /\ sessions[s].pc = "started"
  BY BusySession DEF AccountsInv, ReadUser, ReadProfile
<1>2. CASE \E u \in Users : ReadUser(s, u)
  <2>1. PICK u \in Users : ReadUser(s, u)
    BY <1>2
  <2> DEFINE q == [sessions[s] EXCEPT !.pc = "read", !.target = u, !.first = Loaded(s, u)]
  <2>2. Loaded(s, u) \in UserRow
    BY <1>1, <2>1, UserRows, NoneIsNoId DEF Loaded, ReadUser, NamesRows, AccountsInv
  <2>3. q \in Session
    BY <1>1, <2>2 DEF Session
  <2>4. NamesRows(q)
    BY <1>1, <2>1 DEF NamesRows, ReadUser, Session
  <2> QED BY <2>1, <2>3, <2>4, SessionStep DEF ReadUser, Read
<1>3. CASE \E a \in Profiles : ReadProfile(s, a)
  <2>1. PICK a \in Profiles : ReadProfile(s, a)
    BY <1>3
  <2> DEFINE q == [sessions[s] EXCEPT !.pc = "read", !.target = a, !.first = agents[a]]
  <2>2. agents[a] \in ProfileRow /\ Exists(agents[a].user_id)
    BY <2>1, ProfileRows DEF ReadProfile, AccountsInv, ProfilesHaveUsers
  <2>3. q \in Session
    BY <1>1, <2>2 DEF Session
  <2>4. NamesRows(q)
    BY <1>1, <2>1, <2>2 DEF NamesRows, ReadProfile, Session
  <2> QED BY <2>1, <2>3, <2>4, SessionStep DEF ReadProfile, Read
<1> QED BY <1>2, <1>3

\* A plan that names rows that exist keeps the invariant.
LEMMA PlanInv ==
  ASSUME AccountsInv, NEW s \in Sessions, NEW plan \in Plan,
         sessions[s].pc # "idle",
         Decide(s, plan),
         plan.kind \in {"insert_profile", "update"} => Exists(plan.user),
         plan.kind = "update" /\ plan.profile # None => agents[plan.profile] # NoProfileRow,
         plan.kind = "assign" => agents[plan.profile] # NoProfileRow
  PROVE  AccountsInv'
<1> DEFINE q == [sessions[s] EXCEPT !.pc = "decided", !.plan = plan]
<1>1. sessions[s] \in Session /\ NamesRows(sessions[s])
  BY BusySession DEF AccountsInv
<1>2. q \in Session
  BY <1>1 DEF Session
<1>3. NamesRows(q)
  BY <1>1 DEF NamesRows, Session
<1> QED BY <1>2, <1>3, SessionStep DEF Decide

\* The second read of a handler, and its decision.
LEMMA DecideInv ==
  ASSUME AccountsInv, NEW s \in Sessions,
         \/ \E email \in Emails, role \in UserRole : DecideNewUser(s, email, role)
         \/ \E role \in UserRole \cup {None}, active \in BOOLEAN \cup {None} :
              DecideUserUpdate(s, role, active)
         \/ DecideNewProfile(s)
         \/ \E status \in AgentStatus : DecideStatus(s, status)
         \/ DecideAssignment(s)
  PROVE  AccountsInv'
<1>1. sessions[s].pc = "read" =>
        sessions[s] \in Session /\ NamesRows(sessions[s])
  BY BusySession DEF AccountsInv
<1>2. CASE \E email \in Emails, role \in UserRole : DecideNewUser(s, email, role)
  <2>1. PICK email \in Emails, role \in UserRole : DecideNewUser(s, email, role)
    BY <1>2
  <2> DEFINE plan == [kind |-> "insert_user", email |-> email, role |-> role]
  <2>2. plan \in Plan
    BY DEF Plan
  <2> QED BY <2>1, <2>2, PlanInv DEF DecideNewUser
<1>3. CASE \E role \in UserRole \cup {None}, active \in BOOLEAN \cup {None} :
             DecideUserUpdate(s, role, active)
  <2>1. PICK role \in UserRole \cup {None}, active \in BOOLEAN \cup {None} :
          DecideUserUpdate(s, role, active)
    BY <1>3
  <2> DEFINE u   == sessions[s].target
             row == sessions[s].first
             off == {a \in ProfilesOf(u) : active = FALSE}
             plan(a) == [kind |-> "update", user |-> u,
                         role |-> Dirty(role, row.role),
                         is_active |-> Dirty(active, row.is_active),
                         profile |-> a,
                         status |-> IF a = None THEN None
                                    ELSE Dirty("OFFLINE", agents[a].status)]
  <2>2. u \in Users /\ Exists(u)
    BY <1>1, <2>1 DEF DecideUserUpdate, NamesRows
  <2>3. PICK a \in IF off = {} THEN {None} ELSE off : Decide(s, plan(a))
    BY <2>1 DEF DecideUserUpdate
  <2>4. a # None => a \in Profiles /\ agents[a] # NoProfileRow
    BY <2>2, <2>3, NoneIsNoId DEF ProfilesOf, NoProfileRow
  <2>5. plan(a) \in Plan
    BY <2>2, <2>4 DEF Plan, Dirty, AgentStatus
  <2>6. plan(a).kind = "update" /\ plan(a).user = u /\ plan(a).profile = a
    OBVIOUS
  <2> QED BY <2>1, <2>2, <2>3, <2>4, <2>5, <2>6, PlanInv DEF DecideUserUpdate
<1>4. CASE DecideNewProfile(s)
  <2> DEFINE plan == [kind |-> "insert_profile", user |-> sessions[s].target]
  <2>1. sessions[s].target \in Users /\ Exists(sessions[s].target)
    BY <1>1, <1>4 DEF DecideNewProfile, NamesRows
  <2>2. plan \in Plan
    BY <2>1 DEF Plan
  <2> QED BY <1>4, <2>1, <2>2, PlanInv DEF DecideNewProfile
<1>5. CASE \E status \in AgentStatus : DecideStatus(s, status)
  <2>1. PICK status \in AgentStatus : DecideStatus(s, status)
    BY <1>5
  <2> DEFINE row  == sessions[s].first
             plan == [kind |-> "update", user |-> row.user_id, role |-> None,
                      is_active |-> None, profile |-> sessions[s].target,
                      status |-> Dirty(status, row.status)]
  <2>2. /\ sessions[s].target \in Profiles
        /\ agents[sessions[s].target] # NoProfileRow
        /\ row \in ProfileRow
        /\ Exists(row.user_id)
    BY <1>1, <2>1 DEF DecideStatus, NamesRows
  <2>3. plan \in Plan
    BY <2>2 DEF Plan, Dirty, ProfileRow
  <2> QED BY <2>1, <2>2, <2>3, PlanInv DEF DecideStatus
<1>6. CASE DecideAssignment(s)
  <2> DEFINE plan == [kind |-> "assign", profile |-> sessions[s].target]
  <2>1. sessions[s].target \in Profiles /\ agents[sessions[s].target] # NoProfileRow
    BY <1>1, <1>6 DEF DecideAssignment, NamesRows
  <2>2. plan \in Plan
    BY <2>1 DEF Plan
  <2> QED BY <1>6, <2>1, <2>2, PlanInv DEF DecideAssignment
<1> QED BY <1>2, <1>3, <1>4, <1>5, <1>6

\* A request that ends without a write.
LEMMA RollbackInv ==
  ASSUME AccountsInv, NEW s \in Sessions, Rollback(s) \/ CommitAssignment(s)
  PROVE  AccountsInv'
<1>1. NamesRows(Idle)
  BY DEF NamesRows, Idle
<1> QED BY <1>1, SessionStep DEF Rollback, CommitAssignment, Finish

-----------------------------------------------------------------------------
(***************************************************************************)
(* Commits                                                                 *)
(***************************************************************************)

\* A commit after which every row that was there is there, keeps what the other
\* sessions name and frees its own.
LEMMA CommitSessions ==
  ASSUME AccountsInv, NEW s \in Sessions, Finish(s), RowsStay
  PROVE  /\ sessions' \in [Sessions -> Session \cup {Idle}]
         /\ \A t \in Sessions : NamesRows(sessions[t])'
<1>1. sessions \in [Sessions -> Session \cup {Idle}]
  BY DEF AccountsInv, TypeOK
<1>2. sessions' \in [Sessions -> Session \cup {Idle}]
  BY <1>1 DEF Finish
<1>3. \A t \in Sessions : NamesRows(sessions[t])'
  <2> TAKE t \in Sessions
  <2>1. sessions'[t] = IF t = s THEN Idle ELSE sessions[t]
    BY <1>1 DEF Finish
  <2>2. CASE t = s
    BY <2>1, <2>2 DEF NamesRows, Idle
  <2>3. CASE t # s
    <3>1. NamesRows(sessions[t])
      BY DEF AccountsInv
    <3> DEFINE q == sessions[t]
    <3> QED BY <1>1, <2>1, <2>3, <3>1, NamesRowsStays DEF NamesRows
  <2> QED BY <2>2, <2>3
<1> QED BY <1>2, <1>3

\* A registration or the bootstrap command: the index on users.email lets only a
\* new address in.
LEMMA NewUserInv ==
  ASSUME AccountsInv, NEW s \in Sessions, NEW u \in Users, CommitNewUser(s, u)
  PROVE  AccountsInv'
<1> DEFINE row == [email |-> sessions[s].plan.email, role |-> sessions[s].plan.role,
                   is_active |-> TRUE]
<1>1. /\ TypeOK
      /\ users' = [users EXCEPT ![u] = row]
      /\ ~Exists(u)
      /\ UNCHANGED agents
      /\ Finish(s)
      /\ \A v \in Users : users[v].email # row.email
  BY DEF CommitNewUser, EmailFree, EmailTaken, AccountsInv
<1>2. row \in UserRow
  <2>1. sessions[s].plan \in Plan /\ sessions[s].plan.kind = "insert_user"
    BY DEF CommitNewUser, AccountsInv, NamesRows
  <2> QED BY <2>1 DEF Plan, UserRow
<1>3. \A v \in Users : users'[v] = IF v = u THEN row ELSE users[v]
  BY <1>1 DEF TypeOK
<1>4. row # NoUser
  BY <1>2, NoneIsNoId DEF UserRow, NoUser
<1>5. \A v \in Users : Exists(v) => Exists(v)'
  BY <1>3, <1>4 DEF Exists
<1>6. /\ sessions' \in [Sessions -> Session \cup {Idle}]
      /\ \A t \in Sessions : NamesRows(sessions[t])'
  <2>1. RowsStay
    BY <1>1, <1>5 DEF RowsStay
  <2> QED BY <1>1, <2>1, CommitSessions
<1>7. TypeOK'
  BY <1>1, <1>2, <1>6 DEF TypeOK
<1>8. ProfilesHaveUsers' /\ OneProfilePerUser'
  <2>1. \A a \in Profiles : agents[a] # NoProfileRow => agents[a].user_id \in Users
    BY <1>1, ProfileRows DEF ProfileRow
  <2> QED BY <1>1, <1>5, <2>1
         DEF AccountsInv, ProfilesHaveUsers, OneProfilePerUser, ProfilesOf
<1>9. EmailsAreUnique'
  BY <1>1, <1>3 DEF AccountsInv, EmailsAreUnique, Exists
<1> QED BY <1>6, <1>7, <1>8, <1>9 DEF AccountsInv

\* A profile: the index on agents.user_id lets in only a user without one.
LEMMA NewProfileInv ==
  ASSUME AccountsInv, NEW s \in Sessions, NEW a \in Profiles, CommitNewProfile(s, a)
  PROVE  AccountsInv'
<1> DEFINE u   == sessions[s].plan.user
           row == [user_id |-> u, status |-> "OFFLINE"]
<1>1. /\ TypeOK
      /\ agents' = [agents EXCEPT ![a] = row]
      /\ UNCHANGED users
      /\ Finish(s)
      /\ \A b \in Profiles : agents[b].user_id # u
  BY DEF CommitNewProfile, UserFree, ProfilesOf, AccountsInv
<1>2. u \in Users /\ Exists(u)
  <2>1. sessions[s].plan \in Plan /\ sessions[s].plan.kind = "insert_profile" /\ Exists(u)
    BY DEF CommitNewProfile, AccountsInv, NamesRows
  <2> QED BY <2>1 DEF Plan
<1>3. row \in ProfileRow /\ row # NoProfileRow
  BY <1>2, NoneIsNoId DEF ProfileRow, NoProfileRow, AgentStatus
<1>4. \A b \in Profiles : agents'[b] = IF b = a THEN row ELSE agents[b]
  BY <1>1 DEF TypeOK
<1>5. agents[a] = NoProfileRow
  BY DEF CommitNewProfile
<1>6. /\ sessions' \in [Sessions -> Session \cup {Idle}]
      /\ \A t \in Sessions : NamesRows(sessions[t])'
  <2>1. \A b \in Profiles : agents[b] # NoProfileRow =>
          agents'[b] # NoProfileRow /\ agents'[b].user_id = agents[b].user_id
    BY <1>4, <1>5
  <2>2. RowsStay
    BY <1>1, <2>1 DEF RowsStay, Exists
  <2> QED BY <1>1, <2>2, CommitSessions
<1>7. TypeOK'
  BY <1>1, <1>3, <1>6 DEF TypeOK
<1>8. ProfilesHaveUsers' /\ EmailsAreUnique'
  BY <1>1, <1>2, <1>4 DEF AccountsInv, ProfilesHaveUsers, EmailsAreUnique, Exists
<1>9. OneProfilePerUser'
  BY <1>1, <1>4 DEF AccountsInv, OneProfilePerUser, ProfilesOf
<1> QED BY <1>6, <1>7, <1>8, <1>9 DEF AccountsInv

\* An UPDATE of a user and its profile changes neither the address nor the user
\* the profile belongs to.
LEMMA UpdateInv ==
  ASSUME AccountsInv, NEW s \in Sessions, CommitUpdate(s)
  PROVE  AccountsInv'
<1> DEFINE plan == sessions[s].plan
<1>1. /\ TypeOK
      /\ users' = [users EXCEPT ![plan.user] = WrittenUser(@, plan)]
      /\ agents' = [a \in Profiles |->
           IF a = plan.profile THEN WrittenProfile(agents[a], plan) ELSE agents[a]]
      /\ Finish(s)
  BY DEF CommitUpdate, AccountsInv
<1>2. /\ plan \in Plan
      /\ plan.kind = "update"
      /\ Exists(plan.user)
      /\ plan.profile # None => agents[plan.profile] # NoProfileRow
  BY DEF CommitUpdate, AccountsInv, NamesRows
<1>3. /\ plan.user \in Users
      /\ plan.role \in UserRole \cup {None}
      /\ plan.is_active \in BOOLEAN \cup {None}
      /\ plan.profile \in Profiles \cup {None}
      /\ plan.status \in AgentStatus \cup {None}
  BY <1>2 DEF Plan
<1>4. \A row \in UserRow : /\ WrittenUser(row, plan) \in UserRow
                           /\ WrittenUser(row, plan).email = row.email
  BY <1>3 DEF WrittenUser, Written, UserRow
<1>5. \A row \in ProfileRow : /\ WrittenProfile(row, plan) \in ProfileRow
                              /\ WrittenProfile(row, plan).user_id = row.user_id
  BY <1>3 DEF WrittenProfile, Written, ProfileRow
<1>6. \A v \in Users : IF Exists(v) THEN /\ users'[v] \in UserRow
                                         /\ users'[v].email = users[v].email
                                    ELSE users'[v] = users[v]
  BY <1>1, <1>2, <1>3, <1>4, UserRows DEF TypeOK
<1>7. \A a \in Profiles : IF agents[a] # NoProfileRow
                          THEN /\ agents'[a] \in ProfileRow
                               /\ agents'[a].user_id = agents[a].user_id
                          ELSE agents'[a] = agents[a]
  <2> SUFFICES ASSUME NEW a \in Profiles
               PROVE  IF agents[a] # NoProfileRow
                      THEN /\ agents'[a] \in ProfileRow
                           /\ agents'[a].user_id = agents[a].user_id
                      ELSE agents'[a] = agents[a]
    OBVIOUS
  <2>1. agents[a] # NoProfileRow => agents[a] \in ProfileRow
    BY <1>1 DEF TypeOK
  <2>2. agents'[a] = IF a = plan.profile THEN WrittenProfile(agents[a], plan)
                                         ELSE agents[a]
    BY <1>1
  <2>3. a = plan.profile => agents[a] # NoProfileRow
    BY <1>2, NoneIsNoId
  <2>4. agents[a] # NoProfileRow =>
          /\ WrittenProfile(agents[a], plan) \in ProfileRow
          /\ WrittenProfile(agents[a], plan).user_id = agents[a].user_id
    BY <2>1, <1>5
  <2> HIDE DEF plan
  <2> QED BY <2>1, <2>2, <2>3, <2>4
<1>8. UserRow \cap {NoUser} = {} /\ ProfileRow \cap {NoProfileRow} = {}
  BY NoneIsNoId DEF UserRow, NoUser, ProfileRow, NoProfileRow
<1>9. \A v \in Users : Exists(v) <=> Exists(v)'
  BY <1>6, <1>8 DEF Exists
<1>10. \A a \in Profiles : agents[a] # NoProfileRow <=> agents'[a] # NoProfileRow
  BY <1>7, <1>8
<1>11. /\ sessions' \in [Sessions -> Session \cup {Idle}]
       /\ \A t \in Sessions : NamesRows(sessions[t])'
  <2>1. RowsStay
    BY <1>7, <1>9, <1>10 DEF RowsStay
  <2> QED BY <1>1, <2>1, CommitSessions
<1>12. TypeOK'
  <2>1. users' \in [Users -> UserRow \cup {NoUser}]
    BY <1>1, <1>6 DEF TypeOK, Exists
  <2>2. agents' \in [Profiles -> ProfileRow \cup {NoProfileRow}]
    BY <1>1, <1>7 DEF TypeOK
  <2> QED BY <1>11, <2>1, <2>2 DEF TypeOK
<1>13. ProfilesHaveUsers'
  <2>1. \A a \in Profiles : agents[a] # NoProfileRow => agents[a].user_id \in Users
    BY <1>1, ProfileRows DEF ProfileRow
  <2> QED BY <1>7, <1>9, <1>10, <2>1 DEF AccountsInv, ProfilesHaveUsers
<1>14. EmailsAreUnique'
  BY <1>6, <1>9 DEF AccountsInv, EmailsAreUnique
<1>15. OneProfilePerUser'
  <2>1. \A a \in Profiles : agents'[a].user_id = agents[a].user_id
    BY <1>7
  <2> QED BY <2>1 DEF AccountsInv, OneProfilePerUser, ProfilesOf
<1> QED BY <1>11, <1>12, <1>13, <1>14, <1>15 DEF AccountsInv

\* Every step keeps the invariant.
LEMMA AccountsNextInv ==
  ASSUME AccountsInv, [Next]_vars
  PROVE  AccountsInv'
<1>1. CASE UNCHANGED vars
  BY <1>1 DEF vars, AccountsInv, TypeOK, ProfilesHaveUsers, NamesRows, EmailsAreUnique,
              OneProfilePerUser, ProfilesOf, Exists
<1>2. CASE Next
  BY <1>2, StartInv, ReadInv, DecideInv, NewUserInv, NewProfileInv, UpdateInv, RollbackInv
     DEF Next, Serve
<1> QED BY <1>1, <1>2

\* No step removes a row, or gives a profile to another user.
LEMMA StepsKeepRows ==
  ASSUME AccountsInv, [Next]_vars
  PROVE  RowsStay
<1>1. CASE UNCHANGED <<users, agents>>
  BY <1>1 DEF RowsStay, Exists
<1>2. ASSUME NEW s \in Sessions, NEW u \in Users, CommitNewUser(s, u)
      PROVE  RowsStay
  <2>1. \A v \in Users : v # u => users'[v] = users[v]
    BY <1>2 DEF CommitNewUser, AccountsInv, TypeOK
  <2> QED BY <1>2, <2>1 DEF CommitNewUser, RowsStay, Exists
<1>3. ASSUME NEW s \in Sessions, NEW a \in Profiles, CommitNewProfile(s, a)
      PROVE  RowsStay
  <2>1. \A b \in Profiles : b # a => agents'[b] = agents[b]
    BY <1>3 DEF CommitNewProfile, AccountsInv, TypeOK
  <2> QED BY <1>3, <2>1 DEF CommitNewProfile, RowsStay, Exists
<1>4. ASSUME NEW s \in Sessions, CommitUpdate(s)
      PROVE  RowsStay
  <2>1. PICK p : p = sessions[s].plan
    OBVIOUS
  <2>2. /\ \A v \in Users : users'[v] = IF v = p.user THEN WrittenUser(users[v], p)
                                         ELSE users[v]
        /\ \A a \in Profiles : agents'[a] = IF a = p.profile THEN WrittenProfile(agents[a], p)
                                             ELSE agents[a]
    BY <1>4, <2>1 DEF CommitUpdate, AccountsInv, TypeOK
  <2>3. \A row \in UserRow : WrittenUser(row, p).email = row.email
    BY DEF WrittenUser, UserRow
  <2>4. \A v \in Users : Exists(v) => Exists(v)'
    <3> SUFFICES ASSUME NEW v \in Users, Exists(v)
                 PROVE  users'[v] # NoUser
      BY DEF Exists
    <3>1. users[v] \in UserRow
      BY UserRows DEF AccountsInv
    <3>2. users'[v].email \in Emails
      BY <2>2, <2>3, <3>1 DEF UserRow
    <3> QED BY <3>2, NoneIsNoId DEF NoUser
  <2>5. \A row \in ProfileRow : /\ WrittenProfile(row, p).user_id = row.user_id
                                /\ row.user_id \in Users
    BY DEF WrittenProfile, ProfileRow
  <2>6. \A a \in Profiles : agents[a] # NoProfileRow =>
          agents'[a] # NoProfileRow /\ agents'[a].user_id = agents[a].user_id
    <3> SUFFICES ASSUME NEW a \in Profiles, agents[a] # NoProfileRow
                 PROVE  agents'[a] # NoProfileRow /\ agents'[a].user_id = agents[a].user_id
      OBVIOUS
    <3>1. agents[a] \in ProfileRow
      BY ProfileRows DEF AccountsInv
    <3>2. agents'[a].user_id = agents[a].user_id /\ agents'[a].user_id \in Users
      BY <2>2, <2>5, <3>1
    <3> QED BY <3>2, NoneIsNoId DEF NoProfileRow
  <2> QED BY <2>4, <2>6 DEF RowsStay
<1> QED BY <1>1, <1>2, <1>3, <1>4
        DEF Next, Serve, vars, Authenticate, BeginBootstrap, ReadUser, ReadProfile, Decide,
            DecideNewUser, DecideUserUpdate, DecideNewProfile, DecideStatus,
            DecideAssignment, CommitAssignment, Rollback

-----------------------------------------------------------------------------
(***************************************************************************)
(* The theorems                                                            *)
(***************************************************************************)

\* The inductive invariant holds in every state.
THEOREM AccountsInvariant == Spec => []AccountsInv
<1>1. AccountsInv /\ [Next]_vars => AccountsInv'
  BY AccountsNextInv
<1> QED BY <1>1, AccountsInitInv, PTL DEF Spec

\* Type correctness: a request never writes NULL into a column that has none, nor
\* to a row that is not there.
THEOREM AccountsTypeCorrect == Spec => []TypeOK
<1>1. AccountsInv => TypeOK
  BY DEF AccountsInv
<1> QED BY <1>1, AccountsInvariant, PTL

\* No two users share an address, however many registrations race.
THEOREM EmailsUnique == Spec => []EmailsAreUnique
<1>1. AccountsInv => EmailsAreUnique
  BY DEF AccountsInv
<1> QED BY <1>1, AccountsInvariant, PTL

\* No user gets two profiles, however many managers create one.
THEOREM ProfilesUnique == Spec => []OneProfilePerUser
<1>1. AccountsInv => OneProfilePerUser
  BY DEF AccountsInv
<1> QED BY <1>1, AccountsInvariant, PTL
=============================================================================
