--------------------------- MODULE ConcurrentDesk ---------------------------
(***************************************************************************)
(* The desk as it is served: requests interleave, each in a session and a  *)
(* transaction of its own.  A request that changes a case                  *)
(*   - reads the row its path names, if that is an escalation or a call,   *)
(*     without a lock, only to learn the conversation;                     *)
(*   - takes the row lock of the conversation, waiting for its holder;     *)
(*   - reads the rows it decides on again, checks its guards and flushes;  *)
(*   - commits what it flushed, or rolls back.                             *)
(* Nothing of a request is visible to others before its commit, and it may *)
(* roll back at every point: a guard that does not hold raises, and so do  *)
(* a client that disconnects and a server that stops.                      *)
(***************************************************************************)
EXTENDS SerialDesk

CONSTANT Requests   \* requests that may be in flight at once

VARIABLE requests

vars == <<cases, requests>>

\* What a request is about: a conversation to create, a conversation (to
\* assign, to move, to escalate, to call on), its call, or an escalation of it.
Targets == {"new", "conversation", "call"} \cup Escalations

\* rows is what the session holds of the case: the row read before the lock
\* while it waits, the case it will commit once it has decided.
Request ==
  [pc           : {"waiting", "locked", "decided"},
   actor        : Actors,
   conversation : Conversations,
   target       : Targets,
   rows         : Case]

\* No request in this slot.
Idle == [pc |-> "idle"]

ConcurrentTypeOK ==
  /\ TypeOK
  /\ requests \in [Requests -> Request \cup {Idle}]

ConcurrentInit ==
  /\ Init
  /\ requests = [r \in Requests |-> Idle]

InFlight(r) == requests[r].pc # "idle"

\* The request holds the row of conversation c: locked, or inserted and not
\* yet committed.
Holds(r, c) ==
  /\ requests[r].pc \in {"locked", "decided"}
  /\ requests[r].conversation = c

Start(r, pc, actor, c, target, rows) ==
  requests' = [requests EXCEPT ![r] =
    [pc |-> pc, actor |-> actor, conversation |-> c,
     target |-> target, rows |-> rows]]

-----------------------------------------------------------------------------
\* A new conversation needs no lock: the id it gets is nobody else's.
Insert(r, actor, c, channel) ==
  /\ ~InFlight(r)
  /\ cases[c].conversation.status = "ABSENT"
  /\ \A q \in Requests : ~Holds(q, c)
  /\ Start(r, "decided", actor, c, "new", Created(channel))
  /\ UNCHANGED cases

\* The row of the path, read without a lock.  A request for a row that does
\* not exist is answered 404 and leaves no trace.
Begin(r, actor, c, target) ==
  /\ ~InFlight(r)
  /\ cases[c].conversation.status # "ABSENT"
  /\ \/ /\ target = "conversation"
        /\ Start(r, "waiting", actor, c, target, NoCase)
     \/ /\ target = "call"
        /\ cases[c].call.status # "ABSENT"
        /\ Start(r, "waiting", actor, c, target,
                 [NoCase EXCEPT !.call = cases[c].call])
     \/ /\ target \in Escalations
        /\ cases[c].escalations[target].status # "ABSENT"
        /\ Start(r, "waiting", actor, c, target,
                 [NoCase EXCEPT !.escalations[target] = cases[c].escalations[target]])
  /\ UNCHANGED cases

\* Faulty variant of MayLock: a SELECT without FOR UPDATE.
MayRead(r) == TRUE

\* SELECT ... FOR UPDATE returns when no other transaction holds the row.
MayLock(r) == \A q \in Requests \ {r} : ~Holds(q, requests[r].conversation)

AcquireLock(r) ==
  /\ requests[r].pc = "waiting"
  /\ MayLock(r)
  /\ requests' = [requests EXCEPT ![r].pc = "locked"]
  /\ UNCHANGED cases

\* Faulty variant of Loaded: without populate_existing the session keeps the
\* escalation or the call it read before it had the lock.
LoadedStale(r) ==
  LET k == cases[requests[r].conversation]
      t == requests[r].target
  IN  CASE t \in Escalations -> [k EXCEPT !.escalations[t] = requests[r].rows.escalations[t]]
        [] t = "call"        -> [k EXCEPT !.call = requests[r].rows.call]
        [] OTHER             -> k

\* The rows the handler decides on.  populate_existing overwrites what the
\* session read before it had the lock.
Loaded(r) == cases[requests[r].conversation]

Answer(r, k) ==
  requests' = [requests EXCEPT ![r] = [@ EXCEPT !.pc = "decided", !.rows = k]]

DecideAssign(r) ==
  \E a \in Agents, available \in SUBSET Agents :
    /\ MayAssign(Loaded(r), requests[r].actor, a, available)
    /\ Answer(r, Assign(Loaded(r), a))

DecideTransition(r) ==
  \E s \in ConversationStatus :
    /\ MayTransition(Loaded(r), requests[r].actor, s)
    /\ Answer(r, Transition(Loaded(r), s))

DecideEscalation(r) ==
  \E e \in Escalations, a \in Agents \cup {None}, p \in Priorities,
     available \in SUBSET Agents :
    /\ MayEscalate(Loaded(r), requests[r].actor, e, a, available)
    /\ Answer(r, Escalate(Loaded(r), e, a, p))

DecideCall(r) ==
  \E a \in Agents \cup {None}, available \in SUBSET Agents :
    /\ MayCreateCall(Loaded(r), requests[r].actor, a, available)
    /\ Answer(r, CreateCall(Loaded(r), a))

DecideCallUpdate(r) ==
  \E s \in CallStatus :
    /\ MayUpdateCall(Loaded(r), requests[r].actor, s)
    /\ Answer(r, UpdateCall(Loaded(r), s))

DecideEscalationUpdate(r) ==
  \E changes \in EscalationUpdate, available \in SUBSET Agents :
    LET e == requests[r].target IN
    /\ MayUpdateEscalation(Loaded(r), requests[r].actor, e, changes, available)
    /\ Answer(r, UpdateEscalation(Loaded(r), e, changes))

Decide(r) ==
  /\ requests[r].pc = "locked"
  /\ \/ /\ requests[r].target = "conversation"
        /\ \/ DecideAssign(r)
           \/ DecideTransition(r)
           \/ DecideEscalation(r)
           \/ DecideCall(r)
     \/ /\ requests[r].target = "call"
        /\ DecideCallUpdate(r)
     \/ /\ requests[r].target \in Escalations
        /\ DecideEscalationUpdate(r)
  /\ UNCHANGED cases

\* What get_db_session does when the handler returned, and the end of the
\* transaction: the lock goes with it.
Commit(r) ==
  /\ requests[r].pc = "decided"
  /\ Put(requests[r].conversation, requests[r].rows)
  /\ requests' = [requests EXCEPT ![r] = Idle]

\* Faulty variant of Rollback: a handler that raises leaves its transaction open.
RollbackWhenUnlocked(r) ==
  /\ requests[r].pc = "waiting"
  /\ requests' = [requests EXCEPT ![r] = Idle]
  /\ UNCHANGED cases

Rollback(r) ==
  /\ InFlight(r)
  /\ requests' = [requests EXCEPT ![r] = Idle]
  /\ UNCHANGED cases

ConcurrentNext ==
  \E r \in Requests :
    \/ \E actor \in Actors, c \in Conversations :
         \/ \E channel \in ConversationChannel : Insert(r, actor, c, channel)
         \/ \E target \in Targets : Begin(r, actor, c, target)
    \/ AcquireLock(r)
    \/ Decide(r)
    \/ Commit(r)
    \/ Rollback(r)

ConcurrentSpec == ConcurrentInit /\ [][ConcurrentNext]_vars

-----------------------------------------------------------------------------
\* A handler that has its lock answers or raises, and the session then ends;
\* a waiting SELECT ... FOR UPDATE is served in the order of the database's
\* lock queue, so it is not passed over for ever.  Nobody has to send requests.
Fairness ==
  \A r \in Requests :
    /\ SF_vars(AcquireLock(r))
    /\ WF_vars(requests[r].pc \in {"locked", "decided"}
               /\ (Decide(r) \/ Commit(r) \/ Rollback(r)))

FairSpec == ConcurrentSpec /\ Fairness

-----------------------------------------------------------------------------
\* k2 is an answer the handlers of target may give actor on the case k.
Handled(k, k2, actor, target) ==
  \/ /\ target = "new"
     /\ k.conversation.status = "ABSENT"
     /\ \E channel \in ConversationChannel : k2 = Created(channel)
  \/ /\ target = "conversation"
     /\ \/ \E a \in Agents, available \in SUBSET Agents :
             MayAssign(k, actor, a, available) /\ k2 = Assign(k, a)
        \/ \E s \in ConversationStatus :
             MayTransition(k, actor, s) /\ k2 = Transition(k, s)
        \/ \E e \in Escalations, a \in Agents \cup {None}, p \in Priorities,
              available \in SUBSET Agents :
             MayEscalate(k, actor, e, a, available) /\ k2 = Escalate(k, e, a, p)
        \/ \E a \in Agents \cup {None}, available \in SUBSET Agents :
             MayCreateCall(k, actor, a, available) /\ k2 = CreateCall(k, a)
  \/ /\ target = "call"
     /\ \E s \in CallStatus : MayUpdateCall(k, actor, s) /\ k2 = UpdateCall(k, s)
  \/ /\ target \in Escalations
     /\ \E changes \in EscalationUpdate, available \in SUBSET Agents :
          /\ MayUpdateEscalation(k, actor, target, changes, available)
          /\ k2 = UpdateEscalation(k, target, changes)

\* What a request decided before its commit is still what its handler would
\* answer: no guard it checked, on whatever row, has been undone meanwhile.
DecisionsStayValid ==
  \A r \in Requests : requests[r].pc = "decided" =>
    Handled(cases[requests[r].conversation], requests[r].rows,
            requests[r].actor, requests[r].target)

\* Every behaviour of the concurrent desk is, read by its commits, one of the
\* desk that serves one request at a time: no lost update, no stale guard, no
\* half of a request.
Serializable == Spec

\* r commits a change to a case that existed.
Changes(r) ==
  /\ requests[r].pc = "decided"
  /\ requests[r].target # "new"
  /\ LET c == requests[r].conversation IN cases'[c] # cases[c]

\* Whoever changes a case is responsible for it when the change takes effect,
\* not only when the request was sent: a manager, the agent the conversation is
\* assigned to, or the one its escalation is assigned to.
OnlyTheResponsibleWrites ==
  [][\A r \in Requests : Changes(r) =>
       LET k     == cases[requests[r].conversation]
           actor == requests[r].actor
       IN  \/ actor = Manager
           \/ /\ actor \in Agents
              /\ \/ k.conversation.assigned_agent_id = actor
                 \/ /\ requests[r].target \in Escalations
                    /\ k.escalations[requests[r].target].assigned_agent_id = actor]_vars

\* No request waits for a conversation, or holds it, for ever.
RequestsFinish == \A r \in Requests : InFlight(r) ~> ~InFlight(r)
=============================================================================
