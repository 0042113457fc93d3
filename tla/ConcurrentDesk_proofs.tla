------------------------ MODULE ConcurrentDesk_proofs ------------------------
(***************************************************************************)
(* Requests that interleave behave as if they ran one at a time, for every *)
(* number of requests and conversations.  The argument: a request holds    *)
(* the row of its conversation from before it reads until after it writes, *)
(* so what it decided is still what its handler would answer when it       *)
(* commits, and its commit is a step of the serial desk.                   *)
(***************************************************************************)
EXTENDS ConcurrentDesk, SerialDesk_proofs

\* A conversation has one holder at most.
LocksExclude ==
  \A q, r \in Requests : \A c \in Conversations :
    Holds(q, c) /\ Holds(r, c) => q = r

\* The inductive invariant.
ConcurrentInv == ConcurrentTypeOK /\ LocksExclude /\ DecisionsStayValid

-----------------------------------------------------------------------------
(***************************************************************************)
(* Requests                                                                *)
(***************************************************************************)

\* A slot that is in flight holds a request.
LEMMA InFlightIsRequest ==
  ASSUME ConcurrentTypeOK, NEW r \in Requests, requests[r].pc # "idle"
  PROVE  requests[r] \in Request
BY DEF ConcurrentTypeOK, Idle

\* What a handler of the desk answers is a well-formed case.
LEMMA HandledType ==
  ASSUME NEW k \in Case, NEW k2, NEW actor, NEW target, Handled(k, k2, actor, target)
  PROVE  k2 \in Case
BY CreatedType, AssignType, TransitionType, EscalateType, UpdateEscalationType,
   CreateCallType, UpdateCallType
   DEF Handled

\* Whom the handlers of an existing case answer with a change: those who are
\* responsible for it.
LEMMA HandledResponsible ==
  ASSUME NEW k \in Case, NEW k2, NEW actor \in Actors, NEW target,
         Handled(k, k2, actor, target), target # "new"
  PROVE  \/ actor = Manager
         \/ /\ actor \in Agents
            /\ \/ k.conversation.assigned_agent_id = actor
               \/ /\ target \in Escalations
                  /\ k.escalations[target].assigned_agent_id = actor
BY DEF Handled, MayAssign, MayTransition, MayEscalate, MayCreateCall, MayUpdateCall,
       MayUpdateEscalation, AuthorizeChange, ProfileOf

\* A slot that a step of r sets to a request in pc, while the others keep theirs.
LEMMA SlotsAfter ==
  ASSUME ConcurrentTypeOK, NEW r \in Requests, NEW q,
         requests' = [requests EXCEPT ![r] = q]
  PROVE  \A s \in Requests : requests'[s] = IF s = r THEN q ELSE requests[s]
BY DEF ConcurrentTypeOK

\* The initial state satisfies the invariant.
LEMMA ConcurrentInitInv == ConcurrentInit => ConcurrentInv
BY NoCaseType DEF ConcurrentInit, Init, ConcurrentInv, ConcurrentTypeOK, TypeOK,
   LocksExclude, DecisionsStayValid, Holds, Idle

-----------------------------------------------------------------------------
(***************************************************************************)
(* Steps that leave the cases alone                                        *)
(***************************************************************************)

\* A step of r that changes no case and leaves r idle, waiting or decided on an
\* answer its handler gives keeps the invariant, as long as r holds no row that
\* another request holds.
LEMMA StepOfOne ==
  ASSUME ConcurrentInv, NEW r \in Requests, NEW q \in Request \cup {Idle},
         requests' = [requests EXCEPT ![r] = q], UNCHANGED cases,
         q.pc \in {"locked", "decided"} =>
           \A s \in Requests \ {r} : ~Holds(s, q.conversation),
         q.pc = "decided" =>
           Handled(cases[q.conversation], q.rows, q.actor, q.target)
  PROVE  ConcurrentInv'
<1>1. \A s \in Requests : requests'[s] = IF s = r THEN q ELSE requests[s]
  BY SlotsAfter DEF ConcurrentInv
<1>2. ConcurrentTypeOK'
  BY DEF ConcurrentInv, ConcurrentTypeOK, TypeOK
<1>3. LocksExclude'
  BY <1>1 DEF ConcurrentInv, LocksExclude, Holds
<1>4. DecisionsStayValid'
  BY <1>1 DEF ConcurrentInv, DecisionsStayValid
<1> QED BY <1>2, <1>3, <1>4 DEF ConcurrentInv

\* Inserting a conversation keeps the invariant.
LEMMA InsertInv ==
  ASSUME ConcurrentInv, NEW r \in Requests, NEW actor \in Actors,
         NEW c \in Conversations, NEW channel \in ConversationChannel,
         Insert(r, actor, c, channel)
  PROVE  ConcurrentInv'
<1> DEFINE q == [pc |-> "decided", actor |-> actor, conversation |-> c,
                 target |-> "new", rows |-> Created(channel)]
<1>1. q \in Request
  BY CreatedType DEF Request, Targets
<1>2. Handled(cases[c], Created(channel), actor, "new")
  BY DEF Insert, Handled
<1> QED BY <1>1, <1>2, StepOfOne DEF Insert, Start

\* Beginning a request keeps the invariant: it holds no row yet.
LEMMA BeginInv ==
  ASSUME ConcurrentInv, NEW r \in Requests, NEW actor \in Actors,
         NEW c \in Conversations, NEW target \in Targets,
         Begin(r, actor, c, target)
  PROVE  ConcurrentInv'
<1> DEFINE q(rows) == [pc |-> "waiting", actor |-> actor, conversation |-> c,
                       target |-> target, rows |-> rows]
<1>1. cases[c] \in Case
  BY DEF ConcurrentInv, ConcurrentTypeOK, TypeOK
<1>2. /\ NoCase \in Case
      /\ [NoCase EXCEPT !.call = cases[c].call] \in Case
      /\ target \in Escalations =>
           [NoCase EXCEPT !.escalations[target] = cases[c].escalations[target]] \in Case
  BY <1>1, NoCaseType DEF Case
<1>3. PICK rows \in Case : requests' = [requests EXCEPT ![r] = q(rows)]
  BY <1>2 DEF Begin, Start
<1>4. q(rows) \in Request
  BY DEF Request
<1> QED BY <1>3, <1>4, StepOfOne DEF Begin

\* Taking the lock keeps the invariant: nobody else holds the row.
LEMMA AcquireLockInv ==
  ASSUME ConcurrentInv, NEW r \in Requests, AcquireLock(r)
  PROVE  ConcurrentInv'
<1> DEFINE q == [requests[r] EXCEPT !.pc = "locked"]
<1>1. requests[r] \in Request
  BY InFlightIsRequest DEF AcquireLock, ConcurrentInv
<1>2. q \in Request /\ q.pc = "locked" /\ q.conversation = requests[r].conversation
  BY <1>1 DEF Request
<1>3. requests' = [requests EXCEPT ![r] = q]
  BY DEF AcquireLock
<1> QED BY <1>2, <1>3, StepOfOne DEF AcquireLock, MayLock

\* Deciding keeps the invariant: the answer is one the handler gives now, on rows
\* only r holds.
LEMMA DecideInv ==
  ASSUME ConcurrentInv, NEW r \in Requests, Decide(r)
  PROVE  ConcurrentInv'
<1> DEFINE k == cases[requests[r].conversation]
<1>1. requests[r] \in Request /\ requests[r].pc = "locked"
  BY InFlightIsRequest DEF Decide, ConcurrentInv
<1>2. k \in Case
  BY <1>1 DEF ConcurrentInv, ConcurrentTypeOK, TypeOK, Request
<1>3. PICK k2 : /\ Handled(k, k2, requests[r].actor, requests[r].target)
                /\ Answer(r, k2)
  BY DEF Decide, Handled, Loaded, DecideAssign, DecideTransition, DecideEscalation,
         DecideCall, DecideCallUpdate, DecideEscalationUpdate
<1>4. k2 \in Case
  BY <1>2, <1>3, HandledType
<1> DEFINE q == [requests[r] EXCEPT !.pc = "decided", !.rows = k2]
<1>5. /\ q \in Request
      /\ q.conversation = requests[r].conversation
      /\ q.actor = requests[r].actor
      /\ q.target = requests[r].target
      /\ q.rows = k2
  BY <1>1, <1>4 DEF Request
<1>6. requests' = [requests EXCEPT ![r] = q]
  BY <1>3 DEF Answer
<1>7. \A s \in Requests \ {r} : ~Holds(s, requests[r].conversation)
  BY <1>1 DEF ConcurrentInv, LocksExclude, Holds, Request
<1> HIDE DEF q
<1> QED BY <1>3, <1>5, <1>6, <1>7, StepOfOne DEF Decide

\* Rolling back keeps the invariant.
LEMMA RollbackInv ==
  ASSUME ConcurrentInv, NEW r \in Requests, Rollback(r)
  PROVE  ConcurrentInv'
BY StepOfOne DEF Rollback, Idle

-----------------------------------------------------------------------------
(***************************************************************************)
(* Commits                                                                 *)
(***************************************************************************)

\* A commit is a step of the serial desk on the case the request was about.
LEMMA CommitIsSerial ==
  ASSUME ConcurrentInv, NEW r \in Requests, Commit(r)
  PROVE  Next
<1> DEFINE q == requests[r]
<1>1. q \in Request /\ Put(q.conversation, q.rows)
  BY InFlightIsRequest DEF Commit, ConcurrentInv
<1>2. q.conversation \in Conversations /\ q.actor \in Actors
  BY <1>1 DEF Request
<1>3. Handled(cases[q.conversation], q.rows, q.actor, q.target)
  BY DEF Commit, ConcurrentInv, DecisionsStayValid
<1> HIDE DEF q
<1> QED BY <1>1, <1>2, <1>3 DEF Handled, Next, CreateConversation, AssignConversation,
        TransitionConversation, CreateEscalation, PatchEscalation, CreateCallRecord,
        PatchCall

\* A commit keeps the invariant: what others decided concerns other cases.
LEMMA CommitInv ==
  ASSUME ConcurrentInv, NEW r \in Requests, Commit(r)
  PROVE  ConcurrentInv'
<1> DEFINE c == requests[r].conversation
<1>1. requests[r] \in Request
  BY InFlightIsRequest DEF Commit, ConcurrentInv
<1>2. c \in Conversations /\ requests[r].rows \in Case
  BY <1>1 DEF Request
<1>3. \A s \in Requests : requests'[s] = IF s = r THEN Idle ELSE requests[s]
  BY SlotsAfter DEF Commit, ConcurrentInv
<1>4. \A d \in Conversations : d # c => cases'[d] = cases[d]
  BY DEF Commit, Put, ConcurrentInv, ConcurrentTypeOK, TypeOK
<1>5. ConcurrentTypeOK'
  BY <1>2 DEF Commit, Put, ConcurrentInv, ConcurrentTypeOK, TypeOK
<1>6. LocksExclude'
  BY <1>3 DEF ConcurrentInv, LocksExclude, Holds, Idle
<1>7. DecisionsStayValid'
  <2> SUFFICES ASSUME NEW s \in Requests, requests'[s].pc = "decided"
               PROVE  Handled(cases'[requests'[s].conversation], requests'[s].rows,
                              requests'[s].actor, requests'[s].target)
    BY DEF DecisionsStayValid
  <2>1. s # r /\ requests'[s] = requests[s]
    BY <1>3 DEF Idle
  <2>2. requests[s] \in Request /\ requests[s].conversation \in Conversations
    BY <2>1, InFlightIsRequest DEF ConcurrentInv, Request
  <2>3. requests[s].conversation # c
    BY <1>2, <2>1, <2>2 DEF Commit, ConcurrentInv, LocksExclude, Holds
  <2> QED BY <1>4, <2>1, <2>2, <2>3 DEF ConcurrentInv, DecisionsStayValid
<1> QED BY <1>5, <1>6, <1>7 DEF ConcurrentInv

-----------------------------------------------------------------------------
(***************************************************************************)
(* The theorems                                                            *)
(***************************************************************************)

\* Every step keeps the invariant, and is a step of the serial desk or changes
\* no case.
LEMMA ConcurrentNextInv ==
  ASSUME ConcurrentInv, [ConcurrentNext]_vars
  PROVE  ConcurrentInv' /\ [Next]_cases
<1>1. CASE UNCHANGED vars
  BY <1>1 DEF vars, ConcurrentInv, ConcurrentTypeOK, TypeOK, LocksExclude, Holds,
     DecisionsStayValid
<1>2. ASSUME NEW r \in Requests, NEW actor \in Actors, NEW c \in Conversations,
             NEW channel \in ConversationChannel, Insert(r, actor, c, channel)
      PROVE  ConcurrentInv' /\ [Next]_cases
  BY <1>2, InsertInv DEF Insert
<1>3. ASSUME NEW r \in Requests, NEW actor \in Actors, NEW c \in Conversations,
             NEW target \in Targets, Begin(r, actor, c, target)
      PROVE  ConcurrentInv' /\ [Next]_cases
  BY <1>3, BeginInv DEF Begin
<1>4. ASSUME NEW r \in Requests, AcquireLock(r)
      PROVE  ConcurrentInv' /\ [Next]_cases
  BY <1>4, AcquireLockInv DEF AcquireLock
<1>5. ASSUME NEW r \in Requests, Decide(r)
      PROVE  ConcurrentInv' /\ [Next]_cases
  BY <1>5, DecideInv DEF Decide
<1>6. ASSUME NEW r \in Requests, Commit(r)
      PROVE  ConcurrentInv' /\ [Next]_cases
  BY <1>6, CommitInv, CommitIsSerial
<1>7. ASSUME NEW r \in Requests, Rollback(r)
      PROVE  ConcurrentInv' /\ [Next]_cases
  BY <1>7, RollbackInv DEF Rollback
<1> QED BY <1>1, <1>2, <1>3, <1>4, <1>5, <1>6, <1>7 DEF ConcurrentNext

\* The inductive invariant holds in every state of the concurrent desk.
THEOREM ConcurrentInvariant == ConcurrentSpec => []ConcurrentInv
<1>1. ConcurrentInv /\ [ConcurrentNext]_vars => ConcurrentInv'
  BY ConcurrentNextInv
<1> QED BY ConcurrentInitInv, <1>1, PTL DEF ConcurrentSpec

\* Type correctness of the sessions and of what they commit.
THEOREM ConcurrentTypeCorrect == ConcurrentSpec => []ConcurrentTypeOK
<1>1. ConcurrentInv => ConcurrentTypeOK
  BY DEF ConcurrentInv
<1> QED BY <1>1, ConcurrentInvariant, PTL

\* What a request decided stays valid until it commits.
THEOREM DecisionsValid == ConcurrentSpec => []DecisionsStayValid
<1>1. ConcurrentInv => DecisionsStayValid
  BY DEF ConcurrentInv
<1> QED BY <1>1, ConcurrentInvariant, PTL

\* Serializability: the concurrent desk implements the serial one, so that what
\* SerialDesk_proofs shows of the cases holds of it too.
THEOREM DeskSerializable == ConcurrentSpec => Serializable
<1>1. ConcurrentInit => Init
  BY DEF ConcurrentInit
<1>2. ConcurrentInv /\ [ConcurrentNext]_vars => [Next]_cases
  BY ConcurrentNextInv
<1> QED BY <1>1, <1>2, ConcurrentInvariant, PTL DEF ConcurrentSpec, Serializable, Spec

\* What holds of the desk that serves one request at a time holds of the desk as
\* it is served: in every committed state the rows of a case agree, no commit
\* rewrites what is over, and the lifecycle of a case is that of CaseContract.
THEOREM ConcurrentDeskSafe ==
  ConcurrentSpec =>
    /\ [](OneEscalationInForce /\ NoCallOutlivesConversation /\ AssigneesAgree /\ StampsAgree)
    /\ HistoryIsKept
    /\ KeepsContract
<1>1. ConcurrentSpec => Spec
  BY DeskSerializable DEF Serializable
<1> QED
  BY <1>1, EscalationsInForce, CallsEndFirst, AssigneesConsistent, StampedOnce,
     HistoryTheorem, DeskKeepsContract, PTL

\* A change takes effect only while its author is responsible for the case.
THEOREM ResponsibleWrites == ConcurrentSpec => OnlyTheResponsibleWrites
<1> DEFINE Responsible ==
      \A r \in Requests : Changes(r) =>
        LET k     == cases[requests[r].conversation]
            actor == requests[r].actor
        IN  \/ actor = Manager
            \/ /\ actor \in Agents
               /\ \/ k.conversation.assigned_agent_id = actor
                  \/ /\ requests[r].target \in Escalations
                     /\ k.escalations[requests[r].target].assigned_agent_id = actor
<1>1. ConcurrentInv => Responsible
  <2> SUFFICES ASSUME ConcurrentInv, NEW r \in Requests, Changes(r)
               PROVE  LET k     == cases[requests[r].conversation]
                          actor == requests[r].actor
                      IN  \/ actor = Manager
                          \/ /\ actor \in Agents
                             /\ \/ k.conversation.assigned_agent_id = actor
                                \/ /\ requests[r].target \in Escalations
                                   /\ k.escalations[requests[r].target].assigned_agent_id
                                        = actor
    OBVIOUS
  <2>1. requests[r] \in Request /\ requests[r].target # "new"
    BY InFlightIsRequest DEF Changes, ConcurrentInv
  <2>2. cases[requests[r].conversation] \in Case /\ requests[r].actor \in Actors
    BY <2>1 DEF Request, ConcurrentInv, ConcurrentTypeOK, TypeOK
  <2>3. Handled(cases[requests[r].conversation], requests[r].rows,
                requests[r].actor, requests[r].target)
    BY DEF Changes, ConcurrentInv, DecisionsStayValid
  <2> QED BY <2>1, <2>2, <2>3, HandledResponsible
<1>2. ConcurrentInv /\ [ConcurrentNext]_vars => [Responsible]_vars
  BY <1>1
<1> QED BY <1>2, ConcurrentInvariant, PTL DEF ConcurrentSpec, OnlyTheResponsibleWrites
=============================================================================
