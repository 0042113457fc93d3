-------------------------------- MODULE Cases --------------------------------
(***************************************************************************)
(* The aggregate the handlers of the desk work on: one conversation, the   *)
(* escalations raised on it and its call, with the guard and the effect of *)
(* every handler as an operator.                                           *)
(*                                                                         *)
(* `May...` is what has to hold for the handler to answer with success;    *)
(* where it does not the handler raises, the session rolls back and no row *)
(* changes.  The operator beside it is the case after the handler.  They   *)
(* have no variables, so the desk of SerialDesk, where a request is one    *)
(* step, and that of ConcurrentDesk, where requests interleave, share them.*)
(*                                                                         *)
(* Timestamps are abstracted to how often the column was stamped: 0 is     *)
(* NULL, and a handler that stamps a second time shows.                    *)
(***************************************************************************)
EXTENDS Naturals, Domain

CONSTANTS
  Agents,        \* ids of agent profiles
  Escalations,   \* ids an escalation of a conversation may get
  Priorities,    \* EscalationPriority
  Manager,       \* a caller whose role is ADMIN or SUPPORT_HEAD
  NoProfile,     \* a caller whose role is AGENT and who has no profile yet
  None           \* NULL

ASSUME NoneIsNoValue == None \notin Agents \cup Priorities

ASSUME ActorsDistinct ==
  /\ Manager \notin Agents
  /\ NoProfile \notin Agents
  /\ Manager # NoProfile

-----------------------------------------------------------------------------
(***************************************************************************)
(* Rows                                                                    *)
(***************************************************************************)

\* A caller of role AGENT is named by the id of its profile.
Actors == Agents \cup {Manager, NoProfile}

\* agents.get_by_user(actor.id)
ProfileOf(actor) == IF actor \in Agents THEN actor ELSE None

Timestamp == Nat

\* datetime.now(timezone.utc), written over what the column held.
Stamp(t) == t + 1

ConversationRow ==
  [channel           : ConversationChannel \cup {None},
   status            : ConversationStatus \cup {"ABSENT"},
   assigned_agent_id : Agents \cup {None},
   ended_at          : Timestamp]

EscalationRow ==
  [status            : EscalationStatus \cup {"ABSENT"},
   assigned_agent_id : Agents \cup {None},
   priority          : Priorities \cup {None},
   resolved_at       : Timestamp]

CallRow ==
  [status      : CallStatus \cup {"ABSENT"},
   agent_id    : Agents \cup {None},
   answered_at : Timestamp,
   ended_at    : Timestamp]

Case == [conversation : ConversationRow,
         escalations  : [Escalations -> EscalationRow],
         call         : CallRow]

\* The body of PATCH /escalations/{id}: the keys the client sent, with the
\* values of those that have one.  The only status a client may send is
\* RESOLVED, so the key alone says it.
EscalationUpdate ==
  [keys              : SUBSET {"assigned_agent_id", "priority", "status"},
   assigned_agent_id : Agents \cup {None},
   priority          : Priorities]

NoEscalation == [status |-> "ABSENT", assigned_agent_id |-> None,
                 priority |-> None, resolved_at |-> 0]

NoCall == [status |-> "ABSENT", agent_id |-> None,
           answered_at |-> 0, ended_at |-> 0]

NoCase == [conversation |-> [channel |-> None, status |-> "ABSENT",
                             assigned_agent_id |-> None, ended_at |-> 0],
           escalations  |-> [e \in Escalations |-> NoEscalation],
           call         |-> NoCall]

-----------------------------------------------------------------------------
(***************************************************************************)
(* What the handlers ask of a case                                         *)
(***************************************************************************)

HasActiveCall(k) == k.call.status \in ActiveCall

\* escalation_repository.active: those the partial unique index covers.
ActiveEscalations(k) ==
  {e \in Escalations : k.escalations[e].status \in {"OPEN", "ASSIGNED"}}

\* Faulty variant of AuthorizeChange: a caller without a profile has the id NULL,
\* and so has the assignee of a conversation nobody was assigned to.
AuthorizeNullAssignee(k, actor) ==
  \/ actor = Manager
  \/ k.conversation.assigned_agent_id = ProfileOf(actor)

\* Managers may change every conversation, an agent only its own.
AuthorizeChange(k, actor) ==
  \/ actor = Manager
  \/ /\ ProfileOf(actor) # None
     /\ k.conversation.assigned_agent_id = ProfileOf(actor)

\* eligible_agent's verdict when `available` are the agents it would find
\* active and AVAILABLE.
EligibleAgent(a, available) == a \in available

-----------------------------------------------------------------------------
(***************************************************************************)
(* Conversations                                                           *)
(***************************************************************************)

\* create_conversation: a fresh row, OPEN and assigned to nobody.
Created(channel) ==
  [conversation |-> [channel |-> channel, status |-> "OPEN",
                     assigned_agent_id |-> None, ended_at |-> 0],
   escalations  |-> [e \in Escalations |-> NoEscalation],
   call         |-> NoCall]

MayAssign(k, actor, a, available) ==
  /\ actor = Manager
  /\ k.conversation.status \notin Finished \cup {"ABSENT"}
  /\ EligibleAgent(a, available)
  /\ k.conversation.assigned_agent_id # a => ~HasActiveCall(k)

AssignedRow(row, a) ==
  [row EXCEPT !.assigned_agent_id = a,
              !.status = IF @ = "OPEN" THEN "IN_PROGRESS" ELSE @]

Assign(k, a) == [k EXCEPT !.conversation = AssignedRow(@, a)]

\* Faulty variant of MayTransition: a call on the line does not matter.
MayTransitionDuringCall(k, actor, s) ==
  /\ k.conversation.status # "ABSENT"
  /\ AuthorizeChange(k, actor)
  /\ \/ s = k.conversation.status
     \/ s \in ConversationTransitions[k.conversation.status]

\* Asking for the status the conversation has answers with success.
MayTransition(k, actor, s) ==
  /\ k.conversation.status # "ABSENT"
  /\ AuthorizeChange(k, actor)
  /\ \/ s = k.conversation.status
     \/ /\ s \in ConversationTransitions[k.conversation.status]
        /\ s = "RESOLVED" => ~HasActiveCall(k)

MovedRow(row, s) ==
  [row EXCEPT !.status = s,
              !.ended_at = IF s = "RESOLVED" THEN Stamp(@) ELSE @]

\* Faulty variant of Transition: the status is written although it is the same.
TransitionAgain(k, s) == [k EXCEPT !.conversation = MovedRow(@, s)]

Transition(k, s) ==
  IF s = k.conversation.status THEN k
  ELSE [k EXCEPT !.conversation = MovedRow(@, s)]

-----------------------------------------------------------------------------
(***************************************************************************)
(* Escalations                                                             *)
(***************************************************************************)

\* Only managers choose an assignee; a is None when the body names none.
MayEscalate(k, actor, e, a, available) ==
  /\ k.conversation.status \notin Finished \cup {"ABSENT"}
  /\ AuthorizeChange(k, actor)
  /\ ActiveEscalations(k) = {}
  /\ k.escalations[e].status = "ABSENT"
  /\ a # None => actor = Manager /\ EligibleAgent(a, available)

\* Faulty variant of EscalatedRow: the new escalation's status for both rows.
EscalatedRowItemStatus(row, a) ==
  [row EXCEPT !.status = IF a # None THEN "ASSIGNED" ELSE "OPEN",
              !.assigned_agent_id = IF a # None THEN a ELSE @]

EscalatedRow(row, a) ==
  [row EXCEPT !.status = "ESCALATED",
              !.assigned_agent_id = IF a # None THEN a ELSE @]

NewItem(a, p) ==
  [status            |-> IF a # None THEN "ASSIGNED" ELSE "OPEN",
   assigned_agent_id |-> a,
   priority          |-> p,
   resolved_at       |-> 0]

Escalate(k, e, a, p) ==
  [k EXCEPT !.conversation = EscalatedRow(@, a),
            !.escalations[e] = NewItem(a, p)]

\* A manager may send every field, the escalation's assignee only the status.
\* A resolved escalation accepts what asks for nothing new.
MayUpdateEscalation(k, actor, e, changes, available) ==
  LET item == k.escalations[e] IN
  /\ item.status # "ABSENT"
  /\ \/ actor = Manager
     \/ /\ ProfileOf(actor) # None
        /\ ProfileOf(actor) = item.assigned_agent_id
        /\ changes.keys \subseteq {"status"}
  /\ \/ item.status = "RESOLVED" /\ changes.keys \subseteq {"status"}
     \/ /\ item.status # "RESOLVED"
        /\ \/ "assigned_agent_id" \notin changes.keys
           \/ changes.assigned_agent_id = None
           \/ EligibleAgent(changes.assigned_agent_id, available)

\* The assignee an update of item leaves it with.
NextAssignee(item, changes) ==
  IF "assigned_agent_id" \in changes.keys THEN changes.assigned_agent_id
                                          ELSE item.assigned_agent_id

\* Faulty variant of UpdatedItem: the status follows only a new assignee.
UpdatedItemKeepsStatus(item, changes) ==
  LET owner    == NextAssignee(item, changes)
      resolves == "status" \in changes.keys
  IN  [status |-> CASE resolves -> "RESOLVED"
                    [] ~resolves /\ owner # None -> "ASSIGNED"
                    [] OTHER -> item.status,
       assigned_agent_id |-> owner,
       priority |-> IF "priority" \in changes.keys THEN changes.priority
                                                   ELSE item.priority,
       resolved_at |-> IF resolves THEN Stamp(item.resolved_at) ELSE item.resolved_at]

UpdatedItem(item, changes) ==
  LET owner    == NextAssignee(item, changes)
      resolves == "status" \in changes.keys
  IN  [status |->
         CASE resolves -> "RESOLVED"
           [] ~resolves /\ "assigned_agent_id" \notin changes.keys -> item.status
           [] OTHER -> IF owner # None THEN "ASSIGNED" ELSE "OPEN",
       assigned_agent_id |-> owner,
       priority |-> IF "priority" \in changes.keys THEN changes.priority
                                                   ELSE item.priority,
       resolved_at |-> IF resolves THEN Stamp(item.resolved_at) ELSE item.resolved_at]

\* Unassigning the escalation leaves the conversation with its agent, and
\* resolving it hands the conversation back.
HandedBackRow(row, changes) ==
  LET holder == IF /\ "assigned_agent_id" \in changes.keys
                   /\ changes.assigned_agent_id # None
                THEN changes.assigned_agent_id ELSE row.assigned_agent_id
  IN  [row EXCEPT
         !.assigned_agent_id = holder,
         !.status = CASE "status" \notin changes.keys -> @
                      [] "status" \in changes.keys /\ holder # None -> "IN_PROGRESS"
                      [] OTHER -> "OPEN"]

\* Faulty variant of UpdateEscalation: a resolved escalation resolves again.
UpdateEscalationAgain(k, e, changes) ==
  [k EXCEPT !.conversation = HandedBackRow(@, changes),
            !.escalations[e] = UpdatedItem(@, changes)]

UpdateEscalation(k, e, changes) ==
  IF k.escalations[e].status = "RESOLVED" THEN k
  ELSE [k EXCEPT !.conversation = HandedBackRow(@, changes),
                 !.escalations[e] = UpdatedItem(@, changes)]

-----------------------------------------------------------------------------
(***************************************************************************)
(* Calls                                                                   *)
(***************************************************************************)

\* The agent of a new call when the body names a, or None for no agent.
CallAgent(k, a) == IF a # None THEN a ELSE k.conversation.assigned_agent_id

\* Faulty variant of MayCreateCall: on finished conversations too.
MayCallFinished(k, actor, a, available) ==
  /\ k.conversation.status # "ABSENT"
  /\ AuthorizeChange(k, actor)
  /\ k.conversation.channel \in {"VOICE", "PHONE"}
  /\ k.call.status = "ABSENT"
  /\ CallAgent(k, a) # None =>
       /\ k.conversation.assigned_agent_id \in {None, CallAgent(k, a)}
       /\ EligibleAgent(CallAgent(k, a), available)

MayCreateCall(k, actor, a, available) ==
  /\ k.conversation.status \notin Finished \cup {"ABSENT"}
  /\ AuthorizeChange(k, actor)
  /\ k.conversation.channel \in {"VOICE", "PHONE"}
  /\ k.call.status = "ABSENT"
  /\ CallAgent(k, a) # None =>
       /\ k.conversation.assigned_agent_id \in {None, CallAgent(k, a)}
       /\ EligibleAgent(CallAgent(k, a), available)

CreateCall(k, a) ==
  [k EXCEPT !.call = [status |-> "INITIATED", agent_id |-> CallAgent(k, a),
                      answered_at |-> 0, ended_at |-> 0]]

\* Sending the status the call has, or none, changes no column modelled here.
MayUpdateCall(k, actor, s) ==
  /\ k.call.status # "ABSENT"
  /\ AuthorizeChange(k, actor)
  /\ s = k.call.status \/ s \in CallTransitions[k.call.status]

MovedCall(row, s) ==
  [row EXCEPT !.status = s,
              !.answered_at = IF s = "ANSWERED" THEN Stamp(@) ELSE @,
              !.ended_at = IF s \in TerminalCall THEN Stamp(@) ELSE @]

UpdateCall(k, s) ==
  IF s = k.call.status THEN k
  ELSE [k EXCEPT !.call = MovedCall(@, s)]

-----------------------------------------------------------------------------
(***************************************************************************)
(* What makes a case consistent                                            *)
(***************************************************************************)

\* ESCALATED is the status of a conversation while one escalation is
\* unresolved, and then only; there are never two.
EscalatedIffUnresolved(k) ==
  /\ ActiveEscalations(k) = {} \/ \E e \in Escalations : ActiveEscalations(k) = {e}
  /\ k.conversation.status = "ESCALATED" <=> ActiveEscalations(k) # {}

\* Nothing is open under a conversation that is resolved or closed.
FinishedHasNoActiveCall(k) ==
  k.conversation.status \in Finished => ~HasActiveCall(k)

\* An open escalation is ASSIGNED exactly while it has an assignee, and then
\* the conversation has one too.  A conversation that is OPEN has none.
AssigneesFollowStatus(k) ==
  /\ \A e \in ActiveEscalations(k) :
       /\ k.escalations[e].status = "ASSIGNED"
            <=> k.escalations[e].assigned_agent_id # None
       /\ k.escalations[e].assigned_agent_id # None
            => k.conversation.assigned_agent_id # None
  /\ k.conversation.status \in {"OPEN", "ABSENT"}
       => k.conversation.assigned_agent_id = None

\* Every timestamp is set by the step it records, once, and never again.
StampsFollowStatus(k) ==
  /\ k.conversation.ended_at = IF k.conversation.status \in Finished THEN 1 ELSE 0
  /\ \A e \in Escalations : k.escalations[e].resolved_at =
       IF k.escalations[e].status = "RESOLVED" THEN 1 ELSE 0
  /\ k.call.ended_at = IF k.call.status \in TerminalCall THEN 1 ELSE 0
  /\ k.call.status \in {"ANSWERED", "COMPLETED"} => k.call.answered_at = 1
  /\ k.call.status \in {"ABSENT", "INITIATED", "RINGING", "MISSED", "CANCELLED"}
       => k.call.answered_at = 0
  /\ k.call.answered_at \in {0, 1}

\* Nothing hangs on a conversation that does not exist.
RowsHaveAConversation(k) ==
  k.conversation.status = "ABSENT" => k = NoCase

\* What later requests may not rewrite.
HistoryKept(k, k2) ==
  /\ k.conversation.status = "RESOLVED" =>
       /\ k2.conversation.status \in Finished
       /\ k2.conversation.assigned_agent_id = k.conversation.assigned_agent_id
       /\ k2.conversation.ended_at = k.conversation.ended_at
  /\ k.conversation.status = "CLOSED" => k2.conversation = k.conversation
  /\ k.conversation.assigned_agent_id # None
       => k2.conversation.assigned_agent_id # None
  /\ \A e \in Escalations : k.escalations[e].status = "RESOLVED"
       => k2.escalations[e] = k.escalations[e]
  /\ k.call.status \in TerminalCall => k2.call = k.call
=============================================================================
