----------------------------- MODULE SerialDesk -----------------------------
(***************************************************************************)
(* The desk when every request runs alone: each handler of the conversation,*)
(* escalation and call services is one step on the case it is about.  This *)
(* is what the services mean to do; ConcurrentDesk shows that the locks    *)
(* and the transaction of a request make it so.                            *)
(*                                                                         *)
(* Which agents eligible_agent finds active and AVAILABLE is left to the   *)
(* agent and auth services: any set of them, chosen anew at every step.    *)
(***************************************************************************)
EXTENDS Cases

CONSTANT Conversations   \* ids a conversation may get

VARIABLE cases

TypeOK == cases \in [Conversations -> Case]

Init == cases = [c \in Conversations |-> NoCase]

\* The row of a conversation and of what hangs on it after a handler.
Put(c, k) == cases' = [cases EXCEPT ![c] = k]

-----------------------------------------------------------------------------
\* POST /conversations, for a customer that exists.
CreateConversation(c, channel) ==
  /\ cases[c].conversation.status = "ABSENT"
  /\ Put(c, Created(channel))

\* POST /conversations/{c}/assign
AssignConversation(c) ==
  \E actor \in Actors, a \in Agents, available \in SUBSET Agents :
    /\ MayAssign(cases[c], actor, a, available)
    /\ Put(c, Assign(cases[c], a))

\* PATCH /conversations/{c}, POST /conversations/{c}/resolve and /close
TransitionConversation(c) ==
  \E actor \in Actors, s \in ConversationStatus :
    /\ MayTransition(cases[c], actor, s)
    /\ Put(c, Transition(cases[c], s))

\* POST /escalations
CreateEscalation(c) ==
  \E actor \in Actors, e \in Escalations, a \in Agents \cup {None},
     p \in Priorities, available \in SUBSET Agents :
    /\ MayEscalate(cases[c], actor, e, a, available)
    /\ Put(c, Escalate(cases[c], e, a, p))

\* PATCH /escalations/{e}
PatchEscalation(c) ==
  \E actor \in Actors, e \in Escalations, changes \in EscalationUpdate,
     available \in SUBSET Agents :
    /\ MayUpdateEscalation(cases[c], actor, e, changes, available)
    /\ Put(c, UpdateEscalation(cases[c], e, changes))

\* POST /calls
CreateCallRecord(c) ==
  \E actor \in Actors, a \in Agents \cup {None}, available \in SUBSET Agents :
    /\ MayCreateCall(cases[c], actor, a, available)
    /\ Put(c, CreateCall(cases[c], a))

\* PATCH /calls/{id} of the call of c
PatchCall(c) ==
  \E actor \in Actors, s \in CallStatus :
    /\ MayUpdateCall(cases[c], actor, s)
    /\ Put(c, UpdateCall(cases[c], s))

Next ==
  \E c \in Conversations :
    \/ \E channel \in ConversationChannel : CreateConversation(c, channel)
    \/ AssignConversation(c)
    \/ TransitionConversation(c)
    \/ CreateEscalation(c)
    \/ PatchEscalation(c)
    \/ CreateCallRecord(c)
    \/ PatchCall(c)

Spec == Init /\ [][Next]_cases

-----------------------------------------------------------------------------
\* README, Escalations: creation "atomically sets the conversation to ESCALATED",
\* resolution returns it, and "there can be one unresolved escalation".  Six
\* handlers write the two columns that have to agree.
OneEscalationInForce == \A c \in Conversations : EscalatedIffUnresolved(cases[c])

\* No sequence of requests leaves a call ringing on a conversation that is over:
\* calls start, conversations resolve and escalations hand them back in
\* handlers of three services that only share has_active_call.
NoCallOutlivesConversation ==
  \A c \in Conversations : FinishedHasNoActiveCall(cases[c])

\* The assignee columns of an escalation and of its conversation agree with the
\* statuses beside them, whichever service wrote them last.
AssigneesAgree == \A c \in Conversations : AssigneesFollowStatus(cases[c])

\* ended_at, resolved_at and answered_at tell exactly which statuses a row has
\* been through: repeated requests do not stamp again and no path skips a stamp.
StampsAgree == \A c \in Conversations : StampsFollowStatus(cases[c])

\* README, "No reopening is supported": a finished conversation, a resolved
\* escalation and a terminal call never change status, assignee or stamps again, and
\* a conversation that has an agent never loses it.
HistoryIsKept ==
  [][\A c \in Conversations : HistoryKept(cases[c], cases'[c])]_cases

\* README, Call records: "Conversations cannot resolve or change assignee while
\* a call is active."
ActiveCallPinsAssignee ==
  [][\A c \in Conversations :
       HasActiveCall(cases[c]) /\ HasActiveCall(cases'[c]) =>
         cases'[c].conversation.assigned_agent_id =
           cases[c].conversation.assigned_agent_id]_cases

-----------------------------------------------------------------------------
(***************************************************************************)
(* The desk implements the contract of CaseContract.                       *)
(***************************************************************************)

PhaseOf(k) ==
  CASE k.conversation.status = "ABSENT"    -> "absent"
    [] k.conversation.status = "ESCALATED" -> "escalated"
    [] k.conversation.status = "RESOLVED"  -> "resolved"
    [] k.conversation.status = "CLOSED"    -> "closed"
    [] OTHER                               -> "live"

LineOf(k) ==
  CASE k.call.status = "ABSENT" -> "none"
    [] HasActiveCall(k)         -> "active"
    [] OTHER                    -> "over"

Contract == INSTANCE CaseContract
  WITH phase <- [c \in Conversations |-> PhaseOf(cases[c])],
       line  <- [c \in Conversations |-> LineOf(cases[c])]

\* Every step of the desk is one the contract allows: the lifecycle of a case,
\* with no way from an escalated conversation or a busy line to a resolved one.
KeepsContract == Contract!Spec
=============================================================================
