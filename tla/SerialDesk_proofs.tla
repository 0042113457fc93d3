-------------------------- MODULE SerialDesk_proofs --------------------------
(***************************************************************************)
(* What holds of the serial desk for every set of agents, escalation ids,  *)
(* priorities and conversations: its types, its safety invariants, that it *)
(* keeps history, and that it implements CaseContract.                     *)
(***************************************************************************)
EXTENDS SerialDesk, TLAPS

\* The inductive invariant of a case.
CaseInv(k) ==
  /\ EscalatedIffUnresolved(k)
  /\ FinishedHasNoActiveCall(k)
  /\ AssigneesFollowStatus(k)
  /\ StampsFollowStatus(k)
  /\ RowsHaveAConversation(k)

-----------------------------------------------------------------------------
(***************************************************************************)
(* Types                                                                   *)
(***************************************************************************)

\* Stamping a timestamp gives a timestamp.
LEMMA StampType == \A t \in Timestamp : Stamp(t) \in Timestamp
BY DEF Stamp, Timestamp

\* The first stamp takes a column from NULL to stamped once.
LEMMA FirstStamp == Stamp(0) = 1
BY DEF Stamp

\* A desk without conversations is well formed.
LEMMA NoCaseType == NoCase \in Case
BY DEF NoCase, NoEscalation, NoCall, Case, ConversationRow, EscalationRow,
       CallRow, Timestamp

\* create_conversation inserts a well-formed row.
LEMMA CreatedType ==
  ASSUME NEW channel \in ConversationChannel
  PROVE  Created(channel) \in Case
BY DEF Created, NoEscalation, NoCall, Case, ConversationRow, EscalationRow,
       CallRow, Timestamp, ConversationStatus

\* assign keeps the row well formed.
LEMMA AssignType ==
  ASSUME NEW k \in Case, NEW a \in Agents
  PROVE  Assign(k, a) \in Case
<1>1. AssignedRow(k.conversation, a) \in ConversationRow
  BY DEF AssignedRow, Case, ConversationRow, ConversationStatus
<1> QED BY <1>1 DEF Assign, Case

\* transition keeps the row well formed.
LEMMA TransitionType ==
  ASSUME NEW k \in Case, NEW s \in ConversationStatus
  PROVE  Transition(k, s) \in Case
<1>1. MovedRow(k.conversation, s) \in ConversationRow
  BY StampType DEF MovedRow, Case, ConversationRow, ConversationStatus
<1> QED BY <1>1 DEF Transition, Case

\* Creating an escalation keeps the rows well formed.
LEMMA EscalateType ==
  ASSUME NEW k \in Case, NEW e \in Escalations, NEW a \in Agents \cup {None},
         NEW p \in Priorities
  PROVE  Escalate(k, e, a, p) \in Case
<1>1. EscalatedRow(k.conversation, a) \in ConversationRow
  BY DEF EscalatedRow, Case, ConversationRow, ConversationStatus
<1>2. NewItem(a, p) \in EscalationRow
  BY DEF NewItem, EscalationRow, EscalationStatus, Timestamp
<1> QED BY <1>1, <1>2 DEF Escalate, Case

\* Updating an escalation keeps the rows well formed.
LEMMA UpdateEscalationType ==
  ASSUME NEW k \in Case, NEW e \in Escalations, NEW changes \in EscalationUpdate
  PROVE  UpdateEscalation(k, e, changes) \in Case
<1>1. UpdatedItem(k.escalations[e], changes) \in EscalationRow
  BY StampType DEF UpdatedItem, NextAssignee, EscalationUpdate, Case,
                   EscalationRow, EscalationStatus
<1>2. HandedBackRow(k.conversation, changes) \in ConversationRow
  BY DEF HandedBackRow, EscalationUpdate, Case, ConversationRow,
         ConversationStatus
<1> QED BY <1>1, <1>2 DEF UpdateEscalation, Case

\* Creating a call keeps the rows well formed.
LEMMA CreateCallType ==
  ASSUME NEW k \in Case, NEW a \in Agents \cup {None}
  PROVE  CreateCall(k, a) \in Case
<1>1. CallAgent(k, a) \in Agents \cup {None}
  BY DEF CallAgent, Case, ConversationRow
<1> QED BY <1>1 DEF CreateCall, Case, CallRow, CallStatus, Timestamp

\* Updating a call keeps the rows well formed.
LEMMA UpdateCallType ==
  ASSUME NEW k \in Case, NEW s \in CallStatus
  PROVE  UpdateCall(k, s) \in Case
<1>1. MovedCall(k.call, s) \in CallRow
  BY StampType DEF MovedCall, Case, CallRow
<1> QED BY <1>1 DEF UpdateCall, Case

-----------------------------------------------------------------------------
(***************************************************************************)
(* The invariant of a case                                                 *)
(***************************************************************************)

\* The statuses has_active_call looks for and those that end a call are apart.
LEMMA CallStatusesApart ==
  /\ ActiveCall \cap TerminalCall = {}
  /\ CallStatus = ActiveCall \cup TerminalCall
  /\ "ABSENT" \notin CallStatus
BY DEF ActiveCall, TerminalCall, CallStatus

\* Nothing is wrong with a case that does not exist.
LEMMA NoCaseInv == CaseInv(NoCase)
BY DEF CaseInv, EscalatedIffUnresolved, FinishedHasNoActiveCall, Finished,
       AssigneesFollowStatus, StampsFollowStatus, RowsHaveAConversation,
       ActiveEscalations, HasActiveCall, NoCase, NoEscalation, NoCall,
       ActiveCall, TerminalCall

\* A new conversation is consistent.
LEMMA CreatedInv ==
  ASSUME NEW channel \in ConversationChannel
  PROVE  CaseInv(Created(channel))
BY DEF CaseInv, EscalatedIffUnresolved, FinishedHasNoActiveCall, Finished,
       AssigneesFollowStatus, StampsFollowStatus, RowsHaveAConversation,
       ActiveEscalations, HasActiveCall, Created, NoEscalation, NoCall,
       ActiveCall, TerminalCall

\* assign moves OPEN to IN_PROGRESS and leaves everything else in place.
LEMMA AssignInv ==
  ASSUME NEW k \in Case, CaseInv(k), NEW actor, NEW a \in Agents, NEW available,
         MayAssign(k, actor, a, available)
  PROVE  CaseInv(Assign(k, a)) /\ HistoryKept(k, Assign(k, a))
<1> DEFINE k2 == Assign(k, a)
<1>1. /\ k2.escalations = k.escalations
      /\ k2.call = k.call
      /\ k2.conversation.assigned_agent_id = a
      /\ k2.conversation.ended_at = k.conversation.ended_at
      /\ k2.conversation.status =
           IF k.conversation.status = "OPEN" THEN "IN_PROGRESS"
                                             ELSE k.conversation.status
  BY DEF Assign, AssignedRow, Case, ConversationRow
<1>2. k.conversation.status \notin {"RESOLVED", "CLOSED", "ABSENT"} /\ a # None
  BY NoneIsNoValue DEF MayAssign, Finished
<1>3. ActiveEscalations(k2) = ActiveEscalations(k)
  BY <1>1 DEF ActiveEscalations
<1> HIDE DEF k2
<1>4. EscalatedIffUnresolved(k2)
  BY <1>1, <1>3 DEF CaseInv, EscalatedIffUnresolved
<1>5. FinishedHasNoActiveCall(k2)
  BY <1>1, <1>2 DEF FinishedHasNoActiveCall, Finished
<1>6. AssigneesFollowStatus(k2)
  BY <1>1, <1>2, <1>3 DEF CaseInv, AssigneesFollowStatus
<1>7. StampsFollowStatus(k2)
  BY <1>1, <1>2 DEF CaseInv, StampsFollowStatus, Finished
<1>8. RowsHaveAConversation(k2)
  BY <1>1, <1>2 DEF RowsHaveAConversation
<1>9. HistoryKept(k, k2)
  BY <1>1, <1>2 DEF HistoryKept
<1> QED BY <1>4, <1>5, <1>6, <1>7, <1>8, <1>9 DEF CaseInv, k2

\* transition follows the table: it neither enters nor leaves ESCALATED, never
\* returns to OPEN and stamps ended_at on the way to RESOLVED only.
LEMMA TransitionInv ==
  ASSUME NEW k \in Case, CaseInv(k), NEW actor, NEW s \in ConversationStatus,
         MayTransition(k, actor, s)
  PROVE  CaseInv(Transition(k, s)) /\ HistoryKept(k, Transition(k, s))
<1> DEFINE k2 == Transition(k, s)
<1>1. CASE s = k.conversation.status
  BY <1>1 DEF Transition, HistoryKept, Finished
<1>2. CASE s # k.conversation.status
  <2>1. /\ k2.escalations = k.escalations
        /\ k2.call = k.call
        /\ k2.conversation.assigned_agent_id = k.conversation.assigned_agent_id
        /\ k2.conversation.status = s
        /\ k2.conversation.ended_at =
             IF s = "RESOLVED" THEN Stamp(k.conversation.ended_at)
                               ELSE k.conversation.ended_at
    BY <1>2 DEF Transition, MovedRow, Case, ConversationRow
  <2>2. /\ k.conversation.status \in ConversationStatus
        /\ s \in ConversationTransitions[k.conversation.status]
        /\ s = "RESOLVED" => ~HasActiveCall(k)
    BY <1>2 DEF MayTransition, Case, ConversationRow
  <2>3. \/ /\ s \in {"IN_PROGRESS", "WAITING"}
           /\ k.conversation.status \in {"OPEN", "IN_PROGRESS", "WAITING"}
        \/ /\ s = "RESOLVED"
           /\ k.conversation.status \in {"OPEN", "IN_PROGRESS", "WAITING"}
           /\ ~HasActiveCall(k)
        \/ /\ s = "CLOSED"
           /\ k.conversation.status = "RESOLVED"
    BY <2>2 DEF ConversationTransitions, ConversationStatus
  <2>4. ActiveEscalations(k2) = ActiveEscalations(k)
    BY <2>1 DEF ActiveEscalations
  <2>5. HasActiveCall(k2) <=> HasActiveCall(k)
    BY <2>1 DEF HasActiveCall
  <2> HIDE DEF k2
  <2>6. EscalatedIffUnresolved(k2)
    BY <2>1, <2>3, <2>4 DEF CaseInv, EscalatedIffUnresolved
  <2>7. FinishedHasNoActiveCall(k2)
    BY <2>1, <2>3, <2>5 DEF CaseInv, FinishedHasNoActiveCall, Finished
  <2>8. AssigneesFollowStatus(k2)
    BY <2>1, <2>3, <2>4 DEF CaseInv, AssigneesFollowStatus
  <2>9. StampsFollowStatus(k2)
    BY <2>1, <2>3, FirstStamp DEF CaseInv, StampsFollowStatus, Finished
  <2>10. RowsHaveAConversation(k2)
    BY <2>1, <2>3 DEF RowsHaveAConversation
  <2>11. HistoryKept(k, k2)
    BY <2>1, <2>3 DEF HistoryKept, Finished
  <2> QED BY <2>6, <2>7, <2>8, <2>9, <2>10, <2>11 DEF CaseInv, k2
<1> QED BY <1>1, <1>2

\* An escalation is only raised where none is unresolved, and takes the
\* conversation to ESCALATED in the same transaction.
LEMMA EscalateInv ==
  ASSUME NEW k \in Case, CaseInv(k), NEW actor, NEW e \in Escalations,
         NEW a \in Agents \cup {None}, NEW p \in Priorities, NEW available,
         MayEscalate(k, actor, e, a, available)
  PROVE  CaseInv(Escalate(k, e, a, p)) /\ HistoryKept(k, Escalate(k, e, a, p))
<1> DEFINE k2 == Escalate(k, e, a, p)
<1>1. /\ k2.call = k.call
      /\ k2.conversation.status = "ESCALATED"
      /\ k2.conversation.assigned_agent_id =
           IF a # None THEN a ELSE k.conversation.assigned_agent_id
      /\ k2.conversation.ended_at = k.conversation.ended_at
      /\ \A f \in Escalations :
           k2.escalations[f] = IF f = e THEN NewItem(a, p) ELSE k.escalations[f]
  BY DEF Escalate, EscalatedRow, Case, ConversationRow
<1>2. /\ NewItem(a, p).status = IF a # None THEN "ASSIGNED" ELSE "OPEN"
      /\ NewItem(a, p).assigned_agent_id = a
      /\ NewItem(a, p).resolved_at = 0
  BY DEF NewItem
<1>3. /\ k.conversation.status \notin {"RESOLVED", "CLOSED", "ABSENT"}
      /\ ActiveEscalations(k) = {}
      /\ k.escalations[e].status = "ABSENT"
  BY DEF MayEscalate, Finished
<1> HIDE DEF k2
<1>4. ActiveEscalations(k2) = {e}
  BY <1>1, <1>2, <1>3 DEF ActiveEscalations
<1>5. EscalatedIffUnresolved(k2)
  BY <1>1, <1>4 DEF EscalatedIffUnresolved
<1>6. FinishedHasNoActiveCall(k2)
  BY <1>1 DEF FinishedHasNoActiveCall, Finished
<1>7. AssigneesFollowStatus(k2)
  BY <1>1, <1>2, <1>4 DEF AssigneesFollowStatus
<1>8. StampsFollowStatus(k2)
  BY <1>1, <1>2, <1>3 DEF CaseInv, StampsFollowStatus, Finished
<1>9. RowsHaveAConversation(k2)
  BY <1>1 DEF RowsHaveAConversation
<1>10. HistoryKept(k, k2)
  BY <1>1, <1>3 DEF HistoryKept
<1> QED BY <1>5, <1>6, <1>7, <1>8, <1>9, <1>10 DEF CaseInv, k2

\* Updating the unresolved escalation either keeps it unresolved, and the
\* conversation ESCALATED, or resolves it and hands the conversation back.
LEMMA UpdateEscalationInv ==
  ASSUME NEW k \in Case, CaseInv(k), NEW actor, NEW e \in Escalations,
         NEW changes \in EscalationUpdate, NEW available,
         MayUpdateEscalation(k, actor, e, changes, available)
  PROVE  /\ CaseInv(UpdateEscalation(k, e, changes))
         /\ HistoryKept(k, UpdateEscalation(k, e, changes))
<1> DEFINE k2   == UpdateEscalation(k, e, changes)
           item == UpdatedItem(k.escalations[e], changes)
           row  == HandedBackRow(k.conversation, changes)
<1>1. CASE k.escalations[e].status = "RESOLVED"
  BY <1>1 DEF UpdateEscalation, HistoryKept, Finished
<1>2. CASE k.escalations[e].status # "RESOLVED"
  <2>1. /\ k2.call = k.call
        /\ k2.conversation = row
        /\ \A f \in Escalations :
             k2.escalations[f] = IF f = e THEN item ELSE k.escalations[f]
    BY <1>2 DEF UpdateEscalation, Case
  <2>2. /\ k.escalations[e].status \in {"OPEN", "ASSIGNED"}
        /\ ActiveEscalations(k) = {e}
        /\ k.conversation.status = "ESCALATED"
    BY <1>2 DEF MayUpdateEscalation, Case, EscalationRow, EscalationStatus,
                CaseInv, EscalatedIffUnresolved, ActiveEscalations
  <2>3. /\ item.assigned_agent_id = NextAssignee(k.escalations[e], changes)
        /\ item.resolved_at = IF "status" \in changes.keys
                               THEN Stamp(k.escalations[e].resolved_at)
                               ELSE k.escalations[e].resolved_at
        /\ "status" \in changes.keys => item.status = "RESOLVED"
        /\ "status" \notin changes.keys => item.status =
             IF "assigned_agent_id" \notin changes.keys THEN k.escalations[e].status
             ELSE IF item.assigned_agent_id # None THEN "ASSIGNED" ELSE "OPEN"
    BY DEF UpdatedItem
  <2>4. /\ row.ended_at = k.conversation.ended_at
        /\ row.assigned_agent_id =
             IF "assigned_agent_id" \in changes.keys /\ changes.assigned_agent_id # None
             THEN changes.assigned_agent_id ELSE k.conversation.assigned_agent_id
        /\ "status" \notin changes.keys => row.status = "ESCALATED"
        /\ "status" \in changes.keys => row.status =
             IF row.assigned_agent_id # None THEN "IN_PROGRESS" ELSE "OPEN"
    BY <2>2 DEF HandedBackRow, Case, ConversationRow
  <2>5. /\ k.escalations[e].status = "ASSIGNED"
             <=> k.escalations[e].assigned_agent_id # None
        /\ k.escalations[e].assigned_agent_id # None
             => k.conversation.assigned_agent_id # None
    BY <2>2 DEF CaseInv, AssigneesFollowStatus
  <2> HIDE DEF k2, item, row
  <2>6. ActiveEscalations(k2) = IF "status" \in changes.keys THEN {} ELSE {e}
    BY <2>1, <2>2, <2>3 DEF ActiveEscalations
  <2>7. EscalatedIffUnresolved(k2)
    BY <2>1, <2>4, <2>6 DEF EscalatedIffUnresolved
  <2>8. FinishedHasNoActiveCall(k2)
    BY <2>1, <2>4 DEF FinishedHasNoActiveCall, Finished
  <2>9. AssigneesFollowStatus(k2)
    <3>1. k2.conversation.status \in {"OPEN", "ABSENT"}
            => k2.conversation.assigned_agent_id = None
      BY <2>1, <2>4
    <3>2. CASE "status" \in changes.keys
      BY <2>6, <3>1, <3>2 DEF AssigneesFollowStatus
    <3>3. CASE "status" \notin changes.keys
      <4>1. /\ item.status = "ASSIGNED" <=> item.assigned_agent_id # None
            /\ item.assigned_agent_id # None => row.assigned_agent_id # None
        BY <2>2, <2>3, <2>4, <2>5, <3>3 DEF NextAssignee
      <4> QED BY <2>1, <2>6, <3>1, <3>3, <4>1 DEF AssigneesFollowStatus
    <3> QED BY <3>2, <3>3
  <2>10. StampsFollowStatus(k2)
    <3>1. item.resolved_at = IF item.status = "RESOLVED" THEN 1 ELSE 0
      BY <2>2, <2>3, FirstStamp DEF CaseInv, StampsFollowStatus
    <3> QED BY <2>1, <2>2, <2>4, <3>1 DEF CaseInv, StampsFollowStatus, Finished
  <2>11. RowsHaveAConversation(k2)
    BY <2>1, <2>4 DEF RowsHaveAConversation
  <2>12. HistoryKept(k, k2)
    BY <1>2, <2>1, <2>2, <2>4 DEF HistoryKept
  <2> QED BY <2>7, <2>8, <2>9, <2>10, <2>11, <2>12 DEF CaseInv, k2
<1> QED BY <1>1, <1>2

\* A call is only created on a conversation that is not finished.
LEMMA CreateCallInv ==
  ASSUME NEW k \in Case, CaseInv(k), NEW actor, NEW a \in Agents \cup {None},
         NEW available, MayCreateCall(k, actor, a, available)
  PROVE  CaseInv(CreateCall(k, a)) /\ HistoryKept(k, CreateCall(k, a))
<1> DEFINE k2 == CreateCall(k, a)
<1>1. /\ k2.conversation = k.conversation
      /\ k2.escalations = k.escalations
      /\ k2.call.status = "INITIATED"
      /\ k2.call.answered_at = 0
      /\ k2.call.ended_at = 0
  BY DEF CreateCall, Case
<1>2. /\ k.conversation.status \notin {"RESOLVED", "CLOSED", "ABSENT"}
      /\ k.call.status = "ABSENT"
  BY DEF MayCreateCall, Finished
<1>3. ActiveEscalations(k2) = ActiveEscalations(k)
  BY <1>1 DEF ActiveEscalations
<1> HIDE DEF k2
<1>4. EscalatedIffUnresolved(k2)
  BY <1>1, <1>3 DEF CaseInv, EscalatedIffUnresolved
<1>5. FinishedHasNoActiveCall(k2)
  BY <1>1, <1>2 DEF FinishedHasNoActiveCall, Finished
<1>6. AssigneesFollowStatus(k2)
  BY <1>1, <1>3 DEF CaseInv, AssigneesFollowStatus
<1>7. StampsFollowStatus(k2)
  BY <1>1 DEF CaseInv, StampsFollowStatus, TerminalCall
<1>8. RowsHaveAConversation(k2)
  BY <1>1, <1>2 DEF RowsHaveAConversation
<1>9. HistoryKept(k, k2)
  BY <1>1, <1>2 DEF HistoryKept, TerminalCall, Finished
<1> QED BY <1>4, <1>5, <1>6, <1>7, <1>8, <1>9 DEF CaseInv, k2

\* A call moves along its table: answered once, ended once, never reopened.
LEMMA UpdateCallInv ==
  ASSUME NEW k \in Case, CaseInv(k), NEW actor, NEW s \in CallStatus,
         MayUpdateCall(k, actor, s)
  PROVE  CaseInv(UpdateCall(k, s)) /\ HistoryKept(k, UpdateCall(k, s))
<1> DEFINE k2 == UpdateCall(k, s)
<1>1. CASE s = k.call.status
  BY <1>1 DEF UpdateCall, HistoryKept, Finished
<1>2. CASE s # k.call.status
  <2>1. /\ k2.conversation = k.conversation
        /\ k2.escalations = k.escalations
        /\ k2.call.status = s
        /\ k2.call.answered_at = IF s = "ANSWERED" THEN Stamp(k.call.answered_at)
                                                   ELSE k.call.answered_at
        /\ k2.call.ended_at = IF s \in TerminalCall THEN Stamp(k.call.ended_at)
                                                     ELSE k.call.ended_at
    BY <1>2 DEF UpdateCall, MovedCall, Case, CallRow
  <2>2. /\ k.call.status \in CallStatus
        /\ s \in CallTransitions[k.call.status]
    BY <1>2 DEF MayUpdateCall, Case, CallRow
  <2>3. \/ s = "RINGING" /\ k.call.status = "INITIATED"
        \/ s = "ANSWERED" /\ k.call.status \in {"INITIATED", "RINGING"}
        \/ s = "COMPLETED" /\ k.call.status = "ANSWERED"
        \/ s \in {"MISSED", "CANCELLED"} /\ k.call.status \in {"INITIATED", "RINGING"}
        \/ s = "FAILED" /\ k.call.status \in {"INITIATED", "RINGING", "ANSWERED"}
    BY <2>2 DEF CallTransitions, CallStatus
  <2>4. ActiveEscalations(k2) = ActiveEscalations(k)
    BY <2>1 DEF ActiveEscalations
  <2>5. HasActiveCall(k)
    BY <2>3 DEF HasActiveCall, ActiveCall
  <2> HIDE DEF k2
  <2>6. EscalatedIffUnresolved(k2)
    BY <2>1, <2>4 DEF CaseInv, EscalatedIffUnresolved
  <2>7. FinishedHasNoActiveCall(k2)
    BY <2>1, <2>5 DEF CaseInv, FinishedHasNoActiveCall
  <2>8. AssigneesFollowStatus(k2)
    BY <2>1, <2>4 DEF CaseInv, AssigneesFollowStatus
  <2>9. StampsFollowStatus(k2)
    BY <2>1, <2>3, FirstStamp DEF CaseInv, StampsFollowStatus, TerminalCall
  <2>10. RowsHaveAConversation(k2)
    BY <2>1, <2>3 DEF CaseInv, RowsHaveAConversation, NoCase, NoCall
  <2>11. HistoryKept(k, k2)
    BY <2>1, <2>3 DEF HistoryKept, TerminalCall, Finished
  <2> QED BY <2>6, <2>7, <2>8, <2>9, <2>10, <2>11 DEF CaseInv, k2
<1> QED BY <1>1, <1>2

-----------------------------------------------------------------------------
(***************************************************************************)
(* The desk                                                                *)
(***************************************************************************)

\* The inductive invariant: every case is well formed and consistent.
DeskInv == TypeOK /\ \A c \in Conversations : CaseInv(cases[c])

-----------------------------------------------------------------------------
(***************************************************************************)
(* One step                                                                *)
(***************************************************************************)

\* A step of the desk is a step of one case, which the handlers keep well formed
\* and consistent and whose history they keep.
LEMMA HandlerKeepsCase ==
  ASSUME DeskInv, NEW c \in Conversations,
         \/ \E channel \in ConversationChannel : CreateConversation(c, channel)
         \/ AssignConversation(c)
         \/ TransitionConversation(c)
         \/ CreateEscalation(c)
         \/ PatchEscalation(c)
         \/ CreateCallRecord(c)
         \/ PatchCall(c)
  PROVE  \E k2 \in Case : /\ Put(c, k2)
                          /\ CaseInv(k2)
                          /\ HistoryKept(cases[c], k2)
<1>1. cases[c] \in Case /\ CaseInv(cases[c])
  BY DEF DeskInv, TypeOK
<1>2. ASSUME NEW channel \in ConversationChannel, CreateConversation(c, channel)
      PROVE  \E k2 \in Case : /\ Put(c, k2) /\ CaseInv(k2)
                              /\ HistoryKept(cases[c], k2)
  <2>1. cases[c] = NoCase
    BY <1>1, <1>2 DEF CreateConversation, CaseInv, RowsHaveAConversation
  <2>2. HistoryKept(NoCase, Created(channel))
    BY DEF HistoryKept, NoCase, NoEscalation, NoCall, Created, TerminalCall
  <2> QED BY <1>2, <2>1, <2>2, CreatedType, CreatedInv DEF CreateConversation
<1>3. CASE AssignConversation(c)
  BY <1>1, <1>3, AssignType, AssignInv DEF AssignConversation
<1>4. CASE TransitionConversation(c)
  BY <1>1, <1>4, TransitionType, TransitionInv DEF TransitionConversation
<1>5. CASE CreateEscalation(c)
  BY <1>1, <1>5, EscalateType, EscalateInv DEF CreateEscalation
<1>6. CASE PatchEscalation(c)
  BY <1>1, <1>6, UpdateEscalationType, UpdateEscalationInv DEF PatchEscalation
<1>7. CASE CreateCallRecord(c)
  BY <1>1, <1>7, CreateCallType, CreateCallInv DEF CreateCallRecord
<1>8. CASE PatchCall(c)
  BY <1>1, <1>8, UpdateCallType, UpdateCallInv DEF PatchCall
<1> QED BY <1>2, <1>3, <1>4, <1>5, <1>6, <1>7, <1>8

\* A case that nothing happens to keeps its history.
LEMMA HistoryKeptRefl == \A k \in Case : HistoryKept(k, k)
BY DEF HistoryKept, Finished

\* The initial desk satisfies the inductive invariant.
LEMMA InitInv == Init => DeskInv
BY NoCaseType, NoCaseInv DEF Init, DeskInv, TypeOK

\* Every step preserves the inductive invariant and keeps every history.
LEMMA NextInv ==
  ASSUME DeskInv, [Next]_cases
  PROVE  /\ DeskInv'
         /\ \A c \in Conversations : HistoryKept(cases[c], cases'[c])
<1>1. \A c \in Conversations : cases[c] \in Case /\ HistoryKept(cases[c], cases[c])
  BY HistoryKeptRefl DEF DeskInv, TypeOK
<1>2. CASE UNCHANGED cases
  BY <1>1, <1>2 DEF DeskInv, TypeOK
<1>3. CASE Next
  <2>1. PICK c \in Conversations :
          \/ \E channel \in ConversationChannel : CreateConversation(c, channel)
          \/ AssignConversation(c)
          \/ TransitionConversation(c)
          \/ CreateEscalation(c)
          \/ PatchEscalation(c)
          \/ CreateCallRecord(c)
          \/ PatchCall(c)
    BY <1>3 DEF Next
  <2>2. PICK k2 \in Case : /\ Put(c, k2)
                           /\ CaseInv(k2)
                           /\ HistoryKept(cases[c], k2)
    BY <2>1, HandlerKeepsCase
  <2>3. \A d \in Conversations : cases'[d] = IF d = c THEN k2 ELSE cases[d]
    BY <2>2 DEF Put, DeskInv, TypeOK
  <2>4. cases' \in [Conversations -> Case]
    BY <2>2 DEF Put, DeskInv, TypeOK
  <2> QED BY <1>1, <2>2, <2>3, <2>4 DEF DeskInv, TypeOK
<1> QED BY <1>2, <1>3

-----------------------------------------------------------------------------
(***************************************************************************)
(* The theorems                                                            *)
(***************************************************************************)

\* The inductive invariant holds in every state of the desk.
THEOREM DeskInvariant == Spec => []DeskInv
<1>1. Init => DeskInv
  BY InitInv
<1>2. DeskInv /\ [Next]_cases => DeskInv'
  BY NextInv
<1> QED BY <1>1, <1>2, PTL DEF Spec

\* Type correctness: every column holds a value its model class allows.
THEOREM DeskTypeCorrect == Spec => []TypeOK
<1>1. DeskInv => TypeOK
  BY DEF DeskInv
<1> QED BY <1>1, DeskInvariant, PTL

\* ESCALATED conversations are exactly those with one unresolved escalation.
THEOREM EscalationsInForce == Spec => []OneEscalationInForce
<1>1. DeskInv => OneEscalationInForce
  BY DEF DeskInv, CaseInv, OneEscalationInForce
<1> QED BY <1>1, DeskInvariant, PTL

\* No call is active on a conversation that was resolved or closed.
THEOREM CallsEndFirst == Spec => []NoCallOutlivesConversation
<1>1. DeskInv => NoCallOutlivesConversation
  BY DEF DeskInv, CaseInv, NoCallOutlivesConversation
<1> QED BY <1>1, DeskInvariant, PTL

\* Assignees and statuses agree across the three tables.
THEOREM AssigneesConsistent == Spec => []AssigneesAgree
<1>1. DeskInv => AssigneesAgree
  BY DEF DeskInv, CaseInv, AssigneesAgree
<1> QED BY <1>1, DeskInvariant, PTL

\* Timestamps are stamped once, by the step they record.
THEOREM StampedOnce == Spec => []StampsAgree
<1>1. DeskInv => StampsAgree
  BY DEF DeskInv, CaseInv, StampsAgree
<1> QED BY <1>1, DeskInvariant, PTL

\* Nothing that is over is rewritten.
THEOREM HistoryTheorem == Spec => HistoryIsKept
<1>1. DeskInv /\ [Next]_cases =>
        [\A c \in Conversations : HistoryKept(cases[c], cases'[c])]_cases
  BY NextInv
<1> QED BY <1>1, DeskInvariant, PTL DEF Spec, HistoryIsKept

-----------------------------------------------------------------------------
(***************************************************************************)
(* The serial desk implements CaseContract: every step of a case is a step *)
(* of its phase, a step of its line, or neither.                           *)
(***************************************************************************)

\* What the contract lets one handler do to the phase and the line of a case.
ContractStep(k, k2) ==
  \/ /\ PhaseOf(k2) = PhaseOf(k)
     /\ LineOf(k2) = LineOf(k)
  \/ /\ LineOf(k2) = LineOf(k)
     /\ \/ PhaseOf(k) = "absent" /\ PhaseOf(k2) = "live"
        \/ PhaseOf(k) = "live" /\ PhaseOf(k2) = "escalated"
        \/ PhaseOf(k) = "escalated" /\ PhaseOf(k2) = "live"
        \/ PhaseOf(k) = "live" /\ PhaseOf(k2) = "resolved" /\ LineOf(k) # "active"
        \/ PhaseOf(k) = "resolved" /\ PhaseOf(k2) = "closed"
  \/ /\ PhaseOf(k2) = PhaseOf(k)
     /\ PhaseOf(k) \in {"live", "escalated"}
     /\ \/ LineOf(k) = "none" /\ LineOf(k2) = "active"
        \/ LineOf(k) = "active" /\ LineOf(k2) = "over"

-----------------------------------------------------------------------------
(***************************************************************************)
(* The handlers                                                            *)
(***************************************************************************)

\* The phase and the line of a case as conditions on two columns.
LEMMA PhaseAndLine ==
  ASSUME NEW k \in Case
  PROVE  /\ PhaseOf(k) = "absent" <=> k.conversation.status = "ABSENT"
         /\ PhaseOf(k) = "live" <=>
              k.conversation.status \in {"OPEN", "IN_PROGRESS", "WAITING"}
         /\ PhaseOf(k) = "escalated" <=> k.conversation.status = "ESCALATED"
         /\ PhaseOf(k) = "resolved" <=> k.conversation.status = "RESOLVED"
         /\ PhaseOf(k) = "closed" <=> k.conversation.status = "CLOSED"
         /\ LineOf(k) = "none" <=> k.call.status = "ABSENT"
         /\ LineOf(k) = "active" <=> HasActiveCall(k)
         /\ LineOf(k) = "over" <=> k.call.status \in TerminalCall
<1>1. k.conversation.status \in
        {"ABSENT", "OPEN", "IN_PROGRESS", "WAITING", "ESCALATED", "RESOLVED", "CLOSED"}
  BY DEF Case, ConversationRow, ConversationStatus
<1>2. k.call.status \in {"ABSENT"} \cup ActiveCall \cup TerminalCall
  BY CallStatusesApart DEF Case, CallRow
<1>3. "ABSENT" \notin ActiveCall \cup TerminalCall
  BY DEF ActiveCall, TerminalCall
<1>4. /\ PhaseOf(k) = "absent" <=> k.conversation.status = "ABSENT"
      /\ PhaseOf(k) = "live" <=>
           k.conversation.status \in {"OPEN", "IN_PROGRESS", "WAITING"}
      /\ PhaseOf(k) = "escalated" <=> k.conversation.status = "ESCALATED"
      /\ PhaseOf(k) = "resolved" <=> k.conversation.status = "RESOLVED"
      /\ PhaseOf(k) = "closed" <=> k.conversation.status = "CLOSED"
  BY <1>1 DEF PhaseOf
<1>5. /\ LineOf(k) = "none" <=> k.call.status = "ABSENT"
      /\ LineOf(k) = "active" <=> HasActiveCall(k)
      /\ LineOf(k) = "over" <=> k.call.status \in TerminalCall
  BY <1>2, <1>3, CallStatusesApart DEF LineOf, HasActiveCall
<1> QED BY <1>4, <1>5

\* A conversation that does not exist is absent, and a new one is live.
LEMMA FirstPhases ==
  /\ PhaseOf(NoCase) = "absent" /\ LineOf(NoCase) = "none"
  /\ \A channel \in ConversationChannel :
       PhaseOf(Created(channel)) = "live" /\ LineOf(Created(channel)) = "none"
<1>1. NoCase.conversation.status = "ABSENT" /\ NoCase.call.status = "ABSENT"
  BY DEF NoCase, NoCall
<1>2. \A channel \in ConversationChannel :
        /\ Created(channel).conversation.status = "OPEN"
        /\ Created(channel).call.status = "ABSENT"
  BY DEF Created, NoCall
<1> QED BY <1>1, <1>2, PhaseAndLine, NoCaseType, CreatedType

\* Two cases with the same call row have the same line, and two with the same
\* conversation status the same phase.
LEMMA SameRowsSamePhase ==
  \A k, k2 : /\ k.call = k2.call => LineOf(k) = LineOf(k2)
             /\ k.conversation.status = k2.conversation.status => PhaseOf(k) = PhaseOf(k2)
BY DEF LineOf, PhaseOf, HasActiveCall

\* assign changes neither the phase nor the line.
LEMMA AssignContract ==
  ASSUME NEW k \in Case, NEW actor, NEW a \in Agents, NEW available,
         MayAssign(k, actor, a, available)
  PROVE  ContractStep(k, Assign(k, a))
<1> DEFINE k2 == Assign(k, a)
<1>1. k2 \in Case
  BY AssignType
<1>2. /\ k2.call = k.call
      /\ k2.conversation.status =
           IF k.conversation.status = "OPEN" THEN "IN_PROGRESS"
                                             ELSE k.conversation.status
  BY DEF Assign, AssignedRow, Case, ConversationRow
<1> HIDE DEF k2
<1>3. LineOf(k2) = LineOf(k) /\ PhaseOf(k2) = PhaseOf(k)
  BY <1>1, <1>2, PhaseAndLine, SameRowsSamePhase
<1> QED BY <1>3 DEF ContractStep, k2

\* transition resolves with a quiet line only, closes, or stays live.
LEMMA TransitionContract ==
  ASSUME NEW k \in Case, NEW actor, NEW s \in ConversationStatus,
         MayTransition(k, actor, s)
  PROVE  ContractStep(k, Transition(k, s))
<1> DEFINE k2 == Transition(k, s)
<1>1. CASE s = k.conversation.status
  BY <1>1 DEF Transition, ContractStep
<1>2. CASE s # k.conversation.status
  <2>1. k2 \in Case
    BY TransitionType
  <2>2. k2.call = k.call /\ k2.conversation.status = s
    BY <1>2 DEF Transition, MovedRow, Case, ConversationRow
  <2>3. /\ k.conversation.status \in ConversationStatus
        /\ s \in ConversationTransitions[k.conversation.status]
        /\ s = "RESOLVED" => ~HasActiveCall(k)
    BY <1>2 DEF MayTransition, Case, ConversationRow
  <2>4. \/ /\ s \in {"IN_PROGRESS", "WAITING"}
           /\ k.conversation.status \in {"OPEN", "IN_PROGRESS", "WAITING"}
        \/ /\ s = "RESOLVED"
           /\ k.conversation.status \in {"OPEN", "IN_PROGRESS", "WAITING"}
           /\ ~HasActiveCall(k)
        \/ s = "CLOSED" /\ k.conversation.status = "RESOLVED"
    BY <2>3 DEF ConversationTransitions, ConversationStatus
  <2> HIDE DEF k2
  <2>5. LineOf(k2) = LineOf(k)
    BY <2>2, SameRowsSamePhase
  <2> QED BY <2>1, <2>2, <2>4, <2>5, PhaseAndLine DEF ContractStep, k2
<1> QED BY <1>1, <1>2

\* Creating an escalation takes a live case to escalated.
LEMMA EscalateContract ==
  ASSUME NEW k \in Case, CaseInv(k), NEW actor, NEW e \in Escalations,
         NEW a \in Agents \cup {None}, NEW p \in Priorities, NEW available,
         MayEscalate(k, actor, e, a, available)
  PROVE  ContractStep(k, Escalate(k, e, a, p))
<1> DEFINE k2 == Escalate(k, e, a, p)
<1>1. k2 \in Case
  BY EscalateType
<1>2. k2.call = k.call /\ k2.conversation.status = "ESCALATED"
  BY DEF Escalate, EscalatedRow, Case, ConversationRow
<1>3. k.conversation.status \in {"OPEN", "IN_PROGRESS", "WAITING"}
  BY DEF MayEscalate, Finished, CaseInv, EscalatedIffUnresolved, Case,
         ConversationRow, ConversationStatus
<1> HIDE DEF k2
<1>4. LineOf(k2) = LineOf(k)
  BY <1>2, SameRowsSamePhase
<1> QED BY <1>1, <1>2, <1>3, <1>4, PhaseAndLine DEF ContractStep, k2

\* Updating an escalation hands the case back or leaves its phase.
LEMMA UpdateEscalationContract ==
  ASSUME NEW k \in Case, CaseInv(k), NEW actor, NEW e \in Escalations,
         NEW changes \in EscalationUpdate, NEW available,
         MayUpdateEscalation(k, actor, e, changes, available)
  PROVE  ContractStep(k, UpdateEscalation(k, e, changes))
<1> DEFINE k2 == UpdateEscalation(k, e, changes)
<1>1. CASE k.escalations[e].status = "RESOLVED"
  BY <1>1 DEF UpdateEscalation, ContractStep
<1>2. CASE k.escalations[e].status # "RESOLVED"
  <2>1. k2 \in Case
    BY UpdateEscalationType
  <2>2. k.conversation.status = "ESCALATED"
    BY <1>2 DEF MayUpdateEscalation, Case, EscalationRow, EscalationStatus,
                CaseInv, EscalatedIffUnresolved, ActiveEscalations
  <2>3. k2.call = k.call
        /\ k2.conversation.status \in {"ESCALATED", "IN_PROGRESS", "OPEN"}
    BY <1>2, <2>2 DEF UpdateEscalation, HandedBackRow, Case, ConversationRow
  <2> HIDE DEF k2
  <2>4. LineOf(k2) = LineOf(k)
    BY <2>3, SameRowsSamePhase
  <2> QED BY <2>1, <2>2, <2>3, <2>4, PhaseAndLine DEF ContractStep, k2
<1> QED BY <1>1, <1>2

\* Creating a call makes an unused line active.
LEMMA CreateCallContract ==
  ASSUME NEW k \in Case, NEW actor, NEW a \in Agents \cup {None}, NEW available,
         MayCreateCall(k, actor, a, available)
  PROVE  ContractStep(k, CreateCall(k, a))
<1> DEFINE k2 == CreateCall(k, a)
<1>1. k2 \in Case
  BY CreateCallType
<1>2. k2.conversation = k.conversation /\ k2.call.status = "INITIATED"
  BY DEF CreateCall, Case
<1>3. /\ k.conversation.status \in {"OPEN", "IN_PROGRESS", "WAITING", "ESCALATED"}
      /\ k.call.status = "ABSENT"
  BY DEF MayCreateCall, Finished, Case, ConversationRow, ConversationStatus
<1> HIDE DEF k2
<1>4. HasActiveCall(k2) /\ PhaseOf(k2) = PhaseOf(k)
  BY <1>2, SameRowsSamePhase DEF HasActiveCall, ActiveCall
<1> QED BY <1>1, <1>3, <1>4, PhaseAndLine DEF ContractStep, k2

\* Updating a call keeps it active or ends it, on a case that is not over.
LEMMA UpdateCallContract ==
  ASSUME NEW k \in Case, CaseInv(k), NEW actor, NEW s \in CallStatus,
         MayUpdateCall(k, actor, s)
  PROVE  ContractStep(k, UpdateCall(k, s))
<1> DEFINE k2 == UpdateCall(k, s)
<1>1. CASE s = k.call.status
  BY <1>1 DEF UpdateCall, ContractStep
<1>2. CASE s # k.call.status
  <2>1. k2 \in Case
    BY UpdateCallType
  <2>2. k2.conversation = k.conversation /\ k2.call.status = s
    BY <1>2 DEF UpdateCall, MovedCall, Case, CallRow
  <2>3. k.call.status \in CallStatus /\ s \in CallTransitions[k.call.status]
    BY <1>2 DEF MayUpdateCall, Case, CallRow
  <2>4. k.call.status \in ActiveCall /\ s \in ActiveCall \cup TerminalCall
    BY <2>3 DEF CallTransitions, CallStatus, ActiveCall, TerminalCall
  <2>5. k.conversation.status \in {"OPEN", "IN_PROGRESS", "WAITING", "ESCALATED"}
    BY <2>4, NoCaseType DEF CaseInv, FinishedHasNoActiveCall, HasActiveCall, Finished,
         RowsHaveAConversation, NoCase, NoCall, ActiveCall, Case, ConversationRow,
         ConversationStatus
  <2> HIDE DEF k2
  <2>6. PhaseOf(k2) = PhaseOf(k)
    BY <2>2, SameRowsSamePhase
  <2>7. \/ HasActiveCall(k2)
        \/ k2.call.status \in TerminalCall
    BY <2>2, <2>4 DEF HasActiveCall
  <2>8. HasActiveCall(k)
    BY <2>4 DEF HasActiveCall
  <2> QED BY <2>1, <2>5, <2>6, <2>7, <2>8, PhaseAndLine DEF ContractStep, k2
<1> QED BY <1>1, <1>2

-----------------------------------------------------------------------------
(***************************************************************************)
(* The desk                                                                *)
(***************************************************************************)

\* A contract step of the case of c is a step of the contract, or a stutter.
LEMMA ContractStepLifts ==
  ASSUME TypeOK, NEW c \in Conversations, NEW k2 \in Case, Put(c, k2),
         ContractStep(cases[c], k2)
  PROVE  [Contract!Next]_(Contract!vars)
<1> DEFINE P == [d \in Conversations |-> PhaseOf(cases[d])]
           L == [d \in Conversations |-> LineOf(cases[d])]
           Q == [d \in Conversations |-> PhaseOf(cases'[d])]
           M == [d \in Conversations |-> LineOf(cases'[d])]
<1>1. \A d \in Conversations : cases'[d] = IF d = c THEN k2 ELSE cases[d]
  BY DEF Put, TypeOK
<1>2. Q = [P EXCEPT ![c] = PhaseOf(k2)] /\ M = [L EXCEPT ![c] = LineOf(k2)]
  BY <1>1
<1>3. /\ P[c] = PhaseOf(cases[c]) /\ L[c] = LineOf(cases[c])
      /\ PhaseOf(k2) = P[c] => Q = P
      /\ LineOf(k2) = L[c] => M = L
  BY <1>2
<1>4. CASE PhaseOf(k2) = P[c] /\ LineOf(k2) = L[c]
  BY <1>3, <1>4 DEF Contract!vars
<1>5. CASE /\ LineOf(k2) = L[c]
           /\ \/ P[c] = "absent" /\ PhaseOf(k2) = "live"
              \/ P[c] = "live" /\ PhaseOf(k2) = "escalated"
              \/ P[c] = "escalated" /\ PhaseOf(k2) = "live"
              \/ P[c] = "live" /\ PhaseOf(k2) = "resolved" /\ L[c] # "active"
              \/ P[c] = "resolved" /\ PhaseOf(k2) = "closed"
  <2>1. M = L /\ Q = [P EXCEPT ![c] = PhaseOf(k2)]
    BY <1>2, <1>3, <1>5
  <2> QED BY <1>5, <2>1 DEF Contract!Next, Contract!Open, Contract!Escalate,
             Contract!HandBack, Contract!Resolve, Contract!Close
<1>6. CASE /\ PhaseOf(k2) = P[c]
           /\ P[c] \in {"live", "escalated"}
           /\ \/ L[c] = "none" /\ LineOf(k2) = "active"
              \/ L[c] = "active" /\ LineOf(k2) = "over"
  <2>1. Q = P /\ M = [L EXCEPT ![c] = LineOf(k2)]
    BY <1>2, <1>3, <1>6
  <2> QED BY <1>6, <2>1 DEF Contract!Next, Contract!Dial, Contract!HangUp
<1> QED BY <1>3, <1>4, <1>5, <1>6 DEF ContractStep

\* Every step of the desk from a state of its invariant is a contract step.
LEMMA NextContract ==
  ASSUME DeskInv, [Next]_cases
  PROVE  [Contract!Next]_(Contract!vars)
<1>1. CASE UNCHANGED cases
  BY <1>1 DEF Contract!vars
<1>2. CASE Next
  <2>1. PICK c \in Conversations :
          \/ \E channel \in ConversationChannel : CreateConversation(c, channel)
          \/ AssignConversation(c)
          \/ TransitionConversation(c)
          \/ CreateEscalation(c)
          \/ PatchEscalation(c)
          \/ CreateCallRecord(c)
          \/ PatchCall(c)
    BY <1>2 DEF Next
  <2>2. cases[c] \in Case /\ CaseInv(cases[c]) /\ TypeOK
    BY DEF DeskInv, TypeOK
  <2>3. \E k2 \in Case : Put(c, k2) /\ ContractStep(cases[c], k2)
    <3>1. ASSUME NEW channel \in ConversationChannel, CreateConversation(c, channel)
          PROVE  \E k2 \in Case : Put(c, k2) /\ ContractStep(cases[c], k2)
      <4>1. cases[c] = NoCase
        BY <2>2, <3>1 DEF CreateConversation, CaseInv, RowsHaveAConversation
      <4> QED BY <3>1, <4>1, FirstPhases, CreatedType DEF CreateConversation, ContractStep
    <3>2. CASE AssignConversation(c)
      BY <2>2, <3>2, AssignType, AssignContract DEF AssignConversation
    <3>3. CASE TransitionConversation(c)
      BY <2>2, <3>3, TransitionType, TransitionContract DEF TransitionConversation
    <3>4. CASE CreateEscalation(c)
      BY <2>2, <3>4, EscalateType, EscalateContract DEF CreateEscalation
    <3>5. CASE PatchEscalation(c)
      BY <2>2, <3>5, UpdateEscalationType, UpdateEscalationContract DEF PatchEscalation
    <3>6. CASE CreateCallRecord(c)
      BY <2>2, <3>6, CreateCallType, CreateCallContract DEF CreateCallRecord
    <3>7. CASE PatchCall(c)
      BY <2>2, <3>7, UpdateCallType, UpdateCallContract DEF PatchCall
    <3> QED BY <2>1, <3>1, <3>2, <3>3, <3>4, <3>5, <3>6, <3>7
  <2> QED BY <2>2, <2>3, ContractStepLifts
<1> QED BY <1>1, <1>2

\* The desk implements the contract: no request, whoever sends it, takes a case
\* along a path the contract does not have.
THEOREM DeskKeepsContract == Spec => KeepsContract
<1>1. Init => Contract!Init
  BY FirstPhases DEF Init, Contract!Init
<1>2. DeskInv /\ [Next]_cases => [Contract!Next]_(Contract!vars)
  BY NextContract
<1> QED BY <1>1, <1>2, DeskInvariant, PTL DEF Spec, KeepsContract, Contract!Spec
=============================================================================
