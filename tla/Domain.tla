------------------------------- MODULE Domain -------------------------------
(***************************************************************************)
(* The enumerations of the support desk and the two transition tables the  *)
(* services consult.  A row that has not been inserted yet has the status  *)
(* "ABSENT", which is no member of any enumeration of the program.         *)
(***************************************************************************)

ConversationChannel == {"CHAT", "VOICE", "PHONE"}

ConversationStatus ==
  {"OPEN", "IN_PROGRESS", "WAITING", "RESOLVED", "CLOSED", "ESCALATED"}

EscalationStatus == {"OPEN", "ASSIGNED", "RESOLVED"}

CallStatus == {"INITIATED", "RINGING", "ANSWERED",
               "COMPLETED", "FAILED", "CANCELLED", "MISSED"}

\* Faulty variant of ConversationTransitions: an agent may take an escalated
\* conversation back into work while the escalation is unresolved.
TransitionsLeavingEscalated ==
  [s \in ConversationStatus |->
     CASE s = "OPEN"        -> {"IN_PROGRESS", "WAITING", "RESOLVED"}
       [] s = "IN_PROGRESS" -> {"WAITING", "RESOLVED"}
       [] s = "WAITING"     -> {"IN_PROGRESS", "RESOLVED"}
       [] s = "RESOLVED"    -> {"CLOSED"}
       [] s = "ESCALATED"   -> {"IN_PROGRESS"}
       [] OTHER             -> {}]

\* The statuses from which ConversationService.transition may move, and where.
\* No entry leads to OPEN or to ESCALATED, and none leaves ESCALATED.
ConversationTransitions ==
  [s \in ConversationStatus |->
     CASE s = "OPEN"        -> {"IN_PROGRESS", "WAITING", "RESOLVED"}
       [] s = "IN_PROGRESS" -> {"WAITING", "RESOLVED"}
       [] s = "WAITING"     -> {"IN_PROGRESS", "RESOLVED"}
       [] s = "RESOLVED"    -> {"CLOSED"}
       [] OTHER             -> {}]

\* Faulty variant of CallTransitions: a call may fail after it was completed.
CallTransitionsAfterEnd ==
  [s \in CallStatus |->
     CASE s = "INITIATED" -> {"RINGING", "ANSWERED", "FAILED", "CANCELLED"}
       [] s = "RINGING"   -> {"ANSWERED", "MISSED", "FAILED", "CANCELLED"}
       [] s = "ANSWERED"  -> {"COMPLETED", "FAILED"}
       [] s = "COMPLETED" -> {"FAILED"}
       [] OTHER           -> {}]

\* The statuses an open call may move to; a terminal call has no entry.
CallTransitions ==
  [s \in CallStatus |->
     CASE s = "INITIATED" -> {"RINGING", "ANSWERED", "FAILED", "CANCELLED"}
       [] s = "RINGING"   -> {"ANSWERED", "MISSED", "FAILED", "CANCELLED"}
       [] s = "ANSWERED"  -> {"COMPLETED", "FAILED"}
       [] OTHER           -> {}]

\* Conversations that accept no assignment, escalation, call or message.
Finished == {"RESOLVED", "CLOSED"}

\* The call statuses has_active_call looks for, and those that end a call.
ActiveCall == {"INITIATED", "RINGING", "ANSWERED"}
TerminalCall == {"COMPLETED", "FAILED", "CANCELLED", "MISSED"}
=============================================================================
