------------------------------ MODULE Timeline ------------------------------
(***************************************************************************)
(* The messages of a conversation.  MessageService reads the conversation  *)
(* without its lock and inserts later; the desk may resolve or reassign it *)
(* in between.  The foreign key of the insert takes a KEY SHARE lock of    *)
(* the conversation, so that it waits for the request of the desk that     *)
(* holds the row, and the other way round.                                 *)
(*                                                                         *)
(* ConcurrentDesk shows that the desk may be read as one request at a time *)
(* on a conversation; here it locks the row and later handles a request.   *)
(*                                                                         *)
(* created_at is now() of the database, the start of the transaction; the  *)
(* id comes from a sequence when the row is inserted.  The clock is the    *)
(* database's and does not step back.                                      *)
(***************************************************************************)
EXTENDS SerialDesk, FiniteSets

CONSTANTS
  Writers,    \* message requests that may be in flight at once
  Customer,   \* the customer of the conversation, as a sender
  MaxClock,   \* bound of the clock
  MaxId       \* bound of the message ids

ASSUME CustomerIsNoAgent == Customer \notin Agents \cup {None}
ASSUME BoundsAreNatural == MaxClock \in Nat /\ MaxId \in Nat
ASSUME WritersAreFinite == IsFiniteSet(Writers)

VARIABLES
  locked,     \* the conversations a request of the desk holds
  clock,      \* the time
  lastId,     \* the sequence of messages.id
  writers,    \* message requests
  messages    \* committed messages

timelineVars == <<cases, locked, clock, lastId, writers, messages>>

Senders == Agents \cup {Customer}

\* sees are the messages that could be read when the request began.
Writer ==
  [pc           : {"begun", "allowed", "inserted"},
   conversation : Conversations,
   created_at   : 0 .. MaxClock,
   sees         : SUBSET (1 .. MaxId),
   sender       : Senders \cup {None},
   id           : 0 .. MaxId]

NoWriter == [pc |-> "idle"]

\* late: the conversation was finished when the message became visible.
Message ==
  [id           : 1 .. MaxId,
   conversation : Conversations,
   sender       : Senders,
   created_at   : 0 .. MaxClock,
   sees         : SUBSET (1 .. MaxId),
   late         : BOOLEAN]

TimelineTypeOK ==
  /\ TypeOK
  /\ locked \subseteq Conversations
  /\ clock \in 0 .. MaxClock
  /\ lastId \in 0 .. MaxId
  /\ writers \in [Writers -> Writer \cup {NoWriter}]
  /\ messages \subseteq Message

TimelineInit ==
  /\ Init
  /\ locked = {}
  /\ clock = 0
  /\ lastId = 0
  /\ writers = [w \in Writers |-> NoWriter]
  /\ messages = {}

-----------------------------------------------------------------------------
Tick ==
  /\ clock < MaxClock
  /\ clock' = clock + 1
  /\ UNCHANGED <<cases, locked, lastId, writers, messages>>

\* POST /conversations
OpenConversation(c) ==
  /\ \E channel \in ConversationChannel : CreateConversation(c, channel)
  /\ UNCHANGED <<locked, clock, lastId, writers, messages>>

\* A message being inserted holds the key of its conversation.
Inserting(w, c) == writers[w].pc = "inserted" /\ writers[w].conversation = c

LockConversation(c) ==
  /\ c \notin locked
  /\ cases[c].conversation.status # "ABSENT"
  /\ \A w \in Writers : ~Inserting(w, c)
  /\ locked' = locked \cup {c}
  /\ UNCHANGED <<cases, clock, lastId, writers, messages>>

\* The request that holds c commits what its handler did, or rolls back.
HandleAndUnlock(c) ==
  /\ c \in locked
  /\ locked' = locked \ {c}
  /\ \/ AssignConversation(c)
     \/ TransitionConversation(c)
     \/ CreateEscalation(c)
     \/ PatchEscalation(c)
     \/ CreateCallRecord(c)
     \/ PatchCall(c)
     \/ UNCHANGED cases
  /\ UNCHANGED <<clock, lastId, writers, messages>>

\* get_current_user makes the first statement, which opens the transaction.
BeginMessage(w, c) ==
  /\ writers[w] = NoWriter
  /\ writers' = [writers EXCEPT ![w] =
       [pc |-> "begun", conversation |-> c, created_at |-> clock,
        sees |-> {m.id : m \in messages}, sender |-> None, id |-> 0]]
  /\ UNCHANGED <<cases, locked, clock, lastId, messages>>

\* Faulty variant of MayWrite: finished conversations accept messages.
MayWriteFinished(k, actor, sender) ==
  /\ k.conversation.status # "ABSENT"
  /\ sender # Customer =>
       /\ sender = ProfileOf(actor)
       /\ k.conversation.assigned_agent_id \in {None, sender}

\* All staff may write down what the customer said; a reply comes from the agent
\* it names, on a conversation that is its own or nobody's.
MayWrite(k, actor, sender) ==
  /\ k.conversation.status \notin Finished \cup {"ABSENT"}
  /\ sender # Customer =>
       /\ sender = ProfileOf(actor)
       /\ k.conversation.assigned_agent_id \in {None, sender}

\* The reads and the checks of create_message.
AllowMessage(w, sender) ==
  /\ writers[w].pc = "begun"
  /\ \E actor \in Actors : MayWrite(cases[writers[w].conversation], actor, sender)
  /\ writers' = [writers EXCEPT ![w].pc = "allowed", ![w].sender = sender]
  /\ UNCHANGED <<cases, locked, clock, lastId, messages>>

InsertMessage(w) ==
  /\ writers[w].pc = "allowed"
  /\ writers[w].conversation \notin locked
  /\ lastId < MaxId
  /\ lastId' = lastId + 1
  /\ writers' = [writers EXCEPT ![w].pc = "inserted", ![w].id = lastId + 1]
  /\ UNCHANGED <<cases, locked, clock, messages>>

\* Faulty variant of Stored: the sender, which may be NULL, is not written.
StoredAnonymous(w) ==
  LET m == writers[w] IN
  [id           |-> m.id,
   conversation |-> m.conversation,
   sender       |-> None,
   created_at   |-> m.created_at,
   sees         |-> m.sees,
   late         |-> cases[m.conversation].conversation.status \in Finished]

\* The row of a writer's message, as it becomes visible.
Stored(w) ==
  LET m == writers[w] IN
  [id           |-> m.id,
   conversation |-> m.conversation,
   sender       |-> m.sender,
   created_at   |-> m.created_at,
   sees         |-> m.sees,
   late         |-> cases[m.conversation].conversation.status \in Finished]

CommitMessage(w) ==
  /\ writers[w].pc = "inserted"
  /\ messages' = messages \cup {Stored(w)}
  /\ writers' = [writers EXCEPT ![w] = NoWriter]
  /\ UNCHANGED <<cases, locked, clock, lastId>>

RollbackMessage(w) ==
  /\ writers[w] # NoWriter
  /\ writers' = [writers EXCEPT ![w] = NoWriter]
  /\ UNCHANGED <<cases, locked, clock, lastId, messages>>

TimelineNext ==
  \/ Tick
  \/ \E c \in Conversations :
       \/ OpenConversation(c)
       \/ LockConversation(c)
       \/ HandleAndUnlock(c)
  \/ \E w \in Writers :
       \/ \E c \in Conversations : BeginMessage(w, c)
       \/ \E sender \in Senders : AllowMessage(w, sender)
       \/ InsertMessage(w)
       \/ CommitMessage(w)
       \/ RollbackMessage(w)

TimelineSpec == TimelineInit /\ [][TimelineNext]_timelineVars

-----------------------------------------------------------------------------
\* Faulty variant of Precedes: ordered by created_at alone.
PrecedesByTime(m, n) == m.created_at < n.created_at

\* The order message_repository.list returns messages in.
Precedes(m, n) ==
  \/ m.created_at < n.created_at
  \/ m.created_at = n.created_at /\ m.id < n.id

\* README, "ordered oldest first by created_at, then by id": a message written when
\* another could be read comes after it in the timeline, although created_at is fixed when the
\* transaction starts and the id when the row is inserted.
AnswersComeAfter ==
  \A m, n \in messages : m.id \in n.sees => Precedes(m, n)

\* The race with resolution is bounded: into a finished conversation slip at most
\* the messages that were on their way when it finished, one per request in
\* flight, however often the requests are sent again.
FewLateMessages ==
  \A c \in Conversations :
    Cardinality({m \in messages : m.conversation = c /\ m.late}) <= Cardinality(Writers)
=============================================================================
