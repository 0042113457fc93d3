--------------------------- MODULE Timeline_proofs ---------------------------
(***************************************************************************)
(* The timeline of a conversation, for every number of conversations and   *)
(* of message requests in flight: its types, its order, and how many       *)
(* messages may slip into a finished conversation.                         *)
(***************************************************************************)
EXTENDS Timeline, SerialDesk_proofs, FiniteSetTheorems

Ids == {m.id : m \in messages}

\* What a message request could read is older than its message will be.
WriterHolds(w) ==
  LET q == writers[w] IN
  q # NoWriter =>
    /\ q.sees \subseteq Ids
    /\ q.created_at <= clock
    /\ \A m \in messages : m.id \in q.sees => m.created_at <= q.created_at
    /\ q.pc # "begun" => q.sender \in Senders
    /\ q.pc = "inserted" =>
         /\ q.id \in 1 .. lastId
         /\ q.id \notin Ids
         /\ \A m \in messages : m.id \in q.sees => m.id < q.id

\* The sequence has given out the id of every message, to one of them only.
SequenceHolds ==
  /\ \A m \in messages : m.id <= lastId /\ m.created_at <= clock /\ m.sees \subseteq Ids
  /\ \A v, w \in Writers :
       writers[v].pc = "inserted" /\ writers[w].pc = "inserted"
         /\ writers[v].id = writers[w].id => v = w

\* The messages that came late, and the requests that may still add to them.
Late(c) == {m \in messages : m.conversation = c /\ m.late}

Pending(c) ==
  {w \in Writers : writers[w].pc \in {"allowed", "inserted"} /\ writers[w].conversation = c}

\* The late messages of a finished conversation take the place of requests that
\* were in flight when it finished.
LatenessHolds(c) ==
  /\ IsFiniteSet(Late(c))
  /\ IF cases[c].conversation.status \in Finished
     THEN Cardinality(Late(c)) + Cardinality(Pending(c)) <= Cardinality(Writers)
     ELSE Late(c) = {}

\* The inductive invariant.
TimelineInv ==
  /\ DeskInv
  /\ TimelineTypeOK
  /\ \A w \in Writers : WriterHolds(w)
  /\ SequenceHolds
  /\ AnswersComeAfter
  /\ \A c \in Conversations : LatenessHolds(c)

-----------------------------------------------------------------------------
(***************************************************************************)
(* The desk                                                                *)
(***************************************************************************)

\* What the desk does beside its timeline is what the serial desk does.
LEMMA TimelineStepsDesk == [TimelineNext]_timelineVars => [Next]_cases
<1>1. ASSUME NEW c \in Conversations, OpenConversation(c)
      PROVE  Next
  BY <1>1 DEF OpenConversation, Next
<1>2. ASSUME NEW c \in Conversations, HandleAndUnlock(c)
      PROVE  [Next]_cases
  BY <1>2 DEF HandleAndUnlock, Next
<1> QED BY <1>1, <1>2
        DEF TimelineNext, timelineVars, Tick, LockConversation, BeginMessage,
            AllowMessage, InsertMessage, CommitMessage, RollbackMessage

\* A step of the desk keeps its invariant and leaves finished what is finished.
LEMMA DeskStep ==
  ASSUME DeskInv, [TimelineNext]_timelineVars
  PROVE  /\ DeskInv'
         /\ \A c \in Conversations : cases[c].conversation.status \in Finished
                                       => cases'[c].conversation.status \in Finished
<1>1. [Next]_cases
  BY TimelineStepsDesk
<1>2. /\ DeskInv'
      /\ \A c \in Conversations : HistoryKept(cases[c], cases'[c])
  BY <1>1, NextInv
<1> QED BY <1>2 DEF HistoryKept, Finished

\* A request in flight is a well-formed one.
LEMMA WriterType ==
  ASSUME TimelineTypeOK, NEW w \in Writers, writers[w].pc # "idle"
  PROVE  writers[w] \in Writer /\ writers[w] # NoWriter
BY DEF TimelineTypeOK, NoWriter

-----------------------------------------------------------------------------
(***************************************************************************)
(* Lateness                                                                *)
(***************************************************************************)

\* The requests that may add a late message are finitely many.
LEMMA PendingFinite ==
  ASSUME NEW c
  PROVE  /\ IsFiniteSet(Pending(c))
         /\ Cardinality(Pending(c)) \in Nat
         /\ Cardinality(Writers) \in Nat
         /\ Cardinality(Pending(c)) <= Cardinality(Writers)
<1>1. Pending(c) \in SUBSET Writers
  BY DEF Pending
<1> QED BY <1>1, WritersAreFinite, FS_Subset, FS_CardinalityType

\* No message becomes visible, and no more requests are allowed on a conversation
\* that was finished.
LEMMA LateStays ==
  ASSUME TimelineInv, NEW c \in Conversations,
         messages' = messages,
         cases[c].conversation.status \in Finished
           => /\ cases'[c].conversation.status \in Finished
              /\ Pending(c)' \subseteq Pending(c)
  PROVE  LatenessHolds(c)'
<1>1. LatenessHolds(c)
  BY DEF TimelineInv
<1>2. Late(c)' = Late(c)
  BY DEF Late
<1>3. /\ Cardinality(Late(c)) \in Nat
      /\ Cardinality({}) = 0
  BY <1>1, FS_CardinalityType, FS_EmptySet DEF LatenessHolds
<1>4. /\ Cardinality(Pending(c)') \in Nat
      /\ Cardinality(Pending(c)') <= Cardinality(Writers)
      /\ Cardinality(Writers) \in Nat
  <2>1. Pending(c)' \in SUBSET Writers
    BY DEF Pending
  <2> QED BY <2>1, WritersAreFinite, FS_Subset, FS_CardinalityType
<1>5. CASE cases[c].conversation.status \in Finished
  <2>1. Pending(c)' \in SUBSET Pending(c)
    BY <1>5
  <2>2. Cardinality(Pending(c)') <= Cardinality(Pending(c))
    BY <2>1, PendingFinite, FS_Subset
  <2>3. Cardinality(Pending(c)) \in Nat
    BY PendingFinite
  <2> QED BY <1>1, <1>2, <1>3, <1>4, <1>5, <2>2, <2>3 DEF LatenessHolds
<1>6. CASE cases[c].conversation.status \notin Finished
  BY <1>1, <1>2, <1>3, <1>4, <1>6 DEF LatenessHolds
<1> QED BY <1>5, <1>6

\* A message that becomes visible is no longer in flight.
LEMMA LateGrows ==
  ASSUME TimelineInv, NEW w \in Writers, CommitMessage(w), NEW c \in Conversations
  PROVE  LatenessHolds(c)'
<1>1. LatenessHolds(c)
  BY DEF TimelineInv
<1>2. writers[w] \in Writer /\ writers[w].pc = "inserted"
  BY WriterType DEF CommitMessage, TimelineInv
<1>3. cases'[c] = cases[c]
  BY DEF CommitMessage
<1>4. Pending(c)' = Pending(c) \ {w}
  <2>1. \A v \in Writers : writers'[v] = IF v = w THEN NoWriter ELSE writers[v]
    BY DEF CommitMessage, TimelineInv, TimelineTypeOK
  <2> QED BY <2>1 DEF Pending, NoWriter
<1>5. PICK n : n = Stored(w)
  OBVIOUS
<1>6. /\ messages' = messages \cup {n}
       /\ n.conversation = writers[w].conversation
       /\ n.late = (cases[writers[w].conversation].conversation.status \in Finished)
  BY <1>5 DEF CommitMessage, Stored
<1>7. PICK late : late = Late(c)
  OBVIOUS
<1>8. CASE writers[w].conversation = c /\ cases[c].conversation.status \in Finished
  <2>1. Late(c)' = late \cup {n}
    BY <1>7, <1>6, <1>8 DEF Late
  <2>2. w \in Pending(c)
    BY <1>2, <1>8 DEF Pending
  <2>3. /\ IsFiniteSet(Late(c)')
        /\ Cardinality(Late(c)') <= Cardinality(Late(c)) + 1
        /\ Cardinality(Late(c)') \in Nat
        /\ Cardinality(Late(c)) \in Nat
    <3>1. IsFiniteSet(late)
      BY <1>1, <1>7 DEF LatenessHolds
    <3>2. /\ IsFiniteSet(late \cup {n})
          /\ Cardinality(late \cup {n}) = IF n \in late THEN Cardinality(late)
                                         ELSE Cardinality(late) + 1
      BY <3>1, FS_AddElement
    <3>3. Cardinality(late) \in Nat
      BY <3>1, FS_CardinalityType
    <3> QED BY <1>7, <2>1, <3>2, <3>3
  <2>4. Cardinality(Pending(c)') = Cardinality(Pending(c)) - 1
    BY <1>4, <2>2, PendingFinite, FS_RemoveElement
  <2> QED BY <1>1, <1>3, <1>8, <2>3, <2>4, PendingFinite DEF LatenessHolds
<1>9. CASE ~(writers[w].conversation = c /\ cases[c].conversation.status \in Finished)
  <2>1. Late(c)' = Late(c)
    <3>1. ~(n.conversation = c /\ n.late)
      BY <1>6, <1>9
    <3> QED BY <1>6, <3>1 DEF Late
  <2>2. Pending(c)' \in SUBSET Pending(c)
    BY <1>4
  <2>3. /\ Cardinality(Pending(c)') <= Cardinality(Pending(c))
        /\ Cardinality(Pending(c)') \in Nat
    BY <2>2, PendingFinite, FS_Subset, FS_CardinalityType
  <2>4. Cardinality(Late(c)) \in Nat
    BY <1>1, FS_CardinalityType DEF LatenessHolds
  <2> QED BY <1>1, <1>3, <2>1, <2>3, <2>4, PendingFinite DEF LatenessHolds
<1> QED BY <1>8, <1>9

-----------------------------------------------------------------------------
(***************************************************************************)
(* The initial state and the steps                                         *)
(***************************************************************************)

LEMMA TimelineInitInv == TimelineInit => TimelineInv
<1> SUFFICES ASSUME TimelineInit
             PROVE  TimelineInv
  OBVIOUS
<1>1. DeskInv
  BY InitInv DEF TimelineInit
<1>2. TimelineTypeOK
  BY <1>1, BoundsAreNatural DEF TimelineInit, TimelineTypeOK, DeskInv
<1>3. /\ \A w \in Writers : WriterHolds(w)
      /\ SequenceHolds
      /\ AnswersComeAfter
  BY DEF TimelineInit, WriterHolds, SequenceHolds, AnswersComeAfter, NoWriter
<1>4. \A c \in Conversations : LatenessHolds(c)
  <2> SUFFICES ASSUME NEW c \in Conversations
               PROVE  LatenessHolds(c)
    OBVIOUS
  <2>1. Late(c) = {}
    BY DEF TimelineInit, Late
  <2>2. cases[c].conversation.status \notin Finished
    BY DEF TimelineInit, Init, NoCase, Finished
  <2> QED BY <2>1, <2>2, FS_EmptySet DEF LatenessHolds
<1> QED BY <1>1, <1>2, <1>3, <1>4 DEF TimelineInv

\* A step of the desk or of the clock.
LEMMA DeskOrClockInv ==
  ASSUME TimelineInv,
         \/ Tick
         \/ \E c \in Conversations : OpenConversation(c) \/ LockConversation(c)
                                       \/ HandleAndUnlock(c)
  PROVE  TimelineInv'
<1>1. [TimelineNext]_timelineVars
  BY DEF TimelineNext
<1>2. DeskInv'
  BY <1>1, DeskStep DEF TimelineInv
<1>3. /\ UNCHANGED <<lastId, writers, messages>>
      /\ clock' \in 0 .. MaxClock
      /\ clock <= clock'
      /\ locked' \subseteq Conversations
  BY BoundsAreNatural DEF Tick, OpenConversation, LockConversation, HandleAndUnlock,
     TimelineInv, TimelineTypeOK
<1>4. TimelineTypeOK'
  BY <1>2, <1>3 DEF TimelineInv, TimelineTypeOK, DeskInv
<1>5. \A w \in Writers : WriterHolds(w)'
  <2> SUFFICES ASSUME NEW w \in Writers, writers[w] # NoWriter
               PROVE  WriterHolds(w)'
    BY <1>3 DEF WriterHolds
  <2>1. writers[w].created_at \in Nat /\ clock \in Nat /\ clock' \in Nat
    BY <1>3, BoundsAreNatural DEF TimelineInv, TimelineTypeOK, Writer
  <2> QED BY <1>3, <2>1 DEF TimelineInv, WriterHolds, Ids
<1>6. SequenceHolds'
  <2>1. \A m \in messages : m.created_at \in Nat
    BY BoundsAreNatural DEF TimelineInv, TimelineTypeOK, Message
  <2>2. clock \in Nat /\ clock' \in Nat
    BY <1>3, BoundsAreNatural DEF TimelineInv, TimelineTypeOK
  <2> QED BY <1>3, <2>1, <2>2 DEF TimelineInv, SequenceHolds, Ids
<1>7. AnswersComeAfter'
  BY <1>3 DEF TimelineInv, AnswersComeAfter
<1>8. \A c \in Conversations : LatenessHolds(c)'
  BY <1>1, <1>3, DeskStep, LateStays DEF TimelineInv, Pending
<1> QED BY <1>2, <1>4, <1>5, <1>6, <1>7, <1>8 DEF TimelineInv

\* A message request moves on, and no message becomes visible.
LEMMA WriterStepInv ==
  ASSUME TimelineInv, NEW w \in Writers, NEW q \in Writer \cup {NoWriter},
         writers' = [writers EXCEPT ![w] = q],
         UNCHANGED <<cases, locked, clock, messages>>,
         lastId' \in 0 .. MaxId, lastId <= lastId',
         q # NoWriter =>
           /\ q.sees \subseteq Ids
           /\ q.created_at <= clock
           /\ \A m \in messages : m.id \in q.sees => m.created_at <= q.created_at
           /\ q.pc # "begun" => q.sender \in Senders
           /\ q.pc = "inserted" => lastId < q.id /\ q.id = lastId',
         q.pc \in {"allowed", "inserted"} =>
           \/ cases[q.conversation].conversation.status \notin Finished
           \/ /\ writers[w].pc \in {"allowed", "inserted"}
              /\ writers[w].conversation = q.conversation
  PROVE  TimelineInv'
<1>1. DeskInv'
  BY DEF TimelineInv, DeskInv, TypeOK
<1>2. TimelineTypeOK'
  BY <1>1 DEF TimelineInv, TimelineTypeOK, DeskInv
<1>3. \A v \in Writers : writers'[v] = IF v = w THEN q ELSE writers[v]
  BY DEF TimelineInv, TimelineTypeOK
<1>4. /\ lastId \in Nat
      /\ lastId' \in Nat
      /\ \A m \in messages : m.id \in Nat /\ m.id <= lastId
      /\ \A v \in Writers : writers[v].pc = "inserted" =>
           writers[v].id \in Nat /\ writers[v].id <= lastId
  <2>1. \A v \in Writers : writers[v].pc = "inserted" => writers[v].id \in 1 .. lastId
    BY WriterType DEF TimelineInv, WriterHolds
  <2> QED BY <2>1, BoundsAreNatural
          DEF TimelineInv, TimelineTypeOK, Message, SequenceHolds
<1>5. \A v \in Writers : WriterHolds(v)'
  <2> SUFFICES ASSUME NEW v \in Writers
               PROVE  WriterHolds(v)'
    OBVIOUS
  <2>1. CASE v = w
    <3>1. q.pc = "inserted" /\ q # NoWriter =>
            /\ q.id \in 1 .. lastId'
            /\ q.id \notin Ids
            /\ \A m \in messages : m.id < q.id
      BY <1>4 DEF Ids
    <3> QED BY <1>3, <2>1, <3>1 DEF WriterHolds, Ids
  <2>2. CASE v # w
    <3>1. writers'[v] = writers[v]
      BY <1>3, <2>2
    <3>2. \A i \in 1 .. lastId : i \in 1 .. lastId'
      BY <1>4
    <3> QED BY <3>1, <3>2 DEF TimelineInv, WriterHolds, Ids
  <2> QED BY <2>1, <2>2
<1>6. SequenceHolds'
  <2>1. \A m \in messages : m.id <= lastId' /\ m.created_at <= clock /\ m.sees \subseteq Ids
    BY <1>4 DEF TimelineInv, SequenceHolds
  <2>2. \A v \in Writers : writers'[v].pc = "inserted" /\ v # w =>
                             writers[v].pc = "inserted" /\ writers'[v].id <= lastId
                             /\ writers'[v].id = writers[v].id
    BY <1>3, <1>4
  <2>3. writers'[w].pc = "inserted" => lastId < writers'[w].id
    BY <1>3 DEF NoWriter
  <2>4. \A v \in Writers : writers'[v].pc = "inserted" => writers'[v].id \in Nat
    BY <1>3, <1>4 DEF NoWriter
  <2>5. \A v, x \in Writers :
          writers'[v].pc = "inserted" /\ writers'[x].pc = "inserted"
            /\ writers'[v].id = writers'[x].id => v = x
    BY <1>4, <2>2, <2>3, <2>4 DEF TimelineInv, SequenceHolds
  <2> QED BY <2>1, <2>5 DEF SequenceHolds, Ids
<1>7. AnswersComeAfter'
  BY DEF TimelineInv, AnswersComeAfter
<1>8. \A c \in Conversations : LatenessHolds(c)'
  <2> SUFFICES ASSUME NEW c \in Conversations, cases[c].conversation.status \in Finished
               PROVE  Pending(c)' \subseteq Pending(c)
    BY LateStays
  <2> QED BY <1>3 DEF Pending
<1> QED BY <1>1, <1>2, <1>5, <1>6, <1>7, <1>8 DEF TimelineInv

\* A request that begins, is allowed, inserts its message or is rolled back.
LEMMA WriterMovesInv ==
  ASSUME TimelineInv, NEW w \in Writers,
         \/ \E c \in Conversations : BeginMessage(w, c)
         \/ \E sender \in Senders : AllowMessage(w, sender)
         \/ InsertMessage(w)
         \/ RollbackMessage(w)
  PROVE  TimelineInv'
<1>1. /\ WriterHolds(w)
      /\ writers[w].pc # "idle" => writers[w] \in Writer /\ writers[w] # NoWriter
  BY WriterType DEF TimelineInv
<1>2. lastId \in Nat /\ clock \in Nat /\ lastId \in 0 .. MaxId /\ clock \in 0 .. MaxClock
      /\ 0 \in 0 .. MaxId
  BY BoundsAreNatural DEF TimelineInv, TimelineTypeOK
<1>3. ASSUME NEW c \in Conversations, BeginMessage(w, c)
      PROVE  TimelineInv'
  <2> DEFINE q == [pc |-> "begun", conversation |-> c, created_at |-> clock,
                   sees |-> {m.id : m \in messages}, sender |-> None, id |-> 0]
  <2>1. {m.id : m \in messages} \in SUBSET (1 .. MaxId)
    BY DEF TimelineInv, TimelineTypeOK, Message
  <2>2. q \in Writer
    BY <1>2, <2>1 DEF Writer
  <2>3. \A m \in messages : m.created_at <= clock
    BY DEF TimelineInv, SequenceHolds
  <2>4. /\ q.sees = Ids
        /\ q.created_at = clock
        /\ q.pc = "begun"
    BY DEF Ids
  <2>5. /\ writers' = [writers EXCEPT ![w] = q]
        /\ UNCHANGED <<cases, locked, clock, messages>>
        /\ lastId' = lastId
    BY <1>3 DEF BeginMessage
  <2> HIDE DEF q
  <2>6. lastId' \in 0 .. MaxId /\ lastId <= lastId'
    BY <1>2, <2>5
  <2>7. clock <= clock /\ q.sees \subseteq Ids
    BY <1>2, <2>4
  <2> QED BY <2>2, <2>3, <2>4, <2>5, <2>6, <2>7, WriterStepInv
<1>4. ASSUME NEW sender \in Senders, AllowMessage(w, sender)
      PROVE  TimelineInv'
  <2> DEFINE q == [writers[w] EXCEPT !.pc = "allowed", !.sender = sender]
  <2>1. writers[w].pc = "begun" /\ writers[w] \in Writer
    BY <1>1, <1>4 DEF AllowMessage
  <2>2. /\ q \in Writer
        /\ q.sees = writers[w].sees
        /\ q.created_at = writers[w].created_at
        /\ q.conversation = writers[w].conversation
        /\ q.pc = "allowed"
        /\ q.sender \in Senders
    BY <2>1 DEF Writer
  <2>3. cases[q.conversation].conversation.status \notin Finished
    BY <1>4, <2>2 DEF AllowMessage, MayWrite
  <2>4. /\ writers' = [writers EXCEPT ![w] = q]
        /\ UNCHANGED <<cases, locked, clock, messages>>
        /\ lastId' = lastId
    BY <1>4, <2>1 DEF AllowMessage, TimelineInv, TimelineTypeOK
  <2> HIDE DEF q
  <2>5. lastId' \in 0 .. MaxId /\ lastId <= lastId'
    BY <1>2, <2>4
  <2>6. /\ q.sees \subseteq Ids
        /\ q.created_at <= clock
        /\ \A m \in messages : m.id \in q.sees => m.created_at <= q.created_at
    BY <1>1, <2>1, <2>2 DEF WriterHolds
  <2> QED BY <2>2, <2>3, <2>4, <2>5, <2>6, WriterStepInv
<1>5. CASE InsertMessage(w)
  <2> DEFINE q == [writers[w] EXCEPT !.pc = "inserted", !.id = lastId + 1]
  <2>1. writers[w].pc = "allowed" /\ writers[w] \in Writer
    BY <1>1, <1>5 DEF InsertMessage
  <2>2. lastId' = lastId + 1 /\ lastId' \in 0 .. MaxId /\ lastId < lastId'
    BY <1>2, <1>5, BoundsAreNatural DEF InsertMessage
  <2>3. /\ q \in Writer
        /\ q.sender = writers[w].sender
        /\ q.sees = writers[w].sees
        /\ q.created_at = writers[w].created_at
        /\ q.conversation = writers[w].conversation
        /\ q.pc = "inserted"
        /\ q.id = lastId'
    BY <2>1, <2>2 DEF Writer
  <2>4. /\ writers' = [writers EXCEPT ![w] = q]
        /\ UNCHANGED <<cases, locked, clock, messages>>
    BY <1>5, <2>1 DEF InsertMessage, TimelineInv, TimelineTypeOK
  <2> HIDE DEF q
  <2>5. lastId <= lastId'
    BY <1>2, <2>2
  <2>6. /\ q.sees \subseteq Ids
        /\ q.created_at <= clock
        /\ \A m \in messages : m.id \in q.sees => m.created_at <= q.created_at
        /\ q.sender \in Senders
    BY <1>1, <2>1, <2>3 DEF WriterHolds
  <2> QED BY <2>1, <2>2, <2>3, <2>4, <2>5, <2>6, WriterStepInv
<1>6. CASE RollbackMessage(w)
  <2>1. /\ writers' = [writers EXCEPT ![w] = NoWriter]
        /\ UNCHANGED <<cases, locked, clock, messages>>
        /\ lastId' = lastId
    BY <1>6 DEF RollbackMessage
  <2>2. lastId' \in 0 .. MaxId /\ lastId <= lastId'
    BY <1>2, <2>1
  <2>3. NoWriter.pc = "idle"
    BY DEF NoWriter
  <2> QED BY <2>1, <2>2, <2>3, WriterStepInv
<1> QED BY <1>3, <1>4, <1>5, <1>6

\* A message that becomes visible.
LEMMA CommitInv ==
  ASSUME TimelineInv, NEW w \in Writers, CommitMessage(w)
  PROVE  TimelineInv'
<1>1. /\ writers[w] \in Writer
      /\ writers[w] # NoWriter
      /\ writers[w].pc = "inserted"
      /\ WriterHolds(w)
  BY WriterType DEF CommitMessage, TimelineInv
<1>2. PICK n : n = Stored(w)
  OBVIOUS
<1>3. /\ messages' = messages \cup {n}
      /\ n.id = writers[w].id
      /\ n.created_at = writers[w].created_at
      /\ n.sees = writers[w].sees
      /\ UNCHANGED <<cases, locked, clock, lastId>>
  BY <1>2 DEF CommitMessage, Stored
<1>4. DeskInv'
  BY <1>3 DEF TimelineInv, DeskInv, TypeOK
<1>5. /\ \A v \in Writers : writers'[v] = IF v = w THEN NoWriter ELSE writers[v]
      /\ writers' \in [Writers -> Writer \cup {NoWriter}]
  BY DEF CommitMessage, TimelineInv, TimelineTypeOK
<1>6. TimelineTypeOK'
  <2>1. n \in Message
    <3>1. writers[w].id \in 1 .. MaxId
      BY <1>1, BoundsAreNatural DEF WriterHolds, TimelineInv, TimelineTypeOK
    <3>2. writers[w].sender \in Senders
      BY <1>1 DEF WriterHolds
    <3> QED BY <1>1, <1>2, <3>1, <3>2 DEF Stored, Message, Writer
  <2> QED BY <1>3, <1>4, <1>5, <2>1 DEF TimelineInv, TimelineTypeOK, DeskInv
<1>7. Ids' = Ids \cup {n.id}
  BY <1>3 DEF Ids
<1>8. n.id \notin Ids /\ n.id \in 1 .. lastId
  BY <1>1, <1>3 DEF WriterHolds
<1>9. \A v \in Writers : WriterHolds(v)'
  <2> SUFFICES ASSUME NEW v \in Writers, v # w, writers[v] # NoWriter
               PROVE  WriterHolds(v)'
    BY <1>5 DEF WriterHolds
  <2>1. WriterHolds(v) /\ writers'[v] = writers[v]
    BY <1>5 DEF TimelineInv
  <2>2. n.id \notin writers[v].sees
    BY <1>8, <2>1 DEF WriterHolds
  <2>3. writers[v].pc = "inserted" => writers[v].id # n.id
    BY <1>1, <1>3 DEF TimelineInv, SequenceHolds
  <2> QED BY <1>3, <1>7, <2>1, <2>2, <2>3 DEF WriterHolds
<1>10. SequenceHolds'
  <2>1. n.id <= lastId /\ n.created_at <= clock /\ n.sees \subseteq Ids
    BY <1>1, <1>3, <1>8 DEF WriterHolds, TimelineInv, TimelineTypeOK
  <2>2. \A m \in messages' :
          m.id <= lastId' /\ m.created_at <= clock' /\ m.sees \subseteq Ids'
    BY <1>3, <1>7, <2>1 DEF TimelineInv, SequenceHolds
  <2>3. \A v, x \in Writers :
          writers'[v].pc = "inserted" /\ writers'[x].pc = "inserted"
            /\ writers'[v].id = writers'[x].id => v = x
    BY <1>5 DEF TimelineInv, SequenceHolds, NoWriter
  <2> QED BY <2>2, <2>3 DEF SequenceHolds
<1>11. AnswersComeAfter'
  <2> SUFFICES ASSUME NEW m \in messages', NEW x \in messages', m.id \in x.sees
               PROVE  Precedes(m, x)
    BY DEF AnswersComeAfter, Precedes
  <2>1. x.sees \subseteq Ids
    BY <1>1, <1>3 DEF TimelineInv, SequenceHolds, WriterHolds
  <2>2. m \in messages
    BY <1>3, <1>8, <2>1
  <2>3. CASE x \in messages
    BY <2>2, <2>3 DEF TimelineInv, AnswersComeAfter
  <2>4. CASE x = n
    <3>1. m.created_at <= n.created_at /\ m.id < n.id
      BY <1>1, <1>3, <2>2, <2>4 DEF WriterHolds
    <3>2. m.created_at \in Nat /\ n.created_at \in Nat
      BY <1>1, <1>3, <2>2, BoundsAreNatural
         DEF TimelineInv, TimelineTypeOK, Message, Writer
    <3> QED BY <2>4, <3>1, <3>2 DEF Precedes
  <2> QED BY <1>3, <2>3, <2>4
<1> QED BY <1>4, <1>6, <1>9, <1>10, <1>11, LateGrows DEF TimelineInv

\* Every step keeps the invariant.
LEMMA TimelineNextInv ==
  ASSUME TimelineInv, [TimelineNext]_timelineVars
  PROVE  TimelineInv'
<1>1. CASE UNCHANGED timelineVars
  BY <1>1 DEF timelineVars, TimelineInv, DeskInv, TypeOK, TimelineTypeOK, WriterHolds,
     SequenceHolds, AnswersComeAfter, LatenessHolds, Late, Pending, Ids
<1>2. CASE TimelineNext
  BY <1>2, DeskOrClockInv, WriterMovesInv, CommitInv DEF TimelineNext
<1> QED BY <1>1, <1>2

-----------------------------------------------------------------------------
(***************************************************************************)
(* The theorems                                                            *)
(***************************************************************************)

\* The inductive invariant holds in every state.
LEMMA TimelineInvariant == TimelineSpec => []TimelineInv
<1>1. TimelineInv /\ [TimelineNext]_timelineVars => TimelineInv'
  BY TimelineNextInv
<1> QED BY <1>1, TimelineInitInv, PTL DEF TimelineSpec

\* The desk beside the timeline is the serial desk, so that all that is proved of
\* that one holds here.
THEOREM TimelineKeepsDesk == TimelineSpec => Spec
<1>1. TimelineInit => Init
  BY DEF TimelineInit
<1> QED BY <1>1, TimelineStepsDesk, PTL DEF TimelineSpec, Spec

\* So that beside messages, too, the rows of a case agree, nothing over is rewritten
\* and the lifecycle of a case is that of CaseContract.
THEOREM TimelineDeskSafe ==
  TimelineSpec =>
    /\ [](OneEscalationInForce /\ NoCallOutlivesConversation /\ AssigneesAgree /\ StampsAgree)
    /\ HistoryIsKept
    /\ KeepsContract
BY TimelineKeepsDesk, EscalationsInForce, CallsEndFirst, AssigneesConsistent,
   StampedOnce, HistoryTheorem, DeskKeepsContract, PTL

\* Type correctness of messages and of the requests that write them.
THEOREM TimelineTypeCorrect == TimelineSpec => []TimelineTypeOK
<1>1. TimelineInv => TimelineTypeOK
  BY DEF TimelineInv
<1> QED BY <1>1, TimelineInvariant, PTL

\* Whoever writes after having been able to read a message comes after it.
THEOREM TimelineOrder == TimelineSpec => []AnswersComeAfter
<1>1. TimelineInv => AnswersComeAfter
  BY DEF TimelineInv
<1> QED BY <1>1, TimelineInvariant, PTL

\* A finished conversation takes at most as many messages as requests were in flight.
THEOREM LateMessagesAreFew == TimelineSpec => []FewLateMessages
<1>1. TimelineInv => FewLateMessages
  <2> SUFFICES ASSUME TimelineInv, NEW c \in Conversations
               PROVE  Cardinality(Late(c)) <= Cardinality(Writers)
    BY DEF FewLateMessages, Late
  <2>1. LatenessHolds(c)
    BY DEF TimelineInv
  <2>2. Cardinality(Late(c)) \in Nat /\ Cardinality({}) = 0
    BY <2>1, FS_CardinalityType, FS_EmptySet DEF LatenessHolds
  <2>3. /\ Cardinality(Pending(c)) \in Nat
        /\ Cardinality(Writers) \in Nat
    BY PendingFinite
  <2> QED BY <2>1, <2>2, <2>3 DEF LatenessHolds
<1> QED BY <1>1, TimelineInvariant, PTL
=============================================================================
