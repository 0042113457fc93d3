------------------------------ MODULE CallTimes ------------------------------
(***************************************************************************)
(* One call and the clock that dates it.  The desk of Cases only counts    *)
(* how often a column was stamped; here PATCH /calls/{id} writes what the  *)
(* clock of the process that serves it says, duration_seconds is computed  *)
(* from two of those dates, and recording_url and transcript may be set or *)
(* cleared at any time.  The row lock makes a request one step.            *)
(*                                                                         *)
(* The clock counts half seconds: datetime has fractions of a second and   *)
(* duration_seconds has not.  It may be corrected, or the next request may *)
(* be served by a host whose clock differs: talk is the time that really   *)
(* passed since the answer, skew by how much the clock was off track.      *)
(***************************************************************************)
EXTENDS Integers, Domain

CONSTANTS
  None,       \* NULL
  MaxClock,   \* bound on the clock
  MaxSkew     \* bound on the corrections during one call

ASSUME NoneIsNoTime == None \notin Nat
ASSUME ClockBounds == MaxClock \in Nat /\ MaxSkew \in Nat

VARIABLES clock, call, talk, skew

callVars == <<clock, call, talk, skew>>

Clock == 0..MaxClock

\* A text is there or it is not.
Texts == {"text", None}

CallRecord ==
  [status           : CallStatus,
   answered_at      : Clock \cup {None},
   ended_at         : Clock \cup {None},
   duration_seconds : Nat,
   recording_url    : Texts,
   transcript       : Texts]

\* The body of a PATCH: its keys, and the values of those it has.
CallUpdate ==
  [keys          : SUBSET {"status", "recording_url", "transcript"},
   status        : CallStatus,
   recording_url : Texts,
   transcript    : Texts]

CallTimesTypeOK ==
  /\ clock \in Clock
  /\ call \in CallRecord
  /\ talk \in Nat
  /\ skew \in 0..MaxSkew

CallTimesInit ==
  /\ clock \in Clock
  /\ call = [status |-> "INITIATED", answered_at |-> None, ended_at |-> None,
             duration_seconds |-> 0, recording_url |-> None, transcript |-> None]
  /\ talk = 0
  /\ skew = 0

-----------------------------------------------------------------------------
\* timedelta.total_seconds() without its fraction.
Seconds(span) == span \div 2

\* Faulty variant of Duration: a negative span is stored.
DurationSigned(answered, now) == Seconds(now - answered)

\* The column has CHECK (duration_seconds >= 0).
Duration(answered, now) == IF now < answered THEN 0 ELSE Seconds(now - answered)

\* Faulty variant of Moved: only a call that was answered ends.
MovedWhenAnswered(row, status, now) ==
  [row EXCEPT
     !.status = status,
     !.answered_at = IF status = "ANSWERED" THEN now ELSE @,
     !.ended_at = IF status \in TerminalCall /\ row.answered_at # None THEN now ELSE @,
     !.duration_seconds = IF status \in TerminalCall /\ row.answered_at # None
                          THEN Duration(row.answered_at, now) ELSE @]

\* Faulty variant of Moved: the time since the call was made is the duration.
MovedAnyway(row, status, now) ==
  [row EXCEPT
     !.status = status,
     !.answered_at = IF status = "ANSWERED" THEN now ELSE @,
     !.ended_at = IF status \in TerminalCall THEN now ELSE @,
     !.duration_seconds = IF status \in TerminalCall THEN Seconds(now) ELSE @]

Moved(row, status, now) ==
  [row EXCEPT
     !.status = status,
     !.answered_at = IF status = "ANSWERED" THEN now ELSE @,
     !.ended_at = IF status \in TerminalCall THEN now ELSE @,
     !.duration_seconds = IF status \in TerminalCall /\ row.answered_at # None
                          THEN Duration(row.answered_at, now) ELSE @]

\* A status the call already has is no change.
Moves(row, changes) == "status" \in changes.keys /\ changes.status # row.status

WithTexts(row, changes) ==
  [row EXCEPT
     !.recording_url = IF "recording_url" \in changes.keys THEN changes.recording_url ELSE @,
     !.transcript = IF "transcript" \in changes.keys THEN changes.transcript ELSE @]

Patch(changes) ==
  /\ Moves(call, changes) => changes.status \in CallTransitions[call.status]
  /\ call' = WithTexts(IF Moves(call, changes) THEN Moved(call, changes.status, clock)
                                              ELSE call, changes)
  /\ UNCHANGED <<clock, talk, skew>>

Talking == call.status = "ANSWERED"

\* Half a second passes.
Advance ==
  /\ clock < MaxClock
  /\ clock' = clock + 1
  /\ talk' = IF Talking THEN talk + 1 ELSE talk
  /\ UNCHANGED <<call, skew>>

\* The clock is set, forward or back.
Correct(time) ==
  LET by == IF time < clock THEN clock - time ELSE time - clock IN
  /\ clock' = time
  /\ skew' = IF Talking THEN skew + by ELSE skew
  /\ skew' <= MaxSkew
  /\ UNCHANGED <<call, talk>>

CallTimesNext ==
  \/ \E changes \in CallUpdate : Patch(changes)
  \/ Advance
  \/ \E time \in Clock : Correct(time)

CallTimesSpec == CallTimesInit /\ [][CallTimesNext]_callVars

-----------------------------------------------------------------------------
\* The duration of a call that ended is the whole seconds of the talk, off by no
\* more than the clock was: the second a fraction is dropped from, and the
\* corrections between answer and end, one of which may put the end before the
\* answer.  A call nobody answered, or that goes on, has none.
DurationIsTalk ==
  IF call.answered_at # None /\ call.status \in TerminalCall
  THEN /\ 2 * call.duration_seconds <= talk + skew
       /\ talk < 2 * call.duration_seconds + 2 + skew
  ELSE call.duration_seconds = 0

\* A client that sends its last PATCH again, or a late transcript, moves none of the
\* dates of a call that is over, whatever the clock says by then.
EndedCallKeepsItsTimes ==
  [][call.status \in TerminalCall =>
       /\ call'.status = call.status
       /\ call'.answered_at = call.answered_at
       /\ call'.ended_at = call.ended_at
       /\ call'.duration_seconds = call.duration_seconds]_callVars

-----------------------------------------------------------------------------
(***************************************************************************)
(* What the desk keeps of a call are the dates that are set, not what they *)
(* say: 1 for a date, 0 for none.                                          *)
(***************************************************************************)

Counted(date) == IF date = None THEN 0 ELSE 1

\* The call as Cases has it.
CountedCall ==
  [status      |-> call.status,
   agent_id    |-> None,
   answered_at |-> Counted(call.answered_at),
   ended_at    |-> Counted(call.ended_at)]

\* The case of the call: nothing else of it matters to PATCH /calls/{id}.
CallCase ==
  [conversation |-> [channel |-> "VOICE", status |-> "OPEN",
                     assigned_agent_id |-> None, ended_at |-> 0],
   escalations  |-> [e \in {} |-> None],
   call         |-> CountedCall]

Desk == INSTANCE SerialDesk
  WITH Agents <- {}, Escalations <- {}, Priorities <- {}, Manager <- "manager",
       NoProfile <- "nobody", Conversations <- {"conversation"},
       cases <- [c \in {"conversation"} |-> CallCase]

\* The desk may count dates: whatever the clock says and whatever texts come along, a
\* PATCH of the call sets the dates that PatchCall of the desk stamps, when it does, and
\* no other; the clock sets none.
FollowsDesk == [][Desk!PatchCall("conversation")]_CountedCall
=============================================================================
