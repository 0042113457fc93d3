-------------------------- MODULE CallTimes_proofs --------------------------
(***************************************************************************)
(* The duration of a call, for every length of the call and however much   *)
(* the clock is corrected.  While a call goes on, the distance between its *)
(* answer and the clock is the time that passed, give or take the          *)
(* corrections; the end turns that distance into seconds.                  *)
(***************************************************************************)
EXTENDS CallTimes, TLAPS

\* The call has ended.
Over == call.status \in TerminalCall

\* Nobody has answered yet.
Waiting ==
  call.status \in {"INITIATED", "RINGING"} =>
    /\ call.answered_at = None
    /\ call.duration_seconds = 0
    /\ talk = 0
    /\ skew = 0

\* The call goes on: the clock is on track, give or take the corrections.
OnTrack ==
  Talking =>
    /\ call.answered_at \in Clock
    /\ call.duration_seconds = 0
    /\ clock - call.answered_at <= talk + skew
    /\ talk <= clock - call.answered_at + skew

\* The end is dated by what ends the call.
EndedWhenOver == ~Over => call.ended_at = None

\* The inductive invariant.
CallInv ==
  /\ CallTimesTypeOK
  /\ Waiting
  /\ OnTrack
  /\ EndedWhenOver
  /\ Over => DurationIsTalk

\* The statuses of a call: waiting, going on or over.
LEMMA Phases ==
  ASSUME CallTimesTypeOK
  PROVE  /\ Over \/ Talking \/ call.status \in {"INITIATED", "RINGING"}
         /\ Over => ~Talking /\ call.status \notin {"INITIATED", "RINGING"}
BY DEF CallTimesTypeOK, CallRecord, CallStatus, TerminalCall, Over, Talking

\* No transition leads out of a terminal status.
LEMMA TerminalStays ==
  ASSUME NEW s \in TerminalCall
  PROVE  CallTransitions[s] = {}
BY DEF CallTransitions, CallStatus, TerminalCall

\* Where a transition leads, and from where.
LEMMA TransitionsOf ==
  ASSUME NEW s \in CallStatus, NEW t \in CallTransitions[s]
  PROVE  /\ t \in CallStatus
         /\ t \in {"INITIATED", "RINGING"} => s \in {"INITIATED", "RINGING"}
         /\ t = "ANSWERED" => s \in {"INITIATED", "RINGING"}
         /\ t \in TerminalCall => s \in {"INITIATED", "RINGING", "ANSWERED"}
BY DEF CallTransitions, CallStatus, TerminalCall

\* The duration of a talk, from the two dates.
LEMMA DurationBounds ==
  ASSUME NEW answered \in Clock, NEW now \in Clock
  PROVE  /\ Duration(answered, now) \in Nat
         /\ now >= answered => 2 * Duration(answered, now) <= now - answered
         /\ now < answered => Duration(answered, now) = 0
         /\ now - answered < 2 * Duration(answered, now) + 2
BY ClockBounds DEF Clock, Duration, Seconds

\* Initially nobody has answered.
LEMMA CallInitInv == CallTimesInit => CallInv
BY ClockBounds
   DEF CallTimesInit, CallInv, CallTimesTypeOK, CallRecord, CallStatus, Texts, Waiting,
       OnTrack, Talking, EndedWhenOver, Over, TerminalCall

\* The columns a change of status writes.
LEMMA MovedColumns ==
  ASSUME NEW row \in CallRecord, NEW status \in CallStatus, NEW now \in Clock,
         NEW changes \in CallUpdate
  PROVE  LET new == WithTexts(Moved(row, status, now), changes) IN
         /\ new.status = status
         /\ new.answered_at = IF status = "ANSWERED" THEN now ELSE row.answered_at
         /\ new.ended_at = IF status \in TerminalCall THEN now ELSE row.ended_at
         /\ new.duration_seconds =
              IF status \in TerminalCall /\ row.answered_at # None
              THEN Duration(row.answered_at, now) ELSE row.duration_seconds
         /\ new \in CallRecord
<1>1. row.answered_at # None => Duration(row.answered_at, now) \in Nat
  BY DurationBounds DEF CallRecord
<1> QED BY <1>1 DEF WithTexts, Moved, CallRecord, CallUpdate

\* A PATCH that leaves the status alone touches the texts only.
LEMMA TextColumns ==
  ASSUME NEW row \in CallRecord, NEW changes \in CallUpdate
  PROVE  LET new == WithTexts(row, changes) IN
         /\ new.status = row.status
         /\ new.answered_at = row.answered_at
         /\ new.ended_at = row.ended_at
         /\ new.duration_seconds = row.duration_seconds
         /\ new \in CallRecord
BY DEF WithTexts, CallRecord, CallUpdate

\* A PATCH keeps the invariant: the end of a talk stores what OnTrack says of it.
LEMMA PatchInv ==
  ASSUME CallInv, NEW changes \in CallUpdate, Patch(changes)
  PROVE  CallInv'
<1>1. /\ clock \in Clock
      /\ call \in CallRecord
      /\ changes.status \in CallStatus
      /\ call.status \in CallStatus
      /\ talk \in Nat
      /\ skew \in Nat
      /\ UNCHANGED <<clock, talk, skew>>
  BY ClockBounds DEF CallInv, CallTimesTypeOK, Patch, CallUpdate, CallRecord
<1>2. CASE ~Moves(call, changes)
  <2>1. /\ call'.status = call.status
        /\ call'.answered_at = call.answered_at
        /\ call'.ended_at = call.ended_at
        /\ call'.duration_seconds = call.duration_seconds
        /\ call' \in CallRecord
    BY <1>1, <1>2, TextColumns DEF Patch
  <2> QED BY <1>1, <2>1
         DEF CallInv, CallTimesTypeOK, Waiting, OnTrack, Talking, EndedWhenOver, Over,
             DurationIsTalk
<1>3. CASE Moves(call, changes)
  <2> DEFINE status == changes.status
  <2>1. status \in CallTransitions[call.status]
    BY <1>3 DEF Patch
  <2>2. /\ call'.status = status
        /\ call'.answered_at = IF status = "ANSWERED" THEN clock ELSE call.answered_at
        /\ call'.ended_at = IF status \in TerminalCall THEN clock ELSE call.ended_at
        /\ call'.duration_seconds =
             IF status \in TerminalCall /\ call.answered_at # None
             THEN Duration(call.answered_at, clock) ELSE call.duration_seconds
        /\ call' \in CallRecord
    BY <1>1, <1>3, MovedColumns DEF Patch
  <2>3. CallTimesTypeOK'
    BY <1>1, <2>2 DEF CallInv, CallTimesTypeOK
  <2>4. Waiting'
    BY <1>1, <2>1, <2>2, TransitionsOf DEF CallInv, Waiting, TerminalCall
  <2>5. OnTrack'
    BY <1>1, <2>1, <2>2, TransitionsOf, ClockBounds
       DEF CallInv, Waiting, OnTrack, Talking, TerminalCall, Clock
  <2>6. Over' => DurationIsTalk'
    <3> SUFFICES ASSUME status \in TerminalCall
                 PROVE  DurationIsTalk'
      BY <2>2 DEF Over
    <3>1. status # "ANSWERED" /\ call'.answered_at = call.answered_at
      BY <2>2 DEF TerminalCall
    <3>2. CASE call.answered_at = None
      <4>1. call.status \in {"INITIATED", "RINGING"}
        BY <1>1, <2>1, <3>2, TransitionsOf, NoneIsNoTime, ClockBounds
           DEF CallInv, OnTrack, Talking, Clock
      <4> QED BY <1>1, <2>2, <3>1, <3>2, <4>1 DEF CallInv, Waiting, DurationIsTalk
    <3>3. CASE call.answered_at # None
      <4>1. Talking
        BY <1>1, <2>1, <3>3, TransitionsOf DEF CallInv, Waiting, Talking
      <4>2. /\ call.answered_at \in Clock
            /\ clock - call.answered_at <= talk + skew
            /\ talk <= clock - call.answered_at + skew
        BY <4>1 DEF CallInv, OnTrack
      <4> DEFINE seconds == Duration(call.answered_at, clock)
      <4>3. /\ seconds \in Nat
            /\ clock >= call.answered_at => 2 * seconds <= clock - call.answered_at
            /\ clock < call.answered_at => seconds = 0
            /\ clock - call.answered_at < 2 * seconds + 2
        BY <1>1, <4>2, DurationBounds
      <4>4. call'.duration_seconds = seconds
        BY <2>2, <3>3
      <4> HIDE DEF seconds
      <4>5. 2 * seconds <= talk + skew /\ talk < 2 * seconds + 2 + skew
        BY <1>1, <4>2, <4>3, ClockBounds DEF Clock
      <4> QED BY <1>1, <2>2, <3>1, <3>3, <4>4, <4>5 DEF DurationIsTalk
    <3> QED BY <3>2, <3>3
  <2>7. EndedWhenOver'
    BY <1>1, <2>1, <2>2, TerminalStays DEF CallInv, EndedWhenOver, Over
  <2> QED BY <2>3, <2>4, <2>5, <2>6, <2>7 DEF CallInv
<1> QED BY <1>2, <1>3

\* Time that passes, or a correction of the clock, leaves the call alone.
LEMMA ClockInv ==
  ASSUME CallInv, Advance \/ \E time \in Clock : Correct(time)
  PROVE  CallInv'
<1>1. CASE Advance
  <2>1. /\ clock' = clock + 1
        /\ clock' \in Clock
        /\ talk' = IF Talking THEN talk + 1 ELSE talk
        /\ UNCHANGED <<call, skew>>
    BY <1>1, ClockBounds DEF Advance, CallInv, CallTimesTypeOK, Clock
  <2> QED BY <2>1, Phases, ClockBounds
         DEF CallInv, CallTimesTypeOK, Waiting, OnTrack, Talking, EndedWhenOver, Over,
             DurationIsTalk, Clock
<1>2. CASE \E time \in Clock : Correct(time)
  <2>1. PICK time \in Clock : Correct(time)
    BY <1>2
  <2> DEFINE by == IF time < clock THEN clock - time ELSE time - clock
  <2>2. /\ clock' = time
        /\ skew' = IF Talking THEN skew + by ELSE skew
        /\ skew' \in 0..MaxSkew
        /\ UNCHANGED <<call, talk>>
        /\ by \in Nat
    BY <2>1, ClockBounds DEF Correct, CallInv, CallTimesTypeOK, Clock
  <2> QED BY <2>1, <2>2, Phases, ClockBounds
         DEF CallInv, CallTimesTypeOK, Waiting, OnTrack, Talking, EndedWhenOver, Over,
             DurationIsTalk, Clock
<1> QED BY <1>1, <1>2

\* Every step keeps the invariant.
LEMMA CallNextInv ==
  ASSUME CallInv, [CallTimesNext]_callVars
  PROVE  CallInv'
<1>1. CASE UNCHANGED callVars
  BY <1>1 DEF callVars, CallInv, CallTimesTypeOK, Waiting, OnTrack, Talking,
              EndedWhenOver, Over, DurationIsTalk
<1> QED BY <1>1, PatchInv, ClockInv DEF CallTimesNext

\* The inductive invariant holds in every state.
LEMMA CallInvariant == CallTimesSpec => []CallInv
<1>1. CallInv /\ [CallTimesNext]_callVars => CallInv'
  BY CallNextInv
<1> QED BY <1>1, CallInitInv, PTL DEF CallTimesSpec

-----------------------------------------------------------------------------
\* The columns of a call keep their types: no correction of the clock makes a duration
\* negative, which the CHECK of the table would refuse.
THEOREM CallTimesTypeCorrect == CallTimesSpec => []CallTimesTypeOK
<1>1. CallInv => CallTimesTypeOK
  BY DEF CallInv
<1> QED BY <1>1, CallInvariant, PTL

\* duration_seconds is the talk in whole seconds, give or take the corrections.
THEOREM DurationsAreTalk == CallTimesSpec => []DurationIsTalk
<1>1. CallInv => DurationIsTalk
  <2> SUFFICES ASSUME CallInv, ~Over
               PROVE  DurationIsTalk
    BY DEF CallInv
  <2> QED BY Phases DEF CallInv, Waiting, OnTrack, DurationIsTalk, Over
<1> QED BY <1>1, CallInvariant, PTL

\* A call that is over keeps its dates, whatever a client sends again.
THEOREM EndedCallsKeepTimes == CallTimesSpec => EndedCallKeepsItsTimes
<1>1. CallInv /\ [CallTimesNext]_callVars =>
        [call.status \in TerminalCall =>
           /\ call'.status = call.status
           /\ call'.answered_at = call.answered_at
           /\ call'.ended_at = call.ended_at
           /\ call'.duration_seconds = call.duration_seconds]_callVars
  <2> SUFFICES ASSUME CallInv, CallTimesNext, call.status \in TerminalCall
               PROVE  /\ call'.status = call.status
                      /\ call'.answered_at = call.answered_at
                      /\ call'.ended_at = call.ended_at
                      /\ call'.duration_seconds = call.duration_seconds
    BY DEF callVars
  <2>1. CASE \E changes \in CallUpdate : Patch(changes)
    <3>1. PICK changes \in CallUpdate : Patch(changes)
      BY <2>1
    <3>2. ~Moves(call, changes)
      BY <3>1, TerminalStays DEF Patch
    <3> QED BY <3>1, <3>2, TextColumns DEF Patch, CallInv, CallTimesTypeOK
  <2>2. CASE ~\E changes \in CallUpdate : Patch(changes)
    BY <2>2 DEF CallTimesNext, Advance, Correct
  <2> QED BY <2>1, <2>2
<1> QED BY <1>1, CallInvariant, PTL DEF CallTimesSpec, EndedCallKeepsItsTimes

-----------------------------------------------------------------------------
(***************************************************************************)
(* The call of the desk                                                    *)
(***************************************************************************)

\* The desk moves calls as the clock's PATCH does.
LEMMA SameTransitions ==
  /\ Desk!CallStatus = CallStatus
  /\ Desk!TerminalCall = TerminalCall
  /\ \A s \in CallStatus : Desk!CallTransitions[s] = CallTransitions[s]
<1>1. Desk!CallStatus = CallStatus /\ Desk!TerminalCall = TerminalCall
  BY DEF Desk!CallStatus, CallStatus, Desk!TerminalCall, TerminalCall
<1>2. Desk!CallTransitions = CallTransitions
  BY <1>1, Zenon DEF Desk!CallTransitions, CallTransitions
<1> QED BY <1>1, <1>2

\* A row of the desk's calls when its status changes.
LEMMA DeskMoves ==
  ASSUME NEW row \in Desk!CallRow, NEW s \in CallStatus
  PROVE  Desk!MovedCall(row, s) =
           [status      |-> s,
            agent_id    |-> row.agent_id,
            answered_at |-> IF s = "ANSWERED" THEN row.answered_at + 1 ELSE row.answered_at,
            ended_at    |-> IF s \in TerminalCall THEN row.ended_at + 1 ELSE row.ended_at]
<1> DEFINE new == Desk!MovedCall(row, s)
<1>1. /\ new.status = s
      /\ new.agent_id = row.agent_id
      /\ new.answered_at = IF s = "ANSWERED" THEN row.answered_at + 1 ELSE row.answered_at
      /\ new.ended_at = IF s \in TerminalCall THEN row.ended_at + 1 ELSE row.ended_at
  BY SameTransitions DEF Desk!CallRow, Desk!MovedCall, Desk!Stamp
<1>2. new \in Desk!CallRow
  <2>1. /\ row.answered_at + 1 \in Desk!Timestamp
        /\ row.ended_at + 1 \in Desk!Timestamp
        /\ s \in Desk!CallStatus
    BY SameTransitions DEF Desk!CallRow, Desk!Timestamp
  <2> QED BY <2>1 DEF Desk!CallRow, Desk!MovedCall, Desk!Stamp
<1>3. new = [status |-> new.status, agent_id |-> new.agent_id,
             answered_at |-> new.answered_at, ended_at |-> new.ended_at]
  <2> HIDE DEF new
  <2> QED BY <1>2 DEF Desk!CallRow
<1> QED BY <1>1, <1>3

\* A change of status sets the dates the desk stamps.
LEMMA MoveIsDesk ==
  ASSUME CallInv, NEW changes \in CallUpdate, Patch(changes), Moves(call, changes)
  PROVE  Desk!PatchCall("conversation")
<1> DEFINE status == changes.status
           desk == [c \in {"conversation"} |-> CallCase]
<1>1. /\ call \in CallRecord
      /\ clock \in Clock
      /\ status \in CallStatus
      /\ status # call.status
      /\ status \in CallTransitions[call.status]
      /\ call' = WithTexts(Moved(call, status, clock), changes)
  BY DEF CallInv, CallTimesTypeOK, CallUpdate, Moves, Patch
<1>2. /\ call'.status = status
      /\ call'.answered_at = IF status = "ANSWERED" THEN clock ELSE call.answered_at
      /\ call'.ended_at = IF status \in TerminalCall THEN clock ELSE call.ended_at
  BY <1>1, MovedColumns
<1>3. clock # None
  BY <1>1, NoneIsNoTime, ClockBounds DEF Clock
<1>4. call.ended_at = None
  BY <1>1, TerminalStays DEF CallInv, EndedWhenOver, Over
<1>5. status = "ANSWERED" => call.answered_at = None
  BY <1>1, TransitionsOf DEF CallInv, Waiting, CallRecord
<1>6. CountedCall' = Desk!MovedCall(CountedCall, status)
  <2>1. CountedCall \in Desk!CallRow
    BY <1>1, SameTransitions
       DEF CountedCall, Counted, CallRecord, Desk!CallRow, Desk!Timestamp
  <2>2. /\ CountedCall.agent_id = None
        /\ CountedCall.answered_at = Counted(call.answered_at)
        /\ CountedCall.ended_at = Counted(call.ended_at)
    BY DEF CountedCall
  <2>3. CountedCall' = [status      |-> call'.status,
                        agent_id    |-> None,
                        answered_at |-> Counted(call'.answered_at),
                        ended_at    |-> Counted(call'.ended_at)]
    BY DEF CountedCall, Counted
  <2> QED BY <1>1, <1>2, <1>3, <1>4, <1>5, <2>1, <2>2, <2>3, DeskMoves DEF Counted
<1>7. CallCase' = Desk!UpdateCall(CallCase, status)
  BY <1>1, <1>6 DEF CallCase, CountedCall, Desk!UpdateCall
<1>8. Desk!MayUpdateCall(CallCase, "manager", status)
  <2>1. CallCase.call.status = call.status
    BY DEF CallCase, CountedCall
  <2>2. call.status # "ABSENT" /\ call.status \in CallStatus
    BY <1>1 DEF CallRecord, CallStatus
  <2> QED BY <1>1, <2>1, <2>2, SameTransitions DEF Desk!MayUpdateCall, Desk!AuthorizeChange
<1>9. desk["conversation"] = CallCase
  OBVIOUS
<1>10. desk' = [desk EXCEPT !["conversation"] = Desk!UpdateCall(desk["conversation"], status)]
  BY <1>7, <1>9
<1>11. "manager" \in Desk!Actors /\ status \in Desk!CallStatus
  BY <1>1, SameTransitions DEF Desk!Actors
<1> QED BY <1>8, <1>9, <1>10, <1>11 DEF Desk!PatchCall, Desk!Put

\* What Cases counts of a call is what its dates are.
THEOREM CallsFollowDesk == CallTimesSpec => FollowsDesk
<1>1. ASSUME CallInv, [CallTimesNext]_callVars
      PROVE  [Desk!PatchCall("conversation")]_CountedCall
  <2>1. ASSUME NEW changes \in CallUpdate, Patch(changes), ~Moves(call, changes)
        PROVE  UNCHANGED CountedCall
    BY <1>1, <2>1, TextColumns DEF Patch, CallInv, CallTimesTypeOK, CountedCall
  <2>2. ASSUME UNCHANGED call
        PROVE  UNCHANGED CountedCall
    BY <2>2 DEF CountedCall
  <2> QED BY <1>1, <2>1, <2>2, MoveIsDesk DEF CallTimesNext, Advance, Correct, callVars
<1> QED BY <1>1, CallInvariant, PTL DEF CallTimesSpec, FollowsDesk
=============================================================================
