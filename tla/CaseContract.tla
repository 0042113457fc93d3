---------------------------- MODULE CaseContract ----------------------------
(***************************************************************************)
(* What the desk promises of every case, with the rows, the callers and    *)
(* the agents left out: which phase a conversation is in, and whether its  *)
(* phone line is unused, active or over.                                   *)
(***************************************************************************)
CONSTANT Conversations

VARIABLES phase, line

vars == <<phase, line>>

Phase == {"absent", "live", "escalated", "resolved", "closed"}
Line == {"none", "active", "over"}

TypeOK ==
  /\ phase \in [Conversations -> Phase]
  /\ line \in [Conversations -> Line]

Init ==
  /\ phase = [c \in Conversations |-> "absent"]
  /\ line = [c \in Conversations |-> "none"]

Open(c) ==
  /\ phase[c] = "absent"
  /\ phase' = [phase EXCEPT ![c] = "live"]
  /\ UNCHANGED line

Escalate(c) ==
  /\ phase[c] = "live"
  /\ phase' = [phase EXCEPT ![c] = "escalated"]
  /\ UNCHANGED line

HandBack(c) ==
  /\ phase[c] = "escalated"
  /\ phase' = [phase EXCEPT ![c] = "live"]
  /\ UNCHANGED line

\* Neither an escalated conversation nor one with a call on the line resolves.
Resolve(c) ==
  /\ phase[c] = "live"
  /\ line[c] # "active"
  /\ phase' = [phase EXCEPT ![c] = "resolved"]
  /\ UNCHANGED line

Close(c) ==
  /\ phase[c] = "resolved"
  /\ phase' = [phase EXCEPT ![c] = "closed"]
  /\ UNCHANGED line

\* A conversation has one call in its life.
Dial(c) ==
  /\ phase[c] \in {"live", "escalated"}
  /\ line[c] = "none"
  /\ line' = [line EXCEPT ![c] = "active"]
  /\ UNCHANGED phase

HangUp(c) ==
  /\ phase[c] \in {"live", "escalated"}
  /\ line[c] = "active"
  /\ line' = [line EXCEPT ![c] = "over"]
  /\ UNCHANGED phase

Next ==
  \E c \in Conversations :
    \/ Open(c)
    \/ Escalate(c)
    \/ HandBack(c)
    \/ Resolve(c)
    \/ Close(c)
    \/ Dial(c)
    \/ HangUp(c)

Spec == Init /\ [][Next]_vars
=============================================================================
