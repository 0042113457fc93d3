---------------------------- MODULE MCSerialDesk ----------------------------
(***************************************************************************)
(* Instances of SerialDesk for TLC.                                        *)
(***************************************************************************)
EXTENDS SerialDesk, TLC

\* Agents are interchangeable, and so are the ids of escalations.
DeskSymmetry == Permutations(Agents) \cup Permutations(Escalations)
=============================================================================
