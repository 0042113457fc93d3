----------------------------- MODULE MCTimeline -----------------------------
(***************************************************************************)
(* Instances of Timeline for TLC.                                          *)
(***************************************************************************)
EXTENDS Timeline, TLC

\* Message requests that race are interchangeable.
WriterSymmetry == Permutations(Writers)
=============================================================================
