-------------------------- MODULE MCConcurrentDesk --------------------------
(***************************************************************************)
(* Instances of ConcurrentDesk for TLC.                                    *)
(***************************************************************************)
EXTENDS ConcurrentDesk, TLC

\* Agents are interchangeable, and so are the slots of requests.  Not for runs
\* that check liveness.
ConcurrentSymmetry == Permutations(Agents) \cup Permutations(Requests)
=============================================================================
