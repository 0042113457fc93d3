---------------------------- MODULE MCCustomers -----------------------------
(***************************************************************************)
(* Instances of Customers for TLC.                                         *)
(***************************************************************************)
EXTENDS Customers, TLC

\* Ids, values and requests are interchangeable.
CustomerSymmetry ==
  Permutations(Customers) \cup Permutations(Conversations)
    \cup Permutations(Requests) \cup Permutations(Values)
=============================================================================
