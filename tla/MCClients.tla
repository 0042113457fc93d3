------------------------------ MODULE MCClients ------------------------------
(***************************************************************************)
(* An instance of Clients for TLC.                                         *)
(***************************************************************************)
EXTENDS Clients, TLC

\* Ids, addresses and keys are interchangeable.
ClientSymmetry ==
  Permutations(Users) \cup Permutations(Profiles) \cup Permutations(Emails)
    \cup Permutations(Keys)
=============================================================================
