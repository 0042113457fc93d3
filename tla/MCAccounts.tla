----------------------------- MODULE MCAccounts -----------------------------
(***************************************************************************)
(* Instances of Accounts, with its histories, for TLC.                     *)
(***************************************************************************)
EXTENDS Races, TLC

\* Ids and addresses are interchangeable, and so are sessions that race.
RowSymmetry ==
  Permutations(Users) \cup Permutations(Profiles) \cup Permutations(Emails)

AccountSymmetry == RowSymmetry \cup Permutations(Sessions)
=============================================================================
