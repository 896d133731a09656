------------------------------ MODULE MCAccounts ------------------------------
(* Instances of Accounts for TLC. *)
EXTENDS Accounts, TLC

CONSTANTS w1, w2, alice, bob

\* Requests and the accounts of the provider are interchangeable.
Symmetry == Permutations(Workers) \cup Permutations(Subjects)

===============================================================================
