----------------------------- MODULE MCAccounts -----------------------------
(* Accounts on a small instance.                                           *)
EXTENDS Accounts, TLC

\* The bootstrap identities are told apart, so only these sets are symmetric.
Symmetry == Permutations(Account) \union Permutations(Session) \union Permutations(Client)
=============================================================================
