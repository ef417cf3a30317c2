----------------------------- MODULE MCAccounts -----------------------------
(* Requests are alike, so are addresses, and no property is temporal. *)
EXTENDS Accounts, TLC

Alike == Permutations(Request) \cup Permutations(Address)
=============================================================================
