----------------------------- MODULE MCRateLimit -----------------------------
(* Requests are alike, and no property is temporal. *)
EXTENDS RateLimit, TLC

Alike == Permutations(Request)
=============================================================================
