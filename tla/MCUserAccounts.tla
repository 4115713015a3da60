--------------------------- MODULE MCUserAccounts ---------------------------
(* Small instances of UserAccounts for TLC. *)
EXTENDS UserAccounts, TLC

(* Requests are interchangeable: a token or an object is only ever compared *)
(* with the request it came from.                                          *)
Symmetry == Permutations(Requests)
=============================================================================
