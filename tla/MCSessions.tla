----------------------------- MODULE MCSessions -----------------------------
(* Small instances of Sessions for TLC. *)
EXTENDS Sessions, TLC

(* Requests are interchangeable: tokens are named by their logins.         *)
Symmetry == Permutations(Requests)
=============================================================================
