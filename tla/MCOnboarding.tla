---------------------------- MODULE MCOnboarding ----------------------------
(* Small instances of Onboarding for TLC. *)
EXTENDS Onboarding, TLC

(* A staff code beyond the first and the largest one. *)
MCTypedCodes == [prefix: {"staff"}, num: {2, MaxInt}]

(* Requests are interchangeable: they name the accounts they create. *)
Symmetry == Permutations(Requests)
=============================================================================
