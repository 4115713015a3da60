-------------------------- MODULE MCAddressGuards --------------------------
(* Small instances of AddressGuards for TLC. *)
EXTENDS AddressGuards, TLC

(* Requests are interchangeable.                                           *)
Symmetry == Permutations(Requests)
=============================================================================
