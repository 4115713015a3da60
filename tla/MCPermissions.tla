---------------------------- MODULE MCPermissions ----------------------------
(* Small instances of Permissions for TLC. *)
EXTENDS Permissions, TLC

Sent(on, off) ==
  [p \in Pairs |-> IF p \in on THEN "granted" ELSE IF p \in off THEN "denied" ELSE "absent"]

CONSTANTS read, write, audit   \* a default of all, of managers, of nobody

(* What clients send: nothing, a default, a pair nobody has by default and *)
(* the wildcard, and denials.                                              *)
MCInputs == {Sent({}, {}), Sent({write}, {read}), Sent({audit, Wild}, {}), Sent({}, Pairs)}

Symmetry == Permutations(Requests)
=============================================================================
