------------------------------ MODULE MCPaging ------------------------------
(* Small instances of Paging for TLC. *)
EXTENDS Paging

(* Rows are only compared with themselves. *)
Symmetry == Permutations(Rows)
=============================================================================
