------------------------------ MODULE MCUploads ------------------------------
(* Small instances of Uploads for TLC. *)
EXTENDS Uploads, TLC

(* Uploads and downloads are only compared with themselves. *)
Symmetry == Permutations(Puts) \cup Permutations(Gets)
=============================================================================
