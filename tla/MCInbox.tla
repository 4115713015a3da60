------------------------------- MODULE MCInbox -------------------------------
(* Small instances of Inbox for TLC. *)
EXTENDS Inbox, TLC

(* Requests and texts are interchangeable; accounts are ordered.           *)
Symmetry == Permutations(Requests) \cup Permutations(Texts)
=============================================================================
