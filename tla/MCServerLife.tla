---------------------------- MODULE MCServerLife ----------------------------
(* Small instances of ServerLife, and of the NotifyHub in it, for TLC. *)
EXTENDS ServerLife
=============================================================================
