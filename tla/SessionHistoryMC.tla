-------------------------- MODULE SessionHistoryMC --------------------------
(* Small instances of SessionHistory for TLC. *)
EXTENDS SessionHistory
=============================================================================
