----------------------------- MODULE MCLogWriter -----------------------------
(* Small instances of LogWriter for TLC. *)
EXTENDS LogWriter

CONSTANTS e1, e2, e3

==============================================================================
