--------------------------- MODULE MCUsageTracker ---------------------------
(* Small instances of UsageTracker for TLC. *)
EXTENDS UsageTracker

CONSTANTS c1, c2, a1, a2

(* Settlements are interchangeable, and so are attempts: c1 is the first   *)
(* to settle, and what it settles is a1.                                   *)
FirstIsFirst ==
    /\ call[c1].attempt # a2
    /\ call[c1].pc = "idle" => call[c2].pc = "idle"

MCSpec == Init /\ [][Next /\ FirstIsFirst']_vars /\ Fairness

==============================================================================
