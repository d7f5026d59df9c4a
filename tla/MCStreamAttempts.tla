--------------------------- MODULE MCStreamAttempts ---------------------------
(***************************************************************************)
(* Instances of StreamAttempts for TLC.                                    *)
(***************************************************************************)
EXTENDS StreamAttempts

===============================================================================
