----------------------------- MODULE MCStreamGate -----------------------------
(***************************************************************************)
(* Instances of StreamGate for TLC.                                        *)
(***************************************************************************)
EXTENDS StreamGate

==============================================================================
