----------------------------- MODULE MCFallbacks -----------------------------
(***************************************************************************)
(* Instances of Fallbacks for TLC.                                         *)
(***************************************************************************)
EXTENDS Fallbacks

CONSTANTS p, q, keyed, keyless

OnePlugin == <<p>>

(* Two fallbacks, the last at the provider of the primary. A shorter route *)
(* is one whose attempts end the call early.                               *)
TwoFallbacks == {<<keyed, keyless, keyed>>}

==============================================================================
