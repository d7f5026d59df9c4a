----------------------------- MODULE RequestLife -----------------------------
(***************************************************************************)
(* What a provider queue promises one request, whatever happens to the     *)
(* queue meanwhile: it is refused before it was accepted, or it is         *)
(* accepted once, executed at most once, and settled once, by an answer or *)
(* by being dropped after its caller's context ended.  An accepted request *)
(* never disappears and its terminal post hooks run at most once.          *)
(***************************************************************************)
EXTENDS Naturals

CONSTANT Requests

VARIABLES stage, \* "new", "queued", "running", "delivered" or "dropped"
          caller, \* "calling", "answered", "refused" or "left"
          gone,   \* requests whose context has ended
          hooked  \* times the terminal post hooks ran

vars == <<stage, caller, gone, hooked>>

Init ==
    /\ stage = [r \in Requests |-> "new"]
    /\ caller = [r \in Requests |-> "calling"]
    /\ gone = {}
    /\ hooked = [r \in Requests |-> 0]

ContextEnds(r) ==
    /\ gone' = gone \cup {r}
    /\ UNCHANGED <<stage, caller, hooked>>

(* Refused, or answered by a plugin's pre hook. *)
Refuse(r) ==
    /\ stage[r] = "new" /\ caller[r] = "calling"
    /\ caller' = [caller EXCEPT ![r] = "refused"]
    /\ \/ UNCHANGED hooked
       \/ hooked' = [hooked EXCEPT ![r] = 1]
    /\ UNCHANGED <<stage, gone>>

Accept(r) ==
    /\ stage[r] = "new" /\ caller[r] = "calling"
    /\ stage' = [stage EXCEPT ![r] = "queued"]
    /\ UNCHANGED <<caller, gone, hooked>>

Start(r) ==
    /\ stage[r] = "queued"
    /\ stage' = [stage EXCEPT ![r] = "running"]
    /\ UNCHANGED <<caller, gone, hooked>>

Settle(r) ==
    /\ stage[r] \in {"queued", "running"}
    /\ stage' = [stage EXCEPT ![r] = "delivered"]
    /\ UNCHANGED <<caller, gone, hooked>>

(* Nobody can be told: only when the context has ended.  A worker that has *)
(* executed the request runs the post hooks itself.                        *)
Drop(r) ==
    /\ stage[r] \in {"queued", "running"} /\ r \in gone
    /\ \/ UNCHANGED hooked
       \/ stage[r] = "running" /\ hooked' = [hooked EXCEPT ![r] = 1]
    /\ stage' = [stage EXCEPT ![r] = "dropped"]
    /\ UNCHANGED <<caller, gone>>

Answer(r) ==
    /\ stage[r] = "delivered" /\ caller[r] = "calling"
    /\ caller' = [caller EXCEPT ![r] = "answered"]
    /\ hooked[r] = 0
    /\ \/ UNCHANGED hooked
       \/ hooked' = [hooked EXCEPT ![r] = 1]
    /\ UNCHANGED <<stage, gone>>

Leave(r) ==
    /\ stage[r] # "new" /\ caller[r] = "calling" /\ r \in gone
    /\ caller' = [caller EXCEPT ![r] = "left"]
    /\ UNCHANGED <<stage, gone, hooked>>

Next == \E r \in Requests :
    \/ ContextEnds(r) \/ Refuse(r) \/ Accept(r) \/ Start(r) \/ Settle(r)
    \/ Drop(r) \/ Answer(r) \/ Leave(r)

Spec == Init /\ [][Next]_vars

==============================================================================
