----------------------------- MODULE SessionKeys -----------------------------
(***************************************************************************)
(* Key selection with session stickiness: the part of                      *)
(* selectKeyFromProviderForModelWithPool (src/core/bifrost.go) that decides*)
(* which API key a request may use, for the requests of one session, one   *)
(* provider and one model, over the store of KVStore.                      *)
(*                                                                         *)
(* A request reads the account's keys once; what its model, its kind and   *)
(* the keys' settings leave of them is its pool.  The session's first      *)
(* request stores the key it drew, later ones reuse and renew it.  Between *)
(* any two calls of the store other requests run, the clock moves, and the *)
(* account may change.                                                     *)
(***************************************************************************)
EXTENDS KVStore, FiniteSets

CONSTANTS
    Requests,
    Pools,      \* the sets of usable keys the account may have
    MaxChanges  \* bound on the changes of the account

ASSUME SessionAssumption ==
    /\ Pools \subseteq SUBSET Values
    /\ MaxChanges \in Nat

VARIABLES
    account,    \* the usable keys of the account
    changes,    \* how often it changed
    req         \* the requests: their place and their local variables

vars == <<storeVars, account, changes, req>>

Operations == {"get", "refresh", "drop", "setnx", "reget", "redrop"}
Places == Operations \cup {"idle", "purge", "select", "repurge", "sticky", "plain"}

(* pc: the store operation it is in, or where else it is; at: the time the *)
(* operation read when it was entered, or -1; pool: supportedKeys; seen:   *)
(* the key ID getCachedKeyFromStore found; pick: selectedKey, and in the   *)
(* end the key returned.                                                   *)
Locals ==
    [pc : Places, at : -1..MaxTime, pool : Pools \cup {{}},
     seen : Values \cup {None}, pick : Values \cup {None}]

TypeOK ==
    /\ StoreTypeOK
    /\ account \in Pools
    /\ changes \in 0..MaxChanges
    /\ req \in [Requests -> Locals]

Blank(place, k) ==
    [pc |-> place, at |-> -1, pool |-> {}, seen |-> None, pick |-> k]

Init ==
    /\ StoreInit
    /\ account \in Pools
    /\ changes = 0
    /\ req = [r \in Requests |-> Blank("idle", None)]

-----------------------------------------------------------------------------
(* Moves of one request.                                                   *)

Goto(r, place) == req' = [req EXCEPT ![r].pc = place, ![r].at = -1]

(* getCachedKeyFromStore found key ID k. *)
Saw(r, k, place) ==
    req' = [req EXCEPT ![r].pc = place, ![r].at = -1, ![r].seen = k]

(* The request returns one sticky key, without rotation. *)
Return(r, k) == req' = [req EXCEPT ![r] = Blank("sticky", k)]

Inside(r, op) == req[r].pc = op /\ req[r].at # -1

Others == UNCHANGED <<now, closed, sweepAt, account, changes>>

(* The account hands out its keys.  A direct or pinned key, no key at all, *)
(* a single key, and a request without a session or of a fallback end the  *)
(* selection here, without touching the store.                             *)
Start(r) ==
    /\ req[r].pc = "idle"
    /\ \/ req' = [req EXCEPT ![r] = Blank("plain", None)]
       \/ /\ Cardinality(account) > 1
          /\ req' = [req EXCEPT ![r].pc = "get", ![r].pool = account]
    /\ UNCHANGED <<storeVars, account, changes>>

(* An operation of the store is entered.  A closed store refuses it, and   *)
(* the code goes on without the cache.                                     *)
Call(r) ==
    /\ req[r].pc \in Operations
    /\ req[r].at = -1
    /\ \/ ~closed /\ req' = [req EXCEPT ![r].at = now]
       \/ closed /\ req[r].pc \in {"get", "drop"} /\ Goto(r, "select")
       \/ closed /\ req[r].pc = "refresh" /\ Return(r, req[r].seen)
       \/ closed /\ req[r].pc \in {"setnx", "reget", "redrop"} /\ Return(r, req[r].pick)
    /\ UNCHANGED <<storeVars, account, changes>>

(* getCachedKeyFromStore: the entry is read under the read lock; a lapsed  *)
(* one is deleted afterwards, under the write lock.                        *)
Get(r) ==
    /\ Inside(r, "get")
    /\ \/ entry = None /\ Goto(r, "select")
       \/ entry # None /\ Lapsed(entry, req[r].at) /\ Goto(r, "purge")
       \/ /\ Present(req[r].at)
          /\ Saw(r, entry.key, IF entry.key \in req[r].pool THEN "refresh" ELSE "drop")
    /\ UNCHANGED entry /\ Others

PurgeLapsed(r) ==
    /\ req[r].pc = "purge"
    /\ Purge
    /\ Goto(r, "select")
    /\ Others

(* The key found is used, and its lifetime starts again. *)
Refresh(r) ==
    /\ Inside(r, "refresh")
    /\ Set(req[r].seen, req[r].at)
    /\ Return(r, req[r].seen)
    /\ Others

(* The key found is not in the pool any more. *)
DropStale(r) ==
    /\ Inside(r, "drop")
    /\ Delete
    /\ Goto(r, "select")
    /\ Others

(* The key selector draws from the whole pool. *)
Select(r) ==
    /\ req[r].pc = "select"
    /\ \E k \in req[r].pool :
          req' = [req EXCEPT ![r].pc = "setnx", ![r].pick = k]
    /\ UNCHANGED entry /\ Others

(* The loser of the race keeps its own draw (mutant). *)
StoreSelectedKeepOwn(r) ==
    /\ Inside(r, "setnx")
    /\ \E won \in BOOLEAN : SetNX(req[r].pick, req[r].at, won)
    /\ Return(r, req[r].pick)
    /\ Others

(* The winner returns its key, the loser reads the winner's. *)
StoreSelected(r) ==
    /\ Inside(r, "setnx")
    /\ \/ SetNX(req[r].pick, req[r].at, TRUE) /\ Return(r, req[r].pick)
       \/ SetNX(req[r].pick, req[r].at, FALSE) /\ Goto(r, "reget")
    /\ Others

(* The second getCachedKeyFromStore.  A key found is returned as it is; if *)
(* the entry is gone meanwhile the request returns its own draw.           *)
ReGet(r) ==
    /\ Inside(r, "reget")
    /\ \/ entry = None /\ Return(r, req[r].pick)
       \/ entry # None /\ Lapsed(entry, req[r].at) /\ Goto(r, "repurge")
       \/ /\ Present(req[r].at)
          /\ entry.key \in req[r].pool
          /\ Return(r, entry.key)
       \/ /\ Present(req[r].at)
          /\ entry.key \notin req[r].pool
          /\ Saw(r, entry.key, "redrop")
    /\ UNCHANGED entry /\ Others

RePurge(r) ==
    /\ req[r].pc = "repurge"
    /\ Purge
    /\ Return(r, req[r].pick)
    /\ Others

ReDrop(r) ==
    /\ Inside(r, "redrop")
    /\ Delete
    /\ Return(r, req[r].pick)
    /\ Others

(* The account's keys are changed: added, disabled or removed. *)
ChangeAccount ==
    /\ changes < MaxChanges
    /\ account' \in Pools \ {account}
    /\ changes' = changes + 1
    /\ UNCHANGED <<storeVars, req>>

RequestStep(r) ==
    \/ Start(r) \/ Call(r) \/ Get(r) \/ PurgeLapsed(r) \/ Refresh(r)
    \/ DropStale(r) \/ Select(r) \/ StoreSelected(r) \/ ReGet(r)
    \/ RePurge(r) \/ ReDrop(r)

Next ==
    \/ \E r \in Requests : RequestStep(r)
    \/ ChangeAccount
    \/ StoreStep /\ UNCHANGED <<account, changes, req>>

Spec == Init /\ [][Next]_vars

-----------------------------------------------------------------------------
(* While the account stays as it is, the store open, and the first entry   *)
(* too young to lapse, every request of the session gets the same key,     *)
(* however the requests that found no entry interleave (the loser of       *)
(* SetNXWithTTL re-reads the persisted key).                               *)
Agreement ==
    (changes = 0 /\ now < TTL /\ ~closed) =>
        \A r, s \in Requests :
            (req[r].pc = "sticky" /\ req[s].pc = "sticky") => req[r].pick = req[s].pick

(* A live entry gives way to another key, or to none, only through a       *)
(* request that acts on an older reading: it saw another key under the     *)
(* session, or its pool lacks this one.  Neither the sweeper, nor a Get    *)
(* that found a lapsed entry, nor a SetNXWithTTL takes a live entry from   *)
(* the session (the second look in Get, the check in SetNXWithTTL).        *)
LiveEntryKept ==
    [][ (Present(now) /\ (entry' = None \/ entry'.key # entry.key)) =>
          \E r \in Requests :
            /\ req[r].pc \in {"refresh", "drop", "redrop"}
            /\ req'[r] # req[r]
            /\ req[r].seen # entry.key \/ entry.key \notin req[r].pool ]_vars

==============================================================================
