------------------------------- MODULE KVStore -------------------------------
(***************************************************************************)
(* The in-memory store of src/framework/kvstore/kvstore.go, as one of its  *)
(* keys sees it.  Every operation of the store reads the clock when it is  *)
(* called and takes the mutex later, so a caller is modelled in two steps: *)
(* the call, which fails on a closed store and otherwise notes the time,   *)
(* and the step under the mutex, which uses that time.  The operators      *)
(* below are the steps under the mutex; a module that extends this one     *)
(* says who calls them.                                                    *)
(*                                                                         *)
(* Keys do not interact, so one entry is kept.  Values are model values.   *)
(* A delegate that replicates the store has no implementation in this      *)
(* repository: OnSet, OnDelete, SetRemote, DeleteRemote and the writtenAt  *)
(* field that only they read are left out.                                 *)
(***************************************************************************)
EXTENDS Integers

CONSTANTS
    Values,     \* what is stored: here the IDs of API keys
    TTL,        \* time to live of an entry, in ticks
    MaxTime,    \* bound on the clock
    None        \* no entry; also "no key"

ASSUME StoreAssumption ==
    /\ TTL \in Nat \ {0}
    /\ MaxTime \in Nat
    /\ None \notin Values

VARIABLES
    now,        \* the wall clock
    entry,      \* the entry under the key, or None
    closed,     \* Store.closed
    sweepAt     \* time read by a running cleanupExpired, or -1

storeVars == <<now, entry, closed, sweepAt>>

Entries == [key : Values, expiresAt : Int]
(* A missing entry is a nil pointer. *)
ASSUME NoEntryAssumption == None \notin Entries

StoreTypeOK ==
    /\ now \in 0..MaxTime
    /\ entry \in Entries \cup {None}
    /\ closed \in BOOLEAN
    /\ sweepAt \in -1..MaxTime

StoreInit ==
    /\ now = 0
    /\ entry = None
    /\ closed = FALSE
    /\ sweepAt = -1

-----------------------------------------------------------------------------
(* Steps under the mutex.                                                  *)

Lapsed(e, t) == t >= e.expiresAt

Written(k, t) == [key |-> k, expiresAt |-> t + TTL]

Present(t) == entry # None /\ ~Lapsed(entry, t)

(* SetWithTTL, called at time t. *)
Set(k, t) == entry' = Written(k, t)

(* SetNXWithTTL, called at time t: an entry that had lapsed by then is     *)
(* overwritten.                                                            *)
SetNX(k, t, won) ==
    \/ won /\ ~Present(t) /\ entry' = Written(k, t)
    \/ ~won /\ Present(t) /\ UNCHANGED entry

(* The second half of a Get that found a lapsed entry (mutant): without    *)
(* the second look.                                                        *)
PurgeBlind == entry' = None

(* The second half of a Get that found a lapsed entry: under the write     *)
(* lock it looks again, with a new reading of the clock.                   *)
Purge == entry' = IF entry # None /\ Lapsed(entry, now) THEN None ELSE entry

Delete == entry' = None

-----------------------------------------------------------------------------
(* The store's own goroutine and its owner.                                *)

Tick ==
    /\ now < MaxTime
    /\ now' = now + 1
    /\ UNCHANGED <<entry, closed, sweepAt>>

(* cleanupLoop's ticker fires: cleanupExpired reads the clock first. *)
SweepStart ==
    /\ ~closed
    /\ sweepAt = -1
    /\ sweepAt' = now
    /\ UNCHANGED <<now, entry, closed>>

Sweep ==
    /\ sweepAt # -1
    /\ entry' = IF entry # None /\ Lapsed(entry, sweepAt) THEN None ELSE entry
    /\ sweepAt' = -1
    /\ UNCHANGED <<now, closed>>

Close ==
    /\ ~closed
    /\ closed' = TRUE
    /\ UNCHANGED <<now, entry, sweepAt>>

StoreStep == Tick \/ SweepStart \/ Sweep \/ Close

==============================================================================
