-------------------------- MODULE SessionKeysProofs --------------------------
(***************************************************************************)
(* Proofs about SessionKeys and the store under it, for any requests, keys,*)
(* pools, lifetime and clock.                                              *)
(***************************************************************************)
EXTENDS SessionKeys, TLAPS

(* No reading of the clock is ahead of it, and an entry lives for TTL.     *)
Timely ==
    /\ \A r \in Requests : req[r].at <= now
    /\ sweepAt <= now
    /\ entry # None => entry.expiresAt >= TTL

(* A request has seen the key it renews, drawn the one it stores, and      *)
(* deletes an entry because its pool lacks the key it saw.                 *)
Informed(l) ==
    /\ l.pc = "refresh" => l.seen \in Values
    /\ l.pc = "setnx" => l.pick \in Values
    /\ l.pc \in {"drop", "redrop"} => l.seen \notin l.pool

AllInformed == \A r \in Requests : Informed(req[r])

(* The case Agreement is about.                                            *)
Undisturbed == changes = 0 /\ now < TTL /\ ~closed

(* What the locals l of a request then owe the entry e: it is never on its *)
(* way to delete one, and from its own look at the entry on, the key it    *)
(* uses is the entry's.                                                    *)
Agrees(l, e) ==
    /\ l.pc \notin {"purge", "drop", "repurge", "redrop"}
    /\ l.pc \in {"get", "select", "setnx", "reget"} => l.pool = account
    /\ l.pc = "setnx" => l.pick \in account
    /\ l.pc \in {"refresh", "reget", "sticky"} => e # None
    /\ l.pc = "refresh" => l.seen = e.key
    /\ l.pc = "sticky" => l.pick = e.key

OneKey ==
    Undisturbed =>
        /\ entry # None => entry.key \in account
        /\ \A r \in Requests : Agrees(req[r], entry)

IInv == TypeOK /\ Timely /\ AllInformed /\ OneKey

USE StoreAssumption, SessionAssumption, NoEntryAssumption

-----------------------------------------------------------------------------
(* The locals of a request that is in no operation.                        *)
LEMMA BlankType ==
    ASSUME NEW place \in {"idle", "sticky", "plain"}, NEW k \in Values \cup {None}
    PROVE  /\ Blank(place, k) \in Locals
           /\ Blank(place, k).pc = place
           /\ Blank(place, k).pick = k
           /\ Blank(place, k).at = -1
BY DEF Blank, Locals, Places, Operations

LEMMA WrittenType ==
    ASSUME NEW k \in Values, NEW t \in 0..MaxTime
    PROVE  /\ Written(k, t) \in Entries /\ Written(k, t) # None
           /\ Written(k, t).key = k
           /\ Written(k, t).expiresAt >= TTL
BY DEF Written, Entries

LEMMA InitInv == Init => IInv
<1> SUFFICES ASSUME Init PROVE IInv
  OBVIOUS
<1>1. ASSUME NEW r \in Requests
      PROVE  req[r] \in Locals /\ req[r].pc = "idle" /\ req[r].at = -1
  BY BlankType DEF Init
<1>2. TypeOK
  <2>1. StoreTypeOK
    <3>1. now \in 0..MaxTime /\ sweepAt \in -1..MaxTime
      BY DEF Init, StoreInit
    <3>2. entry \in Entries \cup {None} /\ closed \in BOOLEAN
      BY DEF Init, StoreInit
    <3> QED
      BY <3>1, <3>2 DEF StoreTypeOK
  <2>2. req \in [Requests -> Locals]
    BY <1>1 DEF Init
  <2> QED
    BY <2>1, <2>2 DEF Init, TypeOK
<1>3. Timely /\ AllInformed
  BY <1>1 DEF Init, StoreInit, Timely, AllInformed, Informed
<1>4. OneKey
  BY <1>1 DEF Init, StoreInit, OneKey, Agrees
<1> QED
  BY <1>2, <1>3, <1>4 DEF IInv

(* The types and bounds every step of a request starts from.               *)
LEMMA Facts ==
    ASSUME IInv, NEW r \in Requests
    PROVE  /\ req[r] \in Locals /\ req[r].pc \in Places
           /\ req[r].at \in -1..MaxTime /\ req[r].at <= now
           /\ req[r].pool \in Pools \cup {{}} /\ req[r].pool \subseteq Values
           /\ req[r].seen \in Values \cup {None} /\ req[r].pick \in Values \cup {None}
           /\ now \in 0..MaxTime /\ now \in Nat
           /\ entry \in Entries \cup {None}
           /\ entry # None => /\ entry.key \in Values /\ entry.expiresAt \in Int
                              /\ entry.expiresAt >= TTL
<1>1. /\ req[r] \in Locals /\ now \in 0..MaxTime /\ now \in Nat
      /\ entry \in Entries \cup {None} /\ req[r].at <= now
      /\ entry # None => entry.expiresAt >= TTL
  BY DEF IInv, TypeOK, StoreTypeOK, Timely
<1>2. /\ req[r].pc \in Places /\ req[r].at \in -1..MaxTime
      /\ req[r].pool \in Pools \cup {{}}
      /\ req[r].seen \in Values \cup {None} /\ req[r].pick \in Values \cup {None}
  BY <1>1 DEF Locals
<1>3. entry # None => entry.key \in Values /\ entry.expiresAt \in Int
  BY <1>1 DEF Entries
<1> QED
  BY <1>1, <1>2, <1>3

-----------------------------------------------------------------------------
LEMMA Updated ==
    ASSUME NEW P, NEW A, NEW L, NEW S, NEW K,
           NEW l \in [pc : P, at : A, pool : L, seen : S, pick : K],
           NEW p \in P, NEW a \in A, NEW s \in S
    PROVE  [l EXCEPT !.pc = p, !.at = a, !.seen = s]
               \in [pc : P, at : A, pool : L, seen : S, pick : K]
OBVIOUS

(* A request that goes elsewhere, having seen key k or nothing new.        *)
LEMMA Elsewhere ==
    ASSUME IInv, NEW r \in Requests, NEW place \in Places, NEW k \in Values \cup {None}
    PROVE  [req[r] EXCEPT !.pc = place, !.at = -1, !.seen = k] \in Locals
<1>1. req[r] \in Locals /\ -1 \in -1..MaxTime
  BY Facts
<1> QED
  BY <1>1, Updated DEF Locals

(* What a step of one request must establish.                              *)
LEMMA StepOf ==
    ASSUME IInv, NEW r \in Requests, Others,
           NEW l \in Locals, req' = [req EXCEPT ![r] = l],
           l.at <= now,
           Informed(l),
           entry' \in Entries \cup {None},
           entry' # None => entry'.expiresAt >= TTL,
           Undisturbed =>
               /\ entry # None => entry' # None /\ entry'.key = entry.key
               /\ entry' # None => entry'.key \in account
               /\ Agrees(l, entry')
    PROVE  IInv'
<1>1. /\ req'[r] = l
      /\ \A s \in Requests : s # r => req'[s] = req[s]
      /\ req' \in [Requests -> Locals]
  BY DEF IInv, TypeOK
<1>2. UNCHANGED <<now, closed, sweepAt, account, changes>>
  BY DEF Others
<1>3. TypeOK'
  BY <1>1, <1>2 DEF IInv, TypeOK, StoreTypeOK
<1>4. Timely' /\ AllInformed'
  BY <1>1, <1>2 DEF IInv, Timely, AllInformed
<1>5. OneKey'
  <2> SUFFICES ASSUME Undisturbed
               PROVE  /\ entry' # None => entry'.key \in account
                      /\ \A s \in Requests : Agrees(req[s], entry)'
    BY <1>2 DEF OneKey, Undisturbed
  <2>1. ASSUME NEW s \in Requests PROVE Agrees(req[s], entry)'
    <3>1. Agrees(req[s], entry)
      BY DEF IInv, OneKey
    <3> QED
      BY <1>1, <1>2, <3>1 DEF Agrees
  <2> QED
    BY <2>1
<1> QED
  BY <1>3, <1>4, <1>5 DEF IInv

(* A request that returns the sticky key k.                                *)
LEMMA ReturnKeeps ==
    ASSUME IInv, NEW r \in Requests, Others, NEW k \in Values \cup {None}, Return(r, k),
           entry' \in Entries \cup {None},
           entry' # None => entry'.expiresAt >= TTL,
           Undisturbed =>
               /\ entry # None => entry' # None /\ entry'.key = entry.key
               /\ entry' # None /\ entry'.key \in account /\ entry'.key = k
    PROVE  IInv'
<1> DEFINE l == Blank("sticky", k)
<1>1. l \in Locals /\ l.pc = "sticky" /\ l.pick = k /\ l.at = -1
  BY BlankType
<1>2. req' = [req EXCEPT ![r] = l]
  BY DEF Return
<1>3. -1 <= now
  BY Facts
<1> HIDE DEF l
<1>4. ASSUME Undisturbed PROVE Agrees(l, entry')
  <2>1. entry' # None /\ entry'.key = k
    BY <1>4
  <2> QED
    BY <1>1, <2>1 DEF Agrees
<1>5. l.at <= now /\ Informed(l)
  BY <1>1, <1>3 DEF Informed
<1>6. Undisturbed =>
          /\ entry # None => entry' # None /\ entry'.key = entry.key
          /\ entry' # None => entry'.key \in account
          /\ Agrees(l, entry')
  BY <1>4
<1> QED
  BY <1>1, <1>2, <1>5, <1>6, StepOf

(* A request that goes on to another place, the entry left alone.          *)
LEMMA GotoKeeps ==
    ASSUME IInv, NEW r \in Requests, Others, NEW place \in {"select", "reget", "purge", "repurge"},
           Goto(r, place),
           entry' = entry \/ (entry' = None /\ ~Undisturbed),
           Undisturbed =>
               /\ place \in {"select", "reget"}
               /\ req[r].pool = account
               /\ place = "reget" => entry # None
    PROVE  IInv'
<1> DEFINE l == [req[r] EXCEPT !.pc = place, !.at = -1, !.seen = req[r].seen]
<1>1. /\ l \in Locals /\ l.pc = place /\ l.at = -1 /\ l.pool = req[r].pool
      /\ -1 <= now
  <2>1. req[r] \in Locals /\ now \in Nat /\ place \in Places
    BY Facts DEF Places, Operations
  <2>2. req[r].seen \in Values \cup {None}
    BY Facts
  <2>3. l \in Locals
    BY <2>1, <2>2, Elsewhere
  <2> QED
    BY <2>1, <2>3 DEF Locals
<1>2. req' = [req EXCEPT ![r] = l]
  BY DEF Goto, IInv, TypeOK
<1> HIDE DEF l
<1>3. Undisturbed => Agrees(l, entry')
  BY <1>1 DEF Agrees
<1>4. entry' \in Entries \cup {None} /\ (entry' # None => entry'.expiresAt >= TTL)
  BY Facts
<1>5. Undisturbed => (entry' # None => entry'.key \in account)
  <2>1. Undisturbed => (entry # None => entry.key \in account)
    BY DEF IInv, OneKey
  <2> QED
    BY <2>1
<1>6. l.at <= now /\ Informed(l)
  BY <1>1, Facts DEF Informed
<1>7. Undisturbed =>
          /\ entry # None => entry' # None /\ entry'.key = entry.key
          /\ entry' # None => entry'.key \in account
          /\ Agrees(l, entry')
  BY <1>3, <1>4, <1>5
<1> QED
  BY <1>1, <1>2, <1>4, <1>5, <1>6, <1>7, StepOf

(* A request that has seen key k under the session.                        *)
LEMMA SawKeeps ==
    ASSUME IInv, NEW r \in Requests, Others, NEW place \in {"refresh", "drop", "redrop"},
           entry # None, Saw(r, entry.key, place), UNCHANGED entry,
           place \in {"drop", "redrop"} => entry.key \notin req[r].pool,
           Undisturbed => req[r].pool = account
    PROVE  IInv'
<1> DEFINE l == [req[r] EXCEPT !.pc = place, !.at = -1, !.seen = entry.key]
<1>1. /\ l \in Locals /\ l.pc = place /\ l.at = -1 /\ l.pool = req[r].pool
      /\ l.seen = entry.key /\ -1 <= now
  <2>1. req[r] \in Locals /\ now \in Nat /\ place \in Places /\ entry.key \in Values
    BY Facts DEF Places, Operations
  <2>2. l \in Locals
    BY <2>1, Elsewhere
  <2> QED
    BY <2>1, <2>2 DEF Locals
<1>2. req' = [req EXCEPT ![r] = l]
  BY DEF Saw, IInv, TypeOK
<1> HIDE DEF l
<1>3. Undisturbed => entry.key \in account
  BY DEF IInv, OneKey
<1>4. Undisturbed => Agrees(l, entry')
  BY <1>1, <1>3 DEF Agrees
<1>5. entry' \in Entries \cup {None} /\ (entry' # None => entry'.expiresAt >= TTL)
  <2>1. entry \in Entries \cup {None} /\ (entry # None => entry.expiresAt >= TTL)
    BY Facts
  <2> QED
    BY <2>1
<1>6. l.at <= now /\ Informed(l)
  BY <1>1, Facts DEF Informed
<1>7. Undisturbed =>
          /\ entry # None => entry' # None /\ entry'.key = entry.key
          /\ entry' # None => entry'.key \in account
          /\ Agrees(l, entry')
  BY <1>3, <1>4, <1>5
<1> QED
  BY <1>1, <1>2, <1>4, <1>5, <1>6, <1>7, StepOf

(* An entry does not lapse within its lifetime.                            *)
LEMMA NothingLapses ==
    ASSUME IInv, Undisturbed, NEW t \in Int, t <= now, entry # None
    PROVE  ~Lapsed(entry, t)
<1>1. entry.expiresAt >= TTL /\ now < TTL /\ now \in Int /\ entry.expiresAt \in Int
  BY DEF IInv, Timely, Undisturbed, TypeOK, StoreTypeOK, Entries
<1> QED
  BY <1>1 DEF Lapsed

-----------------------------------------------------------------------------
(* The steps of a request, one lemma each.                                 *)

(* Where a step leaves the entry alone it owes nothing to the others.      *)
LEMMA EntryStays ==
    ASSUME IInv, UNCHANGED entry
    PROVE  /\ entry' \in Entries \cup {None} /\ (entry' # None => entry'.expiresAt >= TTL)
           /\ Undisturbed => /\ entry # None => entry' # None /\ entry'.key = entry.key
                             /\ entry' # None => entry'.key \in account
<1>1. entry \in Entries \cup {None} /\ (entry # None => entry.expiresAt >= TTL)
  BY DEF IInv, TypeOK, StoreTypeOK, Timely
<1>2. Undisturbed => (entry # None => entry.key \in account)
  BY DEF IInv, OneKey
<1> QED
  BY <1>1, <1>2

LEMMA StartKeeps ==
    ASSUME IInv, NEW r \in Requests, Start(r)
    PROVE  IInv'
<1>1. Others /\ UNCHANGED entry
  BY DEF Start, Others, storeVars
<1>2. CASE req' = [req EXCEPT ![r] = Blank("plain", None)]
  <2> DEFINE l == Blank("plain", None)
  <2>1. l \in Locals /\ l.pc = "plain" /\ l.at = -1 /\ -1 <= now
    BY BlankType, Facts
  <2>2. req' = [req EXCEPT ![r] = l]
    BY <1>2
  <2> HIDE DEF l
  <2>3. Agrees(l, entry')
    BY <2>1 DEF Agrees
  <2>4. l.at <= now /\ Informed(l)
    BY <2>1 DEF Informed
  <2> QED
    BY <1>1, <2>1, <2>2, <2>3, <2>4, EntryStays, StepOf
<1>3. CASE req' = [req EXCEPT ![r].pc = "get", ![r].pool = account]
  <2> DEFINE l == [req[r] EXCEPT !.pc = "get", !.pool = account]
  <2>1. req[r] \in Locals /\ account \in Pools /\ "get" \in Places
    BY Facts DEF IInv, TypeOK, Places, Operations
  <2>2. l \in Locals /\ l.pc = "get" /\ l.pool = account /\ l.at = req[r].at
    BY <2>1 DEF Locals
  <2>3. req' = [req EXCEPT ![r] = l]
    BY <1>3 DEF IInv, TypeOK
  <2> HIDE DEF l
  <2>4. Agrees(l, entry')
    BY <2>2 DEF Agrees
  <2>5. l.at <= now /\ Informed(l)
    BY <2>2, Facts DEF Informed
  <2> QED
    BY <1>1, <2>2, <2>3, <2>4, <2>5, EntryStays, StepOf
<1> QED
  BY <1>2, <1>3 DEF Start

LEMMA CallKeeps ==
    ASSUME IInv, NEW r \in Requests, Call(r)
    PROVE  IInv'
<1>1. Others /\ UNCHANGED entry
  BY DEF Call, Others, storeVars
<1>2. CASE req' = [req EXCEPT ![r].at = now]
  <2> DEFINE l == [req[r] EXCEPT !.at = now]
  <2>1. req[r] \in Locals /\ now \in -1..MaxTime
    BY Facts
  <2>2. /\ l \in Locals /\ l.at = now /\ l.pc = req[r].pc /\ l.pool = req[r].pool
        /\ l.seen = req[r].seen /\ l.pick = req[r].pick
    BY <2>1 DEF Locals
  <2>3. req' = [req EXCEPT ![r] = l]
    BY <1>2 DEF IInv, TypeOK
  <2> HIDE DEF l
  <2>4. Undisturbed => Agrees(l, entry')
    <3>1. Undisturbed => Agrees(req[r], entry)
      BY DEF IInv, OneKey
    <3> QED
      BY <1>1, <2>2, <3>1 DEF Agrees
  <2>5. l.at <= now /\ Informed(l)
    BY <2>2, Facts DEF IInv, AllInformed, Informed
  <2> QED
    BY <1>1, <2>2, <2>3, <2>4, <2>5, EntryStays, StepOf
<1>3. CASE closed
  <2>1. ~Undisturbed
    BY <1>3 DEF Undisturbed
  <2>2. CASE Goto(r, "select")
    BY <1>1, <2>1, <2>2, GotoKeeps
  <2>3. CASE Return(r, req[r].seen) \/ Return(r, req[r].pick)
    BY <1>1, <2>1, <2>3, Facts, EntryStays, ReturnKeeps
  <2> QED
    BY <1>2, <1>3, <2>2, <2>3 DEF Call
<1> QED
  BY <1>2, <1>3 DEF Call

(* A request that looks at an entry within its lifetime finds it.          *)
LEMMA GetKeeps ==
    ASSUME IInv, NEW r \in Requests, Get(r)
    PROVE  IInv'
<1>1. Others /\ UNCHANGED entry /\ req[r].pc = "get"
  BY DEF Get, Inside
<1>2. Undisturbed => req[r].pool = account
  BY <1>1 DEF IInv, OneKey, Agrees
<1>3. CASE entry = None /\ Goto(r, "select")
  BY <1>1, <1>2, <1>3, GotoKeeps
<1>4. CASE entry # None /\ Lapsed(entry, req[r].at) /\ Goto(r, "purge")
  BY <1>1, <1>4, Facts, NothingLapses, GotoKeeps
<1>5. CASE /\ Present(req[r].at)
           /\ Saw(r, entry.key, IF entry.key \in req[r].pool THEN "refresh" ELSE "drop")
  BY <1>1, <1>2, <1>5, SawKeeps DEF Present
<1> QED
  BY <1>3, <1>4, <1>5 DEF Get

(* What is deleted under the write lock has lapsed.                        *)
LEMMA PurgeKeeps ==
    ASSUME IInv, NEW r \in Requests, PurgeLapsed(r) \/ RePurge(r)
    PROVE  IInv'
<1>1. Others /\ req[r].pc \in {"purge", "repurge"} /\ entry' \in {None, entry}
  BY DEF PurgeLapsed, RePurge, Purge
<1>2. ~Undisturbed
  BY <1>1 DEF IInv, OneKey, Agrees
<1>3. CASE Goto(r, "select")
  BY <1>1, <1>2, <1>3, GotoKeeps
<1>4. CASE Return(r, req[r].pick)
  BY <1>1, <1>2, <1>4, Facts, ReturnKeeps
<1> QED
  BY <1>3, <1>4 DEF PurgeLapsed, RePurge

(* Refresh writes back the key the entry still holds.                      *)
LEMMA RefreshKeeps ==
    ASSUME IInv, NEW r \in Requests, Refresh(r)
    PROVE  IInv'
<1>1. /\ Others /\ req[r].pc = "refresh" /\ req[r].at # -1 /\ Return(r, req[r].seen)
      /\ entry' = Written(req[r].seen, req[r].at)
  BY DEF Refresh, Inside, Set
<1>2. req[r].seen \in Values
  BY <1>1 DEF IInv, AllInformed, Informed
<1>3. /\ entry' \in Entries /\ entry' # None /\ entry'.key = req[r].seen
      /\ entry'.expiresAt >= TTL
  BY <1>1, <1>2, Facts, WrittenType
<1>4. Undisturbed => entry # None /\ req[r].seen = entry.key /\ entry.key \in account
  BY <1>1 DEF IInv, OneKey, Agrees
<1> QED
  BY <1>1, <1>2, <1>3, <1>4, ReturnKeeps

(* Nobody deletes a stale key while the account stays as it is.            *)
LEMMA DropKeeps ==
    ASSUME IInv, NEW r \in Requests, DropStale(r) \/ ReDrop(r)
    PROVE  IInv'
<1>1. Others /\ req[r].pc \in {"drop", "redrop"} /\ entry' = None
  BY DEF DropStale, ReDrop, Delete, Inside
<1>2. ~Undisturbed
  BY <1>1 DEF IInv, OneKey, Agrees
<1>3. CASE Goto(r, "select")
  BY <1>1, <1>2, <1>3, GotoKeeps
<1>4. CASE Return(r, req[r].pick)
  BY <1>1, <1>2, <1>4, Facts, ReturnKeeps
<1> QED
  BY <1>3, <1>4 DEF DropStale, ReDrop

LEMMA SelectKeeps ==
    ASSUME IInv, NEW r \in Requests, Select(r)
    PROVE  IInv'
<1>1. PICK k \in req[r].pool : req' = [req EXCEPT ![r].pc = "setnx", ![r].pick = k]
  BY DEF Select
<1> DEFINE l == [req[r] EXCEPT !.pc = "setnx", !.pick = k]
<1>2. /\ req[r] \in Locals /\ k \in Values \cup {None} /\ k \in Values
      /\ "setnx" \in Places
  BY Facts DEF Places, Operations
<1>3. /\ l \in Locals /\ l.pc = "setnx" /\ l.pick = k /\ l.at = req[r].at
      /\ l.pool = req[r].pool
  BY <1>2 DEF Locals
<1>4. req' = [req EXCEPT ![r] = l]
  BY <1>1 DEF IInv, TypeOK
<1>5. Others /\ UNCHANGED entry /\ req[r].pc = "select"
  BY DEF Select
<1> HIDE DEF l
<1>6. Undisturbed => Agrees(l, entry')
  <2>1. Undisturbed => req[r].pool = account
    BY <1>5 DEF IInv, OneKey, Agrees
  <2> QED
    BY <1>3, <2>1 DEF Agrees
<1>7. l.at <= now /\ Informed(l)
  BY <1>2, <1>3, Facts DEF Informed
<1> QED
  BY <1>3, <1>4, <1>5, <1>6, <1>7, EntryStays, StepOf

(* The winner of SetNXWithTTL sets the key, the loser finds it.            *)
LEMMA StoreKeeps ==
    ASSUME IInv, NEW r \in Requests, StoreSelected(r)
    PROVE  IInv'
<1>1. Others /\ req[r].pc = "setnx" /\ req[r].at # -1
  BY DEF StoreSelected, Inside
<1>2. req[r].pick \in Values
  BY <1>1 DEF IInv, AllInformed, Informed
<1>3. Undisturbed => req[r].pool = account /\ req[r].pick \in account
  BY <1>1 DEF IInv, OneKey, Agrees
<1>4. CASE SetNX(req[r].pick, req[r].at, TRUE) /\ Return(r, req[r].pick)
  <2>1. ~Present(req[r].at) /\ entry' = Written(req[r].pick, req[r].at)
    BY <1>4 DEF SetNX
  <2>2. /\ entry' \in Entries /\ entry' # None /\ entry'.key = req[r].pick
        /\ entry'.expiresAt >= TTL
    BY <1>1, <1>2, <2>1, Facts, WrittenType
  <2>3. Undisturbed => entry = None
    BY <2>1, Facts, NothingLapses DEF Present
  <2> QED
    BY <1>1, <1>2, <1>3, <1>4, <2>2, <2>3, ReturnKeeps
<1>5. CASE SetNX(req[r].pick, req[r].at, FALSE) /\ Goto(r, "reget")
  <2>1. entry # None /\ entry' = entry
    BY <1>5 DEF SetNX, Present
  <2> QED
    BY <1>1, <1>3, <1>5, <2>1, GotoKeeps
<1> QED
  BY <1>4, <1>5 DEF StoreSelected

(* The loser finds the winner's key.                                       *)
LEMMA ReGetKeeps ==
    ASSUME IInv, NEW r \in Requests, ReGet(r)
    PROVE  IInv'
<1>1. Others /\ UNCHANGED entry /\ req[r].pc = "reget"
  BY DEF ReGet, Inside
<1>2. Undisturbed => req[r].pool = account /\ entry # None /\ entry.key \in account
  BY <1>1 DEF IInv, OneKey, Agrees
<1>3. CASE entry = None /\ Return(r, req[r].pick)
  BY <1>1, <1>2, <1>3, Facts, EntryStays, ReturnKeeps
<1>4. CASE entry # None /\ Lapsed(entry, req[r].at) /\ Goto(r, "repurge")
  BY <1>1, <1>4, Facts, NothingLapses, GotoKeeps
<1>5. CASE Present(req[r].at) /\ Return(r, entry.key)
  BY <1>1, <1>2, <1>5, Facts, EntryStays, ReturnKeeps DEF Present
<1>6. CASE /\ Present(req[r].at) /\ entry.key \notin req[r].pool
           /\ Saw(r, entry.key, "redrop")
  BY <1>1, <1>2, <1>6, SawKeeps DEF Present
<1> QED
  BY <1>3, <1>4, <1>5, <1>6 DEF ReGet

LEMMA RequestKeeps ==
    ASSUME IInv, NEW r \in Requests, RequestStep(r)
    PROVE  IInv'
BY StartKeeps, CallKeeps, GetKeeps, PurgeKeeps, RefreshKeeps, DropKeeps, SelectKeeps,
   StoreKeeps, ReGetKeeps DEF RequestStep

(* The account, the clock, the sweeper and the owner of the store end the  *)
(* undisturbed case, or leave the key.                                     *)
LEMMA OthersKeep ==
    ASSUME IInv, ChangeAccount \/ (StoreStep /\ UNCHANGED <<account, changes, req>>)
    PROVE  IInv'
<1>1. /\ req' = req /\ now' \in 0..MaxTime /\ now' >= now
      /\ sweepAt' \in -1..MaxTime /\ sweepAt' <= now'
      /\ closed' \in BOOLEAN /\ changes' \in 0..MaxChanges /\ account' \in Pools
  <2>1. CASE ChangeAccount
    BY <2>1 DEF ChangeAccount, storeVars, IInv, TypeOK, StoreTypeOK, Timely
  <2>2. CASE Tick /\ UNCHANGED <<account, changes, req>>
    BY <2>2 DEF Tick, IInv, TypeOK, StoreTypeOK, Timely
  <2>3. CASE SweepStart /\ UNCHANGED <<account, changes, req>>
    BY <2>3 DEF SweepStart, IInv, TypeOK, StoreTypeOK, Timely
  <2>4. CASE Sweep /\ UNCHANGED <<account, changes, req>>
    BY <2>4 DEF Sweep, IInv, TypeOK, StoreTypeOK, Timely
  <2>5. CASE Close /\ UNCHANGED <<account, changes, req>>
    BY <2>5 DEF Close, IInv, TypeOK, StoreTypeOK, Timely
  <2> QED
    BY <2>1, <2>2, <2>3, <2>4, <2>5 DEF StoreStep
<1>2. entry' = entry \/ (entry' = None /\ entry # None /\ Lapsed(entry, sweepAt))
  BY DEF ChangeAccount, storeVars, StoreStep, Tick, SweepStart, Sweep, Close
<1>3. sweepAt \in Int /\ sweepAt <= now
  BY DEF IInv, TypeOK, StoreTypeOK, Timely
<1>4. Undisturbed' => Undisturbed /\ account' = account /\ changes' = changes
  <2>1. changes \in Nat /\ now \in Nat /\ now' \in Nat
    BY <1>1 DEF IInv, TypeOK, StoreTypeOK
  <2> QED
    BY <1>1, <2>1 DEF Undisturbed, ChangeAccount, StoreStep, Tick, SweepStart, Sweep, Close,
                      storeVars
<1>5. Undisturbed' => entry' = entry
  BY <1>2, <1>3, <1>4, NothingLapses
<1>6. TypeOK'
  BY <1>1, <1>2 DEF IInv, TypeOK, StoreTypeOK
<1>7. Timely' /\ AllInformed'
  <2>1. \A r \in Requests : req[r].at \in Int /\ req[r].at <= now
    BY Facts
  <2>2. now \in Int /\ now' \in Int
    BY <1>1 DEF IInv, TypeOK, StoreTypeOK
  <2> QED
    BY <1>1, <1>2, <2>1, <2>2 DEF IInv, Timely, AllInformed
<1>8. OneKey'
  BY <1>1, <1>4, <1>5 DEF IInv, OneKey, Agrees
<1> QED
  BY <1>6, <1>7, <1>8 DEF IInv

-----------------------------------------------------------------------------
(* The inductive invariant: while nothing disturbs the session, the entry  *)
(* under it holds the one key its requests have agreed on.                 *)
THEOREM Invariance == Spec => []IInv
<1>1. IInv /\ [Next]_vars => IInv'
  <2>1. ASSUME IInv, Next PROVE IInv'
    BY <2>1, RequestKeeps, OthersKeep DEF Next
  <2>2. ASSUME IInv, UNCHANGED vars PROVE IInv'
    BY <2>2 DEF vars, storeVars, IInv, TypeOK, StoreTypeOK, Timely, AllInformed, OneKey,
                Undisturbed, Agrees
  <2> QED
    BY <2>1, <2>2
<1> QED
  BY InitInv, <1>1, PTL DEF Spec

(* Every variable of the store and of the requests keeps its type.         *)
THEOREM SessionTypes == Spec => []TypeOK
<1>1. IInv => TypeOK
  BY DEF IInv
<1> QED
  BY <1>1, Invariance, PTL

(* The loser of SetNXWithTTL adopts the winner's key: all requests of an   *)
(* undisturbed session get the same one.                                   *)
THEOREM OneKeyPerSession == Spec => []Agreement
<1>1. IInv => Agreement
  BY DEF IInv, OneKey, Agrees, Undisturbed, Agreement
<1> QED
  BY <1>1, Invariance, PTL

-----------------------------------------------------------------------------
(* A step of a request that changes the entry's key: it renews or deletes  *)
(* what it saw, or it found no live entry.                                 *)
Taken == Present(now) /\ (entry' = None \/ entry'.key # entry.key)

LEMMA TakenBy ==
    ASSUME IInv, NEW r \in Requests, RequestStep(r), Taken
    PROVE  /\ req[r].pc \in {"refresh", "drop", "redrop"}
           /\ req'[r] # req[r]
           /\ req[r].seen # entry.key \/ entry.key \notin req[r].pool
<1>1. /\ entry # None /\ entry' # entry /\ now < entry.expiresAt
      /\ entry.expiresAt \in Int /\ now \in Int
      /\ req[r].at \in Int /\ req[r].at <= now
  BY Facts DEF Taken, Present, Lapsed
<1>2. ~Lapsed(entry, now) /\ Present(req[r].at)
  BY <1>1 DEF Lapsed, Present
<1>3. Refresh(r) \/ DropStale(r) \/ ReDrop(r)
  BY <1>1, <1>2 DEF RequestStep, Start, Call, Get, PurgeLapsed, Select, StoreSelected,
                    ReGet, RePurge, Purge, SetNX, storeVars
<1>4. req \in [Requests -> Locals]
  BY DEF IInv, TypeOK
<1>5. CASE Refresh(r)
  <2>1. /\ req[r].pc = "refresh" /\ entry' = Written(req[r].seen, req[r].at)
        /\ req' = [req EXCEPT ![r] = Blank("sticky", req[r].seen)]
    BY <1>5 DEF Refresh, Inside, Set, Return
  <2>2. req[r].seen \in Values /\ req[r].at \in 0..MaxTime
    BY <1>5, <2>1, Facts DEF Refresh, Inside, IInv, AllInformed, Informed
  <2>4. entry'.key = req[r].seen /\ entry' # None
    BY <2>1, <2>2, WrittenType
  <2>3. req'[r].pc = "sticky"
    BY <1>4, <2>1 DEF Blank
  <2> QED
    BY <2>1, <2>3, <2>4 DEF Taken
<1>6. CASE DropStale(r) \/ ReDrop(r)
  <2>1. req[r].pc \in {"drop", "redrop"} /\ req[r].seen \notin req[r].pool
    BY <1>6 DEF DropStale, ReDrop, Inside, IInv, AllInformed, Informed
  <2>2. req'[r].pc \in {"select", "sticky"}
    BY <1>4, <1>6 DEF DropStale, ReDrop, Goto, Return, Blank, Locals
  <2> QED
    BY <2>1, <2>2
<1> QED
  BY <1>3, <1>5, <1>6

(* Nor does anybody else take a live entry: the sweeper's reading of the   *)
(* clock is never ahead.                                                   *)
LEMMA KeptByOthers ==
    ASSUME IInv, ChangeAccount \/ (StoreStep /\ UNCHANGED <<account, changes, req>>)
    PROVE  ~Taken
<1>1. entry' = entry \/ (entry # None /\ Lapsed(entry, sweepAt))
  BY DEF ChangeAccount, storeVars, StoreStep, Tick, SweepStart, Sweep, Close
<1>2. /\ sweepAt \in Int /\ sweepAt <= now /\ now \in Int
      /\ entry # None => entry.expiresAt \in Int
  BY DEF IInv, TypeOK, StoreTypeOK, Timely, Entries
<1> QED
  BY <1>1, <1>2 DEF Taken, Present, Lapsed

(* A live entry is taken from a session only by a request that acts on an  *)
(* older reading: the second look of Get, the check of SetNXWithTTL and    *)
(* the sweeper's test spare it.                                            *)
THEOREM LiveEntriesStay == Spec => LiveEntryKept
<1> DEFINE A == Taken =>
          \E r \in Requests :
            /\ req[r].pc \in {"refresh", "drop", "redrop"}
            /\ req'[r] # req[r]
            /\ req[r].seen # entry.key \/ entry.key \notin req[r].pool
<1>1. ASSUME IInv, [Next]_vars PROVE [A]_vars
  <2>1. CASE \E r \in Requests : RequestStep(r)
    BY <1>1, <2>1, TakenBy
  <2>2. CASE ChangeAccount \/ (StoreStep /\ UNCHANGED <<account, changes, req>>)
    BY <1>1, <2>2, KeptByOthers
  <2> QED
    BY <1>1, <2>1, <2>2 DEF Next
<1>2. LiveEntryKept <=> [][A]_vars
  BY DEF LiveEntryKept, Taken
<1> HIDE DEF A
<1> QED
  BY <1>1, <1>2, Invariance, PTL DEF Spec

=============================================================================
