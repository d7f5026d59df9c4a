---------------------------- MODULE FallbacksProofs ----------------------------
(***************************************************************************)
(* Proofs about Fallbacks and the plugin list it runs on.                  *)
(***************************************************************************)
EXTENDS Fallbacks, TLAPS

-----------------------------------------------------------------------------
(* What the three changes do to a list without repeated names.             *)

(* A reload of a listed name replaces the instance of that name.           *)
LEMMA Replaced ==
    ASSUME NEW list \in Seq(Plugins), DistinctNames(list),
           NEW i \in 1..Len(list), NEW new \in Plugins, new.name = list[i].name,
           NEW next \in Seq(Plugins), Len(next) = Len(list),
           \A j \in 1..Len(list) : next[j] = IF j = i THEN new ELSE list[j]
    PROVE  /\ DistinctNames(next)
           /\ Listed(next) = (Listed(list) \ {list[i]}) \union {new}
<1>1. next \in Seq(Plugins) /\ Len(next) = Len(list)
  OBVIOUS
<1>2. \A j \in 1..Len(list) : next[j] = IF j = i THEN new ELSE list[j]
  OBVIOUS
<1>3. DistinctNames(next)
  BY <1>1, <1>2 DEF DistinctNames
<1>4. \A j \in 1..Len(list) : j # i => list[j] # list[i]
  BY DEF DistinctNames
<1>5. Listed(next) \subseteq (Listed(list) \ {list[i]}) \union {new}
  BY <1>1, <1>2, <1>4 DEF Listed
<1>6. (Listed(list) \ {list[i]}) \union {new} \subseteq Listed(next)
  BY <1>1, <1>2 DEF Listed
<1> QED
  BY <1>3, <1>5, <1>6

(* A reload of a new name appends.                                         *)
LEMMA Appended ==
    ASSUME NEW list \in Seq(Plugins), DistinctNames(list),
           NEW new \in Plugins, At(list, new.name) = {}
    PROVE  LET next == Append(list, new)
           IN /\ next \in Seq(Plugins)
              /\ DistinctNames(next)
              /\ Listed(next) = Listed(list) \union {new}
<1> DEFINE next == Append(list, new)
<1>1. next \in Seq(Plugins) /\ Len(next) = Len(list) + 1
  OBVIOUS
<1>2. next[Len(list) + 1] = new /\ \A j \in 1..Len(list) : next[j] = list[j]
  OBVIOUS
<1>3. \A j \in 1..Len(list) : list[j].name # new.name
  BY DEF At
<1>4. DistinctNames(next)
  BY <1>1, <1>2, <1>3 DEF DistinctNames
<1>5. Listed(next) = Listed(list) \union {new}
  BY <1>1, <1>2 DEF Listed
<1> QED
  BY <1>1, <1>4, <1>5

(* A removal takes one instance out.                                       *)
LEMMA Removed ==
    ASSUME NEW list \in Seq(Plugins), DistinctNames(list), NEW i \in 1..Len(list)
    PROVE  LET next == RemoveAt(list, i)
           IN /\ next \in Seq(Plugins)
              /\ DistinctNames(next)
              /\ Listed(next) = Listed(list) \ {list[i]}
<1> DEFINE next == RemoveAt(list, i)
           n == Len(list)
<1>0. n \in Nat /\ i \in 1..n
  OBVIOUS
<1>1. PICK s, t : /\ next = s \o t
                  /\ s \in Seq(Plugins) /\ Len(s) = i - 1
                  /\ \A j \in 1..(i - 1) : s[j] = list[j]
                  /\ t \in Seq(Plugins) /\ Len(t) = n - i
                  /\ \A j \in 1..(n - i) : t[j] = list[i + j]
  <2> DEFINE u == SubSeq(list, 1, i - 1)
             v == SubSeq(list, i + 1, n)
  <2>1. next = u \o v
    BY DEF RemoveAt
  <2>2. u \in Seq(Plugins) /\ Len(u) = i - 1 /\ \A j \in 1..(i - 1) : u[j] = list[j]
    BY <1>0
  <2>3. v \in Seq(Plugins) /\ Len(v) = n - i /\ \A j \in 1..(n - i) : v[j] = list[i + j]
    BY <1>0
  <2> QED
    BY <2>1, <2>2, <2>3
<1> HIDE DEF next
<1>2. s \in Seq(Plugins) /\ t \in Seq(Plugins)
  BY <1>1
<1>3. s \o t \in Seq(Plugins) /\ Len(s \o t) = Len(s) + Len(t)
  BY <1>2
<1>4. next \in Seq(Plugins) /\ Len(next) = n - 1
  BY <1>0, <1>1, <1>2, <1>3
<1>5. \A j \in 1..(n - 1) : next[j] = IF j < i THEN list[j] ELSE list[j + 1]
  BY <1>0, <1>1
<1>6. DistinctNames(next)
  <2> DEFINE from(j) == IF j < i THEN j ELSE j + 1
  <2>1. \A j \in 1..(n - 1) : from(j) \in 1..n /\ next[j] = list[from(j)]
    BY <1>0, <1>5
  <2>2. \A j, k \in 1..(n - 1) : from(j) = from(k) => j = k
    BY <1>0
  <2> HIDE DEF from
  <2>3. \A j, k \in 1..(n - 1) : next[j].name = next[k].name => from(j) = from(k)
    BY <2>1 DEF DistinctNames
  <2> QED
    BY <1>4, <2>2, <2>3 DEF DistinctNames
<1>7. \A j \in 1..n : j # i => list[j] # list[i]
  BY DEF DistinctNames
<1>8. Listed(next) \subseteq Listed(list) \ {list[i]}
  <2>1. SUFFICES ASSUME NEW j \in 1..(n - 1) PROVE next[j] \in Listed(list) \ {list[i]}
    BY <1>4 DEF Listed
  <2>2. CASE j < i
    BY <2>2, <1>0, <1>5, <1>7 DEF Listed
  <2>3. CASE j >= i
    BY <2>3, <1>0, <1>5, <1>7 DEF Listed
  <2> QED
    BY <2>2, <2>3, <1>0
<1>9. Listed(list) \ {list[i]} \subseteq Listed(next)
  <2>1. SUFFICES ASSUME NEW j \in 1..n, j # i PROVE list[j] \in Listed(next)
    BY DEF Listed
  <2>2. CASE j < i
    <3>1. j \in 1..(n - 1) /\ next[j] = list[j]
      BY <2>2, <1>0, <1>5
    <3> QED
      BY <3>1, <1>4 DEF Listed
  <2>3. CASE j > i
    <3>1. j - 1 \in 1..(n - 1) /\ next[j - 1] = list[j]
      BY <2>3, <1>0, <1>5
    <3> QED
      BY <3>1, <1>4 DEF Listed
  <2> QED
    BY <2>1, <2>2, <2>3, <1>0
<1> QED
  BY <1>4, <1>6, <1>8, <1>9 DEF next

(* A reordering keeps the instances.                                       *)
LEMMA Reordered ==
    ASSUME NEW list \in Seq(Plugins), DistinctNames(list), NEW next \in Reorderings(list)
    PROVE  /\ next \in Seq(Plugins)
           /\ DistinctNames(next)
           /\ Listed(next) = Listed(list)
<1> DEFINE n == Len(list)
<1>1. PICK f \in Bijection(1..n, 1..n) : next = [i \in 1..n |-> list[f[i]]]
  BY DEF Reorderings
<1>2. /\ f \in [1..n -> 1..n]
      /\ \A i, j \in 1..n : f[i] = f[j] => i = j
      /\ \A j \in 1..n : \E i \in 1..n : f[i] = j
  BY DEF Bijection, Injection, Surjection, IsInjective
<1>3. next \in Seq(Plugins) /\ Len(next) = n
  BY <1>1, <1>2
<1>4. \A i \in 1..n : next[i] = list[f[i]]
  BY <1>1
<1>5. DistinctNames(next)
  <2>1. SUFFICES ASSUME NEW i \in 1..n, NEW j \in 1..n, next[i].name = next[j].name
                 PROVE  i = j
    BY <1>3 DEF DistinctNames
  <2>2. f[i] \in 1..n /\ f[j] \in 1..n /\ list[f[i]].name = list[f[j]].name
    BY <2>1, <1>2, <1>4
  <2>3. f[i] = f[j]
    BY <2>2 DEF DistinctNames
  <2> QED
    BY <2>3, <1>2
<1>6. Listed(next) = Listed(list)
  <2>1. Listed(next) \subseteq Listed(list)
    BY <1>2, <1>3, <1>4 DEF Listed
  <2>2. SUFFICES ASSUME NEW j \in 1..n PROVE list[j] \in Listed(next)
    BY <2>1 DEF Listed
  <2>3. PICK i \in 1..n : f[i] = j
    BY <1>2
  <2> QED
    BY <2>3, <1>3, <1>4 DEF Listed
<1> QED
  BY <1>3, <1>5, <1>6

-----------------------------------------------------------------------------
(* The invariant of the plugin list.                                       *)

LEMMA PluginInitially == PluginInit => PluginInv
<1> SUFFICES ASSUME PluginInit PROVE PluginInv
  OBVIOUS
<1> USE DEF PluginInit
<1> DEFINE n == Len(Initial)
<1>0. n \in Nat /\ \A i \in 1..n : Initial[i] \in Names
  BY InitialAssumption
<1>1. \A i \in 1..n : [name |-> Initial[i], id |-> 0] \in Plugins
  BY <1>0, MaxChangesAssumption DEF Plugins
<1>2. plugins \in Seq(Plugins) /\ Len(plugins) = n
  BY <1>0, <1>1
<1>3. \A i \in 1..n : plugins[i] = [name |-> Initial[i], id |-> 0]
  BY <1>0
<1>4. known = Listed(plugins) /\ known \subseteq Plugins
  BY <1>2, <1>3, <1>1 DEF Listed
<1>5. \A p \in known : p.id = 0
  BY <1>2, <1>3, <1>4 DEF Listed
<1>6. PluginTypes
  <2>1. 0 \in 0..MaxChanges /\ 0 \in Nat /\ <<>> \in Seq(Plugins)
    BY MaxChangesAssumption
  <2>2. /\ step \in [Admins -> {"idle", "load", "swap", "cleanup"}]
        /\ kind \in [Admins -> {"reload", "remove", "reorder"}]
        /\ name \in [Admins -> Names \union {NoPlugin}]
    OBVIOUS
  <2>3. /\ incoming \in [Admins -> Plugins \union {NoPlugin}]
        /\ victim \in [Admins -> Plugins \union {NoPlugin}]
    OBVIOUS
  <2>4. seen \in [Admins -> Nat] /\ proposed \in [Admins -> Seq(Plugins)]
    BY <2>1
  <2> QED
    BY <1>2, <1>4, <2>1, <2>2, <2>3, <2>4 DEF PluginTypes
<1>7. Coming = {} /\ Outgoing = {} /\ cleaned = {}
  BY DEF Coming, Outgoing
<1>8. Covered
  <2>1. \A p \in known : p.id <= begun
    BY <1>5
  <2> QED
    BY <1>4, <1>7, <2>1 DEF Covered
<1>9. DistinctNames(plugins)
  BY <1>2, <1>3, InitialAssumption DEF DistinctNames
<1>10. Disjoint
  BY <1>7, <1>9 DEF Disjoint
<1>11. Proposals
  BY DEF Proposals, Bringing
<1> QED
  BY <1>6, <1>8, <1>10, <1>11 DEF PluginInv

(* A change begins.                                                        *)
LEMMA BeginKeeps ==
    ASSUME PluginInv, NEW a \in Admins, Change(a)
    PROVE  PluginInv'
<1> USE DEF PluginInv
<1>1. PICK k \in {"reload", "remove", "reorder"}, m \in Names \union {NoPlugin} :
         /\ Begin(a, k, m)
         /\ \/ /\ k = "reload"
               /\ incoming' = [incoming EXCEPT ![a] = [name |-> m, id |-> begun + 1]]
               /\ known' = known \union {[name |-> m, id |-> begun + 1]}
               /\ m \in Names
            \/ /\ k # "reload"
               /\ UNCHANGED <<incoming, known>>
  BY DEF Change, ReloadPlugin, RemovePlugin, ReorderPlugins
<1> DEFINE new == [name |-> m, id |-> begun + 1]
<1>2. /\ step[a] = "idle"
      /\ begun < MaxChanges /\ begun' = begun + 1
      /\ step' = [step EXCEPT ![a] = "load"]
      /\ kind' = [kind EXCEPT ![a] = k]
      /\ name' = [name EXCEPT ![a] = m]
      /\ UNCHANGED <<plugins, version, seen, proposed, victim, cleaned>>
  BY <1>1 DEF Begin
<1>3. incoming[a] = NoPlugin
  BY <1>2 DEF Proposals, Bringing
<1>4. begun + 1 \in 0..MaxChanges
  BY <1>2, MaxChangesAssumption DEF PluginTypes
<1>5. k = "reload" => new \in Plugins /\ new # NoPlugin /\ new \notin known /\ new.name = m
  <2>1. m \in Names => new \in Plugins
    BY <1>4 DEF Plugins
  <2>2. \A p \in known : p.id # begun + 1
    BY DEF Covered, PluginTypes, Plugins
  <2>3. new.id = begun + 1 /\ new.name = m
    OBVIOUS
  <2> QED
    BY <1>1, <2>1, <2>2, <2>3, NoPluginAssumption
<1>6. /\ step'[a] = "load" /\ kind'[a] = k /\ name'[a] = m
      /\ \A b \in Admins : b # a => step'[b] = step[b] /\ kind'[b] = kind[b] /\ name'[b] = name[b]
  BY <1>2 DEF PluginTypes
<1>7. /\ incoming'[a] = IF k = "reload" THEN new ELSE NoPlugin
      /\ \A b \in Admins : b # a => incoming'[b] = incoming[b]
  BY <1>1, <1>3 DEF PluginTypes
<1>8. known' = IF k = "reload" THEN known \union {new} ELSE known
  BY <1>1
<1> HIDE DEF new
<1>9. PluginTypes'
  BY <1>1, <1>2, <1>4, <1>5, <1>8 DEF PluginTypes, new
<1>10. Coming' = IF k = "reload" THEN Coming \union {new} ELSE Coming
  BY <1>3, <1>5, <1>7 DEF Coming
<1>11. Outgoing' = Outgoing
  BY <1>2, <1>6 DEF Outgoing
<1>12. Listed(plugins)' = Listed(plugins) /\ DistinctNames(plugins)'
  BY <1>2 DEF Listed, DistinctNames, Disjoint
<1>13. \A p \in known' : p.id <= begun'
  <2>1. \A p \in known : p.id <= begun /\ p.id \in Nat
    BY DEF Covered, PluginTypes, Plugins
  <2>2. begun \in Nat /\ begun' = begun + 1
    BY <1>2, MaxChangesAssumption DEF PluginTypes
  <2>3. new.id = begun + 1
    BY DEF new
  <2> QED
    BY <2>1, <2>2, <2>3, <1>8
<1>14. Covered'
  BY <1>2, <1>8, <1>10, <1>11, <1>12, <1>13 DEF Covered
<1>15. Disjoint'
  <2>1. /\ Listed(plugins)' \intersect (Coming' \union Outgoing' \union cleaned') = {}
        /\ Coming' \intersect (Outgoing' \union cleaned') = {}
        /\ Outgoing' \intersect cleaned' = {}
    BY <1>2, <1>5, <1>10, <1>11, <1>12 DEF Disjoint, Covered
  <2>2. \A b \in Admins : incoming[b] # NoPlugin => incoming[b] \in known
    BY DEF Covered, Coming
  <2>3. \A b, c \in Admins :
           incoming'[b] = incoming'[c] /\ incoming'[b] # NoPlugin => b = c
    BY <2>2, <1>5, <1>7 DEF Disjoint
  <2>4. \A b, c \in Admins :
           step'[b] = "cleanup" /\ step'[c] = "cleanup" /\ victim'[b] = victim'[c] => b = c
    BY <1>2, <1>6 DEF Disjoint
  <2> QED
    BY <2>1, <2>3, <2>4, <1>12 DEF Disjoint
<1>16. Proposals'
  <2>1. \A b \in Admins : Bringing(b)'
    BY <1>2, <1>5, <1>6, <1>7 DEF Proposals, Bringing
  <2>2. ASSUME NEW b \in Admins, step'[b] = "swap", seen'[b] = version'
        PROVE  Successor(proposed[b], plugins, victim[b], incoming[b])'
    <3>1. Successor(proposed[b], plugins, victim[b], incoming[b])
      BY <2>2, <1>2, <1>6 DEF Proposals
    <3>2. /\ proposed'[b] = proposed[b] /\ plugins' = plugins
          /\ victim'[b] = victim[b] /\ incoming'[b] = incoming[b]
      BY <2>2, <1>2, <1>6, <1>7
    <3> QED
      BY <3>1, <3>2
  <2> QED
    BY <2>1, <2>2 DEF Proposals
<1> QED
  BY <1>9, <1>14, <1>15, <1>16

(* A step that moves no plugin.                                            *)
LEMMA PlacesFrame ==
    ASSUME PluginInv, NEW a \in Admins,
           UNCHANGED <<plugins, known, begun, incoming, cleaned>>,
           step[a] # "cleanup", step'[a] # "cleanup",
           \A b \in Admins : b # a => step'[b] = step[b] /\ victim'[b] = victim[b]
    PROVE  Covered' /\ Disjoint'
<1>1. Coming' = Coming
  BY DEF Coming
<1>2. Outgoing' = Outgoing
  BY DEF Outgoing
<1>3. Listed(plugins)' = Listed(plugins) /\ DistinctNames(plugins)'
  BY DEF PluginInv, Disjoint
<1>4. Covered'
  BY <1>1, <1>2, <1>3 DEF PluginInv, Covered
<1>5. \A b, c \in Admins :
         step'[b] = "cleanup" /\ step'[c] = "cleanup" /\ victim'[b] = victim'[c] => b = c
  BY DEF PluginInv, Disjoint
<1>6. \A b, c \in Admins : incoming'[b] = incoming'[c] /\ incoming'[b] # NoPlugin => b = c
  BY DEF PluginInv, Disjoint
<1> QED
  BY <1>1, <1>2, <1>3, <1>4, <1>5, <1>6 DEF PluginInv, Disjoint

(* The proposals of the others outlive a step that leaves the list alone.  *)
LEMMA ProposalsFrame ==
    ASSUME PluginInv, NEW a \in Admins,
           UNCHANGED <<plugins, version>>,
           \A b \in Admins : b # a =>
              /\ step'[b] = step[b] /\ kind'[b] = kind[b] /\ name'[b] = name[b]
              /\ incoming'[b] = incoming[b] /\ seen'[b] = seen[b]
              /\ proposed'[b] = proposed[b] /\ victim'[b] = victim[b],
           Bringing(a)',
           step'[a] = "swap" => Successor(proposed[a], plugins, victim[a], incoming[a])'
    PROVE  Proposals'
<1>1. ASSUME NEW b \in Admins PROVE Bringing(b)'
  BY DEF PluginInv, Proposals, Bringing
<1>2. ASSUME NEW b \in Admins, step'[b] = "swap", seen'[b] = version'
      PROVE  Successor(proposed[b], plugins, victim[b], incoming[b])'
  <2>1. CASE b = a
    BY <2>1, <1>2
  <2>2. CASE b # a
    <3>1. Successor(proposed[b], plugins, victim[b], incoming[b])
      BY <2>2, <1>2 DEF PluginInv, Proposals
    <3>2. /\ proposed'[b] = proposed[b] /\ plugins' = plugins
          /\ victim'[b] = victim[b] /\ incoming'[b] = incoming[b]
      BY <2>2
    <3> QED
      BY <3>1, <3>2
  <2> QED
    BY <2>1, <2>2
<1> QED
  BY <1>1, <1>2 DEF Proposals

(* A new slice is built from the current one.                              *)
LEMMA ProposeKeeps ==
    ASSUME PluginInv, NEW a \in Admins, step[a] = "load",
           NEW list \in Seq(Plugins), NEW out \in Plugins \union {NoPlugin},
           Successor(list, plugins, out, incoming[a]),
           Propose(a, list, out)
    PROVE  PluginInv'
<1>1. /\ step' = [step EXCEPT ![a] = "swap"]
      /\ seen' = [seen EXCEPT ![a] = version]
      /\ proposed' = [proposed EXCEPT ![a] = list]
      /\ victim' = [victim EXCEPT ![a] = out]
      /\ UNCHANGED <<plugins, version, begun, known, kind, name, incoming, cleaned>>
  BY DEF Propose
<1>2. PluginTypes'
  BY <1>1 DEF PluginInv, PluginTypes
<1>3. \A b \in Admins : b # a =>
         /\ step'[b] = step[b] /\ kind'[b] = kind[b] /\ name'[b] = name[b]
         /\ incoming'[b] = incoming[b] /\ seen'[b] = seen[b]
         /\ proposed'[b] = proposed[b] /\ victim'[b] = victim[b]
  BY <1>1 DEF PluginInv, PluginTypes
<1>4. step'[a] = "swap" /\ seen'[a] = version /\ proposed'[a] = list /\ victim'[a] = out
  BY <1>1 DEF PluginInv, PluginTypes
<1>5. Covered' /\ Disjoint'
  BY <1>1, <1>3, <1>4, PlacesFrame
<1>6. Bringing(a)'
  BY <1>1, <1>4 DEF PluginInv, PluginTypes, Proposals, Bringing
<1>7. Successor(proposed[a], plugins, victim[a], incoming[a])'
  BY <1>1, <1>4
<1>8. Proposals'
  BY <1>1, <1>3, <1>6, <1>7, ProposalsFrame
<1> QED
  BY <1>2, <1>5, <1>8 DEF PluginInv

(* A round ends without a swap: nothing to do, or the slice was stale.     *)
LEMMA RoundEnds ==
    ASSUME PluginInv, NEW a \in Admins,
           \/ step[a] = "load" /\ kind[a] # "reload" /\ ReturnEarly(a)
           \/ TryAgain(a)
    PROVE  PluginInv'
<1> USE DEF PluginInv
<1>1. PICK to \in {"idle", "load"} :
         /\ step' = [step EXCEPT ![a] = to]
         /\ \/ to = "idle" /\ step[a] = "load" /\ kind[a] # "reload"
            \/ to = "load" /\ step[a] = "swap"
         /\ UNCHANGED <<plugins, version, begun, known, kind, name, incoming, cleaned>>
  BY DEF ReturnEarly, TryAgain
<1>2. /\ seen' \in [Admins -> Nat]
      /\ proposed' \in [Admins -> Seq(Plugins)]
      /\ victim' \in [Admins -> Plugins \union {NoPlugin}]
      /\ seen'[a] \in {seen[a], 0}
      /\ \A b \in Admins : b # a =>
            seen'[b] = seen[b] /\ proposed'[b] = proposed[b] /\ victim'[b] = victim[b]
  <2>1. CASE ReturnEarly(a)
    BY <2>1 DEF ReturnEarly, PluginTypes
  <2>2. CASE TryAgain(a)
    <3>1. <<>> \in Seq(Plugins) /\ 0 \in Nat
      OBVIOUS
    <3> QED
      BY <2>2, <3>1 DEF TryAgain, Forget, PluginTypes
  <2> QED
    BY <2>1, <2>2
<1>3. /\ step'[a] = to
      /\ \A b \in Admins : b # a =>
            /\ step'[b] = step[b] /\ kind'[b] = kind[b] /\ name'[b] = name[b]
            /\ incoming'[b] = incoming[b]
  BY <1>1 DEF PluginTypes
<1>4. PluginTypes'
  BY <1>1, <1>2 DEF PluginTypes
<1>5. Covered' /\ Disjoint'
  BY <1>1, <1>2, <1>3, PlacesFrame
<1>6. Bringing(a)'
  <2>1. Bringing(a) /\ seen'[a] <= version /\ version' = version
    BY <1>1, <1>2 DEF Proposals, Bringing, PluginTypes
  <2> QED
    BY <2>1, <1>1, <1>3 DEF Bringing
<1>7. Proposals'
  BY <1>1, <1>2, <1>3, <1>6, ProposalsFrame
<1> QED
  BY <1>4, <1>5, <1>7

LEMMA LoadKeeps ==
    ASSUME PluginInv, NEW a \in Admins,
           LoadForReload(a) \/ LoadForRemove(a) \/ LoadForReorder(a)
    PROVE  PluginInv'
<1>1. plugins \in Seq(Plugins) /\ DistinctNames(plugins)
  BY DEF PluginInv, PluginTypes, Disjoint
<1>2. CASE LoadForReload(a)
  <2>1. step[a] = "load" /\ incoming[a] \in Plugins /\ incoming[a].name = name[a]
    BY <1>2 DEF LoadForReload, PluginInv, PluginTypes, Proposals, Bringing
  <2>2. ASSUME NEW i \in At(plugins, name[a]),
               Propose(a, [plugins EXCEPT ![i] = incoming[a]], plugins[i])
        PROVE  PluginInv'
    <3>1. i \in 1..Len(plugins) /\ plugins[i].name = incoming[a].name
      BY <2>1, <2>2 DEF At
    <3>2. plugins[i] \in Plugins /\ plugins[i] \in Listed(plugins)
      BY <1>1, <3>1 DEF Listed
    <3> DEFINE next == [plugins EXCEPT ![i] = incoming[a]]
    <3>0. /\ next \in Seq(Plugins) /\ Len(next) = Len(plugins)
          /\ \A j \in 1..Len(plugins) : next[j] = IF j = i THEN incoming[a] ELSE plugins[j]
      BY <1>1, <2>1, <3>1
    <3> HIDE DEF next
    <3>3. /\ DistinctNames(next)
          /\ Listed(next) = (Listed(plugins) \ {plugins[i]}) \union {incoming[a]}
      BY <1>1, <2>1, <3>0, <3>1, Replaced
    <3>4. {incoming[a]} \ {NoPlugin} = {incoming[a]}
      BY <2>1, NoPluginAssumption
    <3>5. Successor(next, plugins, plugins[i], incoming[a])
      BY <3>2, <3>3, <3>4 DEF Successor
    <3>6. Propose(a, next, plugins[i])
      BY <2>2 DEF next
    <3> QED
      BY <2>1, <3>0, <3>2, <3>5, <3>6, ProposeKeeps
  <2>3. ASSUME At(plugins, name[a]) = {}, Propose(a, Append(plugins, incoming[a]), NoPlugin)
        PROVE  PluginInv'
    <3>1. NoPlugin \notin Listed(plugins)
      BY <1>1, NoPluginAssumption DEF Listed
    <3>2. /\ Append(plugins, incoming[a]) \in Seq(Plugins)
          /\ Successor(Append(plugins, incoming[a]), plugins, NoPlugin, incoming[a])
      BY <1>1, <2>1, <2>3, <3>1, Appended, NoPluginAssumption DEF Successor
    <3> QED
      BY <2>1, <2>3, <3>2, ProposeKeeps
  <2> QED
    BY <1>2, <2>2, <2>3 DEF LoadForReload
<1>3. CASE LoadForRemove(a)
  <2>1. step[a] = "load" /\ kind[a] = "remove" /\ incoming[a] = NoPlugin
    BY <1>3 DEF LoadForRemove, PluginInv, PluginTypes, Proposals, Bringing
  <2>2. ASSUME NEW i \in At(plugins, name[a]), Propose(a, RemoveAt(plugins, i), plugins[i])
        PROVE  PluginInv'
    <3>1. i \in 1..Len(plugins)
      BY <2>2 DEF At
    <3>2. plugins[i] \in Plugins /\ plugins[i] \in Listed(plugins)
      BY <1>1, <3>1 DEF Listed
    <3>3. /\ RemoveAt(plugins, i) \in Seq(Plugins)
          /\ Successor(RemoveAt(plugins, i), plugins, plugins[i], incoming[a])
      BY <1>1, <2>1, <3>1, <3>2, Removed DEF Successor
    <3> QED
      BY <2>1, <2>2, <3>2, <3>3, ProposeKeeps
  <2> QED
    BY <1>3, <2>1, <2>2, RoundEnds DEF LoadForRemove
<1>4. CASE LoadForReorder(a)
  <2>1. step[a] = "load" /\ kind[a] = "reorder" /\ incoming[a] = NoPlugin
    BY <1>4 DEF LoadForReorder, PluginInv, PluginTypes, Proposals, Bringing
  <2>2. ASSUME NEW list \in Reorderings(plugins), Propose(a, list, NoPlugin)
        PROVE  PluginInv'
    <3>1. NoPlugin \notin Listed(plugins)
      BY <1>1, NoPluginAssumption DEF Listed
    <3>2. list \in Seq(Plugins) /\ Successor(list, plugins, NoPlugin, incoming[a])
      BY <1>1, <2>1, <2>2, <3>1, Reordered DEF Successor
    <3> QED
      BY <2>1, <2>2, <3>2, ProposeKeeps
  <2> QED
    BY <1>4, <2>1, <2>2, RoundEnds DEF LoadForReorder
<1> QED
  BY <1>2, <1>3, <1>4

(* The swap: the victim leaves the list, what was coming is in it.         *)
LEMMA SwapKeeps ==
    ASSUME PluginInv, NEW a \in Admins, CompareAndSwap(a)
    PROVE  PluginInv'
<1> USE DEF PluginInv
<1> DEFINE in == incoming[a]
           out == victim[a]
<1>1. /\ step[a] = "swap" /\ seen[a] = version
      /\ plugins' = proposed[a] /\ version' = version + 1
      /\ incoming' = [incoming EXCEPT ![a] = NoPlugin]
      /\ step' = [step EXCEPT ![a] = IF out = NoPlugin THEN "idle" ELSE "cleanup"]
      /\ seen' = [seen EXCEPT ![a] = 0]
      /\ proposed' = [proposed EXCEPT ![a] = <<>>]
      /\ UNCHANGED <<begun, known, kind, name, victim, cleaned>>
  BY DEF CompareAndSwap, Unchanged, Forget
<1>2. /\ DistinctNames(proposed[a])
      /\ out \in Listed(plugins) \union {NoPlugin}
      /\ Listed(proposed[a]) = (Listed(plugins) \ {out}) \union ({in} \ {NoPlugin})
  BY <1>1 DEF Proposals, Successor
<1>3. /\ step'[a] = IF out = NoPlugin THEN "idle" ELSE "cleanup"
      /\ incoming'[a] = NoPlugin /\ seen'[a] = 0
      /\ \A b \in Admins : b # a =>
            step'[b] = step[b] /\ incoming'[b] = incoming[b] /\ seen'[b] = seen[b]
  BY <1>1 DEF PluginTypes
<1>4. PluginTypes'
  <2>1. <<>> \in Seq(Plugins) /\ 0 \in Nat /\ proposed[a] \in Seq(Plugins) /\ version + 1 \in Nat
    BY DEF PluginTypes
  <2> QED
    BY <1>1, <2>1 DEF PluginTypes
<1>5. Listed(plugins)' = (Listed(plugins) \ {out}) \union ({in} \ {NoPlugin})
  BY <1>1, <1>2 DEF Listed
<1>6. DistinctNames(plugins)'
  BY <1>1, <1>2 DEF DistinctNames
<1>7. Coming' = Coming \ {in}
  <2>1. \A b \in Admins : b # a /\ incoming[b] = in => in = NoPlugin
    BY DEF Disjoint
  <2> QED
    BY <1>3, <2>1 DEF Coming
<1>8. Outgoing' = Outgoing \union ({out} \ {NoPlugin})
  BY <1>1, <1>3 DEF Outgoing
<1>9. /\ in \in Coming \union {NoPlugin}
      /\ NoPlugin \notin Coming /\ NoPlugin \notin Listed(plugins)
  BY NoPluginAssumption DEF Coming, PluginTypes, Listed
<1> HIDE DEF in, out
<1>10. Covered'
  <2>1. known' = Listed(plugins)' \union Coming' \union Outgoing' \union cleaned'
    BY <1>1, <1>2, <1>5, <1>7, <1>8, <1>9 DEF Covered
  <2> QED
    BY <1>1, <2>1 DEF Covered
<1>11. Disjoint'
  <2>1. /\ Listed(plugins)' \intersect (Coming' \union Outgoing' \union cleaned') = {}
        /\ Coming' \intersect (Outgoing' \union cleaned') = {}
        /\ Outgoing' \intersect cleaned' = {}
    BY <1>1, <1>2, <1>5, <1>7, <1>8, <1>9 DEF Disjoint
  <2>2. \A b, c \in Admins : incoming'[b] = incoming'[c] /\ incoming'[b] # NoPlugin => b = c
    BY <1>3 DEF Disjoint
  <2>3. \A b \in Admins : step[b] = "cleanup" => victim[b] \notin Listed(plugins)
    BY DEF Disjoint, Outgoing
  <2>4. \A b, c \in Admins :
           step'[b] = "cleanup" /\ step'[c] = "cleanup" /\ victim'[b] = victim'[c] => b = c
    BY <1>1, <1>2, <1>3, <2>3 DEF Disjoint, out
  <2> QED
    BY <2>1, <2>2, <2>4, <1>6 DEF Disjoint
<1>12. Proposals'
  <2>1. version \in Nat /\ \A b \in Admins : seen[b] <= version /\ seen[b] \in Nat
    BY DEF Proposals, Bringing, PluginTypes
  <2>2. \A b \in Admins : Bringing(b)'
    <3>1. Bringing(a)'
      BY <1>1, <1>3, <2>1 DEF Bringing, out
    <3>2. ASSUME NEW b \in Admins, b # a PROVE Bringing(b)'
      BY <1>1, <1>3, <2>1, <3>2 DEF Proposals, Bringing
    <3> QED
      BY <3>1, <3>2
  <2>3. \A b \in Admins : step'[b] = "swap" => seen'[b] # version'
    BY <1>1, <1>3, <2>1
  <2> QED
    BY <2>2, <2>3 DEF Proposals
<1> QED
  BY <1>4, <1>10, <1>11, <1>12

(* The victim is cleaned up.                                               *)
LEMMA CleanupKeeps ==
    ASSUME PluginInv, NEW a \in Admins, Cleanup(a)
    PROVE  PluginInv'
<1> USE DEF PluginInv
<1>1. /\ step[a] = "cleanup"
      /\ cleaned' = cleaned \union {victim[a]}
      /\ step' = [step EXCEPT ![a] = "idle"]
      /\ victim' = [victim EXCEPT ![a] = NoPlugin]
      /\ UNCHANGED <<plugins, version, begun, known, kind, name, incoming, seen, proposed>>
  BY DEF Cleanup
<1>2. /\ step'[a] = "idle"
      /\ \A b \in Admins : b # a => step'[b] = step[b] /\ victim'[b] = victim[b]
  BY <1>1 DEF PluginTypes
<1>3. victim[a] \in Plugins /\ victim[a] \in Outgoing
  BY <1>1 DEF PluginTypes, Proposals, Bringing, Outgoing
<1>4. PluginTypes'
  BY <1>1, <1>3 DEF PluginTypes
<1>5. Coming' = Coming
  BY <1>1 DEF Coming
<1>6. Outgoing' = Outgoing \ {victim[a]}
  <2>1. \A b \in Admins : b # a /\ step[b] = "cleanup" => victim[b] # victim[a]
    BY <1>1 DEF Disjoint
  <2> QED
    BY <1>2, <2>1 DEF Outgoing
<1>7. Listed(plugins)' = Listed(plugins) /\ DistinctNames(plugins)'
  BY <1>1 DEF Listed, DistinctNames, Disjoint
<1>8. Covered'
  <2>1. known' = Listed(plugins)' \union Coming' \union Outgoing' \union cleaned'
    BY <1>1, <1>3, <1>5, <1>6, <1>7 DEF Covered
  <2> QED
    BY <1>1, <2>1 DEF Covered
<1>9. Disjoint'
  <2>1. /\ Listed(plugins)' \intersect (Coming' \union Outgoing' \union cleaned') = {}
        /\ Coming' \intersect (Outgoing' \union cleaned') = {}
        /\ Outgoing' \intersect cleaned' = {}
    BY <1>1, <1>3, <1>5, <1>6, <1>7 DEF Disjoint
  <2>2. \A b, c \in Admins : incoming'[b] = incoming'[c] /\ incoming'[b] # NoPlugin => b = c
    BY <1>1 DEF Disjoint
  <2>3. \A b, c \in Admins :
           step'[b] = "cleanup" /\ step'[c] = "cleanup" /\ victim'[b] = victim'[c] => b = c
    BY <1>1, <1>2 DEF Disjoint
  <2> QED
    BY <2>1, <2>2, <2>3, <1>7 DEF Disjoint
<1>10. Bringing(a)'
  BY <1>1, <1>2 DEF Proposals, Bringing, PluginTypes
<1>11. Proposals'
  BY <1>1, <1>2, <1>10, ProposalsFrame
<1> QED
  BY <1>4, <1>8, <1>9, <1>11

LEMMA PluginStep == PluginInv /\ PluginNext => PluginInv'
<1> SUFFICES ASSUME PluginInv, NEW a \in Admins, Change(a) \/ Progress(a) PROVE PluginInv'
  BY DEF PluginNext
<1>1. CASE Change(a)
  BY <1>1, BeginKeeps
<1>3. CASE LoadForReload(a) \/ LoadForRemove(a) \/ LoadForReorder(a)
  BY <1>3, LoadKeeps
<1>4. CASE CompareAndSwap(a)
  BY <1>4, SwapKeeps
<1>5. CASE TryAgain(a)
  BY <1>5, RoundEnds
<1>6. CASE Cleanup(a)
  BY <1>6, CleanupKeeps
<1> QED
  BY <1>1, <1>3, <1>4, <1>5, <1>6 DEF Progress

LEMMA PluginStutter == PluginInv /\ UNCHANGED pluginVars => PluginInv'
<1> SUFFICES ASSUME PluginInv, UNCHANGED pluginVars PROVE PluginInv'
  OBVIOUS
<1>1. UNCHANGED <<plugins, version, begun, known, step, kind, name, incoming, seen,
                  proposed, victim, cleaned>>
  BY DEF pluginVars, changeVars
<1>2. PluginTypes'
  BY <1>1 DEF PluginInv, PluginTypes
<1>3. Coming' = Coming /\ Outgoing' = Outgoing
  BY <1>1 DEF Coming, Outgoing
<1>4. Covered'
  BY <1>1, <1>3 DEF PluginInv, Covered
<1>5. Disjoint'
  BY <1>1, <1>3 DEF PluginInv, Disjoint
<1>6. Proposals'
  BY <1>1 DEF PluginInv, Proposals, Bringing
<1> QED
  BY <1>2, <1>4, <1>5, <1>6 DEF PluginInv

(* One place for each instance.                                            *)
LEMMA OnePlace == PluginInv => AccountedFor
<1> SUFFICES ASSUME PluginInv, NEW p \in known
             PROVE  \E place \in Places(p) : Places(p) = {place}
  BY DEF AccountedFor
<1> USE DEF PluginInv
<1>0. p # NoPlugin
  BY NoPluginAssumption DEF PluginTypes
<1> DEFINE L == {<<"list", i>> : i \in {j \in 1..Len(plugins) : plugins[j] = p}}
           I == {<<"incoming", a>> : a \in {b \in Admins : incoming[b] = p}}
           O == {<<"outgoing", a>> : a \in {b \in Admins : step[b] = "cleanup" /\ victim[b] = p}}
           C == IF p \in cleaned THEN {<<"cleaned", 0>>} ELSE {}
<1>1. Places(p) = L \union I \union O \union C
  BY DEF Places
<1>2. /\ L # {} => p \in Listed(plugins)
      /\ I # {} => p \in Coming
      /\ O # {} => p \in Outgoing
      /\ C # {} => p \in cleaned
  BY <1>0 DEF Listed, Coming, Outgoing
<1>3. CASE p \in Listed(plugins)
  <2>1. I = {} /\ O = {} /\ C = {}
    BY <1>2, <1>3 DEF Disjoint
  <2>2. PICK i \in 1..Len(plugins) : plugins[i] = p
    BY <1>3 DEF Listed
  <2>3. \A j \in 1..Len(plugins) : plugins[j] = p => j = i
    BY <2>2 DEF Disjoint, DistinctNames
  <2>4. L = {<<"list", i>>}
    BY <2>2, <2>3
  <2> QED
    BY <1>1, <2>1, <2>4
<1>4. CASE p \in Coming
  <2>1. L = {} /\ O = {} /\ C = {}
    BY <1>2, <1>4 DEF Disjoint
  <2>2. PICK a \in Admins : incoming[a] = p
    BY <1>4 DEF Coming
  <2>3. I = {<<"incoming", a>>}
    BY <1>0, <2>2 DEF Disjoint
  <2> QED
    BY <1>1, <2>1, <2>3
<1>5. CASE p \in Outgoing
  <2>1. L = {} /\ I = {} /\ C = {}
    BY <1>2, <1>5 DEF Disjoint
  <2>2. PICK a \in Admins : step[a] = "cleanup" /\ victim[a] = p
    BY <1>5 DEF Outgoing
  <2>3. O = {<<"outgoing", a>>}
    BY <2>2 DEF Disjoint
  <2> QED
    BY <1>1, <2>1, <2>3
<1>6. CASE p \in cleaned
  <2>1. L = {} /\ I = {} /\ O = {}
    BY <1>2, <1>6 DEF Disjoint
  <2>2. C = {<<"cleaned", 0>>}
    BY <1>6
  <2> QED
    BY <1>1, <2>1, <2>2
<1> QED
  BY <1>3, <1>4, <1>5, <1>6 DEF Covered

-----------------------------------------------------------------------------
(* The call.                                                               *)

RequestInv == TypeOK /\ HooksInv /\ PostsMirror /\ HeldInv /\ SoleUser /\ FreshAttempt

LEMMA RequestStep ==
    ASSUME PluginTypes, RequestInv, Request \/ Worker \/ CtxDone
    PROVE  RequestInv'
<1> USE RoutesAssumption, KeylessAssumption DEF RequestInv, ctxVars
<1>1. CASE PreRequest
  <2>1. TypeOK' /\ HeldInv' /\ SoleUser'
    BY <1>1 DEF PreRequest, TypeOK, HooksInv, HeldInv, SoleUser, PluginTypes, Outcomes
  <2>2. HooksInv' /\ PostsMirror'
    BY <1>1 DEF PreRequest, HooksInv, PostsMirror, TypeOK, PluginTypes
  <2>3. FreshAttempt'
    BY <1>1 DEF PreRequest, FreshAttempt, SoleUser, HeldInv, TypeOK, Target
  <2> QED
    BY <2>1, <2>2, <2>3
<1>2. CASE PreparePrimary
  <2>1. TypeOK' /\ HeldInv' /\ SoleUser'
    BY <1>2 DEF PreparePrimary, TypeOK, HooksInv, HeldInv, SoleUser, PluginTypes, Outcomes
  <2>2. HooksInv' /\ PostsMirror'
    BY <1>2 DEF PreparePrimary, HooksInv, PostsMirror, TypeOK, PluginTypes
  <2>3. FreshAttempt'
    BY <1>2 DEF PreparePrimary, FreshAttempt, SoleUser, HeldInv, TypeOK, Target
  <2> QED
    BY <2>1, <2>2, <2>3
<1>3. CASE PrepareFallback
  <2>1. TypeOK' /\ HeldInv' /\ SoleUser'
    BY <1>3 DEF PrepareFallback, ClearCtxForFallback, TypeOK, HooksInv, HeldInv, SoleUser, PluginTypes, Outcomes
  <2>2. HooksInv' /\ PostsMirror'
    BY <1>3 DEF PrepareFallback, ClearCtxForFallback, HooksInv, PostsMirror, TypeOK, PluginTypes
  <2>3. FreshAttempt'
    BY <1>3 DEF PrepareFallback, ClearCtxForFallback, FreshAttempt, SoleUser, HeldInv, TypeOK, Target
  <2> QED
    BY <2>1, <2>2, <2>3
<1>4. CASE SkipFallback
  <2>1. TypeOK' /\ HeldInv' /\ SoleUser'
    BY <1>4 DEF SkipFallback, ClearCtxForFallback, FallbacksLeft, TypeOK, HooksInv, HeldInv, SoleUser, PluginTypes, Outcomes
  <2>2. HooksInv' /\ PostsMirror'
    BY <1>4 DEF SkipFallback, ClearCtxForFallback, FallbacksLeft, HooksInv, PostsMirror, TypeOK, PluginTypes
  <2>3. FreshAttempt'
    BY <1>4 DEF SkipFallback, ClearCtxForFallback, FallbacksLeft, FreshAttempt, SoleUser, HeldInv, TypeOK, Target
  <2> QED
    BY <2>1, <2>2, <2>3
<1>5. CASE EnterFails
  <2>1. TypeOK' /\ HeldInv' /\ SoleUser'
    BY <1>5 DEF EnterFails, Refuse, PlainError, TypeOK, HooksInv, HeldInv, SoleUser, PluginTypes, Outcomes
  <2>2. HooksInv' /\ PostsMirror'
    BY <1>5 DEF EnterFails, Refuse, PlainError, HooksInv, PostsMirror, TypeOK, PluginTypes
  <2>3. FreshAttempt'
    BY <1>5 DEF EnterFails, Refuse, PlainError, FreshAttempt, SoleUser, HeldInv, TypeOK, Target
  <2> QED
    BY <2>1, <2>2, <2>3
<1>6. CASE Enter
  <2>1. TypeOK' /\ HeldInv' /\ SoleUser'
    BY <1>6 DEF Enter, TypeOK, HooksInv, HeldInv, SoleUser, PluginTypes, Outcomes
  <2>2. HooksInv' /\ PostsMirror'
    BY <1>6 DEF Enter, HooksInv, PostsMirror, TypeOK, PluginTypes
  <2>3. FreshAttempt'
    BY <1>6 DEF Enter, FreshAttempt, SoleUser, HeldInv, TypeOK, Target
  <2> QED
    BY <2>1, <2>2, <2>3
<1>7. CASE PreHook
  <2>1. TypeOK' /\ HeldInv' /\ SoleUser'
    BY <1>7 DEF PreHook, RunsPreHook, TypeOK, HooksInv, HeldInv, SoleUser, PluginTypes, Outcomes
  <2>2. HooksInv' /\ PostsMirror'
    BY <1>7 DEF PreHook, RunsPreHook, HooksInv, PostsMirror, TypeOK, PluginTypes
  <2>3. FreshAttempt'
    BY <1>7 DEF PreHook, RunsPreHook, FreshAttempt, SoleUser, HeldInv, TypeOK, Target
  <2> QED
    BY <2>1, <2>2, <2>3
<1>8. CASE ShortCircuit
  <2>1. TypeOK' /\ HeldInv' /\ SoleUser'
    BY <1>8 DEF ShortCircuit, RunsPreHook, PreCount, TypeOK, HooksInv, HeldInv, SoleUser, PluginTypes, Outcomes
  <2>2. HooksInv' /\ PostsMirror'
    BY <1>8 DEF ShortCircuit, RunsPreHook, PreCount, HooksInv, PostsMirror, TypeOK, PluginTypes
  <2>3. FreshAttempt'
    BY <1>8 DEF ShortCircuit, RunsPreHook, PreCount, FreshAttempt, SoleUser, HeldInv, TypeOK, Target
  <2> QED
    BY <2>1, <2>2, <2>3
<1>9. CASE SendFails
  <2>1. TypeOK' /\ HeldInv' /\ SoleUser'
    BY <1>9 DEF SendFails, Refuse, PlainError, CtxDoneError, TypeOK, HooksInv, HeldInv, SoleUser, PluginTypes, Outcomes
  <2>2. HooksInv' /\ PostsMirror'
    BY <1>9 DEF SendFails, Refuse, PlainError, CtxDoneError, HooksInv, PostsMirror, TypeOK, PluginTypes
  <2>3. FreshAttempt'
    BY <1>9 DEF SendFails, Refuse, PlainError, CtxDoneError, FreshAttempt, SoleUser, HeldInv, TypeOK, Target
  <2> QED
    BY <2>1, <2>2, <2>3
<1>10. CASE Send
  <2>1. TypeOK' /\ HeldInv' /\ SoleUser'
    BY <1>10 DEF Send, TypeOK, HooksInv, HeldInv, SoleUser, PluginTypes, Outcomes
  <2>2. HooksInv' /\ PostsMirror'
    BY <1>10 DEF Send, HooksInv, PostsMirror, TypeOK, PluginTypes
  <2>3. FreshAttempt'
    BY <1>10 DEF Send, FreshAttempt, SoleUser, HeldInv, TypeOK, Target
  <2> QED
    BY <2>1, <2>2, <2>3
<1>11. CASE Count
  <2>1. TypeOK' /\ HeldInv' /\ SoleUser'
    BY <1>11 DEF Count, PostCount, TypeOK, HooksInv, HeldInv, SoleUser, PluginTypes, Outcomes
  <2>2. HooksInv' /\ PostsMirror'
    BY <1>11 DEF Count, PostCount, HooksInv, PostsMirror, TypeOK, PluginTypes
  <2>3. FreshAttempt'
    BY <1>11 DEF Count, PostCount, FreshAttempt, SoleUser, HeldInv, TypeOK, Target
  <2> QED
    BY <2>1, <2>2, <2>3
<1>12. CASE Receive
  <2>1. TypeOK' /\ HeldInv' /\ SoleUser'
    BY <1>12 DEF Receive, TypeOK, HooksInv, HeldInv, SoleUser, PluginTypes, Outcomes
  <2>2. HooksInv' /\ PostsMirror'
    BY <1>12 DEF Receive, HooksInv, PostsMirror, TypeOK, PluginTypes
  <2>3. FreshAttempt'
    BY <1>12 DEF Receive, FreshAttempt, SoleUser, HeldInv, TypeOK, Target
  <2> QED
    BY <2>1, <2>2, <2>3
<1>13. CASE Abandon
  <2>1. TypeOK' /\ HeldInv' /\ SoleUser'
    BY <1>13 DEF Abandon, Refuse, CtxDoneError, TypeOK, HooksInv, HeldInv, SoleUser, PluginTypes, Outcomes
  <2>2. HooksInv' /\ PostsMirror'
    BY <1>13 DEF Abandon, Refuse, CtxDoneError, HooksInv, PostsMirror, TypeOK, PluginTypes
  <2>3. FreshAttempt'
    BY <1>13 DEF Abandon, Refuse, CtxDoneError, FreshAttempt, SoleUser, HeldInv, TypeOK, Target
  <2> QED
    BY <2>1, <2>2, <2>3
<1>14. CASE PostHook
  <2>0. /\ pc = "post" /\ left \in 1..Len(pipeline)
        /\ post' = Append(post, pipeline[left]) /\ left' = left - 1
        /\ outcome' \in Outcomes
        /\ UNCHANGED <<pc, route, attempt, pipeline, pre, primary, pin, trail, ended,
                       held, answer>>
    BY <1>14 DEF PostHook, TypeOK
  <2>1. TypeOK' /\ HeldInv' /\ SoleUser'
    BY <2>0 DEF TypeOK, HeldInv, SoleUser
  <2>2. HooksInv'
    BY <2>0 DEF HooksInv
  <2>3. /\ pre \in Seq(Plugins) /\ post \in Seq(Plugins) /\ pipeline \in Seq(Plugins)
        /\ Len(post') = Len(post) + 1 /\ post'[Len(post) + 1] = pipeline[left]
        /\ \A i \in 1..Len(post) : post'[i] = post[i]
    BY <2>0 DEF TypeOK
  <2>4. /\ Len(post) + left <= Len(pre) /\ pre[left] = pipeline[left]
        /\ \A i \in 1..Len(post) : post[i] = pre[Len(post) + left + 1 - i]
    BY <2>0, <2>3 DEF HooksInv, PostsMirror
  <2>5. PostsMirror'
    <3>1. Len(post') + left' = Len(post) + left
      BY <2>0, <2>3 DEF TypeOK
    <3>2. ASSUME NEW i \in 1..Len(post')
          PROVE  post'[i] = pre[Len(post) + left + 1 - i]
      <4>1. CASE i \in 1..Len(post)
        BY <4>1, <2>3, <2>4
      <4>2. CASE i = Len(post) + 1
        <5>1. Len(post) + left + 1 - i = left
          BY <4>2, <2>0, <2>3
        <5> QED
          BY <4>2, <5>1, <2>3, <2>4
      <4> QED
        BY <4>1, <4>2, <2>3
    <3> QED
      BY <2>0, <2>4, <3>1, <3>2 DEF PostsMirror
  <2>6. FreshAttempt'
    BY <2>0 DEF FreshAttempt, Target
  <2> QED
    BY <2>1, <2>2, <2>5, <2>6
<1>15. CASE FallBack
  <2>1. TypeOK' /\ HeldInv' /\ SoleUser'
    BY <1>15 DEF FallBack, AttemptOver, MayFallBack, FallbacksLeft, TypeOK, HooksInv, HeldInv, SoleUser, PluginTypes, Outcomes
  <2>2. HooksInv' /\ PostsMirror'
    BY <1>15 DEF FallBack, AttemptOver, MayFallBack, FallbacksLeft, HooksInv, PostsMirror, TypeOK, PluginTypes
  <2>3. FreshAttempt'
    BY <1>15 DEF FallBack, AttemptOver, MayFallBack, FallbacksLeft, FreshAttempt, SoleUser, HeldInv, TypeOK, Target
  <2> QED
    BY <2>1, <2>2, <2>3
<1>16. CASE Return
  <2>1. TypeOK' /\ HeldInv' /\ SoleUser'
    BY <1>16 DEF Return, AttemptOver, MayFallBack, FallbacksLeft, TypeOK, HooksInv, HeldInv, SoleUser, PluginTypes, Outcomes
  <2>2. HooksInv' /\ PostsMirror'
    BY <1>16 DEF Return, AttemptOver, MayFallBack, FallbacksLeft, HooksInv, PostsMirror, TypeOK, PluginTypes
  <2>3. FreshAttempt'
    BY <1>16 DEF Return, AttemptOver, MayFallBack, FallbacksLeft, FreshAttempt, SoleUser, HeldInv, TypeOK, Target
  <2> QED
    BY <2>1, <2>2, <2>3
<1>17. CASE Worker
  <2>0. PICK i \in held : Work(i)
    BY <1>17 DEF Worker
  <2>1. /\ i = attempt /\ held' = {}
        /\ pc # "prepare" /\ pc # "pre"
        /\ UNCHANGED <<pc, route, attempt, pipeline, pre, post, left, outcome,
                       primary, pin, ended>>
    BY <2>0 DEF Work, HeldInv, SoleUser
  <2>2. route \in Seq(Providers) /\ attempt + 1 \in 1..Len(route)
    BY <2>1 DEF HeldInv, TypeOK
  <2>3. Target(i) \in Providers
    BY <2>1, <2>2 DEF Target
  <2>4. trail' \in {trail, {Target(i)}}
    BY <2>0 DEF Work, WorkerRecords
  <2>5. answer' \in Outcomes \union {"none"}
    BY <2>0 DEF Work, Deliver, PlainError, TypeOK, Outcomes
  <2>6. TypeOK' /\ HeldInv' /\ SoleUser'
    BY <2>1, <2>3, <2>4, <2>5 DEF TypeOK, HeldInv, SoleUser
  <2>7. HooksInv' /\ PostsMirror'
    BY <2>1 DEF HooksInv, PostsMirror
  <2>8. FreshAttempt'
    BY <2>1, <2>4 DEF FreshAttempt, Target
  <2> QED
    BY <2>6, <2>7, <2>8
<1>18. CASE CtxDone
  <2>1. TypeOK' /\ HeldInv' /\ SoleUser'
    BY <1>18 DEF CtxDone, TypeOK, HooksInv, HeldInv, SoleUser, PluginTypes, Outcomes
  <2>2. HooksInv' /\ PostsMirror'
    BY <1>18 DEF CtxDone, HooksInv, PostsMirror, TypeOK, PluginTypes
  <2>3. FreshAttempt'
    BY <1>18 DEF CtxDone, FreshAttempt, SoleUser, HeldInv, TypeOK, Target
  <2> QED
    BY <2>1, <2>2, <2>3
<1> QED
  BY <1>1, <1>2, <1>3, <1>4, <1>5, <1>6, <1>7, <1>8, <1>9, <1>10, <1>11, <1>12, <1>13, <1>14, <1>15, <1>16, <1>17, <1>18 DEF Request

(* The call reads the list and never writes it.                            *)
LEMMA CallLeavesPlugins ==
    ASSUME Request \/ Worker \/ CtxDone
    PROVE  UNCHANGED pluginVars
<1>1. CASE Request
  BY <1>1 DEF Request, PreRequest, PreparePrimary, PrepareFallback, SkipFallback,
              EnterFails, Enter, PreHook, ShortCircuit, RunsPreHook, SendFails, Send,
              Count, Receive, Abandon, Refuse, PostHook, FallBack, Return
<1>2. CASE Worker
  BY <1>2 DEF Worker, Work
<1>3. CASE CtxDone
  BY <1>3 DEF CtxDone
<1> QED
  BY <1>1, <1>2, <1>3

LEMMA RequestInitially == Init => RequestInv
<1> SUFFICES ASSUME Init PROVE RequestInv
  OBVIOUS
<1>1. TypeOK
  <2>1. <<>> \in Seq(Plugins) /\ Len(<<>>) = 0
    OBVIOUS
  <2>2. /\ pc = "route" /\ route = <<>> /\ attempt = 0
        /\ pipeline = <<>> /\ pre = <<>> /\ post = <<>> /\ left = 0
        /\ outcome = "error" /\ primary = "error"
        /\ pin = NoProvider /\ trail = {} /\ ended = FALSE
        /\ held = {} /\ answer = "none"
    BY DEF Init, PlainError
  <2>3. left \in 0..Len(pipeline) /\ attempt \in Nat
    BY <2>1, <2>2
  <2> QED
    BY <2>1, <2>2, <2>3 DEF TypeOK, Outcomes
<1>2. HooksInv /\ PostsMirror /\ HeldInv /\ SoleUser /\ FreshAttempt
  BY DEF Init, HooksInv, PostsMirror, HeldInv, SoleUser, FreshAttempt
<1> QED
  BY <1>1, <1>2 DEF RequestInv

(* The call does not see the other goroutines change the list.             *)
LEMMA RequestStutter == RequestInv /\ UNCHANGED requestVars => RequestInv'
<1> SUFFICES ASSUME RequestInv, UNCHANGED requestVars PROVE RequestInv'
  OBVIOUS
<1>1. UNCHANGED <<pc, route, attempt, pipeline, pre, post, left, outcome, primary,
                  pin, trail, ended, held, answer>>
  BY DEF requestVars, ctxVars
<1> QED
  BY <1>1 DEF RequestInv, TypeOK, HooksInv, PostsMirror, HeldInv, SoleUser,
              FreshAttempt, Target

-----------------------------------------------------------------------------
(* The plugin list alone: every instance is in one place.                  *)
THEOREM PluginsAccountedFor == PluginSpec => []AccountedFor
<1>1. PluginInit => PluginInv
  BY PluginInitially
<1>2. PluginInv /\ [PluginNext]_pluginVars => PluginInv'
  BY PluginStep, PluginStutter
<1>3. PluginInv => AccountedFor
  BY OnePlace
<1> QED
  BY <1>1, <1>2, <1>3, PTL DEF PluginSpec

(* The call and the list together.                                         *)
THEOREM Invariance == Spec => []IInv
<1>1. Init => IInv
  BY PluginInitially, RequestInitially DEF Init, IInv, RequestInv
<1>2. IInv /\ [Next]_vars => IInv'
  <2>1. SUFFICES ASSUME PluginInv, RequestInv, [Next]_vars PROVE PluginInv' /\ RequestInv'
    BY DEF IInv, RequestInv
  <2>2. CASE Request \/ Worker \/ CtxDone
    <3>1. UNCHANGED pluginVars
      BY <2>2, CallLeavesPlugins
    <3> QED
      BY <2>1, <2>2, <3>1, PluginStutter, RequestStep DEF PluginInv
  <2>3. CASE PluginNext /\ UNCHANGED requestVars
    BY <2>1, <2>3, PluginStep, RequestStutter
  <2>4. CASE UNCHANGED vars
    BY <2>1, <2>4, PluginStutter, RequestStutter DEF vars
  <2> QED
    BY <2>1, <2>2, <2>3, <2>4 DEF Next
<1> QED
  BY <1>1, <1>2, PTL DEF Spec

(***************************************************************************)
(* Whatever reloads, removals and reorders run while a request is under    *)
(* way, no plugin is lost without its Cleanup, cleaned while listed, or    *)
(* cleaned twice.                                                          *)
(***************************************************************************)
THEOREM EveryPluginAccountedFor == Spec => []AccountedFor
<1>1. IInv => AccountedFor
  BY OnePlace DEF IInv
<1> QED
  BY <1>1, Invariance, PTL

(***************************************************************************)
(* The types hold; the post hooks of an attempt unwind its pre hooks; no   *)
(* two attempts use the context at once; a fallback finds no pin and no    *)
(* trail of another provider.                                              *)
(***************************************************************************)
THEOREM FallbackTypes == Spec => []TypeOK
<1>1. IInv => TypeOK
  BY DEF IInv
<1> QED
  BY <1>1, Invariance, PTL

THEOREM PostHooksMirrorPreHooks == Spec => []PostsMirror
<1>1. IInv => PostsMirror
  BY DEF IInv
<1> QED
  BY <1>1, Invariance, PTL

THEOREM OneAttemptAtATime == Spec => []SoleUser
<1>1. IInv => SoleUser
  BY DEF IInv
<1> QED
  BY <1>1, Invariance, PTL

THEOREM FallbackContextClean == Spec => []FreshAttempt
<1>1. IInv => FreshAttempt
  BY DEF IInv
<1> QED
  BY <1>1, Invariance, PTL

=============================================================================
