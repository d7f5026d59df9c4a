------------------------------ MODULE PluginList ------------------------------
(***************************************************************************)
(* The list of LLM plugins of one Bifrost instance, bifrost.llmPlugins in  *)
(* core/bifrost.go: an atomic pointer to a slice that ReloadPlugin,        *)
(* RemovePlugin and ReorderPlugins replace without a lock. Each of them    *)
(* loads the pointer, builds a new slice from the old one, swaps the       *)
(* pointer if nobody else did, starts over if somebody did, and calls      *)
(* Cleanup of the plugin that left the list after the swap.                *)
(*                                                                         *)
(* Slices are never changed in place and every swap installs a new one, so *)
(* the pointer is modelled by a version number that grows with each swap.  *)
(***************************************************************************)
EXTENDS Naturals, Sequences, FiniteSets, Functions, SequencesExt

CONSTANTS
    Names,         \* names of plugins
    Initial,       \* names of the plugins of BifrostConfig, in their order
    Admins,        \* goroutines that change the list
    MaxChanges,    \* bound: changes begun
    NoPlugin       \* the nil plugin

ASSUME InitialAssumption ==
    /\ Initial \in Seq(Names)
    /\ \A i, j \in 1..Len(Initial) : Initial[i] = Initial[j] => i = j
ASSUME MaxChangesAssumption == MaxChanges \in Nat

(* An instance of a plugin: a reload brings a new instance of a name.      *)
Plugins == [name : Names, id : 0..MaxChanges]

ASSUME NoPluginAssumption == NoPlugin \notin Plugins

VARIABLES
    plugins,   \* *llmPlugins.Load()
    version,   \* the identity of that slice
    begun,     \* changes begun
    known,     \* history: the instances handed to Bifrost
    step,      \* step of an admin: "idle", "load", "swap" or "cleanup"
    kind,      \* "reload", "remove" or "reorder"
    name,      \* name of the plugin to reload or remove
    incoming,  \* instance to be installed
    seen,      \* version of oldPlugins
    proposed,  \* newPlugins, or reordered
    victim,    \* pluginToCleanup
    cleaned    \* the instances whose Cleanup was called

changeVars == <<step, kind, name, incoming, seen, proposed, victim>>
pluginVars == <<plugins, version, begun, known, changeVars, cleaned>>

At(list, n) == {i \in 1..Len(list) : list[i].name = n}

(* The permutations of a list: what sort.SliceStable may make of it, over  *)
(* all the orders a caller may ask for.                                    *)
Reorderings(list) ==
    {[i \in 1..Len(list) |-> list[f[i]]] : f \in Bijection(1..Len(list), 1..Len(list))}

PluginInit ==
    /\ plugins = [i \in 1..Len(Initial) |-> [name |-> Initial[i], id |-> 0]]
    /\ version = 0
    /\ begun = 0
    /\ known = {plugins[i] : i \in 1..Len(plugins)}
    /\ step = [a \in Admins |-> "idle"]
    /\ kind = [a \in Admins |-> "reorder"]
    /\ name = [a \in Admins |-> NoPlugin]
    /\ incoming = [a \in Admins |-> NoPlugin]
    /\ seen = [a \in Admins |-> 0]
    /\ proposed = [a \in Admins |-> <<>>]
    /\ victim = [a \in Admins |-> NoPlugin]
    /\ cleaned = {}

-----------------------------------------------------------------------------
(* The three calls begin.                                                  *)

Begin(a, k, n) ==
    /\ step[a] = "idle"
    /\ begun < MaxChanges
    /\ begun' = begun + 1
    /\ step' = [step EXCEPT ![a] = "load"]
    /\ kind' = [kind EXCEPT ![a] = k]
    /\ name' = [name EXCEPT ![a] = n]
    /\ UNCHANGED <<plugins, version, seen, proposed, victim, cleaned>>

ReloadPlugin(a, n) ==
    LET new == [name |-> n, id |-> begun + 1]
    IN /\ Begin(a, "reload", n)
       /\ incoming' = [incoming EXCEPT ![a] = new]
       /\ known' = known \union {new}

RemovePlugin(a, n) == Begin(a, "remove", n) /\ UNCHANGED <<incoming, known>>

ReorderPlugins(a) == Begin(a, "reorder", NoPlugin) /\ UNCHANGED <<incoming, known>>

-----------------------------------------------------------------------------
(* One round of the loop: load the slice and build its successor ...       *)

Propose(a, list, out) ==
    /\ step' = [step EXCEPT ![a] = "swap"]
    /\ seen' = [seen EXCEPT ![a] = version]
    /\ proposed' = [proposed EXCEPT ![a] = list]
    /\ victim' = [victim EXCEPT ![a] = out]
    /\ UNCHANGED <<plugins, version, begun, known, kind, name, incoming, cleaned>>

(* Nothing to remove, or nothing to reorder.                               *)
ReturnEarly(a) ==
    /\ step' = [step EXCEPT ![a] = "idle"]
    /\ UNCHANGED <<plugins, version, begun, known, kind, name, incoming, seen,
                   proposed, victim, cleaned>>

(* The round ends: what it loaded and built goes out of scope.             *)
Forget(a) ==
    /\ seen' = [seen EXCEPT ![a] = 0]
    /\ proposed' = [proposed EXCEPT ![a] = <<>>]

LoadForReload(a) ==
    /\ step[a] = "load" /\ kind[a] = "reload"
    /\ \/ \E i \in At(plugins, name[a]) :
             Propose(a, [plugins EXCEPT ![i] = incoming[a]], plugins[i])
       \/ /\ At(plugins, name[a]) = {}
          /\ Propose(a, Append(plugins, incoming[a]), NoPlugin)

LoadForRemove(a) ==
    /\ step[a] = "load" /\ kind[a] = "remove"
    /\ \/ \E i \in At(plugins, name[a]) : Propose(a, RemoveAt(plugins, i), plugins[i])
       \/ At(plugins, name[a]) = {} /\ ReturnEarly(a)

LoadForReorder(a) ==
    /\ step[a] = "load" /\ kind[a] = "reorder"
    /\ \/ plugins # <<>> /\ \E list \in Reorderings(plugins) : Propose(a, list, NoPlugin)
       \/ plugins = <<>> /\ ReturnEarly(a)

(* ... swap, or start over ...                                             *)

(* The comparison of CompareAndSwap; a plain store (mutant).               *)
StoreAnyway(a) == TRUE
Unchanged(a) == version = seen[a]

CompareAndSwap(a) ==
    /\ step[a] = "swap"
    /\ Unchanged(a)
    /\ plugins' = proposed[a]
    /\ version' = version + 1
    /\ incoming' = [incoming EXCEPT ![a] = NoPlugin]
    /\ step' = [step EXCEPT ![a] = IF victim[a] = NoPlugin THEN "idle" ELSE "cleanup"]
    /\ Forget(a)
    /\ UNCHANGED <<begun, known, kind, name, victim, cleaned>>

(* The loop starts over with a load; it only swaps again (mutant).         *)
SwapAgain(a) ==
    /\ step[a] = "swap"
    /\ ~Unchanged(a)
    /\ UNCHANGED pluginVars
TryAgain(a) ==
    /\ step[a] = "swap"
    /\ ~Unchanged(a)
    /\ step' = [step EXCEPT ![a] = "load"]
    /\ Forget(a)
    /\ victim' = [victim EXCEPT ![a] = NoPlugin]
    /\ UNCHANGED <<plugins, version, begun, known, kind, name, incoming, cleaned>>

(* ... and clean up what left the list.                                    *)
Cleanup(a) ==
    /\ step[a] = "cleanup"
    /\ cleaned' = cleaned \union {victim[a]}
    /\ step' = [step EXCEPT ![a] = "idle"]
    /\ victim' = [victim EXCEPT ![a] = NoPlugin]
    /\ UNCHANGED <<plugins, version, begun, known, kind, name, incoming, seen, proposed>>

Change(a) ==
    \/ \E n \in Names : ReloadPlugin(a, n) \/ RemovePlugin(a, n)
    \/ ReorderPlugins(a)

Progress(a) ==
    \/ LoadForReload(a) \/ LoadForRemove(a) \/ LoadForReorder(a)
    \/ CompareAndSwap(a) \/ TryAgain(a)
    \/ Cleanup(a)

PluginNext == \E a \in Admins : Change(a) \/ Progress(a)

PluginSpec == PluginInit /\ [][PluginNext]_pluginVars

-----------------------------------------------------------------------------
(* Where an instance is: in the list, on its way in, on its way out, or    *)
(* cleaned up.                                                             *)
Places(p) ==
    {<<"list", i>> : i \in {j \in 1..Len(plugins) : plugins[j] = p}}
    \union {<<"incoming", a>> : a \in {b \in Admins : incoming[b] = p}}
    \union {<<"outgoing", a>> : a \in {b \in Admins : step[b] = "cleanup" /\ victim[b] = p}}
    \union (IF p \in cleaned THEN {<<"cleaned", 0>>} ELSE {})

(***************************************************************************)
(* Whatever reloads, removals and reorders run at once, every plugin       *)
(* handed to Bifrost is in exactly one place: none is lost from the list   *)
(* without its Cleanup, none is cleaned while the list still has it or     *)
(* cleaned twice, none is listed twice. This is what the compare-and-swap  *)
(* loops of reloadLLMPlugin, removeLLMPlugin and reorderAtomicSlice are    *)
(* for.                                                                    *)
(***************************************************************************)
AccountedFor == \A p \in known : \E place \in Places(p) : Places(p) = {place}

(***************************************************************************)
(* What makes AccountedFor inductive. The names in the list are distinct;  *)
(* the four places are disjoint and hold every known instance; and a new   *)
(* slice whose swap would succeed differs from the list by just the victim *)
(* and the instance that comes in.                                         *)
(***************************************************************************)
Listed(list) == {list[i] : i \in 1..Len(list)}
DistinctNames(list) ==
    \A i, j \in 1..Len(list) : list[i].name = list[j].name => i = j

PluginTypes ==
    /\ plugins \in Seq(Plugins)
    /\ version \in Nat
    /\ begun \in 0..MaxChanges
    /\ known \subseteq Plugins
    /\ step \in [Admins -> {"idle", "load", "swap", "cleanup"}]
    /\ kind \in [Admins -> {"reload", "remove", "reorder"}]
    /\ name \in [Admins -> Names \union {NoPlugin}]
    /\ incoming \in [Admins -> Plugins \union {NoPlugin}]
    /\ seen \in [Admins -> Nat]
    /\ proposed \in [Admins -> Seq(Plugins)]
    /\ victim \in [Admins -> Plugins \union {NoPlugin}]
    /\ cleaned \subseteq Plugins

Coming == {incoming[a] : a \in Admins} \ {NoPlugin}
Outgoing == {victim[a] : a \in {b \in Admins : step[b] = "cleanup"}}

Covered ==
    /\ known = Listed(plugins) \union Coming \union Outgoing \union cleaned
    /\ \A p \in known : p.id <= begun

Disjoint ==
    /\ DistinctNames(plugins)
    /\ Listed(plugins) \intersect (Coming \union Outgoing \union cleaned) = {}
    /\ Coming \intersect (Outgoing \union cleaned) = {}
    /\ Outgoing \intersect cleaned = {}
    /\ \A a, b \in Admins : incoming[a] = incoming[b] /\ incoming[a] # NoPlugin => a = b
    /\ \A a, b \in Admins :
           step[a] = "cleanup" /\ step[b] = "cleanup" /\ victim[a] = victim[b] => a = b

Bringing(a) ==
    /\ incoming[a] # NoPlugin <=> step[a] \in {"load", "swap"} /\ kind[a] = "reload"
    /\ incoming[a] # NoPlugin => incoming[a].name = name[a]
    /\ step[a] = "cleanup" => victim[a] # NoPlugin
    /\ seen[a] <= version

Successor(list, old, out, in) ==
    /\ DistinctNames(list)
    /\ out \in Listed(old) \union {NoPlugin}
    /\ Listed(list) = (Listed(old) \ {out}) \union ({in} \ {NoPlugin})

Proposals ==
    \A a \in Admins :
        /\ Bringing(a)
        /\ step[a] = "swap" /\ seen[a] = version =>
              Successor(proposed[a], plugins, victim[a], incoming[a])

PluginInv == PluginTypes /\ Covered /\ Disjoint /\ Proposals

(***************************************************************************)
(* Every change ends: a failed compare-and-swap starts over from the slice *)
(* that made it fail, and each retry is paid for by a change that          *)
(* succeeded.                                                              *)
(***************************************************************************)
ChangesEnd == \A a \in Admins : step[a] # "idle" ~> step[a] = "idle"

=============================================================================
