----------------------------- MODULE PluginOrder -----------------------------
(***************************************************************************)
(* The order in which plugins are mounted and started                      *)
(* (crates/plugin/plugin/src/graph.rs): the loop of resolve_order takes    *)
(* one plugin an iteration, always the least that is ready.  PluginGraph   *)
(* adds what it answers when some are never ready.                         *)
(*                                                                         *)
(* A plugin is the rank of its id; the keys of dependencies are the        *)
(* plugins submitted, or the active ones.                                  *)
(***************************************************************************)
EXTENDS SequencesExt, FiniteSetsExt, Naturals

CONSTANT MaxPlugins \* bound: plugins of a composition
ASSUME PluginsAssumption == MaxPlugins \in Nat

VARIABLES
  dependencies, \* dependencies_by_plugin
  indegrees,    \* dependencies of each plugin that are not in the order
  ready,        \* plugins whose dependencies are all in the order
  order         \* the order so far

ordering == <<dependencies, indegrees, ready, order>>

Plugins == DOMAIN dependencies

\* dependents: the plugins that depend on p.
Dependents(p) == {q \in Plugins : p \in dependencies[q]}

\* resolve_exact and resolve_active call it with any dependencies among the
\* plugins, themselves included.
OrderInit ==
  /\ \E n \in 0 .. MaxPlugins : dependencies \in [1 .. n -> SUBSET (1 .. n)]
  /\ indegrees = [p \in Plugins |-> Cardinality(dependencies[p])]
  /\ ready = {p \in Plugins : indegrees[p] = 0}
  /\ order = <<>>

\* What an iteration does with the plugin it takes.
Take(plugin) ==
  /\ order' = Append(order, plugin)
  /\ indegrees' = [q \in Plugins |-> IF q \in Dependents(plugin) THEN indegrees[q] - 1 ELSE indegrees[q]]
  /\ ready' = (ready \ {plugin}) \cup {q \in Dependents(plugin) : indegrees'[q] = 0}
  /\ UNCHANGED dependencies

\* Mutant: any plugin that is ready is taken.
PopAny == ready # {} /\ Take(Max(ready))

\* An iteration of the loop.
Pop == ready # {} /\ Take(Min(ready))

OrderSpec == OrderInit /\ [][Pop]_ordering

-----------------------------------------------------------------------------
(***************************************************************************)
(* Properties.                                                             *)
(***************************************************************************)
\* The plugins before the i-th.
Before(i) == {order[k] : k \in 1 .. i - 1}

\* No plugin comes before one it depends on, and none comes twice.
OrderTopological ==
  /\ IsInjective(order)
  /\ \A i \in DOMAIN order : dependencies[order[i]] \subseteq Before(i)

\* The order depends on the plugins and not on how they were submitted: among
\* the plugins that may come next it always has the least.
OrderLeast ==
  \A i \in DOMAIN order : \A p \in Plugins :
    dependencies[p] \subseteq Before(i) /\ p < order[i] => p \in Before(i)

\* When no plugin is ready the order has them all, or those it has not are
\* some that wait for each other.
StuckOnCycle ==
  ready = {} => LET left == Plugins \ ToSet(order) IN
    /\ Len(order) = Cardinality(Plugins) <=> left = {}
    /\ \A p \in left : dependencies[p] \cap left # {}
    /\ \A S \in SUBSET Plugins : (\A p \in S : dependencies[p] \cap S # {}) => S \subseteq left

LoopRight == OrderTopological /\ OrderLeast /\ StuckOnCycle
=============================================================================
