----------------------------- MODULE PluginGraph -----------------------------
(***************************************************************************)
(* What resolve_order answers (crates/plugin/plugin/src/graph.rs): the     *)
(* order PluginOrder makes or, when some plugins are never ready, the      *)
(* smallest component of the cycles, found with two depth-first searches.  *)
(***************************************************************************)
EXTENDS PluginOrder

VARIABLE answer \* what resolve_order returned

resolving == <<ordering, answer>>

GraphInit == OrderInit /\ answer = [is |-> "none", plugins |-> {}]

Ascending(S) == SetToSortSeq(S, <)

\* visit_dependencies: s is what was visited, and in which order it was left.
RECURSIVE Visit(_, _)
Visit(p, s) ==
  IF p \in s.visited THEN s
  ELSE LET Then(acc, q) == Visit(q, acc)
           left == FoldLeft(Then, [s EXCEPT !.visited = @ \cup {p}], Ascending(dependencies[p]))
       IN [left EXCEPT !.finish = Append(@, p)]

\* collect_component: what p reaches backwards of what was not visited.
RECURSIVE Collect(_, _)
Collect(p, s) ==
  IF p \in s.visited THEN s
  ELSE LET Then(acc, q) == Collect(q, acc)
       IN FoldLeft(Then, [visited |-> s.visited \cup {p}, component |-> s.component \cup {p}],
                   Ascending(Dependents(p)))

\* The order in which the first search leaves the plugins.
FinishOrder ==
  LET Then(acc, p) == Visit(p, acc)
  IN FoldLeft(Then, [visited |-> {}, finish |-> <<>>], Ascending(Plugins)).finish

\* The strong components.
Components ==
  LET Then(acc, p) ==
        IF p \in acc.visited THEN acc
        ELSE LET s == Collect(p, [visited |-> acc.visited, component |-> {}])
             IN [visited |-> s.visited, found |-> acc.found \cup {s.component}]
  IN FoldLeft(Then, [visited |-> {}, found |-> {}], Reverse(FinishOrder)).found

\* Components are compared by their sorted members, and have none in common.
SmallestCyclicComponent ==
  LET cyclic == {c \in Components : Cardinality(c) > 1 \/ \E p \in c : p \in dependencies[p]}
  IN CHOOSE c \in cyclic : \A d \in cyclic : Min(c) <= Min(d)

Return ==
  /\ answer.is = "none" /\ ready = {}
  /\ answer' = IF Len(order) = Cardinality(Plugins)
               THEN [is |-> "ordered", plugins |-> ToSet(order)]
               ELSE [is |-> "cycle", plugins |-> SmallestCyclicComponent]
  /\ UNCHANGED ordering

Returned == answer.is # "none" /\ UNCHANGED resolving

Iterate == Pop /\ UNCHANGED answer

GraphNext == Iterate \/ Return \/ Returned

GraphSpec == GraphInit /\ [][GraphNext]_resolving

-----------------------------------------------------------------------------
(***************************************************************************)
(* Properties.                                                             *)
(***************************************************************************)
\* The dependencies of p, and theirs, and so on.
Reaches ==
  LET Widen(r, i) == [p \in Plugins |-> r[p] \cup UNION {r[q] : q \in r[p]}]
  IN FoldLeft(Widen, dependencies, Ascending(Plugins))

\* An order is refused only for a cycle, and the plugins named are one: all
\* that reach the least plugin on any cycle and that it reaches.
CycleIsReal ==
  answer.is = "cycle" =>
    LET onCycle == {p \in Plugins : p \in Reaches[p]} IN
      /\ onCycle # {}
      /\ answer.plugins = {q \in Reaches[Min(onCycle)] : Min(onCycle) \in Reaches[q]}

\* What resolve_order returns: the right order of all plugins, or a cycle.
OrderRight ==
  /\ LoopRight /\ CycleIsReal
  /\ answer.is = "ordered" => ToSet(order) = Plugins
=============================================================================
