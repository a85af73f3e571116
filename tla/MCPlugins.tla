----------------------------- MODULE MCPlugins -----------------------------
(***************************************************************************)
(* The plugins for TLC: PluginSelection, which composes and mounts them,   *)
(* PluginGraph, the order it does it in, and PluginLifecycle, the services *)
(* that are constructed of it.  scenario tells what a behaviour is about:  *)
(*   life    the services of four providers and three calls of shutdown    *)
(*   select  compositions of three plugins with any requirements           *)
(*   mount   compositions that may be refused, and mounts that may fail    *)
(*   graph   every graph of up to four plugins                             *)
(***************************************************************************)
EXTENDS PluginLifecycle, PluginSelection, PluginGraph, TLC

CONSTANTS c1, c2, c3

VARIABLE scenario

CallerSymmetry == Permutations(Callers)

Plain(i) == [id |-> i, provider |-> "none", key |-> "none", needs |-> {}, requires |-> {}, uses |-> {}]
KeyOf == <<"k1", "k2", "k3">>

\* A plugin of any capability, with any requirements.
Sample(i) ==
  {[Plain(i) EXCEPT !.provider = c, !.key = IF c = "none" THEN "none" ELSE KeyOf[i],
                    !.requires = r, !.uses = u] :
     c \in {"none", "a", "b"}, r \in SUBSET {"a", "b"}, u \in SUBSET {"a"}}

\* Compositions that pass the validation of the descriptors.
Selecting ==
  {[plugins |-> <<x, y, z>>, requirements |-> r, selections |-> s] :
     x \in Sample(1), y \in Sample(2), z \in Sample(3),
     r \in {{}, {"a"}}, s \in {{}, {<<"a", "k2">>}}}

\* Compositions that may not: any id, key, exact dependency or selection.
Rough(i) ==
  {[Plain(j) EXCEPT !.provider = c, !.key = IF c = "none" THEN "none" ELSE k, !.needs = n] :
     j \in {1, i}, c \in {"none", "a"}, k \in {"k1", KeyOf[i]}, n \in SUBSET (1 .. 3)}
Validating ==
  {[plugins |-> <<x, y>>, requirements |-> {}, selections |-> s] :
     x \in Rough(1), y \in Rough(2), s \in {{}, {<<"a", "k1">>}, {<<"a", "k1">>, <<"a", "k2">>}}}

\* Compositions to mount, in whatever order they were submitted.
Mounting ==
  {[plugins |-> <<[Plain(3) EXCEPT !.requires = {"a"}, !.needs = n],
                  [Plain(2) EXCEPT !.provider = "a", !.key = "k2", !.requires = r], Plain(1),
                  [Plain(4) EXCEPT !.provider = "b", !.key = "k4"]>>,
    requirements |-> {}, selections |-> {}] : n \in SUBSET {1}, r \in SUBSET {"b"}}

ValidatingAndMounting == Validating \cup Mounting
AllCompositions == Selecting \cup ValidatingAndMounting

TwoCapabilities == {"a", "b"}
NoKeys == {}
TwoKeys == {"x", "y"}
Well == FALSE
Badly == TRUE
Selection == INSTANCE PluginSelection WITH
  Compositions <- Selecting, Keys <- NoKeys, BadMounts <- Well
Mounts == INSTANCE PluginSelection WITH Compositions <- ValidatingAndMounting

NoLife == deps = [n \in Services |-> {}] /\ Init
NoComposition ==
  /\ composition = [plugins |-> <<>>, requirements |-> {}, selections |-> {}]
  /\ step = "validate" /\ refusal = "none" /\ mounted = {} /\ entries = <<>>
  /\ bindings = [c \in Capabilities |-> Unbound] /\ factories = bindings
  /\ required = [c \in Capabilities |-> {}]
NoGraph == /\ dependencies = <<>> /\ indegrees = <<>> /\ ready = {} /\ order = <<>>
           /\ answer = [is |-> "none", plugins |-> {}]

MCInit == \/ scenario = "life" /\ Init /\ NoComposition /\ NoGraph
          \/ scenario = "select" /\ Selection!SelectionInit /\ NoLife /\ NoGraph
          \/ scenario = "mount" /\ Mounts!SelectionInit /\ NoLife /\ NoGraph
          \/ scenario = "graph" /\ GraphInit /\ NoLife /\ NoComposition

MCNext == /\ \/ scenario = "life" /\ Next /\ UNCHANGED <<selecting, resolving>>
             \/ scenario = "select" /\ Selection!SelectionNext /\ UNCHANGED <<vars, resolving>>
             \/ scenario = "mount" /\ Mounts!SelectionNext /\ UNCHANGED <<vars, resolving>>
             \/ scenario = "graph" /\ GraphNext /\ UNCHANGED <<vars, selecting>>
          /\ UNCHANGED scenario

MCSpec == MCInit /\ [][MCNext]_<<vars, selecting, resolving, scenario>>
=============================================================================
