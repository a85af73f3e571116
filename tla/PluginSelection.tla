--------------------------- MODULE PluginSelection ---------------------------
(***************************************************************************)
(* The composition of plugins (crates/plugin/plugin): Registrar::finish    *)
(* validates the descriptors, selects one provider for each capability     *)
(* that is needed, orders what is active and mounts it, up to the          *)
(* activation that PluginLifecycle describes.  PluginGraph is the order:   *)
(* a cycle, or the least plugin that is ready.                             *)
(*                                                                         *)
(* A plugin is the rank of its id; of an error only its kind is kept.      *)
(***************************************************************************)
EXTENDS SequencesExt, FiniteSetsExt, Naturals

CONSTANTS
  Capabilities,  \* the capabilities with a factory slot
  Compositions,  \* what hosts submit
  Keys,          \* keys of agents, tools, authorizers and observers
  BadMounts      \* whether mount may fail, or provide the wrong factory

ASSUME BadMountsAssumption == BadMounts \in BOOLEAN

VARIABLES
  composition, \* the Registrar: descriptors in their order, requirements, selections
  step,        \* the step of finish
  refusal,     \* the kind of its error, or "none"
  bindings,    \* the owner bound to each capability, or Unbound
  required,    \* who requires each capability; Root is the composition root
  mounted,     \* the plugins mounted
  factories,   \* the owner of each factory slot
  entries      \* the owner of each key

registry == <<mounted, factories, entries>>
selecting == <<composition, step, refusal, bindings, required, registry>>

\* No plugin has the rank 0.
Unbound == 0
Root == 0

\* A PluginDescriptor; a provider of nothing has the capability "none".
Descriptor == [id : Nat \ {0}, provider : Capabilities \cup {"none"}, key : STRING,
               needs : SUBSET Nat, requires : SUBSET Capabilities, uses : SUBSET Capabilities]
ASSUME CompositionsAssumption ==
  /\ "none" \notin Capabilities
  /\ \A c \in Compositions :
       /\ c.plugins \in Seq(Descriptor) /\ c.requirements \subseteq Capabilities
       /\ c.selections \subseteq Capabilities \X STRING

SelectionInit ==
  /\ composition \in Compositions
  /\ step = "validate" /\ refusal = "none"
  /\ bindings = [c \in Capabilities |-> Unbound] /\ required = [c \in Capabilities |-> {}]
  /\ mounted = {} /\ factories = [c \in Capabilities |-> Unbound]
  /\ entries = [k \in Keys |-> Unbound]

Descriptors == ToSet(composition.plugins)
Ids == {d.id : d \in Descriptors}
Plugin(p) == CHOOSE d \in Descriptors : d.id = p
Candidates(c) == {d \in Descriptors : d.provider = c}

\* The capabilities selections name.
ExplicitlySelected == {s[1] : s \in composition.selections}

-----------------------------------------------------------------------------
(***************************************************************************)
(* Validation.                                                             *)
(***************************************************************************)
\* resolve_order fails: some plugins wait for each other.
Cyclic(dependencies) ==
  \E S \in SUBSET DOMAIN dependencies :
    S # {} /\ \A p \in S : dependencies[p] \cap S # {}

\* validate_duplicate_plugins.
DuplicatePlugin == Cardinality(Ids) < Len(composition.plugins)

\* validate_provider_candidates.
DuplicateCandidate ==
  \E d, e \in Descriptors :
    d.id # e.id /\ d.provider # "none" /\ d.provider = e.provider /\ d.key = e.key

\* validate_missing_dependencies.
MissingDependency == \E d \in Descriptors : ~(d.needs \subseteq Ids)

\* validate_exact_provider_dependencies.
DependsOnProvider ==
  \E d, e \in Descriptors : e.id \in d.needs /\ e.provider # "none"

ConflictingSelection ==
  \E s, t \in composition.selections : s[1] = t[1] /\ s[2] # t[2]

UnknownProvider ==
  \E s \in composition.selections : \A d \in Candidates(s[1]) : d.key # s[2]

\* The checks of finish, in their order.
Invalid ==
  IF DuplicatePlugin THEN "duplicate plugin"
  ELSE IF DuplicateCandidate THEN "duplicate candidate"
  ELSE IF MissingDependency THEN "missing dependency"
  ELSE IF DependsOnProvider THEN "exact dependency"
  ELSE IF Cyclic([p \in Ids |-> Plugin(p).needs]) THEN "cycle"
  ELSE IF ConflictingSelection THEN "conflicting selection"
  ELSE IF UnknownProvider THEN "unknown provider"
  ELSE "none"

Refuse(kind) == step' = "refused" /\ refusal' = kind

\* Up to the bindings of the explicit selections.
Validate ==
  /\ step = "validate"
  /\ IF Invalid # "none"
     THEN Refuse(Invalid) /\ UNCHANGED <<bindings, required>>
     ELSE /\ bindings' = [c \in Capabilities |->
                            IF c \in ExplicitlySelected
                            THEN (CHOOSE d \in Candidates(c) : <<c, d.key>> \in composition.selections).id
                            ELSE Unbound]
          /\ required' = [c \in Capabilities |-> IF c \in composition.requirements THEN {Root} ELSE {}]
          /\ step' = "select" /\ UNCHANGED refusal
  /\ UNCHANGED <<composition, registry>>

-----------------------------------------------------------------------------
(***************************************************************************)
(* Selection.                                                              *)
(***************************************************************************)
Bound == {c \in Capabilities : bindings[c] # Unbound}

\* Mutant: every provider is taken to be active.
ActiveAll == Ids

\* Plugins that provide nothing, and providers that are bound.
Active == {p \in Ids : Plugin(p).provider = "none" \/ \E c \in Bound : bindings[c] = p}

\* What the active plugins require, added to what is known.
Requirements ==
  [c \in Capabilities |-> required[c] \cup {p \in Active : c \in Plugin(p).requires}]

\* An iteration of the loop: what is required, then what has one candidate.
Pass ==
  /\ step = "select"
  /\ required' = Requirements
  /\ bindings' = [c \in Capabilities |->
                    IF Requirements[c] # {} /\ bindings[c] = Unbound /\ Cardinality(Candidates(c)) = 1
                    THEN (CHOOSE d \in Candidates(c) : TRUE).id ELSE bindings[c]]
  /\ step' = IF required' = required /\ bindings' = bindings THEN "decide" ELSE "select"
  /\ UNCHANGED <<composition, refusal, registry>>

\* Required capabilities the loop left unbound.
Open == {c \in Capabilities : required[c] # {} /\ bindings[c] = Unbound}

\* capability_dependencies and resolve_active.
Dependencies ==
  [p \in Active |-> (Plugin(p).needs \cap Active)
                      \cup {bindings[c] : c \in (Plugin(p).requires \cup Plugin(p).uses) \cap Bound}]

Decide ==
  /\ step = "decide"
  /\ IF \E c \in Open : Candidates(c) = {} THEN Refuse("missing capability")
     ELSE IF Open # {} THEN Refuse("ambiguous capability")
     ELSE IF Cyclic(Dependencies) THEN Refuse("cycle")
     ELSE step' = "mount" /\ UNCHANGED refusal
  /\ UNCHANGED <<composition, bindings, required, registry>>

-----------------------------------------------------------------------------
(***************************************************************************)
(* Mounting.                                                               *)
(***************************************************************************)
\* What the next plugin of the order is.
NextPlugin == Min({p \in Active \ mounted : Dependencies[p] \subseteq mounted})

\* provide_*_factory takes the factory of the plugin's own capability, and a
\* provider must have given it.
Accepted(p, provided) == provided = {Plugin(p).provider} \ {"none"}

\* validate: no key is another plugin's.
Free(keys) == \A k \in keys : entries[k] = Unbound

\* mount_plugin: mount stages, then everything is committed or nothing.
Mount ==
  /\ step = "mount" /\ mounted # Active
  /\ LET p == NextPlugin IN
       \E keys \in SUBSET Keys, provided \in SUBSET Capabilities, fails \in BOOLEAN :
         /\ ~BadMounts => ~fails /\ Accepted(p, provided)
         /\ IF ~Accepted(p, provided) \/ fails
            THEN Refuse("mount") /\ UNCHANGED registry
            ELSE IF ~Free(keys)
            THEN Refuse("duplicate") /\ UNCHANGED registry
            ELSE /\ mounted' = mounted \cup {p}
                 /\ factories' = [c \in Capabilities |-> IF c \in provided THEN p ELSE factories[c]]
                 /\ entries' = [k \in Keys |-> IF k \in keys THEN p ELSE entries[k]]
                 /\ UNCHANGED <<step, refusal>>
  /\ UNCHANGED <<composition, bindings, required>>

Activate ==
  /\ step = "mount" /\ mounted = Active
  /\ step' = "activate"
  /\ UNCHANGED <<composition, refusal, bindings, required, registry>>

Composed == step \in {"refused", "activate"} /\ UNCHANGED selecting

SelectionNext == Validate \/ Pass \/ Decide \/ Mount \/ Activate \/ Composed

SelectionSpec == SelectionInit /\ [][SelectionNext]_selecting

-----------------------------------------------------------------------------
(***************************************************************************)
(* Properties.                                                             *)
(***************************************************************************)
Selected == {d \in Descriptors : <<d.provider, d.key>> \in composition.selections}

\* What the root and the plugins of S require.
Demanded(S) == composition.requirements \cup UNION {d.requires : d \in S}

\* The provider of c, if nobody has to guess: the host's choice, or the only one.
Chosen(c) ==
  IF c \in ExplicitlySelected THEN Candidates(c) \cap Selected
  ELSE IF Cardinality(Candidates(c)) = 1 THEN Candidates(c) ELSE {}

\* S has the host's own plugins, those it selected, and what all of them need.
Complete(S) ==
  /\ {d \in Descriptors : d.provider = "none"} \cup Selected \subseteq S
  /\ \A c \in Demanded(S) : Chosen(c) \subseteq S

\* The least complete set of plugins.
Needed == {d \in Descriptors : \A S \in SUBSET Descriptors : Complete(S) => d \in S}

\* The loop selects what is needed and nothing more, in whatever order the
\* plugins were submitted; a provider nobody needs is never constructed.
SelectionLeast ==
  step \in {"mount", "activate"} => Active = {d.id : d \in Needed}

\* A composition that goes on lacks nothing: whatever an active plugin or the
\* root requires is bound to a provider of it which is active, the host's
\* choice if the host chose; and every dependency has its place in the order.
NothingMissing ==
  step \in {"mount", "activate"} =>
    /\ \A p \in Active : Plugin(p).requires \subseteq Bound /\ Dependencies[p] \subseteq Active
    /\ composition.requirements \subseteq Bound
    /\ \A c \in Bound : /\ Plugin(bindings[c]).provider = c
                        /\ c \in ExplicitlySelected => <<c, Plugin(bindings[c]).key>> \in composition.selections

\* The host never gets a provider it would have had to choose, and is refused
\* only when it has to, or when there is none.
NothingGuessed ==
  /\ \A c \in Bound : c \in ExplicitlySelected \/ Cardinality(Candidates(c)) = 1
  /\ refusal = "ambiguous capability" =>
       \E c \in Capabilities \ ExplicitlySelected :
         /\ Cardinality(Candidates(c)) > 1
         /\ c \in Demanded(Needed)
  /\ refusal = "missing capability" =>
       \E c \in Demanded(Needed) : Candidates(c) = {}

\* When services are constructed each bound provider's factory is in its slot,
\* its own, and no other is.
FactoriesExact == step = "activate" => factories = bindings

\* No plugin is mounted before what it depends on.
MountsFollow ==
  step \in {"mount", "activate"} => \A p \in mounted : Dependencies[p] \subseteq mounted

\* The five together: a composition is what its host asked for, or is refused.
CompositionRight ==
  SelectionLeast /\ NothingMissing /\ NothingGuessed /\ FactoriesExact /\ MountsFollow
=============================================================================
