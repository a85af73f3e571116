--------------------------- MODULE PluginLifecycle ---------------------------
(***************************************************************************)
(* The services of a composition (crates/plugin/plugin): activate          *)
(* constructs and starts them in the order of their plugins, or rolls      *)
(* back, and shutdown stops them, newest first; the Harness hands out      *)
(* clones on which any task may call shutdown.  Every await may be its     *)
(* future's last: a host drops it, or a provider panics.                   *)
(*                                                                         *)
(* A service is its place in the order (PluginSelection, PluginGraph), so  *)
(* that it depends on smaller ones only.                                   *)
(***************************************************************************)
EXTENDS FiniteSets, Integers

CONSTANTS
  N,      \* providers of the composition
  Callers \* tasks that call shutdown

\* The task that awaits finish; 0 is no service.
Finisher == "finisher"
Nobody == "nobody"
ASSUME NAssumption == N \in Nat
ASSUME CallersAssumption == Finisher \notin Callers /\ Nobody \notin Callers

Services == 1 .. N
Stoppers == Callers \cup {Finisher}

VARIABLES
  deps,    \* the services each one was given when it was constructed
  at,      \* the step of finish, or what became of the registry
  next,    \* the service activate is at
  service, \* the state of each service
  stops,   \* how often stop was called on it
  ledger,  \* the registry's lifecycles
  call,    \* shutdown, or rollback_activation
  lock     \* the holder of the ledger's lock

vars == <<deps, at, next, service, stops, ledger, call, lock>>

\* nodes: the lifecycles stop_nodes has taken and not yet stopped.  busy: the
\* one it awaits.  told: the failures so far.
Idle == [at |-> "idle", nodes |-> {}, busy |-> 0, told |-> {}]
Call == [at : {"idle", "queued", "stopping", "answered", "gone"}, nodes : SUBSET Services,
         busy : 0 .. N, told : SUBSET Services]

Init ==
  /\ deps \in {d \in [Services -> SUBSET Services] : \A n \in Services : d[n] \subseteq 1 .. n - 1}
  /\ at = "construct" /\ next = 1
  /\ service = [n \in Services |-> "none"] /\ stops = [n \in Services |-> 0]
  /\ ledger = {} /\ call = [w \in Stoppers |-> Idle] /\ lock = Nobody

-----------------------------------------------------------------------------
(***************************************************************************)
(* Activation.                                                             *)
(***************************************************************************)
\* rollback_activation takes what is in the ledger.
RollBack ==
  /\ at' = "rollback"
  /\ call' = [call EXCEPT ![Finisher].at = "stopping", ![Finisher].nodes = ledger]
  /\ ledger' = {}

\* construct_service, once construct has returned.
ConstructOk ==
  /\ at = "construct" /\ next \in Services
  /\ service' = [service EXCEPT ![next] = "constructed"]
  /\ ledger' = ledger \cup {next} /\ next' = next + 1
  /\ UNCHANGED <<deps, at, stops, call, lock>>

ConstructFails ==
  /\ at = "construct" /\ next \in Services
  /\ RollBack
  /\ UNCHANGED <<deps, next, service, stops, lock>>

\* Every factory is dropped, and the lifecycles are started in their order.
Constructed ==
  /\ at = "construct" /\ next = N + 1
  /\ at' = "start" /\ next' = 1
  /\ UNCHANGED <<deps, service, stops, ledger, call, lock>>

StartOk ==
  /\ at = "start" /\ next \in Services
  /\ service' = [service EXCEPT ![next] = "started"]
  /\ next' = next + 1
  /\ UNCHANGED <<deps, at, stops, ledger, call, lock>>

\* The rollback stops those that were never started, too.
StartFails ==
  /\ at = "start" /\ next \in Services
  /\ RollBack
  /\ UNCHANGED <<deps, next, service, stops, lock>>

\* finish returns the registry.
Activated ==
  /\ at = "start" /\ next = N + 1
  /\ at' = "active"
  /\ UNCHANGED <<deps, next, service, stops, ledger, call, lock>>

-----------------------------------------------------------------------------
(***************************************************************************)
(* stop_nodes, for a rollback and for shutdown.                            *)
(***************************************************************************)
\* Mutant: in the order in which they were constructed.
StopNextForward(w) ==
  /\ call[w].at = "stopping" /\ call[w].busy = 0
  /\ \E n \in call[w].nodes :
       /\ \A m \in call[w].nodes : n <= m
       /\ service' = [service EXCEPT ![n] = "stopping"]
       /\ stops' = [stops EXCEPT ![n] = @ + 1]
       /\ call' = [call EXCEPT ![w].nodes = @ \ {n}, ![w].busy = n]
  /\ UNCHANGED <<deps, at, next, ledger, lock>>

StopNext(w) ==
  /\ call[w].at = "stopping" /\ call[w].busy = 0
  /\ \E n \in call[w].nodes :
       /\ \A m \in call[w].nodes : m <= n
       /\ service' = [service EXCEPT ![n] = "stopping"]
       /\ stops' = [stops EXCEPT ![n] = @ + 1]
       /\ call' = [call EXCEPT ![w].nodes = @ \ {n}, ![w].busy = n]
  /\ UNCHANGED <<deps, at, next, ledger, lock>>

\* A failure is kept and the loop goes on.
StopEnds(w) ==
  /\ call[w].busy # 0
  /\ \E outcome \in {"stopped", "unstoppable"} :
       /\ service' = [service EXCEPT ![call[w].busy] = outcome]
       /\ call' = [call EXCEPT ![w].busy = 0,
                               ![w].told = IF outcome = "stopped" THEN @ ELSE @ \cup {call[w].busy}]
  /\ UNCHANGED <<deps, at, next, stops, ledger, lock>>

Stopped(w) == call[w].at = "stopping" /\ call[w].nodes = {} /\ call[w].busy = 0

\* finish returns ActivationFailed; the registry is dropped, and is empty.
RolledBack ==
  /\ at = "rollback" /\ Stopped(Finisher)
  /\ at' = "failed"
  /\ call' = [call EXCEPT ![Finisher].at = "answered"]
  /\ UNCHANGED <<deps, next, service, stops, ledger, lock>>

-----------------------------------------------------------------------------
(***************************************************************************)
(* PluginRegistry::shutdown.                                               *)
(***************************************************************************)
Shutdown(c) ==
  /\ at = "active" /\ call[c].at = "idle"
  /\ call' = [call EXCEPT ![c].at = "queued"]
  /\ UNCHANGED <<deps, at, next, service, stops, ledger, lock>>

\* The lock is held until the call returns.
Acquire(c) ==
  /\ call[c].at = "queued" /\ lock = Nobody
  /\ call' = [call EXCEPT ![c].at = "stopping", ![c].nodes = ledger]
  /\ ledger' = {} /\ lock' = c
  /\ UNCHANGED <<deps, at, next, service, stops>>

\* Mutant: the lock is kept.
AnswerHolding(c) ==
  /\ Stopped(c)
  /\ call' = [call EXCEPT ![c].at = "answered"]
  /\ UNCHANGED <<deps, at, next, service, stops, ledger, lock>>

Answer(c) ==
  /\ Stopped(c)
  /\ call' = [call EXCEPT ![c].at = "answered"]
  /\ lock' = Nobody
  /\ UNCHANGED <<deps, at, next, service, stops, ledger>>

-----------------------------------------------------------------------------
(***************************************************************************)
(* What is dropped at an await: the future, and the lifecycles it has.     *)
(***************************************************************************)
Abandoned(nodes) == [n \in Services |-> IF n \in nodes THEN "abandoned" ELSE service[n]]

DropCall(c) ==
  /\ call[c].at \in {"queued", "stopping"}
  /\ service' = Abandoned(call[c].nodes \cup {call[c].busy})
  /\ call' = [call EXCEPT ![c] = [Idle EXCEPT !.at = "gone"]]
  /\ lock' = IF lock = c THEN Nobody ELSE lock
  /\ UNCHANGED <<deps, at, next, stops, ledger>>

\* finish, with the registry it builds.
DropFinish ==
  /\ at \in {"construct", "start", "rollback"}
  /\ service' = Abandoned(ledger \cup call[Finisher].nodes \cup {call[Finisher].busy})
  /\ at' = "gone" /\ ledger' = {}
  /\ call' = [call EXCEPT ![Finisher] = [Idle EXCEPT !.at = "gone"]]
  /\ UNCHANGED <<deps, next, stops, lock>>

\* The last clone of the Harness; calls of shutdown borrow one.
DropHarness ==
  /\ at = "active" /\ \A c \in Callers : call[c].at \notin {"queued", "stopping"}
  /\ service' = Abandoned(ledger)
  /\ at' = "gone" /\ ledger' = {}
  /\ UNCHANGED <<deps, next, stops, call, lock>>

Done == at \in {"failed", "gone"} /\ UNCHANGED vars

Activation == ConstructOk \/ ConstructFails \/ Constructed \/ StartOk \/ StartFails \/ Activated

Stopping(w) == StopNext(w) \/ StopEnds(w)

Next ==
  \/ Activation \/ RolledBack \/ DropFinish \/ DropHarness \/ Done
  \/ \E w \in Stoppers : Stopping(w)
  \/ \E c \in Callers : Shutdown(c) \/ Acquire(c) \/ Answer(c) \/ DropCall(c)

Spec == Init /\ [][Next]_vars

\* Whoever awaits is polled, and construct, start and stop return.
Fairness ==
  /\ WF_vars(Activation) /\ WF_vars(RolledBack)
  /\ \A w \in Stoppers : WF_vars(Stopping(w))
  /\ \A c \in Callers : WF_vars(Acquire(c)) /\ WF_vars(Answer(c))

-----------------------------------------------------------------------------
(***************************************************************************)
(* Properties.                                                             *)
(***************************************************************************)
TypeOK ==
  /\ deps \in [Services -> SUBSET Services] /\ \A n \in Services : deps[n] \subseteq 1 .. n - 1
  /\ at \in {"construct", "start", "rollback", "active", "failed", "gone"}
  /\ next \in 1 .. N + 1
  /\ service \in [Services -> {"none", "constructed", "started", "stopping", "stopped",
                               "unstoppable", "abandoned"}]
  /\ stops \in [Services -> Nat] /\ ledger \in SUBSET Services
  /\ call \in [Stoppers -> Call] /\ lock \in Callers \cup {Nobody}

Live(n) == service[n] \in {"constructed", "started"}

\* A service that is up, or being stopped, has everything it was given: each
\* service it depends on is up, and started before it was.
DependenciesLive ==
  \A n \in Services : Live(n) \/ service[n] = "stopping" =>
    \A d \in deps[n] : Live(d) /\ (service[n] = "started" => service[d] = "started")

\* stop, which consumes the lifecycle, is called once at most, whoever rolls
\* back or shuts down, and only on what was constructed.
StoppedOnce == \A n \in Services : stops[n] <= 1 /\ (service[n] = "none" => stops[n] = 0)

\* When finish has failed, or shutdown has answered anyone, nothing is up: each
\* service was told to stop and has, unless a future was dropped before.
NothingLeft ==
  at = "failed" \/ (\E c \in Callers : call[c].at = "answered") =>
    \A n \in Services :
      /\ ~Live(n) /\ service[n] # "stopping"
      /\ service[n] = "abandoned" => \E w \in Stoppers : call[w].at = "gone"
      /\ at = "failed" => service[n] \in {"none", "stopped", "unstoppable"}

\* A failure to stop is told by one call: a shutdown that is repeated is not
\* told again what failed, and one that answers Ok although a service could
\* not be stopped has another beside it that tells, or that was dropped.
FailuresTold ==
  /\ \A n \in Services : service[n] = "unstoppable" =>
       \/ \E w \in Stoppers : n \in call[w].told
       \/ \E w \in Stoppers : call[w].at = "gone"
  /\ \A v, w \in Stoppers : v # w => call[v].told \cap call[w].told = {}

\* The four together: services go down in order, once, all of them, and nobody is
\* spared a failure.
LifeOrdered == DependenciesLive /\ StoppedOnce /\ NothingLeft /\ FailuresTold

\* shutdown answers; so does finish.
ShutdownEnds == \A c \in Callers : call[c].at = "queued" ~> call[c].at \in {"answered", "gone"}
FinishEnds == <>(at \in {"active", "failed", "gone"})
=============================================================================
