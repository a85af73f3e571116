------------------------ MODULE PluginLifecycleProofs ------------------------
(***************************************************************************)
(* Proofs about the composition of plugins.  PluginLifecycle, for any      *)
(* number of services and callers: what is up has what it depends on,      *)
(* every service is stopped once at most, and nothing is left when finish  *)
(* failed or shutdown answered.  The services that can still be stopped    *)
(* are in one place, the ledger or the call that took it, and are the      *)
(* first ones of the order; whoever stops them takes the last.             *)
(*                                                                         *)
(* PluginOrder and PluginSelection, for any plugins: the order is          *)
(* topological and the least, and what is composed is what is needed.      *)
(***************************************************************************)
EXTENDS PluginLifecycle, PluginSelection, PluginOrder, FiniteSetTheorems, TLAPS

Up(n) == Live(n) \/ service[n] = "stopping"

\* What finish has done while it activates: one step at a time, in the order,
\* and nobody has anything to stop.
Activating ==
  /\ at \in {"construct", "start"} =>
       /\ \A w \in Stoppers : call[w] = Idle
       /\ \A n \in Services : stops[n] = 0
  /\ at = "construct" =>
       /\ ledger = 1 .. next - 1
       /\ \A n \in Services : service[n] = IF n < next THEN "constructed" ELSE "none"
  /\ at = "start" =>
       /\ ledger = Services
       /\ \A n \in Services : service[n] = IF n < next THEN "started" ELSE "constructed"

\* Who may have lifecycles to stop: the call that has the lock while the
\* registry is active, or the rollback; the ledger is empty by then.
Holders ==
  /\ \A c \in Callers : /\ call[c].at \in {"queued", "stopping"} => at = "active"
                        /\ call[c].at = "stopping" => lock = c
                        /\ call[c].at \in {"stopping", "answered"} => ledger = {}
                        /\ call[c].at = "answered" =>
                             \A w \in Stoppers : call[w].nodes = {} /\ call[w].busy = 0
                        /\ call[c].at # "stopping" => call[c].nodes = {} /\ call[c].busy = 0
  /\ call[Finisher].at = "stopping" <=> at = "rollback"
  /\ call[Finisher].at # "stopping" => call[Finisher].nodes = {} /\ call[Finisher].busy = 0
  /\ at \in {"rollback", "failed", "gone"} => ledger = {}
  /\ at \in {"rollback", "failed"} => \A c \in Callers : call[c] = Idle

\* The place of each service that is up.
Places ==
  /\ \A n \in ledger : Live(n)
  /\ \A w \in Stoppers : /\ \A n \in call[w].nodes : Live(n) /\ (call[w].busy # 0 => n < call[w].busy)
                         /\ call[w].busy # 0 => service[call[w].busy] = "stopping"
  /\ \A n \in Services : Live(n) => n \in ledger \/ \E w \in Stoppers : n \in call[w].nodes
  /\ \A n \in Services : service[n] = "stopping" => \E w \in Stoppers : call[w].busy = n

\* They are the first ones, of which the first ones have started.
Ordered ==
  \A m, n \in Services : m < n /\ Up(n) => Live(m) /\ (service[n] = "started" => service[m] = "started")

Counted == \A n \in Services : /\ stops[n] <= 1
                               /\ Live(n) \/ service[n] = "none" => stops[n] = 0

\* Nothing is dropped but by a future, or by a Harness nobody shut down.
Dropped ==
  \A n \in Services : service[n] = "abandoned" =>
    /\ at \notin {"construct", "start", "rollback", "failed"}
    /\ \/ \E w \in Stoppers : call[w].at = "gone"
       \/ at = "gone" /\ \A c \in Callers : call[c].at # "answered"

Inv == TypeOK /\ Activating /\ Holders /\ Places /\ Ordered /\ Counted /\ Dropped

-----------------------------------------------------------------------------
\* Nothing is constructed yet, and nobody has called.
LEMMA InitInv == Init => Inv
  BY NAssumption, CallersAssumption
  DEF Init, Inv, TypeOK, Activating, Holders, Places, Ordered, Counted, Dropped, Up, Live,
      Services, Stoppers, Idle, Call

\* Every step of activation, of a stop and of a caller, and every future that
\* is dropped, leaves each lifecycle in one place and the order unbroken.
LEMMA StepInv == Inv /\ [Next]_vars => Inv'
<1> SUFFICES ASSUME Inv, [Next]_vars PROVE Inv'
  OBVIOUS
<1> USE NAssumption, CallersAssumption DEF Services, Stoppers, Idle, Call, Live, Up
<1>1. CASE UNCHANGED vars
  BY <1>1 DEF vars, Inv, TypeOK, Activating, Holders, Places, Ordered, Counted, Dropped
<1>2. ASSUME ConstructOk PROVE Inv'
  <2>1. TypeOK'
    BY <1>2 DEF ConstructOk, Inv, TypeOK, Activating, Holders, Places
  <2>2. Activating'
    BY <1>2 DEF ConstructOk, Inv, TypeOK, Activating, Holders
  <2>3. Holders'
    BY <1>2 DEF ConstructOk, Inv, TypeOK, Activating, Holders
  <2>4. Places'
    BY <1>2 DEF ConstructOk, Inv, TypeOK, Activating, Holders, Places, Ordered
  <2>5. Ordered'
    BY <1>2 DEF ConstructOk, Inv, TypeOK, Activating, Holders, Places, Ordered
  <2>6. Counted'
    BY <1>2 DEF ConstructOk, Inv, TypeOK, Activating, Holders, Places, Counted
  <2>7. Dropped'
    BY <1>2 DEF ConstructOk, Inv, TypeOK, Activating, Holders, Places, Dropped
  <2> QED
    BY <2>1, <2>2, <2>3, <2>4, <2>5, <2>6, <2>7 DEF Inv
<1>3. ASSUME ConstructFails PROVE Inv'
  <2>1. TypeOK'
    <3>1. call' = [call EXCEPT ![Finisher] = [call[Finisher] EXCEPT !.at = "stopping", !.nodes = ledger]]
      BY <1>3 DEF ConstructFails, RollBack, Inv, TypeOK
    <3>2. call' \in [Stoppers -> Call]
      BY ZenonT(40), <3>1 DEF Inv, TypeOK
    <3> QED
      BY <1>3, <3>2 DEF ConstructFails, RollBack, Inv, TypeOK
  <2>2. Activating'
    BY <1>3 DEF ConstructFails, RollBack, Inv, TypeOK, Activating, Holders
  <2>3. Holders'
    BY <1>3 DEF ConstructFails, RollBack, Inv, TypeOK, Activating, Holders
  <2>4. Places'
    BY <1>3 DEF ConstructFails, RollBack, Inv, TypeOK, Activating, Holders, Places, Ordered
  <2>5. Ordered'
    BY <1>3 DEF ConstructFails, RollBack, Inv, TypeOK, Activating, Holders, Places, Ordered
  <2>6. Counted'
    BY <1>3 DEF ConstructFails, RollBack, Inv, TypeOK, Activating, Holders, Places, Counted
  <2>7. Dropped'
    BY <1>3 DEF ConstructFails, RollBack, Inv, TypeOK, Activating, Holders, Places, Dropped
  <2> QED
    BY <2>1, <2>2, <2>3, <2>4, <2>5, <2>6, <2>7 DEF Inv
<1>4. ASSUME Constructed PROVE Inv'
  <2>1. TypeOK'
    BY <1>4 DEF Constructed, Inv, TypeOK, Activating, Holders, Places
  <2>2. Activating'
    BY <1>4 DEF Constructed, Inv, TypeOK, Activating, Holders
  <2>3. Holders'
    BY <1>4 DEF Constructed, Inv, TypeOK, Activating, Holders
  <2>4. Places'
    BY <1>4 DEF Constructed, Inv, TypeOK, Activating, Holders, Places, Ordered
  <2>5. Ordered'
    BY <1>4 DEF Constructed, Inv, TypeOK, Activating, Holders, Places, Ordered
  <2>6. Counted'
    BY <1>4 DEF Constructed, Inv, TypeOK, Activating, Holders, Places, Counted
  <2>7. Dropped'
    BY <1>4 DEF Constructed, Inv, TypeOK, Activating, Holders, Places, Dropped
  <2> QED
    BY <2>1, <2>2, <2>3, <2>4, <2>5, <2>6, <2>7 DEF Inv
<1>5. ASSUME StartOk PROVE Inv'
  <2>1. TypeOK'
    BY <1>5 DEF StartOk, Inv, TypeOK, Activating, Holders, Places
  <2>2. Activating'
    BY <1>5 DEF StartOk, Inv, TypeOK, Activating, Holders
  <2>3. Holders'
    BY <1>5 DEF StartOk, Inv, TypeOK, Activating, Holders
  <2>4. Places'
    BY <1>5 DEF StartOk, Inv, TypeOK, Activating, Holders, Places, Ordered
  <2>5. Ordered'
    BY <1>5 DEF StartOk, Inv, TypeOK, Activating, Holders, Places, Ordered
  <2>6. Counted'
    BY <1>5 DEF StartOk, Inv, TypeOK, Activating, Holders, Places, Counted
  <2>7. Dropped'
    BY <1>5 DEF StartOk, Inv, TypeOK, Activating, Holders, Places, Dropped
  <2> QED
    BY <2>1, <2>2, <2>3, <2>4, <2>5, <2>6, <2>7 DEF Inv
<1>6. ASSUME StartFails PROVE Inv'
  <2>1. TypeOK'
    <3>1. call' = [call EXCEPT ![Finisher] = [call[Finisher] EXCEPT !.at = "stopping", !.nodes = ledger]]
      BY <1>6 DEF StartFails, RollBack, Inv, TypeOK
    <3>2. call' \in [Stoppers -> Call]
      BY ZenonT(40), <3>1 DEF Inv, TypeOK
    <3> QED
      BY <1>6, <3>2 DEF StartFails, RollBack, Inv, TypeOK
  <2>2. Activating'
    BY <1>6 DEF StartFails, RollBack, Inv, TypeOK, Activating, Holders
  <2>3. Holders'
    BY <1>6 DEF StartFails, RollBack, Inv, TypeOK, Activating, Holders
  <2>4. Places'
    BY <1>6 DEF StartFails, RollBack, Inv, TypeOK, Activating, Holders, Places, Ordered
  <2>5. Ordered'
    BY <1>6 DEF StartFails, RollBack, Inv, TypeOK, Activating, Holders, Places, Ordered
  <2>6. Counted'
    BY <1>6 DEF StartFails, RollBack, Inv, TypeOK, Activating, Holders, Places, Counted
  <2>7. Dropped'
    BY <1>6 DEF StartFails, RollBack, Inv, TypeOK, Activating, Holders, Places, Dropped
  <2> QED
    BY <2>1, <2>2, <2>3, <2>4, <2>5, <2>6, <2>7 DEF Inv
<1>7. ASSUME Activated PROVE Inv'
  <2>1. TypeOK'
    BY <1>7 DEF Activated, Inv, TypeOK, Activating, Holders, Places
  <2>2. Activating'
    BY <1>7 DEF Activated, Inv, TypeOK, Activating, Holders
  <2>3. Holders'
    BY <1>7 DEF Activated, Inv, TypeOK, Activating, Holders
  <2>4. Places'
    BY <1>7 DEF Activated, Inv, TypeOK, Activating, Holders, Places, Ordered
  <2>5. Ordered'
    BY <1>7 DEF Activated, Inv, TypeOK, Activating, Holders, Places, Ordered
  <2>6. Counted'
    BY <1>7 DEF Activated, Inv, TypeOK, Activating, Holders, Places, Counted
  <2>7. Dropped'
    BY <1>7 DEF Activated, Inv, TypeOK, Activating, Holders, Places, Dropped
  <2> QED
    BY <2>1, <2>2, <2>3, <2>4, <2>5, <2>6, <2>7 DEF Inv
<1>8. ASSUME RolledBack PROVE Inv'
  <2>1. TypeOK'
    <3>1. call' = [call EXCEPT ![Finisher] = [call[Finisher] EXCEPT !.at = "answered"]]
      BY <1>8 DEF RolledBack, Inv, TypeOK
    <3>2. call' \in [Stoppers -> Call]
      BY ZenonT(40), <3>1 DEF Inv, TypeOK
    <3> QED
      BY <1>8, <3>2 DEF RolledBack, Inv, TypeOK
  <2>2. Activating'
    BY <1>8 DEF RolledBack, Stopped, Inv, TypeOK, Activating, Holders
  <2>3. Holders'
    <3>1. call[Finisher].nodes = {} /\ call[Finisher].busy = 0
      BY <1>8 DEF RolledBack, Stopped
    <3>2. /\ call'[Finisher].at = "answered" /\ call'[Finisher].nodes = {} /\ call'[Finisher].busy = 0
          /\ \A c \in Callers : call'[c] = call[c]
      BY <1>8, <3>1 DEF RolledBack, Inv, TypeOK
    <3> QED
      BY <1>8, <3>2 DEF RolledBack, Inv, TypeOK, Holders
  <2>4. Places'
    BY <1>8 DEF RolledBack, Stopped, Inv, TypeOK, Activating, Holders, Places, Ordered
  <2>5. Ordered'
    BY <1>8 DEF RolledBack, Stopped, Inv, TypeOK, Activating, Holders, Places, Ordered
  <2>6. Counted'
    BY <1>8 DEF RolledBack, Stopped, Inv, TypeOK, Activating, Holders, Places, Counted
  <2>7. Dropped'
    BY <1>8 DEF RolledBack, Stopped, Inv, TypeOK, Activating, Holders, Places, Dropped
  <2> QED
    BY <2>1, <2>2, <2>3, <2>4, <2>5, <2>6, <2>7 DEF Inv
<1>9. ASSUME DropFinish PROVE Inv'
  <2>1. TypeOK'
    BY <1>9 DEF DropFinish, Abandoned, Inv, TypeOK, Activating, Holders, Places
  <2>2. Activating'
    BY <1>9 DEF DropFinish, Abandoned, Inv, TypeOK, Activating, Holders
  <2>3. Holders'
    BY <1>9 DEF DropFinish, Abandoned, Inv, TypeOK, Activating, Holders
  <2>4. Places'
    BY <1>9 DEF DropFinish, Abandoned, Inv, TypeOK, Activating, Holders, Places, Ordered
  <2>5. Ordered'
    BY <1>9 DEF DropFinish, Abandoned, Inv, TypeOK, Activating, Holders, Places, Ordered
  <2>6. Counted'
    BY <1>9 DEF DropFinish, Abandoned, Inv, TypeOK, Activating, Holders, Places, Counted
  <2>7. Dropped'
    BY <1>9 DEF DropFinish, Abandoned, Inv, TypeOK, Activating, Holders, Places, Dropped
  <2> QED
    BY <2>1, <2>2, <2>3, <2>4, <2>5, <2>6, <2>7 DEF Inv
<1>10. ASSUME DropHarness PROVE Inv'
  <2>1. TypeOK'
    BY <1>10 DEF DropHarness, Abandoned, Inv, TypeOK, Activating, Holders, Places
  <2>2. Activating'
    BY <1>10 DEF DropHarness, Abandoned, Inv, TypeOK, Activating, Holders
  <2>3. Holders'
    BY <1>10 DEF DropHarness, Abandoned, Inv, TypeOK, Activating, Holders
  <2>4. Places'
    BY <1>10 DEF DropHarness, Abandoned, Inv, TypeOK, Activating, Holders, Places, Ordered
  <2>5. Ordered'
    <3>1. \A w \in Stoppers : call[w].nodes = {} /\ call[w].busy = 0
      BY <1>10 DEF DropHarness, Inv, TypeOK, Holders
    <3>2. \A n \in Services : ~ Up(n)'
      BY <1>10, <3>1 DEF DropHarness, Abandoned, Inv, TypeOK, Places
    <3> QED
      BY <3>2 DEF Ordered
  <2>6. Counted'
    BY <1>10 DEF DropHarness, Abandoned, Inv, TypeOK, Activating, Holders, Places, Counted
  <2>7. Dropped'
    BY <1>10 DEF DropHarness, Abandoned, Inv, TypeOK, Activating, Holders, Places, Dropped
  <2> QED
    BY <2>1, <2>2, <2>3, <2>4, <2>5, <2>6, <2>7 DEF Inv
<1>11. ASSUME NEW w \in Stoppers, StopNext(w) PROVE Inv'
  <2>1. TypeOK'
    BY <1>11 DEF StopNext, Inv, TypeOK, Activating, Holders, Places
  <2>2. Activating'
    BY <1>11 DEF StopNext, Inv, TypeOK, Activating, Holders
  <2>3. Holders'
    BY <1>11 DEF StopNext, Inv, TypeOK, Activating, Holders
  <2>4. Places'
    BY <1>11 DEF StopNext, Inv, TypeOK, Activating, Holders, Places, Ordered
  <2>5. Ordered'
    BY <1>11 DEF StopNext, Inv, TypeOK, Activating, Holders, Places, Ordered
  <2>6. Counted'
    BY <1>11 DEF StopNext, Inv, TypeOK, Activating, Holders, Places, Counted
  <2>7. Dropped'
    BY SMTT(30), <1>11 DEF StopNext, Inv, TypeOK, Activating, Holders, Places, Dropped
  <2> QED
    BY <2>1, <2>2, <2>3, <2>4, <2>5, <2>6, <2>7 DEF Inv
<1>12. ASSUME NEW w \in Stoppers, StopEnds(w) PROVE Inv'
  <2>0. PICK outcome \in {"stopped", "unstoppable"} :
          /\ service' = [service EXCEPT ![call[w].busy] = outcome]
          /\ call' = [call EXCEPT ![w] =
               [call[w] EXCEPT !.busy = 0,
                               !.told = IF outcome = "stopped" THEN call[w].told
                                        ELSE call[w].told \cup {call[w].busy}]]
    BY <1>12 DEF StopEnds, Inv, TypeOK
  <2>a. call[w].busy \in Services
    BY <1>12 DEF StopEnds, Inv, TypeOK
  <2>b. call[w].told \cup {call[w].busy} \subseteq Services
    BY <2>a DEF Inv, TypeOK
  <2>c. /\ call'[w].at = call[w].at /\ call'[w].nodes = call[w].nodes /\ call'[w].busy = 0
        /\ \A v \in Stoppers \ {w} : call'[v] = call[v]
    BY <2>0 DEF Inv, TypeOK
  <2>1. TypeOK'
    <3>1. call[w] \in Call
      BY DEF Inv, TypeOK
    <3>2. \A told \in SUBSET Services : [call[w] EXCEPT !.busy = 0, !.told = told] \in Call
      <4>1. 0 \in 0 .. N
        OBVIOUS
      <4> HIDE NAssumption
      <4> QED
        BY <3>1, <4>1
    <3>3. call' \in [Stoppers -> Call]
      BY <2>0, <2>b, <3>2 DEF Inv, TypeOK
    <3> QED
      BY <1>12, <2>0, <3>3 DEF StopEnds, Inv, TypeOK
  <2>2. Activating'
    BY <1>12 DEF StopEnds, Inv, TypeOK, Activating, Holders
  <2>3. Holders'
    <3>1. call[w].at = "stopping"
      BY <1>12 DEF StopEnds, Inv, TypeOK, Holders
    <3>2. at' = at /\ lock' = lock /\ ledger' = ledger
      BY <1>12 DEF StopEnds
    <3>3. at \in {"rollback", "failed"} => \A c \in Callers : c # w
      BY <3>1 DEF Inv, Holders
    <3> QED
      BY <2>c, <3>1, <3>2, <3>3 DEF Inv, Holders
  <2>4. Places'
    <3>1. \A n \in Services : n # call[w].busy => service'[n] = service[n]
      BY <2>0 DEF Inv, TypeOK
    <3>2. service'[call[w].busy] = outcome
      BY <2>0, <2>a DEF Inv, TypeOK
    <3>3. \A v \in Stoppers \ {w} : call[v].nodes = {} /\ call[v].busy = 0
      BY <1>12 DEF StopEnds, Inv, TypeOK, Holders
    <3>4. ledger' = {}
      BY <1>12 DEF StopEnds, Inv, TypeOK, Holders
    <3>5. \A n \in call[w].nodes : n \in Services /\ Live(n) /\ n < call[w].busy
      BY <2>a DEF Inv, TypeOK, Places
    <3>6. \A n \in Services : Live(n) \/ service[n] = "stopping" => n \in call[w].nodes \/ n = call[w].busy
      BY <1>12, <3>3, <3>4 DEF StopEnds, Inv, Places
    <3> QED
      BY <2>a, <2>c, <3>1, <3>2, <3>3, <3>4, <3>5, <3>6 DEF Places
  <2>5. Ordered'
    BY <1>12 DEF StopEnds, Inv, TypeOK, Activating, Holders, Places, Ordered
  <2>6. Counted'
    BY <1>12 DEF StopEnds, Inv, TypeOK, Activating, Holders, Places, Counted
  <2>7. Dropped'
    <3>1. \A n \in Services : service'[n] = "abandoned" => service[n] = "abandoned"
      BY <2>0, <2>a DEF Inv, TypeOK
    <3>2. at' = at /\ \A v \in Stoppers : call'[v].at = call[v].at
      BY <1>12, <2>c DEF StopEnds
    <3> QED
      BY <3>1, <3>2 DEF Inv, Dropped
  <2> QED
    BY <2>1, <2>2, <2>3, <2>4, <2>5, <2>6, <2>7 DEF Inv
<1>13. ASSUME NEW c \in Callers, Shutdown(c) PROVE Inv'
  <2>1. TypeOK'
    <3>1. call' = [call EXCEPT ![c] = [call[c] EXCEPT !.at = "queued"]] /\ call[c] \in Call
      BY <1>13 DEF Shutdown, Inv, TypeOK
    <3>2. [call[c] EXCEPT !.at = "queued"] \in Call
      BY <3>1
    <3>3. call' \in [Stoppers -> Call]
      BY <3>1, <3>2 DEF Inv, TypeOK
    <3> QED
      BY <1>13, <3>3 DEF Shutdown, Inv, TypeOK
  <2>2. Activating'
    BY <1>13 DEF Shutdown, Inv, TypeOK, Activating, Holders
  <2>3. Holders'
    BY <1>13 DEF Shutdown, Inv, TypeOK, Activating, Holders
  <2>4. Places'
    BY <1>13 DEF Shutdown, Inv, TypeOK, Activating, Holders, Places, Ordered
  <2>5. Ordered'
    BY <1>13 DEF Shutdown, Inv, TypeOK, Activating, Holders, Places, Ordered
  <2>6. Counted'
    BY <1>13 DEF Shutdown, Inv, TypeOK, Activating, Holders, Places, Counted
  <2>7. Dropped'
    BY <1>13 DEF Shutdown, Inv, TypeOK, Activating, Holders, Places, Dropped
  <2> QED
    BY <2>1, <2>2, <2>3, <2>4, <2>5, <2>6, <2>7 DEF Inv
<1>14. ASSUME NEW c \in Callers, Acquire(c) PROVE Inv'
  <2>0. /\ call' = [call EXCEPT ![c] = [call[c] EXCEPT !.at = "stopping", !.nodes = ledger]]
        /\ call[c].at = "queued" /\ call[c].nodes = {} /\ call[c].busy = 0
    BY <1>14 DEF Acquire, Inv, TypeOK, Holders
  <2>1. TypeOK'
    <3>1. [call[c] EXCEPT !.at = "stopping", !.nodes = ledger] \in Call
      BY ZenonT(40) DEF Inv, TypeOK
    <3>2. call' \in [Stoppers -> Call]
      BY <2>0, <3>1 DEF Inv, TypeOK
    <3> QED
      BY <1>14, <3>2 DEF Acquire, Inv, TypeOK
  <2>2. Activating'
    BY <1>14 DEF Acquire, Inv, TypeOK, Activating, Holders
  <2>3. Holders'
    BY <1>14 DEF Acquire, Inv, TypeOK, Activating, Holders
  <2>4. Places'
    <3>1. /\ call'[c].nodes = ledger /\ call'[c].busy = 0
          /\ \A w \in Stoppers \ {c} : call'[w] = call[w]
      BY <2>0 DEF Inv, TypeOK
    <3>2. ledger' = {} /\ service' = service /\ c \in Stoppers
      BY <1>14 DEF Acquire
    <3>3. \A n \in ledger : Live(n)
      BY DEF Inv, Places
    <3>4. \A n \in Services : Live(n) => \E w \in Stoppers : n \in call'[w].nodes
      BY <2>0, <3>1, <3>2 DEF Inv, Places
    <3>5. \A n \in Services : service[n] = "stopping" => \E w \in Stoppers : call'[w].busy = n
      BY <2>0, <3>1, <3>2 DEF Inv, Places
    <3>6. \A w \in Stoppers \ {c} :
            /\ \A n \in call[w].nodes : Live(n) /\ (call[w].busy # 0 => n < call[w].busy)
            /\ call[w].busy # 0 => service[call[w].busy] = "stopping"
      BY DEF Inv, Places
    <3> QED
      BY <3>1, <3>2, <3>3, <3>4, <3>5, <3>6 DEF Places
  <2>5. Ordered'
    BY <1>14 DEF Acquire, Inv, TypeOK, Activating, Holders, Places, Ordered
  <2>6. Counted'
    BY <1>14 DEF Acquire, Inv, TypeOK, Activating, Holders, Places, Counted
  <2>7. Dropped'
    BY <1>14 DEF Acquire, Inv, TypeOK, Activating, Holders, Places, Dropped
  <2> QED
    BY <2>1, <2>2, <2>3, <2>4, <2>5, <2>6, <2>7 DEF Inv
<1>15. ASSUME NEW c \in Callers, Answer(c) PROVE Inv'
  <2>1. TypeOK'
    BY <1>15 DEF Answer, Stopped, Inv, TypeOK, Activating, Holders, Places
  <2>2. Activating'
    BY <1>15 DEF Answer, Stopped, Inv, TypeOK, Activating, Holders
  <2>3. Holders'
    BY <1>15 DEF Answer, Stopped, Inv, TypeOK, Activating, Holders
  <2>4. Places'
    BY <1>15 DEF Answer, Stopped, Inv, TypeOK, Activating, Holders, Places, Ordered
  <2>5. Ordered'
    BY <1>15 DEF Answer, Stopped, Inv, TypeOK, Activating, Holders, Places, Ordered
  <2>6. Counted'
    BY <1>15 DEF Answer, Stopped, Inv, TypeOK, Activating, Holders, Places, Counted
  <2>7. Dropped'
    BY <1>15 DEF Answer, Stopped, Inv, TypeOK, Activating, Holders, Places, Dropped
  <2> QED
    BY <2>1, <2>2, <2>3, <2>4, <2>5, <2>6, <2>7 DEF Inv
<1>16. ASSUME NEW c \in Callers, DropCall(c) PROVE Inv'
  <2>1. TypeOK'
    BY ZenonT(40), <1>16 DEF DropCall, Abandoned, Inv, TypeOK, Activating, Holders, Places
  <2>2. Activating'
    BY <1>16 DEF DropCall, Abandoned, Inv, TypeOK, Activating, Holders
  <2>3. Holders'
    BY <1>16 DEF DropCall, Abandoned, Inv, TypeOK, Activating, Holders
  <2>4. Places'
    BY <1>16 DEF DropCall, Abandoned, Inv, TypeOK, Activating, Holders, Places, Ordered
  <2>5. Ordered'
    <3>1. CASE call[c].at = "queued"
      <4>1. call[c].nodes \cup {call[c].busy} = {0}
        BY <3>1 DEF Inv, Holders
      <4>2. service' = service
        BY <1>16, <4>1 DEF DropCall, Abandoned, Inv, TypeOK
      <4> QED
        BY <4>2 DEF Inv, Ordered
    <3>2. CASE call[c].at = "stopping"
      <4>1. ledger = {} /\ \A w \in Stoppers : w # c => call[w].nodes = {} /\ call[w].busy = 0
        BY <3>2 DEF Inv, TypeOK, Holders
      <4>2. \A n \in Services : ~ Up(n)'
        BY <1>16, <4>1 DEF DropCall, Abandoned, Inv, TypeOK, Places
      <4> QED
        BY <4>2 DEF Ordered
    <3> QED
      BY <1>16, <3>1, <3>2 DEF DropCall
  <2>6. Counted'
    BY <1>16 DEF DropCall, Abandoned, Inv, TypeOK, Activating, Holders, Places, Counted
  <2>7. Dropped'
    BY <1>16 DEF DropCall, Abandoned, Inv, TypeOK, Activating, Holders, Places, Dropped
  <2> QED
    BY <2>1, <2>2, <2>3, <2>4, <2>5, <2>6, <2>7 DEF Inv
<1>17. ASSUME Done PROVE Inv'
  BY <1>17, <1>1 DEF Done
<1> QED
  BY <1>1, <1>2, <1>3, <1>4, <1>5, <1>6, <1>7, <1>8, <1>9, <1>10, <1>11, <1>12, <1>13, <1>14, <1>15, <1>16, <1>17 DEF Next, Activation, Stopping

-----------------------------------------------------------------------------
\* The invariant holds throughout.
LEMMA InvHolds == Spec => []Inv
  BY InitInv, StepInv, PTL DEF Spec

\* Whatever composes and shuts down, a state has the types declared for it.
THEOREM TypeCorrect == Spec => []TypeOK
<1>1. Inv => TypeOK
  BY DEF Inv
<1> QED
  BY InvHolds, <1>1, PTL

\* For any number of services: each has, while it is up or being stopped, the
\* services it was given, up and started before it.
THEOREM DependenciesUp == Spec => []DependenciesLive
<1>1. Inv => DependenciesLive
  BY NAssumption DEF Inv, TypeOK, Ordered, Up, Live, DependenciesLive, Services
<1> QED
  BY InvHolds, <1>1, PTL

\* For any number of calls of shutdown, dropped or not, beside each other: no
\* lifecycle is stopped twice.
THEOREM StopsOnce == Spec => []StoppedOnce
<1>1. Inv => StoppedOnce
  BY DEF Inv, Counted, StoppedOnce
<1> QED
  BY InvHolds, <1>1, PTL

\* A finish that failed and a shutdown that answered leave nothing up.
THEOREM NothingIsLeft == Spec => []NothingLeft
<1>1. ASSUME Inv, at = "failed" \/ \E c \in Callers : call[c].at = "answered"
      PROVE  ledger = {} /\ \A w \in Stoppers : call[w].nodes = {} /\ call[w].busy = 0
  <2>1. CASE at = "failed"
    <3>1. ledger = {} /\ \A c \in Callers : call[c] = Idle
      BY <1>1, <2>1 DEF Inv, Holders
    <3>2. call[Finisher].nodes = {} /\ call[Finisher].busy = 0
      BY <1>1, <2>1 DEF Inv, Holders
    <3> QED
      BY <3>1, <3>2 DEF Stoppers, Idle
  <2>2. CASE \E c \in Callers : call[c].at = "answered"
    BY <1>1, <2>2 DEF Inv, Holders
  <2> QED
    BY <1>1, <2>1, <2>2
<1>2. ASSUME Inv, at = "failed" \/ \E c \in Callers : call[c].at = "answered", NEW n \in Services
      PROVE  ~Live(n) /\ service[n] # "stopping"
  <2>1. ledger = {} /\ \A w \in Stoppers : call[w].nodes = {} /\ call[w].busy = 0
    BY <1>1, <1>2
  <2>2. n # 0
    BY NAssumption DEF Services
  <2> QED
    BY <1>2, <2>1, <2>2 DEF Inv, Places
<1>3. Inv => NothingLeft
  BY <1>2 DEF Inv, TypeOK, Holders, Dropped, NothingLeft, Live
<1> QED
  BY InvHolds, <1>3, PTL

-----------------------------------------------------------------------------
\* Who is told of a failure, as an invariant of its own: what is told has failed.
Told == FailuresTold /\ \A w \in Stoppers : \A n \in call[w].told : service[n] = "unstoppable"

\* A step that leaves the services alone, and what every call was told.
LEMMA ToldStays ==
  ASSUME Told, UNCHANGED service, \A w \in Stoppers : call'[w].told = call[w].told,
         \A w \in Stoppers : call[w].at = "gone" => call'[w].at = "gone"
  PROVE  Told'
  BY DEF Told, FailuresTold

\* A service that has not failed changes its state, and does not fail.
LEMMA ToldMoves ==
  ASSUME Told, NEW S \in SUBSET Services, \A n \in S : service[n] # "unstoppable",
         \A n \in Services : service'[n] = service[n] \/ (n \in S /\ service'[n] # "unstoppable"),
         \A w \in Stoppers : call[w].told \subseteq Services,
         \A w \in Stoppers : call'[w].told = call[w].told \/ (call'[w].at = "gone" /\ call'[w].told = {}),
         \A w \in Stoppers : call[w].at = "gone" => call'[w].at = "gone"
  PROVE  Told'
<1>1. \A w \in Stoppers : \A n \in call'[w].told : n \in Services /\ service[n] = "unstoppable"
  BY DEF Told
<1>2. \A w \in Stoppers : \A n \in call'[w].told : service'[n] = "unstoppable"
  BY <1>1
<1>3. ASSUME NEW n \in Services, service'[n] = "unstoppable"
      PROVE  \/ \E w \in Stoppers : n \in call'[w].told
             \/ \E w \in Stoppers : call'[w].at = "gone"
  <2>1. service[n] = "unstoppable"
    BY <1>3
  <2> QED
    BY <2>1 DEF Told, FailuresTold
<1>4. ASSUME NEW v \in Stoppers, NEW w \in Stoppers, v # w
      PROVE  call'[v].told \cap call'[w].told = {}
  <2>1. call[v].told \cap call[w].told = {}
    BY <1>4 DEF Told, FailuresTold
  <2> QED
    BY <2>1
<1> QED
  BY <1>2, <1>3, <1>4 DEF Told, FailuresTold

\* A stop that has ended is told once: what was being stopped had not failed.
LEMMA ToldOfStop ==
  ASSUME Inv, Told, NEW w \in Stoppers, StopEnds(w)
  PROVE  Told'
<1> DEFINE b == call[w].busy
<1>1. b \in Services /\ service[b] = "stopping"
  BY DEF Inv, TypeOK, Call, Places, StopEnds, Services
<1>2. call \in [Stoppers -> Call] /\ service \in [Services -> {"none", "constructed", "started",
        "stopping", "stopped", "unstoppable", "abandoned"}]
  BY DEF Inv, TypeOK
<1>3. \A v \in Stoppers : b \notin call[v].told
  BY <1>1 DEF Told
<1>4. PICK outcome \in {"stopped", "unstoppable"} :
        /\ service' = [service EXCEPT ![b] = outcome]
        /\ call' = [call EXCEPT ![w].busy = 0,
                                ![w].told = IF outcome = "stopped" THEN @ ELSE @ \cup {b}]
  BY DEF StopEnds
<1>5. \A v \in Stoppers : /\ call'[v].at = call[v].at
                          /\ call'[v].told = IF v = w /\ outcome # "stopped"
                                             THEN call[v].told \cup {b} ELSE call[v].told
  BY <1>2, <1>4 DEF Call
<1>6. \A n \in Services : service'[n] = IF n = b THEN outcome ELSE service[n]
  BY <1>1, <1>2, <1>4
<1>7. \A v \in Stoppers : \A n \in call[v].told : n \in Services /\ n # b /\ service[n] = "unstoppable"
  BY <1>2, <1>3 DEF Call, Told
<1>8. ASSUME NEW v \in Stoppers, NEW n \in call'[v].told PROVE service'[n] = "unstoppable"
  <2>1. CASE n \in call[v].told
    BY <1>6, <1>7, <2>1
  <2>2. CASE n \notin call[v].told
    <3>1. n = b /\ outcome # "stopped"
      BY <1>5, <2>2
    <3> QED
      BY <1>1, <1>4, <1>6, <3>1
  <2> QED
    BY <2>1, <2>2
<1>9. ASSUME NEW n \in Services, service'[n] = "unstoppable"
      PROVE  \/ \E v \in Stoppers : n \in call'[v].told
             \/ \E v \in Stoppers : call'[v].at = "gone"
  <2>1. CASE n = b
    BY <1>5, <1>6, <1>9, <2>1
  <2>2. CASE n # b
    <3>1. service[n] = "unstoppable"
      BY <1>6, <1>9, <2>2
    <3>2. \/ \E v \in Stoppers : n \in call[v].told
          \/ \E v \in Stoppers : call[v].at = "gone"
      BY <3>1 DEF Told, FailuresTold
    <3> QED
      BY <1>5, <3>2
  <2> QED
    BY <2>1, <2>2
<1>10. ASSUME NEW u \in Stoppers, NEW v \in Stoppers, u # v
       PROVE  call'[u].told \cap call'[v].told = {}
  <2>1. call[u].told \cap call[v].told = {}
    BY <1>10 DEF Told, FailuresTold
  <2> QED
    BY <2>1, <1>3, <1>5, <1>10
<1> QED
  BY <1>8, <1>9, <1>10 DEF Told, FailuresTold

\* Every step keeps it.
LEMMA ToldStep == Inv /\ Told /\ [Next]_vars => Told'
<1> SUFFICES ASSUME Inv, Told, [Next]_vars PROVE Told'
  OBVIOUS
<1> USE NAssumption, CallersAssumption
<1>1. /\ call \in [Stoppers -> Call] /\ Finisher \in Stoppers /\ Callers \subseteq Stoppers
      /\ service \in [Services -> {"none", "constructed", "started", "stopping", "stopped",
                                   "unstoppable", "abandoned"}]
      /\ \A w \in Stoppers : call[w].told \subseteq Services
  BY DEF Inv, TypeOK, Stoppers, Call
<1>14. ASSUME NEW w \in Stoppers
       PROVE  /\ call[w].nodes \cup ({call[w].busy} \ {0}) \subseteq Services
              /\ \A n \in call[w].nodes \cup ({call[w].busy} \ {0}) : service[n] # "unstoppable"
  <2>1. call[w] \in Call
    BY <1>1 DEF Inv, TypeOK
  <2>2. call[w].nodes \subseteq Services /\ call[w].busy \in 0 .. N
    BY <2>1 DEF Call
  <2>3. /\ \A n \in call[w].nodes : service[n] \in {"constructed", "started"}
        /\ call[w].busy # 0 => service[call[w].busy] = "stopping"
    BY DEF Inv, Places, Live
  <2>4. call[w].busy # 0 => call[w].busy \in Services
    BY <2>2 DEF Services
  <2> QED
    BY <2>2, <2>3, <2>4
<1>15. ledger \subseteq Services /\ \A n \in ledger : service[n] # "unstoppable"
  BY DEF Inv, TypeOK, Places, Live
<1>2. CASE UNCHANGED vars
  BY <1>2, ToldStays DEF vars
<1>3. CASE ConstructFails \/ StartFails
  <2>1. /\ call' = [call EXCEPT ![Finisher].at = "stopping", ![Finisher].nodes = ledger]
        /\ UNCHANGED service /\ call[Finisher] = Idle
    BY <1>1, <1>3 DEF ConstructFails, StartFails, RollBack, Inv, Activating
  <2>2. ASSUME NEW w \in Stoppers
        PROVE  call'[w].told = call[w].told /\ (call[w].at = "gone" => call'[w].at = "gone")
    <3>1. CASE w = Finisher
      BY <1>1, <2>1, <3>1 DEF Call, Idle
    <3>2. CASE w # Finisher
      BY <1>1, <2>1, <3>2
    <3> QED
      BY <3>1, <3>2
  <2> QED
    BY <2>1, <2>2, ToldStays
<1>4. CASE Constructed \/ Activated
  BY <1>4, ToldStays DEF Constructed, Activated
<1>5. CASE ConstructOk \/ StartOk
  <2>1. next \in Services /\ service[next] # "unstoppable" /\ UNCHANGED call
    BY <1>5 DEF ConstructOk, StartOk, Inv, Activating, Services
  <2>2. \A n \in Services : service'[n] = service[n] \/ (n \in {next} /\ service'[n] # "unstoppable")
    BY <1>1, <1>5 DEF ConstructOk, StartOk
  <2> QED
    BY <1>1, <2>1, <2>2, ToldMoves
<1>6. CASE RolledBack
  <2>1. call[Finisher].at = "stopping" /\ UNCHANGED service
        /\ call' = [call EXCEPT ![Finisher].at = "answered"]
    BY <1>6 DEF RolledBack, Stopped
  <2> QED
    BY <1>1, <2>1, ToldStays DEF Call
<1>7. CASE DropFinish
  <2> DEFINE S == ledger \cup call[Finisher].nodes \cup ({call[Finisher].busy} \ {0})
  <2>1. S \in SUBSET Services /\ \A n \in S : service[n] # "unstoppable"
    BY <1>1, <1>14, <1>15
  <2>2. \A n \in Services : service'[n] = service[n] \/ (n \in S /\ service'[n] # "unstoppable")
    BY <1>7 DEF DropFinish, Abandoned, Services
  <2>3. \A w \in Stoppers : call'[w] = IF w = Finisher THEN [Idle EXCEPT !.at = "gone"] ELSE call[w]
    BY <1>1, <1>7 DEF DropFinish
  <2> QED
    BY ZenonT(40), <1>1, <2>1, <2>2, <2>3, ToldMoves DEF Idle
<1>8. CASE DropHarness
  <2>1. ledger \in SUBSET Services /\ \A n \in ledger : service[n] # "unstoppable"
    BY DEF Inv, TypeOK, Places, Live
  <2>2. \A n \in Services : service'[n] = service[n] \/ (n \in ledger /\ service'[n] # "unstoppable")
    BY <1>8 DEF DropHarness, Abandoned
  <2>3. UNCHANGED call
    BY <1>8 DEF DropHarness
  <2> QED
    BY <1>1, <2>1, <2>2, <2>3, ToldMoves
<1>9. ASSUME NEW w \in Stoppers, StopNext(w) PROVE Told'
  <2>1. PICK n \in call[w].nodes : /\ service' = [service EXCEPT ![n] = "stopping"]
                                   /\ call' = [call EXCEPT ![w].nodes = @ \ {n}, ![w].busy = n]
    BY <1>9 DEF StopNext
  <2>2. n \in Services /\ service[n] # "unstoppable"
    BY <1>1 DEF Inv, Places, Live, Call
  <2>3. \A m \in Services : service'[m] = service[m] \/ (m \in {n} /\ service'[m] # "unstoppable")
    BY <1>1, <2>1
  <2>4. \A v \in Stoppers : call'[v].told = call[v].told /\ call'[v].at = call[v].at
    BY <1>1, <2>1 DEF Call
  <2> QED
    BY <1>1, <2>2, <2>3, <2>4, ToldMoves
<1>10. ASSUME NEW w \in Stoppers, StopEnds(w) PROVE Told'
  BY <1>10, ToldOfStop
<1>11. ASSUME NEW c \in Callers, Shutdown(c) \/ Acquire(c) \/ Answer(c) PROVE Told'
  <2>1. c \in Stoppers /\ call[c].at # "gone" /\ UNCHANGED service
    BY <1>1, <1>11 DEF Shutdown, Acquire, Answer, Stopped
  <2>2. \A v \in Stoppers : call'[v].told = call[v].told /\ (v # c => call'[v] = call[v])
    BY <1>1, <1>11, <2>1 DEF Shutdown, Acquire, Answer, Call
  <2> QED
    BY <2>1, <2>2, ToldStays
<1>12. ASSUME NEW c \in Callers, DropCall(c) PROVE Told'
  <2> DEFINE S == call[c].nodes \cup ({call[c].busy} \ {0})
  <2>1. S \in SUBSET Services /\ \A n \in S : service[n] # "unstoppable"
    BY <1>1, <1>14, <1>15
  <2>2. \A n \in Services : service'[n] = service[n] \/ (n \in S /\ service'[n] # "unstoppable")
    BY <1>12 DEF DropCall, Abandoned, Services
  <2>3. \A w \in Stoppers : call'[w] = IF w = c THEN [Idle EXCEPT !.at = "gone"] ELSE call[w]
    BY <1>1, <1>12 DEF DropCall
  <2> QED
    BY ZenonT(40), <1>1, <2>1, <2>2, <2>3, ToldMoves DEF Idle
<1>13. CASE Done
  BY <1>2, <1>13 DEF Done
<1> QED
  BY <1>2, <1>3, <1>4, <1>5, <1>6, <1>7, <1>8, <1>9, <1>10, <1>11, <1>12, <1>13
  DEF Next, Activation, Stopping

\* A failure to stop is told, by one call, for any number of calls.
THEOREM FailuresAreTold == Spec => []FailuresTold
<1>1. Init => Told
  BY DEF Init, Told, FailuresTold, Idle
<1>2. Told => FailuresTold
  BY DEF Told
<1> QED
  BY <1>1, <1>2, InvHolds, ToldStep, PTL DEF Spec

\* The whole of it: services go down in order, once, all of them, and every
\* failure is told.
THEOREM LifeIsOrdered == Spec => []LifeOrdered
  BY DependenciesUp, StopsOnce, NothingIsLeft, FailuresAreTold, PTL DEF LifeOrdered

-----------------------------------------------------------------------------
(***************************************************************************)
(* The order (PluginOrder), for any plugins and dependencies among them.   *)
(***************************************************************************)
\* A finite set of numbers that is not empty has a least one.
LEMMA LeastExists ==
  ASSUME NEW S \in SUBSET Nat, IsFiniteSet(S), S # {}
  PROVE  Min(S) \in S /\ \A y \in S : Min(S) <= y
<1> DEFINE size == Cardinality(S)
           rank == [x \in S |-> Cardinality({y \in S : y < x})]
<1>1. size \in Nat /\ size # 0
  BY FS_CardinalityType, FS_EmptySet
<1>2. ASSUME NEW x \in S
      PROVE  IsFiniteSet({y \in S : y < x}) /\ rank[x] \in 0 .. size - 1
  <2>1. IsFiniteSet(S \ {x}) /\ Cardinality(S \ {x}) = size - 1
    BY FS_RemoveElement
  <2>2. {y \in S : y < x} \subseteq S \ {x}
    OBVIOUS
  <2>3. IsFiniteSet({y \in S : y < x}) /\ Cardinality({y \in S : y < x}) <= Cardinality(S \ {x})
    BY <2>1, <2>2, FS_Subset
  <2>4. Cardinality({y \in S : y < x}) \in Nat
    BY <2>3, FS_CardinalityType
  <2> QED
    BY <1>1, <2>1, <2>3, <2>4
<1>3. ASSUME NEW x \in S, NEW y \in S, x < y
      PROVE  rank[x] # rank[y]
  <2> DEFINE below == {z \in S : z < x}  above == {z \in S : z < y}
  <2>4. x \in Nat /\ y \in Nat /\ ~(x < x) /\ \A z \in S : z \in Nat /\ (z < x => z < y)
    BY <1>3
  <2>1. below \subseteq above /\ x \in above /\ x \notin below
    BY <1>3, <2>4
  <2>3. IsFiniteSet(above)
    BY <1>2
  <2>2. Cardinality(below) <= Cardinality(above)
        /\ (Cardinality(below) = Cardinality(above) => below = above)
    BY <2>1, <2>3, FS_Subset
  <2> QED
    BY <2>1, <2>2
<1>4. rank \in Injection(S, 0 .. size - 1)
  <2>1. rank \in [S -> 0 .. size - 1]
    BY <1>2
  <2>2. \A x, y \in S : rank[x] = rank[y] => x = y
    BY <1>3
  <2> HIDE DEF rank, size
  <2> QED
    BY <2>1, <2>2 DEF Injection, IsInjective
<1>5. IsFiniteSet(0 .. size - 1) /\ Cardinality(0 .. size - 1) = size
  BY <1>1, FS_Interval
<1>6. rank \in Surjection(S, 0 .. size - 1)
  <2> HIDE DEF rank
  <2> QED
    BY <1>4, <1>5, FS_Injection
<1>7. PICK x \in S : rank[x] = 0
  <2>1. 0 \in 0 .. size - 1
    BY <1>1
  <2> HIDE DEF rank, size
  <2> QED
    BY <1>6, <2>1 DEF Surjection
<1>8. \A y \in S : ~(y < x)
  <2>1. {y \in S : y < x} = {}
    BY <1>2, <1>7, FS_EmptySet
  <2> QED
    BY <2>1
<1>9. \E z \in S : \A y \in S : z <= y
  BY <1>8
<1> QED
  BY <1>9 DEF Min

Taken == ToSet(order)

\* A plugin is ready when what it depends on is in the order, and its indegree
\* counts what is not.
OrderInv ==
  /\ Plugins \subseteq Nat /\ IsFiniteSet(Plugins) /\ dependencies \in [Plugins -> SUBSET Plugins]
  /\ order \in Seq(Plugins) /\ OrderTopological /\ OrderLeast
  /\ indegrees \in [Plugins -> Nat]
  /\ \A p \in Plugins : indegrees[p] = Cardinality(dependencies[p] \ Taken)
  /\ ready = {p \in Plugins \ Taken : dependencies[p] \subseteq Taken}

\* Before the first iteration.
LEMMA OrderBegins == OrderInit => OrderInv
<1> SUFFICES ASSUME OrderInit PROVE OrderInv
  OBVIOUS
<1>1. PICK n \in 0 .. MaxPlugins : dependencies \in [1 .. n -> SUBSET (1 .. n)]
  BY DEF OrderInit
<1>2. Plugins = 1 .. n /\ n \in Nat
  BY <1>1, PluginsAssumption DEF Plugins
<1>3. Plugins \subseteq Nat /\ IsFiniteSet(Plugins) /\ dependencies \in [Plugins -> SUBSET Plugins]
  BY <1>1, <1>2, FS_Interval
<1>4. order = <<>> /\ order \in Seq(Plugins) /\ DOMAIN order = {}
  BY DEF OrderInit
<1>5. Taken = {}
  BY <1>4 DEF Taken, ToSet
<1>6. OrderTopological /\ OrderLeast
  BY <1>4 DEF OrderTopological, OrderLeast, IsInjective
<1>7. \A p \in Plugins : IsFiniteSet(dependencies[p]) /\ dependencies[p] \ Taken = dependencies[p]
  BY <1>3, <1>5, FS_Subset
<1>8. \A p \in Plugins : /\ indegrees[p] = Cardinality(dependencies[p]) /\ indegrees[p] \in Nat
                         /\ (indegrees[p] = 0 <=> dependencies[p] = {})
  BY <1>7, FS_CardinalityType, FS_EmptySet DEF OrderInit
<1>9. indegrees \in [Plugins -> Nat]
  BY <1>8 DEF OrderInit
<1>10. \A p \in Plugins : indegrees[p] = Cardinality(dependencies[p] \ Taken)
  BY <1>7, <1>8
<1>11. ready = {p \in Plugins \ Taken : dependencies[p] \subseteq Taken}
  BY <1>5, <1>8 DEF OrderInit
<1> QED
  BY <1>3, <1>4, <1>6, <1>9, <1>10, <1>11 DEF OrderInv

\* What precedes a plugin stays what it was, and all of the order precedes the next.
LEMMA TakenFirst ==
  ASSUME NEW s, NEW S, s \in Seq(S), NEW x
  PROVE  /\ ToSet(Append(s, x)) = ToSet(s) \cup {x}
         /\ DOMAIN Append(s, x) = 1 .. Len(s) + 1 /\ DOMAIN s = 1 .. Len(s) /\ Len(s) \in Nat
         /\ Append(s, x)[Len(s) + 1] = x
         /\ \A i \in DOMAIN s : Append(s, x)[i] = s[i]
         /\ \A i \in DOMAIN s : {Append(s, x)[k] : k \in 1 .. i - 1} = {s[k] : k \in 1 .. i - 1}
         /\ {Append(s, x)[k] : k \in 1 .. (Len(s) + 1) - 1} = ToSet(s)
<1> DEFINE t == Append(s, x)  n == Len(s)
<1>1. n \in Nat /\ DOMAIN s = 1 .. n /\ DOMAIN t = 1 .. n + 1 /\ t[n + 1] = x
      /\ \A i \in 1 .. n : t[i] = s[i]
  OBVIOUS
<1> HIDE DEF t, n
<1>2. ToSet(t) = ToSet(s) \cup {x}
  BY <1>1 DEF ToSet
<1>3. \A i \in 1 .. n : {t[k] : k \in 1 .. i - 1} = {s[k] : k \in 1 .. i - 1}
  BY <1>1
<1>4. {t[k] : k \in 1 .. (n + 1) - 1} = ToSet(s)
  BY <1>1 DEF ToSet
<1> QED
  BY <1>1, <1>2, <1>3, <1>4 DEF t, n

\* An iteration takes the least plugin of which nothing is missing.
LEMMA OrderStep == OrderInv /\ [Pop]_ordering => OrderInv'
<1> SUFFICES ASSUME OrderInv, [Pop]_ordering PROVE OrderInv'
  OBVIOUS
<1>1. CASE UNCHANGED ordering
  <2>1. UNCHANGED <<dependencies, indegrees, ready, order>>
    BY <1>1 DEF ordering
  <2>2. Plugins' = Plugins /\ Taken' = Taken /\ \A i : Before(i)' = Before(i)
    BY <2>1 DEF Plugins, Taken, Before
  <2>3. OrderTopological' /\ OrderLeast'
    BY <2>1, <2>2 DEF OrderInv, OrderTopological, OrderLeast
  <2> QED
    BY <2>1, <2>2, <2>3 DEF OrderInv
<1>2. CASE Pop
  <2> DEFINE x == Min(ready)
  <2>0. PICK n \in Nat : n = Len(order)
    BY DEF OrderInv
  <2>1. /\ ready # {} /\ order' = Append(order, x) /\ dependencies' = dependencies
        /\ indegrees' = [q \in Plugins |-> IF q \in Dependents(x) THEN indegrees[q] - 1 ELSE indegrees[q]]
        /\ ready' = (ready \ {x}) \cup {q \in Dependents(x) : indegrees'[q] = 0}
    BY <1>2 DEF Pop, Take
  <2>2. x \in ready /\ \A y \in ready : x <= y
    <3>1. ready \in SUBSET Nat /\ IsFiniteSet(ready)
      BY FS_Subset DEF OrderInv
    <3> QED
      BY <2>1, <3>1, LeastExists
  <2> HIDE DEF x
  <2>3. x \in Plugins /\ x \notin Taken /\ dependencies[x] \subseteq Taken /\ x \notin dependencies[x]
    BY <2>2 DEF OrderInv
  <2>4. Plugins' = Plugins /\ order \in Seq(Plugins) /\ n \in Nat /\ n = Len(order)
    BY <2>0, <2>1 DEF Plugins, OrderInv
  <2>5. /\ Taken' = Taken \cup {x} /\ DOMAIN order' = 1 .. n + 1 /\ DOMAIN order = 1 .. n
        /\ order'[n + 1] = x /\ \A i \in 1 .. n : order'[i] = order[i]
    BY <2>1, <2>4, TakenFirst DEF Taken
  <2>6. (\A i \in 1 .. n : Before(i)' = Before(i)) /\ Before(n + 1)' = Taken
    <3>1. \A i \in DOMAIN order : {order'[k] : k \in 1 .. i - 1} = {order[k] : k \in 1 .. i - 1}
      BY <2>1, <2>4, TakenFirst
    <3>2. {order'[k] : k \in 1 .. (n + 1) - 1} = Taken
      BY <2>1, <2>4, TakenFirst DEF Taken
    <3>3. \A i : Before(i)' = {order'[k] : k \in 1 .. i - 1}
      BY DEF Before
    <3> QED
      BY <2>5, <3>1, <3>2, <3>3 DEF Before
  <2>7. \A i \in 1 .. n : order[i] \in Taken
    BY <2>5 DEF Taken, ToSet
  <2>8. order' \in Seq(Plugins)
    BY <2>1, <2>3, <2>4
  <2>9. OrderTopological'
    <3>1. \A i, j \in 1 .. n + 1 : order'[i] = order'[j] => i = j
      <4>1. \A i, j \in 1 .. n : order[i] = order[j] => i = j
        BY <2>5 DEF OrderInv, OrderTopological, IsInjective
      <4>2. \A i \in 1 .. n : order'[i] # x
        BY <2>3, <2>5, <2>7
      <4>3. \A i \in 1 .. n + 1 : i \in 1 .. n \/ i = n + 1
        BY <2>4
      <4> QED
        BY <2>5, <4>1, <4>2, <4>3
    <3>2. \A i \in 1 .. n + 1 : dependencies[order'[i]] \subseteq Before(i)'
      <4>1. \A i \in 1 .. n : dependencies[order[i]] \subseteq Before(i)
        BY <2>5 DEF OrderInv, OrderTopological
      <4>2. \A i \in 1 .. n + 1 : i \in 1 .. n \/ i = n + 1
        BY <2>4
      <4> QED
        BY <2>3, <2>5, <2>6, <4>1, <4>2
    <3> QED
      BY <2>1, <2>5, <3>1, <3>2 DEF OrderTopological, IsInjective
  <2>10. OrderLeast'
    <3>1. \A i \in 1 .. n : \A p \in Plugins :
            dependencies[p] \subseteq Before(i) /\ p < order[i] => p \in Before(i)
      BY <2>5 DEF OrderInv, OrderLeast
    <3>2. ASSUME NEW p \in Plugins, dependencies[p] \subseteq Taken, p < x, p \notin Taken
          PROVE  FALSE
      <4>1. p \in ready
        BY <3>2 DEF OrderInv
      <4>2. p \in Nat /\ x \in Nat /\ x <= p
        BY <2>2, <2>3, <4>1 DEF OrderInv
      <4> QED
        BY <3>2, <4>2
    <3>3. \A i \in 1 .. n + 1 : i \in 1 .. n \/ i = n + 1
      BY <2>4
    <3> QED
      BY <2>1, <2>4, <2>5, <2>6, <3>1, <3>2, <3>3 DEF OrderLeast
  <2>11. ASSUME NEW q \in Plugins
         PROVE  /\ indegrees'[q] = Cardinality(dependencies[q] \ Taken') /\ indegrees'[q] \in Nat
                /\ indegrees'[q] = 0 <=> dependencies[q] \subseteq Taken'
    <3> DEFINE missing == dependencies[q] \ Taken
    <3>1. IsFiniteSet(missing) /\ IsFiniteSet(missing \ {x}) /\ missing \ {x} = dependencies[q] \ Taken'
      BY <2>5, FS_Subset DEF OrderInv
    <3>2. indegrees[q] = Cardinality(missing) /\ indegrees[q] \in Nat
      BY DEF OrderInv
    <3>3. q \in Dependents(x) <=> x \in missing
      BY <2>3 DEF Dependents
    <3>4. indegrees'[q] = IF x \in missing THEN indegrees[q] - 1 ELSE indegrees[q]
      BY <2>1, <3>3
    <3> HIDE DEF missing
    <3>5. Cardinality(missing \ {x}) = IF x \in missing THEN Cardinality(missing) - 1 ELSE Cardinality(missing)
      <4>1. CASE x \in missing
        BY <3>1, <4>1, FS_RemoveElement
      <4>2. CASE x \notin missing
        <5>1. missing \ {x} = missing
          BY <4>2
        <5> QED
          BY <4>2, <5>1
      <4> QED
        BY <4>1, <4>2
    <3>6. indegrees'[q] = Cardinality(missing \ {x})
      BY <3>2, <3>4, <3>5
    <3>7. Cardinality(missing \ {x}) \in Nat /\ (Cardinality(missing \ {x}) = 0 <=> missing \ {x} = {})
      BY <3>1, FS_CardinalityType, FS_EmptySet
    <3>8. missing \ {x} = {} <=> dependencies[q] \subseteq Taken'
      BY <3>1
    <3> QED
      BY <3>1, <3>6, <3>7, <3>8
  <2>12. indegrees' \in [Plugins -> Nat]
    <3>1. DOMAIN indegrees' = Plugins /\ indegrees' = [q \in Plugins |-> indegrees'[q]]
      BY <2>1
    <3> QED
      BY <2>11, <3>1
  <2>13. ready' = {p \in Plugins \ Taken' : dependencies[p] \subseteq Taken'}
    <3>1. ASSUME NEW q \in Plugins
          PROVE  q \in ready' <=> q \notin Taken' /\ dependencies[q] \subseteq Taken'
      <4>1. q \in ready' <=> (q \in ready /\ q # x) \/ (q \in Dependents(x) /\ indegrees'[q] = 0)
        BY <2>1
      <4>2. q \in Dependents(x) <=> x \in dependencies[q]
        BY DEF Dependents
      <4>3. q \in ready <=> q \notin Taken /\ dependencies[q] \subseteq Taken
        BY DEF OrderInv
      <4>4. q \in Taken => dependencies[q] \subseteq Taken
        <5>1. ASSUME q \in Taken PROVE dependencies[q] \subseteq Taken
          <6>1. PICK i \in 1 .. n : q = order[i]
            BY <2>5, <5>1 DEF Taken, ToSet
          <6>2. dependencies[q] \subseteq Before(i)
            BY <2>5, <6>1 DEF OrderInv, OrderTopological
          <6>3. Before(i) \subseteq Taken
            BY <2>4, <2>7, <6>1 DEF Before
          <6> QED
            BY <6>2, <6>3
        <5> QED
          BY <5>1
      <4> QED
        BY <2>3, <2>5, <2>11, <4>1, <4>2, <4>3, <4>4
    <3>2. ready' \subseteq Plugins
      BY <2>1 DEF OrderInv, Dependents
    <3> QED
      BY <3>1, <3>2
  <2>14. \A p \in Plugins : indegrees'[p] = Cardinality(dependencies'[p] \ Taken')
    BY <2>1, <2>11
  <2> QED
    BY <2>1, <2>4, <2>8, <2>9, <2>10, <2>12, <2>13, <2>14 DEF OrderInv
<1> QED
  BY <1>1, <1>2

\* Whatever the plugins and their dependencies: each is taken once and behind
\* what it depends on, the least first among those that may come next, and what
\* is never taken are all the plugins that wait for each other, or for these.
THEOREM OrderIsRight == OrderSpec => []LoopRight
<1>1. OrderInv => LoopRight
  <2> SUFFICES ASSUME OrderInv, ready = {} PROVE
         LET left == Plugins \ ToSet(order) IN
         /\ Len(order) = Cardinality(Plugins) <=> left = {}
         /\ \A p \in left : dependencies[p] \cap left # {}
         /\ \A S \in SUBSET Plugins : (\A p \in S : dependencies[p] \cap S # {}) => S \subseteq left
    BY DEF LoopRight, StuckOnCycle, OrderInv
  <2> DEFINE n == Len(order)  left == Plugins \ Taken
  <2>1. n \in Nat /\ DOMAIN order = 1 .. n /\ Taken \subseteq Plugins
        /\ \A q : q \in Taken <=> \E i \in 1 .. n : q = order[i]
    BY DEF OrderInv, Taken, ToSet
  <2> HIDE DEF n
  <2>2. ASSUME NEW p \in left PROVE dependencies[p] \cap left # {}
    <3>1. ~(dependencies[p] \subseteq Taken) /\ dependencies[p] \subseteq Plugins
      BY <2>2 DEF OrderInv
    <3> QED
      BY <3>1
  <2>3. n = Cardinality(Taken)
    <3> DEFINE nth == [i \in 1 .. n |-> order[i]]
    <3>1. IsFiniteSet(1 .. n) /\ Cardinality(1 .. n) = n
      BY <2>1, FS_Interval
    <3>2. \A i, j \in 1 .. n : order[i] = order[j] => i = j
      BY <2>1 DEF OrderInv, OrderTopological, IsInjective
    <3>3. nth \in Surjection(1 .. n, Taken)
      BY <2>1 DEF Surjection
    <3>4. nth \in Injection(1 .. n, Taken)
      BY <2>1, <3>2 DEF Injection, IsInjective
    <3> HIDE DEF nth
    <3> QED
      BY <3>1, <3>3, <3>4, FS_Surjection
  <2>4. n = Cardinality(Plugins) <=> left = {}
    <3>1. IsFiniteSet(Plugins) /\ (Cardinality(Taken) = Cardinality(Plugins) => Taken = Plugins)
      BY <2>1, FS_Subset DEF OrderInv
    <3> QED
      BY <2>1, <2>3, <3>1
  <2>5. ASSUME NEW S \in SUBSET Plugins, \A p \in S : dependencies[p] \cap S # {}
        PROVE  S \subseteq left
    <3> DEFINE places == {i \in 1 .. n : order[i] \in S}
    <3>1. SUFFICES ASSUME places # {} PROVE FALSE
      BY <2>1
    <3>2. places \in SUBSET Nat /\ IsFiniteSet(places)
      BY <2>1, FS_Interval, FS_Subset
    <3>3. Min(places) \in places /\ \A y \in places : Min(places) <= y
      <4> HIDE DEF places
      <4> QED
        BY <3>1, <3>2, LeastExists
    <3>4. PICK i \in places : \A y \in places : i <= y
      BY <3>3
    <3>5. dependencies[order[i]] \subseteq Before(i)
      BY <2>1, <3>4 DEF OrderInv, OrderTopological
    <3>6. PICK p \in S : p \in Before(i)
      BY <2>5, <3>4, <3>5
    <3>7. PICK k \in 1 .. i - 1 : p = order[k]
      BY <3>6 DEF Before
    <3>8. k \in places /\ k < i
      BY <2>1, <3>4, <3>6, <3>7
    <3> QED
      BY <2>1, <3>4, <3>8
  <2> QED
    BY <2>2, <2>4, <2>5 DEF Taken, n
<1> QED
  BY <1>1, OrderBegins, OrderStep, PTL DEF OrderSpec

-----------------------------------------------------------------------------
(***************************************************************************)
(* The composition (PluginSelection), for any descriptors, requirements    *)
(* and selections.  While the loop of selections runs, what is bound is    *)
(* part of every complete set of plugins; when it ends, what is active is  *)
(* one of them, and so the least.                                          *)
(***************************************************************************)
SelectionTyped ==
  /\ composition.plugins \in Seq(Descriptor) /\ composition.requirements \subseteq Capabilities
  /\ composition.selections \subseteq Capabilities \X STRING
  /\ step \in {"validate", "select", "decide", "mount", "activate", "refused"}
  /\ bindings \in [Capabilities -> Ids \cup {Unbound}]
  /\ required \in [Capabilities -> SUBSET (Ids \cup {Root})]
  /\ mounted \subseteq Ids
  /\ factories \in [Capabilities -> Ids \cup {Unbound}]

UniqueIds == \A d, e \in Descriptors : d.id = e.id => d = e

\* A capability is bound to a provider of it, which the host chose or which is
\* the only one.
BindingsRight == \A c \in Bound :
  /\ bindings[c] \in Ids /\ Plugin(bindings[c]).provider = c
  /\ c \in ExplicitlySelected => <<c, Plugin(bindings[c]).key>> \in composition.selections
  /\ c \in ExplicitlySelected \/ Cardinality(Candidates(c)) = 1

\* What is required is required by the root or by an active plugin.
Justified == \A c \in Capabilities : \A p \in required[c] :
  p # Root => p \in Active /\ c \in Plugin(p).requires
RootJustified == \A c \in Capabilities : Root \in required[c] <=> c \in composition.requirements

\* From the validation on the host's choices are bound, and nothing is active
\* that is not needed.
Resolved ==
  /\ UniqueIds /\ BindingsRight /\ Justified /\ RootJustified
  /\ ExplicitlySelected \subseteq Bound
  /\ \A d \in Selected : bindings[d.provider] = d.id
  /\ \A p \in Active : Plugin(p) \in Needed

\* The loop has nothing more to add.
Fixed == required = Requirements /\ \A c \in Open : Cardinality(Candidates(c)) # 1

\* Plugins are mounted behind what they depend on, each with its own factory.
Filling ==
  /\ mounted \subseteq Active
  /\ \A p \in mounted : Dependencies[p] \subseteq mounted
  /\ factories = [c \in Capabilities |-> IF bindings[c] \in mounted THEN bindings[c] ELSE Unbound]

SelectionInv ==
  /\ SelectionTyped /\ NothingGuessed
  /\ step \notin {"validate", "refused"} => Resolved
  /\ step \in {"decide", "mount", "activate"} => Fixed
  /\ step \in {"validate", "select", "decide"} =>
       mounted = {} /\ factories = [c \in Capabilities |-> Unbound]
  /\ step \in {"mount", "activate"} => Open = {} /\ ~Cyclic(Dependencies) /\ Filling
  /\ step = "activate" => mounted = Active
  /\ step # "refused" => refusal = "none"

-----------------------------------------------------------------------------
(***************************************************************************)
(* Plugins, candidates and what is needed.                                 *)
(***************************************************************************)
\* The identifiers of the composition, and who has them.
LEMMA PluginOf ==
  ASSUME SelectionTyped
  PROVE  /\ Descriptors \subseteq Descriptor /\ Unbound \notin Ids /\ Root \notin Ids /\ Ids \subseteq Nat
         /\ \A p \in Ids : Plugin(p) \in Descriptors /\ Plugin(p).id = p
         /\ UniqueIds => \A d \in Descriptors : Plugin(d.id) = d
<1>1. Descriptors \subseteq Descriptor
  BY DEF SelectionTyped, Descriptors, ToSet
<1>2. \A d \in Descriptors : d.id \in Nat \ {0}
  BY <1>1 DEF Descriptor
<1>3. \A p \in Ids : \E d \in Descriptors : d.id = p
  BY DEF Ids
<1>4. \A p \in Ids : Plugin(p) \in Descriptors /\ Plugin(p).id = p
  BY <1>3 DEF Plugin
<1>5. \A d \in Descriptors : d.id \in Ids
  BY DEF Ids
<1> QED
  BY <1>1, <1>2, <1>3, <1>4, <1>5 DEF Unbound, Root, UniqueIds

\* Compositions are finite.
LEMMA CompositionFinite ==
  ASSUME SelectionTyped
  PROVE  /\ IsFiniteSet(Descriptors) /\ IsFiniteSet(Ids)
         /\ \A c : IsFiniteSet(Candidates(c)) /\ Cardinality(Candidates(c)) \in Nat
                   /\ (Cardinality(Candidates(c)) = 0 <=> Candidates(c) = {})
<1> DEFINE n == Len(composition.plugins)
           name == [d \in Descriptors |-> d.id]
           nth == [i \in 1 .. n |-> composition.plugins[i]]
<1>1. n \in Nat /\ DOMAIN composition.plugins = 1 .. n
  BY DEF SelectionTyped
<1>2. IsFiniteSet(1 .. n)
  BY <1>1, FS_Interval
<1>3. nth \in Surjection(1 .. n, Descriptors)
  BY <1>1 DEF Surjection, Descriptors, ToSet
<1>4. IsFiniteSet(Descriptors)
  <2> HIDE DEF nth, n
  <2> QED
    BY <1>2, <1>3, FS_Surjection
<1>5. name \in Surjection(Descriptors, Ids)
  BY DEF Surjection, Ids
<1>6. IsFiniteSet(Ids)
  <2> HIDE DEF name
  <2> QED
    BY <1>4, <1>5, FS_Surjection
<1>7. \A c : Candidates(c) \subseteq Descriptors
  BY DEF Candidates
<1>8. \A c : IsFiniteSet(Candidates(c))
  BY <1>4, <1>7, FS_Subset
<1> QED
  BY <1>4, <1>6, <1>8, FS_CardinalityType, FS_EmptySet

\* Without a duplicate identifiers tell the plugins apart.
LEMMA NoDuplicateUnique ==
  ASSUME SelectionTyped, ~DuplicatePlugin
  PROVE  UniqueIds
<1> DEFINE n == Len(composition.plugins)
           name == [i \in 1 .. n |-> composition.plugins[i].id]
<1>1. n \in Nat /\ DOMAIN composition.plugins = 1 .. n
  BY DEF SelectionTyped
<1>2. IsFiniteSet(1 .. n) /\ Cardinality(1 .. n) = n
  BY <1>1, FS_Interval
<1>3. \A p : p \in Ids <=> \E i \in 1 .. n : p = composition.plugins[i].id
  BY <1>1 DEF Ids, Descriptors, ToSet
<1>4. name \in Surjection(1 .. n, Ids)
  BY <1>3 DEF Surjection
<1>5. Cardinality(Ids) <= n /\ Cardinality(Ids) \in Nat /\ (Cardinality(Ids) = n => name \in Injection(1 .. n, Ids))
  <2> HIDE DEF name, n
  <2> QED
    BY <1>2, <1>4, FS_Surjection, FS_CardinalityType
<1>6. name \in Injection(1 .. n, Ids)
  BY <1>1, <1>5 DEF DuplicatePlugin
<1>7. \A i, j \in 1 .. n : composition.plugins[i].id = composition.plugins[j].id => i = j
  <2>1. \A i, j \in 1 .. n : name[i] = name[j] => i = j
    <3> HIDE DEF name, n
    <3> QED
      BY <1>6 DEF Injection, IsInjective
  <2> QED
    BY <2>1
<1> QED
  BY <1>1, <1>7 DEF UniqueIds, Descriptors, ToSet

\* What is required, if what is active is needed, is demanded by what is needed.
LEMMA RequiredDemanded ==
  ASSUME SelectionTyped, Resolved, NEW c \in Capabilities,
         NEW p \in required[c] \cup {q \in Active : c \in Plugin(q).requires}
  PROVE  c \in Demanded(Needed) /\ \A S \in SUBSET Descriptors : Complete(S) => c \in Demanded(S)
<1>1. CASE p = Root /\ c \in composition.requirements
  BY <1>1 DEF Demanded
<1>2. CASE p \in Active /\ c \in Plugin(p).requires
  <2>1. Plugin(p) \in Needed
    BY <1>2 DEF Resolved
  <2>2. \A S \in SUBSET Descriptors : Complete(S) => Plugin(p) \in S
    BY <2>1 DEF Needed
  <2> QED
    BY <1>2, <2>1, <2>2 DEF Demanded
<1> QED
  BY <1>1, <1>2 DEF Resolved, Justified, RootJustified

-----------------------------------------------------------------------------
(***************************************************************************)
(* What the steps do.                                                      *)
(***************************************************************************)
\* The composition stays what it was.
LEMMA SameComposition ==
  ASSUME composition' = composition
  PROVE  /\ Descriptors' = Descriptors /\ Ids' = Ids /\ Selected' = Selected
         /\ ExplicitlySelected' = ExplicitlySelected
         /\ \A p : Plugin(p)' = Plugin(p)
         /\ \A c : Candidates(c)' = Candidates(c)
         /\ UniqueIds' <=> UniqueIds
<1>1. Descriptors' = Descriptors
  BY DEF Descriptors
<1> QED
  BY <1>1 DEF Ids, Selected, ExplicitlySelected, Plugin, Candidates, UniqueIds

\* And with it what it demands.
LEMMA SameNeed ==
  ASSUME composition' = composition
  PROVE  Needed' = Needed /\ Demanded(Needed)' = Demanded(Needed)
<1>1. \A S : Demanded(S)' = Demanded(S)
  BY DEF Demanded
<1>2. \A c : Chosen(c)' = Chosen(c)
  <2> SUFFICES ASSUME NEW c PROVE Chosen(c)' = Chosen(c)
    OBVIOUS
  <2>1. Candidates(c)' = Candidates(c) /\ Selected' = Selected
        /\ ExplicitlySelected' = ExplicitlySelected
    BY SameComposition
  <2> QED
    BY <2>1 DEF Chosen
<1>3. \A S : Complete(S)' <=> Complete(S)
  BY <1>1, <1>2, SameComposition DEF Complete
<1>4. Needed' = Needed
  BY <1>3, SameComposition DEF Needed
<1> QED
  BY <1>4 DEF Demanded

\* While nothing is bound or required, what is resolved stays so.
LEMMA SameBindings ==
  ASSUME UNCHANGED <<composition, bindings, required>>
  PROVE  /\ Bound' = Bound /\ Active' = Active /\ Open' = Open /\ Requirements' = Requirements
         /\ Dependencies' = Dependencies
         /\ Resolved => Resolved'
         /\ Fixed => Fixed'
         /\ Cyclic(Dependencies)' <=> Cyclic(Dependencies)
<1>1. Bound' = Bound /\ Open' = Open
  BY DEF Bound, Open
<1>2. Active' = Active
  BY <1>1, SameComposition DEF Active
<1>3. Requirements' = Requirements
  BY <1>2, SameComposition DEF Requirements
<1>4. Dependencies' = Dependencies
  BY <1>1, <1>2, SameComposition DEF Dependencies
<1>5. Cyclic(Dependencies)' <=> Cyclic(Dependencies)
  BY <1>4 DEF Cyclic
<1>6. ASSUME Resolved PROVE Resolved'
  <2>1. BindingsRight'
    BY <1>1, <1>6, SameComposition DEF Resolved, BindingsRight
  <2>2. Justified' /\ RootJustified'
    BY <1>2, <1>6, SameComposition DEF Resolved, Justified, RootJustified
  <2>3. \A p \in Active' : Plugin(p)' \in Needed'
    BY <1>2, <1>6, SameComposition, SameNeed DEF Resolved
  <2> QED
    BY <1>1, <1>6, <2>1, <2>2, <2>3, SameComposition DEF Resolved
<1>7. Fixed => Fixed'
  BY <1>1, <1>3, SameComposition DEF Fixed
<1> QED
  BY <1>1, <1>2, <1>3, <1>4, <1>5, <1>6, <1>7

\* What was guessed by nobody, while nothing is bound or refused for it.
LEMMA SameGuess ==
  ASSUME NothingGuessed, UNCHANGED <<composition, bindings>>,
         refusal' = refusal \/ refusal' \notin {"ambiguous capability", "missing capability"}
  PROVE  NothingGuessed'
<1>1. Bound' = Bound
  BY DEF Bound
<1> QED
  BY <1>1, SameComposition, SameNeed DEF NothingGuessed

\* Before the validation.
LEMMA SelectionBegins == SelectionInit => SelectionInv
<1> SUFFICES ASSUME SelectionInit PROVE SelectionInv
  OBVIOUS
<1>1. Bound = {}
  BY DEF SelectionInit, Bound
<1>2. SelectionTyped
  BY CompositionsAssumption DEF SelectionInit, SelectionTyped
<1>3. NothingGuessed
  BY <1>1 DEF SelectionInit, NothingGuessed
<1> QED
  BY <1>2, <1>3 DEF SelectionInit, SelectionInv

\* What the validation binds: the one candidate of each key that was chosen.
LEMMA ChoiceExact ==
  ASSUME SelectionTyped, Invalid = "none", NEW c \in ExplicitlySelected
  PROVE  \E d \in Candidates(c) :
           /\ d = CHOOSE e \in Candidates(c) : <<c, e.key>> \in composition.selections
           /\ <<c, d.key>> \in composition.selections
           /\ \A e \in Selected : e.provider = c => e = d
<1> DEFINE d == CHOOSE e \in Candidates(c) : <<c, e.key>> \in composition.selections
<1>1. ~DuplicatePlugin /\ ~DuplicateCandidate /\ ~ConflictingSelection /\ ~UnknownProvider
  BY DEF Invalid
<1>2. UniqueIds
  BY <1>1, NoDuplicateUnique
<1>3. PICK s \in composition.selections : s[1] = c
  BY DEF ExplicitlySelected
<1>4. PICK t \in Candidates(c) : t.key = s[2]
  BY <1>1, <1>3 DEF UnknownProvider
<1>5. <<c, t.key>> \in composition.selections
  <2>1. s \in Capabilities \X STRING
    BY DEF SelectionTyped
  <2> QED
    BY <1>3, <1>4, <2>1
<1>6. d \in Candidates(c) /\ <<c, d.key>> \in composition.selections
  BY <1>4, <1>5
<1> HIDE DEF d
<1>7. ASSUME NEW e \in Selected, e.provider = c
      PROVE  e = d
  <2>1. <<c, e.key>> \in composition.selections /\ e \in Descriptors
    BY <1>7 DEF Selected
  <2>2. e.key = d.key
    BY <1>1, <1>6, <2>1 DEF ConflictingSelection
  <2>3. c \in Capabilities /\ c # "none" /\ d \in Descriptors /\ d.provider = c
    BY <1>3, <1>6, CompositionsAssumption DEF SelectionTyped, Candidates
  <2>4. e.id = d.id
    BY <1>1, <1>7, <2>1, <2>2, <2>3 DEF DuplicateCandidate
  <2> QED
    BY <1>2, <2>1, <2>3, <2>4 DEF UniqueIds
<1> QED
  BY <1>6, <1>7 DEF d

\* The host's own plugins, and those it selected, are needed.
LEMMA HostsNeeded ==
  ASSUME NEW d \in Descriptors, d.provider = "none" \/ d \in Selected
  PROVE  d \in Needed
BY DEF Needed, Complete

\* The descriptors are refused, or the host's choices are bound.
LEMMA ValidateStep ==
  ASSUME SelectionInv, Validate
  PROVE  SelectionInv'
<1>1. /\ SelectionTyped /\ NothingGuessed /\ step = "validate" /\ composition' = composition
      /\ UNCHANGED registry /\ mounted = {} /\ factories = [c \in Capabilities |-> Unbound]
      /\ refusal = "none"
  BY DEF SelectionInv, Validate
<1>2. CASE Invalid # "none"
  <2>1. step' = "refused" /\ refusal' = Invalid /\ UNCHANGED <<bindings, required, mounted, factories>>
    BY <1>1, <1>2 DEF Validate, Refuse, registry
  <2>2. Invalid \notin {"ambiguous capability", "missing capability"}
    BY DEF Invalid
  <2>3. NothingGuessed'
    BY <1>1, <2>1, <2>2, SameGuess
  <2>4. SelectionTyped'
    BY <1>1, <2>1, SameComposition DEF SelectionTyped
  <2> QED
    BY <2>1, <2>3, <2>4 DEF SelectionInv
<1>3. CASE Invalid = "none"
  <2>1. /\ step' = "select" /\ refusal' = "none" /\ UNCHANGED <<mounted, factories>>
        /\ bindings' = [c \in Capabilities |->
                          IF c \in ExplicitlySelected
                          THEN (CHOOSE d \in Candidates(c) : <<c, d.key>> \in composition.selections).id
                          ELSE Unbound]
        /\ required' = [c \in Capabilities |-> IF c \in composition.requirements THEN {Root} ELSE {}]
    BY <1>1, <1>3 DEF Validate, registry
  <2>2. UniqueIds
    BY <1>1, <1>3, NoDuplicateUnique DEF Invalid
  <2>3. ExplicitlySelected \subseteq Capabilities
    BY <1>1 DEF SelectionTyped, ExplicitlySelected
  <2>4. ASSUME NEW c \in ExplicitlySelected
        PROVE  \E d \in Candidates(c) :
                 /\ bindings'[c] = d.id /\ d.id \in Ids /\ Plugin(d.id) = d /\ d.provider = c
                 /\ d \in Selected /\ <<c, d.key>> \in composition.selections
                 /\ \A e \in Selected : e.provider = c => e = d
    <3>1. PICK d \in Candidates(c) :
            /\ d = CHOOSE e \in Candidates(c) : <<c, e.key>> \in composition.selections
            /\ <<c, d.key>> \in composition.selections
            /\ \A e \in Selected : e.provider = c => e = d
      BY <1>1, <1>3, ChoiceExact
    <3>2. bindings'[c] = d.id
      BY <2>1, <2>3, <3>1
    <3>3. d \in Descriptors /\ d.provider = c
      BY DEF Candidates
    <3>4. d.id \in Ids /\ Plugin(d.id) = d
      BY <1>1, <2>2, <3>3, PluginOf DEF Ids
    <3>5. d \in Selected
      BY <3>1, <3>3 DEF Selected
    <3> QED
      BY <3>1, <3>2, <3>3, <3>4, <3>5
  <2>5. \A c \in Capabilities \ ExplicitlySelected : bindings'[c] = Unbound
    BY <2>1
  <2>6. bindings' \in [Capabilities -> Ids \cup {Unbound}]
    <3>1. \A c \in Capabilities : bindings'[c] \in Ids \cup {Unbound}
      BY <2>4, <2>5
    <3> QED
      BY <2>1, <3>1
  <2>7. required' \in [Capabilities -> SUBSET (Ids \cup {Root})]
    BY <2>1
  <2>8. SelectionTyped'
    BY <1>1, <2>1, <2>6, <2>7, SameComposition DEF SelectionTyped
  <2>9. Bound' = ExplicitlySelected
    <3>1. Unbound \notin Ids
      BY <1>1, PluginOf
    <3>2. \A c \in ExplicitlySelected : bindings'[c] \in Ids
      BY <2>4
    <3>3. \A c \in ExplicitlySelected : bindings'[c] # Unbound
      BY <3>1, <3>2
    <3>4. Bound' = {c \in Capabilities : bindings'[c] # Unbound}
      BY DEF Bound
    <3> QED
      BY <2>3, <2>5, <3>3, <3>4
  <2>10. BindingsRight'
    <3> SUFFICES ASSUME NEW c \in ExplicitlySelected
                 PROVE  /\ bindings'[c] \in Ids /\ Plugin(bindings'[c]).provider = c
                        /\ <<c, Plugin(bindings'[c]).key>> \in composition.selections
      BY <1>1, <2>9, SameComposition DEF BindingsRight
    <3> QED
      BY <2>4
  <2>11. Justified' /\ RootJustified'
    BY <1>1, <2>1 DEF Justified, RootJustified
  <2>12. \A d \in Selected' : bindings'[d.provider] = d.id
    <3> SUFFICES ASSUME NEW d \in Selected PROVE bindings'[d.provider] = d.id
      BY <1>1, SameComposition
    <3>1. d.provider \in ExplicitlySelected
      <4>1. <<d.provider, d.key>> \in composition.selections /\ <<d.provider, d.key>>[1] = d.provider
        BY DEF Selected
      <4> QED
        BY <4>1 DEF ExplicitlySelected
    <3> QED
      BY <2>4, <3>1
  <2>13. \A p \in Active' : Plugin(p)' \in Needed'
    <3> SUFFICES ASSUME NEW p \in Active' PROVE Plugin(p) \in Needed
      BY <1>1, SameComposition, SameNeed
    <3>1. p \in Ids /\ (Plugin(p).provider = "none" \/ \E c \in ExplicitlySelected : bindings'[c] = p)
      BY <1>1, <2>9, SameComposition DEF Active
    <3>2. Plugin(p) \in Descriptors
      BY <1>1, <3>1, PluginOf
    <3>3. ASSUME NEW c \in ExplicitlySelected, bindings'[c] = p PROVE Plugin(p) \in Selected
      <4>1. PICK d \in Candidates(c) : bindings'[c] = d.id /\ Plugin(d.id) = d /\ d \in Selected
        BY <2>4
      <4>2. p = d.id
        BY <3>3, <4>1
      <4> QED
        BY <4>1, <4>2
    <3> QED
      BY <3>1, <3>2, <3>3, HostsNeeded
  <2>14. Resolved'
    BY <1>1, <2>2, <2>9, <2>10, <2>11, <2>12, <2>13, SameComposition DEF Resolved
  <2>15. NothingGuessed'
    BY <1>1, <2>1, <2>9, SameComposition DEF NothingGuessed
  <2> QED
    BY <1>1, <2>1, <2>8, <2>14, <2>15 DEF SelectionInv
<1> QED
  BY <1>2, <1>3

\* A pass of the loop binds what is needed, and ends with nothing left to bind.
LEMMA PassStep ==
  ASSUME SelectionInv, Pass
  PROVE  SelectionInv'
<1>1. /\ SelectionTyped /\ NothingGuessed /\ step = "select" /\ composition' = composition
      /\ mounted = {} /\ factories = [c \in Capabilities |-> Unbound] /\ refusal = "none" /\ Resolved
      /\ UNCHANGED <<mounted, factories, refusal>>
  BY DEF SelectionInv, Pass, registry
<1>2. /\ required' = Requirements
      /\ bindings' = [c \in Capabilities |->
                        IF Requirements[c] # {} /\ bindings[c] = Unbound /\ Cardinality(Candidates(c)) = 1
                        THEN (CHOOSE d \in Candidates(c) : TRUE).id ELSE bindings[c]]
      /\ step' = IF required' = required /\ bindings' = bindings THEN "decide" ELSE "select"
  BY DEF Pass
<1>3. Unbound \notin Ids /\ Root \notin Ids /\ UniqueIds
  BY <1>1, PluginOf DEF Resolved
<1>4. \A c \in Capabilities : bindings[c] # Unbound => bindings'[c] = bindings[c]
  BY <1>2
<1>5. ASSUME NEW c \in Capabilities, bindings[c] = Unbound, bindings'[c] # Unbound
      PROVE  /\ Requirements[c] # {} /\ Cardinality(Candidates(c)) = 1 /\ c \notin ExplicitlySelected
             /\ bindings'[c] \in Ids /\ Plugin(bindings'[c]) \in Candidates(c)
             /\ Plugin(bindings'[c]).provider = c /\ Plugin(bindings'[c]) \in Needed
  <2> DEFINE d == CHOOSE d \in Candidates(c) : TRUE
  <2>1. Requirements[c] # {} /\ Cardinality(Candidates(c)) = 1 /\ bindings'[c] = d.id
    BY <1>2, <1>5
  <2>2. Candidates(c) # {}
    BY <1>1, <2>1, CompositionFinite
  <2>3. d \in Candidates(c)
    BY <2>2
  <2> HIDE DEF d
  <2>4. d \in Descriptors /\ d.provider = c
    BY <2>3 DEF Candidates
  <2>5. d.id \in Ids /\ Plugin(d.id) = d
    BY <1>1, <1>3, <2>4, PluginOf DEF Ids
  <2>6. c \notin ExplicitlySelected
    BY <1>1, <1>5 DEF Resolved, Bound
  <2>7. PICK p : p \in required[c] \cup {q \in Active : c \in Plugin(q).requires}
    BY <2>1 DEF Requirements
  <2>8. \A S \in SUBSET Descriptors : Complete(S) => c \in Demanded(S)
    BY <1>1, <2>7, RequiredDemanded
  <2>9. \A S \in SUBSET Descriptors : Complete(S) => d \in S
    BY <2>1, <2>3, <2>6, <2>8 DEF Complete, Chosen
  <2>10. d \in Needed
    BY <2>4, <2>9 DEF Needed
  <2> QED
    BY <2>1, <2>3, <2>4, <2>5, <2>6, <2>10
<1>6. bindings' \in [Capabilities -> Ids \cup {Unbound}]
  <2>1. \A c \in Capabilities : bindings'[c] \in Ids \cup {Unbound}
    BY <1>1, <1>4, <1>5 DEF SelectionTyped
  <2> QED
    BY <1>2, <2>1
<1>7. Bound \subseteq Bound' /\ Bound' \subseteq Capabilities
      /\ \A c \in Bound : bindings'[c] = bindings[c]
  BY <1>4 DEF Bound
<1>8. Active \subseteq Active' /\ Active \subseteq Ids
  BY <1>1, <1>7, SameComposition DEF Active
<1>9. required' = [c \in Capabilities |-> required[c] \cup {p \in Active : c \in Plugin(p).requires}]
  BY <1>2 DEF Requirements
<1>10. SelectionTyped'
  <2>1. required' \in [Capabilities -> SUBSET (Ids \cup {Root})]
    BY <1>1, <1>8, <1>9 DEF SelectionTyped
  <2> QED
    BY <1>1, <1>2, <1>6, <2>1, SameComposition DEF SelectionTyped
<1>11. BindingsRight'
  <2> SUFFICES ASSUME NEW c \in Bound'
               PROVE  /\ bindings'[c] \in Ids /\ Plugin(bindings'[c]).provider = c
                      /\ c \in ExplicitlySelected => <<c, Plugin(bindings'[c]).key>> \in composition.selections
                      /\ c \in ExplicitlySelected \/ Cardinality(Candidates(c)) = 1
    <3>1. \A c \in Bound' : Cardinality(Candidates(c))' = Cardinality(Candidates(c))
      BY <1>1, SameComposition
    <3> QED
      BY <1>1, <3>1, SameComposition DEF BindingsRight
  <2>1. CASE c \in Bound
    BY <1>1, <1>7, <2>1 DEF Resolved, BindingsRight
  <2>2. CASE c \notin Bound
    <3>1. c \in Capabilities /\ bindings[c] = Unbound /\ bindings'[c] # Unbound
      BY <2>2 DEF Bound
    <3> QED
      BY <1>5, <3>1
  <2> QED
    BY <2>1, <2>2
<1>12. Justified'
  <2> SUFFICES ASSUME NEW c \in Capabilities, NEW p \in required'[c], p # Root
               PROVE  p \in Active' /\ c \in Plugin(p).requires
    BY <1>1, SameComposition DEF Justified
  <2> QED
    BY <1>1, <1>8, <1>9 DEF Resolved, Justified
<1>13. RootJustified'
  BY <1>1, <1>3, <1>8, <1>9 DEF Resolved, RootJustified
<1>14. \A d \in Selected' : bindings'[d.provider] = d.id
  <2> SUFFICES ASSUME NEW d \in Selected PROVE bindings'[d.provider] = d.id
    BY <1>1, SameComposition
  <2>1. bindings[d.provider] = d.id /\ d \in Descriptors
    BY <1>1 DEF Resolved, Selected
  <2>2. d.provider \in Capabilities
    BY <1>1 DEF SelectionTyped, Selected
  <2>3. d.id # Unbound
    BY <1>3, <2>1 DEF Ids
  <2> QED
    BY <1>4, <2>1, <2>2, <2>3
<1>15. \A p \in Active' : Plugin(p)' \in Needed'
  <2> SUFFICES ASSUME NEW p \in Active', p \notin Active PROVE Plugin(p) \in Needed
    BY <1>1, SameComposition, SameNeed DEF Resolved
  <2>1. p \in Ids /\ (Plugin(p).provider = "none" \/ \E c \in Bound' : bindings'[c] = p)
    BY <1>1, SameComposition DEF Active
  <2>2. PICK c \in Bound' : bindings'[c] = p /\ c \notin Bound
    BY <1>7, <2>1 DEF Active
  <2>3. c \in Capabilities /\ bindings[c] = Unbound /\ bindings'[c] # Unbound
    BY <2>2 DEF Bound
  <2> QED
    BY <1>5, <2>2, <2>3
<1>16. Resolved'
  BY <1>1, <1>3, <1>7, <1>11, <1>12, <1>13, <1>14, <1>15, SameComposition DEF Resolved
<1>17. NothingGuessed'
  BY <1>1, <1>11 DEF NothingGuessed, BindingsRight
<1>18. ASSUME step' = "decide" PROVE Fixed'
  <2>1. UNCHANGED <<composition, bindings, required>>
    BY <1>1, <1>2, <1>18
  <2>2. Fixed
    <3>1. required = Requirements
      BY <1>2, <2>1
    <3>2. ASSUME NEW c \in Open, Cardinality(Candidates(c)) = 1 PROVE FALSE
      <4>1. c \in Capabilities /\ Requirements[c] # {} /\ bindings[c] = Unbound
        BY <3>1 DEF Open
      <4>2. bindings'[c] = (CHOOSE d \in Candidates(c) : TRUE).id
        BY <1>2, <3>2, <4>1
      <4>3. (CHOOSE d \in Candidates(c) : TRUE) \in Candidates(c)
        BY <1>1, <3>2, CompositionFinite
      <4>4. bindings'[c] \in Ids
        BY <4>2, <4>3 DEF Candidates, Ids
      <4> QED
        BY <1>3, <2>1, <4>1, <4>4
    <3> QED
      BY <3>1, <3>2 DEF Fixed
  <2> QED
    BY <2>1, <2>2, SameBindings
<1> QED
  BY <1>1, <1>2, <1>10, <1>16, <1>17, <1>18 DEF SelectionInv

\* What is still open when the loop has ended is refused, and for its reason.
LEMMA DecideStep ==
  ASSUME SelectionInv, Decide
  PROVE  SelectionInv'
<1>1. /\ SelectionTyped /\ NothingGuessed /\ step = "decide" /\ refusal = "none" /\ Resolved /\ Fixed
      /\ mounted = {} /\ factories = [c \in Capabilities |-> Unbound]
      /\ UNCHANGED <<composition, bindings, required>> /\ UNCHANGED <<mounted, factories>>
  BY DEF SelectionInv, Decide, registry
<1>2. /\ Bound' = Bound /\ Open' = Open /\ Resolved' /\ Fixed' /\ Dependencies' = Dependencies
      /\ Cyclic(Dependencies)' <=> Cyclic(Dependencies)
  BY <1>1, SameBindings
<1>3. step' \in {"refused", "mount"} => SelectionTyped'
  BY <1>1, SameComposition DEF SelectionTyped
<1>4. \A c \in Open : c \in Capabilities /\ c \in Demanded(Needed) /\ c \notin ExplicitlySelected
  <2> SUFFICES ASSUME NEW c \in Open
               PROVE  c \in Capabilities /\ c \in Demanded(Needed) /\ c \notin ExplicitlySelected
    OBVIOUS
  <2>1. c \in Capabilities /\ required[c] # {} /\ c \notin Bound
    BY DEF Open, Bound
  <2>2. PICK p : p \in required[c] \cup {q \in Active : c \in Plugin(q).requires}
    BY <2>1
  <2> QED
    BY <1>1, <2>1, <2>2, RequiredDemanded DEF Resolved
<1>5. CASE Refuse("missing capability") /\ \E c \in Open : Candidates(c) = {}
  <2>1. PICK c \in Demanded(Needed) : Candidates(c) = {}
    BY <1>4, <1>5
  <2>2. NothingGuessed'
    <3>1. \E b \in Demanded(Needed)' : Candidates(b)' = {}
      BY <1>1, <2>1, SameComposition, SameNeed
    <3>2. \A b \in Bound' : b \in ExplicitlySelected' \/ Cardinality(Candidates(b))' = 1
      BY <1>1, <1>2, SameComposition DEF NothingGuessed
    <3> QED
      BY <1>5, <3>1, <3>2 DEF NothingGuessed, Refuse
  <2> QED
    BY <1>3, <1>5, <2>2 DEF SelectionInv, Refuse
<1>6. CASE Refuse("ambiguous capability") /\ Open # {} /\ \A c \in Open : Candidates(c) # {}
  <2>1. PICK c \in Open : TRUE
    BY <1>6
  <2>2. Cardinality(Candidates(c)) > 1
    <3> DEFINE n == Cardinality(Candidates(c))
    <3>1. n \in Nat /\ (n = 0 <=> Candidates(c) = {})
      BY <1>1, CompositionFinite
    <3>2. n # 1 /\ Candidates(c) # {}
      BY <1>1, <1>6, <2>1 DEF Fixed
    <3> HIDE DEF n
    <3>3. n > 1
      BY <3>1, <3>2
    <3> QED
      BY <3>3 DEF n
  <2>3. NothingGuessed'
    <3>1. \E b \in Capabilities \ ExplicitlySelected' :
            Cardinality(Candidates(b))' > 1 /\ b \in Demanded(Needed)'
      BY <1>1, <1>4, <2>1, <2>2, SameComposition, SameNeed
    <3>2. \A b \in Bound' : b \in ExplicitlySelected' \/ Cardinality(Candidates(b))' = 1
      BY <1>1, <1>2, SameComposition DEF NothingGuessed
    <3> QED
      BY <1>6, <3>1, <3>2 DEF NothingGuessed, Refuse
  <2> QED
    BY <1>3, <1>6, <2>3 DEF SelectionInv, Refuse
<1>7. CASE Refuse("cycle")
  <2>1. NothingGuessed'
    BY <1>1, <1>7, SameGuess DEF Refuse
  <2> QED
    BY <1>3, <1>7, <2>1 DEF SelectionInv, Refuse
<1>8. CASE Open = {} /\ ~Cyclic(Dependencies) /\ step' = "mount" /\ UNCHANGED refusal
  <2>1. NothingGuessed'
    BY <1>1, <1>8, SameGuess
  <2>2. \A c \in Capabilities : bindings[c] \notin mounted
    BY <1>1
  <2>3. Filling'
    BY <1>1, <2>2 DEF Filling
  <2> QED
    BY <1>1, <1>2, <1>3, <1>8, <2>1, <2>3 DEF SelectionInv
<1> QED
  BY <1>5, <1>6, <1>7, <1>8 DEF Decide

\* A plugin is mounted that is active and whose dependencies are mounted: there
\* is one, since nothing waits for itself.
LEMMA NextReady ==
  ASSUME SelectionInv, step = "mount", mounted # Active
  PROVE  NextPlugin \in Active \ mounted /\ Dependencies[NextPlugin] \subseteq mounted
<1> DEFINE waiting == {p \in Active \ mounted : Dependencies[p] \subseteq mounted}
<1>1. SelectionTyped /\ Resolved /\ Filling /\ ~Cyclic(Dependencies)
  BY DEF SelectionInv
<1>2. Active \subseteq Ids /\ DOMAIN Dependencies = Active
  BY DEF Active, Dependencies
<1>3. \A p \in Active : Dependencies[p] \subseteq Active
  <2>1. \A c \in Bound : bindings[c] \in Active
    BY <1>1 DEF Resolved, BindingsRight, Active
  <2> QED
    BY <2>1 DEF Dependencies
<1>4. Active \ mounted # {} /\ Active \ mounted \subseteq DOMAIN Dependencies
  BY <1>1, <1>2 DEF Filling
<1>5. \E p \in Active \ mounted : Dependencies[p] \cap (Active \ mounted) = {}
  BY <1>1, <1>4 DEF Cyclic
<1>6. waiting # {}
  BY <1>3, <1>5
<1>7. waiting \in SUBSET Nat /\ IsFiniteSet(waiting)
  BY <1>1, <1>2, PluginOf, CompositionFinite, FS_Subset
<1>8. NextPlugin = Min(waiting)
  BY DEF NextPlugin
<1>9. Min(waiting) \in waiting
  <2> HIDE DEF waiting
  <2> QED
    BY <1>6, <1>7, LeastExists
<1> QED
  BY <1>8, <1>9

\* What is mounted fills the slot of its own capability, if it is a provider.
LEMMA MountStep ==
  ASSUME SelectionInv, Mount
  PROVE  SelectionInv'
<1> DEFINE p == NextPlugin
<1>1. /\ SelectionTyped /\ NothingGuessed /\ step = "mount" /\ refusal = "none" /\ Resolved /\ Fixed
      /\ Open = {} /\ ~Cyclic(Dependencies) /\ Filling /\ mounted # Active
      /\ UNCHANGED <<composition, bindings, required>>
  BY DEF SelectionInv, Mount
<1>2. p \in Active \ mounted /\ Dependencies[p] \subseteq mounted
  BY <1>1, NextReady
<1>3. /\ Bound' = Bound /\ Active' = Active /\ Open' = Open /\ Resolved' /\ Fixed'
      /\ Dependencies' = Dependencies /\ ~Cyclic(Dependencies)'
  BY <1>1, SameBindings
<1> HIDE DEF p
<1>4. CASE Refuse("mount") /\ UNCHANGED registry
  <2>1. NothingGuessed'
    BY <1>1, <1>4, SameGuess DEF Refuse
  <2>2. SelectionTyped'
    BY <1>1, <1>4, SameComposition DEF SelectionTyped, Refuse, registry
  <2> QED
    BY <1>4, <2>1, <2>2 DEF SelectionInv, Refuse
<1>5. CASE Refuse("duplicate") /\ UNCHANGED registry
  <2>1. NothingGuessed'
    BY <1>1, <1>5, SameGuess DEF Refuse
  <2>2. SelectionTyped'
    BY <1>1, <1>5, SameComposition DEF SelectionTyped, Refuse, registry
  <2> QED
    BY <1>5, <2>1, <2>2 DEF SelectionInv, Refuse
<1>6. ASSUME NEW provided \in SUBSET Capabilities, Accepted(p, provided), mounted' = mounted \cup {p},
             factories' = [c \in Capabilities |-> IF c \in provided THEN p ELSE factories[c]],
             UNCHANGED <<step, refusal>>
      PROVE  SelectionInv'
  <2>1. p \in Ids /\ p # Unbound
    BY <1>1, <1>2, PluginOf DEF Active
  <2>2. ASSUME NEW c \in Capabilities
        PROVE  bindings[c] = p <=> c \in provided
    <3>1. provided = {Plugin(p).provider} \ {"none"} /\ c # "none"
      BY <1>6, CompositionsAssumption DEF Accepted
    <3>2. bindings[c] = p => Plugin(p).provider = c
      BY <1>1, <2>1 DEF Resolved, BindingsRight, Bound
    <3>3. Plugin(p).provider = "none" \/ \E b \in Bound : bindings[b] = p /\ Plugin(p).provider = b
      BY <1>1, <1>2 DEF Active, Resolved, BindingsRight
    <3> QED
      BY <3>1, <3>2, <3>3
  <2>3. factories' = [c \in Capabilities |-> IF bindings[c] \in mounted \cup {p} THEN bindings[c] ELSE Unbound]
    <3>1. \A c \in Capabilities : factories[c] = IF bindings[c] \in mounted THEN bindings[c] ELSE Unbound
      BY <1>1 DEF Filling
    <3> QED
      BY <1>6, <2>2, <3>1
  <2>4. \A q \in mounted \cup {p} : Dependencies[q] \subseteq mounted \cup {p}
    BY <1>1, <1>2 DEF Filling
  <2>5. Filling'
    BY <1>1, <1>2, <1>3, <1>6, <2>3, <2>4 DEF Filling
  <2>6. NothingGuessed'
    BY <1>1, <1>6, SameGuess
  <2>7. SelectionTyped'
    <3>1. factories' \in [Capabilities -> Ids \cup {Unbound}]
      BY <1>1, <1>6, <2>1 DEF SelectionTyped
    <3> QED
      BY <1>1, <1>6, <2>1, <3>1, SameComposition DEF SelectionTyped
  <2> QED
    BY <1>1, <1>3, <1>6, <2>5, <2>6, <2>7 DEF SelectionInv
<1> QED
  BY <1>4, <1>5, <1>6 DEF Mount, p

\* The services are constructed when everything active is mounted.
LEMMA ActivateStep ==
  ASSUME SelectionInv, Activate
  PROVE  SelectionInv'
<1>1. /\ SelectionTyped /\ NothingGuessed /\ step = "mount" /\ refusal = "none" /\ Resolved /\ Fixed
      /\ Open = {} /\ ~Cyclic(Dependencies) /\ Filling /\ mounted = Active
      /\ UNCHANGED <<composition, bindings, required>> /\ UNCHANGED <<mounted, factories>>
      /\ step' = "activate" /\ UNCHANGED refusal
  BY DEF SelectionInv, Activate, registry
<1>2. /\ Active' = Active /\ Open' = Open /\ Resolved' /\ Fixed' /\ Dependencies' = Dependencies
      /\ ~Cyclic(Dependencies)'
  BY <1>1, SameBindings
<1>3. NothingGuessed'
  BY <1>1, SameGuess
<1>4. SelectionTyped'
  BY <1>1, SameComposition DEF SelectionTyped
<1>5. Filling'
  BY <1>1, <1>2 DEF Filling
<1> QED
  BY <1>1, <1>2, <1>3, <1>4, <1>5 DEF SelectionInv

\* The steps together.
LEMMA SelectionStep == SelectionInv /\ [SelectionNext]_selecting => SelectionInv'
<1> SUFFICES ASSUME SelectionInv, [SelectionNext]_selecting PROVE SelectionInv'
  OBVIOUS
<1>1. ASSUME UNCHANGED selecting PROVE SelectionInv'
  <2>1. UNCHANGED <<composition, step, refusal, bindings, required>> /\ UNCHANGED <<mounted, factories>>
    BY <1>1 DEF selecting, registry
  <2>2. /\ Bound' = Bound /\ Active' = Active /\ Open' = Open /\ Dependencies' = Dependencies
        /\ (Resolved => Resolved') /\ (Fixed => Fixed') /\ (Cyclic(Dependencies)' <=> Cyclic(Dependencies))
    BY <2>1, SameBindings
  <2>3. NothingGuessed'
    BY <2>1, SameGuess DEF SelectionInv
  <2>4. SelectionTyped'
    BY <2>1, SameComposition DEF SelectionInv, SelectionTyped
  <2>5. Filling => Filling'
    BY <2>1, <2>2 DEF Filling
  <2> QED
    BY <2>1, <2>2, <2>3, <2>4, <2>5 DEF SelectionInv
<1> QED
  BY <1>1, ValidateStep, PassStep, DecideStep, MountStep, ActivateStep DEF SelectionNext, Composed

\* The invariant holds throughout.
LEMMA SelectionHolds == SelectionSpec => []SelectionInv
  BY SelectionBegins, SelectionStep, PTL DEF SelectionSpec

\* Whatever is required of what is active is bound.
LEMMA RequiredBound ==
  ASSUME SelectionInv, step \in {"mount", "activate"}
  PROVE  /\ \A p \in Active : Plugin(p).requires \subseteq Bound
         /\ composition.requirements \subseteq Bound
<1>1. SelectionTyped /\ Resolved /\ Fixed /\ Open = {}
  BY DEF SelectionInv
<1>2. \A c \in Capabilities : required[c] # {} => c \in Bound
  BY <1>1 DEF Open, Bound
<1>3. ASSUME NEW p \in Active PROVE Plugin(p).requires \subseteq Bound
  <2>1. Plugin(p).requires \subseteq Capabilities
    BY <1>1, PluginOf DEF Active, Descriptor
  <2>2. \A c \in Capabilities : c \in Plugin(p).requires => p \in required[c]
    BY <1>1 DEF Fixed, Requirements
  <2> QED
    BY <1>2, <2>1, <2>2
<1>4. \A c \in composition.requirements : c \in Capabilities /\ Root \in required[c]
  BY <1>1 DEF SelectionTyped, Resolved, RootJustified
<1> QED
  BY <1>2, <1>3, <1>4

\* What is active is complete.
LEMMA ActiveComplete ==
  ASSUME SelectionInv, step \in {"mount", "activate"}
  PROVE  Complete({d \in Descriptors : d.id \in Active})
<1> DEFINE A == {d \in Descriptors : d.id \in Active}
<1>1. SelectionTyped /\ Resolved /\ UniqueIds /\ BindingsRight
  BY DEF SelectionInv, Resolved
<1>2. \A d \in Descriptors : d.id \in Ids /\ Plugin(d.id) = d /\ d.id # Unbound
  BY <1>1, PluginOf DEF Ids
<1>3. \A d \in Descriptors : d.provider = "none" => d \in A
  BY <1>2 DEF Active
<1>4. ASSUME NEW d \in Selected PROVE d \in A
  <2>1. d \in Descriptors /\ d.provider \in Capabilities /\ bindings[d.provider] = d.id
    BY <1>1 DEF SelectionTyped, Selected, Resolved
  <2>2. d.provider \in Bound
    BY <1>2, <2>1 DEF Bound
  <2> QED
    BY <1>2, <2>1, <2>2 DEF Active
<1>5. ASSUME NEW c \in Demanded(A) PROVE Chosen(c) \subseteq A
  <2>1. c \in Bound
    <3>1. CASE c \in composition.requirements
      BY <3>1, RequiredBound
    <3>2. CASE \E d \in A : c \in d.requires
      BY <1>2, <3>2, RequiredBound
    <3> QED
      BY <3>1, <3>2 DEF Demanded
  <2>2. CASE c \in ExplicitlySelected
    BY <1>4, <2>2 DEF Chosen
  <2>3. CASE c \notin ExplicitlySelected
    <3>1. /\ Cardinality(Candidates(c)) = 1 /\ bindings[c] \in Ids
          /\ Plugin(bindings[c]).provider = c
      BY <1>1, <2>1, <2>3 DEF BindingsRight
    <3>2. /\ Plugin(bindings[c]) \in Candidates(c) /\ Plugin(bindings[c]).id = bindings[c]
          /\ IsFiniteSet(Candidates(c))
      BY <1>1, <3>1, PluginOf, CompositionFinite DEF Candidates
    <3>3. PICK x : Candidates(c) = {x}
      BY <3>1, <3>2, FS_Singleton
    <3>4. Plugin(bindings[c]) \in A
      BY <1>1, <2>1, <3>1, <3>2 DEF Active, Candidates
    <3> QED
      BY <2>3, <3>2, <3>3, <3>4 DEF Chosen
  <2> QED
    BY <2>2, <2>3
<1> QED
  BY <1>3, <1>4, <1>5 DEF Complete

\* Whatever hosts compose, in whatever order they submit it: what is constructed
\* is what is needed, each service by the factory of the provider that was chosen
\* or is the only one, behind what it depends on; or they are told what they
\* have to choose or what there is none of.
THEOREM CompositionsAreRight == SelectionSpec => []CompositionRight
<1>1. SelectionInv => CompositionRight
  <2> SUFFICES ASSUME SelectionInv PROVE CompositionRight
    OBVIOUS
  <2>1. SelectionLeast
    <3> SUFFICES ASSUME step \in {"mount", "activate"} PROVE Active = {d.id : d \in Needed}
      BY DEF SelectionLeast
    <3>1. SelectionTyped /\ Resolved
      BY DEF SelectionInv
    <3>2. \A p \in Active : Plugin(p) \in Needed /\ Plugin(p).id = p
      BY <3>1, PluginOf DEF Resolved, Active
    <3>3. \A d \in Needed : d.id \in Active
      BY ActiveComplete DEF Needed
    <3> QED
      BY <3>2, <3>3
  <2>2. NothingMissing
    <3> SUFFICES ASSUME step \in {"mount", "activate"}
                 PROVE  /\ \A p \in Active : /\ Plugin(p).requires \subseteq Bound
                                             /\ Dependencies[p] \subseteq Active
                        /\ composition.requirements \subseteq Bound
                        /\ \A c \in Bound :
                             /\ Plugin(bindings[c]).provider = c
                             /\ c \in ExplicitlySelected =>
                                  <<c, Plugin(bindings[c]).key>> \in composition.selections
      BY DEF NothingMissing
    <3>1. BindingsRight
      BY DEF SelectionInv, Resolved
    <3>2. \A c \in Bound : bindings[c] \in Active
      BY <3>1 DEF BindingsRight, Active
    <3>3. \A p \in Active : Dependencies[p] \subseteq Active
      BY <3>2 DEF Dependencies
    <3> QED
      BY <3>1, <3>3, RequiredBound DEF BindingsRight
  <2>3. FactoriesExact
    <3> SUFFICES ASSUME step = "activate" PROVE factories = bindings
      BY DEF FactoriesExact
    <3>1. /\ mounted = Active /\ bindings \in [Capabilities -> Ids \cup {Unbound}] /\ BindingsRight
          /\ factories = [c \in Capabilities |-> IF bindings[c] \in mounted THEN bindings[c] ELSE Unbound]
      BY DEF SelectionInv, SelectionTyped, Resolved, Filling
    <3>2. \A c \in Capabilities : bindings[c] # Unbound => bindings[c] \in mounted
      BY <3>1 DEF BindingsRight, Bound, Active
    <3>3. \A c \in Capabilities : factories[c] = bindings[c]
      BY <3>1, <3>2
    <3> QED
      BY <3>1, <3>3
  <2>4. MountsFollow
    BY DEF MountsFollow, SelectionInv, Filling
  <2> QED
    BY <2>1, <2>2, <2>3, <2>4 DEF SelectionInv, CompositionRight
<1> QED
  BY <1>1, SelectionHolds, PTL
=============================================================================
