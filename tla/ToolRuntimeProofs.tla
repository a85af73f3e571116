------------------------- MODULE ToolRuntimeProofs -------------------------
(***************************************************************************)
(* Proofs about ToolRuntime, for any number of calls and turns, any limit  *)
(* and every fault: what a call has left in the Session and in its budget, *)
(* at each point at which it can be interrupted or lost, and what its      *)
(* closure tells of it.                                                    *)
(***************************************************************************)
EXTENDS ToolRuntime, ToolRecovery, FiniteSetTheorems, TLAPS

\* What a call has done by the time it is where it is.
Trace(j) ==
  /\ at[j] \in {"none", "call", "refused"} =>
       reservation[j] = "none" /\ log[j] = {} /\ j \notin entered
  /\ at[j] = "record" => reservation[j] = "reserved" /\ log[j] = {} /\ j \notin entered
  /\ at[j] \in {"check", "guard", "approve", "ready"} =>
       reservation[j] = "reserved" /\ log[j] = {"call"} /\ j \notin entered
  /\ at[j] = "body" => reservation[j] = "started" /\ log[j] = {"call"} /\ j \in entered
  /\ at[j] = "settle" =>
       log[j] = {"call"} /\ reservation[j] = IF j \in entered THEN "started" ELSE "reserved"
  /\ at[j] = "result" =>
       log[j] = {"call"} /\ reservation[j] = IF j \in entered THEN "settled" ELSE "returned"
  /\ at[j] \in {"close", "done"} =>
       /\ reservation[j] = IF j \in entered THEN "settled" ELSE "returned"
       /\ j \in entered => "call" \in log[j]
       /\ j \notin failed => log[j] = {"call", "result"}
  /\ j \in failed => at[j] \in {"close", "done"}

\* Its outcome is not decided before, and no refusal is decided after it was entered.
Decided(j) ==
  /\ at[j] \notin {"settle", "result", "close", "done"} => outcome[j] = "none"
  /\ outcome[j] = "refused" => j \notin entered

Traces == \A j \in Jobs : Trace(j) /\ Decided(j)

\* The calls in flight, and the turns that take no more.
Flying == {"record", "check", "guard", "approve", "ready", "body", "settle", "result", "close"}
Flights ==
  /\ IsFiniteSet(jobs) /\ jobs = {j \in Jobs : at[j] \in Flying}
  /\ \A t \in Turns : /\ finisher[t] \in {"look", "await", "take", "done", "abandoned"} => ~open[t]
                      /\ finisher[t] \in {"take", "done"} => \A j \in jobs : TurnOf[j] # t

\* A failure waits in the ledger of its turn and with the runtime, or was told.
Failures ==
  \A j \in failed : at[j] = "done" =>
    /\ j \in unack \cup told
    /\ j \in ledger[TurnOf[j]] \cup told
    /\ finisher[TurnOf[j]] \in {"take", "done"} => j \in told

Inv == TypeOK /\ Traces /\ Flights /\ Failures

-----------------------------------------------------------------------------
\* Nothing is called.
LEMMA InitInv == Init => Inv
<1> SUFFICES ASSUME Init PROVE Inv
  OBVIOUS
<1> USE TurnOfAssumption, ConfigAssumption DEF Init
<1>1. IsFiniteSet(jobs) /\ Cardinality(jobs) = 0
  BY FS_EmptySet
<1>2. TypeOK
  BY <1>1 DEF TypeOK
<1>3. Traces
  BY DEF Traces, Trace, Decided
<1>4. Flights
  BY <1>1 DEF Flights, Flying
<1>5. Failures
  BY DEF Failures
<1> QED
  BY <1>2, <1>3, <1>4, <1>5 DEF Inv

\* Each step of a runtime, a turn, a call and its driver keeps the invariant.
LEMMA StepInv == Inv /\ [Next]_vars => Inv'
<1> SUFFICES ASSUME Inv, [Next]_vars PROVE Inv'
  OBVIOUS
<1> USE TurnOfAssumption, ConfigAssumption DEF Inv
<1>1. CASE UNCHANGED vars
  BY <1>1 DEF vars, driver, signals, closures, TypeOK, Traces, Trace, Decided, Flights, Failures
<1>2. CASE Start
  <2>1. TypeOK'
    BY <1>2 DEF Start, driver, signals, closures, TypeOK
  <2>2. Traces'
    BY <1>2 DEF Start, driver, signals, closures, TypeOK, Traces, Trace, Decided
  <2>3. Flights'
    BY <1>2 DEF Start, driver, signals, closures, TypeOK, Flights, Flying
  <2>4. Failures'
    BY <1>2 DEF Start, driver, signals, closures, TypeOK, Traces, Trace, Flights, Flying, Failures
  <2> QED
    BY <2>1, <2>2, <2>3, <2>4
<1>3. ASSUME NEW t \in Turns, BindTurn(t) PROVE Inv'
  <2>1. TypeOK'
    BY <1>3 DEF BindTurn, driver, signals, closures, TypeOK
  <2>2. Traces'
    BY <1>3 DEF BindTurn, driver, signals, closures, TypeOK, Traces, Trace, Decided
  <2>3. Flights'
    BY <1>3 DEF BindTurn, driver, signals, closures, TypeOK, Flights, Flying
  <2>4. Failures'
    BY <1>3 DEF BindTurn, driver, signals, closures, TypeOK, Traces, Trace, Flights, Flying, Failures
  <2> QED
    BY <2>1, <2>2, <2>3, <2>4
<1>4. ASSUME NEW j \in Jobs, Call(j) PROVE Inv'
  <2>1. TypeOK'
    BY <1>4 DEF Call, driver, signals, closures, TypeOK
  <2>2. Traces'
    BY <1>4 DEF Call, driver, signals, closures, TypeOK, Traces, Trace, Decided
  <2>3. Flights'
    BY <1>4 DEF Call, driver, signals, closures, TypeOK, Flights, Flying
  <2>4. Failures'
    BY <1>4 DEF Call, driver, signals, closures, TypeOK, Traces, Trace, Flights, Flying, Failures
  <2> QED
    BY <2>1, <2>2, <2>3, <2>4
<1>5. ASSUME NEW j \in Jobs, Admit(j) PROVE Inv'
  <2>1. IsFiniteSet(jobs') /\ Cardinality(jobs') <= MaxInFlight
    <3>1. jobs' = jobs \/ (jobs' = jobs \cup {j} /\ Cardinality(jobs) < MaxInFlight)
      BY <1>5 DEF Admit, Admissible
    <3>2. IsFiniteSet(jobs) /\ Cardinality(jobs) \in Nat /\ Cardinality(jobs) <= MaxInFlight
      BY FS_CardinalityType DEF TypeOK, Flights
    <3>3. /\ IsFiniteSet(jobs \cup {j})
          /\ Cardinality(jobs \cup {j}) = IF j \in jobs THEN Cardinality(jobs) ELSE Cardinality(jobs) + 1
      BY <3>2, FS_AddElement
    <3>4. CASE jobs' = jobs
      BY <3>2, <3>4
    <3>5. CASE jobs' = jobs \cup {j} /\ Cardinality(jobs) < MaxInFlight
      BY <3>2, <3>3, <3>5
    <3> QED
      BY <3>1, <3>4, <3>5
  <2>2. TypeOK'
    BY <1>5, <2>1 DEF Admit, Admissible, driver, signals, closures, TypeOK
  <2>3. Traces'
    BY <1>5, <2>1 DEF Admit, Admissible, driver, signals, closures, TypeOK, Traces, Trace, Decided
  <2>4. Flights'
    BY <1>5, <2>1 DEF Admit, Admissible, driver, signals, closures, TypeOK, Flights, Flying
  <2>5. Failures'
    BY <1>5, <2>1 DEF Admit, Admissible, driver, signals, closures, TypeOK, Traces, Trace, Flights, Flying, Failures
  <2> QED
    BY <2>2, <2>3, <2>4, <2>5
<1>6. ASSUME NEW t \in Turns, CancelTurn(t) PROVE Inv'
  <2>1. TypeOK'
    BY <1>6 DEF CancelTurn, driver, signals, closures, TypeOK
  <2>2. Traces'
    BY <1>6 DEF CancelTurn, driver, signals, closures, TypeOK, Traces, Trace, Decided
  <2>3. Flights'
    BY <1>6 DEF CancelTurn, driver, signals, closures, TypeOK, Flights, Flying
  <2>4. Failures'
    BY <1>6 DEF CancelTurn, driver, signals, closures, TypeOK, Traces, Trace, Flights, Flying, Failures
  <2> QED
    BY <2>1, <2>2, <2>3, <2>4
<1>7. ASSUME NEW t \in Turns, StopBudget(t) PROVE Inv'
  <2>1. TypeOK'
    BY <1>7 DEF StopBudget, driver, signals, closures, TypeOK
  <2>2. Traces'
    BY <1>7 DEF StopBudget, driver, signals, closures, TypeOK, Traces, Trace, Decided
  <2>3. Flights'
    BY <1>7 DEF StopBudget, driver, signals, closures, TypeOK, Flights, Flying
  <2>4. Failures'
    BY <1>7 DEF StopBudget, driver, signals, closures, TypeOK, Traces, Trace, Flights, Flying, Failures
  <2> QED
    BY <2>1, <2>2, <2>3, <2>4
<1>8. ASSUME NEW j \in Jobs, Expire(j) PROVE Inv'
  <2>1. TypeOK'
    BY <1>8 DEF Expire, driver, signals, closures, TypeOK
  <2>2. Traces'
    BY <1>8 DEF Expire, driver, signals, closures, TypeOK, Traces, Trace, Decided
  <2>3. Flights'
    BY <1>8 DEF Expire, driver, signals, closures, TypeOK, Flights, Flying
  <2>4. Failures'
    BY <1>8 DEF Expire, driver, signals, closures, TypeOK, Traces, Trace, Flights, Flying, Failures
  <2> QED
    BY <2>1, <2>2, <2>3, <2>4
<1>9. ASSUME NEW j \in Jobs, RecordCall(j) PROVE Inv'
  <2>1. TypeOK'
    <3>1. log' = log \/ log' = [log EXCEPT ![j] = @ \cup {"call"}]
      BY <1>9 DEF RecordCall
    <3>2. log' \in [Jobs -> SUBSET {"call", "result"}]
      BY <3>1 DEF TypeOK
    <3>3. budgetStopped' = budgetStopped \/ budgetStopped' = [budgetStopped EXCEPT ![TurnOf[j]] = TRUE]
      BY <1>9 DEF RecordCall
    <3>4. budgetStopped' \in [Turns -> BOOLEAN]
      BY <3>3 DEF TypeOK
    <3>5. /\ at' \in [Jobs -> {"none", "call", "refused", "record", "check", "guard", "approve", "ready",
                              "body", "settle", "result", "close", "done"}]
          /\ reservation' \in [Jobs -> {"none", "reserved", "started", "settled", "returned"}]
          /\ failed' \subseteq Jobs
      BY <1>9 DEF RecordCall, Go, Returned, TypeOK
    <3> QED
      BY <1>9, <3>2, <3>4, <3>5 DEF RecordCall, Rest, driver, signals, closures, TypeOK
  <2>2. Traces'
    BY <1>9 DEF RecordCall, Go, Returned, Rest, driver, signals, closures, TypeOK, Traces, Trace, Decided
  <2>3. Flights'
    BY <1>9 DEF RecordCall, Go, Returned, Rest, driver, signals, closures, TypeOK, Flights, Flying
  <2>4. Failures'
    BY <1>9 DEF RecordCall, Go, Returned, Rest, driver, signals, closures, TypeOK, Traces, Trace, Flights, Flying, Failures
  <2> QED
    BY <2>1, <2>2, <2>3, <2>4
<1>10. ASSUME NEW j \in Jobs, Check(j) PROVE Inv'
  <2>1. TypeOK'
    BY <1>10 DEF Check, Decide, Go, Interrupted, Rest, driver, signals, closures, TypeOK
  <2>2. Traces'
    BY <1>10 DEF Check, Decide, Go, Interrupted, Rest, driver, signals, closures, TypeOK, Traces, Trace, Decided
  <2>3. Flights'
    BY <1>10 DEF Check, Decide, Go, Interrupted, Rest, driver, signals, closures, TypeOK, Flights, Flying
  <2>4. Failures'
    BY <1>10 DEF Check, Decide, Go, Interrupted, Rest, driver, signals, closures, TypeOK, Traces, Trace, Flights, Flying, Failures
  <2> QED
    BY <2>1, <2>2, <2>3, <2>4
<1>11. ASSUME NEW j \in Jobs, Interrupt(j) PROVE Inv'
  <2>1. TypeOK'
    BY <1>11 DEF Interrupt, Decide, Go, Interrupted, Rest, driver, signals, closures, TypeOK
  <2>2. Traces'
    BY <1>11 DEF Interrupt, Decide, Go, Interrupted, Rest, driver, signals, closures, TypeOK, Traces, Trace, Decided
  <2>3. Flights'
    BY <1>11 DEF Interrupt, Decide, Go, Interrupted, Rest, driver, signals, closures, TypeOK, Flights, Flying
  <2>4. Failures'
    BY <1>11 DEF Interrupt, Decide, Go, Interrupted, Rest, driver, signals, closures, TypeOK, Traces, Trace, Flights, Flying, Failures
  <2> QED
    BY <2>1, <2>2, <2>3, <2>4
<1>12. ASSUME NEW j \in Jobs, Answer(j) PROVE Inv'
  <2>1. TypeOK'
    BY <1>12 DEF Answer, Decide, Go, Rest, driver, signals, closures, TypeOK
  <2>2. Traces'
    BY <1>12 DEF Answer, Decide, Go, Rest, driver, signals, closures, TypeOK, Traces, Trace, Decided
  <2>3. Flights'
    BY <1>12 DEF Answer, Decide, Go, Rest, driver, signals, closures, TypeOK, Flights, Flying
  <2>4. Failures'
    BY <1>12 DEF Answer, Decide, Go, Rest, driver, signals, closures, TypeOK, Traces, Trace, Flights, Flying, Failures
  <2> QED
    BY <2>1, <2>2, <2>3, <2>4
<1>13. ASSUME NEW j \in Jobs, NoApproval(j) PROVE Inv'
  <2>1. TypeOK'
    BY <1>13 DEF NoApproval, Go, Rest, driver, signals, closures, TypeOK
  <2>2. Traces'
    BY <1>13 DEF NoApproval, Go, Rest, driver, signals, closures, TypeOK, Traces, Trace, Decided
  <2>3. Flights'
    BY <1>13 DEF NoApproval, Go, Rest, driver, signals, closures, TypeOK, Flights, Flying
  <2>4. Failures'
    BY <1>13 DEF NoApproval, Go, Rest, driver, signals, closures, TypeOK, Traces, Trace, Flights, Flying, Failures
  <2> QED
    BY <2>1, <2>2, <2>3, <2>4
<1>14. ASSUME NEW j \in Jobs, Enter(j) PROVE Inv'
  <2>1. TypeOK'
    BY <1>14 DEF Enter, Decide, Go, Interrupted, Rest, driver, signals, closures, TypeOK
  <2>2. Traces'
    BY <1>14 DEF Enter, Decide, Go, Interrupted, Rest, driver, signals, closures, TypeOK, Traces, Trace, Decided
  <2>3. Flights'
    BY <1>14 DEF Enter, Decide, Go, Interrupted, Rest, driver, signals, closures, TypeOK, Flights, Flying
  <2>4. Failures'
    BY <1>14 DEF Enter, Decide, Go, Interrupted, Rest, driver, signals, closures, TypeOK, Traces, Trace, Flights, Flying, Failures
  <2> QED
    BY <2>1, <2>2, <2>3, <2>4
<1>15. ASSUME NEW j \in Jobs, BodyEnds(j) PROVE Inv'
  <2>1. TypeOK'
    BY <1>15 DEF BodyEnds, Decide, Go, Rest, driver, signals, closures, TypeOK
  <2>2. Traces'
    BY <1>15 DEF BodyEnds, Decide, Go, Rest, driver, signals, closures, TypeOK, Traces, Trace, Decided
  <2>3. Flights'
    BY <1>15 DEF BodyEnds, Decide, Go, Rest, driver, signals, closures, TypeOK, Flights, Flying
  <2>4. Failures'
    BY <1>15 DEF BodyEnds, Decide, Go, Rest, driver, signals, closures, TypeOK, Traces, Trace, Flights, Flying, Failures
  <2> QED
    BY <2>1, <2>2, <2>3, <2>4
<1>16. ASSUME NEW j \in Jobs, Settle(j) PROVE Inv'
  <2>1. TypeOK'
    BY <1>16 DEF Settle, Go, Rest, driver, signals, closures, TypeOK
  <2>2. Traces'
    BY <1>16 DEF Settle, Go, Rest, driver, signals, closures, TypeOK, Traces, Trace, Decided
  <2>3. Flights'
    BY <1>16 DEF Settle, Go, Rest, driver, signals, closures, TypeOK, Flights, Flying
  <2>4. Failures'
    BY <1>16 DEF Settle, Go, Rest, driver, signals, closures, TypeOK, Traces, Trace, Flights, Flying, Failures
  <2> QED
    BY <2>1, <2>2, <2>3, <2>4
<1>17. ASSUME NEW j \in Jobs, RecordResult(j) PROVE Inv'
  <2>1. TypeOK'
    <3>1. log' = log \/ log' = [log EXCEPT ![j] = @ \cup {"result"}]
      BY <1>17 DEF RecordResult
    <3>2. log' \in [Jobs -> SUBSET {"call", "result"}]
      BY <3>1 DEF TypeOK
    <3>3. budgetStopped' = budgetStopped \/ budgetStopped' = [budgetStopped EXCEPT ![TurnOf[j]] = TRUE]
      BY <1>17 DEF RecordResult
    <3>4. budgetStopped' \in [Turns -> BOOLEAN]
      BY <3>3 DEF TypeOK
    <3>5. /\ at' \in [Jobs -> {"none", "call", "refused", "record", "check", "guard", "approve", "ready",
                              "body", "settle", "result", "close", "done"}]
          /\ reservation' \in [Jobs -> {"none", "reserved", "started", "settled", "returned"}]
          /\ failed' \subseteq Jobs
      BY <1>17 DEF RecordResult, Go, Returned, TypeOK
    <3> QED
      BY <1>17, <3>2, <3>4, <3>5 DEF RecordResult, Rest, driver, signals, closures, TypeOK
  <2>2. Traces'
    BY <1>17 DEF RecordResult, Go, Rest, driver, signals, closures, TypeOK, Traces, Trace, Decided
  <2>3. Flights'
    BY <1>17 DEF RecordResult, Go, Rest, driver, signals, closures, TypeOK, Flights, Flying
  <2>4. Failures'
    BY <1>17 DEF RecordResult, Go, Rest, driver, signals, closures, TypeOK, Traces, Trace, Flights, Flying, Failures
  <2> QED
    BY <2>1, <2>2, <2>3, <2>4
<1>18. ASSUME NEW j \in Jobs, Close(j) PROVE Inv'
  <2>1. IsFiniteSet(jobs') /\ Cardinality(jobs') <= MaxInFlight
    <3>1. jobs' = jobs \ {j}
      BY <1>18 DEF Close, Complete
    <3>2. IsFiniteSet(jobs) /\ Cardinality(jobs) \in Nat /\ Cardinality(jobs) <= MaxInFlight
      BY FS_CardinalityType DEF TypeOK, Flights
    <3>3. /\ IsFiniteSet(jobs \ {j})
          /\ Cardinality(jobs \ {j}) = IF j \in jobs THEN Cardinality(jobs) - 1 ELSE Cardinality(jobs)
      BY <3>2, FS_RemoveElement
    <3> QED
      BY <3>1, <3>2, <3>3
  <2>2. TypeOK'
    BY <1>18, <2>1 DEF Close, Complete, driver, signals, closures, TypeOK
  <2>3. Traces'
    BY <1>18, <2>1 DEF Close, Complete, driver, signals, closures, TypeOK, Traces, Trace, Decided
  <2>4. Flights'
    BY <1>18, <2>1 DEF Close, Complete, driver, signals, closures, TypeOK, Flights, Flying
  <2>5. Failures'
    <3>1. j \in jobs /\ TurnOf[j] \in Turns /\ finisher[TurnOf[j]] \notin {"take", "done"}
      <4>1. at[j] \in Flying
        BY <1>18 DEF Close, Flying
      <4>2. j \in jobs
        BY <4>1 DEF Flights
      <4> QED
        BY <4>2 DEF Flights
    <3>2. /\ at' = [at EXCEPT ![j] = "done"] /\ UNCHANGED <<finisher, told>>
          /\ failed' \in {failed, failed \cup {j}}
          /\ unack' = IF j \in failed' THEN unack \cup {j} ELSE unack
          /\ ledger' = IF j \in failed' THEN [ledger EXCEPT ![TurnOf[j]] = @ \cup {j}] ELSE ledger
      BY <1>18 DEF Close, Complete, closures
    <3>3. ASSUME NEW i \in failed', at'[i] = "done", i # j
          PROVE  /\ i \in unack' \cup told' /\ i \in ledger'[TurnOf[i]] \cup told'
                 /\ finisher'[TurnOf[i]] \in {"take", "done"} => i \in told'
      <4>1. i \in failed /\ at[i] = "done" /\ i \in Jobs
        BY <3>2, <3>3 DEF TypeOK
      <4>2. ledger[TurnOf[i]] \subseteq ledger'[TurnOf[i]]
        BY <3>1, <3>2, <4>1 DEF TypeOK
      <4> QED
        BY <3>2, <4>1, <4>2 DEF Failures
    <3>4. ASSUME j \in failed'
          PROVE  j \in unack' /\ j \in ledger'[TurnOf[j]] /\ finisher'[TurnOf[j]] \notin {"take", "done"}
      BY <3>1, <3>2, <3>4 DEF TypeOK
    <3> QED
      BY <3>3, <3>4 DEF Failures
  <2> QED
    BY <2>2, <2>3, <2>4, <2>5
<1>19. ASSUME NEW j \in Jobs, Unwind(j) PROVE Inv'
  <2>1. IsFiniteSet(jobs') /\ Cardinality(jobs') <= MaxInFlight
    <3>1. jobs' = jobs \ {j}
      BY <1>19 DEF Unwind, Complete
    <3>2. IsFiniteSet(jobs) /\ Cardinality(jobs) \in Nat /\ Cardinality(jobs) <= MaxInFlight
      BY FS_CardinalityType DEF TypeOK, Flights
    <3>3. /\ IsFiniteSet(jobs \ {j})
          /\ Cardinality(jobs \ {j}) = IF j \in jobs THEN Cardinality(jobs) - 1 ELSE Cardinality(jobs)
      BY <3>2, FS_RemoveElement
    <3> QED
      BY <3>1, <3>2, <3>3
  <2>2. TypeOK'
    BY <1>19, <2>1 DEF Unwind, Complete, driver, signals, closures, TypeOK
  <2>3. Traces'
    BY <1>19, <2>1 DEF Unwind, Complete, driver, signals, closures, TypeOK, Traces, Trace, Decided
  <2>4. Flights'
    BY <1>19, <2>1 DEF Unwind, Complete, driver, signals, closures, TypeOK, Flights, Flying
  <2>5. Failures'
    <3>1. j \in jobs /\ TurnOf[j] \in Turns /\ finisher[TurnOf[j]] \notin {"take", "done"}
      <4>1. at[j] \in Flying
        BY <1>19 DEF Unwind, Flying
      <4>2. j \in jobs
        BY <4>1 DEF Flights
      <4> QED
        BY <4>2 DEF Flights
    <3>2. /\ at' = [at EXCEPT ![j] = "done"] /\ UNCHANGED <<finisher, told>>
          /\ failed' \in {failed, failed \cup {j}}
          /\ unack' = IF j \in failed' THEN unack \cup {j} ELSE unack
          /\ ledger' = IF j \in failed' THEN [ledger EXCEPT ![TurnOf[j]] = @ \cup {j}] ELSE ledger
      BY <1>19 DEF Unwind, Complete, closures
    <3>3. ASSUME NEW i \in failed', at'[i] = "done", i # j
          PROVE  /\ i \in unack' \cup told' /\ i \in ledger'[TurnOf[i]] \cup told'
                 /\ finisher'[TurnOf[i]] \in {"take", "done"} => i \in told'
      <4>1. i \in failed /\ at[i] = "done" /\ i \in Jobs
        BY <3>2, <3>3 DEF TypeOK
      <4>2. ledger[TurnOf[i]] \subseteq ledger'[TurnOf[i]]
        BY <3>1, <3>2, <4>1 DEF TypeOK
      <4> QED
        BY <3>2, <4>1, <4>2 DEF Failures
    <3>4. ASSUME j \in failed'
          PROVE  j \in unack' /\ j \in ledger'[TurnOf[j]] /\ finisher'[TurnOf[j]] \notin {"take", "done"}
      BY <3>1, <3>2, <3>4 DEF TypeOK
    <3> QED
      BY <3>3, <3>4 DEF Failures
  <2> QED
    BY <2>2, <2>3, <2>4, <2>5
<1>20. ASSUME NEW t \in Turns, NEW mode \in {"Graceful", "Cancel"}, FinishBegin(t, mode) PROVE Inv'
  <2>1. TypeOK'
    BY <1>20 DEF FinishBegin, driver, signals, closures, TypeOK
  <2>2. Traces'
    BY <1>20 DEF FinishBegin, driver, signals, closures, TypeOK, Traces, Trace, Decided
  <2>3. Flights'
    BY <1>20 DEF FinishBegin, driver, signals, closures, TypeOK, Flights, Flying, JobsOf
  <2>4. Failures'
    BY <1>20 DEF FinishBegin, driver, signals, closures, TypeOK, Traces, Trace, Flights, Flying, Failures, JobsOf
  <2> QED
    BY <2>1, <2>2, <2>3, <2>4
<1>21. ASSUME NEW t \in Turns, Finish(t) PROVE Inv'
  <2>1. TypeOK'
    BY <1>21 DEF Finish, driver, signals, closures, TypeOK
  <2>2. Traces'
    BY <1>21 DEF Finish, driver, signals, closures, TypeOK, Traces, Trace, Decided
  <2>3. Flights'
    BY <1>21 DEF Finish, driver, signals, closures, TypeOK, Flights, Flying, JobsOf
  <2>4. Failures'
    BY <1>21 DEF Finish, driver, signals, closures, TypeOK, Traces, Trace, Flights, Flying, Failures, JobsOf
  <2> QED
    BY <2>1, <2>2, <2>3, <2>4
<1>22. ASSUME NEW t \in Turns, FinishDrop(t) PROVE Inv'
  <2>1. TypeOK'
    BY <1>22 DEF FinishDrop, driver, signals, closures, TypeOK
  <2>2. Traces'
    BY <1>22 DEF FinishDrop, driver, signals, closures, TypeOK, Traces, Trace, Decided
  <2>3. Flights'
    BY <1>22 DEF FinishDrop, driver, signals, closures, TypeOK, Flights, Flying, JobsOf
  <2>4. Failures'
    BY <1>22 DEF FinishDrop, driver, signals, closures, TypeOK, Traces, Trace, Flights, Flying, Failures, JobsOf
  <2> QED
    BY <2>1, <2>2, <2>3, <2>4
<1>23. CASE StopBegin
  <2>1. TypeOK'
    BY <1>23 DEF StopBegin, driver, signals, closures, TypeOK
  <2>2. Traces'
    BY <1>23 DEF StopBegin, driver, signals, closures, TypeOK, Traces, Trace, Decided
  <2>3. Flights'
    BY <1>23 DEF StopBegin, driver, signals, closures, TypeOK, Flights, Flying
  <2>4. Failures'
    BY <1>23 DEF StopBegin, driver, signals, closures, TypeOK, Traces, Trace, Flights, Flying, Failures
  <2> QED
    BY <2>1, <2>2, <2>3, <2>4
<1>24. CASE Stop
  <2>1. TypeOK'
    BY <1>24 DEF Stop, driver, signals, closures, TypeOK
  <2>2. Traces'
    BY <1>24 DEF Stop, driver, signals, closures, TypeOK, Traces, Trace, Decided
  <2>3. Flights'
    BY <1>24 DEF Stop, driver, signals, closures, TypeOK, Flights, Flying
  <2>4. Failures'
    BY <1>24 DEF Stop, driver, signals, closures, TypeOK, Traces, Trace, Flights, Flying, Failures
  <2> QED
    BY <2>1, <2>2, <2>3, <2>4
<1> QED
  BY <1>1, <1>2, <1>3, <1>4, <1>5, <1>6, <1>7, <1>8, <1>9, <1>10, <1>11, <1>12, <1>13, <1>14, <1>15, <1>16, <1>17, <1>18, <1>19, <1>20, <1>21, <1>22, <1>23, <1>24 DEF Next, Driver

\* The invariant holds throughout.
LEMMA InvHolds == Spec => []Inv
  BY InitInv, StepInv, PTL DEF Spec

\* Every state has its types, and never more calls than max_in_flight are in flight.
THEOREM TypesCorrect == Spec => []TypeOK
<1>1. Inv => TypeOK
  BY TurnOfAssumption DEF Inv
<1> QED
  BY InvHolds, <1>1, PTL

\* No body is entered before its Call is durable, whatever fails or is lost.
THEOREM CallIsDurable == Spec => []DurableBeforeBody
<1>1. Inv => DurableBeforeBody
  BY TurnOfAssumption DEF Inv, TypeOK, Traces, Trace, DurableBeforeBody
<1> QED
  BY InvHolds, <1>1, PTL

\* A recorded refusal was not executed.
THEOREM RefusedDidNotRun == Spec => []RefusedNeverRan
<1>1. Inv => RefusedNeverRan
  BY TurnOfAssumption DEF Inv, Traces, Decided, RefusedNeverRan
<1> QED
  BY InvHolds, <1>1, PTL

\* What was entered stays charged, wherever its driver is lost.
THEOREM EnteredStaysCharged == Spec => []EnteredIsCharged
<1>1. Inv => EnteredIsCharged
  BY TurnOfAssumption DEF Inv, TypeOK, Traces, Trace, EnteredIsCharged
<1> QED
  BY InvHolds, <1>1, PTL

\* A turn whose finish has drained has nothing running or reserved.
THEOREM DrainedIsQuiet == Spec => []TurnQuiet
<1>1. Inv => TurnQuiet
  <2> SUFFICES ASSUME Inv, NEW t \in Turns, finisher[t] \in {"take", "done"}, NEW j \in JobsOf(t)
               PROVE  /\ at[j] \in {"none", "call", "refused", "done"}
                      /\ reservation[j] \in {"none", "settled", "returned"}
    BY DEF TurnQuiet
  <2>1. j \in Jobs /\ TurnOf[j] = t /\ Trace(j)
    BY DEF JobsOf, Inv, Traces
  <2>2. at[j] \notin Flying
    <3>1. j \notin jobs
      BY <2>1 DEF Inv, Flights
    <3> QED
      BY <2>1, <3>1 DEF Inv, Flights
  <2>3. at[j] \in {"none", "call", "refused", "done"}
    BY <2>1, <2>2 DEF Inv, TypeOK, Flying
  <2> QED
    BY <2>1, <2>3 DEF Trace
<1> QED
  BY InvHolds, <1>1, PTL

\* A finish that names no failure of a call vouches for both its records.
THEOREM FinishIsTruthful == Spec => []FinishTruthful
<1>1. Inv => FinishTruthful
  BY TurnOfAssumption DEF Inv, TypeOK, Traces, Trace, Failures, JobsOf, FinishTruthful
<1> QED
  BY InvHolds, <1>1, PTL

\* No closure failure is lost between drivers, finish and stop.
THEOREM FailuresAreKept == Spec => []FailureKept
<1>1. Inv => FailureKept
  BY TurnOfAssumption DEF Inv, Failures, FailureKept
<1> QED
  BY InvHolds, <1>1, PTL

\* A body that ran is in the log and in the ledger, for any number of calls.
THEOREM BodiesAccounted == Spec => []BodyAccounted
<1>1. TypeOK => Cardinality(jobs) <= MaxInFlight
  BY DEF TypeOK
<1> QED
  BY TypesCorrect, CallIsDurable, RefusedDidNotRun, EnteredStaysCharged, <1>1, PTL
  DEF BodyAccounted

\* What finish and stop say of their calls is so, for any number of turns.
THEOREM ClosuresTruthful == Spec => []ClosureTruthful
  BY DrainedIsQuiet, FinishIsTruthful, FailuresAreKept, PTL DEF ClosureTruthful

-----------------------------------------------------------------------------
(***************************************************************************)
(* The attempts of one operation (ToolRecovery), for any effect, any       *)
(* number of attempts and of holders of a plan.                            *)
(***************************************************************************)
\* What was refused was not entered, and a plan not yet taken is for the latest
\* attempt.
Latest ==
  /\ \A i \in DOMAIN history : history[i].result = "refused" => i \notin ran
  /\ ~plan.consumed => plan.source = Len(history)

\* Of a tool that must not be repeated only the latest attempt may run or have
\* run, and while a plan may make another one none does or has.
LastOnly ==
  effect \in {"NonIdempotent", "Unknown"} =>
    /\ running \cup ran \subseteq {Len(history)}
    /\ ~plan.consumed => running \cup ran = {}

RecoveryInv == RecoveryTypeOK /\ Valid(history) /\ Latest /\ LastOnly

\* The attempts of a history have their type.
LEMMA AttemptIn ==
  ASSUME NEW S, NEW s \in Seq(S), NEW i \in DOMAIN s
  PROVE  s[i] \in S
OBVIOUS

\* The first attempt.
LEMMA RecoveryBegins == RecoveryInit => RecoveryInv
<1> SUFFICES ASSUME RecoveryInit PROVE RecoveryInv
  OBVIOUS
<1>1. /\ history = <<[retry |-> 0, result |-> "none"]>> /\ DOMAIN history = {1} /\ Len(history) = 1
      /\ history[1] = [retry |-> 0, result |-> "none"]
  BY DEF RecoveryInit
<1>2. history \in Seq([retry : 0 .. MaxAttempts, result : Results])
  BY <1>1, AttemptsAssumption DEF Results
<1>3. RecoveryTypeOK
  BY <1>1, <1>2, AttemptsAssumption DEF RecoveryInit, RecoveryTypeOK, NoPlan
<1>4. Valid(history) /\ Latest /\ LastOnly
  BY <1>1 DEF RecoveryInit, Valid, Latest, LastOnly, NoPlan
<1> QED
  BY <1>3, <1>4 DEF RecoveryInv

\* A plan is prepared of the latest attempt, which was refused, or nothing has run.
LEMMA PrepareSound ==
  ASSUME RecoveryInv, NEW clones \in SUBSET Takers, Prepare(clones), UNCHANGED effect
  PROVE  RecoveryInv'
<1>1. PICK i \in DOMAIN history, reviewed \in BOOLEAN :
        /\ Retryable(i, reviewed)
        /\ reviewed => running = {} /\ ran = {}
        /\ plan' = [source |-> i, consumed |-> FALSE] /\ offers' = clones
        /\ UNCHANGED <<history, running, ran>>
  BY DEF Prepare
<1>2. /\ history \in Seq([retry : 0 .. MaxAttempts, result : Results])
      /\ Len(history) \in 1 .. MaxAttempts /\ i = Len(history) /\ MaxAttempts \in Nat
  BY <1>1, AttemptsAssumption DEF RecoveryInv, RecoveryTypeOK, Retryable
<1>3. RecoveryTypeOK'
  BY <1>1, <1>2 DEF RecoveryInv, RecoveryTypeOK
<1>4. Valid(history)' /\ Latest'
  BY <1>1, <1>2 DEF RecoveryInv, Valid, Latest
<1>5. LastOnly'
  <2> SUFFICES ASSUME effect \in {"NonIdempotent", "Unknown"}
               PROVE  running \cup ran \subseteq {Len(history)} /\ running \cup ran = {}
    BY <1>1 DEF LastOnly
  <2>1. running \cup ran \subseteq {i}
    BY <1>2 DEF RecoveryInv, LastOnly
  <2>2. history[i].result = "refused" => i \notin running /\ i \notin ran
    BY <1>1 DEF RecoveryInv, RecoveryTypeOK, Latest
  <2>3. history[i].result = "refused" \/ (running = {} /\ ran = {})
    BY <1>1 DEF Retryable, NotExecuted
  <2> QED
    BY <1>2, <2>1, <2>2, <2>3
<1> QED
  BY <1>3, <1>4, <1>5 DEF RecoveryInv

\* A clone makes the next attempt once, or spends the plan.
LEMMA TakeSound ==
  ASSUME RecoveryInv, NEW t \in Takers, Take(t), UNCHANGED effect
  PROVE  RecoveryInv'
<1>1. /\ history \in Seq([retry : 0 .. MaxAttempts, result : Results])
      /\ Len(history) \in 1 .. MaxAttempts /\ MaxAttempts \in Nat
      /\ plan \in [source : 0 .. MaxAttempts, consumed : BOOLEAN] /\ DOMAIN history = 1 .. Len(history)
  BY AttemptsAssumption DEF RecoveryInv, RecoveryTypeOK
<1>2. plan' \in [source : 0 .. MaxAttempts, consumed : BOOLEAN] /\ plan'.consumed
  BY <1>1 DEF Take
<1>3. CASE UNCHANGED <<history, running>>
  BY <1>2, <1>3 DEF Take, RecoveryInv, RecoveryTypeOK, Valid, Latest, LastOnly
<1>4. CASE /\ ~plan.consumed /\ Len(history) < MaxAttempts
           /\ history' = Append(history, [retry |-> plan.source, result |-> "none"])
           /\ running' = running \cup {Len(history')}
  <2> DEFINE x == [retry |-> plan.source, result |-> "none"]
  <2>1. x \in [retry : 0 .. MaxAttempts, result : Results] /\ x.retry = Len(history) /\ x.result = "none"
    BY <1>1, <1>4 DEF Results, RecoveryInv, Latest
  <2>2. history' = Append(history, x)
    BY <1>4
  <2> HIDE DEF x
  <2>3. /\ history' \in Seq([retry : 0 .. MaxAttempts, result : Results])
        /\ Len(history') = Len(history) + 1 /\ DOMAIN history' = 1 .. Len(history) + 1
        /\ \A k \in DOMAIN history : history'[k] = history[k]
        /\ history'[Len(history) + 1] = x
    BY <1>1, <2>1, <2>2
  <2>4. ran' = ran /\ offers' \subseteq Takers
    BY DEF Take, RecoveryInv, RecoveryTypeOK
  <2>5. RecoveryTypeOK'
    BY <1>1, <1>2, <1>4, <2>1, <2>3, <2>4 DEF RecoveryInv, RecoveryTypeOK
  <2>6. \A k \in DOMAIN history' : k \in DOMAIN history \/ (k = Len(history) + 1 /\ history'[k] = x)
    BY <1>1, <2>3
  <2>7. Valid(history)'
    <3>1. \A k \in DOMAIN history' : history'[k].retry = k - 1
      <4> TAKE k \in DOMAIN history'
      <4>1. CASE k \in DOMAIN history
        BY <4>1, <2>3 DEF RecoveryInv, Valid
      <4>2. CASE k = Len(history) + 1 /\ history'[k] = x
        BY <4>2, <1>1, <2>1
      <4> QED
        BY <4>1, <4>2, <2>6
    <3> QED
      BY <3>1 DEF Valid
  <2>8. Latest'
    <3>1. \A k \in DOMAIN history' : history'[k].result = "refused" => k \notin ran'
      BY <2>1, <2>3, <2>4, <2>6 DEF RecoveryInv, Latest
    <3> QED
      BY <3>1, <1>2 DEF Latest
  <2>9. LastOnly'
    BY <1>2, <1>4, <2>4 DEF RecoveryInv, LastOnly
  <2> QED
    BY <2>5, <2>7, <2>8, <2>9 DEF RecoveryInv
<1> QED
  BY <1>3, <1>4 DEF Take

\* The driver of an attempt enters its body, or ends; the process may die.
LEMMA AttemptSound ==
  ASSUME RecoveryInv, (\E i \in DOMAIN history : EnterBody(i) \/ End(i)) \/ Crash, UNCHANGED effect
  PROVE  RecoveryInv'
<1>1. /\ history \in Seq([retry : 0 .. MaxAttempts, result : Results])
      /\ DOMAIN history = 1 .. Len(history)
  BY DEF RecoveryInv, RecoveryTypeOK
<1>2. ASSUME NEW i \in DOMAIN history, EnterBody(i) PROVE RecoveryInv'
  <2>1. history[i].result = "none"
    BY <1>2 DEF EnterBody, RecoveryInv, RecoveryTypeOK
  <2> QED
    BY <1>2, <2>1 DEF EnterBody, RecoveryInv, RecoveryTypeOK, Valid, Latest, LastOnly
<1>3. ASSUME NEW i \in DOMAIN history, End(i) PROVE RecoveryInv'
  <2>1. PICK r \in Results : /\ r = "refused" => i \notin ran
                             /\ history' = [history EXCEPT ![i].result = r]
    BY <1>3 DEF End
  <2>2. history[i] \in [retry : 0 .. MaxAttempts, result : Results]
    BY <1>1, <1>3, AttemptIn
  <2> DEFINE x == [history[i] EXCEPT !.result = r]
  <2>3. /\ x \in [retry : 0 .. MaxAttempts, result : Results] /\ x.retry = history[i].retry
        /\ x.result = r
    BY <2>2
  <2>4. history' = [history EXCEPT ![i] = x]
    BY <2>1
  <2> HIDE DEF x
  <2>5. /\ history' \in Seq([retry : 0 .. MaxAttempts, result : Results])
        /\ Len(history') = Len(history) /\ DOMAIN history' = DOMAIN history
        /\ history'[i] = x /\ \A k \in DOMAIN history \ {i} : history'[k] = history[k]
    BY <1>1, <1>3, <2>3, <2>4
  <2>6. running' = running \ {i} /\ UNCHANGED <<ran, plan, offers>>
    BY <1>3 DEF End
  <2>7. RecoveryTypeOK'
    BY <2>5, <2>6 DEF RecoveryInv, RecoveryTypeOK
  <2>8. Valid(history)' /\ Latest' /\ LastOnly'
    BY <2>1, <2>3, <2>5, <2>6 DEF RecoveryInv, Valid, Latest, LastOnly
  <2> QED
    BY <2>7, <2>8 DEF RecoveryInv
<1>4. CASE Crash
  <2>1. /\ running' = {} /\ offers' = {} /\ UNCHANGED <<history, ran, effect>>
        /\ plan' = NoPlan /\ plan'.consumed
    BY <1>4 DEF Crash, NoPlan
  <2>2. NoPlan \in [source : 0 .. MaxAttempts, consumed : BOOLEAN]
    BY AttemptsAssumption DEF NoPlan
  <2>3. RecoveryTypeOK'
    BY <2>1, <2>2 DEF RecoveryInv, RecoveryTypeOK
  <2>4. Valid(history)' /\ Latest' /\ LastOnly'
    BY <2>1 DEF RecoveryInv, Valid, Latest, LastOnly
  <2> QED
    BY <2>3, <2>4 DEF RecoveryInv
<1> QED
  BY <1>2, <1>3, <1>4

\* The invariant holds in every state.
LEMMA RecoveryInvariance == RecoverySpec => []RecoveryInv
<1>1. RecoveryInv /\ [RecoveryNext]_recoveryVars => RecoveryInv'
  <2> SUFFICES ASSUME RecoveryInv, [RecoveryNext]_recoveryVars PROVE RecoveryInv'
    OBVIOUS
  <2>1. CASE UNCHANGED recoveryVars
    BY <2>1 DEF recoveryVars, RecoveryInv, RecoveryTypeOK, Valid, Latest, LastOnly
  <2>2. CASE RecoveryNext
    BY <2>2, PrepareSound, TakeSound, AttemptSound DEF RecoveryNext
  <2> QED
    BY <2>1, <2>2
<1> QED
  BY <1>1, RecoveryBegins, PTL DEF RecoverySpec

\* A tool whose effect must not be repeated is entered at most once over all
\* attempts of the operation, and the history stays one that recovery accepts,
\* through lost results, crashes and clones of one plan.
THEOREM AttemptsAreSound == RecoverySpec => []AttemptsSound
<1>1. RecoveryInv => AttemptsSound
  <2> SUFFICES ASSUME RecoveryInv PROVE AttemptsSound
    OBVIOUS
  <2>1. ASSUME effect \in {"NonIdempotent", "Unknown"} PROVE Cardinality(ran) <= 1
    <3>1. ran \subseteq {Len(history)}
      BY <2>1 DEF RecoveryInv, LastOnly
    <3>2. Cardinality(ran) = 0 \/ Cardinality(ran) = 1
      <4>1. CASE ran = {}
        BY <4>1, FS_EmptySet
      <4>2. CASE ran = {Len(history)}
        BY <4>2, FS_Singleton
      <4> QED
        BY <3>1, <4>1, <4>2
    <3> QED
      BY <3>2
  <2> QED
    BY <2>1 DEF RecoveryInv, AttemptsSound, EnteredOnce, HistoryUsable
<1> QED
  BY <1>1, RecoveryInvariance, PTL
=============================================================================
