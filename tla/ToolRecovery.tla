---------------------------- MODULE ToolRecovery ----------------------------
(***************************************************************************)
(* When a tool call may be made again (crates/tools/tool, recovery.rs).    *)
(* The attempts of one operation are in the confirmed history of its       *)
(* Session; a plan prepared from that history makes the next one.  What    *)
(* the tool has really done is known to nobody: the model keeps it in ran, *)
(* which no operator of the code reads.  What the runtime lets happen to   *)
(* one attempt is as in ToolRuntime: a refusal means that the body was     *)
(* never entered.                                                          *)
(***************************************************************************)
EXTENDS Naturals, Sequences, FiniteSets

CONSTANTS
  MaxAttempts,  \* bound on the history
  Takers        \* holders of clones of a plan

ASSUME AttemptsAssumption == MaxAttempts \in Nat \ {0}

VARIABLES
  effect,   \* ToolEffect of the tool, which nothing changes
  history,  \* the attempts: the one each retries, and its result
  running,  \* the attempts whose driver is alive
  ran,      \* the attempts whose body was entered
  plan,     \* the plan the host holds: its source and whether it is consumed
  offers    \* the takers that were given a clone and have not tried it

recoveryVars == <<effect, history, running, ran, plan, offers>>

Effects == {"ReadOnly", "Idempotent", "NonIdempotent", "Unknown"}

Results == {"none", "succeeded", "refused", "failed"}
NoPlan == [source |-> 0, consumed |-> TRUE]

RecoveryInit ==
  /\ effect \in Effects
  /\ history = <<[retry |-> 0, result |-> "none"]>> /\ running = {1} /\ ran = {}
  /\ plan = NoPlan /\ offers = {}

-----------------------------------------------------------------------------
(***************************************************************************)
(* Evidence and plans.                                                     *)
(***************************************************************************)
\* evidence accepts the history: every attempt but the first names the one before
\* as the one it retries.
Valid(attempts) == \A i \in DOMAIN attempts : attempts[i].retry = i - 1

\* Mutant: only a result that is known counts as executed.
NotExecutedLoosely(i) == history[i].result \notin {"succeeded", "failed"}

\* inspect_tool_recovery: the attempt was refused before its body.
NotExecuted(i) == history[i].result = "refused"

\* The attempt, or one before it, has succeeded.
Completed(i) == \E k \in 1 .. i : history[k].result = "succeeded"

\* prepare_tool_retry, of the latest attempt only.  A review that says that the
\* attempt was not executed stands in for the evidence.
Retryable(i, reviewed) ==
  /\ Valid(history) /\ i = Len(history) /\ ~Completed(i)
  /\ NotExecuted(i) \/ reviewed \/ effect \in {"ReadOnly", "Idempotent"}

-----------------------------------------------------------------------------
\* The host inspects fresh history under its ownership of the Session, gives up the
\* plan it held before and hands out clones of the new one.  It reviews an attempt
\* whose driver is gone, and says what is true of all of them.
Prepare(clones) ==
  \E i \in DOMAIN history, reviewed \in BOOLEAN :
    /\ Retryable(i, reviewed)
    /\ reviewed => running = {} /\ ran = {}
    /\ plan' = [source |-> i, consumed |-> FALSE] /\ offers' = clones
    /\ UNCHANGED <<history, running, ran>>

\* take_operation: the latch of all clones; and an admission that may still fail, in
\* which case the plan is spent.
Take(t) ==
  /\ t \in offers
  /\ offers' = offers \ {t} /\ plan' = [plan EXCEPT !.consumed = TRUE]
  /\ \/ /\ ~plan.consumed /\ Len(history) < MaxAttempts
        /\ history' = Append(history, [retry |-> plan.source, result |-> "none"])
        /\ running' = running \cup {Len(history')}
     \/ UNCHANGED <<history, running>>
  /\ UNCHANGED ran

\* The driver of an attempt: its body is entered, or the call ends; the Result of
\* what was entered is never a refusal, and may be lost.
EnterBody(i) ==
  /\ i \in running \ ran
  /\ ran' = ran \cup {i}
  /\ UNCHANGED <<history, running, plan, offers>>

End(i) ==
  /\ i \in running
  /\ running' = running \ {i}
  /\ \E r \in Results :
       /\ r = "refused" => i \notin ran
       /\ r = "succeeded" => i \in ran
       /\ history' = [history EXCEPT ![i].result = r]
  /\ UNCHANGED <<ran, plan, offers>>

\* The process dies; what it held in memory is gone.
Crash ==
  /\ running' = {} /\ plan' = NoPlan /\ offers' = {}
  /\ UNCHANGED <<history, ran>>

RecoveryNext ==
  /\ \/ \E clones \in SUBSET Takers : Prepare(clones)
     \/ \E t \in Takers : Take(t)
     \/ \E i \in DOMAIN history : EnterBody(i) \/ End(i)
     \/ Crash
  /\ UNCHANGED effect

RecoverySpec == RecoveryInit /\ [][RecoveryNext]_recoveryVars

-----------------------------------------------------------------------------
\* Types; a call whose driver is alive has no result yet.
RecoveryTypeOK ==
  /\ effect \in Effects
  /\ history \in Seq([retry : 0 .. MaxAttempts, result : Results])
  /\ \A i \in running : history[i].result = "none"
  /\ Len(history) \in 1 .. MaxAttempts
  /\ running \subseteq DOMAIN history /\ ran \subseteq DOMAIN history
  /\ plan \in [source : 0 .. MaxAttempts, consumed : BOOLEAN] /\ offers \subseteq Takers

\* A tool whose effect must not be repeated is entered once, over all attempts,
\* crashes and lost results, if the host reviews truthfully.
EnteredOnce == effect \in {"NonIdempotent", "Unknown"} => Cardinality(ran) <= 1

\* However many clones of a plan are tried, the history stays one that later
\* inspections accept: recovery does not lock itself out.
HistoryUsable == Valid(history)

\* The two together, with the types: what recovery says of the attempts of an
\* operation is so, whatever was lost.
AttemptsSound == RecoveryTypeOK /\ EnteredOnce /\ HistoryUsable
=============================================================================
