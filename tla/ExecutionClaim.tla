--------------------------- MODULE ExecutionClaim ---------------------------
(***************************************************************************)
(* What the durable execution claim of a Task promises, whoever executes:  *)
(* a turn runs under a claim no execution held before, a claim covers at   *)
(* most one turn, and it is released only with that turn accounted for.    *)
(***************************************************************************)
EXTENDS Naturals, FiniteSets

CONSTANT Ids   \* BudgetExecutionIds

VARIABLES
  claim,   \* the identifier of the unfinished execution, 0 if there is none
  past,    \* the identifiers that were ever claimed
  turns,   \* closed turns in the Session's log
  paid     \* those among them the ready image accounts for

vars == <<claim, past, turns, paid>>

Init == claim = 0 /\ past = {} /\ turns = 0 /\ paid = 0

Claim(id) ==
  /\ claim = 0 /\ paid = turns /\ id \notin past
  /\ claim' = id /\ past' = past \cup {id}
  /\ UNCHANGED <<turns, paid>>

Turn ==
  /\ claim # 0 /\ turns = paid
  /\ turns' = turns + 1
  /\ UNCHANGED <<claim, past, paid>>

Close ==
  /\ claim # 0 /\ turns = paid + 1
  /\ claim' = 0 /\ paid' = turns
  /\ UNCHANGED <<past, turns>>

Next == (\E id \in Ids : Claim(id)) \/ Turn \/ Close

Spec == Init /\ [][Next]_vars
=============================================================================
