------------------------ MODULE MCSessionCoordinator ------------------------
(***************************************************************************)
(* SessionCoordinator for TLC.                                             *)
(***************************************************************************)
EXTENDS SessionCoordinator

CONSTANTS c1, c2, e1, e2, old

MCDrafts == {[id |-> e1, kind |-> "delta"], [id |-> e2, kind |-> "done"]}

\* A draft whose identifier is reused with another content.
MCConflicting == MCDrafts \cup {[id |-> e1, kind |-> "done"]}

\* A fresh Session, and one an earlier runtime wrote a whole turn to.
MCEmpty == {<<>>}
MCInitialLogs == {<<>>, <<[id |-> old, kind |-> "done", turn |-> 0, seq |-> 0]>>}

\* A storage whose loads are final, and one that may complete a write after the
\* load that looked for it.
MCSoundStorage == {{"definite", "indeterminate"}}
MCStorages == {{"definite", "indeterminate", "unreadable"}, AllFaults}

MCCallers == {c1, c2}
MCEventIds == {e1, e2, old}
Symmetry == Permutations(MCCallers)

MCInit == Init /\ (Sound \/ durable = <<>>)

MCSpec == MCInit /\ [][Next]_vars

\* Bound: with a storage that is not sound the Session is fresh, its callers use
\* MCDrafts, and nothing is sent behind a command that waits.
Narrow ==
  Sound \/ /\ \A m \in ToSet(mailbox') : m.draft \in MCDrafts \cup {None}
           /\ \A c \in Callers : pc[c] # pc'[c] /\ pc'[c] \in {"begin", "append"} => mailbox \o pending = <<>>

\* Calls go on for as long as their callers like; whoever settles or drops its
\* turn in the end is a fair caller.
LiveSpec == Spec /\ FairCoordinator /\ FairShutdown

\* Among fair callers every Begin is answered or cancelled, whoever holds the
\* lease before it.
FairlyAnswered == FairCallers => BeginAnswered
=============================================================================
