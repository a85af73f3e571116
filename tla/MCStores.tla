------------------------------ MODULE MCStores ------------------------------
(***************************************************************************)
(* The file stores for TLC: JsonlPersistence and CheckpointFile, which     *)
(* share no file in the program and here only the names of their           *)
(* variables.  scenario tells what a behaviour is about:                   *)
(*   jsonl     two providers of a Session, crashes and lost power          *)
(*   recovery  a provider that stops, and a recovery owner                 *)
(*   file      two stores on a checkpoint file, crashes and lost power     *)
(*   close     a checkpoint store at its limit that is closed              *)
(***************************************************************************)
EXTENDS JsonlPersistence

CONSTANTS p1, p2, q1, q2, j1, j2, j3

VARIABLES lock, store, closer, scenario

\* Two events in a row, and one that takes the place of the second.
Ev(id, seq) == [id |-> id, seq |-> seq]
MCEvents == {Ev("a", 0), Ev("b", 1), Ev("c", 1)}

Symmetry == Permutations({p1, p2}) \cup Permutations({j1, j2})

\* One identifier, twice.
Reused == {Ev("a", 0), Ev("a", 1)}
Live == {q1, q2}
Stops == {q1}
Recovers == {q2}
LiveFaults == {"io", "sync", "join"}
Owned == INSTANCE JsonlPersistence WITH
  Providers <- Live, Stoppable <- Stops, Recovery <- Recovers, Events <- Reused,
  Faults <- LiveFaults

\* Two candidates for the first revision, one for the second.
Candidates == {Ev("a", 0), Ev("b", 0), Ev("c", 1)}
Pair == {p1, p2}
NoCloser == {}
File == INSTANCE CheckpointFile WITH
  Stores <- Pair, Closers <- NoCloser, Records <- Candidates, MaxJobs <- 2,
  MaxRecords <- 2, Faults <- AllFaults

Single == {q1}
Three == {j1, j2, j3}
OneRecord == {Ev("a", 0)}
Closer == {"k"}
CloseFaults == {"write", "sync", "join"}
Closing == INSTANCE CheckpointFile WITH
  Stores <- Single, Jobs <- Three, Closers <- Closer, Records <- OneRecord,
  MaxJobs <- 2, MaxRecords <- 1, Faults <- CloseFaults

ASSUME File!NamesAssumption /\ File!RecordsAssumption /\ File!FaultsAssumption /\ File!BoundsAssumption
ASSUME Closing!NamesAssumption /\ Closing!RecordsAssumption /\ Closing!FaultsAssumption
       /\ Closing!BoundsAssumption

NoFile == lock = None /\ store = <<>> /\ closer = <<>>
NoSession == owner = None /\ prov = <<>>

MCInit == \/ scenario = "jsonl" /\ Init /\ NoFile
          \/ scenario = "recovery" /\ Owned!Init /\ NoFile
          \/ scenario = "file" /\ File!Init /\ NoSession
          \/ scenario = "close" /\ Closing!Init /\ NoSession

MCNext ==
  /\ \/ scenario = "jsonl" /\ Next /\ UNCHANGED <<lock, store, closer>>
     \/ scenario = "recovery" /\ Owned!Next /\ UNCHANGED <<lock, store, closer>>
     \/ scenario = "file" /\ File!Next /\ UNCHANGED <<owner, prov>>
     \/ scenario = "close" /\ Closing!Next /\ UNCHANGED <<owner, prov>>
  /\ UNCHANGED scenario

MCSpec == MCInit /\ [][MCNext]_<<vars, lock, store, closer, scenario>>

\* A provider that has stopped and a store that has closed run nothing any more,
\* whatever callers cancelled and however the call raced with admissions, and
\* nobody waits for a wakeup that has been.
StopsAndCloses ==
  /\ scenario = "jsonl" => TypeOK
  /\ scenario = "recovery" => Owned!TypeOK /\ Owned!StopsClean
  /\ scenario = "file" => File!TypeOK
  /\ scenario = "close" => Closing!TypeOK /\ Closing!ClosesClean

\* A failed commit shuts its provider out of the file until a sync covers it,
\* and nothing writes while a recovery owner holds the Session.
LatchAndIsolation ==
  [][/\ scenario = "jsonl" => LatchStands
     /\ scenario = "recovery" => Owned!LatchStands /\ Owned!Isolated]_<<vars, scenario>>
=============================================================================
