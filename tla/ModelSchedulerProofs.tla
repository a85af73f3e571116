------------------------ MODULE ModelSchedulerProofs ------------------------
(***************************************************************************)
(* Proofs about ModelScheduler, for any number of jobs and turns, any      *)
(* configuration, every signal and every fault: the slots and the queue    *)
(* through every release, what a job has left in the Session and in its    *)
(* budget, and what finish and stop return.                                *)
(***************************************************************************)
EXTENDS ModelScheduler, FiniteSetTheorems, WellFoundedInduction, TLAPS

-----------------------------------------------------------------------------
(***************************************************************************)
(* The invariant.                                                          *)
(***************************************************************************)
\* What a job has done, and what it holds, by the time it is where it is.
Trace(j) ==
  /\ at[j] = "none" => phase[j] = "none" /\ reservation[j] = "none" /\ recorded[j] = {}
  /\ at[j] \in {"record", "check", "asleep"} => phase[j] \in {"Queued", "Preparing", "Cleaning"}
  /\ at[j] \in {"detached", "result", "remove"} => phase[j] = "Cleaning"
  /\ at[j] \in {"preflight", "enter"} => phase[j] = "Preparing"
  /\ at[j] = "call" => phase[j] = "Executing"
  /\ at[j] \in {"settle", "close"} => phase[j] \notin {"none", "gone"}
  /\ at[j] = "done" => phase[j] = "gone"
  /\ at[j] = "call" => reservation[j] = "started"
  /\ at[j] \in {"remove", "done"} => reservation[j] = "settled"
  /\ at[j] \in {"check", "asleep", "preflight", "enter", "call", "settle", "result"} =>
       recorded[j] = {"request"}
  /\ at[j] \in {"close", "remove", "done"} => j \in failed \/ recorded[j] = {"request", "result"}
  /\ at[j] \in {"none", "record", "detached"} => j \notin failed

Traces == \A j \in Jobs : Trace(j)

\* The jobs that have a slot, and those that wait for one.
Slots == {j \in Jobs : phase[j] \in {"Preparing", "Executing"}}
Queued == {j \in Jobs : phase[j] = "Queued"}

\* Nobody is in a queue twice.
Once(q) == \A m, n \in DOMAIN q : q[m] = q[n] => m = n

\* The slots and the queue.
Slotting ==
  /\ occupied = Cardinality(Slots) /\ occupied <= MaxConcurrency
  /\ ToSet(queue) = Queued /\ Once(queue)
  /\ lifecycle = "Running" /\ queue # <<>> => occupied = MaxConcurrency

Slotted == IsFiniteSet(Inflight) /\ Slotting

\* A closure that has seen no job left has let nobody in.
Closed ==
  /\ lifecycle = "Constructed" => Inflight = {}
  /\ stopper = "idle" <=> lifecycle \in {"Constructed", "Running"}
  /\ stopper = "done" <=> lifecycle = "Stopped"
  /\ stopper \in {"take", "done"} => Inflight = {}
  /\ stopper # "done" => told.stop = {}
  /\ \A t \in Turns :
       /\ finisher[t] # "idle" => open[t] = "closed"
       /\ finisher[t] \in {"take", "acknowledge", "done"} => Inflight \cap JobsOf(t) = {}

\* A failure waits with the runtime and in the ledger of its turn, or was told.
Failures ==
  \A j \in failed : at[j] = "done" =>
    /\ j \in unack \cup told.finish \cup told.stop
    /\ j \in ledger[TurnOf[j]] \cup told.finish
    /\ finisher[TurnOf[j]] \in {"acknowledge", "done"} => j \in told.finish

Inv == TypeOK /\ Traces /\ Slotted /\ Closed /\ Failures

-----------------------------------------------------------------------------
(***************************************************************************)
(* Queues.                                                                 *)
(***************************************************************************)
\* The elements of a sequence, by their places.
LEMMA Elements ==
  ASSUME NEW S, NEW q \in Seq(S)
  PROVE  /\ DOMAIN q = 1 .. Len(q) /\ Len(q) \in Nat
         /\ ToSet(q) = {q[k] : k \in 1 .. Len(q)} /\ ToSet(q) \subseteq S
         /\ \A k \in 1 .. Len(q) : q[k] \in S /\ q[k] \in ToSet(q)
BY DEF ToSet

\* The places of two sequences in a row, and of none.
LEMMA InARow ==
  ASSUME NEW S, NEW a \in Seq(S), NEW b \in Seq(S)
  PROVE  /\ a \o b \in Seq(S) /\ Len(a \o b) = Len(a) + Len(b)
         /\ \A m \in 1 .. Len(a) : (a \o b)[m] = a[m]
         /\ \A m \in 1 .. Len(b) : (a \o b)[m + Len(a)] = b[m]
         /\ a = <<>> <=> Len(a) = 0
OBVIOUS

\* Only the empty sequence has no place.
LEMMA EmptyLength == ASSUME NEW S, NEW q \in Seq(S) PROVE q = <<>> <=> Len(q) = 0
OBVIOUS

\* The places of a sequence without one of them.
LEMMA WithoutPlace ==
  ASSUME NEW S, NEW q \in Seq(S), NEW k \in 1 .. Len(q)
  PROVE  LET r == RemoveAt(q, k)
         IN /\ r \in Seq(S) /\ Len(r) = Len(q) - 1
            /\ \A m \in 1 .. Len(r) : r[m] = IF m < k THEN q[m] ELSE q[m + 1]
<1> DEFINE a == SubSeq(q, 1, k - 1)
           b == SubSeq(q, k + 1, Len(q))
<1>1. a \in Seq(S) /\ Len(a) = k - 1 /\ \A m \in 1 .. k - 1 : a[m] = q[m]
  OBVIOUS
<1>2. b \in Seq(S) /\ Len(b) = Len(q) - k /\ \A m \in 1 .. Len(q) - k : b[m] = q[m + k]
  OBVIOUS
<1> HIDE DEF a, b
<1>3. k \in Nat /\ k >= 1 /\ k <= Len(q) /\ Len(q) \in Nat
  OBVIOUS
<1>4. /\ a \o b \in Seq(S) /\ Len(a \o b) = Len(q) - 1
      /\ \A m \in 1 .. k - 1 : (a \o b)[m] = q[m]
      /\ \A m \in 1 .. Len(q) - k : (a \o b)[m + (k - 1)] = q[m + k]
  BY <1>1, <1>2, <1>3, InARow
<1> DEFINE c == a \o b
<1> HIDE DEF c
<1>5. ASSUME NEW m \in 1 .. Len(q) - 1 PROVE c[m] = IF m < k THEN q[m] ELSE q[m + 1]
  <2>1. CASE m < k
    <3>1. m \in 1 .. k - 1
      BY <2>1, <1>3
    <3>2. c[m] = q[m]
      BY <3>1, <1>4 DEF c
    <3> QED
      BY <2>1, <3>2
  <2>2. CASE ~ (m < k)
    <3>1. m - (k - 1) \in 1 .. Len(q) - k
          /\ m - (k - 1) + k = m + 1 /\ m - (k - 1) + (k - 1) = m
      BY <2>2, <1>3
    <3>2. c[m - (k - 1) + (k - 1)] = q[m - (k - 1) + k]
      BY <3>1, <1>4 DEF c
    <3>3. c[m] = q[m + 1]
      BY <3>1, <3>2
    <3> QED
      BY <2>2, <3>3
  <2> QED
    BY <2>1, <2>2
<1>6. RemoveAt(q, k) = c
  BY DEF RemoveAt, a, b, c
<1>7. c \in Seq(S) /\ Len(c) = Len(q) - 1
  BY <1>4 DEF c
<1> QED
  BY <1>5, <1>6, <1>7

\* The places of a sequence without its first n.
LEMMA WithoutFirst ==
  ASSUME NEW S, NEW q \in Seq(S), NEW n \in 0 .. Len(q)
  PROVE  LET r == SubSeq(q, n + 1, Len(q))
         IN /\ r \in Seq(S) /\ Len(r) = Len(q) - n
            /\ \A m \in 1 .. Len(r) : r[m] = q[m + n]
OBVIOUS

\* One queue is another without some of its places, in the same order.
Within(r, q) ==
  \E f \in [1 .. Len(r) -> 1 .. Len(q)] :
    /\ \A m \in 1 .. Len(r) : r[m] = q[f[m]]
    /\ \A m, n \in 1 .. Len(r) : m < n => f[m] < f[n]

\* Nobody is twice in a part of a queue, and those ahead were ahead.
LEMMA WithinOrder ==
  ASSUME NEW S, NEW q \in Seq(S), NEW r \in Seq(S), Within(r, q)
  PROVE  /\ Once(q) => Once(r)
         /\ \A i : Ahead(r, i) \subseteq Ahead(q, i)
<1>1. PICK f \in [1 .. Len(r) -> 1 .. Len(q)] :
        /\ \A m \in 1 .. Len(r) : r[m] = q[f[m]]
        /\ \A m, n \in 1 .. Len(r) : m < n => f[m] < f[n]
  BY DEF Within
<1>2. DOMAIN q = 1 .. Len(q) /\ DOMAIN r = 1 .. Len(r) /\ Len(r) \in Nat /\ Len(q) \in Nat
  OBVIOUS
<1>3. Once(q) => Once(r)
  <2> SUFFICES ASSUME Once(q), NEW m \in DOMAIN r, NEW n \in DOMAIN r, r[m] = r[n]
               PROVE  m = n
    BY DEF Once
  <2>1. f[m] = f[n] /\ f[m] \in Nat
    BY <1>1, <1>2 DEF Once
  <2> QED
    BY <2>1, <1>1, <1>2
<1>4. ASSUME NEW i, NEW x \in Ahead(r, i) PROVE x \in Ahead(q, i)
  <2>1. PICK n \in DOMAIN r : x = r[n] /\ \E m \in DOMAIN r : n < m /\ r[m] = i
    BY <1>4 DEF Ahead
  <2>2. PICK m \in DOMAIN r : n < m /\ r[m] = i
    BY <2>1
  <2>3. f[n] \in DOMAIN q /\ f[m] \in DOMAIN q /\ f[n] < f[m] /\ q[f[m]] = i /\ q[f[n]] = x
    BY <1>1, <1>2, <2>1, <2>2
  <2> QED
    BY <2>3 DEF Ahead
<1> QED
  BY <1>3, <1>4

\* queue.retain takes a job away and keeps the order of the others.
LEMMA RetainedQueue ==
  ASSUME NEW S, NEW q \in Seq(S), Once(q), NEW j
  PROVE  LET r == Retained(q, j)
         IN /\ r \in Seq(S) /\ Within(r, q) /\ ToSet(r) = ToSet(q) \ {j}
<1> DEFINE r == Retained(q, j)
<1>1. DOMAIN q = 1 .. Len(q) /\ Len(q) \in Nat
  OBVIOUS
<1>2. CASE \E k \in DOMAIN q : q[k] = j
  <2>1. PICK k \in 1 .. Len(q) : q[k] = j /\ r = RemoveAt(q, k)
    <3>1. (CHOOSE k \in DOMAIN q : q[k] = j) \in DOMAIN q
          /\ q[CHOOSE k \in DOMAIN q : q[k] = j] = j
      BY <1>2
    <3> QED
      BY <1>1, <1>2, <3>1 DEF Retained
  <2> HIDE DEF r
  <2>2. /\ r \in Seq(S) /\ Len(r) = Len(q) - 1
        /\ \A m \in 1 .. Len(r) : r[m] = IF m < k THEN q[m] ELSE q[m + 1]
    BY <2>1, WithoutPlace
  <2>3. Within(r, q)
    <3> DEFINE f == [m \in 1 .. Len(r) |-> IF m < k THEN m ELSE m + 1]
    <3>1. f \in [1 .. Len(r) -> 1 .. Len(q)]
      BY <1>1, <2>2
    <3>2. \A m \in 1 .. Len(r) : r[m] = q[f[m]]
      BY <2>2
    <3>3. \A m, n \in 1 .. Len(r) : m < n => f[m] < f[n]
      BY <1>1, <2>2
    <3> HIDE DEF f
    <3> QED
      BY <3>1, <3>2, <3>3 DEF Within
  <2>4. ToSet(r) = ToSet(q) \ {j}
    <3>1. ToSet(q) = {q[m] : m \in 1 .. Len(q)} /\ ToSet(r) = {r[m] : m \in 1 .. Len(r)}
      BY <2>2, Elements
    <3>2. ASSUME NEW m \in 1 .. Len(r) PROVE r[m] \in ToSet(q) \ {j}
      BY <3>1, <1>1, <2>1, <2>2 DEF Once
    <3>3. ASSUME NEW m \in 1 .. Len(q), q[m] # j PROVE q[m] \in ToSet(r)
      <4>1. CASE m < k
        <5>1. m \in 1 .. Len(r) /\ r[m] = q[m]
          BY <4>1, <1>1, <2>2
        <5> QED
          BY <5>1, <3>1
      <4>2. CASE m > k
        <5>1. m - 1 \in 1 .. Len(r) /\ r[m - 1] = q[m]
          BY <4>2, <1>1, <2>2
        <5> QED
          BY <5>1, <3>1
      <4> QED
        BY <3>3, <4>1, <4>2, <2>1
    <3> QED
      BY <3>1, <3>2, <3>3
  <2> QED
    BY <2>2, <2>3, <2>4 DEF r
<1>3. CASE ~ \E k \in DOMAIN q : q[k] = j
  <2>1. r = q
    BY <1>3 DEF Retained
  <2>2. j \notin ToSet(q)
    BY <1>3 DEF ToSet
  <2>3. Within(q, q)
    <3> DEFINE f == [m \in 1 .. Len(q) |-> m]
    <3>1. f \in [1 .. Len(q) -> 1 .. Len(q)] /\ (\A m \in 1 .. Len(q) : q[m] = q[f[m]])
          /\ \A m, n \in 1 .. Len(q) : m < n => f[m] < f[n]
      OBVIOUS
    <3> HIDE DEF f
    <3> QED
      BY <3>1 DEF Within
  <2> QED
    BY <2>1, <2>2, <2>3
<1> QED
  BY <1>2, <1>3

\* The first n places leave: those that stay keep their order, behind them.
LEMMA PoppedQueue ==
  ASSUME NEW S, NEW q \in Seq(S), Once(q), NEW n \in 0 .. Len(q)
  PROVE  LET r == SubSeq(q, n + 1, Len(q))
             popped == {q[m] : m \in 1 .. n}
         IN /\ r \in Seq(S) /\ Within(r, q) /\ ToSet(r) = ToSet(q) \ popped
            /\ (r = <<>> <=> n = Len(q))
            /\ \A i \in ToSet(r) : popped \subseteq Ahead(q, i)
<1> DEFINE r == SubSeq(q, n + 1, Len(q))
           popped == {q[m] : m \in 1 .. n}
<1>1. DOMAIN q = 1 .. Len(q) /\ Len(q) \in Nat
  OBVIOUS
<1>2. r \in Seq(S) /\ Len(r) = Len(q) - n /\ \A m \in 1 .. Len(r) : r[m] = q[m + n]
  BY WithoutFirst
<1> HIDE DEF r
<1>3. Within(r, q)
  <2> DEFINE f == [m \in 1 .. Len(r) |-> m + n]
  <2>1. f \in [1 .. Len(r) -> 1 .. Len(q)] /\ (\A m \in 1 .. Len(r) : r[m] = q[f[m]])
        /\ \A m, k \in 1 .. Len(r) : m < k => f[m] < f[k]
    BY <1>1, <1>2
  <2> HIDE DEF f
  <2> QED
    BY <2>1 DEF Within
<1>4. ToSet(q) = {q[m] : m \in 1 .. Len(q)} /\ ToSet(r) = {r[m] : m \in 1 .. Len(r)}
  BY <1>2, Elements
<1>5. ToSet(r) = ToSet(q) \ popped
  <2>1. ASSUME NEW m \in 1 .. Len(r) PROVE r[m] \in ToSet(q) \ popped
    <3>1. m + n \in 1 .. Len(q) /\ r[m] = q[m + n]
      BY <1>1, <1>2
    <3>2. \A k \in 1 .. n : q[k] # q[m + n]
      BY <3>1, <1>1 DEF Once
    <3> QED
      BY <3>1, <3>2, <1>4
  <2>2. ASSUME NEW m \in 1 .. Len(q), q[m] \notin popped PROVE q[m] \in ToSet(r)
    <3>1. m > n
      BY <2>2
    <3>2. m - n \in 1 .. Len(r) /\ r[m - n] = q[m]
      BY <3>1, <1>1, <1>2
    <3> QED
      BY <3>2, <1>4
  <2> QED
    BY <2>1, <2>2, <1>4
<1>6. r = <<>> <=> n = Len(q)
  <2>1. r = <<>> <=> Len(r) = 0
    BY <1>2, EmptyLength
  <2>2. Len(r) = 0 <=> n = Len(q)
    BY <1>1, <1>2
  <2> QED
    BY <2>1, <2>2
<1>7. ASSUME NEW i \in ToSet(r), NEW x \in popped PROVE x \in Ahead(q, i)
  <2>1. PICK m \in 1 .. Len(r) : r[m] = i
    BY <1>4, <1>7
  <2>2. PICK k \in 1 .. n : q[k] = x
    BY <1>7
  <2>3. k \in DOMAIN q /\ m + n \in DOMAIN q /\ k < m + n /\ q[m + n] = i
    BY <2>1, <2>2, <1>1, <1>2
  <2> QED
    BY <2>2, <2>3 DEF Ahead
<1> QED
  BY <1>2, <1>3, <1>5, <1>6, <1>7 DEF r

\* A job that comes last is ahead of nobody.
LEMMA AppendedQueue ==
  ASSUME NEW S, NEW q \in Seq(S), Once(q), NEW j \in S, j \notin ToSet(q)
  PROVE  LET r == Append(q, j)
         IN /\ r \in Seq(S) /\ Once(r) /\ ToSet(r) = ToSet(q) \cup {j}
            /\ \A i \in ToSet(q) : Ahead(r, i) \subseteq Ahead(q, i)
<1> DEFINE r == Append(q, j)
<1>1. DOMAIN q = 1 .. Len(q) /\ Len(q) \in Nat
  OBVIOUS
<1>2. /\ r \in Seq(S) /\ DOMAIN r = 1 .. Len(q) + 1
      /\ (\A m \in 1 .. Len(q) : r[m] = q[m]) /\ r[Len(q) + 1] = j
  OBVIOUS
<1> HIDE DEF r
<1>3. \A m \in 1 .. Len(q) : q[m] # j /\ q[m] \in ToSet(q)
  BY <1>1 DEF ToSet
<1>4. Once(r)
  BY <1>1, <1>2, <1>3 DEF Once
<1>5. ToSet(r) = ToSet(q) \cup {j}
  BY <1>1, <1>2 DEF ToSet
<1>6. ASSUME NEW i \in ToSet(q), NEW x \in Ahead(r, i) PROVE x \in Ahead(q, i)
  <2>1. PICK n \in DOMAIN r : x = r[n] /\ \E m \in DOMAIN r : n < m /\ r[m] = i
    BY <1>6 DEF Ahead
  <2>2. PICK m \in DOMAIN r : n < m /\ r[m] = i
    BY <2>1
  <2>3. i # j
    BY <1>3
  <2>4. m \in DOMAIN q /\ n \in DOMAIN q /\ q[m] = i /\ q[n] = x
    BY <1>1, <1>2, <2>1, <2>2, <2>3
  <2> QED
    BY <2>2, <2>4 DEF Ahead
<1> QED
  BY <1>2, <1>4, <1>5, <1>6 DEF r

\* A queue without repetition is as long as it has elements.
LEMMA OnceCounted ==
  ASSUME NEW S, NEW q \in Seq(S), Once(q)
  PROVE  IsFiniteSet(ToSet(q)) /\ Cardinality(ToSet(q)) = Len(q)
<1>1. DOMAIN q = 1 .. Len(q) /\ Len(q) \in Nat /\ ToSet(q) = {q[k] : k \in 1 .. Len(q)}
  BY Elements
<1> DEFINE f == [k \in 1 .. Len(q) |-> q[k]]
<1>2. f \in Bijection(1 .. Len(q), ToSet(q))
  <2>1. f \in [1 .. Len(q) -> ToSet(q)]
    BY <1>1
  <2>2. \A a, b \in 1 .. Len(q) : f[a] = f[b] => a = b
    BY <1>1 DEF Once
  <2>3. \A y \in ToSet(q) : \E x \in 1 .. Len(q) : f[x] = y
    BY <1>1
  <2> HIDE DEF f
  <2> QED
    BY <2>1, <2>2, <2>3 DEF Bijection, Injection, Surjection, IsInjective
<1>3. ExistsBijection(1 .. Len(q), ToSet(q))
  BY <1>2 DEF ExistsBijection
<1>4. IsFiniteSet(1 .. Len(q)) /\ Cardinality(1 .. Len(q)) = Len(q)
  BY <1>1, FS_Interval
<1> QED
  BY <1>3, <1>4, FS_Bijection

-----------------------------------------------------------------------------
(***************************************************************************)
(* dispatch_waiters and release_execution.                                 *)
(***************************************************************************)
\* A set of places that is not empty has a first one.
LEMMA FirstPlace ==
  ASSUME NEW T, T \subseteq Nat, T # {}
  PROVE  \E k \in T : \A m \in Nat : m < k => m \notin T
<1> DEFINE R == OpToRel(<, Nat)
<1>1. IsWellFoundedOn(R, Nat)
  BY NatLessThanWellFounded
<1>2. \A m, k \in Nat : m < k => <<m, k>> \in R
  BY DEF OpToRel
<1> HIDE DEF R
<1>3. PICK k \in T : \A m \in T : <<m, k>> \notin R
  BY <1>1, WFMin, Zenon
<1> QED
  BY <1>2, <1>3

\* The jobs among the first n places that get a slot.
Given(q, n) == {i \in {q[m] : m \in 1 .. n} : ~Dead(i)}

\* How many get a slot grows by one at most with each place.
LEMMA GivenGrows ==
  ASSUME NEW q \in Seq(Jobs), Once(q), NEW n \in 0 .. Len(q)
  PROVE  /\ IsFiniteSet(Given(q, n)) /\ Cardinality(Given(q, n)) \in Nat
         /\ Given(q, n) \subseteq ToSet(q)
         /\ Given(q, 0) = {} /\ Cardinality(Given(q, 0)) = 0
         /\ \A m \in 0 .. n : Cardinality(Given(q, m)) <= Cardinality(Given(q, n))
         /\ n > 0 => Cardinality(Given(q, n)) <= Cardinality(Given(q, n - 1)) + 1
<1>1. \A m \in 0 .. Len(q) : IsFiniteSet(Given(q, m)) /\ Given(q, m) \subseteq ToSet(q)
  <2> TAKE m \in 0 .. Len(q)
  <2>1. Given(q, m) \subseteq ToSet(q)
    BY DEF Given, ToSet
  <2>2. IsFiniteSet(ToSet(q))
    BY OnceCounted
  <2> QED
    BY <2>1, <2>2, FS_Subset
<1>2. \A m \in 0 .. Len(q) : Cardinality(Given(q, m)) \in Nat
  BY <1>1, FS_CardinalityType
<1>3. Given(q, 0) = {}
  BY DEF Given
<1>4. ASSUME NEW m \in 0 .. n PROVE Cardinality(Given(q, m)) <= Cardinality(Given(q, n))
  <2>1. Given(q, m) \subseteq Given(q, n)
    BY DEF Given
  <2> QED
    BY <1>1, <2>1, FS_Subset
<1>5. ASSUME n > 0 PROVE Cardinality(Given(q, n)) <= Cardinality(Given(q, n - 1)) + 1
  <2>1. n - 1 \in 0 .. Len(q)
    BY <1>5
  <2>2. Given(q, n) \subseteq Given(q, n - 1) \cup {q[n]}
    <3>1. \A m \in 1 .. n : m = n \/ m \in 1 .. n - 1
      OBVIOUS
    <3> QED
      BY <3>1 DEF Given
  <2> DEFINE G == Given(q, n - 1)
             x == q[n]
  <2>3. IsFiniteSet(G) /\ Cardinality(G) \in Nat /\ Cardinality(Given(q, n)) \in Nat
    BY <2>1, <1>1, <1>2
  <2> HIDE DEF G, x
  <2>4. IsFiniteSet(G \cup {x}) /\ Cardinality(G \cup {x}) <= Cardinality(G) + 1
    <3>1. /\ IsFiniteSet(G \cup {x})
          /\ Cardinality(G \cup {x}) = IF x \in G THEN Cardinality(G) ELSE Cardinality(G) + 1
      BY <2>3, FS_AddElement, Zenon
    <3> QED
      BY <2>3, <3>1
  <2>5. Cardinality(Given(q, n)) <= Cardinality(G \cup {x})
    BY <2>2, <2>4, FS_Subset DEF G, x
  <2>6. Cardinality(G \cup {x}) \in Nat
    BY <2>4, FS_CardinalityType
  <2> QED
    BY <2>3, <2>4, <2>5, <2>6 DEF G
<1> QED
  BY <1>1, <1>2, <1>3, <1>4, <1>5, FS_EmptySet

\* The loop of dispatch_waiters pops the head of the queue: it hands out all
\* the slots, or serves the queue to its end, and overcommits none.
LEMMA Dispatch ==
  ASSUME NEW q \in Seq(Jobs), Once(q), NEW free \in Nat
  PROVE  \E n \in 0 .. Len(q) :
           /\ Popped(q, free) = 1 .. n /\ Cardinality(Popped(q, free)) = n
           /\ IsFiniteSet(Given(q, n)) /\ Cardinality(Given(q, n)) \in Nat
           /\ Cardinality(Given(q, n)) <= free
           /\ n < Len(q) => Cardinality(Given(q, n)) = free
<1>1. DOMAIN q = 1 .. Len(q) /\ Len(q) \in Nat
  OBVIOUS
<1>2. Popped(q, free) = {k \in 1 .. Len(q) : Cardinality(Given(q, k - 1)) < free}
  BY <1>1 DEF Popped, Given
<1>3. /\ \A n \in 0 .. Len(q) : /\ IsFiniteSet(Given(q, n)) /\ Cardinality(Given(q, n)) \in Nat
                                /\ \A m \in 0 .. n : Cardinality(Given(q, m)) <= Cardinality(Given(q, n))
      /\ \A n \in 0 .. Len(q) : n > 0 => Cardinality(Given(q, n)) <= Cardinality(Given(q, n - 1)) + 1
      /\ Cardinality(Given(q, 0)) = 0
  <2>1. 0 \in 0 .. Len(q)
    BY <1>1
  <2> QED
    BY <2>1, GivenGrows
<1> DEFINE stay == (1 .. Len(q)) \ Popped(q, free)
<1>4. \E n \in 0 .. Len(q) :
        /\ \A k \in 1 .. Len(q) : k \in Popped(q, free) <=> k <= n
        /\ n < Len(q) => n + 1 \notin Popped(q, free)
  <2>1. CASE stay = {}
    BY <2>1, <1>1
  <2>2. CASE stay # {}
    <3>1. PICK k \in stay : \A m \in Nat : m < k => m \notin stay
      <4>1. stay \subseteq Nat
        BY <1>1
      <4> HIDE DEF stay
      <4> QED
        BY <4>1, <2>2, FirstPlace
    <3>2. k \in 1 .. Len(q) /\ k - 1 \in 0 .. Len(q) /\ ~ (Cardinality(Given(q, k - 1)) < free)
      BY <1>1, <1>2
    <3>3. ASSUME NEW m \in 1 .. Len(q), m < k PROVE m \in Popped(q, free)
      BY <3>1, <3>3
    <3>4. ASSUME NEW m \in 1 .. Len(q), m >= k PROVE m \notin Popped(q, free)
      <4>1. m - 1 \in 0 .. Len(q) /\ k - 1 \in 0 .. m - 1
        BY <3>4, <3>2, <1>1
      <4>2. Cardinality(Given(q, k - 1)) <= Cardinality(Given(q, m - 1))
            /\ Cardinality(Given(q, k - 1)) \in Nat /\ Cardinality(Given(q, m - 1)) \in Nat
        BY <4>1, <3>2, <1>3
      <4> QED
        BY <4>2, <3>2, <1>2
    <3> QED
      BY <1>1, <3>1, <3>2, <3>3, <3>4
  <2> QED
    BY <2>1, <2>2
<1>5. PICK n \in 0 .. Len(q) :
        /\ \A k \in 1 .. Len(q) : k \in Popped(q, free) <=> k <= n
        /\ n < Len(q) => n + 1 \notin Popped(q, free)
  BY <1>4
<1>6. Popped(q, free) = 1 .. n
  BY <1>1, <1>2, <1>5
<1>7. Cardinality(1 .. n) = n
  BY <1>1, FS_Interval
<1>8. Cardinality(Given(q, n)) <= free
  <2>1. CASE n = 0
    BY <2>1, <1>3
  <2>2. CASE n > 0
    <3>1. n \in Popped(q, free) /\ n - 1 \in 0 .. Len(q)
      BY <2>2, <1>1, <1>6
    <3>2. Cardinality(Given(q, n - 1)) < free /\ Cardinality(Given(q, n - 1)) \in Nat
          /\ Cardinality(Given(q, n)) \in Nat /\ Cardinality(Given(q, n)) <= Cardinality(Given(q, n - 1)) + 1
      BY <2>2, <3>1, <1>2, <1>3
    <3> QED
      BY <3>2
  <2> QED
    BY <2>1, <2>2, <1>1
<1>9. ASSUME n < Len(q) PROVE Cardinality(Given(q, n)) = free
  <2>1. n + 1 \in 1 .. Len(q) /\ (n + 1) - 1 = n
    BY <1>9, <1>1
  <2>2. ~ (Cardinality(Given(q, n)) < free)
    BY <1>9, <2>1, <1>2, <1>5
  <2>3. Cardinality(Given(q, n)) \in Nat
    BY <1>3
  <2> QED
    BY <2>2, <2>3, <1>8
<1> QED
  BY <1>3, <1>6, <1>7, <1>8, <1>9

\* What release_execution may do to the phases, the slots and the queue.
Releases(j) ==
  /\ phase' \in [Jobs -> Phases] /\ queue' \in Seq(Jobs) /\ occupied' \in Nat
  /\ wake' \in [Jobs -> BOOLEAN]
  /\ phase'[j] = "Cleaning"
  /\ \A i \in Jobs : \/ phase'[i] = phase[i]
                     \/ i = j
                     \/ phase[i] = "Queued" /\ phase'[i] \in {"Preparing", "Cleaning"}

\* Slots that a job that is admitted or released leaves.
LEMMA SlotsFinite ==
  ASSUME TypeOK, Slotted
  PROVE  /\ Slots \subseteq Inflight /\ Queued \subseteq Inflight
         /\ IsFiniteSet(Slots) /\ IsFiniteSet(Queued)
         /\ \A j \in Jobs : /\ IsFiniteSet(Slots \ {j})
                            /\ Cardinality(Slots \ {j}) = IF j \in Slots THEN occupied - 1 ELSE occupied
                            /\ Cardinality(Slots \ {j}) \in Nat
<1>1. Slots \subseteq Inflight /\ Queued \subseteq Inflight
  BY DEF Slots, Queued, Inflight
<1>2. IsFiniteSet(Inflight) /\ occupied = Cardinality(Slots)
  BY DEF Slotted, Slotting
<1>3. IsFiniteSet(Slots) /\ IsFiniteSet(Queued)
  BY <1>1, <1>2, FS_Subset
<1>4. ASSUME NEW j \in Jobs
      PROVE  /\ IsFiniteSet(Slots \ {j})
             /\ Cardinality(Slots \ {j}) = IF j \in Slots THEN occupied - 1 ELSE occupied
  BY <1>2, <1>3, FS_RemoveElement
<1>5. ASSUME NEW j \in Jobs PROVE Cardinality(Slots \ {j}) \in Nat
  BY <1>4, FS_CardinalityType
<1> QED
  BY <1>1, <1>3, <1>4, <1>5

\* release_execution counts the slots right, keeps the order of those that
\* wait on, and gives slots only to jobs that were before them.
LEMMA ReleaseEffect ==
  ASSUME TypeOK, Slotted, NEW j \in Inflight, Release(j), lifecycle' = lifecycle
  PROVE  /\ Releases(j) /\ Slotting' /\ InTurn
<1> USE ConfigAssumption
<1>t. /\ phase \in [Jobs -> Phases] /\ queue \in Seq(Jobs) /\ occupied \in Nat
      /\ wake \in [Jobs -> BOOLEAN] /\ j \in Jobs /\ phase[j] \notin {"none", "gone"}
      /\ MaxConcurrency \in Nat
  BY DEF TypeOK, Inflight
<1>s. /\ occupied = Cardinality(Slots) /\ occupied <= MaxConcurrency
      /\ ToSet(queue) = Queued /\ Once(queue)
      /\ lifecycle = "Running" /\ queue # <<>> => occupied = MaxConcurrency
  BY DEF Slotted, Slotting
<1>1. CASE phase[j] = "Cleaning"
  <2>1. phase' = phase /\ queue' = queue /\ occupied' = occupied /\ wake' = wake
    BY <1>1 DEF Release, scheduler
  <2>2. Releases(j)
    BY <2>1, <1>t, <1>1 DEF Releases
  <2>3. Slotting'
    BY <2>1, <1>s DEF Slotting, Slots, Queued, Once
  <2>4. InTurn
    BY <2>1 DEF InTurn
  <2> QED
    BY <2>2, <2>3, <2>4
<1>2. CASE phase[j] # "Cleaning"
  <2> DEFINE rest == Retained(queue, j)
             out  == OccupiedWithout(j)
             free == IF lifecycle = "Running" THEN MaxConcurrency - out ELSE 0
  <2>1. rest \in Seq(Jobs) /\ Within(rest, queue) /\ ToSet(rest) = Queued \ {j}
    BY <1>t, <1>s, RetainedQueue
  <2>2. Once(rest) /\ \A i : Ahead(rest, i) \subseteq Ahead(queue, i)
    BY <1>t, <1>s, <2>1, WithinOrder
  <2>3. /\ IsFiniteSet(Slots \ {j}) /\ Cardinality(Slots \ {j}) \in Nat
        /\ Cardinality(Slots \ {j}) = IF j \in Slots THEN occupied - 1 ELSE occupied
    BY <1>t, SlotsFinite
  <2>4. j \in Slots <=> phase[j] # "Queued"
    BY <1>t, <1>2 DEF Slots, Phases
  <2>5. out = Cardinality(Slots \ {j}) /\ out \in Nat /\ out <= MaxConcurrency
    BY <1>t, <1>s, <2>3, <2>4 DEF OccupiedWithout
  <2> HIDE DEF rest, out
  <2>6. free \in Nat /\ out + free <= MaxConcurrency
        /\ (lifecycle = "Running" => out + free = MaxConcurrency)
    BY <1>t, <2>5
  <2> HIDE DEF free
  <2>7. PICK n \in 0 .. Len(rest) :
          /\ Popped(rest, free) = 1 .. n /\ Cardinality(Popped(rest, free)) = n
          /\ IsFiniteSet(Given(rest, n)) /\ Cardinality(Given(rest, n)) \in Nat
          /\ Cardinality(Given(rest, n)) <= free
          /\ n < Len(rest) => Cardinality(Given(rest, n)) = free
    BY <2>1, <2>2, <2>6, Dispatch
  <2> DEFINE popped == {rest[m] : m \in 1 .. n}
             given  == Given(rest, n)
  <2>8. /\ phase' = [i \in Jobs |-> IF i \in given THEN "Preparing"
                                    ELSE IF i \in popped \cup {j} THEN "Cleaning"
                                    ELSE phase[i]]
        /\ queue' = SubSeq(rest, n + 1, Len(rest))
        /\ occupied' = out + Cardinality(given)
        /\ wake' = [i \in Jobs |-> wake[i] \/ i \in Notified(j, popped)]
    <3>1. {rest[m] : m \in Popped(rest, free)} = popped
          /\ {i \in popped : ~Dead(i)} = given
      BY <2>7 DEF Given
    <3> HIDE DEF popped, given
    <3> QED
      BY <1>2, <2>7, <3>1 DEF Release, rest, out, free
  <2>9. given \subseteq popped /\ popped \subseteq ToSet(rest) /\ j \notin popped
    <3>1. popped \subseteq ToSet(rest)
      BY <2>1, Elements
    <3> QED
      BY <3>1, <2>1 DEF Given
  <2>10. LET r == SubSeq(rest, n + 1, Len(rest))
         IN  /\ r \in Seq(Jobs) /\ Within(r, rest) /\ ToSet(r) = ToSet(rest) \ popped
             /\ (r = <<>> <=> n = Len(rest))
             /\ \A i \in ToSet(r) : popped \subseteq Ahead(rest, i)
    BY <2>1, <2>2, PoppedQueue
  <2> HIDE DEF popped, given
  <2>11. /\ queue' \in Seq(Jobs) /\ Within(queue', rest) /\ ToSet(queue') = (Queued \ {j}) \ popped
         /\ (queue' = <<>> <=> n = Len(rest))
         /\ \A i \in ToSet(queue') : popped \subseteq Ahead(rest, i)
    BY <2>1, <2>8, <2>10
  <2>12. Once(queue') /\ \A i : Ahead(queue', i) \subseteq Ahead(rest, i)
    BY <2>1, <2>2, <2>11, WithinOrder
  <2>13. \A i \in Jobs : phase'[i] = IF i \in given THEN "Preparing"
                                     ELSE IF i \in popped \cup {j} THEN "Cleaning"
                                     ELSE phase[i]
    BY <2>8
  <2>14. \A i \in Jobs : i \in popped => phase[i] = "Queued"
    BY <2>1, <2>9 DEF Queued
  <2>15. Queued' = (Queued \ {j}) \ popped
    BY <2>9, <2>13 DEF Queued
  <2>16. Slots' = (Slots \ {j}) \cup given /\ (Slots \ {j}) \cap given = {}
    <3>1. given \subseteq Queued
      BY <2>9, <2>1
    <3> QED
      BY <3>1, <2>9, <2>13, <2>14 DEF Slots, Queued
  <2>17. occupied' = Cardinality(Slots') /\ occupied' \in Nat /\ occupied' <= MaxConcurrency
         /\ (lifecycle = "Running" /\ n < Len(rest) => occupied' = MaxConcurrency)
    <3>1. IsFiniteSet(given) /\ Cardinality(given) \in Nat /\ Cardinality(given) <= free
          /\ (n < Len(rest) => Cardinality(given) = free)
      BY <2>7 DEF given
    <3>2. Cardinality((Slots \ {j}) \cup given) =
            Cardinality(Slots \ {j}) + Cardinality(given) - Cardinality((Slots \ {j}) \cap given)
      BY <2>3, <3>1, FS_Union
    <3>3. Cardinality((Slots \ {j}) \cap given) = 0
      BY <2>16, FS_EmptySet
    <3>4. Cardinality(Slots') = out + Cardinality(given)
      BY <3>1, <3>2, <3>3, <2>3, <2>5, <2>16
    <3> QED
      BY <3>1, <3>4, <2>5, <2>6, <2>8, <1>t
  <2>18. Releases(j)
    <3>1. phase' \in [Jobs -> Phases]
      BY <2>8, <1>t DEF Phases
    <3>2. wake' \in [Jobs -> BOOLEAN]
      BY <2>8, <1>t
    <3>3. phase'[j] = "Cleaning"
      BY <2>9, <2>13, <1>t
    <3>4. \A i \in Jobs : \/ phase'[i] = phase[i]
                          \/ i = j
                          \/ phase[i] = "Queued" /\ phase'[i] \in {"Preparing", "Cleaning"}
      BY <2>9, <2>13, <2>14
    <3> QED
      BY <3>1, <3>2, <3>3, <3>4, <2>11, <2>17 DEF Releases
  <2>19. Slotting'
    <3>1. lifecycle' = "Running" /\ queue' # <<>> => occupied' = MaxConcurrency
      <4>1. Len(rest) \in Nat
        BY <2>1
      <4> QED
        BY <4>1, <2>11, <2>17
    <3>2. ToSet(queue') = Queued'
      BY <2>11, <2>15
    <3> QED
      BY <3>1, <3>2, <2>12, <2>17 DEF Slotting
  <2>20. InTurn
    <3> SUFFICES ASSUME NEW i \in Jobs, phase[i] = "Queued", phase'[i] = "Queued"
                 PROVE  /\ Ahead(queue', i) \subseteq Ahead(queue, i)
                        /\ \A k \in Jobs : phase[k] # "Preparing" /\ phase'[k] = "Preparing"
                             => k \in Ahead(queue, i)
      BY DEF InTurn
    <3>1. i \in ToSet(queue')
      BY <2>11, <2>15 DEF Queued
    <3>2. Ahead(queue', i) \subseteq Ahead(queue, i)
      BY <2>2, <2>12
    <3>3. ASSUME NEW k \in Jobs, phase[k] # "Preparing", phase'[k] = "Preparing"
          PROVE  k \in Ahead(queue, i)
      <4>1. k \in popped
        BY <3>3, <2>9, <2>13
      <4> QED
        BY <4>1, <3>1, <2>2, <2>11
    <3> QED
      BY <3>2, <3>3
  <2> QED
    BY <2>18, <2>19, <2>20
<1> QED
  BY <1>1, <1>2

-----------------------------------------------------------------------------
(***************************************************************************)
(* What steps leave alone.                                                 *)
(***************************************************************************)
\* The jobs other than j: only the release of a slot may reach them.
OthersKept(j) ==
  \A i \in Jobs \ {j} :
    /\ at'[i] = at[i] /\ reservation'[i] = reservation[i] /\ recorded'[i] = recorded[i]
    /\ i \in failed' <=> i \in failed
    /\ phase'[i] = phase[i] \/ (phase[i] = "Queued" /\ phase'[i] \in {"Preparing", "Cleaning"})

\* A job that only another one's release reaches keeps its trace.
LEMMA TraceKept ==
  ASSUME TypeOK, Traces, NEW j, OthersKept(j), NEW i \in Jobs \ {j}
  PROVE  Trace(i)'
<1>1. /\ at'[i] = at[i] /\ reservation'[i] = reservation[i] /\ recorded'[i] = recorded[i]
      /\ i \in failed' <=> i \in failed
      /\ phase'[i] = phase[i] \/ (phase[i] = "Queued" /\ phase'[i] \in {"Preparing", "Cleaning"})
  BY DEF OthersKept
<1>2. Trace(i)
  BY DEF Traces
<1>3. CASE phase'[i] = phase[i]
  BY <1>1, <1>2, <1>3 DEF Trace
<1>4. CASE phase[i] = "Queued" /\ phase'[i] \in {"Preparing", "Cleaning"}
  BY <1>1, <1>2, <1>4 DEF Trace
<1> QED
  BY <1>1, <1>3, <1>4

\* A job in flight is where a driver is, and the others are where it is not.
LEMMA Whereabouts ==
  ASSUME TypeOK, Traces, NEW j \in Jobs
  PROVE  /\ phase[j] = "none" <=> at[j] = "none"
         /\ phase[j] = "gone" <=> at[j] = "done"
         /\ j \in Inflight <=> at[j] \notin {"none", "done"}
<1>1. Trace(j) /\ at[j] \in Places /\ phase[j] \in Phases
  BY DEF Traces, TypeOK
<1>2. phase[j] = "none" <=> at[j] = "none"
  BY <1>1 DEF Trace, Places
<1>3. phase[j] = "gone" <=> at[j] = "done"
  BY <1>1 DEF Trace, Places
<1> QED
  BY <1>2, <1>3 DEF Inflight

\* Slots and queue that no step touches.
LEMMA SlottingKept ==
  ASSUME Slotting, UNCHANGED <<phase, queue, occupied>>, lifecycle' = "Running" => lifecycle = "Running"
  PROVE  Slotting'
BY DEF Slotting, Slots, Queued, Once

\* A step of the driver of j, or of its guard, that closes nothing.
LEMMA DriverStep ==
  ASSUME Inv, NEW j \in Inflight, OthersKept(j), TypeOK', Slotting', Trace(j)',
         phase'[j] \notin {"none", "gone"}, at'[j] # "done",
         UNCHANGED <<lifecycle, open, ledgers, closures>>
  PROVE  Inv'
<1> USE DEF Inv
<1>1. Traces'
  <2>1. ASSUME NEW i \in Jobs PROVE Trace(i)'
    BY TraceKept
  <2> QED
    BY <2>1 DEF Traces
<1>2. Inflight' = Inflight
  <2>1. \A i \in Jobs \ {j} : phase'[i] \notin {"none", "gone"} <=> phase[i] \notin {"none", "gone"}
    BY DEF OthersKept
  <2>2. j \in Jobs /\ phase[j] \notin {"none", "gone"}
    BY DEF Inflight
  <2> QED
    BY <2>1, <2>2 DEF Inflight
<1>3. Slotted'
  BY <1>2 DEF Slotted
<1>4. Closed'
  BY <1>2 DEF Closed, closures, JobsOf
<1>5. Failures'
  <2>1. ASSUME NEW i \in failed', at'[i] = "done" PROVE i \in failed /\ at[i] = "done"
    <3>1. i \in Jobs /\ i # j
      BY <2>1 DEF TypeOK
    <3> QED
      BY <2>1, <3>1 DEF OthersKept
  <2> QED
    BY <2>1 DEF Failures, closures, ledgers
<1> QED
  BY <1>1, <1>3, <1>4, <1>5

\* A step that leaves alone all that the invariant speaks of.
LEMMA NothingTold ==
  ASSUME Inv, TypeOK',
         UNCHANGED <<lifecycle, open, phase, queue, occupied, at, reservation, recorded, failed,
                     ledgers, closures>>
  PROVE  Inv'
<1> USE DEF Inv
<1>1. Traces'
  BY DEF Traces, Trace
<1>2. Slotted' 
  BY SlottingKept DEF Slotted, Inflight
<1>3. Closed'
  BY DEF Closed, closures, JobsOf, Inflight
<1>4. Failures'
  BY DEF Failures, closures, ledgers
<1> QED
  BY <1>1, <1>2, <1>3, <1>4

-----------------------------------------------------------------------------
(***************************************************************************)
(* Signals, turns and the start.                                           *)
(***************************************************************************)
\* A signal reaches jobs only through their drivers.
LEMMA SignalStep ==
  ASSUME Inv, Environment
  PROVE  Inv' /\ UNCHANGED <<phase, queue>>
<1> USE DEF Inv
<1>1. ASSUME NEW t \in Turns, CancelTurn(t) PROVE Inv' /\ UNCHANGED <<phase, queue>>
  <2>1. TypeOK'
    BY <1>1 DEF CancelTurn, TypeOK, scheduler, evidence, ledgers, permits, closures
  <2> QED
    BY <1>1, <2>1, NothingTold DEF CancelTurn, scheduler, evidence, closures
<1>2. ASSUME NEW t \in Turns, StopBudget(t) PROVE Inv' /\ UNCHANGED <<phase, queue>>
  <2>1. TypeOK'
    BY <1>2 DEF StopBudget, TypeOK, scheduler, evidence, ledgers, permits, closures
  <2> QED
    BY <1>2, <2>1, NothingTold DEF StopBudget, scheduler, evidence, closures
<1>3. ASSUME NEW j \in Jobs, Expire(j) PROVE Inv' /\ UNCHANGED <<phase, queue>>
  <2>1. TypeOK'
    BY <1>3 DEF Expire, TypeOK, scheduler, evidence, ledgers, permits, closures
  <2> QED
    BY <1>3, <2>1, NothingTold DEF Expire, scheduler, evidence, closures
<1>4. ASSUME NEW j \in Jobs, DropConsumer(j) PROVE Inv' /\ UNCHANGED <<phase, queue>>
  <2>1. TypeOK'
    BY <1>4 DEF DropConsumer, TypeOK, scheduler, evidence, ledgers, permits, closures
  <2> QED
    BY <1>4, <2>1, NothingTold DEF DropConsumer, scheduler, evidence, closures
<1> QED
  BY <1>1, <1>2, <1>3, <1>4 DEF Environment

\* Where no job is in flight, no slot is taken and nobody waits.
LEMMA Quiet ==
  ASSUME Inv, Inflight = {}
  PROVE  occupied = 0 /\ queue = <<>>
<1>1. Slots = {} /\ Queued = {}
  BY DEF Slots, Queued, Inflight
<1>2. occupied = 0
  BY <1>1, FS_EmptySet DEF Inv, Slotted, Slotting
<1>3. ToSet(queue) = {} /\ queue \in Seq(Jobs)
  BY <1>1 DEF Inv, Slotted, Slotting, TypeOK
<1>4. Len(queue) = 0
  BY <1>3, Elements
<1> QED
  BY <1>2, <1>3, <1>4, EmptyLength

\* A runtime starts with nobody waiting.
LEMMA StartStep ==
  ASSUME Inv, Start
  PROVE  Inv' /\ UNCHANGED <<phase, queue>>
<1> USE DEF Inv
<1>1. /\ lifecycle = "Constructed" /\ lifecycle' = "Running"
      /\ UNCHANGED <<open, phase, queue, occupied, at, reservation, recorded, failed, ledgers, closures>>
  BY DEF Start, scheduler, evidence
<1>2. TypeOK'
  BY DEF Start, TypeOK, scheduler, signals, evidence, ledgers, permits, closures
<1>3. Inflight = {}
  BY <1>1 DEF Closed
<1>4. Traces'
  BY <1>1 DEF Traces, Trace
<1>5. Slotted'
  <2>1. queue' = <<>>
    BY <1>1, <1>3, Quiet
  <2> QED
    BY <1>1, <2>1 DEF Slotted, Slotting, Slots, Queued, Once, Inflight
<1>6. Closed'
  BY <1>1, <1>3 DEF Closed, closures, JobsOf, Inflight
<1>7. Failures'
  BY <1>1 DEF Failures, closures, ledgers
<1> QED
  BY <1>1, <1>2, <1>4, <1>5, <1>6, <1>7

\* A turn that is bound has not been finished.
LEMMA BindStep ==
  ASSUME Inv, NEW t \in Turns, BindTurn(t)
  PROVE  Inv' /\ UNCHANGED <<phase, queue>>
<1> USE DEF Inv
<1>1. /\ open[t] = "unbound" /\ open' = [open EXCEPT ![t] = "open"]
      /\ UNCHANGED <<lifecycle, phase, queue, occupied, at, reservation, recorded, failed, ledgers, closures>>
  BY DEF BindTurn, scheduler, evidence
<1>2. TypeOK'
  BY DEF BindTurn, TypeOK, scheduler, signals, evidence, ledgers, permits, closures
<1>3. Traces'
  BY <1>1 DEF Traces, Trace
<1>4. Slotted'
  BY <1>1, SlottingKept DEF Slotted, Inflight
<1>5. Closed'
  <2>1. \A u \in Turns : open[u] = "closed" => open'[u] = "closed"
    BY <1>1 DEF TypeOK
  <2> QED
    BY <1>1, <2>1 DEF Closed, closures, JobsOf, Inflight
<1>6. Failures'
  BY <1>1 DEF Failures, closures, ledgers
<1> QED
  BY <1>1, <1>2, <1>3, <1>4, <1>5, <1>6

-----------------------------------------------------------------------------
(***************************************************************************)
(* Admission.                                                              *)
(***************************************************************************)
\* Admission takes a slot only when nobody waits for one, and goes to the tail
\* of the queue else; neither the runtime nor the turn has closed.
LEMMA AdmitStep ==
  ASSUME Inv, NEW j \in Jobs, Admit(j)
  PROVE  Inv' /\ InTurn
<1> USE DEF Inv
<1> USE ConfigAssumption
<1> DEFINE dispatched == SlotFree /\ queue = <<>>
<1>1. /\ phase[j] = "none" /\ lifecycle = "Running" /\ open[TurnOf[j]] = "open"
      /\ reservation' = [reservation EXCEPT ![j] = "reserved"]
      /\ phase' = [phase EXCEPT ![j] = IF dispatched THEN "Preparing" ELSE "Queued"]
      /\ occupied' = IF dispatched THEN occupied + 1 ELSE occupied
      /\ queue' = IF dispatched THEN queue ELSE Enqueued(j)
      /\ at' = [at EXCEPT ![j] = "record"]
      /\ UNCHANGED <<lifecycle, open, wake, signals, recorded, failed, ledgers, permits, closures>>
  BY DEF Admit, evidence
<1>2. TypeOK'
  <2>1. queue' \in Seq(Jobs) /\ occupied' \in Nat
    BY <1>1 DEF TypeOK, Enqueued
  <2>2. phase' \in [Jobs -> Phases] /\ reservation' \in [Jobs -> {"none", "reserved", "started", "settled"}]
        /\ at' \in [Jobs -> Places]
    BY <1>1 DEF TypeOK, Phases, Places
  <2> QED
    BY <1>1, <2>1, <2>2 DEF TypeOK, signals, ledgers, permits, closures
<1>3. at[j] = "none" /\ Trace(j)
  BY <1>1, Whereabouts DEF Traces
<1>4. OthersKept(j) /\ Trace(j)'
  <2>1. OthersKept(j)
    <3>1. ASSUME NEW i \in Jobs \ {j}
          PROVE  at'[i] = at[i] /\ reservation'[i] = reservation[i] /\ phase'[i] = phase[i]
      BY <1>1 DEF TypeOK
    <3>2. recorded' = recorded /\ failed' = failed
      BY <1>1
    <3> QED
      BY <3>1, <3>2 DEF OthersKept
  <2>2. /\ at'[j] = "record" /\ phase'[j] \in {"Queued", "Preparing"}
        /\ recorded'[j] = recorded[j] /\ failed' = failed
    BY <1>1 DEF TypeOK
  <2> QED
    BY <2>1, <2>2, <1>3 DEF Trace
<1>5. Traces'
  <2>1. ASSUME NEW i \in Jobs PROVE Trace(i)'
    BY <1>4, TraceKept
  <2> QED
    BY <2>1 DEF Traces
<1>6. \A i \in Jobs : phase'[i] = IF i = j THEN IF dispatched THEN "Preparing" ELSE "Queued" ELSE phase[i]
  BY <1>1 DEF TypeOK
<1>7. Inflight' = Inflight \cup {j} /\ j \notin Inflight /\ IsFiniteSet(Inflight')
  <2>1. Inflight' = Inflight \cup {j} /\ j \notin Inflight
    BY <1>1, <1>6 DEF Inflight
  <2>2. IsFiniteSet(Inflight \cup {j})
    BY FS_AddElement DEF Slotted
  <2> QED
    BY <2>1, <2>2
<1>8. j \notin Slots /\ j \notin Queued /\ ToSet(queue) = Queued /\ queue \in Seq(Jobs) /\ Once(queue)
      /\ occupied \in Nat /\ occupied = Cardinality(Slots) /\ occupied <= MaxConcurrency
      /\ (queue # <<>> => occupied = MaxConcurrency)
  BY <1>1 DEF Slots, Queued, Slotted, Slotting, TypeOK
<1>9. ASSUME dispatched PROVE Slotting' /\ InTurn
  <2>1. Slots' = Slots \cup {j} /\ Queued' = Queued
    BY <1>1, <1>6, <1>9 DEF Slots, Queued
  <2>2. IsFiniteSet(Slots)
    BY SlotsFinite
  <2>3. Cardinality(Slots \cup {j}) = Cardinality(Slots) + 1
    BY <1>8, <2>2, FS_AddElement
  <2>4. occupied' = Cardinality(Slots') /\ occupied' <= MaxConcurrency
    BY <1>1, <1>8, <1>9, <2>1, <2>3 DEF SlotFree
  <2>5. Slotting'
    BY <1>1, <1>8, <1>9, <2>1, <2>4 DEF Slotting, Once
  <2>6. InTurn
    <3>1. Queued = {}
      BY <1>8, <1>9 DEF ToSet
    <3> QED
      BY <3>1 DEF InTurn, Queued
  <2> QED
    BY <2>5, <2>6
<1>10. ASSUME ~ dispatched PROVE Slotting' /\ InTurn
  <2>1. Slots' = Slots /\ Queued' = Queued \cup {j}
    BY <1>1, <1>6, <1>10 DEF Slots, Queued
  <2>2. /\ queue' \in Seq(Jobs) /\ Once(queue') /\ ToSet(queue') = Queued'
        /\ \A i \in Queued : Ahead(queue', i) \subseteq Ahead(queue, i)
    BY <1>1, <1>8, <1>10, <2>1, AppendedQueue DEF Enqueued
  <2>3. occupied' = MaxConcurrency
    BY <1>1, <1>8, <1>10 DEF SlotFree
  <2>4. Slotting'
    BY <1>1, <1>8, <1>10, <2>1, <2>2, <2>3 DEF Slotting
  <2>5. InTurn
    BY <1>6, <1>10, <2>2 DEF InTurn, Queued
  <2> QED
    BY <2>4, <2>5
<1>11. Slotting' /\ InTurn
  BY <1>9, <1>10
<1>12. Closed'
  <2>1. stopper = "idle" /\ stopper' = "idle" /\ told' = told /\ finisher' = finisher /\ open' = open
    BY <1>1 DEF Closed, closures
  <2>2. ASSUME NEW t \in Turns, finisher[t] # "idle" PROVE Inflight' \cap JobsOf(t) = Inflight \cap JobsOf(t)
    <3>1. t # TurnOf[j]
      BY <2>2, <1>1 DEF Closed
    <3> QED
      BY <3>1, <1>7 DEF JobsOf
  <2>3. \A t \in Turns : finisher'[t] \in {"take", "acknowledge", "done"} => Inflight' \cap JobsOf(t) = {}
    BY <2>1, <2>2 DEF Closed
  <2> QED
    BY <1>1, <2>1, <2>3 DEF Closed, JobsOf
<1>13. Failures'
  <2>1. ASSUME NEW i \in Jobs, at'[i] = "done" PROVE at[i] = "done"
    BY <1>1, <2>1 DEF TypeOK
  <2>2. failed' = failed /\ failed \subseteq Jobs
    BY <1>1 DEF TypeOK
  <2> QED
    BY <1>1, <2>1, <2>2 DEF Failures, closures, ledgers
<1> QED
  BY <1>2, <1>5, <1>7, <1>11, <1>12, <1>13 DEF Slotted

-----------------------------------------------------------------------------
(***************************************************************************)
(* The driver of a job.                                                    *)
(***************************************************************************)
\* Goto moves one driver.
LEMMA Moved ==
  ASSUME TypeOK, NEW j \in Jobs, NEW p \in Places, Goto(j, p)
  PROVE  /\ at' \in [Jobs -> Places] /\ at'[j] = p
         /\ \A i \in Jobs \ {j} : at'[i] = at[i]
BY DEF TypeOK, Goto

\* A driver at work drives a job in flight.
LEMMA Driven ==
  ASSUME Inv, NEW j \in Jobs, at[j] \notin {"none", "done"}
  PROVE  /\ j \in Inflight /\ Trace(j)
         /\ phase[j] \in {"Queued", "Preparing", "Executing", "Cleaning"}
<1>1. j \in Inflight /\ Trace(j)
  BY Whereabouts DEF Inv, Traces
<1>2. phase[j] \in Phases
  BY DEF Inv, TypeOK
<1> QED
  BY <1>1, <1>2 DEF Phases, Inflight

\* What a step of j keeps of the others, by the step's own assignments.
KeepsRecords(j) ==
  \A i \in Jobs \ {j} : /\ reservation'[i] = reservation[i] /\ recorded'[i] = recorded[i]
                        /\ i \in failed' <=> i \in failed

\* A step that releases the slot of j, or its place in the queue.
LEMMA ReleaseStep ==
  ASSUME Inv, NEW j \in Inflight, Release(j), lifecycle' = lifecycle,
         NEW p \in Places, Goto(j, p), KeepsRecords(j)
  PROVE  OthersKept(j) /\ Releases(j) /\ Slotting' /\ InTurn
<1>1. Releases(j) /\ Slotting' /\ InTurn
  BY ReleaseEffect DEF Inv
<1>2. j \in Jobs
  BY DEF Inflight
<1>3. \A i \in Jobs \ {j} : at'[i] = at[i]
  BY <1>2, Moved DEF Inv
<1>4. \A i \in Jobs \ {j} :
        phase'[i] = phase[i] \/ (phase[i] = "Queued" /\ phase'[i] \in {"Preparing", "Cleaning"})
  BY <1>1 DEF Releases
<1> QED
  BY <1>1, <1>3, <1>4 DEF OthersKept, KeepsRecords

\* A step in which no slot and no place in the queue changes hands.
LEMMA LocalStep ==
  ASSUME Inv, NEW j \in Jobs, UNCHANGED <<lifecycle, phase, queue, occupied>>,
         NEW p \in Places, Goto(j, p), KeepsRecords(j)
  PROVE  OthersKept(j) /\ Slotting' /\ InTurn
<1>1. \A i \in Jobs \ {j} : at'[i] = at[i] /\ phase'[i] = phase[i]
  BY Moved DEF Inv
<1>2. Slotting'
  BY SlottingKept DEF Inv, Slotted
<1>3. InTurn
  BY DEF InTurn
<1> QED
  BY <1>1, <1>2, <1>3 DEF OthersKept, KeepsRecords

\* The type of a step of a driver, from that of the variables it may change.
LEMMA DriverTypes ==
  ASSUME TypeOK, UNCHANGED <<lifecycle, open, signals, ledgers, permits, closures>>,
         phase' \in [Jobs -> Phases], queue' \in Seq(Jobs), occupied' \in Nat,
         wake' \in [Jobs -> BOOLEAN], at' \in [Jobs -> Places],
         reservation' \in [Jobs -> {"none", "reserved", "started", "settled"}],
         recorded' \in [Jobs -> SUBSET {"request", "result"}], failed' \subseteq Jobs
  PROVE  TypeOK'
BY DEF TypeOK, signals, ledgers, permits, closures

\* A signal during the append takes the capacity of the job away.
LEMMA RecordInterruptedStep ==
  ASSUME Inv, NEW j \in Jobs, RecordInterrupted(j)
  PROVE  Inv' /\ InTurn
<1>1. /\ at[j] = "record" /\ Release(j) /\ Goto(j, "detached")
      /\ UNCHANGED <<lifecycle, open, reservation, signals, recorded, failed, ledgers, permits, closures>>
  BY DEF RecordInterrupted, evidence
<1>2. j \in Inflight /\ Trace(j)
  BY <1>1, Driven
<1>3. "detached" \in Places /\ KeepsRecords(j)
  BY <1>1 DEF Places, KeepsRecords
<1>4. OthersKept(j) /\ Releases(j) /\ Slotting' /\ InTurn
  BY <1>1, <1>2, <1>3, ReleaseStep
<1>5. at' \in [Jobs -> Places] /\ at'[j] = "detached"
  BY <1>1, <1>3, Moved DEF Inv
<1>6. TypeOK'
  BY <1>1, <1>4, <1>5, DriverTypes DEF Inv, TypeOK, Releases
<1>7. phase'[j] = "Cleaning" /\ Trace(j)'
  BY <1>1, <1>2, <1>4, <1>5 DEF Releases, Trace
<1> QED
  BY <1>1, <1>2, <1>4, <1>5, <1>6, <1>7, DriverStep

\* The request is durable, and the capacity of the job may be gone.
LEMMA RecordRequestStep ==
  ASSUME Inv, NEW j \in Jobs, RecordRequest(j)
  PROVE  Inv' /\ InTurn
<1> DEFINE p == IF at[j] = "detached" \/ Interrupted(j) THEN "settle" ELSE "check"
<1>1. /\ at[j] \in {"record", "detached"} /\ Goto(j, p)
      /\ recorded' = [recorded EXCEPT ![j] = {"request"}]
      /\ UNCHANGED <<lifecycle, open, phase, queue, occupied, wake, reservation, signals, failed, ledgers,
                     permits, closures>>
  BY DEF RecordRequest, scheduler
<1>2. j \in Inflight /\ Trace(j) /\ phase[j] \in {"Queued", "Preparing", "Executing", "Cleaning"}
  BY <1>1, Driven
<1>3. /\ recorded' \in [Jobs -> SUBSET {"request", "result"}] /\ recorded'[j] = {"request"}
      /\ \A i \in Jobs \ {j} : recorded'[i] = recorded[i]
  BY <1>1 DEF Inv, TypeOK
<1>4. p \in Places /\ KeepsRecords(j)
  BY <1>1, <1>3 DEF Places, KeepsRecords
<1>5. OthersKept(j) /\ Slotting' /\ InTurn
  BY <1>1, <1>4, LocalStep
<1>6. at' \in [Jobs -> Places] /\ at'[j] = p
  BY <1>1, <1>4, Moved DEF Inv
<1>7. TypeOK'
  BY <1>1, <1>3, <1>6, DriverTypes DEF Inv, TypeOK
<1>8. phase'[j] = phase[j] /\ at'[j] # "done" /\ Trace(j)'
  <2>1. at'[j] = "settle" \/ (at'[j] = "check" /\ at[j] = "record")
    BY <1>1, <1>6
  <2> QED
    BY <2>1, <1>1, <1>2, <1>3 DEF Trace
<1> QED
  BY <1>1, <1>2, <1>5, <1>7, <1>8, DriverStep

\* A record that cannot be appended is a closure failure.
LEMMA RecordFailedStep ==
  ASSUME Inv, NEW j \in Jobs, RecordFailed(j)
  PROVE  Inv' /\ InTurn
<1>1. /\ at[j] \in {"record", "detached", "result"} /\ Goto(j, "close") /\ failed' = failed \cup {j}
      /\ UNCHANGED <<lifecycle, open, phase, queue, occupied, wake, reservation, signals, recorded, ledgers,
                     permits, closures>>
  BY DEF RecordFailed, scheduler
<1>2. j \in Inflight /\ Trace(j) /\ phase[j] \in {"Queued", "Preparing", "Executing", "Cleaning"}
  BY <1>1, Driven
<1>3. "close" \in Places /\ KeepsRecords(j)
  BY <1>1 DEF Places, KeepsRecords
<1>4. OthersKept(j) /\ Slotting' /\ InTurn
  BY <1>1, <1>3, LocalStep
<1>5. at' \in [Jobs -> Places] /\ at'[j] = "close"
  BY <1>1, <1>3, Moved DEF Inv
<1>6. TypeOK'
  BY <1>1, <1>5, DriverTypes DEF Inv, TypeOK
<1>7. phase'[j] = phase[j] /\ Trace(j)'
  BY <1>1, <1>2, <1>5 DEF Trace
<1> QED
  BY <1>1, <1>2, <1>4, <1>5, <1>6, <1>7, DriverStep

\* A driver leaves wait_for_slot with a slot, sleeps, or gives up its place.
LEMMA CheckSlotStep ==
  ASSUME Inv, NEW j \in Jobs, CheckSlot(j)
  PROVE  Inv' /\ InTurn
<1>1. /\ at[j] = "check"
      /\ UNCHANGED <<lifecycle, open, reservation, signals, recorded, failed, ledgers, permits, closures>>
  BY DEF CheckSlot, evidence
<1>2. j \in Inflight /\ Trace(j) /\ phase[j] \in {"Queued", "Preparing", "Executing", "Cleaning"}
  BY <1>1, Driven
<1>3. KeepsRecords(j)
  BY <1>1 DEF KeepsRecords
<1>4. CASE Release(j) /\ Goto(j, "settle")
  <2>1. "settle" \in Places
    BY DEF Places
  <2>2. OthersKept(j) /\ Releases(j) /\ Slotting' /\ InTurn
    BY <1>1, <1>2, <1>3, <1>4, <2>1, ReleaseStep
  <2>3. at' \in [Jobs -> Places] /\ at'[j] = "settle"
    BY <1>4, <2>1, Moved DEF Inv
  <2>4. TypeOK'
    BY <1>1, <2>2, <2>3, DriverTypes DEF Inv, TypeOK, Releases
  <2>5. phase'[j] = "Cleaning" /\ Trace(j)'
    BY <1>1, <1>2, <2>2, <2>3 DEF Releases, Trace
  <2> QED
    BY <1>1, <1>2, <2>2, <2>3, <2>4, <2>5, DriverStep
<1>5. CASE /\ ~Interrupted(j) /\ UNCHANGED scheduler
           /\ Goto(j, IF phase[j] = "Preparing" THEN "preflight" ELSE "asleep")
  <2> DEFINE p == IF phase[j] = "Preparing" THEN "preflight" ELSE "asleep"
  <2>1. p \in Places /\ UNCHANGED <<phase, queue, occupied, wake>>
    BY <1>5 DEF Places, scheduler
  <2>2. OthersKept(j) /\ Slotting' /\ InTurn
    BY <1>1, <1>3, <1>5, <2>1, LocalStep
  <2>3. at' \in [Jobs -> Places] /\ at'[j] = p
    BY <1>5, <2>1, Moved DEF Inv
  <2>4. TypeOK'
    BY <1>1, <2>1, <2>3, DriverTypes DEF Inv, TypeOK
  <2>5. phase'[j] = phase[j] /\ at'[j] # "done" /\ Trace(j)'
    BY <1>1, <1>2, <2>1, <2>3 DEF Trace
  <2> QED
    BY <1>1, <1>2, <2>2, <2>4, <2>5, DriverStep
<1> QED
  BY <1>4, <1>5 DEF CheckSlot

\* A sleeping driver is notified, or gives up its place.
LEMMA AwaitSlotStep ==
  ASSUME Inv, NEW j \in Jobs, AwaitSlot(j)
  PROVE  Inv' /\ InTurn
<1>1. /\ at[j] = "asleep"
      /\ UNCHANGED <<lifecycle, open, reservation, signals, recorded, failed, ledgers, permits, closures>>
  BY DEF AwaitSlot, evidence
<1>2. j \in Inflight /\ Trace(j) /\ phase[j] \in {"Queued", "Preparing", "Executing", "Cleaning"}
  BY <1>1, Driven
<1>3. KeepsRecords(j)
  BY <1>1 DEF KeepsRecords
<1>4. CASE Release(j) /\ Goto(j, "settle")
  <2>1. "settle" \in Places
    BY DEF Places
  <2>2. OthersKept(j) /\ Releases(j) /\ Slotting' /\ InTurn
    BY <1>1, <1>2, <1>3, <1>4, <2>1, ReleaseStep
  <2>3. at' \in [Jobs -> Places] /\ at'[j] = "settle"
    BY <1>4, <2>1, Moved DEF Inv
  <2>4. TypeOK'
    BY <1>1, <2>2, <2>3, DriverTypes DEF Inv, TypeOK, Releases
  <2>5. phase'[j] = "Cleaning" /\ Trace(j)'
    BY <1>1, <1>2, <2>2, <2>3 DEF Releases, Trace
  <2> QED
    BY <1>1, <1>2, <2>2, <2>3, <2>4, <2>5, DriverStep
<1>5. CASE wake' = [wake EXCEPT ![j] = FALSE] /\ Goto(j, "check") /\ UNCHANGED <<phase, queue, occupied>>
  <2>1. "check" \in Places
    BY DEF Places
  <2>2. OthersKept(j) /\ Slotting' /\ InTurn
    BY <1>1, <1>3, <1>5, <2>1, LocalStep
  <2>3. at' \in [Jobs -> Places] /\ at'[j] = "check"
    BY <1>5, <2>1, Moved DEF Inv
  <2>4. wake' \in [Jobs -> BOOLEAN]
    BY <1>5 DEF Inv, TypeOK
  <2>5. TypeOK'
    BY <1>1, <1>5, <2>3, <2>4, DriverTypes DEF Inv, TypeOK
  <2>6. phase'[j] = phase[j] /\ Trace(j)'
    BY <1>1, <1>2, <1>5, <2>3 DEF Trace
  <2> QED
    BY <1>1, <1>2, <2>2, <2>3, <2>5, <2>6, DriverStep
<1> QED
  BY <1>4, <1>5 DEF AwaitSlot

\* A panic of the provider marks the job itself only.
LEMMA Panics ==
  ASSUME Inv, NEW j \in Jobs, failed' \in MayPanic(j)
  PROVE  /\ failed \subseteq failed' /\ failed' \subseteq Jobs
         /\ \A i \in Jobs \ {j} : i \in failed' <=> i \in failed
<1>1. failed' = failed \/ failed' = failed \cup {j}
  BY DEF MayPanic
<1>2. failed \subseteq Jobs
  BY DEF Inv, TypeOK
<1> QED
  BY <1>1, <1>2

\* Validation passes, or the job settles without a call.
LEMMA PreflightStep ==
  ASSUME Inv, NEW j \in Jobs, Preflight(j)
  PROVE  Inv' /\ InTurn
<1>1. /\ at[j] = "preflight"
      /\ UNCHANGED <<lifecycle, open, phase, queue, occupied, wake, reservation, signals, recorded, ledgers,
                     permits, closures>>
  BY DEF Preflight, scheduler
<1>2. PICK p \in {"settle", "enter"} : failed' \in MayPanic(j) /\ Goto(j, p)
  BY DEF Preflight, MayPanic
<1>3. j \in Inflight /\ Trace(j) /\ phase[j] \in {"Queued", "Preparing", "Executing", "Cleaning"}
  BY <1>1, Driven
<1>4. /\ failed \subseteq failed' /\ failed' \subseteq Jobs
      /\ \A i \in Jobs \ {j} : i \in failed' <=> i \in failed
  BY <1>2, Panics
<1>5. p \in Places /\ KeepsRecords(j)
  BY <1>1, <1>4 DEF Places, KeepsRecords
<1>6. OthersKept(j) /\ Slotting' /\ InTurn
  BY <1>1, <1>2, <1>5, LocalStep
<1>7. at' \in [Jobs -> Places] /\ at'[j] = p
  BY <1>2, <1>5, Moved DEF Inv
<1>8. TypeOK'
  BY <1>1, <1>4, <1>7, DriverTypes DEF Inv, TypeOK
<1>9. phase'[j] = phase[j] /\ Trace(j)'
  BY <1>1, <1>3, <1>7 DEF Trace
<1> QED
  BY <1>1, <1>3, <1>6, <1>7, <1>8, <1>9, DriverStep

\* The call begins in the slot of the job, with its reservation charged.
LEMMA StartProviderStep ==
  ASSUME Inv, NEW j \in Jobs, StartProvider(j)
  PROVE  Inv' /\ InTurn
<1>1. /\ at[j] = "enter"
      /\ UNCHANGED <<lifecycle, open, queue, occupied, wake, signals, recorded, failed, ledgers, permits, closures>>
  BY DEF StartProvider, evidence
<1>2. j \in Inflight /\ Trace(j) /\ phase[j] \in {"Queued", "Preparing", "Executing", "Cleaning"}
  BY <1>1, Driven
<1>3. CASE /\ reservation' = [reservation EXCEPT ![j] = "started"]
           /\ phase' = [phase EXCEPT ![j] = "Executing"] /\ Goto(j, "call")
  <2>1. /\ reservation' \in [Jobs -> {"none", "reserved", "started", "settled"}]
        /\ reservation'[j] = "started" /\ \A i \in Jobs \ {j} : reservation'[i] = reservation[i]
    BY <1>3 DEF Inv, TypeOK
  <2>2. /\ phase' \in [Jobs -> Phases] /\ phase'[j] = "Executing"
        /\ \A i \in Jobs \ {j} : phase'[i] = phase[i]
    BY <1>3 DEF Inv, TypeOK, Phases
  <2>3. /\ at' \in [Jobs -> Places] /\ at'[j] = "call" /\ \A i \in Jobs \ {j} : at'[i] = at[i]
    BY <1>3, Moved DEF Inv, Places
  <2>4. phase[j] = "Preparing"
    BY <1>1, <1>2 DEF Trace
  <2>5. OthersKept(j)
    BY <1>1, <2>1, <2>2, <2>3 DEF OthersKept
  <2>6. Slotting'
    <3>1. Slots' = Slots /\ Queued' = Queued
      BY <2>2, <2>4 DEF Slots, Queued
    <3> QED
      BY <1>1, <3>1 DEF Inv, Slotted, Slotting, Once
  <2>7. TypeOK'
    BY <1>1, <2>1, <2>2, <2>3, DriverTypes DEF Inv, TypeOK
  <2>8. Trace(j)'
    BY <1>1, <1>2, <2>1, <2>2, <2>3 DEF Trace
  <2>9. InTurn
    BY <1>1, <2>2 DEF InTurn
  <2> QED
    BY <1>1, <1>2, <2>2, <2>3, <2>5, <2>6, <2>7, <2>8, <2>9, DriverStep
<1>4. CASE Goto(j, "settle") /\ UNCHANGED <<reservation, phase>>
  <2>1. "settle" \in Places /\ KeepsRecords(j)
    BY <1>1, <1>4 DEF Places, KeepsRecords
  <2>2. OthersKept(j) /\ Slotting' /\ InTurn
    BY <1>1, <1>4, <2>1, LocalStep
  <2>3. at' \in [Jobs -> Places] /\ at'[j] = "settle"
    BY <1>4, <2>1, Moved DEF Inv
  <2>4. TypeOK'
    BY <1>1, <1>4, <2>3, DriverTypes DEF Inv, TypeOK
  <2>5. phase'[j] = phase[j] /\ Trace(j)'
    BY <1>1, <1>2, <1>4, <2>3 DEF Trace
  <2> QED
    BY <1>1, <1>2, <2>2, <2>3, <2>4, <2>5, DriverStep
<1> QED
  BY <1>3, <1>4 DEF StartProvider

\* The call ends, by itself or by a signal; its slot is still taken.
LEMMA CallEndStep ==
  ASSUME Inv, NEW j \in Jobs, ProviderEnds(j) \/ CallInterrupted(j)
  PROVE  Inv' /\ InTurn
<1>1. /\ at[j] = "call" /\ failed' \in MayPanic(j) /\ Goto(j, "settle")
      /\ UNCHANGED <<lifecycle, open, phase, queue, occupied, wake, reservation, signals, recorded, ledgers,
                     permits, closures>>
  BY DEF ProviderEnds, CallInterrupted, MayPanic, scheduler, evidence
<1>2. j \in Inflight /\ Trace(j) /\ phase[j] \in {"Queued", "Preparing", "Executing", "Cleaning"}
  BY <1>1, Driven
<1>3. /\ failed \subseteq failed' /\ failed' \subseteq Jobs
      /\ \A i \in Jobs \ {j} : i \in failed' <=> i \in failed
  BY <1>1, Panics
<1>4. "settle" \in Places /\ KeepsRecords(j)
  BY <1>1, <1>3 DEF Places, KeepsRecords
<1>5. OthersKept(j) /\ Slotting' /\ InTurn
  BY <1>1, <1>4, LocalStep
<1>6. at' \in [Jobs -> Places] /\ at'[j] = "settle"
  BY <1>1, <1>4, Moved DEF Inv
<1>7. TypeOK'
  BY <1>1, <1>3, <1>6, DriverTypes DEF Inv, TypeOK
<1>8. phase'[j] = phase[j] /\ Trace(j)'
  BY <1>1, <1>2, <1>6 DEF Trace
<1> QED
  BY <1>1, <1>2, <1>5, <1>6, <1>7, <1>8, DriverStep

\* The reservation is settled, then the slot goes on.
LEMMA SettleStep ==
  ASSUME Inv, NEW j \in Jobs, Settle(j)
  PROVE  Inv' /\ InTurn
<1>1. /\ at[j] = "settle" /\ Release(j) /\ Goto(j, "result")
      /\ reservation' = [reservation EXCEPT ![j] = "settled"]
      /\ failed' = failed \/ failed' = failed \ {j}
      /\ UNCHANGED <<lifecycle, open, signals, recorded, ledgers, permits, closures>>
  BY DEF Settle
<1>2. j \in Inflight /\ Trace(j) /\ phase[j] \in {"Queued", "Preparing", "Executing", "Cleaning"}
  BY <1>1, Driven
<1>3. /\ reservation' \in [Jobs -> {"none", "reserved", "started", "settled"}]
      /\ reservation'[j] = "settled" /\ \A i \in Jobs \ {j} : reservation'[i] = reservation[i]
  BY <1>1 DEF Inv, TypeOK
<1>4. failed' \subseteq Jobs /\ \A i \in Jobs \ {j} : i \in failed' <=> i \in failed
  BY <1>1 DEF Inv, TypeOK
<1>5. "result" \in Places /\ KeepsRecords(j)
  BY <1>1, <1>3, <1>4 DEF Places, KeepsRecords
<1>6. OthersKept(j) /\ Releases(j) /\ Slotting' /\ InTurn
  BY <1>1, <1>2, <1>5, ReleaseStep
<1>7. at' \in [Jobs -> Places] /\ at'[j] = "result"
  BY <1>1, <1>5, Moved DEF Inv
<1>8. TypeOK'
  BY <1>1, <1>3, <1>4, <1>6, <1>7, DriverTypes DEF Inv, TypeOK, Releases
<1>9. phase'[j] = "Cleaning" /\ Trace(j)'
  BY <1>1, <1>2, <1>3, <1>6, <1>7 DEF Releases, Trace
<1> QED
  BY <1>1, <1>2, <1>6, <1>7, <1>8, <1>9, DriverStep

\* Both records of the job are durable.
LEMMA RecordResultStep ==
  ASSUME Inv, NEW j \in Jobs, RecordResult(j)
  PROVE  Inv' /\ InTurn
<1>1. /\ at[j] = "result" /\ Goto(j, "close")
      /\ recorded' = [recorded EXCEPT ![j] = @ \cup {"result"}]
      /\ UNCHANGED <<lifecycle, open, phase, queue, occupied, wake, reservation, signals, failed, ledgers,
                     permits, closures>>
  BY DEF RecordResult, scheduler
<1>2. j \in Inflight /\ Trace(j) /\ phase[j] \in {"Queued", "Preparing", "Executing", "Cleaning"}
  BY <1>1, Driven
<1>3. /\ recorded' \in [Jobs -> SUBSET {"request", "result"}]
      /\ recorded'[j] = recorded[j] \cup {"result"}
      /\ \A i \in Jobs \ {j} : recorded'[i] = recorded[i]
  BY <1>1 DEF Inv, TypeOK
<1>4. "close" \in Places /\ KeepsRecords(j)
  BY <1>1, <1>3 DEF Places, KeepsRecords
<1>5. OthersKept(j) /\ Slotting' /\ InTurn
  BY <1>1, <1>4, LocalStep
<1>6. at' \in [Jobs -> Places] /\ at'[j] = "close"
  BY <1>1, <1>4, Moved DEF Inv
<1>7. TypeOK'
  BY <1>1, <1>3, <1>6, DriverTypes DEF Inv, TypeOK
<1>8. phase'[j] = phase[j] /\ Trace(j)'
  <2>1. recorded'[j] = {"request", "result"}
    BY <1>1, <1>2, <1>3 DEF Trace
  <2> QED
    BY <1>1, <1>2, <1>6, <2>1 DEF Trace
<1> QED
  BY <1>1, <1>2, <1>5, <1>6, <1>7, <1>8, DriverStep

\* A driver that panics or is dropped leaves its job to the guard.
LEMMA UnwindStep ==
  ASSUME Inv, NEW j \in Jobs, Unwind(j)
  PROVE  Inv' /\ InTurn
<1>1. /\ at[j] \notin {"none", "close", "remove", "done"} /\ Goto(j, "close") /\ failed' = failed \cup {j}
      /\ UNCHANGED <<lifecycle, open, phase, queue, occupied, wake, reservation, signals, recorded, ledgers,
                     permits, closures>>
  BY DEF Unwind, scheduler
<1>2. j \in Inflight /\ Trace(j) /\ phase[j] \in {"Queued", "Preparing", "Executing", "Cleaning"}
  BY <1>1, Driven
<1>3. "close" \in Places /\ KeepsRecords(j)
  BY <1>1 DEF Places, KeepsRecords
<1>4. OthersKept(j) /\ Slotting' /\ InTurn
  BY <1>1, <1>3, LocalStep
<1>5. at' \in [Jobs -> Places] /\ at'[j] = "close"
  BY <1>1, <1>3, Moved DEF Inv
<1>6. TypeOK'
  BY <1>1, <1>5, DriverTypes DEF Inv, TypeOK
<1>7. phase'[j] = phase[j] /\ Trace(j)'
  BY <1>1, <1>2, <1>5 DEF Trace
<1> QED
  BY <1>1, <1>2, <1>4, <1>5, <1>6, <1>7, DriverStep

\* The guard settles what is still open and gives the slot back.
LEMMA CloseStep ==
  ASSUME Inv, NEW j \in Jobs, Close(j)
  PROVE  Inv' /\ InTurn
<1>1. /\ at[j] = "close" /\ Release(j) /\ Goto(j, "remove")
      /\ reservation' = [reservation EXCEPT ![j] = "settled"]
      /\ UNCHANGED <<lifecycle, open, signals, recorded, failed, ledgers, permits, closures>>
  BY DEF Close, SettledByGuard, evidence
<1>2. j \in Inflight /\ Trace(j) /\ phase[j] \in {"Queued", "Preparing", "Executing", "Cleaning"}
  BY <1>1, Driven
<1>3. /\ reservation' \in [Jobs -> {"none", "reserved", "started", "settled"}]
      /\ reservation'[j] = "settled" /\ \A i \in Jobs \ {j} : reservation'[i] = reservation[i]
  BY <1>1 DEF Inv, TypeOK
<1>4. "remove" \in Places /\ KeepsRecords(j)
  BY <1>1, <1>3 DEF Places, KeepsRecords
<1>5. OthersKept(j) /\ Releases(j) /\ Slotting' /\ InTurn
  BY <1>1, <1>2, <1>4, ReleaseStep
<1>6. at' \in [Jobs -> Places] /\ at'[j] = "remove"
  BY <1>1, <1>4, Moved DEF Inv
<1>7. TypeOK'
  BY <1>1, <1>3, <1>5, <1>6, DriverTypes DEF Inv, TypeOK, Releases
<1>8. phase'[j] = "Cleaning" /\ Trace(j)'
  BY <1>1, <1>2, <1>3, <1>5, <1>6 DEF Releases, Trace
<1> QED
  BY <1>1, <1>2, <1>5, <1>6, <1>7, <1>8, DriverStep

\* A job that leaves the tables leaves its failure with the runtime and with
\* its turn, neither of which has drained while it was there.
LEMMA LeaveTablesStep ==
  ASSUME Inv, NEW j \in Jobs, LeaveTables(j)
  PROVE  Inv' /\ InTurn
<1> DEFINE t == TurnOf[j]
<1>1. /\ at[j] = "remove" /\ Goto(j, "done") /\ RecordFailure(j) /\ NotifyDrained(j)
      /\ phase' = [phase EXCEPT ![j] = "gone"]
      /\ UNCHANGED <<lifecycle, open, queue, occupied, wake, reservation, signals, recorded, failed, closures>>
  BY DEF LeaveTables, evidence
<1>2. j \in Inflight /\ Trace(j) /\ t \in Turns
  BY <1>1, Driven, TurnOfAssumption
<1>3. /\ phase' \in [Jobs -> Phases] /\ phase'[j] = "gone" /\ phase[j] = "Cleaning"
      /\ \A i \in Jobs \ {j} : phase'[i] = phase[i]
  BY <1>1, <1>2 DEF Inv, TypeOK, Phases, Trace
<1>4. at' \in [Jobs -> Places] /\ at'[j] = "done" /\ \A i \in Jobs \ {j} : at'[i] = at[i]
  BY <1>1, Moved DEF Inv, Places
<1>5. /\ unack' = IF j \in failed THEN unack \cup {j} ELSE unack
      /\ ledger' = IF j \in failed THEN [ledger EXCEPT ![t] = @ \cup {j}] ELSE ledger
  BY <1>1 DEF RecordFailure, ledgers
<1>6. drained' \in BOOLEAN /\ turnDrained' \in [Turns -> BOOLEAN]
  BY <1>1 DEF NotifyDrained, Inv, TypeOK
<1>7. TypeOK'
  <2>1. unack' \subseteq Jobs /\ ledger' \in [Turns -> SUBSET Jobs]
    BY ZenonT(40), <1>5 DEF Inv, TypeOK
  <2> QED
    BY <1>1, <1>3, <1>4, <1>6, <2>1 DEF Inv, TypeOK, signals, closures
<1>8. OthersKept(j)
  BY <1>1, <1>3, <1>4 DEF OthersKept
<1>9. Traces'
  <2>1. Trace(j)'
    BY <1>1, <1>2, <1>3, <1>4 DEF Trace
  <2>2. ASSUME NEW i \in Jobs PROVE Trace(i)'
    BY <1>8, <2>1, TraceKept DEF Inv
  <2> QED
    BY <2>2 DEF Traces
<1>10. Slotting'
  <2>1. Slots' = Slots /\ Queued' = Queued
    BY <1>3 DEF Slots, Queued
  <2> QED
    BY <1>1, <2>1 DEF Inv, Slotted, Slotting, Once
<1>11. Inflight' = Inflight \ {j}
  BY <1>3 DEF Inflight
<1>12. IsFiniteSet(Inflight')
  BY <1>11, FS_RemoveElement DEF Inv, Slotted
<1>13. Closed'
  BY <1>1, <1>2, <1>11 DEF Inv, Closed, closures, JobsOf
<1>14. Failures'
  <2>1. \A i \in failed : at'[i] = "done" /\ i # j => at[i] = "done"
    BY <1>4 DEF Inv, TypeOK
  <2>2. unack \subseteq unack' /\ \A u \in Turns : ledger[u] \subseteq ledger'[u]
    BY <1>5 DEF Inv, TypeOK
  <2>3. \A i \in Jobs : TurnOf[i] \in Turns
    BY TurnOfAssumption
  <2>4. finisher[t] \notin {"acknowledge", "done"}
    BY <1>2 DEF Inv, Closed, JobsOf, Inflight
  <2>5. j \in failed => j \in unack' /\ j \in ledger'[t]
    BY <1>2, <1>5 DEF Inv, TypeOK
  <2>6. failed' = failed /\ finisher' = finisher /\ told' = told /\ failed \subseteq Jobs
    BY <1>1 DEF closures, Inv, TypeOK
  <2>7. ASSUME NEW i \in failed, at'[i] = "done", i # j
        PROVE  /\ i \in unack' \cup told.finish \cup told.stop
               /\ i \in ledger'[TurnOf[i]] \cup told.finish
               /\ finisher[TurnOf[i]] \in {"acknowledge", "done"} => i \in told.finish
    BY <2>1, <2>2, <2>3, <2>6, <2>7 DEF Inv, Failures
  <2> QED
    BY <2>4, <2>5, <2>6, <2>7 DEF Failures
<1>15. InTurn
  BY <1>1, <1>3 DEF InTurn
<1> QED
  BY <1>7, <1>9, <1>10, <1>12, <1>13, <1>14, <1>15 DEF Inv, Slotted

-----------------------------------------------------------------------------
(***************************************************************************)
(* finish and stop.                                                        *)
(***************************************************************************)
\* What the closures never touch.
LEMMA ClosureStep ==
  ASSUME Inv, TypeOK', Closed', Failures',
         UNCHANGED <<phase, queue, occupied, at, reservation, recorded, failed>>,
         lifecycle' = "Running" => lifecycle = "Running"
  PROVE  Inv' /\ UNCHANGED <<phase, queue>>
<1>1. Traces'
  BY DEF Inv, Traces, Trace
<1>2. Slotted'
  BY SlottingKept DEF Inv, Slotted, Inflight
<1> QED
  BY <1>1, <1>2 DEF Inv

\* finish closes its turn before it looks for jobs.
LEMMA FinishBeginStep ==
  ASSUME Inv, NEW t \in Turns, NEW mode, FinishBegin(t, mode)
  PROVE  Inv' /\ UNCHANGED <<phase, queue>>
<1>1. /\ finisher[t] = "idle" /\ open' = [open EXCEPT ![t] = "closed"]
      /\ cancelled' = [j \in Jobs |-> cancelled[j] \/ (mode = "Cancel" /\ j \in Inflight \cap JobsOf(t))]
      /\ finisher' = [finisher EXCEPT ![t] = "check"]
      /\ UNCHANGED <<lifecycle, phase, queue, occupied, wake, at, reservation, turnCancelled, budgetStopped,
                     expired, dropped, recorded, failed, unack, ledger, drained, turnDrained, stopper, told>>
  BY DEF FinishBegin, scheduler, evidence, ledgers, permits
<1>2. TypeOK'
  <2>1. cancelled' \in [Jobs -> BOOLEAN]
    BY <1>1 DEF Inv, TypeOK
  <2>2. /\ open' \in [Turns -> {"unbound", "open", "closed"}]
        /\ finisher' \in [Turns -> {"idle", "check", "await", "take", "acknowledge", "done", "abandoned"}]
    BY <1>1 DEF Inv, TypeOK
  <2> QED
    BY <1>1, <2>1, <2>2 DEF Inv, TypeOK
<1>3. \A u \in Turns : IF u = t THEN open'[u] = "closed" /\ finisher'[u] = "check"
                                ELSE open'[u] = open[u] /\ finisher'[u] = finisher[u]
  BY <1>1 DEF Inv, TypeOK
<1>4. Closed'
  BY <1>1, <1>3 DEF Inv, Closed, JobsOf, Inflight
<1>5. Failures'
  <2>1. \A i \in failed : TurnOf[i] \in Turns
    BY TurnOfAssumption DEF Inv, TypeOK
  <2> QED
    BY <1>1, <1>3, <2>1 DEF Inv, Failures
<1> QED
  BY <1>1, <1>2, <1>4, <1>5, ClosureStep

\* finish goes on only when no job of its turn is in flight, and tells the
\* failures of all of them before it acknowledges them.
LEMMA FinishStep ==
  ASSUME Inv, NEW t \in Turns, Finish(t) \/ FinishDrop(t)
  PROVE  Inv' /\ UNCHANGED <<phase, queue>>
<1> DEFINE Fin == {"idle", "check", "await", "take", "acknowledge", "done", "abandoned"}
<1>t. \A i \in failed : i \in Jobs /\ TurnOf[i] \in Turns
  BY TurnOfAssumption DEF Inv, TypeOK
<1>1. ASSUME NEW p \in Fin \ {"idle", "acknowledge", "done"}, finisher[t] # "idle",
             finisher' = [finisher EXCEPT ![t] = p],
             p = "take" => Inflight \cap JobsOf(t) = {},
             turnDrained' \in [Turns -> BOOLEAN],
             UNCHANGED <<lifecycle, open, phase, queue, occupied, wake, at, reservation, signals, recorded,
                         failed, unack, ledger, drained, stopper, told>>
      PROVE  Inv' /\ UNCHANGED <<phase, queue>>
  <2>1. /\ finisher' \in [Turns -> Fin]
        /\ \A u \in Turns : finisher'[u] = IF u = t THEN p ELSE finisher[u]
    BY <1>1 DEF Inv, TypeOK
  <2>2. TypeOK'
    BY <1>1, <2>1 DEF Inv, TypeOK, signals
  <2>3. Closed'
    BY <1>1, <2>1 DEF Inv, Closed, JobsOf, Inflight
  <2>4. Failures'
    BY <1>1, <1>t, <2>1 DEF Inv, Failures
  <2> QED
    BY <1>1, <2>2, <2>3, <2>4, ClosureStep
<1>2. CASE FinishCheck(t)
  <2> DEFINE p == IF Inflight \cap JobsOf(t) = {} THEN "take" ELSE "await"
  <2>1. /\ p \in Fin \ {"idle", "acknowledge", "done"} /\ finisher[t] # "idle"
        /\ finisher' = [finisher EXCEPT ![t] = p] /\ (p = "take" => Inflight \cap JobsOf(t) = {})
        /\ turnDrained' \in [Turns -> BOOLEAN]
        /\ UNCHANGED <<lifecycle, open, phase, queue, occupied, wake, at, reservation, signals, recorded,
                       failed, unack, ledger, drained, stopper, told>>
    BY <1>2 DEF FinishCheck, scheduler, evidence, ledgers, permits, Inv, TypeOK
  <2> HIDE DEF p
  <2> QED
    BY <1>1, <2>1
<1>3. CASE FinishAwait(t)
  <2>1. /\ finisher[t] # "idle" /\ finisher' = [finisher EXCEPT ![t] = "check"]
        /\ turnDrained' \in [Turns -> BOOLEAN]
        /\ UNCHANGED <<lifecycle, open, phase, queue, occupied, wake, at, reservation, signals, recorded,
                       failed, unack, ledger, drained, stopper, told>>
    BY <1>3 DEF FinishAwait, Rechecked, scheduler, evidence, ledgers, Inv, TypeOK
  <2> QED
    BY <1>1, <2>1
<1>4. CASE FinishDrop(t)
  <2>1. /\ finisher[t] # "idle" /\ finisher' = [finisher EXCEPT ![t] = "abandoned"]
        /\ turnDrained' \in [Turns -> BOOLEAN]
        /\ UNCHANGED <<lifecycle, open, phase, queue, occupied, wake, at, reservation, signals, recorded,
                       failed, unack, ledger, drained, stopper, told>>
    BY <1>4 DEF FinishDrop, scheduler, evidence, ledgers, permits, Inv, TypeOK
  <2> QED
    BY <1>1, <2>1
<1>5. CASE FinishTake(t)
  <2>1. /\ finisher[t] = "take" /\ finisher' = [finisher EXCEPT ![t] = "acknowledge"]
        /\ told' = [told EXCEPT !.finish = @ \cup ledger[t]]
        /\ ledger' = [ledger EXCEPT ![t] = {}]
        /\ UNCHANGED <<lifecycle, open, phase, queue, occupied, wake, at, reservation, signals, recorded,
                       failed, unack, drained, turnDrained, stopper>>
    BY <1>5 DEF FinishTake, scheduler, evidence, permits
  <2>2. /\ finisher' \in [Turns -> Fin]
        /\ \A u \in Turns : finisher'[u] = IF u = t THEN "acknowledge" ELSE finisher[u]
    BY <2>1 DEF Inv, TypeOK
  <2>3. /\ told' \in [finish : SUBSET Jobs, stop : SUBSET Jobs]
        /\ told'.finish = told.finish \cup ledger[t] /\ told'.stop = told.stop
    BY <2>1 DEF Inv, TypeOK
  <2>4. /\ ledger' \in [Turns -> SUBSET Jobs]
        /\ \A u \in Turns : ledger'[u] = IF u = t THEN {} ELSE ledger[u]
    BY <2>1 DEF Inv, TypeOK
  <2>5. TypeOK'
    BY <2>1, <2>2, <2>3, <2>4 DEF Inv, TypeOK, signals
  <2>6. Closed'
    BY <2>1, <2>2, <2>3 DEF Inv, Closed, JobsOf, Inflight
  <2>7. Failures'
    BY <1>t, <2>1, <2>2, <2>3, <2>4 DEF Inv, Failures
  <2> QED
    BY <2>1, <2>5, <2>6, <2>7, ClosureStep
<1>6. CASE FinishAcknowledge(t)
  <2>1. /\ finisher[t] = "acknowledge" /\ finisher' = [finisher EXCEPT ![t] = "done"]
        /\ unack' = unack \ JobsOf(t)
        /\ UNCHANGED <<lifecycle, open, phase, queue, occupied, wake, at, reservation, signals, recorded,
                       failed, ledger, drained, turnDrained, stopper, told>>
    BY <1>6 DEF FinishAcknowledge, scheduler, evidence, permits
  <2>2. /\ finisher' \in [Turns -> Fin]
        /\ \A u \in Turns : finisher'[u] = IF u = t THEN "done" ELSE finisher[u]
    BY <2>1 DEF Inv, TypeOK
  <2>3. TypeOK'
    BY <2>1, <2>2 DEF Inv, TypeOK, signals
  <2>4. Closed'
    BY <2>1, <2>2 DEF Inv, Closed, JobsOf, Inflight
  <2>5. Failures'
    BY <1>t, <2>1, <2>2 DEF Inv, Failures, JobsOf
  <2> QED
    BY <2>1, <2>3, <2>4, <2>5, ClosureStep
<1> QED
  BY <1>2, <1>3, <1>4, <1>5, <1>6 DEF Finish

\* stop admits nobody any more before it looks for jobs, and returns every
\* failure that no finish has returned.
LEMMA StopStep ==
  ASSUME Inv, StopBegin \/ Stop
  PROVE  Inv' /\ UNCHANGED <<phase, queue>>
<1>1. CASE StopBegin
  <2>1. /\ lifecycle \in {"Constructed", "Running"} /\ lifecycle' = "Stopping"
        /\ cancelled' = [j \in Jobs |-> cancelled[j] \/ j \in Inflight]
        /\ stopper' = "check"
        /\ UNCHANGED <<open, phase, queue, occupied, wake, at, reservation, turnCancelled, budgetStopped, expired,
                       dropped, recorded, failed, unack, ledger, drained, turnDrained, finisher, told>>
    BY <1>1 DEF StopBegin, CancelAll, scheduler, evidence, ledgers, permits
  <2>2. TypeOK'
    <3>1. cancelled' \in [Jobs -> BOOLEAN]
      BY <2>1 DEF Inv, TypeOK
    <3> QED
      BY <2>1, <3>1 DEF Inv, TypeOK
  <2>3. Closed'
    BY <2>1 DEF Inv, Closed, JobsOf, Inflight
  <2>4. Failures'
    BY <2>1 DEF Inv, Failures
  <2> QED
    BY <2>1, <2>2, <2>3, <2>4, ClosureStep
<1>2. CASE StopCheck \/ StopAwait
  <2>1. /\ stopper \in {"check", "await"} /\ stopper' \in {"check", "await", "take"}
        /\ stopper' = "take" => Inflight = {}
        /\ drained' \in BOOLEAN
        /\ UNCHANGED <<lifecycle, open, phase, queue, occupied, wake, at, reservation, signals, recorded, failed,
                       unack, ledger, turnDrained, finisher, told>>
    BY <1>2 DEF StopCheck, StopAwait, Rechecked, scheduler, evidence, ledgers, permits, Inv, TypeOK
  <2>2. TypeOK'
    BY <2>1 DEF Inv, TypeOK, signals
  <2>3. Closed'
    BY <2>1 DEF Inv, Closed, JobsOf, Inflight
  <2>4. Failures'
    BY <2>1 DEF Inv, Failures
  <2> QED
    BY <2>1, <2>2, <2>3, <2>4, ClosureStep
<1>3. CASE StopTake
  <2>1. /\ stopper = "take" /\ stopper' = "done" /\ lifecycle' = "Stopped"
        /\ told' = [told EXCEPT !.stop = unack] /\ unack' = {}
        /\ UNCHANGED <<open, phase, queue, occupied, wake, at, reservation, signals, recorded, failed, ledger,
                       drained, turnDrained, finisher>>
    BY <1>3 DEF StopTake, scheduler, evidence, permits
  <2>2. /\ told' \in [finish : SUBSET Jobs, stop : SUBSET Jobs]
        /\ told'.finish = told.finish /\ told'.stop = unack
    BY <2>1 DEF Inv, TypeOK
  <2>3. TypeOK'
    BY <2>1, <2>2 DEF Inv, TypeOK, signals
  <2>4. Closed'
    BY <2>1, <2>2 DEF Inv, Closed, JobsOf, Inflight
  <2>5. Failures'
    <3>1. told.stop = {}
      BY <2>1 DEF Inv, Closed
    <3> QED
      BY <2>1, <2>2, <3>1 DEF Inv, Failures
  <2> QED
    BY <2>1, <2>3, <2>4, <2>5, ClosureStep
<1> QED
  BY <1>1, <1>2, <1>3 DEF Stop

-----------------------------------------------------------------------------
(***************************************************************************)
(* The theorems.                                                           *)
(***************************************************************************)
\* The runtime begins with no job, no slot taken and an empty queue.
LEMMA InitInv == Init => Inv
<1> SUFFICES ASSUME Init PROVE Inv
  OBVIOUS
<1>1. TypeOK
  <2>1. queue \in Seq(Jobs) /\ occupied \in Nat /\ told \in [finish : SUBSET Jobs, stop : SUBSET Jobs]
    BY DEF Init
  <2>2. phase \in [Jobs -> Phases] /\ at \in [Jobs -> Places]
    BY DEF Init, Phases, Places
  <2> QED
    BY <2>1, <2>2 DEF Init, TypeOK
<1>2. Traces
  BY DEF Init, Traces, Trace
<1>3. Slotted
  <2>1. Inflight = {} /\ Slots = {} /\ Queued = {} /\ ToSet(queue) = {} /\ Once(queue)
    BY DEF Init, Inflight, Slots, Queued, ToSet, Once
  <2> QED
    BY <2>1, FS_EmptySet, ConfigAssumption DEF Init, Slotted, Slotting
<1>4. Closed
  BY DEF Init, Closed, Inflight, JobsOf
<1>5. Failures
  BY DEF Init, Failures
<1> QED
  BY <1>1, <1>2, <1>3, <1>4, <1>5 DEF Inv

\* Every step keeps the invariant, and the order of those that wait.
LEMMA NextInv ==
  ASSUME Inv, [Next]_vars
  PROVE  Inv' /\ InTurn
<1>1. ASSUME Inv', UNCHANGED <<phase, queue>> PROVE Inv' /\ InTurn
  BY <1>1 DEF InTurn
<1>2. ASSUME UNCHANGED vars PROVE Inv' /\ InTurn
  <2>1. TypeOK'
    BY <1>2 DEF vars, scheduler, signals, evidence, ledgers, permits, closures, Inv, TypeOK
  <2>2. Inv'
    BY <1>2, <2>1, NothingTold DEF vars, scheduler, evidence, closures
  <2> QED
    BY <1>1, <1>2, <2>2 DEF vars, scheduler
<1>3. ASSUME NEW j \in Jobs, Driver(j) PROVE Inv' /\ InTurn
  BY <1>3, RecordInterruptedStep, RecordRequestStep, CheckSlotStep, AwaitSlotStep, PreflightStep,
     StartProviderStep, CallEndStep, SettleStep, RecordResultStep, CloseStep, LeaveTablesStep DEF Driver
<1>4. ASSUME NEW j \in Jobs, Admit(j) \/ ProviderEnds(j) \/ RecordFailed(j) \/ Unwind(j) PROVE Inv' /\ InTurn
  BY <1>4, AdmitStep, CallEndStep, RecordFailedStep, UnwindStep
<1>5. ASSUME NEW t \in Turns, BindTurn(t) \/ Finish(t) \/ FinishDrop(t) PROVE Inv' /\ InTurn
  BY <1>1, <1>5, BindStep, FinishStep
<1>6. ASSUME NEW t \in Turns, NEW mode \in {"Drain", "Cancel"}, FinishBegin(t, mode) PROVE Inv' /\ InTurn
  BY <1>1, <1>6, FinishBeginStep
<1>7. ASSUME Start \/ StopBegin \/ Stop \/ Environment PROVE Inv' /\ InTurn
  BY <1>1, <1>7, StartStep, StopStep, SignalStep
<1> QED
  BY <1>2, <1>3, <1>4, <1>5, <1>6, <1>7 DEF Next, Terminated

\* The invariant holds in every state.
LEMMA Invariance == Spec => []Inv
<1>1. Inv /\ [Next]_vars => Inv'
  BY NextInv
<1> QED
  BY <1>1, InitInv, PTL DEF Spec

\* Every variable keeps its type; the count of occupied slots never goes below
\* zero, so the usize of release_execution does not wrap.
THEOREM TypesCorrect == Spec => []TypeOK
<1>1. Inv => TypeOK
  BY DEF Inv
<1> QED
  BY <1>1, Invariance, PTL

\* The invariant counts slots, waiters and calls right.
LEMMA SlotsFromInv == ASSUME Inv PROVE SlotsRight
<1>1. /\ occupied = Cardinality(Slots) /\ occupied <= MaxConcurrency /\ occupied \in Nat
      /\ ToSet(queue) = Queued /\ Once(queue) /\ queue \in Seq(Jobs)
      /\ (lifecycle = "Running" /\ queue # <<>> => occupied = MaxConcurrency)
      /\ IsFiniteSet(Slots)
  BY SlotsFinite DEF Inv, TypeOK, Slotted, Slotting
<1>2. Cardinality(ToSet(queue)) = Len(queue)
  BY <1>1, OnceCounted
<1>3. SlotsExact
  BY <1>1, <1>2 DEF SlotsExact, Slots, Queued
<1>4. NoIdleSlot
  BY <1>1 DEF NoIdleSlot
<1>5. CallsAccounted
  <2> DEFINE calls == {j \in Jobs : at[j] = "call"}
  <2>1. \A j \in Jobs : at[j] = "call" =>
          phase[j] = "Executing" /\ "request" \in recorded[j] /\ reservation[j] = "started"
    BY DEF Inv, Traces, Trace
  <2>2. calls \subseteq Slots
    BY <2>1 DEF Slots
  <2> HIDE DEF calls
  <2>3. IsFiniteSet(calls) /\ Cardinality(calls) <= Cardinality(Slots)
    BY <1>1, <2>2, FS_Subset
  <2>4. Cardinality(calls) \in Nat /\ MaxConcurrency \in Nat
    BY <2>3, FS_CardinalityType, ConfigAssumption
  <2>5. Cardinality(calls) <= MaxConcurrency
    BY <1>1, <2>3, <2>4
  <2> QED
    BY <2>1, <2>5 DEF CallsAccounted, calls
<1> QED
  BY <1>3, <1>4, <1>5 DEF SlotsRight, Inv

\* Slots are counted right through every release, timeout and abandonment and
\* never overcommitted, no free slot leaves a job waiting, and a provider is
\* called in a slot only, with the request durable and the attempt charged.
THEOREM SlotsAreRight == Spec => []SlotsRight
<1>1. Inv => SlotsRight
  BY SlotsFromInv
<1> QED
  BY <1>1, Invariance, PTL

\* A turn that has drained has no job left, and so no open reservation; a
\* stopped runtime has no job, slot or call left.
LEMMA QuietFromInv == ASSUME Inv PROVE DrainedQuiet
<1>1. BudgetDrained
  <2> SUFFICES ASSUME NEW t \in Turns, finisher[t] \in {"take", "acknowledge", "done"}, NEW j \in JobsOf(t)
               PROVE  reservation[j] \in {"none", "settled"}
    BY DEF BudgetDrained
  <2>1. j \in Jobs /\ j \notin Inflight
    BY DEF Inv, Closed, JobsOf
  <2>2. at[j] \in {"none", "done"}
    BY <2>1, Whereabouts DEF Inv
  <2> QED
    BY <2>1, <2>2 DEF Inv, Traces, Trace
<1>2. StoppedQuiet
  <2> SUFFICES ASSUME lifecycle = "Stopped"
               PROVE  Inflight = {} /\ occupied = 0 /\ \A j \in Jobs : at[j] \in {"none", "done"}
    BY DEF StoppedQuiet
  <2>1. Inflight = {}
    BY DEF Inv, Closed
  <2>2. occupied = 0
    BY <2>1, Quiet
  <2>3. \A j \in Jobs : at[j] \in {"none", "done"}
    BY <2>1, Whereabouts DEF Inv
  <2> QED
    BY <2>1, <2>2, <2>3
<1> QED
  BY <1>1, <1>2 DEF DrainedQuiet

\* When a turn has drained, so has its budget, and when the runtime has
\* stopped, nothing of it runs: finish and stop speak of what has ended.
THEOREM DrainsAreQuiet == Spec => []DrainedQuiet
<1>1. Inv => DrainedQuiet
  BY QuietFromInv
<1> QED
  BY <1>1, Invariance, PTL

\* A job whose failure finish has not told has both its records.
LEMMA TruthFromInv == ASSUME Inv PROVE ClosureTruthful
<1>1. FinishTruthful
  <2> SUFFICES ASSUME NEW t \in Turns, finisher[t] = "done",
                      NEW j \in JobsOf(t), phase[j] # "none", j \notin told.finish
               PROVE  recorded[j] = {"request", "result"}
    BY DEF FinishTruthful
  <2>1. j \in Jobs /\ TurnOf[j] = t /\ j \notin Inflight
    BY DEF Inv, Closed, JobsOf
  <2>2. at[j] = "done"
    BY <2>1, Whereabouts DEF Inv
  <2>3. j \notin failed
    BY <2>1, <2>2 DEF Inv, Failures
  <2> QED
    BY <2>1, <2>2, <2>3 DEF Inv, Traces, Trace
<1>2. FailureKept
  <2> SUFFICES ASSUME NEW j \in failed, j \in Jobs, phase[j] = "gone"
               PROVE  j \in unack \cup told.finish \cup told.stop
    BY DEF FailureKept
  <2>1. at[j] = "done"
    BY Whereabouts DEF Inv
  <2> QED
    BY <2>1 DEF Inv, Failures
<1> QED
  BY <1>1, <1>2 DEF ClosureTruthful

\* What finish returns is true of every job of its turn, and no closure
\* failure is lost, also when finish is dropped or races with stop.
THEOREM ClosuresAreTruthful == Spec => []ClosureTruthful
<1>1. Inv => ClosureTruthful
  BY TruthFromInv
<1> QED
  BY <1>1, Invariance, PTL

\* No step lets a job get before one that waits on.
THEOREM NobodyOvertakes == Spec => NoOvertaking
<1>1. Inv /\ [Next]_vars => [InTurn]_vars
  BY NextInv
<1> QED
  BY <1>1, Invariance, PTL DEF Spec, NoOvertaking
=============================================================================
