-------------------------- MODULE OSProgramsProofs --------------------------
(***************************************************************************)
(* Safety of the programs of "assignment/OS 2" that wait for semaphores,   *)
(* for every number of threads and of iterations: the reusable barrier and *)
(* its refinement of Barrier, the readers and writers, the hungry tribe;   *)
(* of the simulated schedulers for all sets of tasks; and of the slab      *)
(* allocator for all requests.  A semaphore used as a lock has at most one *)
(* holder, named here by its control points; a sum that main relies on is  *)
(* counted as a set of pairs <<thread, iteration>> still owed to it.       *)
(***************************************************************************)
EXTENDS OSPrograms, FiniteSetTheorems, TLAPS

-----------------------------------------------------------------------------
(* The barrier.  While barr2 lets threads through (or one of them is       *)
(* between its wait and its post) threads come, while barr1 does they      *)
(* leave; in between one thread is swapping the turnstiles and all others  *)
(* are blocked at the one it is about to open.                             *)

\* t holds mtx.
BHolds(t) ==
  b_pc[t] \in {"come", "close2", "open1", "post", "leave", "close1", "open2", "post2"}

Coming  == barr2 = 1 \/ \E t \in Meeting : b_pc[t] = "pass2"
Leaving == barr1 = 1 \/ \E t \in Meeting : b_pc[t] = "pass1"

WhileComing  == {"work", "lock", "come", "close2", "post", "turn1", "post2", "turn2",
                 "pass2", "end"}
WhileLeaving == {"post", "turn1", "pass1", "lock2", "leave", "close1", "post2", "turn2"}

\* How often t has got out of the barrier's count.
Left(t) == b_pc[t] \in {"close1", "open2", "post2", "turn2", "pass2"}
Departures(t) == round[t] + (IF Left(t) THEN 1 ELSE 0)

InsideSet == {t \in Meeting : Barrier!Inside(t)}

BMutexInv ==
  /\ \A t \in Meeting : BHolds(t) => b_mtx = 0
  /\ \A t, u \in Meeting : BHolds(t) /\ BHolds(u) => t = u
BCountInv ==
  /\ count = Cardinality(InsideSet)
  /\ \A t \in Meeting : Barrier!AtBarrier(t) => round[t] < Rounds
BTurnstileInv ==
  /\ \A t \in Meeting : /\ b_pc[t] = "pass1" => barr1 = 0
                        /\ b_pc[t] = "pass2" => barr2 = 0
  /\ \A t, u \in Meeting : b_pc[t] = b_pc[u] /\ b_pc[t] \in {"pass1", "pass2"} => t = u
BPhaseInv ==
  /\ Coming \/ Leaving \/ \E t \in Meeting : b_pc[t] \in {"open1", "open2"}
  /\ Coming => ~ Leaving /\ \A t \in Meeting : b_pc[t] \in WhileComing
  /\ Leaving => \A t \in Meeting : b_pc[t] \in WhileLeaving
  /\ \A t, u \in Meeting : t # u =>
       /\ b_pc[t] = "open1" => b_pc[u] = "turn1"
       /\ b_pc[t] = "open2" => b_pc[u] = "turn2"
  /\ \A t, u \in Meeting : /\ b_pc[t] = "close2" => Barrier!Inside(u)
                           /\ b_pc[t] = "close1" => ~ Barrier!Inside(u)
BRoundInv ==
  \A t, u \in Meeting : /\ Coming => Departures(t) = Departures(u)
                        /\ ~ Coming => round[t] = round[u]

BInv == /\ Barrier!TypeOK /\ BMutexInv /\ BCountInv /\ BTurnstileInv /\ BPhaseInv
        /\ BRoundInv

\* How the variables of the barrier can change.
LEMMA BMoves ==
  ASSUME [Next]_vars
  PROVE  (\E t \in Meeting : Barrier!Thread(t)) \/ UNCHANGED barrierVars
  BY DEF Next, vars, barrierVars, SemWait, Other, Cook, Over, RWStep, BarrierStep, TribeStep,
     SlabStep, SimStep, PrimeStep

\* A step of t leaves the control point and the round of the others.
LEMMA BOthersStay ==
  ASSUME Barrier!TypeOK, NEW t \in Meeting, Barrier!Thread(t), NEW u \in Meeting, u # t
  PROVE  b_pc'[u] = b_pc[u] /\ round'[u] = round[u]
  BY DEF Barrier!TypeOK, Barrier!Goto, Barrier!Thread, Barrier!CallBarrier, Barrier!LockToCome,
     Barrier!Come, Barrier!CloseBarr2, Barrier!OpenBarr1, Barrier!UnlockAfterCome,
     Barrier!WaitBarr1, Barrier!PassBarr1, Barrier!LockToLeave, Barrier!Leave,
     Barrier!CloseBarr1, Barrier!OpenBarr2, Barrier!UnlockAfterLeave, Barrier!WaitBarr2,
     Barrier!PassBarr2, Barrier!Exit

\* Every step of t moves it, from one control point to another.
LEMMA BThreadMoves ==
  ASSUME Barrier!TypeOK, NEW t \in Meeting, Barrier!Thread(t)
  PROVE  /\ b_pc' = [b_pc EXCEPT ![t] = b_pc'[t]]
         /\ <<b_pc[t], b_pc'[t]>> \in
              { <<"work", "lock">>, <<"lock", "come">>, <<"come", "close2">>, <<"come", "post">>,
                <<"close2", "open1">>, <<"open1", "post">>, <<"post", "turn1">>,
                <<"turn1", "pass1">>, <<"pass1", "lock2">>, <<"lock2", "leave">>,
                <<"leave", "close1">>, <<"leave", "post2">>, <<"close1", "open2">>,
                <<"open2", "post2">>, <<"post2", "turn2">>, <<"turn2", "pass2">>,
                <<"pass2", "work">>, <<"work", "end">> }
  BY DEF Barrier!TypeOK, Barrier!Goto, Barrier!Thread, Barrier!CallBarrier, Barrier!LockToCome,
     Barrier!Come, Barrier!CloseBarr2, Barrier!OpenBarr1, Barrier!UnlockAfterCome,
     Barrier!WaitBarr1, Barrier!PassBarr1, Barrier!LockToLeave, Barrier!Leave,
     Barrier!CloseBarr1, Barrier!OpenBarr2, Barrier!UnlockAfterLeave, Barrier!WaitBarr2,
     Barrier!PassBarr2, Barrier!Exit

\* What a step does to the semaphores, by the control point it starts from.
LEMMA BSemaphores ==
  ASSUME Barrier!TypeOK, NEW t \in Meeting, Barrier!Thread(t)
  PROVE  /\ b_pc[t] \in {"lock", "lock2"} => b_mtx = 1 /\ b_mtx' = 0
         /\ b_pc[t] \in {"post", "post2"} => b_mtx' = b_mtx + 1
         /\ b_pc[t] \notin {"lock", "lock2", "post", "post2"} => b_mtx' = b_mtx
         /\ b_pc[t] \in {"turn1", "close1"} => barr1 = 1 /\ barr1' = 0
         /\ b_pc[t] \in {"open1", "pass1"} => barr1' = barr1 + 1
         /\ b_pc[t] \notin {"turn1", "close1", "open1", "pass1"} => barr1' = barr1
         /\ b_pc[t] \in {"turn2", "close2"} => barr2 = 1 /\ barr2' = 0
         /\ b_pc[t] \in {"open2", "pass2"} => barr2' = barr2 + 1
         /\ b_pc[t] \notin {"turn2", "close2", "open2", "pass2"} => barr2' = barr2
  BY DEF Barrier!TypeOK, Barrier!Goto, Barrier!Wait, Barrier!Post, Barrier!Shut, Barrier!Last,
     Barrier!Thread, Barrier!CallBarrier, Barrier!LockToCome, Barrier!Come,
     Barrier!CloseBarr2, Barrier!OpenBarr1, Barrier!UnlockAfterCome, Barrier!WaitBarr1,
     Barrier!PassBarr1, Barrier!LockToLeave, Barrier!Leave, Barrier!CloseBarr1,
     Barrier!OpenBarr2, Barrier!UnlockAfterLeave, Barrier!WaitBarr2, Barrier!PassBarr2,
     Barrier!Exit

\* What a step does to the counters.
LEMMA BCounters ==
  ASSUME Barrier!TypeOK, NEW t \in Meeting, Barrier!Thread(t)
  PROVE  /\ b_pc[t] = "come" => /\ count' = count + 1
                                /\ b_pc'[t] = IF count' = Barrier!N THEN "close2" ELSE "post"
         /\ b_pc[t] = "leave" => /\ count' = count - 1
                                 /\ b_pc'[t] = IF count' = 0 THEN "close1" ELSE "post2"
         /\ b_pc[t] \notin {"come", "leave"} => count' = count
         /\ b_pc[t] = "pass2" => round' = [round EXCEPT ![t] = @ + 1]
         /\ b_pc[t] # "pass2" => round' = round
         /\ b_pc'[t] = "lock" => round[t] < Rounds
  BY DEF Barrier!TypeOK, Barrier!Goto, Barrier!Wait, Barrier!Post, Barrier!Shut, Barrier!Last,
     Barrier!Thread, Barrier!CallBarrier, Barrier!LockToCome, Barrier!Come,
     Barrier!CloseBarr2, Barrier!OpenBarr1, Barrier!UnlockAfterCome, Barrier!WaitBarr1,
     Barrier!PassBarr1, Barrier!LockToLeave, Barrier!Leave, Barrier!CloseBarr1,
     Barrier!OpenBarr2, Barrier!UnlockAfterLeave, Barrier!WaitBarr2, Barrier!PassBarr2,
     Barrier!Exit

\* mtx is a lock: it is 0 while a thread holds it.
LEMMA BMutexStep ==
  ASSUME Barrier!TypeOK, BMutexInv, NEW t \in Meeting, Barrier!Thread(t)
  PROVE  BMutexInv' /\ b_mtx' \in {0, 1}
<1>1. \A u \in Meeting : u # t => (BHolds(u)' <=> BHolds(u))
  BY BOthersStay DEF BHolds
<1>2. b_mtx \in {0, 1}
  BY DEF Barrier!TypeOK
<1>3. CASE b_pc[t] \in {"lock", "lock2"}
  <2>1. \A u \in Meeting : ~ BHolds(u)
    BY <1>3, BSemaphores DEF BMutexInv
  <2>2. b_mtx' = 0
    BY <1>3, BSemaphores
  <2>. QED
    BY <1>1, <2>1, <2>2 DEF BMutexInv
<1>4. CASE b_pc[t] \in {"post", "post2"}
  <2>1. BHolds(t) /\ b_mtx = 0 /\ b_mtx' = 1
    BY <1>2, <1>4, BSemaphores DEF BHolds, BMutexInv
  <2>2. ~ BHolds(t)'
    BY <1>4, BThreadMoves DEF BHolds
  <2>3. \A u \in Meeting : ~ BHolds(u)'
    BY <1>1, <2>1, <2>2 DEF BMutexInv
  <2>. QED
    BY <2>1, <2>3 DEF BMutexInv
<1>5. CASE b_pc[t] \notin {"lock", "lock2", "post", "post2"}
  <2>1. b_mtx' = b_mtx
    BY <1>5, BSemaphores
  <2>2. BHolds(t)' <=> BHolds(t)
    BY <1>5, BThreadMoves DEF BHolds
  <2>. QED
    BY <1>1, <1>2, <2>1, <2>2 DEF BMutexInv
<1>. QED
  BY <1>3, <1>4, <1>5

\* The number of threads, as the module of the barrier counts it.
LEMMA BCardinality == \A S : Barrier!Cardinality(S) = Cardinality(S)
  BY DEF Barrier!Cardinality, Cardinality, Barrier!IsFiniteSet, IsFiniteSet

LEMMA BThreads ==
  IsFiniteSet(Meeting) /\ Barrier!N = Cardinality(Meeting) /\ Barrier!N \in Nat \ {0}
    /\ Rounds \in Nat
<1>1. IsFiniteSet(Meeting) /\ Meeting # {} /\ Rounds \in Nat
  BY BarrierAssumption
<1>2. Barrier!N = Cardinality(Meeting)
  BY BCardinality DEF Barrier!N
<1>3. Cardinality(Meeting) \in Nat /\ Cardinality(Meeting) # 0
  BY <1>1, FS_CardinalityType, FS_EmptySet
<1>. QED
  BY <1>1, <1>2, <1>3

\* count is the number of threads inside: 0 when nobody is, N when all are.
InsideIsCounted ==
  /\ IsFiniteSet(InsideSet) /\ Cardinality(InsideSet) \in 0 .. Barrier!N
  /\ Cardinality(InsideSet) = 0 => \A t \in Meeting : ~ Barrier!Inside(t)
  /\ Cardinality(InsideSet) = Barrier!N => \A t \in Meeting : Barrier!Inside(t)

LEMMA BInsideFacts == InsideIsCounted
<1>1. InsideSet \in SUBSET Meeting
  BY DEF InsideSet
<1>2. /\ IsFiniteSet(InsideSet) /\ Cardinality(InsideSet) <= Barrier!N
      /\ Cardinality(Meeting) = Cardinality(InsideSet) => Meeting = InsideSet
  BY <1>1, BThreads, FS_Subset
<1>3. Cardinality(InsideSet) \in Nat /\ (Cardinality(InsideSet) = 0 => InsideSet = {})
  BY <1>2, FS_CardinalityType, FS_EmptySet
<1>4. Cardinality(InsideSet) \in 0 .. Barrier!N
  BY <1>2, <1>3, BThreads
<1>. QED
  BY <1>2, <1>3, <1>4, BThreads DEF InsideSet, InsideIsCounted

\* The counters keep counting.
LEMMA BCountStep ==
  ASSUME Barrier!TypeOK, BCountInv, NEW t \in Meeting, Barrier!Thread(t)
  PROVE  /\ count' = Cardinality(InsideSet') /\ round' \in [Meeting -> 0 .. Rounds]
         /\ \A u \in Meeting : Barrier!AtBarrier(u)' => round'[u] < Rounds
<1> USE DEF Barrier!TypeOK
<1>1. \A u \in Meeting : u # t => (Barrier!Inside(u)' <=> Barrier!Inside(u))
  BY BOthersStay DEF Barrier!Inside
<1>2. CASE b_pc[t] = "come"
  <2>1. InsideSet' = InsideSet \cup {t} /\ t \notin InsideSet
    BY <1>1, <1>2, BThreadMoves DEF InsideSet, Barrier!Inside
  <2>2. Cardinality(InsideSet') = Cardinality(InsideSet) + 1
    BY <2>1, BInsideFacts, FS_AddElement DEF InsideIsCounted
  <2>. QED
    BY <1>2, <2>2, BCounters, BThreadMoves, BOthersStay DEF BCountInv, Barrier!AtBarrier
<1>3. CASE b_pc[t] = "leave"
  <2>1. InsideSet' = InsideSet \ {t} /\ t \in InsideSet
    BY <1>1, <1>3, BThreadMoves DEF InsideSet, Barrier!Inside
  <2>2. Cardinality(InsideSet') = Cardinality(InsideSet) - 1
    BY <2>1, BInsideFacts, FS_RemoveElement DEF InsideIsCounted
  <2>. QED
    BY <1>3, <2>2, BCounters, BThreadMoves, BOthersStay DEF BCountInv, Barrier!AtBarrier
<1>4. CASE b_pc[t] \notin {"come", "leave"}
  <2>1. Barrier!Inside(t)' <=> Barrier!Inside(t)
    BY <1>4, BThreadMoves DEF Barrier!Inside
  <2>2. InsideSet' = InsideSet /\ count' = count
    BY <1>1, <1>4, <2>1, BCounters DEF InsideSet
  <2>3. CASE b_pc[t] = "pass2"
    <3>1. round[t] + 1 \in 0 .. Rounds
      BY <2>3, BThreads DEF BCountInv, Barrier!AtBarrier
    <3>2. round' \in [Meeting -> 0 .. Rounds]
      BY <2>3, <3>1, BCounters
    <3>3. ~ Barrier!AtBarrier(t)'
      BY <2>3, BThreadMoves DEF Barrier!AtBarrier
    <3>4. \A u \in Meeting : Barrier!AtBarrier(u)' => round'[u] < Rounds
      BY <3>3, BOthersStay DEF BCountInv, Barrier!AtBarrier
    <3>. QED
      BY <2>2, <3>2, <3>4 DEF BCountInv
  <2>4. CASE b_pc[t] # "pass2"
    <3>1. round' = round
      BY <2>4, BCounters
    <3>2. Barrier!AtBarrier(t)' => round[t] < Rounds
      BY <2>4, BThreadMoves, BCounters DEF BCountInv, Barrier!AtBarrier
    <3>3. \A u \in Meeting : Barrier!AtBarrier(u)' => round'[u] < Rounds
      BY <3>1, <3>2, BOthersStay DEF BCountInv, Barrier!AtBarrier
    <3>. QED
      BY <2>2, <3>1, <3>3 DEF BCountInv
  <2>. QED
    BY <2>3, <2>4
<1>. QED
  BY <1>2, <1>3, <1>4

\* Which phase the control point of a thread belongs to.
LEMMA BPhaseOf ==
  ASSUME BPhaseInv, NEW t \in Meeting
  PROVE  /\ b_pc[t] \in {"work", "lock", "come", "close2", "pass2"} => Coming
         /\ b_pc[t] \in {"pass1", "lock2", "leave", "close1"} => Leaving
         /\ b_pc[t] \in {"open1", "open2"} => ~ Coming /\ ~ Leaving
<1>1. CASE b_pc[t] \in {"open1", "open2"}
  BY <1>1 DEF BPhaseInv, WhileComing, WhileLeaving
<1>2. CASE b_pc[t] \in {"work", "lock", "come", "close2", "pass2",
                        "pass1", "lock2", "leave", "close1"}
  <2>1. \A u \in Meeting : b_pc[u] \notin {"open1", "open2"}
    BY <1>2 DEF BPhaseInv
  <2>2. Coming \/ Leaving
    BY <2>1 DEF BPhaseInv
  <2>. QED
    BY <1>2, <2>2 DEF BPhaseInv, WhileComing, WhileLeaving
<1>. QED
  BY <1>1, <1>2

\* Who swaps the turnstiles is alone between them.
LEMMA BSwap ==
  ASSUME Barrier!TypeOK, BMutexInv, BPhaseInv, NEW t \in Meeting, NEW u \in Meeting, u # t
  PROVE  /\ b_pc[t] = "close2" => b_pc[u] = "turn1"
         /\ b_pc[t] = "close1" => b_pc[u] = "turn2"
<1>1. CASE b_pc[t] = "close2"
  <2>1. b_pc[u] \in WhileComing /\ Barrier!Inside(u) /\ ~ BHolds(u)
    BY <1>1, BPhaseOf DEF BPhaseInv, BMutexInv, BHolds
  <2>. QED
    BY <1>1, <2>1 DEF WhileComing, Barrier!Inside, BHolds
<1>2. CASE b_pc[t] = "close1"
  <2>1. b_pc[u] \in WhileLeaving /\ ~ Barrier!Inside(u) /\ ~ BHolds(u)
    BY <1>2, BPhaseOf DEF BPhaseInv, BMutexInv, BHolds
  <2>. QED
    BY <1>2, <2>1 DEF WhileLeaving, Barrier!Inside, BHolds
<1>. QED
  BY <1>1, <1>2

\* The turnstiles stay binary: one thread at a time is in each.
LEMMA BTurnstileStep ==
  ASSUME Barrier!TypeOK, BMutexInv, BTurnstileInv, BPhaseInv,
         NEW t \in Meeting, Barrier!Thread(t)
  PROVE  BTurnstileInv' /\ barr1' \in {0, 1} /\ barr2' \in {0, 1}
<1>1. \A u \in Meeting : u # t => b_pc'[u] = b_pc[u]
  BY BOthersStay
<1>2. barr1 \in {0, 1} /\ barr2 \in {0, 1}
  BY DEF Barrier!TypeOK
<1>3. /\ \A u \in Meeting : b_pc'[u] = "pass1" => barr1' = 0
      /\ \A u, v \in Meeting : b_pc'[u] = b_pc'[v] /\ b_pc'[u] = "pass1" => u = v
      /\ barr1' \in {0, 1}
  <2>1. CASE b_pc[t] \in {"turn1", "close1"}
    <3>1. barr1 = 1 /\ barr1' = 0
      BY <2>1, BSemaphores
    <3>2. \A u \in Meeting : b_pc[u] # "pass1"
      BY <3>1 DEF BTurnstileInv
    <3>. QED
      BY <1>1, <3>1, <3>2
  <2>2. CASE b_pc[t] \in {"open1", "pass1"}
    <3>1. barr1 = 0
      <4>1. CASE b_pc[t] = "pass1"
        BY <4>1 DEF BTurnstileInv
      <4>2. CASE b_pc[t] = "open1"
        BY <1>2, <4>2, BPhaseOf DEF Leaving
      <4>. QED
        BY <2>2, <4>1, <4>2
    <3>2. \A u \in Meeting : u # t => b_pc[u] # "pass1"
      BY <2>2 DEF BTurnstileInv, BPhaseInv
    <3>3. b_pc'[t] # "pass1"
      BY <2>2, BThreadMoves
    <3>. QED
      BY <1>1, <2>2, <3>1, <3>2, <3>3, BSemaphores
  <2>3. CASE b_pc[t] \notin {"turn1", "close1", "open1", "pass1"}
    <3>1. barr1' = barr1 /\ b_pc'[t] # "pass1"
      BY <2>3, BSemaphores, BThreadMoves
    <3>. QED
      BY <1>1, <1>2, <3>1 DEF BTurnstileInv
  <2>. QED
    BY <2>1, <2>2, <2>3
<1>4. /\ \A u \in Meeting : b_pc'[u] = "pass2" => barr2' = 0
      /\ \A u, v \in Meeting : b_pc'[u] = b_pc'[v] /\ b_pc'[u] = "pass2" => u = v
      /\ barr2' \in {0, 1}
  <2>1. CASE b_pc[t] \in {"turn2", "close2"}
    <3>1. barr2 = 1 /\ barr2' = 0
      BY <2>1, BSemaphores
    <3>2. \A u \in Meeting : b_pc[u] # "pass2"
      BY <3>1 DEF BTurnstileInv
    <3>. QED
      BY <1>1, <3>1, <3>2
  <2>2. CASE b_pc[t] \in {"open2", "pass2"}
    <3>1. barr2 = 0
      <4>1. CASE b_pc[t] = "pass2"
        BY <4>1 DEF BTurnstileInv
      <4>2. CASE b_pc[t] = "open2"
        BY <1>2, <4>2, BPhaseOf DEF Coming
      <4>. QED
        BY <2>2, <4>1, <4>2
    <3>2. \A u \in Meeting : u # t => b_pc[u] # "pass2"
      BY <2>2 DEF BTurnstileInv, BPhaseInv
    <3>3. b_pc'[t] # "pass2"
      BY <2>2, BThreadMoves
    <3>. QED
      BY <1>1, <2>2, <3>1, <3>2, <3>3, BSemaphores
  <2>3. CASE b_pc[t] \notin {"turn2", "close2", "open2", "pass2"}
    <3>1. barr2' = barr2 /\ b_pc'[t] # "pass2"
      BY <2>3, BSemaphores, BThreadMoves
    <3>. QED
      BY <1>1, <1>2, <3>1 DEF BTurnstileInv
  <2>. QED
    BY <2>1, <2>2, <2>3
<1>. QED
  BY <1>3, <1>4 DEF BTurnstileInv

\* Only the four swapping steps change the phase.
LEMMA BPhaseMoves ==
  ASSUME Barrier!TypeOK, BMutexInv, BTurnstileInv, BPhaseInv,
         NEW t \in Meeting, Barrier!Thread(t)
  PROVE  /\ b_pc[t] = "close2" => ~ Coming'
         /\ b_pc[t] = "open2" => Coming'
         /\ b_pc[t] \notin {"close2", "open2"} => (Coming' <=> Coming)
         /\ b_pc[t] = "close1" => ~ Leaving'
         /\ b_pc[t] = "open1" => Leaving'
         /\ b_pc[t] \notin {"close1", "open1"} => (Leaving' <=> Leaving)
<1>1. \A u \in Meeting : u # t => b_pc'[u] = b_pc[u]
  BY BOthersStay
<1>2. barr1 \in {0, 1} /\ barr2 \in {0, 1}
  BY DEF Barrier!TypeOK
<1>3. /\ b_pc[t] = "close2" => ~ Coming'
      /\ b_pc[t] = "close1" => ~ Leaving'
  BY <1>1, BSwap, BSemaphores, BThreadMoves DEF Coming, Leaving
<1>4. /\ b_pc[t] = "open2" => Coming'
      /\ b_pc[t] = "open1" => Leaving'
  BY <1>2, BPhaseOf, BSemaphores DEF Coming, Leaving
<1>5. /\ b_pc[t] = "turn1" => Leaving /\ Leaving'
      /\ b_pc[t] = "turn2" => Coming /\ Coming'
  BY BSemaphores, BThreadMoves DEF Coming, Leaving
<1>6. /\ b_pc[t] = "pass1" => Leaving /\ Leaving'
      /\ b_pc[t] = "pass2" => Coming /\ Coming'
  BY <1>2, BSemaphores DEF Coming, Leaving, BTurnstileInv
<1>7. b_pc[t] \notin {"close2", "open2", "turn2", "pass2"} => (Coming' <=> Coming)
  BY <1>1, BSemaphores, BThreadMoves DEF Coming
<1>8. b_pc[t] \notin {"close1", "open1", "turn1", "pass1"} => (Leaving' <=> Leaving)
  BY <1>1, BSemaphores, BThreadMoves DEF Leaving
<1>. QED
  BY <1>3, <1>4, <1>5, <1>6, <1>7, <1>8

\* Every step keeps the threads within the phase.
LEMMA BPhaseStep ==
  ASSUME Barrier!TypeOK, BMutexInv, BTurnstileInv, BPhaseInv,
         NEW t \in Meeting, Barrier!Thread(t),
         b_pc'[t] = "close2" => \A u \in Meeting : Barrier!Inside(u)',
         b_pc'[t] = "close1" => \A u \in Meeting : ~ Barrier!Inside(u)'
  PROVE  BPhaseInv'
<1>1. \A u \in Meeting : u # t => b_pc'[u] = b_pc[u]
  BY BOthersStay
<1>2. Coming' \/ Leaving' \/ \E u \in Meeting : b_pc'[u] \in {"open1", "open2"}
  <2>1. CASE b_pc[t] \in {"close1", "close2"}
    BY <2>1, BThreadMoves
  <2>2. CASE b_pc[t] \in {"open1", "open2"}
    BY <2>2, BPhaseMoves
  <2>3. CASE b_pc[t] \notin {"close1", "close2", "open1", "open2"}
    BY <1>1, <2>3, BPhaseMoves DEF BPhaseInv
  <2>. QED
    BY <2>1, <2>2, <2>3
<1>3. Coming' => ~ Leaving' /\ \A u \in Meeting : b_pc'[u] \in WhileComing
  <2> SUFFICES ASSUME Coming' PROVE ~ Leaving' /\ \A u \in Meeting : b_pc'[u] \in WhileComing
    OBVIOUS
  <2>1. CASE b_pc[t] = "open2"
    <3>1. ~ Leaving'
      BY <2>1, BPhaseOf, BPhaseMoves
    <3>2. \A u \in Meeting : u # t => b_pc[u] = "turn2"
      BY <2>1 DEF BPhaseInv
    <3>. QED
      BY <1>1, <2>1, <3>1, <3>2, BThreadMoves DEF WhileComing
  <2>2. CASE b_pc[t] # "open2"
    <3>1. Coming /\ b_pc[t] # "close2"
      BY <2>2, BPhaseMoves
    <3>2. ~ Leaving /\ \A u \in Meeting : b_pc[u] \in WhileComing
      BY <3>1 DEF BPhaseInv
    <3>3. b_pc'[t] \in WhileComing
      BY <3>1, <3>2, BThreadMoves, BSemaphores DEF WhileComing, Leaving
    <3>4. ~ Leaving'
      BY <3>2, BPhaseMoves DEF WhileComing
    <3>. QED
      BY <1>1, <3>2, <3>3, <3>4
  <2>. QED
    BY <2>1, <2>2
<1>4. Leaving' => \A u \in Meeting : b_pc'[u] \in WhileLeaving
  <2> SUFFICES ASSUME Leaving' PROVE \A u \in Meeting : b_pc'[u] \in WhileLeaving
    OBVIOUS
  <2>1. CASE b_pc[t] = "open1"
    <3>1. \A u \in Meeting : u # t => b_pc[u] = "turn1"
      BY <2>1 DEF BPhaseInv
    <3>. QED
      BY <1>1, <2>1, <3>1, BThreadMoves DEF WhileLeaving
  <2>2. CASE b_pc[t] # "open1"
    <3>1. Leaving /\ b_pc[t] # "close1"
      BY <2>2, BPhaseMoves
    <3>2. ~ Coming /\ \A u \in Meeting : b_pc[u] \in WhileLeaving
      BY <3>1 DEF BPhaseInv
    <3>3. b_pc'[t] \in WhileLeaving
      BY <3>1, <3>2, BThreadMoves, BSemaphores DEF WhileLeaving, Coming
    <3>. QED
      BY <1>1, <3>2, <3>3
  <2>. QED
    BY <2>1, <2>2
<1>5. ASSUME NEW u \in Meeting, NEW v \in Meeting, u # v
      PROVE  /\ b_pc'[u] = "open1" => b_pc'[v] = "turn1"
             /\ b_pc'[u] = "open2" => b_pc'[v] = "turn2"
  <2>1. CASE u = t
    BY <1>1, <1>5, <2>1, BSwap, BThreadMoves
  <2>2. CASE u # t /\ v = t
    <3>1. b_pc'[u] = "open1" => b_pc[t] = "turn1" /\ barr1 # 1
      BY <1>1, <1>5, <2>2, BPhaseOf DEF BPhaseInv, Leaving
    <3>2. b_pc'[u] = "open2" => b_pc[t] = "turn2" /\ barr2 # 1
      BY <1>1, <1>5, <2>2, BPhaseOf DEF BPhaseInv, Coming
    <3>. QED
      BY <3>1, <3>2, BSemaphores
  <2>3. CASE u # t /\ v # t
    BY <1>1, <1>5, <2>3 DEF BPhaseInv
  <2>. QED
    BY <2>1, <2>2, <2>3
<1>6. ASSUME NEW u \in Meeting, NEW v \in Meeting
      PROVE  /\ b_pc'[u] = "close2" => Barrier!Inside(v)'
             /\ b_pc'[u] = "close1" => ~ Barrier!Inside(v)'
  <2>1. CASE u = t
    BY <2>1
  <2>2. CASE u # t /\ v = t
    <3>1. b_pc'[u] = "close2" => b_pc[t] = "turn1" /\ barr1 # 1
      BY <1>1, <2>2, BSwap, BPhaseOf DEF BPhaseInv, Leaving
    <3>2. b_pc'[u] = "close1" => b_pc[t] = "turn2" /\ barr2 # 1
      BY <1>1, <2>2, BSwap, BPhaseOf DEF BPhaseInv, Coming
    <3>. QED
      BY <3>1, <3>2, BSemaphores
  <2>3. CASE u # t /\ v # t
    BY <1>1, <2>3 DEF BPhaseInv, Barrier!Inside
  <2>. QED
    BY <2>1, <2>2, <2>3
<1>. QED
  BY <1>2, <1>3, <1>4, <1>5, <1>6 DEF BPhaseInv

\* While they come, all threads have left the same number of times; while they
\* leave, all have returned the same number of times.
LEMMA BRoundStep ==
  ASSUME Barrier!TypeOK, BMutexInv, BTurnstileInv, BPhaseInv, BRoundInv,
         NEW t \in Meeting, Barrier!Thread(t)
  PROVE  BRoundInv'
<1>1. \A u \in Meeting : u # t => b_pc'[u] = b_pc[u] /\ round'[u] = round[u]
  BY BOthersStay
<1>2. \A u \in Meeting : round[u] \in Nat
  BY BThreads DEF Barrier!TypeOK
<1>3. \A u \in Meeting : u # t => Departures(u)' = Departures(u)
  BY <1>1 DEF Departures, Left
<1>4. b_pc[t] # "leave" => Departures(t)' = Departures(t)
  <2>1. CASE b_pc[t] = "pass2"
    BY <1>2, <2>1, BCounters, BThreadMoves DEF Departures, Left, Barrier!TypeOK
  <2>2. CASE b_pc[t] \notin {"pass2", "leave"}
    BY <2>2, BCounters, BThreadMoves DEF Departures, Left
  <2>. QED
    BY <2>1, <2>2
<1>5. CASE b_pc[t] = "close2"
  <2>1. \A u \in Meeting : Departures(u) = round[u]
    BY <1>2, <1>5, BSwap DEF Departures, Left
  <2>2. Coming /\ ~ Coming' /\ round' = round
    BY <1>5, BPhaseOf, BPhaseMoves, BCounters
  <2>. QED
    BY <2>1, <2>2 DEF BRoundInv
<1>6. CASE b_pc[t] = "open2"
  <2>1. \A u \in Meeting : Departures(u) = round[u] + 1
    BY <1>6 DEF Departures, Left, BPhaseInv
  <2>2. ~ Coming /\ Coming'
    BY <1>6, BPhaseOf, BPhaseMoves
  <2>3. \A u \in Meeting : Departures(u)' = round[u] + 1
    BY <1>3, <1>4, <1>6, <2>1
  <2>. QED
    BY <2>2, <2>3 DEF BRoundInv
<1>7. CASE b_pc[t] \notin {"close2", "open2"} /\ Coming
  <2>1. Coming' /\ b_pc[t] # "leave"
    BY <1>7, BPhaseOf, BPhaseMoves DEF BPhaseInv
  <2>2. \A u \in Meeting : Departures(u)' = Departures(u)
    BY <1>3, <1>4, <2>1
  <2>. QED
    BY <1>7, <2>1, <2>2 DEF BRoundInv
<1>8. CASE b_pc[t] \notin {"close2", "open2"} /\ ~ Coming
  <2>1. ~ Coming' /\ b_pc[t] # "pass2"
    BY <1>8, BPhaseOf, BPhaseMoves
  <2>2. round' = round
    BY <2>1, BCounters
  <2>. QED
    BY <1>8, <2>1, <2>2 DEF BRoundInv
<1>. QED
  BY <1>5, <1>6, <1>7, <1>8

LEMMA BInit == Init => BInv
<1> SUFFICES ASSUME Barrier!Init PROVE BInv
  BY DEF Init
<1> USE DEF Barrier!Init
<1>1. InsideSet = {} /\ count = Cardinality(InsideSet)
  <2>1. InsideSet = {}
    BY DEF InsideSet, Barrier!Inside
  <2>. QED
    BY <2>1, FS_EmptySet
<1>2. Barrier!TypeOK
  BY BThreads DEF Barrier!TypeOK
<1>3. BMutexInv /\ BTurnstileInv /\ BCountInv
  BY <1>1 DEF BMutexInv, BHolds, BTurnstileInv, BCountInv, Barrier!AtBarrier
<1>4. Coming /\ ~ Leaving
  BY DEF Coming, Leaving
<1>5. BPhaseInv
  BY <1>4 DEF BPhaseInv, WhileComing
<1>6. BRoundInv
  BY <1>4 DEF BRoundInv, Departures, Left
<1>. QED
  BY <1>2, <1>3, <1>5, <1>6 DEF BInv

LEMMA BStep == ASSUME BInv, NEW t \in Meeting, Barrier!Thread(t) PROVE BInv'
<1> USE DEF BInv
<1>1. BMutexInv' /\ b_mtx' \in {0, 1}
  BY BMutexStep
<1>2. BTurnstileInv' /\ barr1' \in {0, 1} /\ barr2' \in {0, 1}
  BY BTurnstileStep
<1>3. /\ count' = Cardinality(InsideSet') /\ round' \in [Meeting -> 0 .. Rounds]
      /\ \A u \in Meeting : Barrier!AtBarrier(u)' => round'[u] < Rounds
  BY BCountStep
<1>4. /\ Cardinality(InsideSet') \in 0 .. Barrier!N
      /\ Cardinality(InsideSet') = 0 => \A u \in Meeting : ~ Barrier!Inside(u)'
      /\ Cardinality(InsideSet') = Barrier!N => \A u \in Meeting : Barrier!Inside(u)'
  <2>1. InsideIsCounted'
    BY BInsideFacts, PTL
  <2>. QED
    BY <2>1 DEF InsideIsCounted
<1>5. /\ b_pc'[t] = "close2" => \A u \in Meeting : Barrier!Inside(u)'
      /\ b_pc'[t] = "close1" => \A u \in Meeting : ~ Barrier!Inside(u)'
  BY <1>3, <1>4, BThreadMoves, BCounters
<1>6. BPhaseInv'
  BY <1>5, BPhaseStep
<1>7. BRoundInv'
  BY BRoundStep
<1>8. b_pc' \in [Meeting -> {"work", "lock", "come", "close2", "open1", "post", "turn1",
                             "pass1", "lock2", "leave", "close1", "open2", "post2",
                             "turn2", "pass2", "end"}]
  BY BThreadMoves DEF Barrier!TypeOK
<1>9. Barrier!TypeOK'
  BY <1>1, <1>2, <1>3, <1>4, <1>8 DEF Barrier!TypeOK
<1>10. BCountInv'
  BY <1>3 DEF BCountInv
<1>. QED
  BY <1>1, <1>2, <1>6, <1>7, <1>9, <1>10

\* The inductive invariant of the barrier.
THEOREM BarrierInvariant == Spec => []BInv
<1>1. BInv /\ [Next]_vars => BInv'
  <2> SUFFICES ASSUME BInv, [Next]_vars PROVE BInv'
    OBVIOUS
  <2>1. CASE UNCHANGED barrierVars
    BY <2>1 DEF barrierVars, BInv, Barrier!TypeOK, BMutexInv, BHolds, BCountInv, InsideSet,
       Barrier!Inside, Barrier!AtBarrier, BTurnstileInv, BPhaseInv, Coming, Leaving,
       BRoundInv, Departures, Left
  <2>. QED
    BY <2>1, BStep, BMoves
<1>. QED
  BY <1>1, BInit, PTL DEF Spec

\* A thread that is ahead of another has come back before that one has left
\* the second turnstile.
LEMMA BInvImpliesSafety == BInv => Barrier!Safety /\ Barrier!NobodyLaps
<1> SUFFICES ASSUME BInv PROVE Barrier!Safety /\ Barrier!NobodyLaps
  OBVIOUS
<1>1. Barrier!OneTurnstileOpen
  BY DEF BInv, BPhaseInv, Coming, Leaving, Barrier!OneTurnstileOpen
<1>2. ASSUME NEW t \in Meeting, NEW u \in Meeting, round[t] > round[u]
      PROVE  round[t] = round[u] + 1 /\ ~ Barrier!Inside(u) /\ Barrier!AtBarrier(u)
  <2>1. round[t] \in Nat /\ round[u] \in Nat
    BY BThreads DEF BInv, Barrier!TypeOK
  <2>2. Departures(t) = Departures(u)
    BY <1>2, <2>1 DEF BInv, BRoundInv
  <2>. QED
    BY <1>2, <2>1, <2>2 DEF Departures, Left, Barrier!Inside, Barrier!AtBarrier
<1>. QED
  BY <1>1, <1>2 DEF BInv, Barrier!Safety, Barrier!NobodyLaps

\* The barrier of two turnstiles implements Barrier: no thread returns from its
\* r-th call before every thread has made its r-th call.
THEOREM NewBarrierImplementsBarrier == Spec => ImplementsBarrier
<1> DEFINE Called   == [t \in Meeting |-> round[t] + IF Barrier!AtBarrier(t) THEN 1 ELSE 0]
<1>1. Init => Barrier!Promise!Init
  BY DEF Init, Barrier!Init, Barrier!Promise!Init, Barrier!AtBarrier
<1>2. BInv /\ [Next]_vars => [Barrier!Promise!Next]_<<Called, round>>
  <2> SUFFICES ASSUME BInv, [Next]_vars PROVE [Barrier!Promise!Next]_<<Called, round>>
    OBVIOUS
  <2>1. CASE UNCHANGED barrierVars
    BY <2>1 DEF barrierVars, Barrier!AtBarrier
  <2>2. ASSUME NEW t \in Meeting, Barrier!Thread(t)
        PROVE  [Barrier!Promise!Next]_<<Called, round>>
    <3>0. Barrier!TypeOK /\ BMutexInv /\ BTurnstileInv /\ BPhaseInv /\ BRoundInv
      BY DEF BInv
    <3>1. \A u \in Meeting : round[u] \in Nat
      BY <3>0, BThreads DEF Barrier!TypeOK
    <3>2. \A u \in Meeting : u # t => (Barrier!AtBarrier(u)' <=> Barrier!AtBarrier(u))
      BY <2>2, <3>0, BOthersStay DEF Barrier!AtBarrier
    <3>3. CASE b_pc'[t] = "lock"
      <4>1. /\ round[t] < Rounds /\ round' = round /\ ~ Barrier!AtBarrier(t)
            /\ Barrier!AtBarrier(t)'
        BY <2>2, <3>0, <3>3, BCounters, BThreadMoves DEF Barrier!AtBarrier
      <4>2. Called' = [Called EXCEPT ![t] = @ + 1]
        <5>1. \A u \in Meeting : Called'[u] = IF u = t THEN Called[t] + 1 ELSE Called[u]
          BY <3>1, <3>2, <4>1
        <5>. QED
          BY <5>1
      <4>3. Called[t] = round[t]
        BY <3>1, <4>1
      <4>4. Barrier!Promise!Call(t)
        BY <4>1, <4>2, <4>3 DEF Barrier!Promise!Call
      <4>. QED
        BY <4>4 DEF Barrier!Promise!Next
    <3>4. CASE b_pc[t] = "pass2"
      <4>1. Coming
        BY <3>4 DEF Coming
      <4>2. \A u \in Meeting : Departures(u) = round[t] + 1
        BY <3>0, <3>4, <4>1 DEF BRoundInv, Departures, Left
      <4>3. \A u \in Meeting : Called[u] >= Called[t] /\ Called[t] = round[t] + 1
        BY <3>1, <3>4, <4>2 DEF Departures, Left, Barrier!AtBarrier
      <4>4. round' = [round EXCEPT ![t] = @ + 1] /\ ~ Barrier!AtBarrier(t)'
        BY <2>2, <3>0, <3>4, BCounters, BThreadMoves DEF Barrier!AtBarrier
      <4>5. Called' = Called
        BY <3>0, <3>1, <3>2, <4>3, <4>4 DEF Barrier!TypeOK
      <4>6. Barrier!Promise!Return(t)
        BY <3>1, <4>3, <4>4, <4>5 DEF Barrier!Promise!Return
      <4>. QED
        BY <4>6 DEF Barrier!Promise!Next
    <3>5. CASE b_pc'[t] # "lock" /\ b_pc[t] # "pass2"
      <4>1. round' = round /\ (Barrier!AtBarrier(t)' <=> Barrier!AtBarrier(t))
        BY <2>2, <3>0, <3>5, BCounters, BThreadMoves DEF Barrier!AtBarrier
      <4>. QED
        BY <3>2, <4>1
    <3>. QED
      BY <3>3, <3>4, <3>5
  <2>. QED
    BY <2>1, <2>2, BMoves
<1>. QED
  BY <1>1, <1>2, BarrierInvariant, PTL
  DEF Spec, ImplementsBarrier, Barrier!ImplementsBarrier, Barrier!Promise!Spec,
      Barrier!Promise!bvars

-----------------------------------------------------------------------------
(* Readers and writers.  mtx and fair are locks; rw_mutex is held by a     *)
(* writer or by all readers that are counted, but for the first of them    *)
(* while it waits for it.                                                  *)

RHoldsMtx(t) ==
  pc[t] \in {"count", "postmtx", "uncount", "postrw", "postmtx2"}
    \/ (t \in Readers /\ pc[t] = "rw")
RHoldsFair(t) ==
  program = "rw_fair" /\ pc[t] \in (IF t \in Writers
                                    THEN {"rw", "cs", "store", "leave", "postfair"}
                                    ELSE {"mtx", "count", "rw", "postmtx", "postfair"})
ReaderHoldsRW(t) ==
  t \in Readers /\ pc[t] \in {"postmtx", "postfair", "cs", "store", "leave", "uncount", "postrw"}
WriterHoldsRW(t) == t \in Writers /\ RW!Inside(t)

Counted(t) == pc[t] \in {"rw", "postmtx", "postfair", "cs", "store", "leave", "uncount"}
CountedSet == {t \in Readers : Counted(t)}

RMutexInv ==
  /\ \A t \in RW!Threads : RHoldsMtx(t) => mtx = 0
  /\ \A t, u \in RW!Threads : RHoldsMtx(t) /\ RHoldsMtx(u) => t = u
RFairInv ==
  /\ \A t \in RW!Threads : RHoldsFair(t) => fair = 0
  /\ \A t, u \in RW!Threads : RHoldsFair(t) /\ RHoldsFair(u) => t = u
RCountInv ==
  /\ read_count = Cardinality(CountedSet)
  /\ \A t \in Readers : /\ pc[t] = "rw" => read_count = 1
                        /\ pc[t] = "postrw" => read_count = 0
RRWInv ==
  /\ \A t \in RW!Threads : ReaderHoldsRW(t) \/ WriterHoldsRW(t) => rw_mutex = 0
  /\ \A t, u \in RW!Threads :
       WriterHoldsRW(t) /\ (ReaderHoldsRW(u) \/ WriterHoldsRW(u)) => t = u

\* Where a thread can be, and that it still has an iteration to run there.
RLocal(t) ==
  /\ t \in Writers =>
       pc[t] \in {"rem", "fair", "rw", "cs", "store", "leave", "postfair", "next"}
  /\ program = "rw" => pc[t] \notin {"fair", "postfair"}
  /\ pc[t] # "rem" => left[t] > 0
  /\ endless => left[t] = RW!Iterations(t)
RLocalInv == \A t \in RW!Threads : RLocal(t)

\* The writers' sections that are not in wait_time yet.
WOwedTo(t) == left[t] - (IF pc[t] \in {"leave", "postfair", "next"} THEN 1 ELSE 0)
WOwed == {p \in Writers \X (1 .. KW) : p[2] <= WOwedTo(p[1])}
RSumInv ==
  ~ endless =>
    /\ wait_time + Cardinality(WOwed) >= KW * Cardinality(Writers)
    /\ \A t \in RW!Threads :
         pc[t] = "store" => tmp[t] + Cardinality(WOwed) >= KW * Cardinality(Writers)

RTypeOK ==
  /\ program \in {"rw", "rw_fair"} /\ endless \in BOOLEAN
  /\ rw_mutex \in {0, 1} /\ mtx \in {0, 1} /\ fair \in {0, 1}
  /\ pc \in [RW!Threads -> {"rem", "fair", "mtx", "count", "rw", "postmtx", "postfair",
                         "cs", "store", "leave", "uncount", "postrw", "postmtx2", "next"}]
  /\ left \in [RW!Threads -> Nat]
  /\ \A t \in RW!Threads : left[t] <= RW!Iterations(t)
  /\ wait_time \in Nat /\ tmp \in [RW!Threads -> Nat]

RInv == /\ RTypeOK /\ RLocalInv /\ RMutexInv /\ RFairInv /\ RCountInv /\ RRWInv /\ RSumInv

\* The steps of a reader's or a writer's loop, from point to point.
WriterPath ==
  {<<"rw", "cs">>, <<"cs", "store">>, <<"store", "leave">>, <<"next", "rem">>} \cup
  IF program = "rw_fair"
  THEN {<<"rem", "fair">>, <<"fair", "rw">>, <<"leave", "postfair">>, <<"postfair", "next">>}
  ELSE {<<"rem", "rw">>, <<"leave", "next">>}

ReaderPath ==
  {<<"mtx", "count">>, <<"count", "rw">>, <<"count", "postmtx">>, <<"rw", "postmtx">>,
   <<"cs", "store">>, <<"store", "leave">>, <<"leave", "uncount">>, <<"uncount", "postrw">>,
   <<"uncount", "postmtx2">>, <<"postrw", "postmtx2">>, <<"postmtx2", "next">>,
   <<"next", "rem">>} \cup
  IF program = "rw_fair"
  THEN {<<"rem", "fair">>, <<"fair", "mtx">>, <<"postmtx", "postfair">>, <<"postfair", "cs">>}
  ELSE {<<"rem", "mtx">>, <<"postmtx", "cs">>}

\* How the variables of the readers and writers can change.
LEMMA RMoves ==
  ASSUME [Next]_vars
  PROVE  (\E t \in RW!Threads : RW!SemWait(t) \/ RW!Other(t)) \/ UNCHANGED rwVars
  BY DEF Next, vars, rwVars, SemWait, Other, Cook, Over, RWStep, BarrierStep, TribeStep,
     SlabStep, SimStep, PrimeStep, RW!Threads

\* A step of t leaves the control point, the iterations and the loaded value of
\* the others, and the input.
LEMMA ROthersStay ==
  ASSUME RTypeOK, NEW t \in RW!Threads, RW!SemWait(t) \/ RW!Other(t)
  PROVE  /\ program' = program /\ endless' = endless
         /\ pc' = [pc EXCEPT ![t] = pc'[t]]
         /\ \A u \in RW!Threads : u # t => /\ pc'[u] = pc[u] /\ left'[u] = left[u]
                                           /\ tmp'[u] = tmp[u]
  BY DEF RTypeOK, RW!Goto, RW!SemWait, RW!Other, RW!WaitFair, RW!WriterWaitRW,
     RW!ReaderWaitMtx, RW!ReaderWaitRW, RW!ReaderWaitMtxAgain, RW!Request, RW!WriterPostRW,
     RW!ReaderCount, RW!ReaderPostMtx, RW!PostFair, RW!LoadWaitTime, RW!StoreWaitTime,
     RW!ReaderUncount, RW!ReaderPostRW, RW!ReaderPostMtxAgain, RW!NextIteration, RW!input

\* Every step of t moves it along its path.
LEMMA RThreadMoves ==
  ASSUME RTypeOK, NEW t \in RW!Threads, RLocal(t), RW!SemWait(t) \/ RW!Other(t)
  PROVE  /\ t \in Writers => t \notin Readers /\ <<pc[t], pc'[t]>> \in WriterPath
         /\ t \notin Writers => t \in Readers /\ <<pc[t], pc'[t]>> \in ReaderPath
  BY ReadersAssumption
  DEF RTypeOK, RLocal, WriterPath, ReaderPath, RW!Threads, RW!FairVersion, RW!Entry,
     RW!AfterFair, RW!Goto, RW!SemWait, RW!Other, RW!WaitFair, RW!WriterWaitRW,
     RW!ReaderWaitMtx, RW!ReaderWaitRW, RW!ReaderWaitMtxAgain, RW!Request, RW!WriterPostRW,
     RW!ReaderCount, RW!ReaderPostMtx, RW!PostFair, RW!LoadWaitTime, RW!StoreWaitTime,
     RW!ReaderUncount, RW!ReaderPostRW, RW!ReaderPostMtxAgain, RW!NextIteration

\* What a step does to the semaphores, by the control point it starts from.
LEMMA RSemaphores ==
  ASSUME RTypeOK, NEW t \in RW!Threads, RLocal(t), RW!SemWait(t) \/ RW!Other(t)
  PROVE  /\ pc[t] = "mtx" \/ (t \in Readers /\ pc[t] = "leave") => mtx = 1 /\ mtx' = 0
         /\ pc[t] \in {"postmtx", "postmtx2"} => mtx' = mtx + 1
         /\ pc[t] \notin {"mtx", "postmtx", "postmtx2"}
              /\ ~ (t \in Readers /\ pc[t] = "leave") => mtx' = mtx
         /\ pc[t] = "fair" => fair = 1 /\ fair' = 0
         /\ pc[t] = "postfair" => fair' = fair + 1
         /\ pc[t] \notin {"fair", "postfair"} => fair' = fair
         /\ pc[t] = "rw" => rw_mutex = 1 /\ rw_mutex' = 0
         /\ pc[t] = "postrw" \/ (t \in Writers /\ pc[t] = "leave") => rw_mutex' = rw_mutex + 1
         /\ pc[t] \notin {"rw", "postrw"}
              /\ ~ (t \in Writers /\ pc[t] = "leave") => rw_mutex' = rw_mutex
  BY ReadersAssumption
  DEF RTypeOK, RLocal, RW!Threads, RW!Wait, RW!Post, RW!sems, RW!Goto, RW!SemWait, RW!Other,
     RW!WaitFair, RW!WriterWaitRW, RW!ReaderWaitMtx, RW!ReaderWaitRW, RW!ReaderWaitMtxAgain,
     RW!Request, RW!WriterPostRW, RW!ReaderCount, RW!ReaderPostMtx, RW!PostFair,
     RW!LoadWaitTime, RW!StoreWaitTime, RW!ReaderUncount, RW!ReaderPostRW,
     RW!ReaderPostMtxAgain, RW!NextIteration

\* What a step does to the counters.
LEMMA RCounters ==
  ASSUME RTypeOK, NEW t \in RW!Threads, RLocal(t), RW!SemWait(t) \/ RW!Other(t)
  PROVE  /\ pc[t] = "count" => /\ read_count' = read_count + 1
                               /\ pc'[t] = IF read_count' = 1 THEN "rw" ELSE "postmtx"
         /\ pc[t] = "uncount" => /\ read_count' = read_count - 1
                                 /\ pc'[t] = IF read_count' = 0 THEN "postrw" ELSE "postmtx2"
         /\ pc[t] \notin {"count", "uncount"} => read_count' = read_count
         /\ pc[t] = "next" => left' = [left EXCEPT ![t] = IF endless THEN @ ELSE @ - 1]
         /\ pc[t] # "next" => left' = left
         /\ pc[t] = "rem" => left[t] > 0
         /\ pc[t] = "cs" => tmp' = [tmp EXCEPT ![t] = wait_time]
         /\ pc[t] # "cs" => tmp' = tmp
         /\ pc[t] = "store" => wait_time' = IF endless THEN 0 ELSE tmp[t] + 1
         /\ pc[t] # "store" => wait_time' = wait_time
  BY ReadersAssumption
  DEF RTypeOK, RLocal, RW!Threads, RW!First, RW!Last, RW!Goto, RW!SemWait, RW!Other,
     RW!WaitFair, RW!WriterWaitRW, RW!ReaderWaitMtx, RW!ReaderWaitRW, RW!ReaderWaitMtxAgain,
     RW!Request, RW!WriterPostRW, RW!ReaderCount, RW!ReaderPostMtx, RW!PostFair,
     RW!LoadWaitTime, RW!StoreWaitTime, RW!ReaderUncount, RW!ReaderPostRW,
     RW!ReaderPostMtxAgain, RW!NextIteration

\* mtx is a lock: it is 0 while a reader holds it.
LEMMA RMutexStep ==
  ASSUME RTypeOK, RLocalInv, RMutexInv, NEW t \in RW!Threads, RW!SemWait(t) \/ RW!Other(t)
  PROVE  RMutexInv' /\ mtx' \in {0, 1}
<1>0. RLocal(t)
  BY DEF RLocalInv
<1>1. \A u \in RW!Threads : u # t => (RHoldsMtx(u)' <=> RHoldsMtx(u))
  BY ROthersStay DEF RHoldsMtx
<1>2. mtx \in {0, 1}
  BY DEF RTypeOK
<1>3. CASE pc[t] = "mtx" \/ (t \in Readers /\ pc[t] = "leave")
  <2>1. \A u \in RW!Threads : ~ RHoldsMtx(u)
    BY <1>0, <1>3, RSemaphores DEF RMutexInv
  <2>2. mtx' = 0
    BY <1>0, <1>3, RSemaphores
  <2>. QED
    BY <1>1, <2>1, <2>2 DEF RMutexInv
<1>4. CASE pc[t] \in {"postmtx", "postmtx2"}
  <2>1. RHoldsMtx(t) /\ mtx = 0 /\ mtx' = 1
    BY <1>0, <1>2, <1>4, RSemaphores DEF RHoldsMtx, RMutexInv
  <2>2. ~ RHoldsMtx(t)'
    BY <1>0, <1>4, RThreadMoves DEF RHoldsMtx, RLocal, WriterPath, ReaderPath
  <2>3. \A u \in RW!Threads : ~ RHoldsMtx(u)'
    BY <1>1, <2>1, <2>2 DEF RMutexInv
  <2>. QED
    BY <2>1, <2>3 DEF RMutexInv
<1>5. CASE pc[t] \notin {"mtx", "postmtx", "postmtx2"} /\ ~ (t \in Readers /\ pc[t] = "leave")
  <2>1. mtx' = mtx
    BY <1>0, <1>5, RSemaphores
  <2>2. RHoldsMtx(t)' <=> RHoldsMtx(t)
    BY <1>0, <1>5, RThreadMoves, ZenonT(30) DEF RHoldsMtx, RLocal, WriterPath, ReaderPath
  <2>. QED
    BY <1>1, <1>2, <2>1, <2>2 DEF RMutexInv
<1>. QED
  BY <1>3, <1>4, <1>5

\* So is fair, held by a writer until it has left and by a reader until it is
\* about to enter.
LEMMA RFairStep ==
  ASSUME RTypeOK, RLocalInv, RFairInv, NEW t \in RW!Threads, RW!SemWait(t) \/ RW!Other(t)
  PROVE  RFairInv' /\ fair' \in {0, 1}
<1>0. RLocal(t)
  BY DEF RLocalInv
<1>1. \A u \in RW!Threads : u # t => (RHoldsFair(u)' <=> RHoldsFair(u))
  BY ROthersStay DEF RHoldsFair
<1>2. fair \in {0, 1} /\ program' = program
  BY ROthersStay DEF RTypeOK
<1>3. CASE pc[t] = "fair"
  <2>1. \A u \in RW!Threads : ~ RHoldsFair(u)
    BY <1>0, <1>3, RSemaphores DEF RFairInv
  <2>2. fair' = 0
    BY <1>0, <1>3, RSemaphores
  <2>. QED
    BY <1>1, <2>1, <2>2 DEF RFairInv
<1>4. CASE pc[t] = "postfair"
  <2>1. RHoldsFair(t) /\ fair = 0 /\ fair' = 1
    BY <1>0, <1>2, <1>4, RSemaphores DEF RHoldsFair, RFairInv, RLocal, RTypeOK
  <2>2. ~ RHoldsFair(t)'
    BY <1>0, <1>2, <1>4, RThreadMoves DEF RHoldsFair, RLocal, WriterPath, ReaderPath
  <2>3. \A u \in RW!Threads : ~ RHoldsFair(u)'
    BY <1>1, <2>1, <2>2 DEF RFairInv
  <2>. QED
    BY <2>1, <2>3 DEF RFairInv
<1>5. CASE pc[t] \notin {"fair", "postfair"}
  <2>1. fair' = fair
    BY <1>0, <1>5, RSemaphores
  <2>2. RHoldsFair(t)' <=> RHoldsFair(t)
    BY <1>0, <1>2, <1>5, RThreadMoves DEF RHoldsFair, RLocal, WriterPath, ReaderPath
  <2>. QED
    BY <1>1, <1>2, <2>1, <2>2 DEF RFairInv
<1>. QED
  BY <1>3, <1>4, <1>5

\* The number of threads, as the module of the readers and writers counts it.
LEMMA RCardinality == \A S : RW!Cardinality(S) = Cardinality(S)
  BY DEF RW!Cardinality, Cardinality, RW!IsFiniteSet, IsFiniteSet

\* read_count is 0 only when no reader is counted, 1 only when one is.
ReadersAreCounted ==
  /\ IsFiniteSet(CountedSet) /\ Cardinality(CountedSet) \in 0 .. Cardinality(Readers)
  /\ Cardinality(CountedSet) = 0 => \A t \in Readers : ~ Counted(t)

LEMMA RCountedFacts == ReadersAreCounted
<1>1. CountedSet \in SUBSET Readers
  BY DEF CountedSet
<1>2. IsFiniteSet(CountedSet) /\ Cardinality(CountedSet) <= Cardinality(Readers)
  BY <1>1, FiniteAssumption, FS_Subset
<1>3. Cardinality(CountedSet) \in Nat /\ (Cardinality(CountedSet) = 0 => CountedSet = {})
  BY <1>2, FS_CardinalityType, FS_EmptySet
<1>4. Cardinality(Readers) \in Nat
  BY FiniteAssumption, FS_CardinalityType
<1>5. Cardinality(CountedSet) \in 0 .. Cardinality(Readers)
  BY <1>2, <1>3, <1>4
<1>. QED
  BY <1>2, <1>3, <1>5 DEF CountedSet, ReadersAreCounted

\* The counter keeps counting, and mtx keeps others away from it while its
\* holder acts on what it read there.
LEMMA RCountStep ==
  ASSUME RTypeOK, RLocalInv, RMutexInv, RCountInv,
         NEW t \in RW!Threads, RW!SemWait(t) \/ RW!Other(t)
  PROVE  RCountInv'
<1>0. RLocal(t)
  BY DEF RLocalInv
<1>1. \A u \in RW!Threads : u # t => pc'[u] = pc[u] /\ (Counted(u)' <=> Counted(u))
  BY ROthersStay DEF Counted
<1>2. Readers \subseteq RW!Threads
  BY DEF RW!Threads
<1>3. Cardinality(CountedSet) \in Nat /\ IsFiniteSet(CountedSet)
  BY RCountedFacts DEF ReadersAreCounted
<1>4. CASE pc[t] \in {"count", "uncount"}
  <2>1. t \in Readers /\ RHoldsMtx(t)
    BY <1>0, <1>4 DEF RLocal, RHoldsMtx, RW!Threads
  <2>2. \A u \in Readers : u # t => pc'[u] \notin {"rw", "postrw"}
    BY <1>1, <1>2, <2>1 DEF RMutexInv, RHoldsMtx
  <2>3. CASE pc[t] = "count"
    <3>1. pc'[t] \in {"rw", "postmtx"}
      BY <1>0, <2>3, RCounters
    <3>2. CountedSet' = CountedSet \cup {t} /\ t \notin CountedSet
      BY <1>1, <1>2, <2>1, <2>3, <3>1 DEF CountedSet, Counted
    <3>3. Cardinality(CountedSet') = Cardinality(CountedSet) + 1
      BY <1>3, <3>2, FS_AddElement
    <3>4. read_count' = read_count + 1 /\ (pc'[t] = "rw" => read_count' = 1)
      BY <1>0, <2>3, RCounters
    <3>. QED
      BY <2>2, <3>1, <3>3, <3>4 DEF RCountInv
  <2>4. CASE pc[t] = "uncount"
    <3>1. pc'[t] \in {"postrw", "postmtx2"}
      BY <1>0, <2>4, RCounters
    <3>2. CountedSet' = CountedSet \ {t} /\ t \in CountedSet
      BY <1>1, <1>2, <2>1, <2>4, <3>1 DEF CountedSet, Counted
    <3>3. Cardinality(CountedSet') = Cardinality(CountedSet) - 1
      BY <1>3, <3>2, FS_RemoveElement
    <3>4. read_count' = read_count - 1 /\ (pc'[t] = "postrw" => read_count' = 0)
      BY <1>0, <2>4, RCounters
    <3>. QED
      BY <2>2, <3>1, <3>3, <3>4 DEF RCountInv
  <2>. QED
    BY <1>4, <2>3, <2>4
<1>5. CASE pc[t] \notin {"count", "uncount"}
  <2>1. t \in Readers => (Counted(t)' <=> Counted(t)) /\ pc'[t] \notin {"rw", "postrw"}
    BY <1>0, <1>5, ReadersAssumption, RThreadMoves DEF RLocal, Counted, WriterPath, ReaderPath
  <2>2. CountedSet' = CountedSet
    BY <1>1, <1>2, <2>1 DEF CountedSet
  <2>3. read_count' = read_count
    BY <1>0, <1>5, RCounters
  <2>. QED
    BY <1>1, <1>2, <2>1, <2>2, <2>3 DEF RCountInv
<1>. QED
  BY <1>4, <1>5

\* rw_mutex is held by a writer alone or by the readers together.
LEMMA RRWStep ==
  ASSUME RTypeOK, RLocalInv, RMutexInv, RCountInv, RRWInv,
         NEW t \in RW!Threads, RW!SemWait(t) \/ RW!Other(t)
  PROVE  RRWInv' /\ rw_mutex' \in {0, 1}
<1>0. RLocal(t) /\ rw_mutex \in {0, 1}
  BY DEF RLocalInv, RTypeOK
<1>1. \A u \in RW!Threads : u # t => /\ ReaderHoldsRW(u)' <=> ReaderHoldsRW(u)
                                     /\ WriterHoldsRW(u)' <=> WriterHoldsRW(u)
  BY ROthersStay DEF ReaderHoldsRW, WriterHoldsRW, RW!Inside
<1>2. CASE pc[t] = "rw"
  <2>1. rw_mutex = 1 /\ rw_mutex' = 0
    BY <1>0, <1>2, RSemaphores
  <2>2. \A u \in RW!Threads : ~ ReaderHoldsRW(u) /\ ~ WriterHoldsRW(u)
    BY <2>1 DEF RRWInv
  <2>3. WriterHoldsRW(t)' => ~ ReaderHoldsRW(t)'
    BY ReadersAssumption DEF ReaderHoldsRW, WriterHoldsRW
  <2>. QED
    BY <1>1, <2>1, <2>2, <2>3 DEF RRWInv
<1>3. CASE pc[t] = "postrw"
  <2>1. t \in Readers /\ ReaderHoldsRW(t) /\ rw_mutex = 0 /\ rw_mutex' = 1
    BY <1>0, <1>3, RSemaphores DEF RLocal, RRWInv, ReaderHoldsRW, RW!Threads
  <2>2. \A u \in Readers : ~ Counted(u)
    BY <1>3, <2>1, RCountedFacts DEF RCountInv, ReadersAreCounted
  <2>3. \A u \in RW!Threads : u # t => ~ ReaderHoldsRW(u)
    BY <1>3, <2>1, <2>2 DEF ReaderHoldsRW, Counted, RMutexInv, RHoldsMtx
  <2>4. \A u \in RW!Threads : ~ WriterHoldsRW(u)
    BY <2>1, ReadersAssumption DEF RRWInv, WriterHoldsRW
  <2>5. ~ ReaderHoldsRW(t)' /\ ~ WriterHoldsRW(t)'
    BY <1>0, <1>3, <2>1, ReadersAssumption, RThreadMoves
    DEF ReaderHoldsRW, WriterHoldsRW, WriterPath, ReaderPath
  <2>. QED
    BY <1>1, <2>1, <2>3, <2>4, <2>5 DEF RRWInv
<1>4. CASE t \in Writers /\ pc[t] = "leave"
  <2>1. WriterHoldsRW(t) /\ rw_mutex = 0 /\ rw_mutex' = 1
    BY <1>0, <1>4, RSemaphores DEF RRWInv, WriterHoldsRW, RW!Inside
  <2>2. \A u \in RW!Threads : u # t => ~ ReaderHoldsRW(u) /\ ~ WriterHoldsRW(u)
    BY <2>1 DEF RRWInv
  <2>3. ~ ReaderHoldsRW(t)' /\ ~ WriterHoldsRW(t)'
    BY <1>0, <1>4, RThreadMoves DEF ReaderHoldsRW, WriterHoldsRW, RW!Inside, WriterPath
  <2>. QED
    BY <1>1, <2>1, <2>2, <2>3 DEF RRWInv
<1>5. CASE pc[t] \notin {"rw", "postrw"} /\ ~ (t \in Writers /\ pc[t] = "leave")
  <2>1. rw_mutex' = rw_mutex
    BY <1>0, <1>5, RSemaphores
  <2>2. WriterHoldsRW(t)' <=> WriterHoldsRW(t)
    BY <1>0, <1>5, RThreadMoves DEF RLocal, WriterHoldsRW, RW!Inside, WriterPath
  <2>3. CASE pc[t] # "count"
    <3>1. ReaderHoldsRW(t)' => ReaderHoldsRW(t)
      BY <1>0, <1>5, <2>3, ReadersAssumption, RThreadMoves
      DEF RLocal, ReaderHoldsRW, ReaderPath, WriterPath
    <3>. QED
      BY <1>0, <1>1, <2>1, <2>2, <3>1 DEF RRWInv
  <2>4. CASE pc[t] = "count"
    <3>1. t \in Readers /\ t \notin Writers
      BY <1>0, <2>4, ReadersAssumption DEF RLocal, RW!Threads
    <3>2. ReaderHoldsRW(t)' => \E u \in RW!Threads : u # t /\ ReaderHoldsRW(u)
      <4> SUFFICES ASSUME ReaderHoldsRW(t)' PROVE \E u \in RW!Threads : u # t /\ ReaderHoldsRW(u)
        OBVIOUS
      <4>1. read_count # 0
        BY <1>0, <2>4, RCounters DEF ReaderHoldsRW
      <4>2. PICK u \in Readers : Counted(u)
        BY <4>1, FS_EmptySet DEF RCountInv, CountedSet
      <4>3. u \in RW!Threads /\ u # t
        BY <2>4, <4>2 DEF Counted, RW!Threads
      <4>4. pc[u] # "rw"
        BY <2>4, <4>3 DEF RMutexInv, RHoldsMtx
      <4>. QED
        BY <4>2, <4>3, <4>4 DEF Counted, ReaderHoldsRW
    <3>3. ReaderHoldsRW(t)' =>
            rw_mutex = 0 /\ \A u \in RW!Threads : ~ WriterHoldsRW(u)
      BY <3>2, ReadersAssumption DEF RRWInv, WriterHoldsRW, ReaderHoldsRW
    <3>. QED
      BY <1>0, <1>1, <2>1, <2>2, <3>1, <3>3 DEF RRWInv
  <2>. QED
    BY <2>3, <2>4
<1>. QED
  BY <1>2, <1>3, <1>4, <1>5

\* Every thread keeps to its loop, with an iteration left to run in it.
LEMMA RLocalStep ==
  ASSUME RTypeOK, RLocalInv, NEW t \in RW!Threads, RW!SemWait(t) \/ RW!Other(t)
  PROVE  /\ RLocalInv' /\ left' \in [RW!Threads -> Nat]
         /\ \A u \in RW!Threads : left'[u] <= RW!Iterations(u)
<1>0. RLocal(t) /\ program' = program /\ endless' = endless
  BY ROthersStay DEF RLocalInv
<1>1. \A u \in RW!Threads : left[u] \in Nat /\ left[u] <= RW!Iterations(u)
  BY DEF RTypeOK
<1>2. \A u \in RW!Threads : u # t => RLocal(u)' /\ left'[u] = left[u]
  BY <1>0, ROthersStay DEF RLocalInv, RLocal
<1>3. left'[t] = IF pc[t] = "next" /\ ~ endless THEN left[t] - 1 ELSE left[t]
  BY <1>0, RCounters DEF RTypeOK
<1>4. pc[t] # "rem" => left[t] > 0
  BY <1>0 DEF RLocal
<1>5. left'[t] \in Nat /\ left'[t] <= RW!Iterations(t)
  <2>1. RW!Iterations(t) \in Nat
    BY KAssumption DEF RW!Iterations
  <2>. QED
    BY <1>1, <1>3, <1>4, <2>1
<1>6. RLocal(t)'
  <2>1. t \in Writers => pc'[t] \in {"rem", "fair", "rw", "cs", "store", "leave",
                                     "postfair", "next"}
    BY <1>0, RThreadMoves DEF RLocal, WriterPath
  <2>2. program = "rw" => pc'[t] \notin {"fair", "postfair"}
    BY <1>0, RThreadMoves DEF RLocal, WriterPath, ReaderPath
  <2>3. pc'[t] # "rem" => left'[t] > 0
    <3>1. pc[t] # "next" \/ pc'[t] = "rem"
      BY <1>0, RThreadMoves DEF RLocal, WriterPath, ReaderPath
    <3>2. left[t] > 0
      BY <1>0, <1>4, RCounters
    <3>. QED
      BY <1>3, <3>1, <3>2
  <2>4. endless' => left'[t] = RW!Iterations(t)
    BY <1>0, <1>3 DEF RLocal
  <2>. QED
    BY <1>0, <2>1, <2>2, <2>3, <2>4 DEF RLocal
<1>7. left' \in [RW!Threads -> Nat]
  BY <1>5, RCounters, <1>0 DEF RTypeOK
<1>. QED
  BY <1>1, <1>2, <1>5, <1>6, <1>7 DEF RLocalInv

\* The pairs of writers and sections are finitely many.
LEMMA WOwedFinite ==
  /\ IsFiniteSet(WOwed) /\ Cardinality(WOwed) \in Nat
  /\ KW * Cardinality(Writers) \in Nat
  /\ KW \in Nat /\ Cardinality(Writers \X (1 .. KW)) = KW * Cardinality(Writers)
<1>1. IsFiniteSet(Writers) /\ KW \in Nat /\ Cardinality(Writers) \in Nat
  BY FiniteAssumption, KAssumption, FS_CardinalityType
<1>2. IsFiniteSet(1 .. KW) /\ Cardinality(1 .. KW) = KW
  <2>1. 1 \in Int /\ KW \in Int
    BY <1>1
  <2>2. /\ IsFiniteSet(1 .. KW)
        /\ Cardinality(1 .. KW) = IF 1 > KW THEN 0 ELSE KW - 1 + 1
    BY <2>1, FS_Interval
  <2>. QED
    BY <1>1, <2>2
<1>3. /\ IsFiniteSet(Writers \X (1 .. KW))
      /\ Cardinality(Writers \X (1 .. KW)) = Cardinality(Writers) * KW
  BY <1>1, <1>2, FS_Product
<1>4. WOwed \in SUBSET (Writers \X (1 .. KW))
  BY DEF WOwed
<1>5. IsFiniteSet(WOwed) /\ Cardinality(WOwed) \in Nat
  BY <1>3, <1>4, FS_Subset, FS_CardinalityType
<1>. QED
  BY <1>1, <1>3, <1>5

\* What a writer adds to wait_time is not lost: nobody else loads or stores it
\* between the writer's load and its store.
LEMMA RSumStep ==
  ASSUME RTypeOK, RLocalInv, RRWInv, RSumInv,
         NEW t \in RW!Threads, RW!SemWait(t) \/ RW!Other(t)
  PROVE  RSumInv' /\ wait_time' \in Nat /\ tmp' \in [RW!Threads -> Nat]
<1>0. RLocal(t) /\ program' = program /\ endless' = endless
  BY ROthersStay DEF RLocalInv
<1>1. \A u \in RW!Threads : left[u] \in Nat /\ tmp[u] \in Nat /\ wait_time \in Nat
  BY DEF RTypeOK
<1>2. wait_time' \in Nat /\ tmp' \in [RW!Threads -> Nat]
  <2>1. wait_time' \in Nat
    BY <1>0, <1>1, RCounters
  <2>2. tmp' \in [RW!Threads -> Nat]
    BY <1>0, <1>1, RCounters DEF RTypeOK
  <2>. QED
    BY <2>1, <2>2
<1> SUFFICES ASSUME ~ endless PROVE RSumInv'
  BY <1>0, <1>2 DEF RSumInv
<1>3. /\ wait_time + Cardinality(WOwed) >= KW * Cardinality(Writers)
      /\ \A u \in RW!Threads :
           pc[u] = "store" => tmp[u] + Cardinality(WOwed) >= KW * Cardinality(Writers)
  BY DEF RSumInv
<1>4. \A u \in RW!Threads : u # t => pc'[u] = pc[u] /\ tmp'[u] = tmp[u]
                                       /\ WOwedTo(u)' = WOwedTo(u)
  BY ROthersStay DEF WOwedTo
<1>5. Writers \subseteq RW!Threads
  BY DEF RW!Threads
<1>6. Cardinality(WOwed) \in Nat /\ IsFiniteSet(WOwed) /\ KW * Cardinality(Writers) \in Nat
  BY WOwedFinite
<1>7. CASE pc[t] = "store" /\ t \in Writers
  <2>1. pc'[t] = "leave" /\ left'[t] = left[t] /\ left[t] > 0 /\ left[t] <= KW
    <3>1. pc'[t] = "leave"
      BY <1>0, <1>7, RThreadMoves DEF WriterPath
    <3>2. left' = left
      BY <1>0, <1>7, RCounters
    <3>3. left[t] > 0 /\ left[t] <= KW
      BY <1>0, <1>7 DEF RLocal, RTypeOK, RW!Iterations
    <3>. QED
      BY <3>1, <3>2, <3>3
  <2>2. WOwedTo(t) = left[t] /\ WOwedTo(t)' = left[t] - 1
    BY <1>1, <1>7, <2>1 DEF WOwedTo
  <2>3. <<t, left[t]>> \in WOwed
    BY <1>1, <1>7, <2>1, <2>2, WOwedFinite DEF WOwed
  <2>4. WOwed' = WOwed \ {<<t, left[t]>>}
    <3>1. ASSUME NEW w \in Writers, NEW k \in 1 .. KW
          PROVE  k <= WOwedTo(w)' <=> k <= WOwedTo(w) /\ <<w, k>> # <<t, left[t]>>
      BY <1>1, <1>4, <1>5, <2>2, WOwedFinite
    <3>. QED
      BY <3>1 DEF WOwed
  <2>5. Cardinality(WOwed') = Cardinality(WOwed) - 1
    BY <1>6, <2>3, <2>4, FS_RemoveElement
  <2>6. \A u \in RW!Threads : pc'[u] # "store"
    <3>1. WriterHoldsRW(t)
      BY <1>7 DEF WriterHoldsRW, RW!Inside
    <3>2. \A u \in RW!Threads : u # t => pc[u] # "store"
      BY <3>1 DEF RRWInv, ReaderHoldsRW, WriterHoldsRW, RW!Inside, RW!Threads
    <3>. QED
      BY <1>4, <2>1, <3>2
  <2>7. wait_time' = tmp[t] + 1
    BY <1>0, <1>7, RCounters
  <2>8. tmp[t] + Cardinality(WOwed) >= KW * Cardinality(Writers)
    BY <1>3, <1>7
  <2>9. tmp[t] + 1 + (Cardinality(WOwed) - 1) >= KW * Cardinality(Writers)
    BY <1>1, <1>6, <2>8
  <2>. QED
    BY <2>5, <2>6, <2>7, <2>9 DEF RSumInv
<1>8. CASE ~ (pc[t] = "store" /\ t \in Writers)
  <2>1. t \in Writers => WOwedTo(t)' = WOwedTo(t)
    <3> SUFFICES ASSUME t \in Writers PROVE WOwedTo(t)' = WOwedTo(t)
      OBVIOUS
    <3>1. CASE pc[t] = "next"
      <4>1. pc'[t] = "rem"
        BY <1>0, <3>1, RThreadMoves DEF WriterPath
      <4>2. left'[t] = left[t] - 1
        BY <1>0, <3>1, RCounters DEF RTypeOK
      <4>. QED
        BY <1>1, <3>1, <4>1, <4>2 DEF WOwedTo
    <3>2. CASE pc[t] # "next"
      <4>1. left' = left
        BY <1>0, <3>2, RCounters
      <4>2. pc[t] \in {"leave", "postfair", "next"} <=> pc'[t] \in {"leave", "postfair", "next"}
        BY <1>0, <1>8, <3>2, RThreadMoves DEF WriterPath, RLocal
      <4>. QED
        BY <4>1, <4>2 DEF WOwedTo
    <3>. QED
      BY <3>1, <3>2
  <2>2. WOwed' = WOwed
    BY <1>4, <1>5, <2>1 DEF WOwed
  <2>3. wait_time' + Cardinality(WOwed) >= KW * Cardinality(Writers)
    <3>1. CASE pc[t] = "store"
      <4>1. wait_time' = tmp[t] + 1 /\ tmp[t] + Cardinality(WOwed) >= KW * Cardinality(Writers)
        BY <1>0, <1>3, <3>1, RCounters
      <4>. QED
        BY <1>1, <1>6, <4>1
    <3>2. CASE pc[t] # "store"
      BY <1>0, <1>3, <3>2, RCounters
    <3>. QED
      BY <3>1, <3>2
  <2>4. ASSUME NEW u \in RW!Threads, pc'[u] = "store"
        PROVE  tmp'[u] + Cardinality(WOwed) >= KW * Cardinality(Writers)
    <3>1. CASE u = t
      <4>1. pc[t] = "cs"
        BY <1>0, <2>4, <3>1, RThreadMoves DEF RLocal, WriterPath, ReaderPath
      <4>2. tmp'[t] = wait_time
        BY <1>0, <4>1, RCounters DEF RTypeOK
      <4>. QED
        BY <1>3, <3>1, <4>2
    <3>2. CASE u # t
      BY <1>3, <1>4, <2>4, <3>2
    <3>. QED
      BY <3>1, <3>2
  <2>. QED
    BY <2>2, <2>3, <2>4 DEF RSumInv
<1>. QED
  BY <1>7, <1>8

LEMMA RInit == Init => RInv
<1> SUFFICES ASSUME RW!Init PROVE RInv
  BY DEF Init
<1> USE DEF RW!Init
<1>1. CountedSet = {} /\ read_count = Cardinality(CountedSet)
  <2>1. CountedSet = {}
    BY DEF CountedSet, Counted, RW!Threads
  <2>. QED
    BY <2>1, FS_EmptySet
<1>2. \A t \in RW!Threads : RW!Iterations(t) \in Nat
  BY KAssumption DEF RW!Iterations
<1>3. RTypeOK
  BY <1>2 DEF RTypeOK
<1>4. RMutexInv /\ RFairInv /\ RRWInv
  BY DEF RMutexInv, RHoldsMtx, RFairInv, RHoldsFair, RRWInv, ReaderHoldsRW, WriterHoldsRW,
     RW!Inside
<1>5. RCountInv
  BY <1>1 DEF RCountInv, RW!Threads
<1>6. RLocalInv
  BY DEF RLocalInv, RLocal
<1>7. RSumInv
  <2>1. \A w \in Writers : WOwedTo(w) = KW
    BY KAssumption DEF WOwedTo, RW!Iterations, RW!Threads
  <2>2. WOwed = Writers \X (1 .. KW)
    BY <2>1, KAssumption DEF WOwed
  <2>3. Cardinality(WOwed) = KW * Cardinality(Writers)
    BY <2>2, WOwedFinite
  <2>. QED
    BY <2>3, WOwedFinite DEF RSumInv
<1>. QED
  BY <1>3, <1>4, <1>5, <1>6, <1>7 DEF RInv

LEMMA RStep ==
  ASSUME RInv, NEW t \in RW!Threads, RW!SemWait(t) \/ RW!Other(t) PROVE RInv'
<1> USE DEF RInv
<1>1. RMutexInv' /\ mtx' \in {0, 1} /\ RFairInv' /\ fair' \in {0, 1}
  BY RMutexStep, RFairStep
<1>2. RCountInv' /\ RRWInv' /\ rw_mutex' \in {0, 1}
  BY RCountStep, RRWStep
<1>3. /\ RLocalInv' /\ left' \in [RW!Threads -> Nat]
      /\ \A u \in RW!Threads : left'[u] <= RW!Iterations(u)
  BY RLocalStep
<1>4. RSumInv' /\ wait_time' \in Nat /\ tmp' \in [RW!Threads -> Nat]
  BY RSumStep
<1>5. pc' \in [RW!Threads -> {"rem", "fair", "mtx", "count", "rw", "postmtx", "postfair",
                              "cs", "store", "leave", "uncount", "postrw", "postmtx2",
                              "next"}]
  <2>1. RLocal(t)
    BY DEF RLocalInv
  <2>2. pc'[t] \in {"rem", "fair", "mtx", "count", "rw", "postmtx", "postfair",
                    "cs", "store", "leave", "uncount", "postrw", "postmtx2", "next"}
    BY <2>1, RThreadMoves DEF WriterPath, ReaderPath
  <2>. QED
    BY <2>2, ROthersStay DEF RTypeOK
<1>6. RTypeOK'
  BY <1>1, <1>2, <1>3, <1>4, <1>5, ROthersStay DEF RTypeOK, RW!Iterations
<1>. QED
  BY <1>1, <1>2, <1>3, <1>4, <1>6

\* The inductive invariant of the readers and writers.
THEOREM ReadersWritersInvariant == Spec => []RInv
<1>1. RInv /\ [Next]_vars => RInv'
  <2> SUFFICES ASSUME RInv, [Next]_vars PROVE RInv'
    OBVIOUS
  <2>1. CASE UNCHANGED rwVars
    BY <2>1 DEF rwVars, RInv, RTypeOK, RLocalInv, RLocal, RMutexInv, RHoldsMtx, RFairInv,
       RHoldsFair, RCountInv, CountedSet, Counted, RRWInv, ReaderHoldsRW, WriterHoldsRW,
       RW!Inside, RSumInv, WOwed, WOwedTo, RW!Iterations
  <2>. QED
    BY <2>1, RStep, RMoves
<1>. QED
  BY <1>1, RInit, PTL DEF Spec

\* Writers are alone inside; what the writers measured is in wait_time when
\* main has joined all threads.
LEMMA RInvImpliesSafety == RInv => RW!Safety
<1> SUFFICES ASSUME RInv PROVE RW!Safety
  OBVIOUS
<1> USE DEF RInv
<1>1. RW!TypeOK
  <2>1. read_count \in 0 .. RW!Cardinality(Readers)
    BY RCountedFacts, RCardinality DEF RCountInv, ReadersAreCounted
  <2>. QED
    BY <2>1 DEF RW!TypeOK, RTypeOK
<1>2. RW!WritersExclude
  <2> SUFFICES ASSUME NEW w \in Writers, NEW t \in RW!Threads, t # w, RW!Inside(w), RW!Inside(t)
               PROVE  FALSE
    BY DEF RW!WritersExclude
  <2>1. WriterHoldsRW(w) /\ w \in RW!Threads
    BY DEF WriterHoldsRW, RW!Threads
  <2>2. WriterHoldsRW(t) \/ ReaderHoldsRW(t)
    BY DEF WriterHoldsRW, ReaderHoldsRW, RW!Threads, RW!Inside
  <2>. QED
    BY <2>1, <2>2 DEF RRWInv
<1>3. RW!WritersAreCounted
  <2> SUFFICES ASSUME RW!Joined PROVE wait_time >= KW * Cardinality(Writers)
    BY RCardinality DEF RW!WritersAreCounted
  <2>1. \A t \in RW!Threads : pc[t] = "rem" /\ left[t] = 0
    BY DEF RW!Joined, RW!Finished
  <2>2. CASE endless
    <3>1. \A w \in Writers : KW = 0
      BY <2>1, <2>2 DEF RLocalInv, RLocal, RW!Iterations, RW!Threads
    <3>2. Writers = {} \/ KW = 0
      BY <3>1
    <3>3. KW * Cardinality(Writers) = 0
      <4>1. CASE KW = 0
        BY <4>1, FiniteAssumption, FS_CardinalityType
      <4>2. CASE Writers = {}
        BY <4>2, FS_EmptySet, KAssumption
      <4>. QED
        BY <3>2, <4>1, <4>2
    <3>. QED
      BY <3>3 DEF RTypeOK
  <2>3. CASE ~ endless
    <3>1. \A w \in Writers : WOwedTo(w) = 0
      BY <2>1 DEF WOwedTo, RW!Threads
    <3>2. WOwed = {}
      BY <3>1 DEF WOwed
    <3>3. Cardinality(WOwed) = 0
      BY <3>2, FS_EmptySet
    <3>. QED
      BY <2>3, <3>3 DEF RSumInv, RTypeOK
  <2>. QED
    BY <2>2, <2>3
<1>. QED
  BY <1>1, <1>2, <1>3 DEF RW!Safety

\* In the fair program nobody gets inside before a writer that has passed fair:
\* whoever could has to hold fair.
THEOREM ReadersWritersNoOvertaking == Spec => NoOvertaking
<1>1. RInv /\ [Next]_vars =>
        [\A w \in Writers, t \in RW!Threads :
           program = "rw_fair" /\ pc[w] = "rw" /\ t # w /\ ~ RW!Inside(t)
             => ~ RW!Inside(t)']_(RW!vars)
  <2> SUFFICES ASSUME RInv, [Next]_vars, NEW w \in Writers, NEW t \in RW!Threads,
                      program = "rw_fair", pc[w] = "rw", t # w, ~ RW!Inside(t),
                      ~ UNCHANGED rwVars
               PROVE  ~ RW!Inside(t)'
    BY DEF rwVars, RW!vars, RW!input, RW!sems
  <2>1. PICK u \in RW!Threads : RW!SemWait(u) \/ RW!Other(u)
    BY RMoves
  <2>2. RHoldsFair(w) /\ w \in RW!Threads
    BY DEF RHoldsFair, RW!Threads
  <2>3. ~ RHoldsFair(t)
    BY <2>2 DEF RInv, RFairInv
  <2>4. CASE u # t
    BY <2>1, <2>4, ROthersStay DEF RInv, RW!Inside
  <2>5. CASE u = t
    <3>1. RLocal(t)
      BY DEF RInv, RLocalInv
    <3>2. t \in Writers => pc[t] # "rw"
      BY <2>3 DEF RHoldsFair
    <3>3. t \notin Writers => pc[t] # "postfair"
      BY <2>3 DEF RHoldsFair
    <3>4. RTypeOK
      BY DEF RInv
    <3>. QED
      BY <2>1, <2>5, <3>1, <3>2, <3>3, <3>4, RThreadMoves
      DEF RW!Inside, WriterPath, ReaderPath
  <2>. QED
    BY <2>4, <2>5
<1>. QED
  BY <1>1, ReadersWritersInvariant, PTL DEF Spec, NoOvertaking, RW!NoOvertaking

-----------------------------------------------------------------------------
(* The hungry tribe.  mtx is held by the tribesman who eats, fair by whoever *)
(* looks at the pot, nDLock by whoever looks at nDone.  A note in gg is the  *)
(* note of a tribesman who is blocked or about to be, over an empty pot; the *)
(* answer to it finds the pot full.                                          *)

THoldsMtx(t)  == t_pc[t] \notin {"serve", "mtx", "done", "postdone", "end"}
THoldsFair(t) == t_pc[t] \in {"look", "postfair", "postfair2", "get", "postfair3"}
THoldsDone(t) == t_pc[t] \in {"done", "postdone"}
CookHoldsFair == cook \in {"look", "answer", "postfair"}
CookHoldsDone == cook = "ask"

DoneSet == {t \in Tribesmen : t_pc[t] \in {"postdone", "end"}}

TMutexInv ==
  /\ \A t \in Tribesmen : THoldsMtx(t) => t_mtx = 0
  /\ \A t, u \in Tribesmen : THoldsMtx(t) /\ THoldsMtx(u) => t = u
TFairInv ==
  /\ CookHoldsFair => t_fair = 0
  /\ \A t \in Tribesmen : THoldsFair(t) => t_fair = 0 /\ ~ CookHoldsFair
TDoneInv ==
  /\ CookHoldsDone => nDLock = 0
  /\ \A t \in Tribesmen : THoldsDone(t) => nDLock = 0 /\ ~ CookHoldsDone
  /\ \A t, u \in Tribesmen : THoldsDone(t) /\ THoldsDone(u) => t = u
  /\ nDone = Cardinality(DoneSet)

Answered == t_rw_mutex = 1 \/ cook = "answer"
TPotInv ==
  /\ Answered => pot_count = PotSize /\ \E t \in Tribesmen : t_pc[t] = "rw"
  /\ t_rw_mutex = 1 => cook # "answer"
  /\ Tribe!Noted => pot_count = 0 /\ \E t \in Tribesmen : t_pc[t] \in {"postfair", "rw"}
  /\ \A t \in Tribesmen : /\ t_pc[t] \in {"postfair2", "fair2", "get"} => pot_count > 0
                          /\ t_pc[t] = "postfair" => pot_count = 0

\* Where a tribesman still has a meal to eat, and where he has none.
TLocal(t) ==
  /\ t_pc[t] \notin {"serve", "done", "postdone", "end"} => t_left[t] > 0
  /\ t_pc[t] \in {"done", "postdone", "end"} => t_left[t] = 0
  /\ t_pc[t] = "store" => t_tmp[t] = t_wait_time
TLocalInv ==
  /\ \A t \in Tribesmen : TLocal(t)
  /\ cook = "end" => \A t \in Tribesmen : t_pc[t] = "end"

\* The meals whose measurement is still to be stored, and the meals whose
\* serving is still to be taken from the pot.
MealsUntold(t)  == t_left[t] - (IF t_pc[t] = "postmtx" THEN 1 ELSE 0)
MealsToServe(t) ==
  t_left[t] - (IF t_pc[t] \in {"postfair3", "eat", "store", "postmtx"} THEN 1 ELSE 0)
Untold  == {p \in Tribesmen \X (1 .. Meals) : p[2] <= MealsUntold(p[1])}
ToServe == {p \in Tribesmen \X (1 .. Meals) : p[2] <= MealsToServe(p[1])}
TSumInv ==
  /\ t_wait_time + Cardinality(Untold) = Meals * Cardinality(Tribesmen)
  /\ PotSize * (refills + 1) + Cardinality(ToServe)
       = Meals * Cardinality(Tribesmen) + pot_count

TInv == /\ Tribe!TypeOK /\ TMutexInv /\ TFairInv /\ TDoneInv /\ TPotInv /\ TLocalInv
        /\ TSumInv

\* The points of a tribesman's and of the cook's loop, from one to the next.
TribePath ==
  { <<"serve", "mtx">>, <<"mtx", "fair">>, <<"fair", "look">>, <<"look", "postfair">>,
    <<"look", "postfair2">>, <<"postfair", "rw">>, <<"postfair2", "fair2">>,
    <<"rw", "fair2">>, <<"fair2", "get">>, <<"get", "postfair3">>, <<"postfair3", "eat">>,
    <<"eat", "store">>, <<"store", "postmtx">>, <<"postmtx", "serve">>, <<"serve", "done">>,
    <<"done", "postdone">>, <<"postdone", "end">> }
CookPath ==
  { <<"sleep", "look">>, <<"look", "answer">>, <<"look", "postfair">>,
    <<"answer", "postfair">>, <<"postfair", "nap">>, <<"nap", "ask">>, <<"ask", "join">>,
    <<"ask", "sleep">>, <<"join", "end">> }

\* How the variables of the tribe can change.
LEMMA TMoves ==
  ASSUME [Next]_vars
  PROVE  \/ \E t \in Tribesmen : Tribe!SemWait(t) \/ Tribe!Tribesman(t)
         \/ Tribe!Cook
         \/ UNCHANGED tribeVars
  BY DEF Next, vars, tribeVars, SemWait, Other, Cook, Over, RWStep, BarrierStep, TribeStep,
     SlabStep, SimStep, PrimeStep

\* A step of t moves it along its path and leaves the others and the cook alone.
LEMMA TOthersStay ==
  ASSUME Tribe!TypeOK, NEW t \in Tribesmen, Tribe!SemWait(t) \/ Tribe!Tribesman(t)
  PROVE  /\ t_pc' = [t_pc EXCEPT ![t] = t_pc'[t]] /\ <<t_pc[t], t_pc'[t]>> \in TribePath
         /\ \A u \in Tribesmen : u # t => /\ t_pc'[u] = t_pc[u] /\ t_left'[u] = t_left[u]
                                          /\ t_tmp'[u] = t_tmp[u]
         /\ cook' = cook /\ refills' = refills
  BY DEF TribePath, Tribe!TypeOK, Tribe!Goto, Tribe!SemWait, Tribe!Tribesman, Tribe!TakeMtx,
     Tribe!TakeFair, Tribe!TakeFairAgain, Tribe!TakeDone, Tribe!GetHungry, Tribe!Look,
     Tribe!PostFair, Tribe!AwaitCook, Tribe!GetServing, Tribe!PostFairAgain,
     Tribe!LoadWaitTime, Tribe!StoreWaitTime, Tribe!PostMtx, Tribe!CountDone, Tribe!Exit

\* What a tribesman's step does to the semaphores, by the point it starts from.
LEMMA TSemaphores ==
  ASSUME Tribe!TypeOK, NEW t \in Tribesmen, Tribe!SemWait(t) \/ Tribe!Tribesman(t)
  PROVE  /\ t_pc[t] = "mtx" => t_mtx = 1 /\ t_mtx' = 0
         /\ t_pc[t] = "postmtx" => t_mtx' = t_mtx + 1
         /\ t_pc[t] \notin {"mtx", "postmtx"} => t_mtx' = t_mtx
         /\ t_pc[t] \in {"fair", "fair2"} => t_fair = 1 /\ t_fair' = 0
         /\ t_pc[t] \in {"postfair", "postfair2", "postfair3"} => t_fair' = t_fair + 1
         /\ t_pc[t] \notin {"fair", "fair2", "postfair", "postfair2", "postfair3"}
              => t_fair' = t_fair
         /\ t_pc'[t] = "done" => nDLock = 1 /\ nDLock' = 0
         /\ t_pc[t] = "postdone" => nDLock' = nDLock + 1
         /\ t_pc'[t] # "done" /\ t_pc[t] # "postdone" => nDLock' = nDLock
         /\ t_pc[t] = "rw" => t_rw_mutex = 1 /\ t_rw_mutex' = 0
         /\ t_pc[t] # "rw" => t_rw_mutex' = t_rw_mutex
  BY DEF Tribe!TypeOK, Tribe!Wait, Tribe!Post, Tribe!Goto, Tribe!SemWait, Tribe!Tribesman,
     Tribe!TakeMtx, Tribe!TakeFair, Tribe!TakeFairAgain, Tribe!TakeDone, Tribe!GetHungry,
     Tribe!Look, Tribe!PostFair, Tribe!AwaitCook, Tribe!GetServing, Tribe!PostFairAgain,
     Tribe!LoadWaitTime, Tribe!StoreWaitTime, Tribe!PostMtx, Tribe!CountDone, Tribe!Exit

\* What it does to the pot, the note and the counters.
LEMMA TCounters ==
  ASSUME Tribe!TypeOK, NEW t \in Tribesmen, Tribe!SemWait(t) \/ Tribe!Tribesman(t)
  PROVE  /\ t_pc[t] = "look" =>
              IF pot_count = 0 THEN t_pc'[t] = "postfair" /\ gg' = -1
                               ELSE t_pc'[t] = "postfair2" /\ gg' = gg
         /\ t_pc[t] # "look" => gg' = gg
         /\ t_pc[t] = "get" => pot_count' = pot_count - 1
         /\ t_pc[t] # "get" => pot_count' = pot_count
         /\ t_pc[t] = "done" => nDone' = nDone + 1
         /\ t_pc[t] # "done" => nDone' = nDone
         /\ t_pc'[t] = "mtx" => t_left[t] > 0
         /\ t_pc'[t] = "done" => t_left[t] = 0
         /\ t_pc[t] = "postmtx" => t_left' = [t_left EXCEPT ![t] = @ - 1]
         /\ t_pc[t] # "postmtx" => t_left' = t_left
         /\ t_pc[t] = "eat" => t_tmp' = [t_tmp EXCEPT ![t] = t_wait_time]
         /\ t_pc[t] # "eat" => t_tmp' = t_tmp
         /\ t_pc[t] = "store" => t_wait_time' = t_tmp[t] + 1
         /\ t_pc[t] # "store" => t_wait_time' = t_wait_time
  BY DEF Tribe!TypeOK, Tribe!LeaveNote, Tribe!pot, Tribe!Goto, Tribe!SemWait,
     Tribe!Tribesman, Tribe!TakeMtx, Tribe!TakeFair, Tribe!TakeFairAgain, Tribe!TakeDone,
     Tribe!GetHungry, Tribe!Look, Tribe!PostFair, Tribe!AwaitCook, Tribe!GetServing,
     Tribe!PostFairAgain, Tribe!LoadWaitTime, Tribe!StoreWaitTime, Tribe!PostMtx,
     Tribe!CountDone, Tribe!Exit

\* What a step of the cook does.
LEMMA TCookMoves ==
  ASSUME Tribe!TypeOK, Tribe!Cook
  PROVE  /\ <<cook, cook'>> \in CookPath
         /\ UNCHANGED <<t_mtx, t_pc, t_left, t_wait_time, t_tmp, nDone>>
         /\ cook = "sleep" => t_fair = 1 /\ t_fair' = 0
         /\ cook = "postfair" => t_fair' = t_fair + 1
         /\ cook \notin {"sleep", "postfair"} => t_fair' = t_fair
         /\ cook = "nap" => nDLock = 1 /\ nDLock' = 0
         /\ cook = "ask" => nDLock' = nDLock + 1
         /\ cook \notin {"nap", "ask"} => nDLock' = nDLock
         /\ cook = "answer" => t_rw_mutex' = t_rw_mutex + 1
         /\ cook # "answer" => t_rw_mutex' = t_rw_mutex
         /\ IF cook = "look" /\ pot_count = 0
            THEN /\ pot_count' = PotSize /\ gg' = 0 /\ refills' = refills + 1
                 /\ cook' = IF Tribe!Noted THEN "answer" ELSE "postfair"
            ELSE UNCHANGED <<pot_count, gg, refills>> /\ cook' # "answer"
         /\ cook' = "end" => \A t \in Tribesmen : t_pc[t] = "end"
  BY DEF CookPath, Tribe!TypeOK, Tribe!Wait, Tribe!Post, Tribe!MustCook, Tribe!Noted, Tribe!pot,
     Tribe!tribe, Tribe!CookGoes, Tribe!Cook, Tribe!CookTakeFair,
     Tribe!PutServingsInPot, Tribe!LeavePot, Tribe!Answer, Tribe!CookPostFair,
     Tribe!CookTakeDone, Tribe!CookPostDone, Tribe!Join

\* mtx is held by one tribesman at a time.
LEMMA TMutexStep ==
  ASSUME Tribe!TypeOK, TMutexInv, NEW t \in Tribesmen, Tribe!SemWait(t) \/ Tribe!Tribesman(t)
  PROVE  TMutexInv' /\ t_mtx' \in {0, 1}
<1>1. \A u \in Tribesmen : u # t => (THoldsMtx(u)' <=> THoldsMtx(u))
  BY TOthersStay DEF THoldsMtx
<1>2. t_mtx \in {0, 1} /\ <<t_pc[t], t_pc'[t]>> \in TribePath
  BY TOthersStay DEF Tribe!TypeOK
<1>3. CASE t_pc[t] = "mtx"
  <2>1. t_mtx' = 0 /\ \A u \in Tribesmen : ~ THoldsMtx(u)
    BY <1>3, TSemaphores DEF TMutexInv
  <2>. QED
    BY <1>1, <2>1 DEF TMutexInv
<1>4. CASE t_pc[t] = "postmtx"
  <2>1. THoldsMtx(t) /\ t_mtx' = 1 /\ ~ THoldsMtx(t)'
    BY <1>2, <1>4, TSemaphores DEF THoldsMtx, TMutexInv, TribePath
  <2>2. \A u \in Tribesmen : ~ THoldsMtx(u)'
    BY <1>1, <2>1 DEF TMutexInv
  <2>. QED
    BY <2>1, <2>2 DEF TMutexInv
<1>5. CASE t_pc[t] \notin {"mtx", "postmtx"}
  <2>1. t_mtx' = t_mtx /\ (THoldsMtx(t)' <=> THoldsMtx(t))
    BY <1>2, <1>5, TSemaphores DEF THoldsMtx, TribePath
  <2>. QED
    BY <1>1, <1>2, <2>1 DEF TMutexInv
<1>. QED
  BY <1>3, <1>4, <1>5

\* fair is held by the cook or by the tribesman who holds mtx.
LEMMA TFairStep ==
  ASSUME Tribe!TypeOK, TMutexInv, TFairInv,
         NEW t \in Tribesmen, Tribe!SemWait(t) \/ Tribe!Tribesman(t)
  PROVE  TFairInv' /\ t_fair' \in {0, 1}
<1>1. /\ \A u \in Tribesmen : u # t => (THoldsFair(u)' <=> THoldsFair(u))
      /\ CookHoldsFair' <=> CookHoldsFair
  BY TOthersStay DEF THoldsFair, CookHoldsFair
<1>2. t_fair \in {0, 1} /\ <<t_pc[t], t_pc'[t]>> \in TribePath
  BY TOthersStay DEF Tribe!TypeOK
<1>3. CASE t_pc[t] \in {"fair", "fair2"}
  <2>1. t_fair' = 0 /\ ~ CookHoldsFair /\ \A u \in Tribesmen : ~ THoldsFair(u)
    BY <1>3, TSemaphores DEF TFairInv
  <2>. QED
    BY <1>1, <2>1 DEF TFairInv
<1>4. CASE t_pc[t] \in {"postfair", "postfair2", "postfair3"}
  <2>1. /\ THoldsFair(t) /\ t_fair = 0 /\ ~ CookHoldsFair /\ ~ THoldsFair(t)'
        /\ t_fair' = 1
    BY <1>2, <1>4, TSemaphores DEF THoldsFair, TFairInv, TribePath
  <2>2. \A u \in Tribesmen : u # t => ~ THoldsFair(u)
    BY <1>4 DEF TMutexInv, THoldsMtx, THoldsFair
  <2>. QED
    BY <1>1, <2>1, <2>2 DEF TFairInv
<1>5. CASE t_pc[t] \notin {"fair", "fair2", "postfair", "postfair2", "postfair3"}
  <2>1. t_fair' = t_fair /\ (THoldsFair(t)' <=> THoldsFair(t))
    BY <1>2, <1>5, TSemaphores DEF THoldsFair, TribePath
  <2>. QED
    BY <1>1, <1>2, <2>1 DEF TFairInv
<1>. QED
  BY <1>3, <1>4, <1>5

\* The number of tribesmen, as the module of the tribe counts it.
LEMMA TCardinality == \A S : Tribe!Cardinality(S) = Cardinality(S)
  BY DEF Tribe!Cardinality, Cardinality, Tribe!IsFiniteSet, IsFiniteSet

LEMMA TConstants ==
  /\ IsFiniteSet(Tribesmen) /\ Cardinality(Tribesmen) \in Nat
  /\ Meals \in Nat /\ PotSize \in Nat /\ PotSize > 0
  BY TribeAssumption, PotAssumption, FS_CardinalityType

DoneAreCounted ==
  IsFiniteSet(DoneSet) /\ Cardinality(DoneSet) \in 0 .. Cardinality(Tribesmen)

LEMMA TDoneFacts == DoneAreCounted
<1>1. DoneSet \in SUBSET Tribesmen
  BY DEF DoneSet
<1>2. IsFiniteSet(DoneSet) /\ Cardinality(DoneSet) <= Cardinality(Tribesmen)
  BY <1>1, TConstants, FS_Subset
<1>3. Cardinality(DoneSet) \in Nat
  BY <1>2, FS_CardinalityType
<1>. QED
  BY <1>2, <1>3, TConstants DEF DoneAreCounted

\* nDone counts under nDLock.
LEMMA TDoneStep ==
  ASSUME Tribe!TypeOK, TDoneInv, NEW t \in Tribesmen, Tribe!SemWait(t) \/ Tribe!Tribesman(t)
  PROVE  TDoneInv' /\ nDLock' \in {0, 1}
<1>1. /\ \A u \in Tribesmen : u # t => (THoldsDone(u)' <=> THoldsDone(u)) /\ t_pc'[u] = t_pc[u]
      /\ CookHoldsDone' <=> CookHoldsDone
  BY TOthersStay DEF THoldsDone, CookHoldsDone
<1>2. nDLock \in {0, 1} /\ <<t_pc[t], t_pc'[t]>> \in TribePath
  BY TOthersStay DEF Tribe!TypeOK
<1>3. CASE t_pc'[t] = "done"
  <2>1. nDLock' = 0 /\ ~ CookHoldsDone /\ \A u \in Tribesmen : ~ THoldsDone(u)
    BY <1>3, TSemaphores DEF TDoneInv
  <2>2. t_pc[t] = "serve" /\ nDone' = nDone
    BY <1>2, <1>3, TCounters DEF TribePath
  <2>3. DoneSet' = DoneSet
    BY <1>1, <1>3, <2>2 DEF DoneSet
  <2>. QED
    BY <1>1, <2>1, <2>2, <2>3 DEF TDoneInv
<1>4. CASE t_pc[t] = "postdone"
  <2>1. /\ THoldsDone(t) /\ nDLock = 0 /\ ~ CookHoldsDone /\ ~ THoldsDone(t)'
        /\ nDLock' = 1 /\ nDone' = nDone /\ t_pc'[t] = "end"
    BY <1>2, <1>4, TSemaphores, TCounters DEF THoldsDone, TDoneInv, TribePath
  <2>2. DoneSet' = DoneSet
    BY <1>1, <1>4, <2>1 DEF DoneSet
  <2>. QED
    BY <1>1, <2>1, <2>2 DEF TDoneInv
<1>5. CASE t_pc'[t] # "done" /\ t_pc[t] # "postdone"
  <2>1. nDLock' = nDLock /\ (THoldsDone(t)' <=> THoldsDone(t))
    BY <1>2, <1>5, TSemaphores DEF THoldsDone, TribePath
  <2>2. nDone' = Cardinality(DoneSet')
    <3>1. CASE t_pc[t] = "done"
      <4>1. t_pc'[t] = "postdone" /\ nDone' = nDone + 1
        BY <1>2, <3>1, TCounters DEF TribePath
      <4>2. DoneSet' = DoneSet \cup {t} /\ t \notin DoneSet
        BY <1>1, <3>1, <4>1 DEF DoneSet
      <4>. QED
        BY <4>1, <4>2, TDoneFacts, FS_AddElement DEF DoneAreCounted, TDoneInv
    <3>2. CASE t_pc[t] # "done"
      <4>1. nDone' = nDone
        BY <3>2, TCounters
      <4>2. DoneSet' = DoneSet
        BY <1>1, <1>2, <1>5, <3>2 DEF DoneSet, TribePath
      <4>. QED
        BY <4>1, <4>2 DEF TDoneInv
    <3>. QED
      BY <3>1, <3>2
  <2>. QED
    BY <1>1, <1>2, <2>1, <2>2 DEF TDoneInv
<1>. QED
  BY <1>3, <1>4, <1>5

\* Only the tribesman who holds mtx touches the pot or the note.
LEMMA TPotStep ==
  ASSUME Tribe!TypeOK, TMutexInv, TFairInv, TPotInv,
         NEW t \in Tribesmen, Tribe!SemWait(t) \/ Tribe!Tribesman(t)
  PROVE  TPotInv' /\ pot_count' \in 0 .. PotSize /\ gg' \in {-1, 0} /\ t_rw_mutex' \in {0, 1}
<1>1. /\ \A u \in Tribesmen : u # t => t_pc'[u] = t_pc[u]
      /\ cook' = cook /\ <<t_pc[t], t_pc'[t]>> \in TribePath
  BY TOthersStay
<1>2. pot_count \in 0 .. PotSize /\ gg \in {-1, 0} /\ t_rw_mutex \in {0, 1}
  BY DEF Tribe!TypeOK
<1>3. \A u \in Tribesmen : u # t /\ THoldsMtx(t) => ~ THoldsMtx(u)
  BY DEF TMutexInv
<1>4. CASE t_pc[t] = "look"
  <2>1. t_rw_mutex' = t_rw_mutex /\ pot_count' = pot_count
    BY <1>4, TSemaphores, TCounters
  <2>2. \A u \in Tribesmen : u # t => ~ THoldsMtx(u)
    BY <1>3, <1>4 DEF THoldsMtx
  <2>3. ~ Answered /\ ~ Tribe!Noted
    BY <1>4, <2>2 DEF TPotInv, THoldsMtx
  <2>4. IF pot_count = 0 THEN t_pc'[t] = "postfair" /\ gg' = -1
                         ELSE t_pc'[t] = "postfair2" /\ gg' = gg
    BY <1>4, TCounters
  <2>. QED
    BY <1>1, <1>2, <2>1, <2>2, <2>3, <2>4 DEF TPotInv, Answered, Tribe!Noted, THoldsMtx
<1>5. CASE t_pc[t] = "get"
  <2>1. t_rw_mutex' = t_rw_mutex /\ gg' = gg /\ pot_count' = pot_count - 1
          /\ t_pc'[t] = "postfair3"
    BY <1>1, <1>5, TSemaphores, TCounters DEF TribePath
  <2>2. \A u \in Tribesmen : u # t => ~ THoldsMtx(u)
    BY <1>3, <1>5 DEF THoldsMtx
  <2>3. ~ Answered /\ ~ Tribe!Noted /\ pot_count > 0
    BY <1>5, <2>2 DEF TPotInv, THoldsMtx
  <2>4. pot_count' \in 0 .. PotSize
    BY <1>2, <2>1, <2>3, TConstants
  <2>5. \A u \in Tribesmen : t_pc'[u] \notin {"postfair2", "fair2", "get", "postfair"}
    BY <1>1, <2>1, <2>2 DEF THoldsMtx
  <2>6. ~ Answered' /\ ~ Tribe!Noted'
    BY <1>1, <2>1, <2>3 DEF Answered, Tribe!Noted
  <2>. QED
    BY <1>2, <2>1, <2>4, <2>5, <2>6 DEF TPotInv, Answered
<1>6. CASE t_pc[t] = "rw"
  <2>1. /\ t_rw_mutex = 1 /\ t_rw_mutex' = 0 /\ gg' = gg /\ pot_count' = pot_count
        /\ t_pc'[t] = "fair2"
    BY <1>1, <1>6, TSemaphores, TCounters DEF TribePath
  <2>2. pot_count = PotSize /\ cook # "answer" /\ ~ Tribe!Noted
    BY <2>1, TConstants DEF TPotInv, Answered
  <2>. QED
    BY <1>1, <1>2, <2>1, <2>2, TConstants DEF TPotInv, Answered, Tribe!Noted
<1>7. CASE t_pc[t] \notin {"look", "get", "rw"}
  <2>1. t_rw_mutex' = t_rw_mutex /\ gg' = gg /\ pot_count' = pot_count
    BY <1>7, TSemaphores, TCounters
  <2>2. /\ t_pc'[t] \in {"postfair2", "fair2", "get"} => t_pc[t] \in {"postfair2", "fair2", "get"}
        /\ t_pc'[t] # "postfair"
        /\ t_pc[t] = "postfair" => t_pc'[t] = "rw"
    BY <1>1, <1>7 DEF TribePath
  <2>3. Tribe!Noted => \E u \in Tribesmen : t_pc'[u] \in {"postfair", "rw"}
    <3> SUFFICES ASSUME Tribe!Noted PROVE \E u \in Tribesmen : t_pc'[u] \in {"postfair", "rw"}
      OBVIOUS
    <3>1. PICK u \in Tribesmen : t_pc[u] \in {"postfair", "rw"}
      BY DEF TPotInv
    <3>2. t_pc'[u] \in {"postfair", "rw"}
      BY <1>1, <1>7, <2>2, <3>1
    <3>. QED
      BY <3>2
  <2>4. Answered => \E u \in Tribesmen : t_pc'[u] = "rw"
    BY <1>1, <1>7 DEF TPotInv
  <2>. QED
    BY <1>1, <1>2, <2>1, <2>2, <2>3, <2>4 DEF TPotInv, Answered, Tribe!Noted
<1>. QED
  BY <1>4, <1>5, <1>6, <1>7

\* A tribesman measures alone: what he loaded is still there when he stores.
LEMMA TLocalStep ==
  ASSUME Tribe!TypeOK, TMutexInv, TLocalInv,
         NEW t \in Tribesmen, Tribe!SemWait(t) \/ Tribe!Tribesman(t)
  PROVE  /\ TLocalInv' /\ t_left' \in [Tribesmen -> 0 .. Meals] /\ t_wait_time' \in Nat
         /\ t_tmp' \in [Tribesmen -> Nat]
<1>1. /\ \A u \in Tribesmen : u # t => /\ t_pc'[u] = t_pc[u] /\ t_left'[u] = t_left[u]
                                       /\ t_tmp'[u] = t_tmp[u]
      /\ cook' = cook /\ <<t_pc[t], t_pc'[t]>> \in TribePath
  BY TOthersStay
<1>2. \A u \in Tribesmen : t_left[u] \in 0 .. Meals /\ t_tmp[u] \in Nat /\ t_wait_time \in Nat
  BY DEF Tribe!TypeOK
<1>3. TLocal(t)
  BY DEF TLocalInv
<1>4. t_left'[t] = IF t_pc[t] = "postmtx" THEN t_left[t] - 1 ELSE t_left[t]
  BY TCounters DEF Tribe!TypeOK
<1>5. t_left'[t] \in 0 .. Meals
  BY <1>2, <1>3, <1>4, TConstants DEF TLocal
<1>6. t_left' \in [Tribesmen -> 0 .. Meals]
  BY <1>4, <1>5, TCounters DEF Tribe!TypeOK
<1>7. t_wait_time' \in Nat /\ t_tmp' \in [Tribesmen -> Nat]
  BY <1>2, TCounters DEF Tribe!TypeOK
<1>8. TLocal(t)'
  <2>1. t_pc'[t] \notin {"serve", "done", "postdone", "end"} => t_left'[t] > 0
    BY <1>1, <1>3, <1>4, TCounters DEF TLocal, TribePath
  <2>2. t_pc'[t] \in {"done", "postdone", "end"} => t_left'[t] = 0
    BY <1>1, <1>3, <1>4, TCounters DEF TLocal, TribePath
  <2>3. t_pc'[t] = "store" => t_tmp'[t] = t_wait_time'
    <3> SUFFICES ASSUME t_pc'[t] = "store" PROVE t_tmp'[t] = t_wait_time'
      OBVIOUS
    <3>1. t_pc[t] = "eat"
      BY <1>1 DEF TribePath
    <3>. QED
      BY <3>1, TCounters DEF Tribe!TypeOK
  <2>. QED
    BY <2>1, <2>2, <2>3 DEF TLocal
<1>9. \A u \in Tribesmen : u # t => TLocal(u)'
  <2> SUFFICES ASSUME NEW u \in Tribesmen, u # t PROVE TLocal(u)'
    OBVIOUS
  <2>1. TLocal(u)
    BY DEF TLocalInv
  <2>2. t_pc[u] = "store" => t_wait_time' = t_wait_time
    <3> SUFFICES ASSUME t_pc[u] = "store" PROVE t_wait_time' = t_wait_time
      OBVIOUS
    <3>1. t_pc[t] # "store"
      BY DEF TMutexInv, THoldsMtx
    <3>. QED
      BY <3>1, TCounters
  <2>. QED
    BY <1>1, <2>1, <2>2 DEF TLocal
<1>10. cook # "end"
  <2> SUFFICES ASSUME cook = "end" PROVE FALSE
    OBVIOUS
  <2>1. t_pc[t] = "end"
    BY DEF TLocalInv
  <2>. QED
    BY <1>1, <2>1 DEF TribePath
<1>. QED
  BY <1>1, <1>6, <1>7, <1>8, <1>9, <1>10 DEF TLocalInv

\* The pairs of tribesmen and meals are finitely many.
LEMMA TPairs ==
  /\ IsFiniteSet(Untold) /\ IsFiniteSet(ToServe)
  /\ Cardinality(Untold) \in Nat /\ Cardinality(ToServe) \in Nat
  /\ Meals * Cardinality(Tribesmen) \in Nat
  /\ Cardinality(Tribesmen \X (1 .. Meals)) = Meals * Cardinality(Tribesmen)
<1>1. IsFiniteSet(1 .. Meals) /\ Cardinality(1 .. Meals) = Meals
  <2>1. /\ IsFiniteSet(1 .. Meals)
        /\ Cardinality(1 .. Meals) = IF 1 > Meals THEN 0 ELSE Meals - 1 + 1
    BY TConstants, FS_Interval
  <2>. QED
    BY <2>1, TConstants
<1>2. /\ IsFiniteSet(Tribesmen \X (1 .. Meals))
      /\ Cardinality(Tribesmen \X (1 .. Meals)) = Cardinality(Tribesmen) * Meals
  BY <1>1, TConstants, FS_Product
<1>3. Untold \in SUBSET (Tribesmen \X (1 .. Meals))
        /\ ToServe \in SUBSET (Tribesmen \X (1 .. Meals))
  BY DEF Untold, ToServe
<1>4. /\ IsFiniteSet(Untold) /\ IsFiniteSet(ToServe)
      /\ Cardinality(Untold) \in Nat /\ Cardinality(ToServe) \in Nat
  BY <1>2, <1>3, FS_Subset, FS_CardinalityType
<1>. QED
  BY <1>2, <1>4, TConstants

\* A meal is taken from the pot once and measured once.
LEMMA TSumStep ==
  ASSUME Tribe!TypeOK, TMutexInv, TLocalInv, TSumInv,
         NEW t \in Tribesmen, Tribe!SemWait(t) \/ Tribe!Tribesman(t)
  PROVE  TSumInv'
<1>1. /\ \A u \in Tribesmen : u # t => MealsUntold(u)' = MealsUntold(u)
                                         /\ MealsToServe(u)' = MealsToServe(u)
      /\ refills' = refills /\ <<t_pc[t], t_pc'[t]>> \in TribePath
  BY TOthersStay DEF MealsUntold, MealsToServe
<1>2. /\ \A u \in Tribesmen : t_left[u] \in 0 .. Meals
      /\ t_wait_time \in Nat /\ pot_count \in 0 .. PotSize /\ refills \in Nat
  BY DEF Tribe!TypeOK
<1>3. TLocal(t)
  BY DEF TLocalInv
<1>4. t_left'[t] = IF t_pc[t] = "postmtx" THEN t_left[t] - 1 ELSE t_left[t]
  BY TCounters DEF Tribe!TypeOK
<1>5. /\ IsFiniteSet(Untold) /\ Cardinality(Untold) \in Nat
      /\ IsFiniteSet(ToServe) /\ Cardinality(ToServe) \in Nat
      /\ Meals * Cardinality(Tribesmen) \in Nat
  BY TPairs
<1>6. t_wait_time' + Cardinality(Untold') = Meals * Cardinality(Tribesmen)
  <2>1. CASE t_pc[t] = "store"
    <3>1. t_left[t] \in 1 .. Meals /\ MealsUntold(t) = t_left[t]
            /\ MealsUntold(t)' = t_left[t] - 1 /\ t_wait_time' = t_wait_time + 1
      BY <1>1, <1>2, <1>3, <1>4, <2>1, TCounters DEF TLocal, MealsUntold, TribePath
    <3>2. <<t, t_left[t]>> \in Untold
      BY <3>1 DEF Untold
    <3>3. Untold' = Untold \ {<<t, t_left[t]>>}
      <4>1. ASSUME NEW u \in Tribesmen, NEW k \in 1 .. Meals
            PROVE  k <= MealsUntold(u)' <=> k <= MealsUntold(u) /\ <<u, k>> # <<t, t_left[t]>>
        BY <1>1, <3>1, TConstants
      <4>. QED
        BY <4>1 DEF Untold
    <3>4. Cardinality(Untold') = Cardinality(Untold) - 1
      BY <1>5, <3>2, <3>3, FS_RemoveElement
    <3>. QED
      BY <1>2, <1>5, <3>1, <3>4 DEF TSumInv
  <2>2. CASE t_pc[t] # "store"
    <3>1. MealsUntold(t)' = MealsUntold(t)
      BY <1>1, <1>2, <1>4, <2>2 DEF MealsUntold, TribePath
    <3>2. Untold' = Untold /\ t_wait_time' = t_wait_time
      BY <1>1, <2>2, <3>1, TCounters DEF Untold
    <3>. QED
      BY <3>2 DEF TSumInv
  <2>. QED
    BY <2>1, <2>2
<1>7. PotSize * (refills + 1) + Cardinality(ToServe')
        = Meals * Cardinality(Tribesmen) + pot_count'
  <2>1. CASE t_pc[t] = "get"
    <3>1. t_left[t] \in 1 .. Meals /\ MealsToServe(t) = t_left[t]
            /\ MealsToServe(t)' = t_left[t] - 1 /\ pot_count' = pot_count - 1
      BY <1>1, <1>2, <1>3, <1>4, <2>1, TCounters DEF TLocal, MealsToServe, TribePath
    <3>2. <<t, t_left[t]>> \in ToServe
      BY <3>1 DEF ToServe
    <3>3. ToServe' = ToServe \ {<<t, t_left[t]>>}
      <4>1. ASSUME NEW u \in Tribesmen, NEW k \in 1 .. Meals
            PROVE  k <= MealsToServe(u)' <=> k <= MealsToServe(u) /\ <<u, k>> # <<t, t_left[t]>>
        BY <1>1, <3>1, TConstants
      <4>. QED
        BY <4>1 DEF ToServe
    <3>4. Cardinality(ToServe') = Cardinality(ToServe) - 1
      BY <1>5, <3>2, <3>3, FS_RemoveElement
    <3>5. PotSize * (refills + 1) \in Nat
      BY <1>2, TConstants
    <3>. QED
      BY <1>2, <1>5, <3>1, <3>4, <3>5 DEF TSumInv
  <2>2. CASE t_pc[t] # "get"
    <3>1. MealsToServe(t)' = MealsToServe(t)
      BY <1>1, <1>2, <1>4, <2>2 DEF MealsToServe, TribePath
    <3>2. ToServe' = ToServe /\ pot_count' = pot_count
      BY <1>1, <2>2, <3>1, TCounters DEF ToServe
    <3>. QED
      BY <3>2 DEF TSumInv
  <2>. QED
    BY <2>1, <2>2
<1>. QED
  BY <1>1, <1>6, <1>7 DEF TSumInv

\* The cook refills only an empty pot and answers only the note of a tribesman
\* who is blocked.
LEMMA TCookStep == ASSUME TInv, Tribe!Cook PROVE TInv'
<1> USE DEF TInv
<1>1. /\ UNCHANGED <<t_mtx, t_pc, t_left, t_wait_time, t_tmp, nDone>>
      /\ <<cook, cook'>> \in CookPath
  BY TCookMoves
<1>2. /\ t_rw_mutex \in {0, 1} /\ t_fair \in {0, 1} /\ nDLock \in {0, 1}
      /\ pot_count \in 0 .. PotSize /\ gg \in {-1, 0} /\ refills \in Nat
  BY DEF Tribe!TypeOK
<1>3. TMutexInv'
  BY <1>1 DEF TMutexInv, THoldsMtx
<1>4. TFairInv' /\ t_fair' \in {0, 1}
  <2>1. \A t \in Tribesmen : THoldsFair(t)' <=> THoldsFair(t)
    BY <1>1 DEF THoldsFair
  <2>2. CASE cook = "sleep"
    BY <1>1, <2>1, <2>2, TCookMoves DEF TFairInv, CookHoldsFair
  <2>3. CASE cook = "postfair"
    BY <1>1, <1>2, <2>1, <2>3, TCookMoves DEF TFairInv, CookHoldsFair, CookPath
  <2>4. CASE cook \notin {"sleep", "postfair"}
    BY <1>1, <1>2, <2>1, <2>4, TCookMoves DEF TFairInv, CookHoldsFair, CookPath
  <2>. QED
    BY <2>2, <2>3, <2>4
<1>5. TDoneInv' /\ nDLock' \in {0, 1}
  <2>1. DoneSet' = DoneSet /\ \A t \in Tribesmen : THoldsDone(t)' <=> THoldsDone(t)
    BY <1>1 DEF THoldsDone, DoneSet
  <2>2. CASE cook = "nap"
    BY <1>1, <2>1, <2>2, TCookMoves DEF TDoneInv, CookHoldsDone
  <2>3. CASE cook = "ask"
    BY <1>1, <1>2, <2>1, <2>3, TCookMoves DEF TDoneInv, CookHoldsDone, CookPath
  <2>4. CASE cook \notin {"nap", "ask"}
    BY <1>1, <1>2, <2>1, <2>4, TCookMoves DEF TDoneInv, CookHoldsDone, CookPath
  <2>. QED
    BY <2>2, <2>3, <2>4
<1>6. /\ TPotInv' /\ pot_count' \in 0 .. PotSize /\ gg' \in {-1, 0} /\ t_rw_mutex' \in {0, 1}
      /\ refills' \in Nat
  <2>1. CASE cook = "look" /\ pot_count = 0
    <3>1. /\ pot_count' = PotSize /\ gg' = 0 /\ refills' = refills + 1
          /\ cook' = IF Tribe!Noted THEN "answer" ELSE "postfair"
          /\ t_rw_mutex' = t_rw_mutex
      BY <2>1, TCookMoves
    <3>2. t_rw_mutex = 0
      BY <1>2, <2>1, TConstants DEF TPotInv, Answered
    <3>3. \A t \in Tribesmen : t_pc[t] # "postfair"
      BY <2>1 DEF TFairInv, CookHoldsFair, THoldsFair
    <3>4. cook' = "answer" => \E t \in Tribesmen : t_pc[t] = "rw"
      BY <3>1, <3>3 DEF TPotInv
    <3>5. PotSize \in 0 .. PotSize /\ refills + 1 \in Nat
      BY <1>2, TConstants
    <3>6. Answered' => pot_count' = PotSize /\ \E t \in Tribesmen : t_pc'[t] = "rw"
      BY <1>1, <3>1, <3>2, <3>4 DEF Answered
    <3>7. ~ Tribe!Noted'
      BY <3>1 DEF Tribe!Noted
    <3>8. \A t \in Tribesmen : t_pc'[t] # "postfair" /\ pot_count' > 0
      BY <1>1, <3>1, <3>3, TConstants
    <3>. QED
      BY <3>1, <3>2, <3>5, <3>6, <3>7, <3>8 DEF TPotInv
  <2>2. CASE cook = "answer"
    <3>1. UNCHANGED <<pot_count, gg, refills>> /\ cook' = "postfair"
            /\ t_rw_mutex = 0 /\ t_rw_mutex' = 1
      BY <1>1, <1>2, <2>2, TCookMoves DEF TPotInv, CookPath
    <3>2. Answered /\ Answered'
      BY <2>2, <3>1 DEF Answered
    <3>. QED
      BY <1>1, <1>2, <3>1, <3>2 DEF TPotInv, Tribe!Noted
  <2>3. CASE cook # "answer" /\ ~ (cook = "look" /\ pot_count = 0)
    <3>1. UNCHANGED <<pot_count, gg, refills, t_rw_mutex>> /\ cook' # "answer"
      BY <2>3, TCookMoves
    <3>. QED
      BY <1>1, <1>2, <2>3, <3>1 DEF TPotInv, Answered, Tribe!Noted
  <2>. QED
    BY <2>1, <2>2, <2>3
<1>7. TLocalInv'
  <2>1. \A t \in Tribesmen : TLocal(t)'
    BY <1>1 DEF TLocalInv, TLocal
  <2>2. cook' = "end" => \A t \in Tribesmen : t_pc'[t] = "end"
    BY <1>1, TCookMoves
  <2>. QED
    BY <2>1, <2>2 DEF TLocalInv
<1>8. TSumInv'
  <2>1. Untold' = Untold /\ ToServe' = ToServe
    BY <1>1 DEF Untold, ToServe, MealsUntold, MealsToServe
  <2>2. CASE cook = "look" /\ pot_count = 0
    <3>1. pot_count' = PotSize /\ refills' = refills + 1
      BY <2>2, TCookMoves
    <3>2. PotSize * (refills' + 1) = PotSize * (refills + 1) + PotSize
      BY <1>2, <3>1, TConstants
    <3>3. PotSize * (refills + 1) \in Nat
      BY <1>2, TConstants
    <3>4. PotSize * (refills + 1) + Cardinality(ToServe) = Meals * Cardinality(Tribesmen)
      BY <2>2, TPairs DEF TSumInv
    <3>5. PotSize * (refills' + 1) + Cardinality(ToServe)
            = Meals * Cardinality(Tribesmen) + pot_count'
      BY <3>1, <3>2, <3>3, <3>4, TPairs, TConstants
    <3>. QED
      BY <1>1, <2>1, <3>5 DEF TSumInv
  <2>3. CASE ~ (cook = "look" /\ pot_count = 0)
    <3>1. UNCHANGED <<pot_count, refills>>
      BY <2>3, TCookMoves
    <3>. QED
      BY <1>1, <2>1, <3>1 DEF TSumInv
  <2>. QED
    BY <2>2, <2>3
<1>9. cook' \in {"sleep", "look", "answer", "postfair", "nap", "ask", "join", "end"}
  BY <1>1 DEF CookPath
<1>10. Tribe!TypeOK'
  BY <1>1, <1>4, <1>5, <1>6, <1>9 DEF Tribe!TypeOK
<1>. QED
  BY <1>3, <1>4, <1>5, <1>6, <1>7, <1>8, <1>10

LEMMA TInit == Init => TInv
<1> SUFFICES ASSUME Tribe!Init PROVE TInv
  BY DEF Init
<1> USE DEF Tribe!Init
<1>1. DoneSet = {} /\ nDone = Cardinality(DoneSet)
  <2>1. DoneSet = {}
    BY DEF DoneSet
  <2>. QED
    BY <2>1, FS_EmptySet
<1>2. Tribe!TypeOK
  BY TConstants, TCardinality DEF Tribe!TypeOK
<1>3. TMutexInv /\ TFairInv
  BY DEF TMutexInv, THoldsMtx, TFairInv, THoldsFair, CookHoldsFair
<1>4. TDoneInv /\ TPotInv /\ TLocalInv
  BY <1>1 DEF TDoneInv, THoldsDone, CookHoldsDone, TPotInv, Answered, Tribe!Noted, TLocalInv,
     TLocal
<1>5. TSumInv
  <2>1. \A t \in Tribesmen : MealsUntold(t) = Meals /\ MealsToServe(t) = Meals
    BY TConstants DEF MealsUntold, MealsToServe
  <2>2. Untold = Tribesmen \X (1 .. Meals) /\ ToServe = Tribesmen \X (1 .. Meals)
    BY <2>1, TConstants DEF Untold, ToServe
  <2>3. Cardinality(Untold) = Meals * Cardinality(Tribesmen)
          /\ Cardinality(ToServe) = Meals * Cardinality(Tribesmen)
    BY <2>2, TPairs
  <2>4. PotSize * (refills + 1) = PotSize
    BY TConstants
  <2>. QED
    BY <2>3, <2>4, TPairs, TConstants DEF TSumInv
<1>. QED
  BY <1>2, <1>3, <1>4, <1>5 DEF TInv

LEMMA TStep ==
  ASSUME TInv, NEW t \in Tribesmen, Tribe!SemWait(t) \/ Tribe!Tribesman(t) PROVE TInv'
<1> USE DEF TInv
<1>1. TMutexInv' /\ t_mtx' \in {0, 1} /\ TFairInv' /\ t_fair' \in {0, 1}
  BY TMutexStep, TFairStep
<1>2. TDoneInv' /\ nDLock' \in {0, 1}
  BY TDoneStep
<1>3. TPotInv' /\ pot_count' \in 0 .. PotSize /\ gg' \in {-1, 0} /\ t_rw_mutex' \in {0, 1}
  BY TPotStep
<1>4. /\ TLocalInv' /\ t_left' \in [Tribesmen -> 0 .. Meals] /\ t_wait_time' \in Nat
      /\ t_tmp' \in [Tribesmen -> Nat]
  BY TLocalStep
<1>5. TSumInv'
  BY TSumStep
<1>6. nDone' \in 0 .. Tribe!Cardinality(Tribesmen)
  <2>1. DoneAreCounted'
    BY TDoneFacts, PTL
  <2>. QED
    BY <1>2, <2>1, TCardinality DEF TDoneInv, DoneAreCounted
<1>7. t_pc' \in [Tribesmen -> {"serve", "mtx", "fair", "look", "postfair", "postfair2", "rw",
                               "fair2", "get", "postfair3", "eat", "store", "postmtx",
                               "done", "postdone", "end"}]
  <2>1. t_pc'[t] \in {"serve", "mtx", "fair", "look", "postfair", "postfair2", "rw",
                      "fair2", "get", "postfair3", "eat", "store", "postmtx",
                      "done", "postdone", "end"}
    BY TOthersStay DEF TribePath
  <2>. QED
    BY <2>1, TOthersStay DEF Tribe!TypeOK
<1>8. Tribe!TypeOK'
  BY <1>1, <1>2, <1>3, <1>4, <1>6, <1>7, TOthersStay DEF Tribe!TypeOK
<1>. QED
  BY <1>1, <1>2, <1>3, <1>4, <1>5, <1>8

\* The inductive invariant of the tribe.
THEOREM TribeInvariant == Spec => []TInv
<1>1. TInv /\ [Next]_vars => TInv'
  <2> SUFFICES ASSUME TInv, [Next]_vars PROVE TInv'
    OBVIOUS
  <2>1. CASE UNCHANGED tribeVars
    BY <2>1 DEF tribeVars, TInv, Tribe!TypeOK, TMutexInv, THoldsMtx, TFairInv, THoldsFair,
       CookHoldsFair, TDoneInv, THoldsDone, CookHoldsDone, DoneSet, TPotInv, Answered,
       Tribe!Noted, TLocalInv, TLocal, TSumInv, Untold, ToServe, MealsUntold, MealsToServe
  <2>. QED
    BY <2>1, TStep, TCookStep, TMoves
<1>. QED
  BY <1>1, TInit, PTL DEF Spec

\* No serving is taken from an empty pot and no answer is left over; when the
\* cook goes home every meal has been served and measured.
LEMMA TInvImpliesSafety == TInv => Tribe!Safety /\ Tribe!ServingsAddUp
<1> SUFFICES ASSUME TInv PROVE Tribe!Safety /\ Tribe!ServingsAddUp
  OBVIOUS
<1> USE DEF TInv
<1>1. Tribe!Safety
  BY DEF Tribe!Safety, Tribe!AnswersAreAwaited, TPotInv, Answered
<1>2. Tribe!ServingsAddUp
  <2> SUFFICES ASSUME cook = "end"
               PROVE  /\ PotSize * (refills + 1) = Meals * Cardinality(Tribesmen) + pot_count
                      /\ t_wait_time = Meals * Cardinality(Tribesmen)
    BY TCardinality DEF Tribe!ServingsAddUp
  <2>1. \A t \in Tribesmen : t_pc[t] = "end" /\ t_left[t] = 0
    BY DEF TLocalInv, TLocal
  <2>2. \A t \in Tribesmen : MealsUntold(t) = 0 /\ MealsToServe(t) = 0
    BY <2>1 DEF MealsUntold, MealsToServe
  <2>3. Untold = {} /\ ToServe = {}
    BY <2>2 DEF Untold, ToServe
  <2>4. Cardinality(Untold) = 0 /\ Cardinality(ToServe) = 0
    BY <2>3, FS_EmptySet
  <2>5. t_wait_time \in Nat /\ PotSize * (refills + 1) \in Nat
    BY TConstants DEF Tribe!TypeOK
  <2>. QED
    BY <2>4, <2>5 DEF TSumInv
<1>. QED
  BY <1>1, <1>2

-----------------------------------------------------------------------------
(* The simulations.  A process is known by its task and its start time; it *)
(* is in one place at a time, and what it has run is bounded by its        *)
(* processing time and by the time since its start.                        *)

SimProcess ==
  [pid : Nat, t : Nat \ {0}, p : Nat \ {0}, st : Nat, run_time : Nat, end_time : Nat]

SameProcess(a, b) == a.pid = b.pid /\ a.st = b.st
Distinct(S) == \A a, b \in S : SameProcess(a, b) => a = b

Everywhere == all \cup rq \cup running \cup fin

MTypeOK ==
  /\ cur_time \in Nat /\ phase \in {"join", "pick", "sim", "stats"}
  /\ Everywhere \subseteq SimProcess
  /\ IsFiniteSet(all) /\ IsFiniteSet(rq) /\ IsFiniteSet(running) /\ IsFiniteSet(fin)

MApart ==
  /\ Distinct(Everywhere)
  /\ all \cap (rq \cup running \cup fin) = {}
  /\ rq \cap (running \cup fin) = {} /\ running \cap fin = {}
  /\ \A a, b \in running : a = b

MCountInv ==
  Cardinality(all) + Cardinality(rq) + Cardinality(running) + Cardinality(fin)
    = Cardinality(Sim!Processes(tasks))

\* a has still to run, and has not run for longer than it has been there.
Unfinished(a) == a.run_time < a.t /\ a.st + a.run_time <= cur_time

MTimeInv ==
  /\ \A a \in all : a.run_time = 0
  /\ \A a \in rq : Unfinished(a)
  /\ \A a \in running :
       IF phase = "sim"
         THEN /\ a.run_time <= a.t /\ a.st + a.run_time <= cur_time + 1
              /\ policy # "backup" => cur_time < a.st + a.p
         ELSE Unfinished(a)

\* In time, it ran for its processing time after its start; late, it was
\* stopped before it had, or the program does not stop processes.
MFinInv ==
  \A a \in fin :
    IF a.end_time < a.st + a.p THEN a.run_time = a.t /\ a.end_time - a.st + 1 >= a.t
    ELSE IF policy = "backup" THEN a.run_time = a.t ELSE a.run_time < a.t

MInv == MTypeOK /\ MApart /\ MCountInv /\ MTimeInv /\ MFinInv

\* How the variables of a simulation can change.
LEMMA MMoves ==
  ASSUME [Next]_vars
  PROVE  Sim!Simulate \/ UNCHANGED simVars
  BY DEF Next, vars, simVars, SemWait, Other, Cook, Over, RWStep, BarrierStep, TribeStep,
     SlabStep, SimStep, PrimeStep

\* A process that ends or runs for a tick stays the same process.
LEMMA MEnded ==
  ASSUME NEW a \in SimProcess, NEW e \in Nat
  PROVE  LET x == Sim!Ended(a, e)
         IN  /\ x \in SimProcess /\ SameProcess(a, x)
             /\ x.end_time = e /\ x.t = a.t /\ x.p = a.p /\ x.st = a.st
             /\ x.run_time = a.run_time
  BY DEF Sim!Ended, SimProcess, SameProcess

LEMMA MRan ==
  ASSUME NEW a \in SimProcess
  PROVE  \E x \in SimProcess :
           /\ Sim!Ran(a) = {x} /\ SameProcess(a, x)
           /\ x.t = a.t /\ x.p = a.p /\ x.st = a.st /\ x.run_time = a.run_time + 1
<1>. DEFINE x == [a EXCEPT !.run_time = @ + 1]
<1>1. /\ x \in SimProcess /\ x.t = a.t /\ x.p = a.p /\ x.st = a.st /\ x.pid = a.pid
      /\ x.run_time = a.run_time + 1
  BY DEF SimProcess
<1>2. Sim!Ran(a) = {x}
  BY DEF Sim!Ran
<1>. QED
  BY <1>1, <1>2 DEF SameProcess

\* A process takes its own place among distinct ones, and nobody else's.
LEMMA MReplace ==
  ASSUME NEW S, Distinct(S), NEW a \in S, NEW x, SameProcess(a, x)
  PROVE  /\ Distinct((S \ {a}) \cup {x})
         /\ x \notin S \ {a}
  BY DEF Distinct, SameProcess

LEMMA MCardinality == \A S : Sim!Cardinality(S) = Cardinality(S)
  BY DEF Sim!Cardinality, Cardinality, Sim!IsFiniteSet, IsFiniteSet

\* What moves from one finite set to another is counted once.
LEMMA MMoveOne ==
  ASSUME NEW S, NEW T, NEW a \in S, NEW x, x \notin T, IsFiniteSet(S), IsFiniteSet(T)
  PROVE  /\ IsFiniteSet(S \ {a}) /\ IsFiniteSet(T \cup {x})
         /\ Cardinality(S \ {a}) + Cardinality(T \cup {x}) = Cardinality(S) + Cardinality(T)
<1>1. Cardinality(S) \in Nat /\ Cardinality(T) \in Nat
  BY FS_CardinalityType
<1>2. IsFiniteSet(S \ {a}) /\ Cardinality(S \ {a}) = Cardinality(S) - 1
  BY FS_RemoveElement
<1>3. IsFiniteSet(T \cup {x}) /\ Cardinality(T \cup {x}) = Cardinality(T) + 1
  BY FS_AddElement
<1>. QED
  BY <1>1, <1>2, <1>3

LEMMA MJoinStep == ASSUME MInv, Sim!Join PROVE MInv'
<1>. DEFINE now == {a \in all : a.st = cur_time}
<1>1. /\ all' = all \ now /\ rq' = rq \cup now /\ phase = "join" /\ phase' \in {"stats", "pick"}
      /\ UNCHANGED <<policy, tasks, running, fin, cur_time>>
  BY DEF Sim!Join
<1>2. Everywhere' = Everywhere
  BY <1>1 DEF Everywhere
<1>3. IsFiniteSet(all') /\ IsFiniteSet(rq') /\ IsFiniteSet(now)
  <2>1. now \in SUBSET all
    OBVIOUS
  <2>2. IsFiniteSet(now)
    BY <2>1, FS_Subset DEF MInv, MTypeOK
  <2>. QED
    BY <1>1, <2>2, FS_Difference, FS_Union DEF MInv, MTypeOK
<1>4. MTypeOK'
  BY <1>1, <1>2, <1>3 DEF MInv, MTypeOK
<1>5. MApart'
  BY <1>1, <1>2 DEF MInv, MApart
<1>6. MCountInv'
  <2>1. /\ Cardinality(all') = Cardinality(all) - Cardinality(all \cap now)
        /\ Cardinality(rq') = Cardinality(rq) + Cardinality(now) - Cardinality(rq \cap now)
    BY <1>1, <1>3, FS_Difference, FS_Union DEF MInv, MTypeOK
  <2>2. Cardinality(all \cap now) = Cardinality(now)
    <3>1. all \cap now = now
      OBVIOUS
    <3>. QED
      BY <3>1
  <2>3. Cardinality(rq \cap now) = 0
    <3>1. rq \cap now = {}
      BY DEF MInv, MApart
    <3>. QED
      BY <3>1, FS_EmptySet
  <2>4. /\ Cardinality(all) \in Nat /\ Cardinality(rq) \in Nat /\ Cardinality(now) \in Nat
        /\ Cardinality(running) \in Nat /\ Cardinality(fin) \in Nat
    BY <1>3, FS_CardinalityType DEF MInv, MTypeOK
  <2>5. running' = running /\ fin' = fin /\ Sim!Processes(tasks)' = Sim!Processes(tasks)
    BY <1>1
  <2>6. Cardinality(all') + Cardinality(rq') = Cardinality(all) + Cardinality(rq)
    BY <2>1, <2>2, <2>3, <2>4
  <2>7. Cardinality(all') \in Nat /\ Cardinality(rq') \in Nat
    BY <1>3, FS_CardinalityType
  <2>. QED
    BY <2>4, <2>5, <2>6, <2>7 DEF MInv, MCountInv
<1>7. MTimeInv'
  <2>1. \A a \in now : Unfinished(a)
    <3> TAKE a \in now
    <3>1. a \in SimProcess /\ a.run_time = 0 /\ a.st = cur_time
      BY DEF MInv, MTypeOK, Everywhere, MTimeInv
    <3>. QED
      BY <3>1 DEF Unfinished, SimProcess
  <2>. QED
    BY <1>1, <2>1 DEF MInv, MTimeInv, Unfinished
<1>8. MFinInv'
  BY <1>1 DEF MInv, MFinInv
<1>. QED
  BY <1>4, <1>5, <1>6, <1>7, <1>8 DEF MInv

\* A process that is stopped at its deadline leaves the CPU, or the queue.
LEMMA MStopRunningStep == ASSUME MInv, Sim!StopRunning PROVE MInv'
<1>1. PICK a \in running : Sim!miss_dl(a) /\ fin' = fin \cup {Sim!Ended(a, Sim!dline(a))}
  BY DEF Sim!StopRunning
<1>2. /\ phase = "pick" /\ running' = {} /\ phase' = "join"
      /\ UNCHANGED <<policy, tasks, all, rq, cur_time>>
  BY DEF Sim!StopRunning
<1>. DEFINE x == Sim!Ended(a, a.st + a.p)
<1>3. a \in SimProcess /\ a \in Everywhere
  BY DEF MInv, MTypeOK, Everywhere
<1>4. /\ x \in SimProcess /\ SameProcess(a, x) /\ x.end_time = a.st + a.p
      /\ x.t = a.t /\ x.p = a.p /\ x.st = a.st /\ x.run_time = a.run_time
  <2>1. a.st + a.p \in Nat
    BY <1>3 DEF SimProcess
  <2>. QED
    BY <2>1, <1>3, MEnded
<1>5. fin' = fin \cup {x} /\ policy # "backup"
  BY <1>1 DEF Sim!dline, Sim!miss_dl
<1>. HIDE DEF x
<1>6. running = {a} /\ running \ {a} = running'
  BY <1>2 DEF MInv, MApart
<1>7. Distinct((Everywhere \ {a}) \cup {x}) /\ x \notin Everywhere \ {a}
  BY <1>3, <1>4, MReplace DEF MInv, MApart
<1>8. Everywhere' = (Everywhere \ {a}) \cup {x}
  BY <1>2, <1>5, <1>6 DEF Everywhere, MInv, MApart
<1>9. x \notin fin /\ x \notin all /\ x \notin rq
  BY <1>7, <1>6 DEF Everywhere, MInv, MApart
<1>10. MTypeOK'
  <2>1. IsFiniteSet(running') /\ IsFiniteSet(fin')
    BY <1>5, <1>6, <1>9, MMoveOne DEF MInv, MTypeOK
  <2>2. Everywhere' \subseteq SimProcess
    BY <1>4, <1>8 DEF MInv, MTypeOK
  <2>. QED
    BY <1>2, <2>1, <2>2 DEF MInv, MTypeOK
<1>11. MApart'
  BY <1>2, <1>5, <1>7, <1>8, <1>9 DEF MInv, MApart
<1>12. MCountInv'
  <2>1. Cardinality(running') + Cardinality(fin') = Cardinality(running) + Cardinality(fin)
    BY <1>5, <1>6, <1>9, MMoveOne DEF MInv, MTypeOK
  <2>2. UNCHANGED <<Cardinality(all), Cardinality(rq), Cardinality(Sim!Processes(tasks))>>
    BY <1>2
  <2>3. /\ Cardinality(all) \in Nat /\ Cardinality(rq) \in Nat
        /\ Cardinality(running) \in Nat /\ Cardinality(fin) \in Nat
        /\ Cardinality(running') \in Nat /\ Cardinality(fin') \in Nat
    BY <1>10, FS_CardinalityType DEF MInv, MTypeOK
  <2>. QED
    BY <2>1, <2>2, <2>3 DEF MInv, MCountInv
<1>13. MTimeInv'
  BY <1>2 DEF MInv, MTimeInv, Unfinished
<1>14. MFinInv'
  <2>1. a.run_time < a.t
    BY <1>2 DEF MInv, MTimeInv, Unfinished
  <2>2. ~ (x.end_time < x.st + x.p)
    BY <1>3, <1>4 DEF SimProcess
  <2>. QED
    BY <1>2, <1>4, <1>5, <2>1, <2>2 DEF MInv, MFinInv
<1>. QED
  BY <1>10, <1>11, <1>12, <1>13, <1>14 DEF MInv

LEMMA MStopWaitingStep == ASSUME MInv, NEW a \in rq, Sim!StopWaiting(a) PROVE MInv'
<1>. DEFINE x == Sim!Ended(a, a.st + a.p)
<1>1. /\ phase = "pick" /\ phase' \in {"sim", "pick"} /\ rq' = rq \ {a} /\ fin' = fin \cup {x}
      /\ phase' = "sim" => running = {}
      /\ policy # "backup" /\ UNCHANGED <<policy, tasks, all, running, cur_time>>
  BY DEF Sim!StopWaiting, Sim!Picking, Sim!dline, Sim!miss_dl
<1>2. a \in SimProcess /\ a \in Everywhere
  BY DEF MInv, MTypeOK, Everywhere
<1>3. /\ x \in SimProcess /\ SameProcess(a, x) /\ x.end_time = a.st + a.p
      /\ x.t = a.t /\ x.p = a.p /\ x.st = a.st /\ x.run_time = a.run_time
  <2>1. a.st + a.p \in Nat
    BY <1>2 DEF SimProcess
  <2>. QED
    BY <2>1, <1>2, MEnded
<1>. HIDE DEF x
<1>4. Distinct((Everywhere \ {a}) \cup {x}) /\ x \notin Everywhere \ {a}
  BY <1>2, <1>3, MReplace DEF MInv, MApart
<1>5. Everywhere' = (Everywhere \ {a}) \cup {x}
  BY <1>1 DEF Everywhere, MInv, MApart
<1>6. x \notin fin /\ x \notin all /\ x \notin running /\ x \notin rq'
  BY <1>1, <1>4 DEF Everywhere, MInv, MApart
<1>7. MTypeOK'
  BY <1>1, <1>3, <1>5, <1>6, MMoveOne DEF MInv, MTypeOK
<1>8. MApart'
  BY <1>1, <1>4, <1>5, <1>6 DEF MInv, MApart
<1>9. MCountInv'
  <2>1. Cardinality(rq') + Cardinality(fin') = Cardinality(rq) + Cardinality(fin)
    BY <1>1, <1>6, MMoveOne, ZenonT(30) DEF MInv, MTypeOK
  <2>2. UNCHANGED <<Cardinality(all), Cardinality(running), Cardinality(Sim!Processes(tasks))>>
    BY <1>1
  <2>3. /\ Cardinality(all) \in Nat /\ Cardinality(rq) \in Nat
        /\ Cardinality(running) \in Nat /\ Cardinality(fin) \in Nat
        /\ Cardinality(rq') \in Nat /\ Cardinality(fin') \in Nat
    BY <1>7, FS_CardinalityType DEF MInv, MTypeOK
  <2>. QED
    BY <2>1, <2>2, <2>3 DEF MInv, MCountInv
<1>10. MTimeInv'
  BY <1>1 DEF MInv, MTimeInv, Unfinished
<1>11. MFinInv'
  <2>1. a.run_time < a.t
    BY DEF MInv, MTimeInv, Unfinished
  <2>2. ~ (x.end_time < x.st + x.p)
    BY <1>2, <1>3 DEF SimProcess
  <2>. QED
    BY <1>1, <1>3, <2>1, <2>2 DEF MInv, MFinInv
<1>. QED
  BY <1>7, <1>8, <1>9, <1>10, <1>11 DEF MInv

\* The process on top runs for a tick; one that it takes the CPU from waits.
LEMMA MDispatchStep == ASSUME MInv, NEW a \in rq, Sim!Dispatch(a) PROVE MInv'
<1>1. /\ phase = "pick" /\ phase' = "sim" /\ rq' = (rq \ {a}) \cup running
      /\ running' = Sim!Ran(a) /\ (policy # "backup" => cur_time < a.st + a.p)
      /\ UNCHANGED <<policy, tasks, all, fin, cur_time>>
  <2>1. a.st + a.p \in Int /\ cur_time \in Int
    BY DEF MInv, MTypeOK, Everywhere, SimProcess
  <2>. QED
    BY <2>1 DEF Sim!Dispatch, Sim!Picking, Sim!dline, Sim!miss_dl
<1>2. a \in SimProcess /\ a \in Everywhere
  BY DEF MInv, MTypeOK, Everywhere
<1>3. PICK x \in SimProcess :
        /\ running' = {x} /\ SameProcess(a, x)
        /\ x.t = a.t /\ x.p = a.p /\ x.st = a.st /\ x.run_time = a.run_time + 1
  BY <1>1, <1>2, MRan
<1>4. Distinct((Everywhere \ {a}) \cup {x}) /\ x \notin Everywhere \ {a}
  BY <1>2, <1>3, MReplace DEF MInv, MApart
<1>5. Everywhere' = (Everywhere \ {a}) \cup {x}
  BY <1>1, <1>3 DEF Everywhere, MInv, MApart
<1>6. x \notin fin /\ x \notin all /\ x \notin rq'
  BY <1>1, <1>4 DEF Everywhere, MInv, MApart
<1>7. /\ IsFiniteSet(rq') /\ IsFiniteSet(running')
      /\ Cardinality(rq') = Cardinality(rq) - 1 + Cardinality(running)
      /\ Cardinality(running') = 1
  <2>1. IsFiniteSet(rq \ {a}) /\ Cardinality(rq \ {a}) = Cardinality(rq) - 1
    BY FS_RemoveElement DEF MInv, MTypeOK
  <2>2. (rq \ {a}) \cap running = {}
    BY DEF MInv, MApart
  <2>3. Cardinality((rq \ {a}) \cap running) = 0
    BY <2>2, FS_EmptySet
  <2>4. /\ IsFiniteSet((rq \ {a}) \cup running)
        /\ Cardinality((rq \ {a}) \cup running)
             = Cardinality(rq \ {a}) + Cardinality(running) - Cardinality((rq \ {a}) \cap running)
    BY <2>1, FS_Union DEF MInv, MTypeOK
  <2>5. Cardinality(rq) \in Nat /\ Cardinality(running) \in Nat
    BY FS_CardinalityType DEF MInv, MTypeOK
  <2>6. IsFiniteSet({x}) /\ Cardinality({x}) = 1
    BY FS_Singleton
  <2>. QED
    BY <1>1, <1>3, <2>1, <2>3, <2>4, <2>5, <2>6
<1>8. MTypeOK'
  <2>1. Everywhere' \subseteq SimProcess
    BY <1>3, <1>5 DEF MInv, MTypeOK
  <2>. QED
    BY <1>1, <1>7, <2>1 DEF MInv, MTypeOK
<1>9. MApart'
  <2>1. Distinct(Everywhere)'
    BY <1>4, <1>5 DEF Distinct
  <2>. QED
    BY <1>1, <1>3, <1>6, <2>1 DEF MInv, MApart
<1>10. MCountInv'
  <2>1. Cardinality(rq) \in Nat
    BY FS_CardinalityType DEF MInv, MTypeOK
  <2>2. \E b : running \subseteq {b}
    BY DEF MInv, MApart
  <2>3. /\ Cardinality(all) \in Nat /\ Cardinality(running) \in Nat /\ Cardinality(fin) \in Nat
    BY FS_CardinalityType DEF MInv, MTypeOK
  <2>4. all' = all /\ fin' = fin /\ Sim!Processes(tasks)' = Sim!Processes(tasks)
    BY <1>1
  <2>. QED
    BY <1>7, <2>1, <2>3, <2>4 DEF MInv, MCountInv
<1>11. MTimeInv'
  <2>1. \A b \in rq' : Unfinished(b)'
    BY <1>1 DEF MInv, MTimeInv, Unfinished
  <2>2. x.run_time <= x.t /\ x.st + x.run_time <= cur_time + 1
    BY <1>2, <1>3 DEF MInv, MTypeOK, MTimeInv, Unfinished, SimProcess
  <2>. QED
    BY <1>1, <1>3, <2>1, <2>2 DEF MInv, MTimeInv
<1>12. MFinInv'
  BY <1>1 DEF MInv, MFinInv
<1>. QED
  BY <1>8, <1>9, <1>10, <1>11, <1>12 DEF MInv

LEMMA MContinueStep == ASSUME MInv, Sim!Continue PROVE MInv'
<1>1. PICK a \in running : running' = Sim!Ran(a)
  BY DEF Sim!Continue
<1>2. a \in SimProcess /\ a \in Everywhere
  BY DEF MInv, MTypeOK, Everywhere
<1>3. /\ phase = "pick" /\ phase' = "sim" /\ (policy # "backup" => cur_time < a.st + a.p)
      /\ UNCHANGED <<policy, tasks, all, rq, fin, cur_time>>
  <2>1. a.st + a.p \in Int /\ cur_time \in Int
    BY <1>2 DEF MInv, MTypeOK, SimProcess
  <2>. QED
    BY <2>1 DEF Sim!Continue, Sim!Picking, Sim!dline, Sim!miss_dl
<1>4. PICK x \in SimProcess :
        /\ running' = {x} /\ SameProcess(a, x)
        /\ x.t = a.t /\ x.p = a.p /\ x.st = a.st /\ x.run_time = a.run_time + 1
  BY <1>1, <1>2, MRan
<1>5. running = {a}
  BY DEF MInv, MApart
<1>6. Distinct((Everywhere \ {a}) \cup {x}) /\ x \notin Everywhere \ {a}
  BY <1>2, <1>4, MReplace DEF MInv, MApart
<1>7. Everywhere' = (Everywhere \ {a}) \cup {x}
  BY <1>3, <1>4, <1>5 DEF Everywhere, MInv, MApart
<1>8. x \notin fin /\ x \notin all /\ x \notin rq
  BY <1>5, <1>6 DEF Everywhere, MInv, MApart
<1>9. /\ IsFiniteSet(running') /\ Cardinality(running') = 1 /\ Cardinality(running) = 1
  BY <1>4, <1>5, FS_Singleton
<1>10. MTypeOK'
  <2>1. Everywhere' \subseteq SimProcess
    BY <1>4, <1>7 DEF MInv, MTypeOK
  <2>. QED
    BY <1>3, <1>9, <2>1 DEF MInv, MTypeOK
<1>11. MApart'
  <2>1. Distinct(Everywhere)'
    BY <1>6, <1>7 DEF Distinct
  <2>. QED
    BY <1>3, <1>4, <1>8, <2>1 DEF MInv, MApart
<1>12. MCountInv'
  <2>1. /\ all' = all /\ rq' = rq /\ fin' = fin
        /\ Sim!Processes(tasks)' = Sim!Processes(tasks)
    BY <1>3
  <2>. QED
    BY <1>9, <2>1 DEF MInv, MCountInv
<1>13. MTimeInv'
  <2>1. x.run_time <= x.t /\ x.st + x.run_time <= cur_time + 1
    BY <1>2, <1>3, <1>4 DEF MInv, MTypeOK, MTimeInv, Unfinished, SimProcess
  <2>. QED
    BY <1>3, <1>4, <2>1 DEF MInv, MTimeInv, Unfinished
<1>14. MFinInv'
  BY <1>3 DEF MInv, MFinInv
<1>. QED
  BY <1>10, <1>11, <1>12, <1>13, <1>14 DEF MInv

LEMMA MStayIdleStep == ASSUME MInv, Sim!StayIdle PROVE MInv'
<1>1. /\ phase' = "sim" /\ running = {}
      /\ UNCHANGED <<policy, tasks, all, rq, running, fin, cur_time>>
  BY DEF Sim!StayIdle
<1>2. Everywhere' = Everywhere /\ Sim!Processes(tasks)' = Sim!Processes(tasks)
  BY <1>1 DEF Everywhere
<1>3. MTypeOK'
  BY <1>1, <1>2 DEF MInv, MTypeOK
<1>4. MApart'
  BY <1>1, <1>2 DEF MInv, MApart
<1>5. MCountInv'
  BY <1>1, <1>2 DEF MInv, MCountInv
<1>6. MTimeInv' /\ MFinInv'
  BY <1>1 DEF MInv, MTimeInv, MFinInv, Unfinished
<1>. QED
  BY <1>3, <1>4, <1>5, <1>6 DEF MInv

\* A process that has run for its processing time ends with the tick.
LEMMA MTickStep == ASSUME MInv, Sim!Tick PROVE MInv'
<1>. DEFINE done == {a \in running : a.run_time = a.t}
<1>1. /\ phase = "sim" /\ phase' = "join" /\ cur_time' = cur_time + 1
      /\ running' = running \ done /\ fin' = fin \cup {Sim!Ended(a, cur_time) : a \in done}
      /\ UNCHANGED <<policy, tasks, all, rq>>
  BY DEF Sim!Tick
<1>2. cur_time \in Nat
  BY DEF MInv, MTypeOK
<1>3. CASE done = {}
  <2>1. running' = running /\ fin' = fin
    BY <1>1, <1>3
  <2>2. Everywhere' = Everywhere /\ Sim!Processes(tasks)' = Sim!Processes(tasks)
    BY <1>1, <2>1 DEF Everywhere
  <2>3. MTypeOK'
    <3>1. cur_time' \in Nat /\ phase' = "join" /\ Everywhere' \subseteq SimProcess
      BY <1>1, <1>2, <2>2 DEF MInv, MTypeOK
    <3>2. all' = all /\ rq' = rq
      BY <1>1
    <3>. QED
      BY <2>1, <3>1, <3>2 DEF MInv, MTypeOK
  <2>4. MApart'
    BY <1>1, <2>1, <2>2 DEF MInv, MApart
  <2>5. MCountInv'
    BY <1>1, <2>1, <2>2 DEF MInv, MCountInv
  <2>6. \A a \in rq : a \in SimProcess
    BY DEF MInv, MTypeOK, Everywhere
  <2>7. \A a \in running : a \in SimProcess /\ a.run_time # a.t
    BY <1>3 DEF MInv, MTypeOK, Everywhere
  <2>8. MTimeInv'
    BY <1>1, <1>2, <2>1, <2>6, <2>7 DEF MInv, MTimeInv, Unfinished, SimProcess
  <2>9. MFinInv'
    BY <1>1, <2>1 DEF MInv, MFinInv
  <2>. QED
    BY <2>3, <2>4, <2>5, <2>8, <2>9 DEF MInv
<1>4. ASSUME NEW a \in done PROVE MInv'
  <2>. DEFINE x == Sim!Ended(a, cur_time)
  <2>1. running = {a} /\ done = {a}
    BY <1>4 DEF MInv, MApart
  <2>2. fin' = fin \cup {x} /\ running' = {} /\ running \ {a} = {}
    BY <1>1, <2>1
  <2>3. a \in SimProcess /\ a \in Everywhere
    BY <2>1 DEF MInv, MTypeOK, Everywhere
  <2>4. /\ x \in SimProcess /\ SameProcess(a, x) /\ x.end_time = cur_time
        /\ x.t = a.t /\ x.p = a.p /\ x.st = a.st /\ x.run_time = a.run_time
    BY <1>2, <2>3, MEnded
  <2>. HIDE DEF x
  <2>5. Distinct((Everywhere \ {a}) \cup {x}) /\ x \notin Everywhere \ {a}
    BY <2>3, <2>4, MReplace DEF MInv, MApart
  <2>6. Everywhere' = (Everywhere \ {a}) \cup {x}
    BY <1>1, <2>1, <2>2 DEF Everywhere, MInv, MApart
  <2>7. x \notin fin /\ x \notin all /\ x \notin rq
    BY <2>1, <2>5 DEF Everywhere, MInv, MApart
  <2>8. /\ IsFiniteSet(running') /\ IsFiniteSet(fin')
        /\ Cardinality(running') + Cardinality(fin') = Cardinality(running) + Cardinality(fin)
    <3>1. IsFiniteSet(running) /\ IsFiniteSet(fin) /\ a \in running
      BY <2>1 DEF MInv, MTypeOK
    <3>2. /\ IsFiniteSet(running \ {a}) /\ IsFiniteSet(fin \cup {x})
          /\ Cardinality(running \ {a}) + Cardinality(fin \cup {x})
               = Cardinality(running) + Cardinality(fin)
      BY <2>7, <3>1, MMoveOne
    <3>. QED
      BY <2>2, <3>2
  <2>9. MTypeOK'
    <3>1. Everywhere' \subseteq SimProcess
      BY <2>4, <2>6 DEF MInv, MTypeOK
    <3>. QED
      BY <1>1, <2>8, <3>1 DEF MInv, MTypeOK
  <2>10. MApart'
    <3>1. Distinct(Everywhere)'
      BY <2>5, <2>6 DEF Distinct
    <3>. QED
      BY <1>1, <2>2, <2>7, <3>1 DEF MInv, MApart
  <2>11. MCountInv'
    <3>1. /\ all' = all /\ rq' = rq /\ Sim!Processes(tasks)' = Sim!Processes(tasks)
      BY <1>1
    <3>2. /\ Cardinality(all) \in Nat /\ Cardinality(rq) \in Nat
          /\ Cardinality(running) \in Nat /\ Cardinality(fin) \in Nat
          /\ Cardinality(running') \in Nat /\ Cardinality(fin') \in Nat
      BY <2>8, FS_CardinalityType DEF MInv, MTypeOK
    <3>. QED
      BY <2>8, <3>1, <3>2 DEF MInv, MCountInv
  <2>12. MTimeInv'
    <3>1. \A b \in rq : b \in SimProcess
      BY DEF MInv, MTypeOK, Everywhere
    <3>. QED
      BY <1>1, <1>2, <2>2, <3>1 DEF MInv, MTimeInv, Unfinished, SimProcess
  <2>13. MFinInv'
    <3>1. a.run_time = a.t /\ a.st + a.run_time <= cur_time + 1
          /\ (policy # "backup" => cur_time < a.st + a.p)
      BY <1>1, <2>1 DEF MInv, MTimeInv
    <3>2. x.run_time = x.t /\ x.end_time - x.st + 1 >= x.t
          /\ (policy # "backup" => x.end_time < x.st + x.p)
      BY <1>2, <2>3, <2>4, <3>1 DEF SimProcess
    <3>. QED
      BY <1>1, <2>2, <3>2 DEF MInv, MFinInv
  <2>. QED
    BY <2>9, <2>10, <2>11, <2>12, <2>13 DEF MInv
<1>. QED
  BY <1>3, <1>4

\* The processes of an input are finitely many, of different tasks or start
\* times.
LEMMA MProcesses ==
  ASSUME NEW ts \in TaskSets
  PROVE  /\ Sim!Processes(ts) \subseteq SimProcess /\ IsFiniteSet(Sim!Processes(ts))
         /\ Distinct(Sim!Processes(ts)) /\ \A a \in Sim!Processes(ts) : a.run_time = 0
<1>. DEFINE P(i, n) == [pid |-> i, t |-> ts[i].t, p |-> ts[i].p, st |-> n * ts[i].p,
                        run_time |-> 0, end_time |-> 0]
            Of(i) == {P(i, n) : n \in 0 .. ts[i].k - 1}
<1>1. Sim!Processes(ts) = UNION {Of(i) : i \in DOMAIN ts}
  BY DEF Sim!Processes
<1>2. ts \in Seq([t : Nat \ {0}, p : Nat \ {0}, k : Nat])
  BY TasksAssumption
<1>3. /\ DOMAIN ts = 1 .. Len(ts) /\ Len(ts) \in Nat
      /\ \A i \in DOMAIN ts : ts[i].t \in Nat \ {0} /\ ts[i].p \in Nat \ {0} /\ ts[i].k \in Nat
  <2>1. DOMAIN ts = 1 .. Len(ts) /\ Len(ts) \in Nat
    BY <1>2
  <2>. DEFINE R == [t : Nat \ {0}, p : Nat \ {0}, k : Nat]
  <2>2. \A i \in 1 .. Len(ts) : ts[i] \in R
    <3>1. ts \in Seq(R)
      BY <1>2
    <3>. HIDE DEF R
    <3>. QED
      BY <3>1
  <2>. QED
    BY <2>1, <2>2
<1>4. \A i \in DOMAIN ts : \A n \in 0 .. ts[i].k - 1 : P(i, n) \in SimProcess
  <2> TAKE i \in DOMAIN ts
  <2> TAKE n \in 0 .. ts[i].k - 1
  <2>1. n \in Nat /\ i \in Nat /\ n * ts[i].p \in Nat
    BY <1>3
  <2>. QED
    BY <1>3, <2>1 DEF SimProcess
<1>5. Sim!Processes(ts) \subseteq SimProcess
  BY <1>1, <1>4
<1>6. \A i \in DOMAIN ts : IsFiniteSet(Of(i))
  <2> TAKE i \in DOMAIN ts
  <2>. DEFINE S == 0 .. ts[i].k - 1
              f == [n \in S |-> P(i, n)]
  <2>1. IsFiniteSet(S)
    <3>1. 0 \in Int /\ ts[i].k - 1 \in Int
      BY <1>3
    <3>. QED
      BY <3>1, FS_Interval
  <2>2. f \in Surjection(S, Of(i))
    BY DEF Surjection
  <2>. QED
    BY <2>1, <2>2, FS_Surjection
<1>7. IsFiniteSet({Of(i) : i \in DOMAIN ts})
  <2>. DEFINE f == [i \in DOMAIN ts |-> Of(i)]
              T == {Of(i) : i \in DOMAIN ts}
  <2>1. IsFiniteSet(DOMAIN ts)
    <3>1. 1 \in Int /\ Len(ts) \in Int
      BY <1>3
    <3>2. IsFiniteSet(1 .. Len(ts))
      BY <3>1, FS_Interval
    <3>. QED
      BY <1>3, <3>2
  <2>2. f \in Surjection(DOMAIN ts, T)
    BY DEF Surjection
  <2>. QED
    BY <2>1, <2>2, FS_Surjection
<1>8. IsFiniteSet(Sim!Processes(ts))
  <2>. HIDE DEF Of
  <2>. DEFINE U == {Of(i) : i \in DOMAIN ts}
  <2>1. \A T \in U : IsFiniteSet(T)
    BY <1>6
  <2>2. IsFiniteSet(U)
    BY <1>7
  <2>. HIDE DEF U
  <2>3. IsFiniteSet(UNION U)
    BY <2>1, <2>2, FS_UNION
  <2>. QED
    BY <1>1, <2>3 DEF U
<1>9. \A a \in Sim!Processes(ts) : \E i \in DOMAIN ts : \E n \in 0 .. ts[i].k - 1 : a = P(i, n)
  BY <1>1
<1>10. \A a \in Sim!Processes(ts) : a.run_time = 0
  BY <1>9
<1>11. Distinct(Sim!Processes(ts))
  BY <1>9 DEF Distinct, SameProcess
<1>. QED
  BY <1>5, <1>8, <1>10, <1>11

LEMMA MInit == Init => MInv
<1> SUFFICES ASSUME Init PROVE MInv
  OBVIOUS
<1>1. /\ tasks \in TaskSets /\ all = Sim!Processes(tasks) /\ rq = {} /\ running = {}
      /\ fin = {} /\ cur_time = 0 /\ phase = "join"
  BY DEF Init, Sim!SimInit
<1>2. Everywhere = all
  BY <1>1 DEF Everywhere
<1>3. IsFiniteSet({}) /\ Cardinality({}) = 0
  BY FS_EmptySet
<1>4. MTypeOK
  BY <1>1, <1>2, <1>3, MProcesses DEF MTypeOK
<1>5. MApart
  BY <1>1, <1>2, MProcesses DEF MApart
<1>6. MCountInv
  <2>1. Cardinality(all) \in Nat
    BY <1>4, FS_CardinalityType DEF MTypeOK
  <2>. QED
    BY <1>1, <1>3, <2>1 DEF MCountInv
<1>7. MTimeInv /\ MFinInv
  BY <1>1, MProcesses DEF MTimeInv, MFinInv
<1>. QED
  BY <1>4, <1>5, <1>6, <1>7 DEF MInv

\* Every process of an input is in one queue of its simulation, on the CPU or
\* over, and has run no longer than it may, for every input and policy.
THEOREM SimulationInvariant == Spec => []MInv
<1>1. MInv /\ [Next]_vars => MInv'
  <2> SUFFICES ASSUME MInv, [Next]_vars PROVE MInv'
    OBVIOUS
  <2>1. CASE UNCHANGED simVars
    <3>1. UNCHANGED <<policy, tasks, all, rq, running, fin, cur_time, phase>>
      BY <2>1 DEF simVars
    <3>2. Everywhere' = Everywhere /\ Sim!Processes(tasks)' = Sim!Processes(tasks)
      BY <3>1 DEF Everywhere
    <3>3. MTypeOK' /\ MApart' /\ MCountInv'
      BY <3>1, <3>2 DEF MInv, MTypeOK, MApart, MCountInv
    <3>4. MTimeInv' /\ MFinInv'
      BY <3>1 DEF MInv, MTimeInv, MFinInv, Unfinished
    <3>. QED
      BY <3>3, <3>4 DEF MInv
  <2>2. CASE Sim!Simulate
    BY <2>2, MJoinStep, MStopRunningStep, MStopWaitingStep, MDispatchStep, MContinueStep,
       MStayIdleStep, MTickStep DEF Sim!Simulate
  <2>. QED
    BY <2>1, <2>2, MMoves
<1>. QED
  BY <1>1, MInit, PTL DEF Spec

LEMMA MInvImpliesProcessesAddUp == MInv => Sim!ProcessesAddUp
<1> SUFFICES ASSUME MInv PROVE Sim!ProcessesAddUp
  OBVIOUS
<1>1. \A a \in fin : a.end_time \in Nat /\ a.st + a.p \in Nat
  BY DEF MInv, MTypeOK, Everywhere, SimProcess
<1>2. Sim!dead = {a \in fin : ~ (a.end_time < a.st + a.p)}
  BY <1>1 DEF Sim!dead, Sim!dline
<1>. QED
  BY <1>2, MCardinality DEF Sim!ProcessesAddUp, MInv, MCountInv, MFinInv

-----------------------------------------------------------------------------
(* The slab allocator.  What is done under the mutexes of buckets is one   *)
(* step, so the objects need no more than what holds between the steps;    *)
(* that the mutexes do exclude each other is part of the invariant.        *)

SHas(u) == user[u].pc \in {"use", "lock", "free"}

\* What u has is object i of slab s.
SIsAt(u, s, i) == ptr[u] = <<s, Slab!Word(slab[s].thisBucket, i)>>

STypeOK ==
  /\ chain \in [Slab!Buckets -> Seq(Areas)]
  /\ user \in [Users -> [pc : {"idle", "malloc", "use", "lock", "free"},
                         b : Slab!Buckets \cup {0}]]
  /\ \A u \in Users : user[u].pc # "idle" => user[u].b \in Slab!Buckets
  /\ locks \in [Slab!Buckets -> Users \cup {0}]
  /\ DOMAIN ptr = Users
  /\ Slab!Mapped \subseteq Areas
  /\ slab \in [Slab!Mapped -> [thisBucket : Slab!Buckets, freeObj : Int, bitmap : SUBSET Nat]]

SLockOf(u) ==
  /\ user[u].pc = "malloc" => locks[user[u].b] = u
  /\ user[u].pc = "lock" => \A c \in Slab!Buckets : c < user[u].b => locks[c] = u
  /\ user[u].pc = "free" => \A c \in Slab!Buckets : locks[c] = u
SLockInv == \A u \in Users : SLockOf(u)

SPtrInv ==
  /\ \A u \in Users : IF SHas(u) THEN \E s \in Slab!Mapped : \E i \in slab[s].bitmap : SIsAt(u, s, i)
                                 ELSE ptr[u] = <<>>
  /\ \A u, v \in Users : \A s \in Slab!Mapped : \A i \in slab[s].bitmap :
       SIsAt(u, s, i) /\ SIsAt(v, s, i) => u = v

SSlabOf(s) ==
  LET b == slab[s].thisBucket IN
  /\ slab[s].bitmap # {} /\ slab[s].bitmap \subseteq 0 .. Slab!totObj(b) - 1
  /\ slab[s].freeObj = Slab!totObj(b) - Cardinality(slab[s].bitmap)
  /\ \A i \in slab[s].bitmap : \E u \in Users : SIsAt(u, s, i)
  /\ \E k \in 1 .. Len(chain[b]) : chain[b][k] = s
SSlabInv == \A s \in Slab!Mapped : SSlabOf(s)

SChainInv ==
  \A b \in Slab!Buckets :
    /\ \A k \in 1 .. Len(chain[b]) :
         chain[b][k] \in Slab!Mapped /\ slab[chain[b][k]].thisBucket = b
    /\ \A j, k \in 1 .. Len(chain[b]) : chain[b][j] = chain[b][k] => j = k

SInv == STypeOK /\ SLockInv /\ SPtrInv /\ SSlabInv /\ SChainInv

LEMMA SConsts ==
  /\ 0 \notin Users /\ MaxObjects \in Nat /\ MaxObjects > 0
  /\ \A size \in Sizes : size \in Nat /\ size <= 8192
  BY SlabAssumption

\* The table of buckets, entry by entry.
LEMMA STable ==
  /\ DOMAIN Slab!hashTable = 1 .. 12
  /\ Slab!objSize(1) = 4      /\ Slab!objSize(2) = 8      /\ Slab!objSize(3) = 16
  /\ Slab!objSize(4) = 32     /\ Slab!objSize(5) = 64     /\ Slab!objSize(6) = 128
  /\ Slab!objSize(7) = 256    /\ Slab!objSize(8) = 512    /\ Slab!objSize(9) = 1024
  /\ Slab!objSize(10) = 2048  /\ Slab!objSize(11) = 4096  /\ Slab!objSize(12) = 8192
  BY DEF Slab!hashTable, Slab!objSize

LEMMA SObjects ==
  /\ Slab!hashTable[1][2] = 5363  /\ Slab!hashTable[2][2] = 4022  /\ Slab!hashTable[3][2] = 2681
  /\ Slab!hashTable[4][2] = 1609  /\ Slab!hashTable[5][2] = 893   /\ Slab!hashTable[6][2] = 473
  /\ Slab!hashTable[7][2] = 243   /\ Slab!hashTable[8][2] = 123   /\ Slab!hashTable[9][2] = 62
  /\ Slab!hashTable[10][2] = 31   /\ Slab!hashTable[11][2] = 15   /\ Slab!hashTable[12][2] = 7
  BY DEF Slab!hashTable

LEMMA SEntries == \A b \in 1 .. 12 : b \in {1, 2, 3, 4, 5, 6, 7, 8, 9, 10, 11, 12}
  OBVIOUS

\* A set of natural numbers has a least element.
LEMMA SLeastNumber ==
  ASSUME NEW S, S \subseteq Nat, S # {}
  PROVE  \E x \in S : \A y \in S : x <= y
<1>. DEFINE R == OpToRel(<, Nat)
<1>1. \E x \in S : \A y \in S : ~ (<<y, x>> \in R)
  BY NatLessThanWellFounded, WFMin
<1>2. \A x, y \in Nat : y < x => <<y, x>> \in R
  BY DEF OpToRel
<1>. HIDE DEF R
<1>3. PICK x \in S : \A y \in S : ~ (<<y, x>> \in R)
  BY <1>1
<1>4. ASSUME NEW y \in S PROVE x <= y
  <2>1. ~ (y < x)
    BY <1>2, <1>3
  <2>. QED
    BY <2>1
<1>. QED
  BY <1>4

\* Every size asked for has a bucket.
LEMMA SBuckets == Slab!Buckets \subseteq 1 .. 12
<1>. DEFINE Fits(size, b) == /\ size <= Slab!objSize(b)
                             /\ \A c \in 1 .. 12 : size <= Slab!objSize(c) => b <= c
<1>1. \A size \in Nat : size <= 8192 => \E b \in 1 .. 12 : Fits(size, b)
  <2> TAKE size \in Nat
  <2> HAVE size <= 8192
  <2>. DEFINE S == {b \in 1 .. 12 : size <= Slab!objSize(b)}
  <2>2. 12 \in S /\ S \subseteq Nat
    BY STable
  <2>. QED
    BY <2>2, SLeastNumber
<1>2. \A size \in Sizes : Slab!bestFit(size) \in 1 .. 12
  <2>1. SUFFICES ASSUME NEW size \in Sizes PROVE Slab!bestFit(size) \in 1 .. 12
    OBVIOUS
  <2>2. Slab!bestFit(size) = CHOOSE b \in 1 .. 12 : Fits(size, b)
    BY STable DEF Slab!bestFit
  <2>. HIDE DEF Fits
  <2>3. \E b \in 1 .. 12 : Fits(size, b)
    BY <1>1, SConsts
  <2>. QED
    BY <2>2, <2>3
<1>. QED
  BY <1>2 DEF Slab!Buckets

LEMMA STotal ==
  ASSUME NEW b \in 1 .. 12
  PROVE  Slab!totObj(b) \in Nat /\ Slab!totObj(b) > 0 /\ Slab!totObj(b) <= Slab!BitmapBits
<1>1. Slab!hashTable[b][2] \in Nat /\ Slab!hashTable[b][2] > 0 /\ Slab!hashTable[b][2] <= 5363
  BY SEntries, SObjects
<1>. DEFINE n == Slab!hashTable[b][2]
<1>2. Slab!totObj(b) = IF MaxObjects < n THEN MaxObjects ELSE n
  BY DEF Slab!totObj
<1>. HIDE DEF n
<1>3. n \in Nat /\ n > 0 /\ n <= 5363
  BY <1>1 DEF n
<1>. QED
  BY <1>2, <1>3, SConsts DEF Slab!BitmapBits

\* An object is found again from the word in front of it.
LEMMA SOffset ==
  ASSUME NEW b \in 1 .. 12, NEW i \in Nat
  PROVE  Slab!offset(b, Slab!Word(b, i)) = i
<1>1. Slab!objSize(b) \in {4, 8, 16, 32, 64, 128, 256, 512, 1024, 2048, 4096, 8192}
  BY STable, SEntries
<1>2. \A d \in {12, 16, 24, 40, 72, 136, 264, 520, 1032, 2056, 4104, 8200} :
        (1048 + i * d - 1048) \div d = i
  OBVIOUS
<1>. QED
  BY <1>1, <1>2 DEF Slab!offset, Slab!Word, Slab!HeaderBytes, Slab!WordBytes

LEMMA SCardinality == \A S : Slab!Cardinality(S) = Cardinality(S)
  BY DEF Slab!Cardinality, Cardinality, Slab!IsFiniteSet, IsFiniteSet

\* How the variables of the allocator can change.
LEMMA SMoves ==
  ASSUME [Next]_vars
  PROVE  (\E u \in Users : Slab!User(u)) \/ UNCHANGED slabVars
  BY DEF Next, vars, slabVars, SemWait, Other, Cook, Over, RWStep, BarrierStep, TribeStep,
     SlabStep, SimStep, PrimeStep

LEMMA SGoto ==
  ASSUME STypeOK, NEW u \in Users, NEW to \in {"idle", "malloc", "use", "lock", "free"},
         NEW b \in Slab!Buckets \cup {0}, to # "idle" => b \in Slab!Buckets,
         Slab!Goto(u, to, b)
  PROVE  /\ user' \in [Users -> [pc : {"idle", "malloc", "use", "lock", "free"},
                                 b : Slab!Buckets \cup {0}]]
         /\ \A v \in Users : user'[v].pc # "idle" => user'[v].b \in Slab!Buckets
         /\ user'[u].pc = to /\ user'[u].b = b
         /\ \A v \in Users : v # u => user'[v] = user[v]
<1>. DEFINE R == [pc : {"idle", "malloc", "use", "lock", "free"}, b : Slab!Buckets \cup {0}]
            r == [pc |-> to, b |-> b]
<1>1. r \in R /\ r.pc = to /\ r.b = b
  OBVIOUS
<1>2. user' = [user EXCEPT ![u] = r]
  BY DEF Slab!Goto
<1>3. user \in [Users -> R] /\ \A v \in Users : user[v].pc # "idle" => user[v].b \in Slab!Buckets
  BY DEF STypeOK
<1>. HIDE DEF R, r
<1>4. user' \in [Users -> R] /\ user'[u] = r /\ \A v \in Users : v # u => user'[v] = user[v]
  BY <1>1, <1>2, <1>3
<1>5. \A v \in Users : user'[v].pc # "idle" => user'[v].b \in Slab!Buckets
  BY <1>1, <1>3, <1>4
<1>. QED
  BY <1>1, <1>4, <1>5 DEF R

\* A mutex that was free is not one that another thread counts on.
LEMMA STakeMutex ==
  ASSUME STypeOK, SLockInv, NEW u \in Users, NEW b \in Slab!Buckets, locks[b] = 0,
         locks' = [locks EXCEPT ![b] = u], \A v \in Users : v # u => user'[v] = user[v]
  PROVE  /\ locks' \in [Slab!Buckets -> Users \cup {0}]
         /\ \A c \in Slab!Buckets : locks'[c] = IF c = b THEN u ELSE locks[c]
         /\ \A v \in Users : v # u => SLockOf(v)'
<1>1. locks \in [Slab!Buckets -> Users \cup {0}]
  BY DEF STypeOK
<1>2. /\ locks' \in [Slab!Buckets -> Users \cup {0}]
      /\ \A c \in Slab!Buckets : locks'[c] = IF c = b THEN u ELSE locks[c]
  BY <1>1
<1>3. ASSUME NEW v \in Users, v # u PROVE SLockOf(v)'
  <2>1. \A c \in Slab!Buckets : locks[c] = v => locks'[c] = v
    BY <1>2, SConsts
  <2>2. user'[v] = user[v] /\ SLockOf(v)
    BY <1>3 DEF SLockInv
  <2>3. user[v].pc = "malloc" => user[v].b \in Slab!Buckets
    BY DEF STypeOK
  <2>. QED
    BY <2>1, <2>2, <2>3 DEF SLockOf
<1>. QED
  BY <1>2, <1>3

\* Steps that touch no slab and no pointer.
LEMMA SPointersStay ==
  ASSUME STypeOK, SPtrInv, SSlabInv, SChainInv, NEW u \in Users,
         UNCHANGED <<chain, slab, ptr>>, SHas(u)' <=> SHas(u),
         \A v \in Users : v # u => user'[v] = user[v]
  PROVE  (SPtrInv /\ SSlabInv /\ SChainInv)'
<1>1. \A v \in Users : SHas(v)' <=> SHas(v)
  BY DEF SHas
<1>2. /\ Slab!Mapped' = Slab!Mapped
      /\ \A v, s, i : SIsAt(v, s, i)' <=> SIsAt(v, s, i)
  BY DEF Slab!Mapped, SIsAt
<1>3. SPtrInv'
  BY <1>1, <1>2 DEF SPtrInv
<1>4. SSlabInv'
  BY <1>2 DEF SSlabInv, SSlabOf
<1>5. SChainInv'
  BY <1>2 DEF SChainInv
<1>. QED
  BY <1>3, <1>4, <1>5

LEMMA SLeast ==
  ASSUME NEW S, S \subseteq Slab!Buckets, S # {}
  PROVE  Slab!Least(S) \in S /\ \A c \in S : Slab!Least(S) <= c
<1>1. S \subseteq Nat
  BY SBuckets
<1>2. \E x \in S : \A y \in S : x <= y
  BY <1>1, SLeastNumber
<1>. QED
  BY <1>2 DEF Slab!Least

\* The bucket whose mutex comes after that of b, if there is one.
LEMMA SLater ==
  ASSUME NEW b \in Slab!Buckets
  PROVE  /\ Slab!Later(b) = {} => \A c \in Slab!Buckets : c = b \/ c < b
         /\ Slab!Later(b) # {} =>
              /\ Slab!Least(Slab!Later(b)) \in Slab!Buckets
              /\ \A c \in Slab!Buckets : c < Slab!Least(Slab!Later(b)) => c = b \/ c < b
<1>1. \A c \in Slab!Buckets : c \in Nat
  BY SBuckets
<1>2. \A c \in Slab!Buckets : c \in Slab!Later(b) \/ c = b \/ c < b
  BY <1>1 DEF Slab!Later
<1>3. ASSUME Slab!Later(b) # {}
      PROVE  /\ Slab!Least(Slab!Later(b)) \in Slab!Buckets
             /\ \A c \in Slab!Buckets : c < Slab!Least(Slab!Later(b)) => c = b \/ c < b
  <2>. DEFINE n == Slab!Least(Slab!Later(b))
  <2>1. Slab!Later(b) \subseteq Slab!Buckets
    BY DEF Slab!Later
  <2>2. n \in Slab!Later(b) /\ \A c \in Slab!Later(b) : n <= c
    BY <1>3, <2>1, SLeast
  <2>. HIDE DEF n
  <2>3. \A c \in Slab!Buckets : c < n => ~ (n <= c)
    BY <1>1, <2>1, <2>2
  <2>4. \A c \in Slab!Buckets : c < n => c = b \/ c < b
    BY <1>2, <2>2, <2>3
  <2>. QED
    BY <2>1, <2>2, <2>4 DEF n
<1>. QED
  BY <1>2, <1>3

LEMMA SLockBucketStep == ASSUME SInv, NEW u \in Users, Slab!LockBucket(u) PROVE SInv'
<1>1. PICK size \in Sizes : LET b == Slab!bestFit(size)
                            IN  /\ locks[b] = 0 /\ locks' = [locks EXCEPT ![b] = u]
                                /\ Slab!Goto(u, "malloc", b)
  BY DEF Slab!LockBucket
<1>. DEFINE b == Slab!bestFit(size)
<1>2. b \in Slab!Buckets
  BY DEF Slab!Buckets
<1>3. user[u].pc = "idle" /\ UNCHANGED <<chain, slab, ptr>>
  BY DEF Slab!LockBucket
<1>. HIDE DEF b
<1>4. locks[b] = 0 /\ locks' = [locks EXCEPT ![b] = u] /\ Slab!Goto(u, "malloc", b)
  BY <1>1 DEF b
<1>5. /\ user' \in [Users -> [pc : {"idle", "malloc", "use", "lock", "free"},
                              b : Slab!Buckets \cup {0}]]
      /\ \A v \in Users : user'[v].pc # "idle" => user'[v].b \in Slab!Buckets
      /\ user'[u].pc = "malloc" /\ user'[u].b = b
      /\ \A v \in Users : v # u => user'[v] = user[v]
  BY <1>2, <1>4, SGoto DEF SInv
<1>6. /\ locks' \in [Slab!Buckets -> Users \cup {0}]
      /\ \A c \in Slab!Buckets : locks'[c] = IF c = b THEN u ELSE locks[c]
      /\ \A v \in Users : v # u => SLockOf(v)'
  BY <1>2, <1>4, <1>5, STakeMutex DEF SInv
<1>7. SLockInv'
  <2>1. SLockOf(u)'
    BY <1>2, <1>5, <1>6 DEF SLockOf
  <2>. QED
    BY <1>6, <2>1 DEF SLockInv
<1>8. STypeOK'
  BY <1>3, <1>5, <1>6 DEF SInv, STypeOK, Slab!Mapped
<1>9. SHas(u)' <=> SHas(u)
  BY <1>3, <1>5 DEF SHas
<1>. QED
  BY <1>3, <1>5, <1>7, <1>8, <1>9, SPointersStay DEF SInv

LEMMA SCallFreeStep == ASSUME SInv, NEW u \in Users, Slab!CallFree(u) PROVE SInv'
<1>. DEFINE b == Slab!Least(Slab!Buckets)
<1>1. /\ user[u].pc = "use" /\ Slab!Goto(u, "lock", b)
      /\ UNCHANGED <<locks, chain, slab, ptr>>
  BY DEF Slab!CallFree
<1>2. b \in Slab!Buckets /\ \A c \in Slab!Buckets : b <= c
  <2>1. user[u].b \in Slab!Buckets
    BY <1>1 DEF SInv, STypeOK
  <2>. QED
    BY <2>1, SLeast
<1>. HIDE DEF b
<1>3. /\ user' \in [Users -> [pc : {"idle", "malloc", "use", "lock", "free"},
                              b : Slab!Buckets \cup {0}]]
      /\ \A v \in Users : user'[v].pc # "idle" => user'[v].b \in Slab!Buckets
      /\ user'[u].pc = "lock" /\ user'[u].b = b
      /\ \A v \in Users : v # u => user'[v] = user[v]
  BY <1>1, <1>2, SGoto DEF SInv
<1>4. SLockInv'
  <2>1. \A c \in Slab!Buckets : ~ (c < b)
    BY <1>2, SBuckets
  <2>2. SLockOf(u)'
    BY <1>3, <2>1 DEF SLockOf
  <2>3. \A v \in Users : v # u => SLockOf(v)'
    BY <1>1, <1>3 DEF SInv, SLockInv, SLockOf
  <2>. QED
    BY <2>2, <2>3 DEF SLockInv
<1>5. STypeOK'
  BY <1>1, <1>3 DEF SInv, STypeOK, Slab!Mapped
<1>6. SHas(u)' <=> SHas(u)
  BY <1>1, <1>3 DEF SHas
<1>. QED
  BY <1>1, <1>3, <1>4, <1>5, <1>6, SPointersStay DEF SInv

LEMMA SLockNextStep == ASSUME SInv, NEW u \in Users, Slab!LockNext(u) PROVE SInv'
<1>. DEFINE b == user[u].b
            next == IF Slab!Later(b) = {} THEN b ELSE Slab!Least(Slab!Later(b))
            to == IF Slab!Later(b) = {} THEN "free" ELSE "lock"
<1>1. /\ user[u].pc = "lock" /\ locks[b] = 0 /\ locks' = [locks EXCEPT ![b] = u]
      /\ UNCHANGED <<chain, slab, ptr>>
  BY DEF Slab!LockNext
<1>2. Slab!Goto(u, to, next)
  BY DEF Slab!LockNext
<1>3. b \in Slab!Buckets /\ \A c \in Slab!Buckets : c < b => locks[c] = u
  BY <1>1 DEF SInv, STypeOK, SLockInv, SLockOf
<1>4. /\ next \in Slab!Buckets /\ to \in {"lock", "free"}
      /\ \A c \in Slab!Buckets : (to = "free" \/ c < next) => c = b \/ c < b
  BY <1>3, SLater
<1>. HIDE DEF b, next, to
<1>5. /\ user' \in [Users -> [pc : {"idle", "malloc", "use", "lock", "free"},
                              b : Slab!Buckets \cup {0}]]
      /\ \A v \in Users : user'[v].pc # "idle" => user'[v].b \in Slab!Buckets
      /\ user'[u].pc = to /\ user'[u].b = next
      /\ \A v \in Users : v # u => user'[v] = user[v]
  BY <1>2, <1>4, SGoto DEF SInv
<1>6. /\ locks' \in [Slab!Buckets -> Users \cup {0}]
      /\ \A c \in Slab!Buckets : locks'[c] = IF c = b THEN u ELSE locks[c]
      /\ \A v \in Users : v # u => SLockOf(v)'
  BY <1>1, <1>3, <1>5, STakeMutex DEF SInv
<1>7. SLockInv'
  <2>1. SLockOf(u)'
    BY <1>3, <1>4, <1>5, <1>6 DEF SLockOf
  <2>. QED
    BY <1>6, <2>1 DEF SLockInv
<1>8. STypeOK'
  BY <1>1, <1>5, <1>6 DEF SInv, STypeOK, Slab!Mapped
<1>9. SHas(u)' <=> SHas(u)
  BY <1>1, <1>4, <1>5 DEF SHas
<1>. QED
  BY <1>1, <1>5, <1>7, <1>8, <1>9, SPointersStay DEF SInv

\* The mutex of its bucket is released by the thread that held it.
LEMMA SRelease ==
  ASSUME STypeOK, SLockInv, NEW u \in Users, user[u].pc = "malloc",
         locks' = [locks EXCEPT ![user[u].b] = 0], Slab!Goto(u, "use", user[u].b)
  PROVE  /\ user' \in [Users -> [pc : {"idle", "malloc", "use", "lock", "free"},
                                 b : Slab!Buckets \cup {0}]]
         /\ \A v \in Users : user'[v].pc # "idle" => user'[v].b \in Slab!Buckets
         /\ user'[u].pc = "use"
         /\ \A v \in Users : v # u => user'[v] = user[v]
         /\ locks' \in [Slab!Buckets -> Users \cup {0}]
         /\ SLockInv'
<1>. DEFINE b == user[u].b
<1>1. b \in Slab!Buckets /\ locks[b] = u /\ locks \in [Slab!Buckets -> Users \cup {0}]
  BY DEF STypeOK, SLockInv, SLockOf
<1>2. /\ user' \in [Users -> [pc : {"idle", "malloc", "use", "lock", "free"},
                              b : Slab!Buckets \cup {0}]]
      /\ \A v \in Users : user'[v].pc # "idle" => user'[v].b \in Slab!Buckets
      /\ user'[u].pc = "use"
      /\ \A v \in Users : v # u => user'[v] = user[v]
  BY <1>1, SGoto
<1>. HIDE DEF b
<1>3. /\ locks' \in [Slab!Buckets -> Users \cup {0}]
      /\ \A c \in Slab!Buckets : locks'[c] = IF c = b THEN 0 ELSE locks[c]
  BY <1>1 DEF b
<1>4. ASSUME NEW v \in Users, v # u PROVE SLockOf(v)'
  <2>1. \A c \in Slab!Buckets : locks[c] = v => locks'[c] = v
    BY <1>1, <1>3, <1>4
  <2>2. user'[v] = user[v] /\ SLockOf(v)
    BY <1>2, <1>4 DEF SLockInv
  <2>3. user[v].pc = "malloc" => user[v].b \in Slab!Buckets
    BY DEF STypeOK
  <2>. QED
    BY <2>1, <2>2, <2>3 DEF SLockOf
<1>5. SLockOf(u)'
  BY <1>2 DEF SLockOf
<1>. QED
  BY <1>2, <1>3, <1>4, <1>5 DEF SLockInv

\* A slab whose counter and bitmap are written.
SWrites(s, f, B) == slab' = [slab EXCEPT ![s].freeObj = f, ![s].bitmap = B]

LEMMA SUpdate ==
  ASSUME STypeOK, NEW s \in Slab!Mapped, NEW f \in Int, NEW B \in SUBSET Nat,
         SWrites(s, f, B)
  PROVE  /\ Slab!Mapped' = Slab!Mapped
         /\ slab' \in [Slab!Mapped -> [thisBucket : Slab!Buckets, freeObj : Int, bitmap : SUBSET Nat]]
         /\ slab'[s].thisBucket = slab[s].thisBucket /\ slab'[s].freeObj = f /\ slab'[s].bitmap = B
         /\ \A t \in Slab!Mapped : t # s => slab'[t] = slab[t]
<1>. DEFINE R == [thisBucket : Slab!Buckets, freeObj : Int, bitmap : SUBSET Nat]
            r == [slab[s] EXCEPT !.freeObj = f, !.bitmap = B]
<1>1. slab \in [Slab!Mapped -> R]
  BY DEF STypeOK
<1>2. slab[s] \in R
  BY <1>1
<1>3. r \in R /\ r.thisBucket = slab[s].thisBucket /\ r.freeObj = f /\ r.bitmap = B
  BY <1>2
<1>4. slab' = [slab EXCEPT ![s] = r]
  BY <1>1 DEF SWrites
<1>. HIDE DEF R, r
<1>5. slab' \in [Slab!Mapped -> R] /\ slab'[s] = r /\ \A t \in Slab!Mapped : t # s => slab'[t] = slab[t]
  BY <1>1, <1>3, <1>4
<1>6. Slab!Mapped' = Slab!Mapped
  BY <1>5 DEF Slab!Mapped
<1>. QED
  BY <1>3, <1>5, <1>6 DEF R

\* What the first fit of a list is.
LEMMA SFirstRoom ==
  ASSUME STypeOK, NEW b \in Slab!Buckets, Slab!SelectInSeq(chain[b], Slab!HasRoom) # 0
  PROVE  LET k == Slab!SelectInSeq(chain[b], Slab!HasRoom)
         IN  k \in 1 .. Len(chain[b]) /\ slab[chain[b][k]].freeObj > 0
<1>. DEFINE I == {i \in 1 .. Len(chain[b]) : Slab!HasRoom(chain[b][i])}
            k == Slab!SelectInSeq(chain[b], Slab!HasRoom)
<1>1. k = IF I # {} THEN Slab!Min(I) ELSE 0
  BY DEF Slab!SelectInSeq
<1>2. I # {} /\ k = Slab!Min(I)
  BY <1>1
<1>3. I \subseteq Nat
  OBVIOUS
<1>. HIDE DEF I, k
<1>4. \E x \in I : \A y \in I : x <= y
  BY <1>2, <1>3, SLeastNumber
<1>5. k \in I
  BY <1>2, <1>4 DEF Slab!Min
<1>. QED
  BY <1>5 DEF I, Slab!HasRoom, k

\* The first object that is free in a slab with room.
LEMMA SFirstFree ==
  ASSUME NEW n \in Nat, n <= Slab!BitmapBits, NEW B, B \subseteq 0 .. n - 1, Cardinality(B) < n
  PROVE  LET i == CHOOSE m \in 0 .. Slab!BitmapBits : m \notin B /\ \A l \in 0 .. m - 1 : l \in B
         IN  i \in 0 .. n - 1 /\ i \notin B
<1>. DEFINE F == (0 .. n - 1) \ B
            Fits(m) == m \notin B /\ \A l \in 0 .. m - 1 : l \in B
            i == CHOOSE m \in 0 .. Slab!BitmapBits : Fits(m)
<1>1. Slab!BitmapBits \in Nat
  BY DEF Slab!BitmapBits
<1>2. F # {}
  <2>1. Cardinality(0 .. n - 1) = n
    <3>1. 0 \in Int /\ n - 1 \in Int
      OBVIOUS
    <3>2. Cardinality(0 .. n - 1) = IF 0 > n - 1 THEN 0 ELSE n - 1 - 0 + 1
      BY <3>1, FS_Interval
    <3>. QED
      BY <3>2
  <2>2. B # 0 .. n - 1
    BY <2>1
  <2>. QED
    BY <2>2
<1>3. F \subseteq Nat
  OBVIOUS
<1>4. PICK x \in F : \A y \in F : x <= y
  BY <1>2, <1>3, SLeastNumber
<1>5. x \in 0 .. Slab!BitmapBits /\ Fits(x) /\ x \in 0 .. n - 1
  <2>1. x \in 0 .. n - 1 /\ x \notin B
    BY <1>4
  <2>2. ASSUME NEW l \in 0 .. x - 1 PROVE l \in B
    <3>1. l \in 0 .. n - 1 /\ ~ (x <= l)
      BY <2>1, <2>2
    <3>. QED
      BY <1>4, <3>1
  <2>. QED
    BY <1>1, <2>1, <2>2
<1>6. i \in 0 .. Slab!BitmapBits /\ Fits(i)
  <2>. HIDE DEF Fits
  <2>. QED
    BY <1>5
<1>. HIDE DEF i
<1>7. i <= x
  <2>1. ~ (x < i)
    BY <1>5, <1>6
  <2>. QED
    BY <1>1, <1>5, <1>6, <2>1
<1>8. i \in 0 .. n - 1 /\ i \notin B
  BY <1>1, <1>5, <1>6, <1>7
<1>. QED
  BY <1>8 DEF i

\* Two words are the same only if they belong to the same object.
LEMMA SWord ==
  \A b \in 1 .. 12 : \A i, j \in Nat : Slab!Word(b, i) = Slab!Word(b, j) => i = j
<1> TAKE b \in 1 .. 12
<1> TAKE i, j \in Nat
<1>1. Slab!offset(b, Slab!Word(b, i)) = i /\ Slab!offset(b, Slab!Word(b, j)) = j
  BY SOffset
<1>. QED
  BY <1>1

LEMMA SPairs ==
  \A s, w, t, x : <<s, w>> # <<>> /\ (<<s, w>> = <<t, x>> <=> s = t /\ w = x)
                  /\ <<s, w>>[1] = s /\ <<s, w>>[2] = w
  OBVIOUS

\* Who has no object is at none.
LEMMA SIsAtOne ==
  ASSUME SInv, NEW u \in Users, ~ SHas(u), NEW s, NEW i
  PROVE  ~ SIsAt(u, s, i)
  BY SPairs DEF SInv, SPtrInv, SIsAt

\* u gets object i of s, which nobody has.
SGives(u, s, b, i) == ptr' = [ptr EXCEPT ![u] = <<s, Slab!Word(b, i)>>]
SBucketIs(t, s, b) == slab'[t].thisBucket = IF t = s THEN b ELSE slab[t].thisBucket
SMovesTo(u, s, b, i, t, j) ==
  /\ SIsAt(u, t, j)' <=> t = s /\ j = i
  /\ t # s => \A v \in Users : v # u => (SIsAt(v, t, j)' <=> SIsAt(v, t, j))
  /\ t = s /\ slab[s].thisBucket = b =>
       \A v \in Users : v # u => (SIsAt(v, t, j)' <=> SIsAt(v, t, j))

LEMMA SGiven ==
  ASSUME SInv, NEW u \in Users, NEW s, NEW b \in Slab!Buckets, NEW i \in Nat,
         NEW t, NEW j \in Nat, SGives(u, s, b, i),
         SBucketIs(t, s, b)
  PROVE  SMovesTo(u, s, b, i, t, j)
<1>1. DOMAIN ptr = Users /\ b \in 1 .. 12
  BY SBuckets DEF SInv, STypeOK
<1>2. ptr'[u] = <<s, Slab!Word(b, i)>> /\ \A v \in Users : v # u => ptr'[v] = ptr[v]
  BY <1>1 DEF SGives
<1>0. /\ t = s => slab'[t].thisBucket = b
      /\ t # s => slab'[t].thisBucket = slab[t].thisBucket
  BY DEF SBucketIs
<1>3. SIsAt(u, t, j)' <=> t = s /\ j = i
  <2>1. CASE t = s
    <3>1. SIsAt(u, t, j)' <=> <<s, Slab!Word(b, i)>> = <<s, Slab!Word(b, j)>>
      BY <1>0, <1>2, <2>1 DEF SIsAt
    <3>. QED
      BY <1>1, <2>1, <3>1, SPairs, SWord
  <2>2. CASE t # s
    BY <1>0, <1>2, <2>2, SPairs DEF SIsAt
  <2>. QED
    BY <2>1, <2>2
<1>4. t # s => \A v \in Users : v # u => (SIsAt(v, t, j)' <=> SIsAt(v, t, j))
  BY <1>0, <1>2 DEF SIsAt
<1>5. t = s /\ slab[s].thisBucket = b =>
        \A v \in Users : v # u => (SIsAt(v, t, j)' <=> SIsAt(v, t, j))
  BY <1>0, <1>2 DEF SIsAt
<1>. QED
  BY <1>3, <1>4, <1>5 DEF SMovesTo

\* What Allocate writes: object i of slab s, which is free.
SAllocates(u, b, s, i) ==
  /\ user[u].pc = "malloc" /\ b = user[u].b /\ slab[s].thisBucket = b
  /\ i \in 0 .. Slab!totObj(b) - 1 /\ i \notin slab[s].bitmap
  /\ Cardinality(slab[s].bitmap) \in Nat
  /\ Cardinality(slab[s].bitmap \cup {i}) = Cardinality(slab[s].bitmap) + 1
  /\ SWrites(s, slab[s].freeObj - 1, slab[s].bitmap \cup {i})
  /\ SGives(u, s, b, i)
  /\ locks' = [locks EXCEPT ![user[u].b] = 0] /\ Slab!Goto(u, "use", user[u].b)
  /\ UNCHANGED chain

LEMMA SAllocated ==
  ASSUME SInv, NEW u \in Users, Slab!Allocate(u)
  PROVE  \E b \in Slab!Buckets, s \in Slab!Mapped, i \in Nat : SAllocates(u, b, s, i)
<1>. DEFINE b == user[u].b
            k == Slab!SelectInSeq(chain[b], Slab!HasRoom)
            s == chain[b][k]
            B == slab[s].bitmap
            i == CHOOSE m \in 0 .. Slab!BitmapBits : m \notin B /\ \A l \in 0 .. m - 1 : l \in B
            n == Slab!totObj(b)
            f == slab[s].freeObj
<1>1. /\ user[u].pc = "malloc" /\ k # 0 /\ UNCHANGED chain
      /\ slab' = [slab EXCEPT ![s].freeObj = @ - 1, ![s].bitmap = @ \cup {i}]
      /\ ptr' = [ptr EXCEPT ![u] = <<s, Slab!Word(b, i)>>]
      /\ locks' = [locks EXCEPT ![user[u].b] = 0] /\ Slab!Goto(u, "use", user[u].b)
  BY DEF Slab!Allocate, Slab!Give
<1>2. b \in Slab!Buckets /\ b \in 1 .. 12
  BY <1>1, SBuckets DEF SInv, STypeOK
<1>3. k \in 1 .. Len(chain[b]) /\ f > 0
  BY <1>1, <1>2, SFirstRoom DEF SInv
<1>4. s \in Slab!Mapped /\ slab[s].thisBucket = b
  BY <1>2, <1>3 DEF SInv, SChainInv
<1>5. /\ B # {} /\ B \subseteq 0 .. n - 1 /\ f = n - Cardinality(B)
      /\ IsFiniteSet(B) /\ Cardinality(B) \in Nat
      /\ n \in Nat /\ n > 0 /\ n <= Slab!BitmapBits
  <2>1. B # {} /\ B \subseteq 0 .. n - 1 /\ f = n - Cardinality(B)
    BY <1>4 DEF SInv, SSlabInv, SSlabOf
  <2>2. n \in Nat /\ n > 0 /\ n <= Slab!BitmapBits
    BY <1>2, STotal
  <2>3. IsFiniteSet(0 .. n - 1)
    <3>1. 0 \in Int /\ n - 1 \in Int
      BY <2>2
    <3>. QED
      BY <3>1, FS_Interval
  <2>4. IsFiniteSet(B)
    BY <2>1, <2>3, FS_Subset
  <2>. QED
    BY <2>1, <2>2, <2>4, FS_CardinalityType
<1>. HIDE DEF b, k, s, B, n, f
<1>6. Cardinality(B) < n
  BY <1>3, <1>5
<1>7. i \in 0 .. n - 1 /\ i \notin B /\ i \in Nat
  <2>1. i \in 0 .. n - 1 /\ i \notin B
    BY <1>5, <1>6, SFirstFree
  <2>. HIDE DEF i
  <2>. QED
    BY <1>5, <2>1
<1>. HIDE DEF i
<1>8. Cardinality(B \cup {i}) = Cardinality(B) + 1
  BY <1>5, <1>7, FS_AddElement
<1>9. n = Slab!totObj(b) /\ B = slab[s].bitmap /\ b = user[u].b
  BY DEF n, B, b
<1>10. SWrites(s, f - 1, B \cup {i})
  BY <1>1 DEF SWrites, f, B
<1>12. SGives(u, s, b, i)
  BY <1>1 DEF SGives, b
<1>13. f = slab[s].freeObj
  BY DEF f
<1>11. SAllocates(u, b, s, i)
  BY <1>1, <1>4, <1>5, <1>7, <1>8, <1>9, <1>10, <1>12, <1>13 DEF SAllocates
<1>. QED
  BY <1>2, <1>4, <1>7, <1>11, Zenon

LEMMA SAllocateStep == ASSUME SInv, NEW u \in Users, Slab!Allocate(u) PROVE SInv'
<1>1. PICK b \in Slab!Buckets, s \in Slab!Mapped, i \in Nat : SAllocates(u, b, s, i)
  BY SAllocated
<1>2. b \in 1 .. 12
  BY SBuckets
<1>3. PICK B : B = slab[s].bitmap
  OBVIOUS
<1>4. PICK f : f = slab[s].freeObj
  OBVIOUS
<1>5. PICK n : n = Slab!totObj(b)
  OBVIOUS
<1>6. /\ user[u].pc = "malloc" /\ b = user[u].b /\ slab[s].thisBucket = b
      /\ i \in 0 .. n - 1 /\ i \notin B
      /\ Cardinality(B) \in Nat /\ Cardinality(B \cup {i}) = Cardinality(B) + 1
      /\ UNCHANGED chain
  BY <1>1, <1>3, <1>5 DEF SAllocates
<1>7. B \subseteq Nat /\ B \subseteq 0 .. n - 1 /\ f = n - Cardinality(B) /\ n \in Nat /\ f \in Int
  <2>1. B \subseteq 0 .. n - 1 /\ f = n - Cardinality(B)
    BY <1>3, <1>4, <1>5, <1>6 DEF SInv, SSlabInv, SSlabOf
  <2>2. n \in Nat
    BY <1>2, <1>5, STotal
  <2>. QED
    BY <1>6, <2>1, <2>2
<1>8. SGives(u, s, b, i)
  BY <1>1 DEF SAllocates
<1>9. /\ Slab!Mapped' = Slab!Mapped
      /\ slab' \in [Slab!Mapped -> [thisBucket : Slab!Buckets, freeObj : Int, bitmap : SUBSET Nat]]
      /\ slab'[s].thisBucket = slab[s].thisBucket /\ slab'[s].freeObj = f - 1
      /\ slab'[s].bitmap = B \cup {i}
      /\ \A t \in Slab!Mapped : t # s => slab'[t] = slab[t]
  <2>1. PICK g \in Int : g = f - 1
    BY <1>7
  <2>2. PICK C \in SUBSET Nat : C = B \cup {i}
    BY <1>7
  <2>3. SWrites(s, g, C)
    BY <1>1, <1>3, <1>4, <2>1, <2>2 DEF SAllocates
  <2>4. STypeOK
    BY DEF SInv
  <2>5. /\ Slab!Mapped' = Slab!Mapped
        /\ slab' \in [Slab!Mapped -> [thisBucket : Slab!Buckets, freeObj : Int, bitmap : SUBSET Nat]]
        /\ slab'[s].thisBucket = slab[s].thisBucket /\ slab'[s].freeObj = g
        /\ slab'[s].bitmap = C
        /\ \A t \in Slab!Mapped : t # s => slab'[t] = slab[t]
    BY <2>3, <2>4, SUpdate
  <2>. QED
    BY <2>1, <2>2, <2>5
<1>10. /\ user' \in [Users -> [pc : {"idle", "malloc", "use", "lock", "free"},
                               b : Slab!Buckets \cup {0}]]
       /\ \A v \in Users : user'[v].pc # "idle" => user'[v].b \in Slab!Buckets
       /\ user'[u].pc = "use"
       /\ \A v \in Users : v # u => user'[v] = user[v]
       /\ locks' \in [Slab!Buckets -> Users \cup {0}]
       /\ SLockInv'
  BY <1>1, SRelease DEF SInv, SAllocates
<1>11. ASSUME NEW t \in Slab!Mapped, NEW j \in Nat
       PROVE  /\ SIsAt(u, t, j)' <=> t = s /\ j = i
              /\ \A v \in Users : v # u => (SIsAt(v, t, j)' <=> SIsAt(v, t, j))
  <2>1. SBucketIs(t, s, b)
    BY <1>6, <1>9 DEF SBucketIs
  <2>2. SMovesTo(u, s, b, i, t, j)
    BY <1>8, <2>1, SGiven
  <2>. QED
    BY <1>6, <2>2 DEF SMovesTo
<1>12. ASSUME NEW t \in Slab!Mapped
       PROVE  /\ slab[t].bitmap \subseteq slab'[t].bitmap /\ slab[t].bitmap \subseteq Nat
              /\ slab'[t].bitmap \subseteq Nat
              /\ \A j \in slab'[t].bitmap : j \in slab[t].bitmap \/ (t = s /\ j = i)
              /\ t = s => i \in slab'[t].bitmap /\ i \notin slab[t].bitmap
              /\ slab'[t].thisBucket = slab[t].thisBucket
  BY <1>3, <1>6, <1>7, <1>9 DEF SInv, STypeOK
<1>13. ~ SHas(u) /\ SHas(u)' /\ \A v \in Users : v # u => (SHas(v)' <=> SHas(v))
  BY <1>6, <1>10 DEF SHas
<1>14. STypeOK'
  BY <1>6, <1>8, <1>9, <1>10 DEF SInv, STypeOK, SGives
<1>15. SPtrInv'
  <2>1. ASSUME NEW v \in Users
        PROVE  IF SHas(v)' THEN \E t \in Slab!Mapped : \E j \in slab'[t].bitmap : SIsAt(v, t, j)'
               ELSE ptr'[v] = <<>>
    <3>1. CASE v = u
      BY <1>11, <1>12, <1>13, <3>1
    <3>2. CASE v # u /\ SHas(v)
      <4>0. PICK t \in Slab!Mapped : \E j \in slab[t].bitmap : SIsAt(v, t, j)
        BY <3>2 DEF SInv, SPtrInv
      <4>1. PICK j \in slab[t].bitmap : SIsAt(v, t, j)
        BY <4>0
      <4>2. j \in Nat /\ j \in slab'[t].bitmap
        BY <1>12
      <4>3. SIsAt(v, t, j)'
        BY <1>11, <3>2, <4>1, <4>2
      <4>. QED
        BY <1>13, <3>2, <4>2, <4>3
    <3>3. CASE v # u /\ ~ SHas(v)
      <4>1. ptr'[v] = ptr[v] /\ ptr[v] = <<>>
        BY <1>8, <3>3 DEF SInv, SPtrInv, STypeOK, SGives
      <4>. QED
        BY <1>13, <3>3, <4>1
    <3>. QED
      BY <3>1, <3>2, <3>3
  <2>2. ASSUME NEW v \in Users, NEW w \in Users, NEW t \in Slab!Mapped,
               NEW j \in slab'[t].bitmap, SIsAt(v, t, j)', SIsAt(w, t, j)'
        PROVE  v = w
    <3>1. j \in Nat
      BY <1>12
    <3>2. CASE t = s /\ j = i
      <4>1. \A x \in Users : SIsAt(x, t, j) => FALSE
        <5>1. SUFFICES ASSUME NEW x \in Users, SIsAt(x, t, j) PROVE FALSE
          OBVIOUS
        <5>2. SHas(x)
          BY <5>1, SIsAtOne
        <5>0. PICK y \in Slab!Mapped : \E l \in slab[y].bitmap : SIsAt(x, y, l)
          BY <5>2 DEF SInv, SPtrInv
        <5>3. PICK l \in slab[y].bitmap : SIsAt(x, y, l)
          BY <5>0
        <5>4. y = t /\ Slab!Word(b, l) = Slab!Word(b, j)
          BY <1>6, <3>2, <5>1, <5>3, SPairs DEF SIsAt
        <5>5. l = j
          BY <1>2, <1>12, <3>1, <5>3, <5>4, SWord
        <5>. QED
          BY <1>12, <3>2, <5>3, <5>4, <5>5
      <4>. QED
        BY <1>11, <2>2, <3>1, <4>1
    <3>3. CASE ~ (t = s /\ j = i)
      <4>1. j \in slab[t].bitmap
        BY <1>12, <3>3
      <4>2. v # u /\ w # u /\ SIsAt(v, t, j) /\ SIsAt(w, t, j)
        BY <1>11, <2>2, <3>1, <3>3
      <4>. QED
        BY <4>1, <4>2 DEF SInv, SPtrInv
    <3>. QED
      BY <3>2, <3>3
  <2>. QED
    BY <1>9, <2>1, <2>2 DEF SPtrInv
<1>16. SSlabInv'
  <2>1. ASSUME NEW t \in Slab!Mapped PROVE SSlabOf(t)'
    <3>1. SSlabOf(t)
      BY DEF SInv, SSlabInv
    <3>2. slab'[t].bitmap # {} /\ slab'[t].bitmap \subseteq 0 .. Slab!totObj(slab'[t].thisBucket) - 1
      BY <1>5, <1>6, <1>7, <1>9, <1>12, <3>1 DEF SSlabOf
    <3>3. slab'[t].freeObj = Slab!totObj(slab'[t].thisBucket) - Cardinality(slab'[t].bitmap)
      <4>1. CASE t = s
        <5>1. slab'[t].freeObj = f - 1 /\ slab'[t].thisBucket = b /\ slab'[t].bitmap = B \cup {i}
          BY <1>6, <1>9, <4>1
        <5>2. f - 1 = n - Cardinality(B \cup {i})
          BY <1>6, <1>7
        <5>. QED
          BY <1>5, <5>1, <5>2
      <4>2. CASE t # s
        BY <1>9, <3>1, <4>2 DEF SSlabOf
      <4>. QED
        BY <4>1, <4>2
    <3>4. ASSUME NEW j \in slab'[t].bitmap PROVE \E v \in Users : SIsAt(v, t, j)'
      <4>1. j \in Nat
        BY <1>12
      <4>2. CASE t = s /\ j = i
        BY <1>11, <4>1, <4>2
      <4>3. CASE ~ (t = s /\ j = i)
        <5>1. PICK v \in Users : SIsAt(v, t, j)
          BY <1>12, <3>1, <4>3 DEF SSlabOf
        <5>2. v # u
          BY <1>13, <5>1, SIsAtOne
        <5>. QED
          BY <1>11, <4>1, <5>1, <5>2
      <4>. QED
        BY <4>2, <4>3
    <3>5. \E m \in 1 .. Len(chain'[slab'[t].thisBucket]) : chain'[slab'[t].thisBucket][m] = t
      BY <1>6, <1>12, <3>1 DEF SSlabOf
    <3>. QED
      BY <3>2, <3>3, <3>4, <3>5 DEF SSlabOf
  <2>. QED
    BY <1>9, <2>1 DEF SSlabInv
<1>17. SChainInv'
  <2>1. \A t \in Slab!Mapped : slab'[t].thisBucket = slab[t].thisBucket
    BY <1>12
  <2>2. chain' = chain /\ Slab!Mapped' = Slab!Mapped
    BY <1>6, <1>9
  <2>3. SChainInv
    BY DEF SInv
  <2>. QED
    BY <2>1, <2>2, <2>3 DEF SChainInv
<1>. QED
  BY <1>10, <1>14, <1>15, <1>16, <1>17 DEF SInv

\* A list that gets one more slab.
LEMMA SAppend ==
  ASSUME STypeOK, NEW b \in Slab!Buckets, NEW s \in Areas,
         chain' = [chain EXCEPT ![b] = Append(@, s)]
  PROVE  /\ chain' \in [Slab!Buckets -> Seq(Areas)]
         /\ Len(chain[b]) \in Nat /\ Len(chain'[b]) = Len(chain[b]) + 1
         /\ \A k \in 1 .. Len(chain[b]) : chain'[b][k] = chain[b][k]
         /\ chain'[b][Len(chain[b]) + 1] = s
         /\ \A c \in Slab!Buckets : c # b => chain'[c] = chain[c]
<1>. DEFINE q == chain[b]
            r == Append(q, s)
<1>1. chain \in [Slab!Buckets -> Seq(Areas)] /\ q \in Seq(Areas)
  BY DEF STypeOK
<1>. HIDE DEF q
<1>2. /\ r \in Seq(Areas) /\ Len(q) \in Nat /\ Len(r) = Len(q) + 1 /\ r[Len(q) + 1] = s
      /\ \A k \in 1 .. Len(q) : r[k] = q[k]
  BY <1>1
<1>3. chain' = [chain EXCEPT ![b] = r]
  BY DEF q
<1>. HIDE DEF r
<1>4. /\ chain' \in [Slab!Buckets -> Seq(Areas)] /\ chain'[b] = r
      /\ \A c \in Slab!Buckets : c # b => chain'[c] = chain[c]
  BY <1>1, <1>2, <1>3
<1>. QED
  BY <1>2, <1>4 DEF q

\* What MapSlab writes: a new slab s of which object 0 is taken.
SMaps(u, b, s) ==
  /\ user[u].pc = "malloc" /\ b = user[u].b /\ s \in Areas /\ s \notin Slab!Mapped
  /\ slab' = [t \in Slab!Mapped \cup {s} |->
                IF t # s THEN slab[t]
                ELSE [thisBucket |-> b, freeObj |-> Slab!totObj(b) - 1, bitmap |-> {0}]]
  /\ chain' = [chain EXCEPT ![b] = Append(@, s)]
  /\ SGives(u, s, b, 0)
  /\ locks' = [locks EXCEPT ![user[u].b] = 0] /\ Slab!Goto(u, "use", user[u].b)

LEMMA SMapped ==
  ASSUME SInv, NEW u \in Users, Slab!MapSlab(u)
  PROVE  \E b \in Slab!Buckets : \E s : SMaps(u, b, s)
<1>1. user[u].b \in Slab!Buckets
  BY DEF Slab!MapSlab, SInv, STypeOK
<1>. QED
  BY <1>1 DEF Slab!MapSlab, Slab!Give, SMaps, SGives

LEMMA SMapSlabStep == ASSUME SInv, NEW u \in Users, Slab!MapSlab(u) PROVE SInv'
<1>0. PICK b \in Slab!Buckets : \E s : SMaps(u, b, s)
  BY SMapped
<1>1. PICK s : SMaps(u, b, s)
  BY <1>0
<1>2. b \in 1 .. 12
  BY SBuckets
<1>3. PICK n \in Nat : n = Slab!totObj(b) /\ n > 0
  BY <1>2, STotal
<1>4. user[u].pc = "malloc" /\ b = user[u].b /\ s \in Areas /\ s \notin Slab!Mapped /\ SGives(u, s, b, 0)
  BY <1>1 DEF SMaps
<1>5. /\ Slab!Mapped' = Slab!Mapped \cup {s}
      /\ slab' \in [Slab!Mapped' -> [thisBucket : Slab!Buckets, freeObj : Int, bitmap : SUBSET Nat]]
      /\ slab'[s].thisBucket = b /\ slab'[s].freeObj = n - 1 /\ slab'[s].bitmap = {0}
      /\ \A t \in Slab!Mapped : t # s /\ slab'[t] = slab[t]
  <2>. DEFINE R == [thisBucket : Slab!Buckets, freeObj : Int, bitmap : SUBSET Nat]
              r == [thisBucket |-> b, freeObj |-> n - 1, bitmap |-> {0}]
  <2>1. r \in R /\ r.thisBucket = b /\ r.freeObj = n - 1 /\ r.bitmap = {0}
    BY <1>3
  <2>2. slab \in [Slab!Mapped -> R]
    BY DEF SInv, STypeOK
  <2>3. slab' = [t \in Slab!Mapped \cup {s} |-> IF t # s THEN slab[t] ELSE r]
    BY <1>1, <1>3 DEF SMaps
  <2>. HIDE DEF R, r
  <2>4. DOMAIN slab' = Slab!Mapped \cup {s} /\ slab'[s] = r
    BY <2>3
  <2>5. \A t \in Slab!Mapped : t # s /\ slab'[t] = slab[t]
    BY <1>4, <2>3
  <2>6. slab' \in [Slab!Mapped \cup {s} -> R]
    BY <2>1, <2>2, <2>3
  <2>. QED
    BY <2>1, <2>4, <2>5, <2>6 DEF Slab!Mapped, R
<1>6. /\ chain' \in [Slab!Buckets -> Seq(Areas)]
      /\ Len(chain[b]) \in Nat /\ Len(chain'[b]) = Len(chain[b]) + 1
      /\ \A k \in 1 .. Len(chain[b]) : chain'[b][k] = chain[b][k]
      /\ chain'[b][Len(chain[b]) + 1] = s
      /\ \A c \in Slab!Buckets : c # b => chain'[c] = chain[c]
  BY <1>1, <1>4, SAppend DEF SInv, SMaps
<1>7. /\ user' \in [Users -> [pc : {"idle", "malloc", "use", "lock", "free"},
                              b : Slab!Buckets \cup {0}]]
      /\ \A v \in Users : user'[v].pc # "idle" => user'[v].b \in Slab!Buckets
      /\ user'[u].pc = "use"
      /\ \A v \in Users : v # u => user'[v] = user[v]
      /\ locks' \in [Slab!Buckets -> Users \cup {0}]
      /\ SLockInv'
  BY <1>1, SRelease DEF SInv, SMaps
<1>8. ~ SHas(u) /\ SHas(u)' /\ \A v \in Users : v # u => (SHas(v)' <=> SHas(v))
  BY <1>4, <1>7 DEF SHas
<1>9. ASSUME NEW t \in Slab!Mapped', NEW j \in Nat
      PROVE  /\ SIsAt(u, t, j)' <=> t = s /\ j = 0
             /\ t # s => \A v \in Users : v # u => (SIsAt(v, t, j)' <=> SIsAt(v, t, j))
  <2>1. SBucketIs(t, s, b)
    BY <1>5 DEF SBucketIs
  <2>2. PICK z \in Nat : z = 0
    OBVIOUS
  <2>3. SGives(u, s, b, z)
    BY <1>4, <2>2
  <2>4. SMovesTo(u, s, b, z, t, j)
    BY <2>1, <2>3, SGiven
  <2>. QED
    BY <2>2, <2>4 DEF SMovesTo
<1>10. \A v \in Users : v # u => ptr'[v] = ptr[v]
  BY <1>4 DEF SGives, SInv, STypeOK
<1>11. ASSUME NEW v \in Users, v # u, NEW j, SIsAt(v, s, j)' PROVE FALSE
  <2>1. ptr[v] = <<s, Slab!Word(b, j)>>
    BY <1>5, <1>10, <1>11 DEF SIsAt
  <2>2. ptr[v] # <<>>
    BY <2>1, SPairs
  <2>3. PICK t \in Slab!Mapped : \E i \in slab[t].bitmap : SIsAt(v, t, i)
    BY <2>2 DEF SInv, SPtrInv
  <2>4. t = s
    BY <2>1, <2>3, SPairs DEF SIsAt
  <2>. QED
    BY <1>4, <2>4
<1>12. \A t \in Slab!Mapped : slab[t].bitmap \subseteq Nat
  BY DEF SInv, STypeOK
<1>13. STypeOK'
  <2>1. DOMAIN ptr' = Users
    BY <1>4 DEF SInv, STypeOK, SGives
  <2>2. Slab!Mapped' \subseteq Areas
    BY <1>4, <1>5 DEF SInv, STypeOK
  <2>. QED
    BY <1>5, <1>6, <1>7, <2>1, <2>2 DEF STypeOK
<1>14. SPtrInv'
  <2>1. ASSUME NEW v \in Users
        PROVE  IF SHas(v)' THEN \E t \in Slab!Mapped' : \E j \in slab'[t].bitmap : SIsAt(v, t, j)'
               ELSE ptr'[v] = <<>>
    <3>1. CASE v = u
      <4>1. s \in Slab!Mapped' /\ 0 \in slab'[s].bitmap
        BY <1>5
      <4>2. SIsAt(u, s, 0)'
        BY <1>9, <4>1
      <4>. QED
        BY <1>8, <3>1, <4>1, <4>2
    <3>2. CASE v # u /\ SHas(v)
      <4>0. PICK t \in Slab!Mapped : \E j \in slab[t].bitmap : SIsAt(v, t, j)
        BY <3>2 DEF SInv, SPtrInv
      <4>1. PICK j \in slab[t].bitmap : SIsAt(v, t, j)
        BY <4>0
      <4>2. j \in Nat /\ t \in Slab!Mapped' /\ t # s /\ j \in slab'[t].bitmap
        BY <1>5, <1>12
      <4>3. SIsAt(v, t, j)'
        BY <1>9, <3>2, <4>1, <4>2
      <4>. QED
        BY <1>8, <3>2, <4>2, <4>3
    <3>3. CASE v # u /\ ~ SHas(v)
      <4>1. ptr'[v] = ptr[v] /\ ptr[v] = <<>>
        BY <1>10, <3>3 DEF SInv, SPtrInv
      <4>. QED
        BY <1>8, <3>3, <4>1
    <3>. QED
      BY <3>1, <3>2, <3>3
  <2>2. ASSUME NEW v \in Users, NEW w \in Users, NEW t \in Slab!Mapped',
               NEW j \in slab'[t].bitmap, SIsAt(v, t, j)', SIsAt(w, t, j)'
        PROVE  v = w
    <3>1. CASE t = s
      BY <1>11, <2>2, <3>1
    <3>2. CASE t # s
      <4>1. t \in Slab!Mapped /\ j \in slab[t].bitmap /\ j \in Nat
        BY <1>5, <1>12, <3>2
      <4>2. v # u /\ w # u /\ SIsAt(v, t, j) /\ SIsAt(w, t, j)
        BY <1>9, <2>2, <3>2, <4>1
      <4>. QED
        BY <4>1, <4>2 DEF SInv, SPtrInv
    <3>. QED
      BY <3>1, <3>2
  <2>. QED
    BY <2>1, <2>2 DEF SPtrInv
<1>15. SSlabInv'
  <2>1. ASSUME NEW t \in Slab!Mapped', t = s PROVE SSlabOf(t)'
    <3>1. slab'[t].thisBucket = b /\ slab'[t].freeObj = n - 1 /\ slab'[t].bitmap = {0}
      BY <1>5, <2>1
    <3>2. {0} # {} /\ {0} \subseteq 0 .. n - 1 /\ Cardinality({0}) = 1
      <4>1. Cardinality({0}) = 1
        BY FS_Singleton
      <4>2. {0} # {} /\ {0} \subseteq 0 .. n - 1
        BY <1>3
      <4>. QED
        BY <4>1, <4>2
    <3>3. SIsAt(u, t, 0)'
      BY <1>9, <2>1
    <3>4. \A j \in slab'[t].bitmap : \E v \in Users : SIsAt(v, t, j)'
      BY <3>1, <3>3
    <3>5. \E k \in 1 .. Len(chain'[b]) : chain'[b][k] = t
      BY <1>6, <2>1
    <3>. QED
      BY <1>3, <3>1, <3>2, <3>4, <3>5 DEF SSlabOf
  <2>2. ASSUME NEW t \in Slab!Mapped', t # s PROVE SSlabOf(t)'
    <3>1. t \in Slab!Mapped /\ slab'[t] = slab[t] /\ slab[t].thisBucket \in Slab!Buckets
      BY <1>5, <2>2 DEF SInv, STypeOK
    <3>2. SSlabOf(t)
      BY <3>1 DEF SInv, SSlabInv
    <3>3. ASSUME NEW j \in slab'[t].bitmap PROVE \E v \in Users : SIsAt(v, t, j)'
      <4>1. j \in slab[t].bitmap /\ j \in Nat
        BY <1>12, <3>1
      <4>2. PICK v \in Users : SIsAt(v, t, j)
        BY <3>2, <4>1 DEF SSlabOf
      <4>3. v # u
        BY <1>8, <4>2, SIsAtOne
      <4>. QED
        BY <1>9, <2>2, <4>1, <4>2, <4>3
    <3>4. \E k \in 1 .. Len(chain'[slab[t].thisBucket]) : chain'[slab[t].thisBucket][k] = t
      <4>. DEFINE c == slab[t].thisBucket
      <4>1. PICK k \in 1 .. Len(chain[c]) : chain[c][k] = t
        BY <3>2 DEF SSlabOf
      <4>2. k \in 1 .. Len(chain'[c]) /\ chain'[c][k] = t
        BY <1>6, <3>1, <4>1
      <4>. QED
        BY <4>2
    <3>. QED
      BY <3>1, <3>2, <3>3, <3>4 DEF SSlabOf
  <2>. QED
    BY <2>1, <2>2 DEF SSlabInv
<1>16. SChainInv'
  <2>1. ASSUME NEW c \in Slab!Buckets
        PROVE  /\ \A k \in 1 .. Len(chain[c]) :
                    chain[c][k] \in Slab!Mapped' /\ chain[c][k] # s
                    /\ slab'[chain[c][k]].thisBucket = c
               /\ \A j, k \in 1 .. Len(chain[c]) : chain[c][j] = chain[c][k] => j = k
    BY <1>5 DEF SInv, SChainInv
  <2>2. ASSUME NEW c \in Slab!Buckets
        PROVE  /\ \A k \in 1 .. Len(chain'[c]) :
                    chain'[c][k] \in Slab!Mapped' /\ slab'[chain'[c][k]].thisBucket = c
               /\ \A j, k \in 1 .. Len(chain'[c]) : chain'[c][j] = chain'[c][k] => j = k
    <3>1. CASE c # b
      BY <1>6, <2>1, <3>1
    <3>2. CASE c = b
      <4>1. \A k \in 1 .. Len(chain'[b]) :
              \/ k = Len(chain[b]) + 1 /\ chain'[b][k] = s
              \/ k \in 1 .. Len(chain[b]) /\ chain'[b][k] = chain[b][k]
        BY <1>6
      <4>2. s \in Slab!Mapped' /\ slab'[s].thisBucket = b
        BY <1>5
      <4>. QED
        BY <2>1, <3>2, <4>1, <4>2, SMTT(30)
    <3>. QED
      BY <3>1, <3>2
  <2>. QED
    BY <2>2 DEF SChainInv
<1>. QED
  BY <1>7, <1>13, <1>14, <1>15, <1>16 DEF SInv

\* A list without one of its slabs has all others, and none twice.
SDistinct(c) == \A j, k \in 1 .. Len(c) : c[j] = c[k] => j = k
SWithout(c, s, d) ==
  /\ d \in Seq(Areas) /\ SDistinct(d)
  /\ \A k \in 1 .. Len(d) : d[k] # s /\ \E m \in 1 .. Len(c) : d[k] = c[m]
  /\ \A m \in 1 .. Len(c) : c[m] # s => \E k \in 1 .. Len(d) : d[k] = c[m]

LEMMA SUnlink ==
  ASSUME NEW c \in Seq(Areas), NEW p \in 1 .. Len(c), SDistinct(c)
  PROVE  SWithout(c, c[p], Slab!Unlink(c, c[p]))
<1>. DEFINE d == Slab!Unlink(c, c[p])
            g == [k \in 1 .. Len(c) - 1 |-> IF p <= k THEN k + 1 ELSE k]
<1>1. Len(c) \in Nat /\ Len(c) > 0 /\ p \in Nat /\ p > 0 /\ p <= Len(c)
      /\ \A k \in 1 .. Len(c) : c[k] \in Areas
  OBVIOUS
<1>2. \A k \in 1 .. Len(c) - 1 : (\E j \in 1 .. k : c[j] = c[p]) <=> p <= k
  BY <1>1 DEF SDistinct
<1>3. /\ \A k \in 1 .. Len(c) - 1 : g[k] \in 1 .. Len(c) /\ g[k] # p
      /\ \A j, k \in 1 .. Len(c) - 1 : g[j] = g[k] => j = k
  BY <1>1
<1>4. \A m \in 1 .. Len(c) : m # p => \E k \in 1 .. Len(c) - 1 : g[k] = m
  <2>1. ASSUME NEW m \in 1 .. Len(c), m < p PROVE \E k \in 1 .. Len(c) - 1 : g[k] = m
    BY <1>1, <2>1
  <2>2. ASSUME NEW m \in 1 .. Len(c), p < m PROVE \E k \in 1 .. Len(c) - 1 : g[k] = m
    <3>1. m - 1 \in 1 .. Len(c) - 1 /\ g[m - 1] = m
      BY <1>1, <2>2
    <3>. QED
      BY <3>1
  <2>. QED
    BY <1>1, <2>1, <2>2
<1>5. d = [k \in 1 .. Len(c) - 1 |-> c[g[k]]]
  BY <1>2 DEF Slab!Unlink
<1>. HIDE DEF d, g
<1>6. Len(c) - 1 \in Nat /\ \A k \in 1 .. Len(c) - 1 : d[k] = c[g[k]]
  BY <1>1, <1>5
<1>7. d \in Seq(Areas) /\ Len(d) = Len(c) - 1
  <2>1. d \in [1 .. Len(c) - 1 -> Areas]
    BY <1>1, <1>3, <1>5
  <2>. QED
    BY <1>6, <2>1
<1>8. \A k \in 1 .. Len(c) - 1 : d[k] # c[p] /\ \E m \in 1 .. Len(c) : d[k] = c[m]
  <2>1. ASSUME NEW k \in 1 .. Len(c) - 1
        PROVE  d[k] # c[p] /\ \E m \in 1 .. Len(c) : d[k] = c[m]
    <3>1. g[k] \in 1 .. Len(c) /\ g[k] # p /\ d[k] = c[g[k]]
      BY <1>3, <1>6
    <3>2. c[g[k]] # c[p]
      BY <3>1 DEF SDistinct
    <3>. QED
      BY <3>1, <3>2
  <2>. QED
    BY <2>1
<1>9. \A j, k \in 1 .. Len(c) - 1 : d[j] = d[k] => j = k
  BY <1>3, <1>6, SMTT(30) DEF SDistinct
<1>10. \A m \in 1 .. Len(c) : c[m] # c[p] => \E k \in 1 .. Len(c) - 1 : d[k] = c[m]
  BY <1>4, <1>6
<1>. QED
  BY <1>7, <1>8, <1>9, <1>10 DEF d, SDistinct, SWithout

\* Who frees holds all mutexes; they are released.
LEMMA SUnlock ==
  ASSUME STypeOK, SLockInv, NEW u \in Users, user[u].pc = "free",
         locks' = [c \in Slab!Buckets |-> 0], Slab!Goto(u, "idle", 0)
  PROVE  /\ user' \in [Users -> [pc : {"idle", "malloc", "use", "lock", "free"},
                                 b : Slab!Buckets \cup {0}]]
         /\ \A v \in Users : user'[v].pc # "idle" => user'[v].b \in Slab!Buckets
         /\ user'[u].pc = "idle"
         /\ \A v \in Users : v # u => user'[v] = user[v]
         /\ locks' \in [Slab!Buckets -> Users \cup {0}]
         /\ SLockInv'
<1>1. /\ user' \in [Users -> [pc : {"idle", "malloc", "use", "lock", "free"},
                              b : Slab!Buckets \cup {0}]]
      /\ \A v \in Users : user'[v].pc # "idle" => user'[v].b \in Slab!Buckets
      /\ user'[u].pc = "idle"
      /\ \A v \in Users : v # u => user'[v] = user[v]
  BY SGoto
<1>2. \A c \in Slab!Buckets : locks[c] = u
  BY DEF SLockInv, SLockOf
<1>3. user[u].b \in Slab!Buckets
  BY DEF STypeOK
<1>4. ASSUME NEW v \in Users, v # u PROVE SLockOf(v)'
  <2>1. user'[v] = user[v] /\ SLockOf(v)
    BY <1>1, <1>4 DEF SLockInv
  <2>2. user[v].pc = "malloc" => user[v].b \in Slab!Buckets
    BY DEF STypeOK
  <2>3. user[v].pc # "malloc" /\ user[v].pc # "free"
    BY <1>2, <1>3, <1>4, <2>1, <2>2 DEF SLockOf
  <2>4. user[v].pc = "lock" => \A c \in Slab!Buckets : ~ (c < user[v].b)
    BY <1>2, <1>4, <2>1 DEF SLockOf
  <2>. QED
    BY <2>1, <2>3, <2>4 DEF SLockOf
<1>5. SLockOf(u)'
  BY <1>1 DEF SLockOf
<1>. QED
  BY <1>1, <1>4, <1>5 DEF SLockInv

\* What Free writes: object i of slab s is given back.
SFreesSlab(s, i) ==
  /\ slab[s].bitmap = {i}
  /\ slab' = [t \in Slab!Mapped \ {s} |-> slab[t]]
  /\ chain' = [chain EXCEPT ![slab[s].thisBucket] = Slab!Unlink(@, s)]
SFreesBit(s, i) ==
  /\ slab[s].bitmap # {i}
  /\ SWrites(s, slab[s].freeObj + 1, slab[s].bitmap \ {i})
  /\ UNCHANGED chain
SReturns(u) == ptr' = [ptr EXCEPT ![u] = <<>>]
SFrees(u, s, i) ==
  /\ user[u].pc = "free" /\ SIsAt(u, s, i)
  /\ SFreesSlab(s, i) \/ SFreesBit(s, i)
  /\ locks' = [c \in Slab!Buckets |-> 0] /\ Slab!Goto(u, "idle", 0)
  /\ SReturns(u)

LEMMA SFreed ==
  ASSUME SInv, NEW u \in Users, Slab!Free(u)
  PROVE  \E s \in Slab!Mapped : \E i \in slab[s].bitmap : SFrees(u, s, i)
<1>. DEFINE s == ptr[u][1]
            b == slab[s].thisBucket
            at == ptr[u][2]
            i == Slab!offset(b, at)
<1>1. user[u].pc = "free"
  BY DEF Slab!Free
<1>2. PICK t \in Slab!Mapped : \E j \in slab[t].bitmap : SIsAt(u, t, j)
  BY <1>1 DEF SInv, SPtrInv, SHas
<1>3. PICK j \in slab[t].bitmap : SIsAt(u, t, j)
  BY <1>2
<1>4. j \in Nat /\ slab[t].thisBucket \in 1 .. 12
  BY SBuckets DEF SInv, STypeOK
<1>5. s = t /\ at = Slab!Word(slab[t].thisBucket, j)
  BY <1>3, SPairs DEF SIsAt
<1>6. i = j
  BY <1>4, <1>5, SOffset
<1>7. /\ IF Slab!IsLast(s)
         THEN /\ slab' = [r \in Slab!Mapped \ {s} |-> slab[r]]
              /\ chain' = [chain EXCEPT ![b] = Slab!Unlink(@, s)]
         ELSE /\ slab' = [slab EXCEPT ![s].freeObj = @ + 1, ![s].bitmap = @ \ {i}]
              /\ UNCHANGED chain
      /\ locks' = [c \in Slab!Buckets |-> 0] /\ Slab!Goto(u, "idle", 0)
      /\ ptr' = [ptr EXCEPT ![u] = <<>>]
  BY DEF Slab!Free
<1>8. Slab!IsLast(t) <=> slab[t].bitmap = {j}
  BY <1>3 DEF Slab!IsLast
<1>9. SFreesSlab(t, j) \/ SFreesBit(t, j)
  <2>1. CASE Slab!IsLast(t)
    BY <1>5, <1>7, <1>8, <2>1 DEF SFreesSlab
  <2>2. CASE ~ Slab!IsLast(t)
    <3>1. slab' = [slab EXCEPT ![t].freeObj = @ + 1, ![t].bitmap = @ \ {j}] /\ UNCHANGED chain
      BY <1>5, <1>6, <1>7, <2>2
    <3>2. SWrites(t, slab[t].freeObj + 1, slab[t].bitmap \ {j})
      BY <3>1 DEF SWrites
    <3>. QED
      BY <1>8, <2>2, <3>1, <3>2 DEF SFreesBit
  <2>. QED
    BY <2>1, <2>2
<1>10. SFrees(u, t, j)
  BY <1>1, <1>3, <1>7, <1>9 DEF SFrees, SReturns
<1>. QED
  BY <1>3, <1>10

\* Who is where after u has given back object i of s.
LEMMA SFreeMoves ==
  ASSUME SInv, NEW u \in Users, NEW s \in Slab!Mapped, NEW i \in slab[s].bitmap,
         SIsAt(u, s, i), SReturns(u)
  PROVE  /\ DOMAIN ptr' = Users /\ ptr'[u] = <<>>
         /\ \A v \in Users : v # u => ptr'[v] = ptr[v]
         /\ \A j \in Nat : SIsAt(u, s, j) => j = i
         /\ \A t \in Slab!Mapped : t # s => \A j : ~ SIsAt(u, t, j)
         /\ \A v \in Users : v # u => ~ SIsAt(v, s, i)
<1>1. DOMAIN ptr' = Users /\ ptr'[u] = <<>> /\ \A v \in Users : v # u => ptr'[v] = ptr[v]
  BY DEF SReturns, SInv, STypeOK
<1>2. slab[s].thisBucket \in 1 .. 12 /\ i \in Nat
  BY SBuckets DEF SInv, STypeOK
<1>3. \A j \in Nat : SIsAt(u, s, j) => j = i
  BY <1>2, SPairs, SWord DEF SIsAt
<1>4. \A t \in Slab!Mapped : t # s => \A j : ~ SIsAt(u, t, j)
  BY SPairs DEF SIsAt
<1>5. \A v \in Users : v # u => ~ SIsAt(v, s, i)
  BY DEF SInv, SPtrInv
<1>. QED
  BY <1>1, <1>3, <1>4, <1>5

\* The pointers and the slabs, when what is left of them is as it was.
LEMMA SFreeLeaves ==
  ASSUME SInv, NEW u \in Users, NEW s \in Slab!Mapped, NEW i \in slab[s].bitmap,
         SFrees(u, s, i), Slab!Mapped' \subseteq Slab!Mapped, Slab!Mapped \ {s} \subseteq Slab!Mapped',
         ~ SHas(u)', \A v \in Users : v # u => (SHas(v)' <=> SHas(v)),
         \A t \in Slab!Mapped' :
           /\ slab'[t].thisBucket = slab[t].thisBucket
           /\ slab'[t].bitmap = IF t = s THEN slab[t].bitmap \ {i} ELSE slab[t].bitmap,
         s \in Slab!Mapped' \/ slab[s].bitmap = {i}
  PROVE  /\ SPtrInv'
         /\ \A t \in Slab!Mapped' : \A j \in slab'[t].bitmap : \E v \in Users : SIsAt(v, t, j)'
<1>1. SIsAt(u, s, i) /\ SReturns(u)
  BY DEF SFrees
<1>2. /\ DOMAIN ptr' = Users /\ ptr'[u] = <<>>
      /\ \A v \in Users : v # u => ptr'[v] = ptr[v]
      /\ \A j \in Nat : SIsAt(u, s, j) => j = i
      /\ \A t \in Slab!Mapped : t # s => \A j : ~ SIsAt(u, t, j)
      /\ \A v \in Users : v # u => ~ SIsAt(v, s, i)
  BY <1>1, SFreeMoves
<1>3. \A t \in Slab!Mapped' : \A j : \A v \in Users : v # u => (SIsAt(v, t, j)' <=> SIsAt(v, t, j))
  BY <1>2 DEF SIsAt
<1>4. \A t \in Slab!Mapped' : \A j : ~ SIsAt(u, t, j)'
  BY <1>2, SPairs DEF SIsAt
<1>5. \A t \in Slab!Mapped' : t \in Slab!Mapped /\ slab'[t].bitmap \subseteq slab[t].bitmap
                              /\ slab[t].bitmap \subseteq Nat
  BY DEF SInv, STypeOK
<1>6. ASSUME NEW v \in Users
      PROVE  IF SHas(v)' THEN \E t \in Slab!Mapped' : \E j \in slab'[t].bitmap : SIsAt(v, t, j)'
             ELSE ptr'[v] = <<>>
  <2>1. CASE v = u
    BY <1>2, <2>1
  <2>2. CASE v # u /\ SHas(v)
    <3>0. PICK t \in Slab!Mapped : \E j \in slab[t].bitmap : SIsAt(v, t, j)
      BY <2>2 DEF SInv, SPtrInv
    <3>1. PICK j \in slab[t].bitmap : SIsAt(v, t, j)
      BY <3>0
    <3>2. ~ (t = s /\ j = i)
      BY <1>2, <2>2, <3>1
    <3>3. t \in Slab!Mapped' /\ j \in slab'[t].bitmap
      BY <3>1, <3>2
    <3>4. SIsAt(v, t, j)'
      BY <1>3, <2>2, <3>1, <3>3
    <3>. QED
      BY <2>2, <3>3, <3>4
  <2>3. CASE v # u /\ ~ SHas(v)
    BY <1>2, <2>3 DEF SInv, SPtrInv
  <2>. QED
    BY <2>1, <2>2, <2>3
<1>7. ASSUME NEW v \in Users, NEW w \in Users, NEW t \in Slab!Mapped',
             NEW j \in slab'[t].bitmap, SIsAt(v, t, j)', SIsAt(w, t, j)'
      PROVE  v = w
  <2>1. v # u /\ w # u /\ t \in Slab!Mapped /\ j \in slab[t].bitmap
    BY <1>4, <1>5, <1>7
  <2>2. SIsAt(v, t, j) /\ SIsAt(w, t, j)
    BY <1>3, <1>7, <2>1
  <2>. QED
    BY <2>1, <2>2 DEF SInv, SPtrInv
<1>8. ASSUME NEW t \in Slab!Mapped', NEW j \in slab'[t].bitmap
      PROVE  \E v \in Users : SIsAt(v, t, j)'
  <2>1. t \in Slab!Mapped /\ j \in slab[t].bitmap /\ j \in Nat
    BY <1>5
  <2>2. PICK v \in Users : SIsAt(v, t, j)
    BY <2>1 DEF SInv, SSlabInv, SSlabOf
  <2>3. v # u
    <3>1. CASE t = s
      <4>1. j # i
        BY <1>8, <3>1
      <4>. QED
        BY <1>2, <2>1, <2>2, <3>1, <4>1
    <3>2. CASE t # s
      BY <1>2, <2>1, <2>2, <3>2
    <3>. QED
      BY <3>1, <3>2
  <2>. QED
    BY <1>3, <2>2, <2>3
<1>9. SPtrInv'
  BY <1>6, <1>7 DEF SPtrInv
<1>. QED
  BY <1>8, <1>9

LEMMA SFreeSlabStep ==
  ASSUME SInv, NEW u \in Users, NEW s \in Slab!Mapped, NEW i \in slab[s].bitmap,
         SFrees(u, s, i), SFreesSlab(s, i)
  PROVE  SInv'
<1>. DEFINE b == slab[s].thisBucket
<1>1. /\ user' \in [Users -> [pc : {"idle", "malloc", "use", "lock", "free"},
                              b : Slab!Buckets \cup {0}]]
      /\ \A v \in Users : user'[v].pc # "idle" => user'[v].b \in Slab!Buckets
      /\ user'[u].pc = "idle"
      /\ \A v \in Users : v # u => user'[v] = user[v]
      /\ locks' \in [Slab!Buckets -> Users \cup {0}]
      /\ SLockInv'
  BY SUnlock DEF SInv, SFrees
<1>2. ~ SHas(u)' /\ \A v \in Users : v # u => (SHas(v)' <=> SHas(v))
  BY <1>1 DEF SHas
<1>3. /\ Slab!Mapped' = Slab!Mapped \ {s}
      /\ slab' \in [Slab!Mapped' -> [thisBucket : Slab!Buckets, freeObj : Int, bitmap : SUBSET Nat]]
      /\ \A t \in Slab!Mapped' : t \in Slab!Mapped /\ t # s /\ slab'[t] = slab[t]
  <2>. DEFINE R == [thisBucket : Slab!Buckets, freeObj : Int, bitmap : SUBSET Nat]
  <2>1. slab \in [Slab!Mapped -> R]
    BY DEF SInv, STypeOK
  <2>. HIDE DEF R
  <2>2. slab' = [t \in Slab!Mapped \ {s} |-> slab[t]]
    BY DEF SFreesSlab
  <2>3. Slab!Mapped' = Slab!Mapped \ {s}
    BY <2>2 DEF Slab!Mapped
  <2>4. slab' \in [Slab!Mapped \ {s} -> R] /\ \A t \in Slab!Mapped \ {s} : slab'[t] = slab[t]
    BY <2>1, <2>2
  <2>. QED
    BY <2>3, <2>4 DEF R
<1>4. b \in Slab!Buckets /\ slab[s].bitmap = {i}
  BY DEF SInv, STypeOK, SFreesSlab
<1>5. /\ SPtrInv'
      /\ \A t \in Slab!Mapped' : \A j \in slab'[t].bitmap : \E v \in Users : SIsAt(v, t, j)'
  <2>1. Slab!Mapped' \subseteq Slab!Mapped /\ Slab!Mapped \ {s} \subseteq Slab!Mapped'
    BY <1>3
  <2>2. \A t \in Slab!Mapped' :
          /\ slab'[t].thisBucket = slab[t].thisBucket
          /\ slab'[t].bitmap = IF t = s THEN slab[t].bitmap \ {i} ELSE slab[t].bitmap
    BY <1>3
  <2>. QED
    BY <1>2, <1>4, <2>1, <2>2, SFreeLeaves
<1>6. /\ chain' \in [Slab!Buckets -> Seq(Areas)]
      /\ \A c \in Slab!Buckets :
           /\ \A k \in 1 .. Len(chain'[c]) :
                chain'[c][k] # s /\ \E m \in 1 .. Len(chain[c]) : chain'[c][k] = chain[c][m]
           /\ \A j, k \in 1 .. Len(chain'[c]) : chain'[c][j] = chain'[c][k] => j = k
           /\ \A m \in 1 .. Len(chain[c]) :
                chain[c][m] # s => \E k \in 1 .. Len(chain'[c]) : chain'[c][k] = chain[c][m]
  <2>1. PICK p \in 1 .. Len(chain[b]) : chain[b][p] = s
    BY DEF SInv, SSlabInv, SSlabOf
  <2>2. PICK q \in Seq(Areas) : q = chain[b]
    BY <1>4 DEF SInv, STypeOK
  <2>0. p \in 1 .. Len(q) /\ q[p] = s
    BY <2>1, <2>2
  <2>3. SDistinct(q)
    BY <1>4, <2>2 DEF SInv, SChainInv, SDistinct
  <2>4. PICK d : d = Slab!Unlink(q, s)
    OBVIOUS
  <2>5. SWithout(q, s, d)
    BY <2>0, <2>3, <2>4, SUnlink
  <2>6. chain \in [Slab!Buckets -> Seq(Areas)]
    BY DEF SInv, STypeOK
  <2>8. chain' = [chain EXCEPT ![b] = d]
    BY <2>2, <2>4 DEF SFreesSlab
  <2>. HIDE DEF b
  <2>9. /\ chain' \in [Slab!Buckets -> Seq(Areas)] /\ chain'[b] = d
        /\ \A c \in Slab!Buckets : c # b => chain'[c] = chain[c]
    BY <1>4, <2>5, <2>6, <2>8 DEF SWithout
  <2>10. ASSUME NEW c \in Slab!Buckets, c # b
         PROVE  /\ \A k \in 1 .. Len(chain[c]) : chain[c][k] # s
                /\ \A j, k \in 1 .. Len(chain[c]) : chain[c][j] = chain[c][k] => j = k
    BY <2>10 DEF SInv, SChainInv, b
  <2>11. ASSUME NEW c \in Slab!Buckets
         PROVE  /\ \A k \in 1 .. Len(chain'[c]) :
                     chain'[c][k] # s /\ \E m \in 1 .. Len(chain[c]) : chain'[c][k] = chain[c][m]
                /\ \A j, k \in 1 .. Len(chain'[c]) : chain'[c][j] = chain'[c][k] => j = k
                /\ \A m \in 1 .. Len(chain[c]) :
                     chain[c][m] # s => \E k \in 1 .. Len(chain'[c]) : chain'[c][k] = chain[c][m]
    <3>1. CASE c = b
      <4>1. SWithout(chain[c], s, chain'[c])
        BY <2>2, <2>5, <2>9, <3>1
      <4>. QED
        BY <4>1 DEF SWithout, SDistinct
    <3>2. CASE c # b
      BY <2>9, <2>10, <3>2
    <3>. QED
      BY <3>1, <3>2
  <2>. QED
    BY <2>9, <2>11
<1>. HIDE DEF b
<1>7. STypeOK'
  <2>1. DOMAIN ptr' = Users
    BY DEF SFrees, SReturns, SInv, STypeOK
  <2>2. Slab!Mapped' \subseteq Areas
    BY <1>3 DEF SInv, STypeOK
  <2>. QED
    BY <1>1, <1>3, <1>6, <2>1, <2>2 DEF STypeOK
<1>8. SSlabInv'
  <2>1. ASSUME NEW t \in Slab!Mapped' PROVE SSlabOf(t)'
    <3>1. t \in Slab!Mapped /\ t # s /\ slab'[t] = slab[t] /\ slab[t].thisBucket \in Slab!Buckets
      BY <1>3 DEF SInv, STypeOK
    <3>2. SSlabOf(t)
      BY <3>1 DEF SInv, SSlabInv
    <3>3. \E k \in 1 .. Len(chain'[slab[t].thisBucket]) : chain'[slab[t].thisBucket][k] = t
      <4>1. PICK c \in Slab!Buckets : c = slab[t].thisBucket
        BY <3>1
      <4>2. PICK m \in 1 .. Len(chain[c]) : chain[c][m] = t
        BY <3>2, <4>1 DEF SSlabOf
      <4>3. \E k \in 1 .. Len(chain'[c]) : chain'[c][k] = t
        <5>1. chain[c][m] # s
          BY <3>1, <4>2
        <5>2. \E k \in 1 .. Len(chain'[c]) : chain'[c][k] = chain[c][m]
          BY <1>6, <5>1
        <5>. QED
          BY <4>2, <5>2
      <4>. QED
        BY <4>1, <4>3
    <3>. QED
      BY <1>5, <3>1, <3>2, <3>3 DEF SSlabOf
  <2>. QED
    BY <2>1 DEF SSlabInv
<1>9. SChainInv'
  <2>1. ASSUME NEW c \in Slab!Buckets, NEW k \in 1 .. Len(chain'[c])
        PROVE  chain'[c][k] \in Slab!Mapped' /\ slab'[chain'[c][k]].thisBucket = c
    <3>1. PICK m \in 1 .. Len(chain[c]) : chain'[c][k] = chain[c][m]
      BY <1>6
    <3>2. chain[c][m] \in Slab!Mapped /\ slab[chain[c][m]].thisBucket = c
      BY DEF SInv, SChainInv
    <3>3. chain[c][m] \in Slab!Mapped'
      BY <1>3, <1>6, <3>1, <3>2
    <3>. QED
      BY <1>3, <3>1, <3>2, <3>3
  <2>. QED
    BY <1>6, <2>1 DEF SChainInv
<1>. QED
  BY <1>1, <1>5, <1>7, <1>8, <1>9 DEF SInv

LEMMA SFreeBitStep ==
  ASSUME SInv, NEW u \in Users, NEW s \in Slab!Mapped, NEW i \in slab[s].bitmap,
         SFrees(u, s, i), SFreesBit(s, i)
  PROVE  SInv'
<1>1. /\ user' \in [Users -> [pc : {"idle", "malloc", "use", "lock", "free"},
                              b : Slab!Buckets \cup {0}]]
      /\ \A v \in Users : user'[v].pc # "idle" => user'[v].b \in Slab!Buckets
      /\ user'[u].pc = "idle"
      /\ \A v \in Users : v # u => user'[v] = user[v]
      /\ locks' \in [Slab!Buckets -> Users \cup {0}]
      /\ SLockInv'
  BY SUnlock DEF SInv, SFrees
<1>2. ~ SHas(u)' /\ \A v \in Users : v # u => (SHas(v)' <=> SHas(v))
  BY <1>1 DEF SHas
<1>3. PICK B \in SUBSET Nat : B = slab[s].bitmap
  BY DEF SInv, STypeOK
<1>4. PICK n \in Nat : n = Slab!totObj(slab[s].thisBucket)
  <2>1. slab[s].thisBucket \in 1 .. 12
    BY SBuckets DEF SInv, STypeOK
  <2>. QED
    BY <2>1, STotal
<1>5. B \subseteq 0 .. n - 1 /\ slab[s].freeObj = n - Cardinality(B) /\ B # {i} /\ i \in B
  BY <1>3, <1>4 DEF SInv, SSlabInv, SSlabOf, SFreesBit
<1>6. /\ Cardinality(B \ {i}) = Cardinality(B) - 1 /\ Cardinality(B) \in Nat
      /\ B \ {i} \subseteq 0 .. n - 1 /\ B \ {i} # {}
  <2>1. IsFiniteSet(0 .. n - 1)
    <3>1. 0 \in Int /\ n - 1 \in Int
      OBVIOUS
    <3>. QED
      BY <3>1, FS_Interval
  <2>2. IsFiniteSet(B)
    BY <1>5, <2>1, FS_Subset
  <2>3. Cardinality(B) \in Nat
    BY <2>2, FS_CardinalityType
  <2>4. Cardinality(B \ {i}) = Cardinality(B) - 1
    BY <1>5, <2>2, FS_RemoveElement
  <2>5. B \ {i} \subseteq 0 .. n - 1 /\ B \ {i} # {}
    BY <1>5
  <2>. QED
    BY <2>3, <2>4, <2>5
<1>7. /\ Slab!Mapped' = Slab!Mapped
      /\ slab' \in [Slab!Mapped -> [thisBucket : Slab!Buckets, freeObj : Int, bitmap : SUBSET Nat]]
      /\ slab'[s].thisBucket = slab[s].thisBucket
      /\ slab'[s].freeObj = n - Cardinality(B \ {i})
      /\ slab'[s].bitmap = B \ {i}
      /\ \A t \in Slab!Mapped : t # s => slab'[t] = slab[t]
  <2>1. PICK g \in Int : g = n - Cardinality(B \ {i}) /\ g = slab[s].freeObj + 1
    BY <1>5, <1>6
  <2>2. PICK C \in SUBSET Nat : C = B \ {i}
    OBVIOUS
  <2>3. SWrites(s, g, C)
    BY <1>3, <2>1, <2>2 DEF SFreesBit
  <2>4. STypeOK
    BY DEF SInv
  <2>5. /\ Slab!Mapped' = Slab!Mapped
        /\ slab' \in [Slab!Mapped -> [thisBucket : Slab!Buckets, freeObj : Int, bitmap : SUBSET Nat]]
        /\ slab'[s].thisBucket = slab[s].thisBucket /\ slab'[s].freeObj = g
        /\ slab'[s].bitmap = C
        /\ \A t \in Slab!Mapped : t # s => slab'[t] = slab[t]
    BY <2>3, <2>4, SUpdate
  <2>. QED
    BY <2>1, <2>2, <2>5
<1>8. /\ SPtrInv'
      /\ \A t \in Slab!Mapped' : \A j \in slab'[t].bitmap : \E v \in Users : SIsAt(v, t, j)'
  <2>1. /\ Slab!Mapped' \subseteq Slab!Mapped /\ Slab!Mapped \ {s} \subseteq Slab!Mapped'
        /\ s \in Slab!Mapped'
    BY <1>7
  <2>2. \A t \in Slab!Mapped' :
          /\ slab'[t].thisBucket = slab[t].thisBucket
          /\ slab'[t].bitmap = IF t = s THEN slab[t].bitmap \ {i} ELSE slab[t].bitmap
    BY <1>3, <1>7
  <2>. QED
    BY <1>2, <2>1, <2>2, SFreeLeaves
<1>9. UNCHANGED chain
  BY DEF SFreesBit
<1>10. STypeOK'
  <2>1. DOMAIN ptr' = Users
    BY DEF SFrees, SReturns, SInv, STypeOK
  <2>. QED
    BY <1>1, <1>7, <1>9, <2>1 DEF SInv, STypeOK
<1>11. SSlabInv'
  <2>1. ASSUME NEW t \in Slab!Mapped PROVE SSlabOf(t)'
    <3>1. SSlabOf(t)
      BY DEF SInv, SSlabInv
    <3>2. /\ slab'[t].bitmap # {}
          /\ slab'[t].bitmap \subseteq 0 .. Slab!totObj(slab'[t].thisBucket) - 1
          /\ slab'[t].freeObj = Slab!totObj(slab'[t].thisBucket) - Cardinality(slab'[t].bitmap)
      <4>1. CASE t = s
        BY <1>4, <1>6, <1>7, <4>1
      <4>2. CASE t # s
        BY <1>7, <3>1, <4>2 DEF SSlabOf
      <4>. QED
        BY <4>1, <4>2
    <3>3. slab'[t].thisBucket = slab[t].thisBucket
      BY <1>7
    <3>4. \E k \in 1 .. Len(chain'[slab'[t].thisBucket]) : chain'[slab'[t].thisBucket][k] = t
      BY <1>9, <3>1, <3>3 DEF SSlabOf
    <3>. QED
      BY <1>7, <1>8, <3>2, <3>4 DEF SSlabOf
  <2>. QED
    BY <1>7, <2>1 DEF SSlabInv
<1>12. SChainInv'
  <2>1. \A t \in Slab!Mapped : slab'[t].thisBucket = slab[t].thisBucket
    BY <1>7
  <2>2. SChainInv
    BY DEF SInv
  <2>. QED
    BY <1>7, <1>9, <2>1, <2>2, SMTT(30) DEF SChainInv
<1>. QED
  BY <1>1, <1>8, <1>10, <1>11, <1>12 DEF SInv

LEMMA SFreeStep == ASSUME SInv, NEW u \in Users, Slab!Free(u) PROVE SInv'
<1>0. PICK s \in Slab!Mapped : \E i \in slab[s].bitmap : SFrees(u, s, i)
  BY SFreed
<1>1. PICK i \in slab[s].bitmap : SFrees(u, s, i)
  BY <1>0
<1>2. SFreesSlab(s, i) \/ SFreesBit(s, i)
  BY <1>1 DEF SFrees
<1>. QED
  BY <1>1, <1>2, SFreeSlabStep, SFreeBitStep

LEMMA SNext == ASSUME SInv, [Next]_vars PROVE SInv'
<1>1. CASE UNCHANGED slabVars
  <2>1. UNCHANGED <<locks, chain, slab, user, ptr>>
    BY <1>1 DEF slabVars
  <2>2. Slab!Mapped' = Slab!Mapped /\ \A u, s, i : SIsAt(u, s, i)' <=> SIsAt(u, s, i)
    BY <2>1 DEF Slab!Mapped, SIsAt
  <2>3. STypeOK' /\ SLockInv'
    BY <2>1, <2>2 DEF SInv, STypeOK, SLockInv, SLockOf
  <2>4. (SPtrInv /\ SSlabInv /\ SChainInv)'
    BY <2>1, <2>2 DEF SInv, SPtrInv, SHas, SSlabInv, SSlabOf, SChainInv
  <2>. QED
    BY <2>3, <2>4 DEF SInv
<1>2. ASSUME NEW u \in Users, Slab!User(u) PROVE SInv'
  BY <1>2, SLockBucketStep, SAllocateStep, SMapSlabStep, SCallFreeStep, SLockNextStep, SFreeStep
     DEF Slab!User
<1>. QED
  BY <1>1, <1>2, SMoves

LEMMA SInit == Init => SInv
<1>. SUFFICES ASSUME Slab!SlabInit PROVE SInv
  BY DEF Init
<1>. USE DEF Slab!SlabInit
<1>1. Slab!Mapped = {}
  BY DEF Slab!Mapped
<1>2. STypeOK
  <2>1. slab \in [Slab!Mapped -> [thisBucket : Slab!Buckets, freeObj : Int, bitmap : SUBSET Nat]]
    BY <1>1
  <2>2. \A b \in Slab!Buckets : chain[b] = <<>> /\ <<>> \in Seq(Areas)
    OBVIOUS
  <2>3. chain \in [Slab!Buckets -> Seq(Areas)]
    BY <2>2
  <2>. QED
    BY <1>1, <2>1, <2>3 DEF STypeOK
<1>3. SLockInv
  BY DEF SLockInv, SLockOf
<1>4. SPtrInv
  BY <1>1 DEF SPtrInv, SHas
<1>5. SSlabInv
  BY <1>1 DEF SSlabInv
<1>6. SChainInv
  BY DEF SChainInv
<1>. QED
  BY <1>2, <1>3, <1>4, <1>5, <1>6 DEF SInv

\* Between the calls of the allocator the bitmaps, the counters, the lists and
\* the pointers of the threads agree, and who is under a mutex holds it
\* (mymalloc, myfree).
THEOREM SlabInvariant == Spec => []SInv
<1>1. Init => SInv
  BY SInit
<1>2. SInv /\ [Next]_vars => SInv'
  BY SNext
<1>. QED
  BY <1>1, <1>2, PTL DEF Spec

SCallsExclude ==
  \A u, v \in Users :
    u # v => /\ user[u].pc = "free" => user[v].pc \notin {"malloc", "free"}
             /\ user[u].pc = "malloc" /\ user[v].pc = "malloc" => user[u].b # user[v].b

\* While a thread has all mutexes of myfree, no other is past the mutex of
\* mymalloc or has all of myfree, and two in mymalloc are in different
\* buckets: nothing disturbs what a call does under its mutexes, which is why
\* the module makes it one step.
THEOREM SlabCallsExclude == Spec => []SCallsExclude
<1>1. SInv => SCallsExclude
  <2>1. SUFFICES ASSUME SInv, NEW u \in Users, NEW v \in Users, u # v
                 PROVE  /\ user[u].pc = "free" => user[v].pc \notin {"malloc", "free"}
                        /\ user[u].pc = "malloc" /\ user[v].pc = "malloc" => user[u].b # user[v].b
    BY DEF SCallsExclude
  <2>2. SLockOf(u) /\ SLockOf(v)
    BY <2>1 DEF SInv, SLockInv
  <2>3. user[v].pc # "idle" => user[v].b \in Slab!Buckets
    BY <2>1 DEF SInv, STypeOK
  <2>. QED
    BY <2>1, <2>2, <2>3 DEF SLockOf
<1>. QED
  BY <1>1, SlabInvariant, PTL

\* The objects of every bucket fit into its slab.
LEMMA SFit == Slab!ObjectsFit
<1>1. \A b \in 1 .. 12 : Slab!Word(b, Slab!hashTable[b][2]) <= Slab!SlabBytes
                         /\ Slab!hashTable[b][2] <= Slab!BitmapBits
  <2>1. SUFFICES ASSUME NEW b \in {1, 2, 3, 4, 5, 6, 7, 8, 9, 10, 11, 12}
                 PROVE  /\ Slab!Word(b, Slab!hashTable[b][2]) <= Slab!SlabBytes
                        /\ Slab!hashTable[b][2] <= Slab!BitmapBits
    BY SEntries
  <2>. QED
    BY STable, SObjects DEF Slab!Word, Slab!HeaderBytes, Slab!WordBytes, Slab!SlabBytes, Slab!BitmapBits
<1>. QED
  BY <1>1, STable DEF Slab!ObjectsFit

LEMMA SInvImpliesObjectsAreOwned == ASSUME SInv PROVE Slab!ObjectsAreOwned
<1>1. ASSUME NEW u \in Users, ptr[u] # <<>>
      PROVE  \E s \in Slab!Mapped : \E i \in slab[s].bitmap : SIsAt(u, s, i)
  BY <1>1 DEF SInv, SPtrInv
<1>2. \A u \in Users : \A s, i : SIsAt(u, s, i) =>
        ptr[u] # <<>> /\ ptr[u][1] = s /\ ptr[u][2] = Slab!Word(slab[s].thisBucket, i)
  BY SPairs DEF SIsAt
<1>3. \A u \in Users : ptr[u] # <<>> => ptr[u][1] \in Slab!Mapped
  <2>1. ASSUME NEW u \in Users, ptr[u] # <<>> PROVE ptr[u][1] \in Slab!Mapped
    <3>1. PICK s \in Slab!Mapped : \E i \in slab[s].bitmap : SIsAt(u, s, i)
      BY <1>1, <2>1
    <3>. QED
      BY <1>2, <3>1
  <2>. QED
    BY <2>1
<1>4. ASSUME NEW u \in Users, NEW v \in Users, u # v, ptr[u] # <<>> PROVE ptr[u] # ptr[v]
  <2>1. PICK s \in Slab!Mapped : \E i \in slab[s].bitmap : SIsAt(u, s, i)
    BY <1>1, <1>4
  <2>2. PICK i \in slab[s].bitmap : SIsAt(u, s, i)
    BY <2>1
  <2>3. ptr[u] = ptr[v] => SIsAt(v, s, i)
    BY <2>2 DEF SIsAt
  <2>. QED
    BY <1>4, <2>2, <2>3 DEF SInv, SPtrInv
<1>5. ASSUME NEW s \in Slab!Mapped
      PROVE  LET b == slab[s].thisBucket
             IN  /\ Slab!Owners(s) # {}
                 /\ slab[s].bitmap \subseteq 0 .. Slab!totObj(b) - 1
                 /\ slab[s].bitmap = {Slab!offset(b, ptr[u][2]) : u \in Slab!Owners(s)}
                 /\ slab[s].freeObj = Slab!totObj(b) - Slab!Cardinality(slab[s].bitmap)
                 /\ \E k \in DOMAIN chain[b] : chain[b][k] = s
  <2>1. PICK b \in Slab!Buckets : b = slab[s].thisBucket
    BY DEF SInv, STypeOK
  <2>2. SSlabOf(s)
    BY DEF SInv, SSlabInv
  <2>3. b \in 1 .. 12 /\ slab[s].bitmap \subseteq Nat
    BY SBuckets DEF SInv, STypeOK
  <2>4. ASSUME NEW i \in slab[s].bitmap
        PROVE  \E u \in Slab!Owners(s) : i = Slab!offset(b, ptr[u][2])
    <3>1. PICK u \in Users : SIsAt(u, s, i)
      BY <2>2 DEF SSlabOf
    <3>2. u \in Slab!Owners(s) /\ ptr[u][2] = Slab!Word(b, i)
      BY <1>2, <2>1, <3>1 DEF Slab!Owners
    <3>3. Slab!offset(b, Slab!Word(b, i)) = i
      BY <2>3, SOffset
    <3>. QED
      BY <3>2, <3>3
  <2>5. ASSUME NEW u \in Slab!Owners(s) PROVE Slab!offset(b, ptr[u][2]) \in slab[s].bitmap
    <3>1. u \in Users /\ ptr[u] # <<>> /\ ptr[u][1] = s
      BY DEF Slab!Owners
    <3>2. PICK t \in Slab!Mapped : \E i \in slab[t].bitmap : SIsAt(u, t, i)
      BY <1>1, <3>1
    <3>3. PICK i \in slab[t].bitmap : SIsAt(u, t, i)
      BY <3>2
    <3>4. t = s /\ ptr[u][2] = Slab!Word(b, i)
      BY <1>2, <2>1, <3>1, <3>3
    <3>5. Slab!offset(b, Slab!Word(b, i)) = i
      BY <2>3, <3>4, SOffset
    <3>. QED
      BY <3>3, <3>4, <3>5
  <2>6. slab[s].bitmap = {Slab!offset(b, ptr[u][2]) : u \in Slab!Owners(s)}
    BY <2>4, <2>5
  <2>7. Slab!Owners(s) # {}
    BY <2>2, <2>4 DEF SSlabOf
  <2>8. slab[s].freeObj = Slab!totObj(b) - Slab!Cardinality(slab[s].bitmap)
    BY <2>1, <2>2, SCardinality DEF SSlabOf
  <2>9. chain[b] \in Seq(Areas)
    BY DEF SInv, STypeOK
  <2>10. \E k \in DOMAIN chain[b] : chain[b][k] = s
    BY <2>1, <2>2, <2>9 DEF SSlabOf
  <2>11. slab[s].bitmap \subseteq 0 .. Slab!totObj(b) - 1
    BY <2>1, <2>2 DEF SSlabOf
  <2>. QED
    BY <2>1, <2>6, <2>7, <2>8, <2>10, <2>11
<1>6. \A b \in Slab!Buckets : \A k \in DOMAIN chain[b] : chain[b][k] \in Slab!Mapped
  <2>1. \A b \in Slab!Buckets : chain[b] \in Seq(Areas)
    BY DEF SInv, STypeOK
  <2>. QED
    BY <2>1 DEF SInv, SChainInv
<1>. QED
  BY <1>3, <1>4, <1>5, <1>6 DEF Slab!ObjectsAreOwned

-----------------------------------------------------------------------------
\* All of the safety of these programs that the runs check, together: locks and
\* turnstiles, the sums that main prints, the accounts of the simulations and
\* of the allocator.
THEOREM OSProgramsSafety == Spec => []Safety
<1>1. BInv /\ RInv /\ TInv /\ MInv /\ SInv => Safety
  BY BInvImpliesSafety, RInvImpliesSafety, TInvImpliesSafety, MInvImpliesProcessesAddUp,
     SInvImpliesObjectsAreOwned, SFit
  DEF Safety
<1>. QED
  BY <1>1, BarrierInvariant, ReadersWritersInvariant, TribeInvariant, SimulationInvariant,
     SlabInvariant, PTL
===============================================================================
