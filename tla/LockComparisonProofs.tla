------------------------ MODULE LockComparisonProofs ------------------------
(***************************************************************************)
(* The two locks of b.cpp, for every number of threads and of iterations:  *)
(* mutual exclusion, first come first served and refinement of Mutex for   *)
(* the bakery lock, and mutual exclusion, narrowing of the levels and      *)
(* refinement of Mutex for the filter lock.                                *)
(***************************************************************************)
EXTENDS LockComparison, FiniteSetTheorems, TLAPS

-----------------------------------------------------------------------------
(* The bakery lock: a thread that has stopped waiting for another stays    *)
(* ahead of it, whatever label the other still comes to hold.              *)

\* t goes before u: the order the busy wait of Lock compares by.
Before(t, u) == label[t] < label[u] \/ (label[t] = label[u] /\ t < u)

\* The busy wait of t is done with thread j.
Passed(t, j) == (Waiting(t) /\ j < idx[t]) \/ InCS(t)

\* Whatever label j holds when it waits next, it will wait for t.
Later(t, j) ==
  \/ pc[j] = "rem"
  \/ /\ pc[j] = "scan"
     /\ \/ idx[j] <= t
        \/ maxLabel[j] >= label[t]
        \/ idx[j] <= j /\ label[j] >= label[t]
  \/ Waiting(j) /\ Before(t, j) /\ idx[j] <= t

FlagInv  == \A t \in Threads : flag[t] <=> (pc[t] # "rem")
ScanInv  == \A t \in Threads :
              pc[t] = "scan" /\ idx[t] > t => maxLabel[t] >= label[t]
WaitInv  == \A t \in Threads :
              pc[t] \in {"wless", "wequal"} => idx[t] \in Threads \ {t}
EqualInv == \A t \in Threads :
              pc[t] = "wequal" => label[idx[t]] >= label[t]
OrderInv == \A t, j \in Threads : t # j /\ Passed(t, j) => Later(t, j)
AheadInv == \A t \in Threads : \A u \in ahead[t] :
              u # t /\ Waiting(u) /\ pc[t] # "rem" /\ Later(u, t)
TmpInv   == \A t \in Threads : pc[t] = "store" => tmp[t] = wait_time
LeftInv  == \A t \in Threads : pc[t] # "rem" => left[t] > 0

IInv == /\ TypeOK /\ FlagInv /\ ScanInv /\ WaitInv /\ EqualInv
        /\ OrderInv /\ AheadInv /\ LeftInv /\ TmpInv
-----------------------------------------------------------------------------
\* A thread is its index, smaller than the number of threads.
LEMMA ThreadsAreNat == \A t \in Threads : t \in Nat /\ t < N
  BY NAssumption DEF Threads

\* A loop index that has not reached N is a thread.
LEMMA IndexIsThread == \A i \in 0 .. N : i # N => i \in Threads
  BY NAssumption DEF Threads

\* Two threads inside would each have to come before the other.
LEMMA Exclusion == ASSUME IInv PROVE MutualExclusion
<1> SUFFICES ASSUME NEW t \in Threads, NEW u \in Threads, t # u,
                    InCS(t), InCS(u)
             PROVE FALSE
  BY DEF MutualExclusion
<1>1. Later(t, u)
  BY DEF IInv, OrderInv, Passed
<1>. QED
  BY <1>1 DEF Later, InCS, Waiting, IInv, TypeOK

\* Every step preserves the types.
LEMMA TypeStep == ASSUME TypeOK, LeftInv, WaitInv, [Next]_vars PROVE TypeOK'
<1> USE NAssumption, KAssumption, LabelAssumption, ThreadsAreNat DEF TypeOK
<1>1. ASSUME NEW t \in Threads, RaiseFlag(t) PROVE TypeOK'
  BY <1>1 DEF RaiseFlag
<1>2. ASSUME NEW t \in Threads, ScanLabel(t) PROVE TypeOK'
  BY <1>2, IndexIsThread DEF ScanLabel
<1>3. ASSUME NEW t \in Threads, Overflow(t) PROVE TypeOK'
  BY <1>3 DEF Overflow
<1>4. ASSUME NEW t \in Threads, TakeLabel(t) PROVE TypeOK'
  BY <1>4 DEF TakeLabel, NextLabel, Exhausted
<1>5. ASSUME NEW t \in Threads, SkipSelf(t) PROVE TypeOK'
  BY <1>5 DEF SkipSelf
<1>6. ASSUME NEW t \in Threads, ReadFlag(t) PROVE TypeOK'
  BY <1>6, IndexIsThread DEF ReadFlag
<1>7. ASSUME NEW t \in Threads, ReadLess(t) PROVE TypeOK'
  BY <1>7 DEF ReadLess
<1>8. ASSUME NEW t \in Threads, ReadEqual(t) PROVE TypeOK'
  BY <1>8 DEF ReadEqual, Tie, WaitInv
<1>9. ASSUME NEW t \in Threads, EnterCS(t) PROVE TypeOK'
  BY <1>9 DEF EnterCS
<1>10. ASSUME NEW t \in Threads, LoadWaitTime(t) PROVE TypeOK'
  BY <1>10 DEF LoadWaitTime
<1>11. ASSUME NEW t \in Threads, StoreWaitTime(t) PROVE TypeOK'
  BY <1>11 DEF StoreWaitTime
<1>12. ASSUME NEW t \in Threads, Unlock(t) PROVE TypeOK'
  BY <1>12 DEF Unlock, LowerFlag, LeftInv
<1>13. CASE UNCHANGED vars
  BY <1>13 DEF vars
<1>. QED
  BY <1>1, <1>2, <1>3, <1>4, <1>5, <1>6, <1>7, <1>8, <1>9, <1>10, <1>11, <1>12, <1>13 DEF Next, Thread, Over

\* A step of one thread keeps the facts that speak of single threads.
LEMMA LocalStep ==
  ASSUME IInv, [Next]_vars
  PROVE  FlagInv' /\ ScanInv' /\ WaitInv' /\ EqualInv' /\ LeftInv'
<1> USE NAssumption, KAssumption, LabelAssumption, ThreadsAreNat
    DEF TypeOK, IInv, FlagInv, ScanInv, WaitInv, EqualInv, LeftInv
<1> DEFINE Goal == FlagInv' /\ ScanInv' /\ WaitInv' /\ EqualInv' /\ LeftInv'
<1>1. ASSUME NEW t \in Threads, RaiseFlag(t) PROVE Goal
  BY <1>1 DEF RaiseFlag
<1>2. ASSUME NEW t \in Threads, ScanLabel(t) PROVE Goal
  BY <1>2, IndexIsThread DEF ScanLabel
<1>3. ASSUME NEW t \in Threads, Overflow(t) PROVE Goal
  BY <1>3 DEF Overflow
<1>4. ASSUME NEW t \in Threads, TakeLabel(t) PROVE Goal
  BY <1>4 DEF TakeLabel, NextLabel, Exhausted
<1>5. ASSUME NEW t \in Threads, SkipSelf(t) PROVE Goal
  BY <1>5 DEF SkipSelf
<1>6. ASSUME NEW t \in Threads, ReadFlag(t) PROVE Goal
  BY <1>6, IndexIsThread DEF ReadFlag
<1>7. ASSUME NEW t \in Threads, ReadLess(t) PROVE Goal
  BY <1>7 DEF ReadLess
<1>8. ASSUME NEW t \in Threads, ReadEqual(t) PROVE Goal
  BY <1>8 DEF ReadEqual, Tie
<1>9. ASSUME NEW t \in Threads, EnterCS(t) PROVE Goal
  BY <1>9 DEF EnterCS
<1>10. ASSUME NEW t \in Threads, LoadWaitTime(t) PROVE Goal
  BY <1>10 DEF LoadWaitTime
<1>11. ASSUME NEW t \in Threads, StoreWaitTime(t) PROVE Goal
  BY <1>11 DEF StoreWaitTime
<1>12. ASSUME NEW t \in Threads, Unlock(t) PROVE Goal
  BY <1>12 DEF Unlock, LowerFlag
<1>13. CASE UNCHANGED vars
  BY <1>13 DEF vars
<1>. QED
  BY <1>1, <1>2, <1>3, <1>4, <1>5, <1>6, <1>7, <1>8, <1>9, <1>10, <1>11, <1>12, <1>13 DEF Next, Thread, Over

\* A step keeps the order between a thread that passed and the one it passed.
LEMMA OrderStep == ASSUME IInv, [Next]_vars PROVE OrderInv'
<1> USE NAssumption, KAssumption, LabelAssumption, ThreadsAreNat
    DEF TypeOK, IInv, OrderInv, Passed, Later, Before, Waiting, InCS
<1>1. ASSUME NEW t \in Threads, RaiseFlag(t) PROVE OrderInv'
  BY <1>1 DEF RaiseFlag, FlagInv, ScanInv, WaitInv, EqualInv
<1>2. ASSUME NEW t \in Threads, ScanLabel(t) PROVE OrderInv'
  BY <1>2, IndexIsThread DEF ScanLabel, FlagInv, ScanInv, WaitInv, EqualInv
<1>3. ASSUME NEW t \in Threads, Overflow(t) PROVE OrderInv'
  BY <1>3 DEF Overflow, FlagInv, ScanInv, WaitInv, EqualInv
<1>4. ASSUME NEW t \in Threads, TakeLabel(t) PROVE OrderInv'
  BY <1>4 DEF TakeLabel, NextLabel, Exhausted, FlagInv, ScanInv, WaitInv, EqualInv
<1>5. ASSUME NEW t \in Threads, SkipSelf(t) PROVE OrderInv'
  BY <1>5, SMTT(30) DEF SkipSelf, FlagInv, ScanInv, WaitInv, EqualInv
<1>6. ASSUME NEW t \in Threads, ReadFlag(t) PROVE OrderInv'
  <2> SUFFICES ASSUME NEW a \in Threads, NEW j \in Threads, a # j, Passed(a, j)'
               PROVE  Later(a, j)'
    OBVIOUS
  <2>1. idx[t] \in Threads
    BY <1>6, IndexIsThread DEF ReadFlag
  <2>2. CASE Passed(a, j)
    BY <1>6, <2>1, <2>2 DEF ReadFlag, FlagInv
  <2>3. CASE ~ Passed(a, j)
    <3>1. a = t /\ j = idx[t] /\ ~ flag[j]
      BY <1>6, <2>1, <2>3 DEF ReadFlag
    <3>. QED
      BY <1>6, <3>1 DEF ReadFlag, FlagInv
  <2>. QED
    BY <2>2, <2>3
<1>7. ASSUME NEW t \in Threads, ReadLess(t) PROVE OrderInv'
  BY <1>7 DEF ReadLess, FlagInv, ScanInv, WaitInv, EqualInv
<1>8. ASSUME NEW t \in Threads, ReadEqual(t) PROVE OrderInv'
  <2> SUFFICES ASSUME NEW a \in Threads, NEW j \in Threads, a # j, Passed(a, j)'
               PROVE  Later(a, j)'
    OBVIOUS
  <2>1. idx[t] \in Threads \ {t} /\ label[idx[t]] >= label[t]
    BY <1>8 DEF ReadEqual, Tie, WaitInv, EqualInv
  <2>2. CASE Passed(a, j)
    BY <1>8, <2>1, <2>2 DEF ReadEqual, Tie
  <2>3. CASE ~ Passed(a, j)
    <3>1. a = t /\ j = idx[t] /\ Before(t, j)
      BY <1>8, <2>1, <2>3 DEF ReadEqual, Tie
    <3>2. pc[j] = "scan" => Later(a, j)
      BY <2>1, <3>1 DEF ScanInv
    <3>3. Waiting(j) => ~ Passed(j, t)
      BY <1>8, <3>1 DEF ReadEqual, Tie
    <3>4. ~ InCS(j)
      BY <1>8, <3>1 DEF ReadEqual, Tie
    <3>. QED
      BY <1>8, <2>1, <3>1, <3>2, <3>3, <3>4 DEF ReadEqual, Tie
  <2>. QED
    BY <2>2, <2>3
<1>9. ASSUME NEW t \in Threads, EnterCS(t) PROVE OrderInv'
  BY <1>9 DEF EnterCS, FlagInv, ScanInv, WaitInv, EqualInv
<1>10. ASSUME NEW t \in Threads, LoadWaitTime(t) PROVE OrderInv'
  BY <1>10 DEF LoadWaitTime, FlagInv, ScanInv, WaitInv, EqualInv
<1>11. ASSUME NEW t \in Threads, StoreWaitTime(t) PROVE OrderInv'
  BY <1>11 DEF StoreWaitTime, FlagInv, ScanInv, WaitInv, EqualInv
<1>12. ASSUME NEW t \in Threads, Unlock(t) PROVE OrderInv'
  BY <1>12 DEF Unlock, LowerFlag, FlagInv, ScanInv, WaitInv, EqualInv
<1>13. CASE UNCHANGED vars
  BY <1>13 DEF vars
<1>. QED
  BY <1>1, <1>2, <1>3, <1>4, <1>5, <1>6, <1>7, <1>8, <1>9, <1>10, <1>11, <1>12, <1>13 DEF Next, Thread, Over

\* Nobody overtakes the threads that were waiting when it raised its flag.
LEMMA AheadStep == ASSUME IInv, [Next]_vars PROVE AheadInv'
<1> USE NAssumption, KAssumption, LabelAssumption, ThreadsAreNat
    DEF TypeOK, IInv, AheadInv, Later, Before, Waiting
<1>1. ASSUME NEW t \in Threads, RaiseFlag(t) PROVE AheadInv'
  BY <1>1 DEF RaiseFlag, FlagInv, ScanInv, WaitInv, EqualInv
<1>2. ASSUME NEW t \in Threads, ScanLabel(t) PROVE AheadInv'
  <2> SUFFICES ASSUME NEW x \in Threads, NEW u \in ahead[x]
               PROVE  u # x /\ Waiting(u)' /\ pc'[x] # "rem" /\ Later(u, x)'
    BY <1>2 DEF ScanLabel
  <2>1. u \in Threads /\ u # x /\ Waiting(u) /\ pc[x] # "rem" /\ Later(u, x)
    OBVIOUS
  <2>2. idx[t] # N => idx[t] \in Threads
    BY IndexIsThread
  <2>3. CASE x = t
    <3>1. idx[t] \in Threads /\ pc[t] = "scan" /\ pc' = pc /\ label' = label
      BY <1>2, <2>2 DEF ScanLabel
    <3>2. /\ idx'[t] = idx[t] + 1
          /\ maxLabel'[t] >= maxLabel[t] /\ maxLabel'[t] >= label[idx[t]]
      BY <1>2, <3>1 DEF ScanLabel
    <3>3. CASE idx[t] \in {u, t}
      BY <2>1, <2>3, <3>1, <3>2, <3>3, TypeStep, SMTT(30)
    <3>4. CASE idx[t] \notin {u, t}
      <4>1. idx[t] \in Nat /\ u \in Nat /\ t \in Nat
        BY <2>1, <3>1
      <4>2. \/ idx[t] < u
            \/ maxLabel[t] >= label[u]
            \/ idx[t] < t /\ label[t] >= label[u]
        BY <2>1, <2>3, <3>1, <3>4, <4>1
      <4>3. \/ idx'[t] <= u
            \/ maxLabel'[t] >= label[u]
            \/ idx'[t] <= t /\ label[t] >= label[u]
        BY <2>1, <3>1, <3>2, <4>1, <4>2, TypeStep
      <4>. QED
        BY <2>1, <2>3, <3>1, <4>3
    <3>. QED
      BY <3>3, <3>4
  <2>4. CASE x # t
    BY <1>2, <2>1, <2>2, <2>4 DEF ScanLabel
  <2>. QED
    BY <2>3, <2>4
<1>3. ASSUME NEW t \in Threads, Overflow(t) PROVE AheadInv'
  BY <1>3 DEF Overflow, FlagInv, ScanInv, WaitInv, EqualInv
<1>4. ASSUME NEW t \in Threads, TakeLabel(t) PROVE AheadInv'
  BY <1>4 DEF TakeLabel, NextLabel, Exhausted, FlagInv, ScanInv, WaitInv, EqualInv
<1>5. ASSUME NEW t \in Threads, SkipSelf(t) PROVE AheadInv'
  <2> SUFFICES ASSUME NEW x \in Threads, NEW u \in ahead[x]
               PROVE  u # x /\ Waiting(u)' /\ pc'[x] # "rem" /\ Later(u, x)'
    BY <1>5 DEF SkipSelf
  <2>1. u \in Threads /\ u # x /\ Waiting(u) /\ pc[x] # "rem" /\ Later(u, x)
    OBVIOUS
  <2>2. idx[t] # N => idx[t] \in Threads
    BY IndexIsThread
  <2>3. CASE x = t
    BY <1>5, <2>1, <2>2, <2>3, SMTT(30) DEF SkipSelf, FlagInv
  <2>4. CASE x # t
    BY <1>5, <2>1, <2>2, <2>4 DEF SkipSelf
  <2>. QED
    BY <2>3, <2>4
<1>6. ASSUME NEW t \in Threads, ReadFlag(t) PROVE AheadInv'
  <2> SUFFICES ASSUME NEW x \in Threads, NEW u \in ahead[x]
               PROVE  u # x /\ Waiting(u)' /\ pc'[x] # "rem" /\ Later(u, x)'
    BY <1>6 DEF ReadFlag
  <2>1. u \in Threads /\ u # x /\ Waiting(u) /\ pc[x] # "rem" /\ Later(u, x)
    OBVIOUS
  <2>2. idx[t] # N => idx[t] \in Threads
    BY IndexIsThread
  <2>3. CASE x = t
    <3>1. Waiting(t) /\ idx[t] \in Threads
      BY <1>6, <2>2 DEF ReadFlag
    <3>2. idx[t] = u => flag[u]
      BY <2>1 DEF FlagInv
    <3>3. idx'[t] <= u
      <4>1. idx[t] \in Nat /\ u \in Nat /\ idx[t] <= u
        BY <2>1, <2>3, <3>1
      <4>2. idx'[t] = idx[t] \/ (idx'[t] = idx[t] + 1 /\ idx[t] # u)
        BY <1>6, <2>3, <3>1, <3>2 DEF ReadFlag
      <4>. QED
        BY <4>1, <4>2
    <3>. QED
      BY <1>6, <2>1, <2>3, <3>1, <3>3 DEF ReadFlag
  <2>4. CASE x # t
    BY <1>6, <2>1, <2>2, <2>4 DEF ReadFlag
  <2>. QED
    BY <2>3, <2>4
<1>7. ASSUME NEW t \in Threads, ReadLess(t) PROVE AheadInv'
  BY <1>7 DEF ReadLess, FlagInv, ScanInv, WaitInv, EqualInv
<1>8. ASSUME NEW t \in Threads, ReadEqual(t) PROVE AheadInv'
  BY <1>8, SMTT(30) DEF ReadEqual, Tie, FlagInv, ScanInv, WaitInv, EqualInv
<1>9. ASSUME NEW t \in Threads, EnterCS(t) PROVE AheadInv'
  BY <1>9 DEF EnterCS, FlagInv, ScanInv, WaitInv, EqualInv
<1>10. ASSUME NEW t \in Threads, LoadWaitTime(t) PROVE AheadInv'
  BY <1>10 DEF LoadWaitTime, FlagInv, ScanInv, WaitInv, EqualInv
<1>11. ASSUME NEW t \in Threads, StoreWaitTime(t) PROVE AheadInv'
  BY <1>11 DEF StoreWaitTime, FlagInv, ScanInv, WaitInv, EqualInv
<1>12. ASSUME NEW t \in Threads, Unlock(t) PROVE AheadInv'
  BY <1>12 DEF Unlock, LowerFlag, FlagInv, ScanInv, WaitInv, EqualInv
<1>13. CASE UNCHANGED vars
  BY <1>13 DEF vars
<1>. QED
  BY <1>1, <1>2, <1>3, <1>4, <1>5, <1>6, <1>7, <1>8, <1>9, <1>10, <1>11, <1>12, <1>13 DEF Next, Thread, Over

\* Between the load and the store of wait_time nobody else stores.
LEMMA TmpStep == ASSUME IInv, [Next]_vars PROVE TmpInv'
<1>1. MutualExclusion
  BY Exclusion
<1> USE DEF TypeOK, IInv, TmpInv
<1>2. ASSUME NEW t \in Threads, LoadWaitTime(t) PROVE TmpInv'
  BY <1>2 DEF LoadWaitTime
<1>3. ASSUME NEW t \in Threads, StoreWaitTime(t) PROVE TmpInv'
  BY <1>1, <1>3 DEF StoreWaitTime, MutualExclusion, InCS
<1>4. CASE UNCHANGED <<tmp, wait_time>> /\ \E t \in Threads : Thread(t)
  BY <1>4 DEF Thread, RaiseFlag, ScanLabel, Overflow, TakeLabel, NextLabel, Exhausted, SkipSelf,
              ReadFlag, ReadLess, ReadEqual, Tie, EnterCS, LoadWaitTime,
              StoreWaitTime, Unlock, LowerFlag
<1>5. CASE UNCHANGED vars
  BY <1>5 DEF vars
<1>. QED
  BY <1>2, <1>3, <1>4, <1>5
  DEF Next, Over, Thread, RaiseFlag, ScanLabel, Overflow, TakeLabel, NextLabel, Exhausted, SkipSelf,
      ReadFlag, ReadLess, ReadEqual, Tie, EnterCS, Unlock, LowerFlag

-----------------------------------------------------------------------------
\* The inductive invariant holds in every reachable state of the threads of
\* b.cpp, for every number of threads and iterations.
THEOREM BakeryInvariant == Spec => []IInv
<1>1. Init => IInv
  <2>1. Init => TypeOK
    <3>1. 0 \in 0 .. N /\ 0 \in 0 .. LabelMax /\ K \in 0 .. K /\ 0 \in Nat
      BY NAssumption, KAssumption, LabelAssumption
    <3>. QED
      BY <3>1 DEF Init, TypeOK
  <2>2. Init => FlagInv /\ ScanInv /\ WaitInv /\ EqualInv /\ TmpInv /\ LeftInv
    BY DEF Init, FlagInv, ScanInv, WaitInv, EqualInv, TmpInv, LeftInv
  <2>3. Init => OrderInv /\ AheadInv
    BY DEF Init, OrderInv, AheadInv, Passed, Waiting, InCS
  <2>. QED
    BY <2>1, <2>2, <2>3 DEF IInv
<1>2. IInv /\ [Next]_vars => IInv'
  BY TypeStep, LocalStep, OrderStep, AheadStep, TmpStep DEF IInv
<1>. QED
  BY <1>1, <1>2, PTL DEF Spec

\* Lock admits one thread at a time and no label ever passes INT64_MAX, for
\* every n and k.
THEOREM BakerySafety == Spec => []Safety
<1>1. IInv => TypeOK
  BY DEF IInv
<1>2. IInv => MutualExclusion
  BY Exclusion
<1>3. IInv => Safety
  BY <1>1, <1>2 DEF Safety
<1>. QED
  BY <1>3, BakeryInvariant, PTL

\* Lock serves threads in the order in which they took their labels.
THEOREM BakeryFCFS == Spec => []FirstComeFirstServed
<1>1. IInv => FirstComeFirstServed
  <2> SUFFICES ASSUME IInv, NEW t \in Threads, InCS(t), ahead[t] # {}
               PROVE  FALSE
    BY DEF FirstComeFirstServed
  <2>1. PICK u \in ahead[t] : Later(u, t)
    BY DEF IInv, AheadInv
  <2>. QED
    BY <2>1 DEF Later, InCS, Waiting
<1>. QED
  BY <1>1, BakeryInvariant, PTL

\* The threads of b.cpp implement the abstract mutex: critical sections
\* exclude each other and every update of wait_time takes effect.
THEOREM BakeryImplementsMutex == Spec => ImplementsMutex
<1>1. Init => Abstract!Init
  BY DEF Init, Abstract!Init, Phase
<1>2. IInv /\ [Next]_vars => [Abstract!Next]_<<Phase, wait_time>>
  <2> SUFFICES ASSUME IInv, [Next]_vars
               PROVE  [Abstract!Next]_<<Phase, wait_time>>
    OBVIOUS
  <2> USE DEF IInv, TypeOK
  <2>1. ASSUME NEW t \in Threads, RaiseFlag(t)
        PROVE  Abstract!Request(t)
    BY <2>1 DEF RaiseFlag, Phase, Abstract!Request
  <2>2. ASSUME NEW t \in Threads, EnterCS(t)
        PROVE  Abstract!Enter(t)
    <3>1. \A u \in Threads : ~ InCS(u)
      <4> SUFFICES ASSUME NEW u \in Threads, InCS(u) PROVE FALSE
        OBVIOUS
      <4>1. u # t /\ Passed(t, u)
        BY <2>2, ThreadsAreNat DEF EnterCS, InCS, Passed, Waiting
      <4>. QED
        BY <4>1 DEF OrderInv, Later, InCS, Waiting
    <3>2. \A u \in Threads : ~ Abstract!Inside(u)
      BY <3>1 DEF InCS, Phase, Abstract!Inside
    <3>3. Phase[t] = "try"
      BY <2>2 DEF EnterCS, Phase
    <3>4. Phase' = [Phase EXCEPT ![t] = "cs"]
      BY <2>2 DEF EnterCS, Phase
    <3>. QED
      BY <2>2, <3>2, <3>3, <3>4 DEF EnterCS, Abstract!Enter
  <2>3. ASSUME NEW t \in Threads, StoreWaitTime(t)
        PROVE  Abstract!Work(t)
    BY <2>3 DEF StoreWaitTime, TmpInv, Phase, Abstract!Work
  <2>4. ASSUME NEW t \in Threads, Unlock(t)
        PROVE  Abstract!Leave(t)
    BY <2>4 DEF Unlock, LowerFlag, Phase, Abstract!Leave
  <2>5. ASSUME NEW t \in Threads,
               \/ ScanLabel(t) \/ Overflow(t) \/ TakeLabel(t) \/ SkipSelf(t)
               \/ ReadFlag(t) \/ ReadLess(t) \/ ReadEqual(t) \/ LoadWaitTime(t)
        PROVE  UNCHANGED <<Phase, wait_time>>
    BY <2>5 DEF ScanLabel, Overflow, TakeLabel, NextLabel, Exhausted, SkipSelf, ReadFlag, ReadLess,
                ReadEqual, Tie, LoadWaitTime, Phase
  <2>6. CASE UNCHANGED vars
    BY <2>6 DEF vars, Phase
  <2>. QED
    BY <2>1, <2>2, <2>3, <2>4, <2>5, <2>6 DEF Next, Thread, Over, Abstract!Next
<1>. QED
  BY <1>1, <1>2, BakeryInvariant, PTL
  DEF Spec, ImplementsMutex, Abstract!Spec, Abstract!mvars

-----------------------------------------------------------------------------
(* Labels and acquisitions.                                                *)

LabelInv == \A t \in Threads :
              /\ label[t] <= Cardinality(Acquisitions)
              /\ pc[t] = "scan" => maxLabel[t] <= Cardinality(Acquisitions)

LEMMA AcquisitionsAreFinite ==
  IsFiniteSet(Acquisitions) /\ Cardinality(Acquisitions) \in Nat
<1>1. 0 \in Int /\ N - 1 \in Int /\ 1 \in Int /\ K \in Int
  BY NAssumption, KAssumption
<1>2. IsFiniteSet(Threads) /\ IsFiniteSet(1 .. K)
  BY <1>1, FS_Interval DEF Threads
<1>3. IsFiniteSet(Threads \X (1 .. K))
  BY <1>2, FS_Product
<1>4. Acquisitions \subseteq Threads \X (1 .. K)
  BY DEF Acquisitions
<1>5. IsFiniteSet(Acquisitions)
  BY <1>3, <1>4, FS_Subset
<1>. QED
  BY <1>5, FS_CardinalityType

LEMMA AcquisitionsStay ==
  ASSUME \A t \in Threads : Taken(t)' = Taken(t)
  PROVE  Cardinality(Acquisitions)' = Cardinality(Acquisitions)
<1>1. Acquisitions' = Acquisitions
  BY DEF Acquisitions
<1>. QED
  BY <1>1

LEMMA OneMoreAcquisition ==
  ASSUME NEW t \in Threads, Taken(t) \in 0 .. K - 1, Taken(t)' = Taken(t) + 1,
         \A u \in Threads : u # t => Taken(u)' = Taken(u)
  PROVE  Cardinality(Acquisitions)' = Cardinality(Acquisitions) + 1
<1>. DEFINE n == Taken(t) + 1
            new == <<t, n>>
<1>1. n \in 1 .. K /\ \A k \in 1 .. K : k <= n <=> k <= Taken(t) \/ k = n
  BY KAssumption
<1>2. ~ (n <= Taken(t))
  BY <1>1
<1>3. Taken(t)' = n
  OBVIOUS
<1>. HIDE DEF n
<1>4. \A u \in Threads : \A k \in 1 .. K :
        <<u, k>> \in Acquisitions' <=> <<u, k>> \in Acquisitions \/ (u = t /\ k = n)
  BY <1>1, <1>3 DEF Acquisitions
<1>5. Acquisitions' = Acquisitions \cup {new}
  BY <1>1, <1>4 DEF Acquisitions
<1>6. new \notin Acquisitions
  BY <1>2 DEF Acquisitions
<1>. QED
  BY <1>5, <1>6, AcquisitionsAreFinite, FS_AddElement

LEMMA LabelStep == ASSUME IInv, LabelInv, [Next]_vars PROVE LabelInv'
<1>. USE NAssumption, KAssumption, AcquisitionsAreFinite DEF IInv, TypeOK
<1>. DEFINE Same == \A t \in Threads : Taken(t)' = Taken(t)
<1>0. ASSUME Same, UNCHANGED label,
             \A t \in Threads : pc'[t] = "scan" =>
               \/ pc[t] = "scan" /\ maxLabel'[t] = maxLabel[t]
               \/ maxLabel'[t] = 0
               \/ \E u \in Threads : maxLabel'[t] = label[u]
      PROVE  LabelInv'
  <2>1. Cardinality(Acquisitions)' = Cardinality(Acquisitions)
    BY <1>0, AcquisitionsStay
  <2>. QED
    BY <1>0, <2>1 DEF LabelInv
<1>1. ASSUME NEW t \in Threads, RaiseFlag(t) PROVE LabelInv'
  <2>1. Same
    BY <1>1 DEF RaiseFlag, Taken, Waiting, InCS
  <2>. QED
    BY <1>0, <1>1, <2>1 DEF RaiseFlag
<1>2. ASSUME NEW t \in Threads, ScanLabel(t) PROVE LabelInv'
  <2>1. Same
    BY <1>2 DEF ScanLabel, Taken, Waiting, InCS
  <2>2. idx[t] \in Threads
    BY <1>2, IndexIsThread DEF ScanLabel
  <2>. QED
    BY <1>0, <1>2, <2>1, <2>2 DEF ScanLabel
<1>3. ASSUME NEW t \in Threads, TakeLabel(t) PROVE LabelInv'
  <2>1. Taken(t) \in 0 .. K - 1 /\ Taken(t)' = Taken(t) + 1
    BY <1>3 DEF TakeLabel, Taken, Waiting, InCS, LeftInv
  <2>2. \A u \in Threads : u # t => Taken(u)' = Taken(u)
    BY <1>3 DEF TakeLabel, Taken, Waiting, InCS
  <2>3. Cardinality(Acquisitions)' = Cardinality(Acquisitions) + 1
    BY <2>1, <2>2, OneMoreAcquisition
  <2>4. label'[t] = maxLabel[t] + 1 /\ maxLabel[t] <= Cardinality(Acquisitions)
    BY <1>3 DEF TakeLabel, NextLabel, LabelInv
  <2>5. \A u \in Threads : u # t => label'[u] = label[u]
    BY <1>3 DEF TakeLabel
  <2>6. \A u \in Threads : pc'[u] = "scan" => pc[u] = "scan" /\ maxLabel'[u] = maxLabel[u]
    BY <1>3 DEF TakeLabel
  <2>. HIDE DEF IInv
  <2>7. label \in [Threads -> Int] /\ maxLabel \in [Threads -> Int]
    BY DEF IInv
  <2>. QED
    BY <2>3, <2>4, <2>5, <2>6, <2>7 DEF LabelInv
<1>4. ASSUME NEW t \in Threads,
             SkipSelf(t) \/ ReadFlag(t) \/ ReadLess(t) \/ ReadEqual(t) \/ EnterCS(t)
      PROVE  LabelInv'
  <2>1. /\ UNCHANGED <<label, maxLabel, left>>
        /\ \A u \in Threads : pc'[u] # pc[u] => Waiting(u) /\ (Waiting(u)' \/ InCS(u)')
    BY <1>4 DEF SkipSelf, ReadFlag, ReadLess, ReadEqual, EnterCS, Waiting, InCS
  <2>2. Same
    BY <2>1 DEF Taken, Waiting, InCS
  <2>. QED
    BY <1>0, <2>1, <2>2 DEF Waiting, InCS
<1>5. ASSUME NEW t \in Threads, LoadWaitTime(t) \/ StoreWaitTime(t) PROVE LabelInv'
  <2>1. /\ UNCHANGED <<label, maxLabel, left>>
        /\ \A u \in Threads : pc'[u] # pc[u] => InCS(u) /\ InCS(u)'
    BY <1>5 DEF LoadWaitTime, StoreWaitTime, InCS
  <2>2. Same
    BY <2>1 DEF Taken, Waiting, InCS
  <2>. QED
    BY <1>0, <2>1, <2>2 DEF Waiting, InCS
<1>6. ASSUME NEW t \in Threads, Unlock(t) PROVE LabelInv'
  <2>1. Same
    BY <1>6 DEF Unlock, Taken, Waiting, InCS
  <2>. QED
    BY <1>0, <1>6, <2>1 DEF Unlock
<1>7. CASE UNCHANGED vars \/ \E t \in Threads : Overflow(t)
  <2>1. UNCHANGED <<label, maxLabel, left, pc>>
    BY <1>7 DEF vars, Overflow
  <2>2. Same
    BY <2>1 DEF Taken, Waiting, InCS
  <2>. QED
    BY <1>0, <2>1, <2>2
<1>. QED
  BY <1>1, <1>2, <1>3, <1>4, <1>5, <1>6, <1>7 DEF Next, Thread, Over

\* No label is larger than the number of times the threads have taken one, so
\* Lock calls exit only after INT64_MAX acquisitions, for every n and k.
THEOREM BakeryLabels == Spec => []LabelsCountAcquisitions
<1>1. Init => LabelInv
  <2>1. Cardinality(Acquisitions) \in Nat
    BY AcquisitionsAreFinite
  <2>. QED
    BY <2>1 DEF Init, LabelInv
<1>2. LabelInv => LabelsCountAcquisitions
  BY DEF LabelInv, LabelsCountAcquisitions
<1>. QED
  BY <1>1, <1>2, BakeryInvariant, LabelStep, PTL DEF Spec

\* What is proved of the bakery threads alone holds in b.cpp: main runs them
\* after the filter threads, whose steps leave their variables alone.
THEOREM MainRunsBakery == MainSpec => Spec
<1>1. MainInit => Init
  BY DEF MainInit
<1>2. [MainNext]_mainVars => [Next]_vars
  BY DEF MainNext, MainThread, FilterThread, CreateBakeryThreads, BakeryThread, MainReturns,
     mainVars, Next, vars
<1>. QED
  BY <1>1, <1>2, PTL DEF MainSpec, Spec

-----------------------------------------------------------------------------
(* The filter lock.  The waiting loop asks the other threads one by one,   *)
(* so the invariant speaks of the threads each thread has asked so far.    *)

Asking(t) == fPc[t] \in {"rlevel", "rvictim"}

\* u takes part in level l: it has written itself into victim[l] and has not
\* left the lock since.
Settled(u, l) == Filter!Past(u, l) \/ (Asking(u) /\ fi[u] = l)

\* The waiting loop of t for level l is done with thread u.
Asked(t, l, u) == Filter!Past(t, l) \/ (Asking(t) /\ fi[t] = l /\ u < fj[t])

PastSet(l) == {t \in Filter!Threads : Filter!Past(t, l)}

CountPast(l) == Cardinality(PastSet(l))

\* What t has written to level; the index of its inner loop is another thread.
LevelOf(t) ==
  /\ fPc[t] = "rem" => level[t] = 0
  /\ fPc[t] = "level" => fi[t] \in 1 .. N /\ level[t] = fi[t] - 1
  /\ fPc[t] \in {"victim", "rlevel", "rvictim"} =>
       fi[t] \in 1 .. N - 1 /\ level[t] = fi[t]
  /\ fPc[t] = "rvictim" => fj[t] \in Filter!Threads \ {t}
  /\ Filter!InCS(t) => level[t] = N - 1
LevelInv == \A t \in Filter!Threads : LevelOf(t)

\* Who is done with u at a level u takes part in is not the victim there: u
\* came later and wrote itself into victim[l], or somebody else did.
VictimInv ==
  \A l \in 1 .. N - 1 : \A t, u \in Filter!Threads :
    t # u /\ Asked(t, l, u) /\ Settled(u, l) => victim[l] # t

\* A level that holds anybody holds its victim.
HeldInv ==
  \A l \in 1 .. N - 1 :
    (\E u \in Filter!Threads : Settled(u, l)) =>
       \E v \in Filter!Threads : victim[l] = v /\ Settled(v, l)

\* The narrowing of the levels, as the module of the lock states it.
Narrows == \A l \in 0 .. N - 1 : CountPast(l) <= N - l

FilterTmpInv  == \A t \in Filter!Threads : fPc[t] = "store" => fTmp[t] = fTotal
FilterLeftInv == \A t \in Filter!Threads : fPc[t] # "rem" => fLeft[t] > 0

FilterInv == /\ Filter!TypeOK /\ LevelInv /\ VictimInv /\ HeldInv /\ Narrows /\ FilterLeftInv

-----------------------------------------------------------------------------
\* Both halves of the program have the same threads.
LEMMA SameThreads == Filter!Threads = Threads
  BY DEF Filter!Threads, Threads

\* The number of threads and of iterations.
LEMMA Consts == N \in Nat \ {0} /\ K \in Nat
  BY NAssumption, KAssumption

\* A thread is its index, smaller than the number of threads.
LEMMA FilterThreadsAreNat == \A t \in Filter!Threads : t \in Nat /\ t < N
  BY Consts DEF Filter!Threads

\* A loop index that has not reached N is a thread.
LEMMA FilterIndexIsThread == \A x \in 0 .. N : x # N => x \in Filter!Threads
  BY Consts DEF Filter!Threads

\* How the filter half can change.
LEMMA FilterMoves ==
  ASSUME [MainNext]_mainVars
  PROVE  \/ \E t \in Filter!Threads : Filter!Thread(t)
         \/ CreateBakeryThreads
         \/ UNCHANGED filterVars
  BY SameThreads DEF MainNext, MainThread, FilterThread, BakeryThread, MainReturns, mainVars

\* Every step of a filter thread preserves the types.
LEMMA FilterTypeStep ==
  ASSUME Filter!TypeOK, LevelInv, FilterLeftInv, NEW t \in Filter!Threads, Filter!Thread(t)
  PROVE  Filter!TypeOK'
<1> USE Consts DEF Filter!TypeOK
<1>a. LevelOf(t) /\ (fPc[t] # "rem" => fLeft[t] > 0)
  BY DEF LevelInv, FilterLeftInv
<1>1. CASE Filter!CallLock(t)
  BY <1>1 DEF Filter!CallLock
<1>2. CASE Filter!SetLevel(t)
  <2>1. fi[t] \in 0 .. N - 1
    BY <1>a, <1>2 DEF Filter!SetLevel, Filter!LastLevel, LevelOf
  <2>. QED
    BY <1>2, <2>1 DEF Filter!SetLevel
<1>3. CASE Filter!SetVictim(t)
  <2>1. fi[t] \in 1 .. N - 1
    BY <1>a, <1>3 DEF Filter!SetVictim, LevelOf
  <2>2. victim' \in [1 .. N - 1 -> Filter!Threads \cup {Filter!Nobody}]
    BY <1>3, <2>1 DEF Filter!SetVictim, Filter!Contested
  <2>. QED
    BY <1>3, <2>2 DEF Filter!SetVictim
<1>4. CASE Filter!SkipSelf(t)
  <2>1. fj[t] + 1 \in 0 .. N
    BY <1>4, FilterThreadsAreNat DEF Filter!SkipSelf
  <2>. QED
    BY <1>4, <2>1 DEF Filter!SkipSelf
<1>5. CASE Filter!ReadLevel(t)
  <2>1. fj[t] + 1 \in 0 .. N
    BY <1>5 DEF Filter!ReadLevel
  <2>. QED
    BY <1>5, <2>1 DEF Filter!ReadLevel
<1>6. CASE Filter!ReadVictim(t)
  <2>1. fj[t] + 1 \in 0 .. N
    BY <1>a, <1>6, FilterThreadsAreNat DEF Filter!ReadVictim, LevelOf
  <2>. QED
    BY <1>6, <2>1 DEF Filter!ReadVictim
<1>7. CASE Filter!NextLevel(t)
  <2>1. fi[t] + 1 \in 0 .. N
    BY <1>a, <1>7 DEF Filter!NextLevel, LevelOf
  <2>. QED
    BY <1>7, <2>1 DEF Filter!NextLevel
<1>8. CASE Filter!EnterCS(t)
  BY <1>8 DEF Filter!EnterCS
<1>9. CASE Filter!LoadWaitTime(t)
  BY <1>9 DEF Filter!LoadWaitTime
<1>10. CASE Filter!StoreWaitTime(t)
  BY <1>10, SMTT(30) DEF Filter!StoreWaitTime
<1>11. CASE Filter!Unlock(t)
  <2>1. fLeft[t] - 1 \in 0 .. K
    BY <1>a, <1>11 DEF Filter!Unlock
  <2>2. level' \in [Filter!Threads -> 0 .. N - 1]
    BY <1>11 DEF Filter!Unlock, Filter!Descend
  <2>. QED
    BY <1>11, <2>1, <2>2 DEF Filter!Unlock
<1>. QED
  BY <1>1, <1>2, <1>3, <1>4, <1>5, <1>6, <1>7, <1>8, <1>9, <1>10, <1>11 DEF Filter!Thread

\* A step of t leaves the control point and the local variables of the others.
LEMMA OthersStay ==
  ASSUME Filter!TypeOK, NEW t \in Filter!Threads, Filter!Thread(t),
         NEW u \in Filter!Threads, u # t
  PROVE  /\ fPc'[u] = fPc[u] /\ fi'[u] = fi[u] /\ fj'[u] = fj[u]
         /\ level'[u] = level[u] /\ fLeft'[u] = fLeft[u] /\ fTmp'[u] = fTmp[u]
  BY DEF Filter!TypeOK, Filter!Thread, Filter!CallLock, Filter!SetLevel, Filter!SetVictim,
         Filter!SkipSelf, Filter!ReadLevel, Filter!ReadVictim, Filter!NextLevel,
         Filter!EnterCS, Filter!LoadWaitTime, Filter!StoreWaitTime, Filter!Unlock,
         Filter!Descend

\* Every step keeps level in agreement with the control point.
LEMMA LevelStep ==
  ASSUME Filter!TypeOK, LevelInv, FilterLeftInv, NEW t \in Filter!Threads, Filter!Thread(t)
  PROVE  LevelInv' /\ FilterLeftInv'
<1> USE Consts DEF Filter!TypeOK, Filter!InCS
<1>a. LevelOf(t) /\ (fPc[t] # "rem" => fLeft[t] > 0)
  BY DEF LevelInv, FilterLeftInv
<1>0. ASSUME NEW u \in Filter!Threads, u # t
      PROVE  LevelOf(u)' /\ (fPc'[u] # "rem" => fLeft'[u] > 0)
  <2>1. LevelOf(u) /\ (fPc[u] # "rem" => fLeft[u] > 0)
    BY DEF LevelInv, FilterLeftInv
  <2>2. /\ fPc'[u] = fPc[u] /\ fi'[u] = fi[u] /\ fj'[u] = fj[u]
        /\ level'[u] = level[u] /\ fLeft'[u] = fLeft[u]
    BY <1>0, OthersStay
  <2>. QED
    BY <2>1, <2>2 DEF LevelOf
<1> SUFFICES LevelOf(t)' /\ (fPc'[t] # "rem" => fLeft'[t] > 0)
  BY <1>0 DEF LevelInv, FilterLeftInv
<1>1. CASE Filter!CallLock(t)
  BY <1>a, <1>1 DEF Filter!CallLock, LevelOf
<1>2. CASE Filter!SetLevel(t)
  BY <1>a, <1>2 DEF Filter!SetLevel, Filter!LastLevel, LevelOf
<1>3. CASE Filter!SetVictim(t)
  BY <1>a, <1>3 DEF Filter!SetVictim, Filter!Contested, LevelOf
<1>4. CASE Filter!SkipSelf(t)
  BY <1>a, <1>4 DEF Filter!SkipSelf, LevelOf
<1>5. CASE Filter!ReadLevel(t)
  BY <1>a, <1>5, FilterIndexIsThread DEF Filter!ReadLevel, LevelOf
<1>6. CASE Filter!ReadVictim(t)
  BY <1>a, <1>6 DEF Filter!ReadVictim, LevelOf
<1>7. CASE Filter!NextLevel(t)
  <2>1. fi[t] \in 1 .. N - 1 /\ level'[t] = fi[t] /\ fi'[t] = fi[t] + 1 /\ fPc'[t] = "level"
        /\ fLeft'[t] > 0
    BY <1>a, <1>7 DEF Filter!NextLevel, LevelOf
  <2>. QED
    BY <2>1 DEF LevelOf
<1>8. CASE Filter!EnterCS(t)
  <2>1. fi[t] \in 1 .. N /\ level[t] = fi[t] - 1 /\ fi[t] > N - 1
    BY <1>a, <1>8 DEF Filter!EnterCS, Filter!LastLevel, LevelOf
  <2>2. level'[t] = N - 1 /\ fPc'[t] = "cs" /\ fLeft'[t] > 0
    BY <1>a, <1>8, <2>1 DEF Filter!EnterCS
  <2>. QED
    BY <2>2 DEF LevelOf
<1>9. CASE Filter!LoadWaitTime(t) \/ Filter!StoreWaitTime(t)
  BY <1>a, <1>9 DEF Filter!LoadWaitTime, Filter!StoreWaitTime, LevelOf
<1>10. CASE Filter!Unlock(t)
  BY <1>a, <1>10 DEF Filter!Unlock, Filter!Descend, LevelOf
<1>. QED
  BY <1>1, <1>2, <1>3, <1>4, <1>5, <1>6, <1>7, <1>8, <1>9, <1>10 DEF Filter!Thread

\* Who takes part in level l has written at least l to level.
LEMMA SettledIsHigh ==
  ASSUME Filter!TypeOK, LevelInv,
         NEW l \in 1 .. N - 1, NEW u \in Filter!Threads, Settled(u, l)
  PROVE  level[u] >= l
<1>1. LevelOf(u)
  BY DEF LevelInv
<1>. QED
  BY <1>1, Consts DEF Filter!TypeOK, LevelOf, Settled, Asking, Filter!Past, Filter!Climbing,
     Filter!InCS

\* A step takes part in a level only by writing victim, and leaves it only by
\* unlocking; of the other threads it changes nothing.
LEMMA SettledMoves ==
  ASSUME Filter!TypeOK, LevelInv, NEW t \in Filter!Threads, Filter!Thread(t),
         NEW l \in 1 .. N - 1, NEW u \in Filter!Threads
  PROVE  /\ Settled(u, l)' /\ ~ Settled(u, l) =>
              u = t /\ l = fi[t] /\ Filter!SetVictim(t)
         /\ Settled(u, l) /\ ~ Settled(u, l)' => u = t /\ Filter!Unlock(t)
         /\ Filter!Unlock(t) => ~ Settled(t, l)' /\ Filter!Past(t, l)
<1> USE Consts DEF Filter!TypeOK, Settled, Asking, Filter!Past, Filter!Climbing, Filter!InCS
<1>a. LevelOf(t)
  BY DEF LevelInv
<1>b. u # t => (Settled(u, l)' <=> Settled(u, l))
  BY OthersStay
<1>0. Filter!Unlock(t) => ~ Settled(t, l)' /\ Filter!Past(t, l)
  BY DEF Filter!Unlock
<1>1. CASE Filter!CallLock(t)
  BY <1>b, <1>0, <1>1 DEF Filter!CallLock
<1>2. CASE Filter!SetLevel(t)
  BY <1>b, <1>0, <1>2 DEF Filter!SetLevel
<1>3. CASE Filter!SetVictim(t)
  BY <1>b, <1>0, <1>3 DEF Filter!SetVictim
<1>4. CASE Filter!SkipSelf(t) \/ Filter!ReadLevel(t) \/ Filter!ReadVictim(t)
  BY <1>b, <1>0, <1>4 DEF Filter!SkipSelf, Filter!ReadLevel, Filter!ReadVictim
<1>5. CASE Filter!NextLevel(t)
  BY <1>b, <1>0, <1>5 DEF Filter!NextLevel
<1>6. CASE Filter!EnterCS(t)
  BY <1>b, <1>0, <1>6 DEF Filter!EnterCS, Filter!LastLevel
<1>7. CASE Filter!LoadWaitTime(t) \/ Filter!StoreWaitTime(t)
  BY <1>b, <1>0, <1>7 DEF Filter!LoadWaitTime, Filter!StoreWaitTime
<1>8. CASE Filter!Unlock(t)
  BY <1>b, <1>0, <1>8
<1>. QED
  BY <1>1, <1>2, <1>3, <1>4, <1>5, <1>6, <1>7, <1>8 DEF Filter!Thread

\* A step is done with one more thread only when that thread does not take
\* part in the level or the level has another victim.
LEMMA AskedMoves ==
  ASSUME Filter!TypeOK, LevelInv, NEW t \in Filter!Threads, Filter!Thread(t),
         NEW l \in 1 .. N - 1, NEW x \in Filter!Threads, NEW u \in Filter!Threads,
         x # u, Asked(x, l, u)', ~ Asked(x, l, u)
  PROVE  x = t /\ l = fi[t] /\ victim' = victim /\ (~ Settled(u, l) \/ victim[l] # t)
<1> USE Consts DEF Filter!TypeOK, Asked, Asking, Filter!Past, Filter!Climbing, Filter!InCS
<1>a. LevelOf(t)
  BY DEF LevelInv
<1>b. x = t
  BY OthersStay
<1>c. t \in Nat /\ u \in Nat /\ u < N
  BY FilterThreadsAreNat
<1>1. CASE Filter!CallLock(t)
  BY <1>b, <1>1 DEF Filter!CallLock
<1>2. CASE Filter!SetLevel(t)
  BY <1>b, <1>2 DEF Filter!SetLevel
<1>3. CASE Filter!SetVictim(t)
  BY <1>b, <1>c, <1>3 DEF Filter!SetVictim
<1>4. CASE Filter!SkipSelf(t)
  BY <1>b, <1>c, <1>4 DEF Filter!SkipSelf
<1>5. CASE Filter!ReadLevel(t)
  <2>1. l = fi[t] /\ u = fj[t] /\ victim' = victim /\ ~ Filter!Above(t, u)
    BY <1>b, <1>c, <1>5, SMTT(30) DEF Filter!ReadLevel
  <2>2. ~ (level[u] >= l)
    BY <2>1 DEF Filter!Above
  <2>3. ~ Settled(u, l)
    BY <2>2, SettledIsHigh, Filter!TypeOK, LevelInv, l \in 1 .. N - 1, u \in Filter!Threads
  <2>. QED
    BY <1>b, <2>1, <2>3
<1>6. CASE Filter!ReadVictim(t)
  BY <1>b, <1>c, <1>6 DEF Filter!ReadVictim
<1>7. CASE Filter!NextLevel(t)
  BY <1>b, <1>c, <1>7, SMTT(30) DEF Filter!NextLevel
<1>8. CASE Filter!EnterCS(t)
  BY <1>b, <1>8 DEF Filter!EnterCS, Filter!LastLevel
<1>9. CASE Filter!LoadWaitTime(t) \/ Filter!StoreWaitTime(t)
  BY <1>b, <1>9 DEF Filter!LoadWaitTime, Filter!StoreWaitTime
<1>10. CASE Filter!Unlock(t)
  BY <1>b, <1>10 DEF Filter!Unlock
<1>. QED
  BY <1>1, <1>2, <1>3, <1>4, <1>5, <1>6, <1>7, <1>8, <1>9, <1>10 DEF Filter!Thread

\* Only SetVictim writes victim.
LEMMA VictimMoves ==
  ASSUME Filter!TypeOK, LevelInv, NEW t \in Filter!Threads, Filter!Thread(t),
         NEW l \in 1 .. N - 1
  PROVE  IF Filter!SetVictim(t) /\ l = fi[t] THEN victim'[l] = t ELSE victim'[l] = victim[l]
<1>1. CASE Filter!SetVictim(t)
  <2>1. fi[t] \in 1 .. N - 1
    BY <1>1 DEF Filter!SetVictim, LevelInv, LevelOf
  <2>. QED
    BY <1>1, <2>1 DEF Filter!SetVictim, Filter!Contested, Filter!TypeOK
<1>2. ~ Filter!SetVictim(t) => victim' = victim
  BY DEF Filter!Thread, Filter!CallLock, Filter!SetLevel, Filter!SkipSelf, Filter!ReadLevel,
         Filter!ReadVictim, Filter!NextLevel, Filter!EnterCS, Filter!LoadWaitTime,
         Filter!StoreWaitTime, Filter!Unlock
<1>. QED
  BY <1>1, <1>2

\* Nobody is done with anybody at the level it has just entered.
LEMMA FreshVictim ==
  ASSUME Filter!TypeOK, LevelInv, NEW t \in Filter!Threads, Filter!SetVictim(t),
         NEW u \in Filter!Threads, NEW l, l = fi[t]
  PROVE  ~ Asked(t, l, u)'
<1>1. fi[t] \in 1 .. N - 1 /\ u \in Nat
  BY FilterThreadsAreNat DEF Filter!SetVictim, LevelInv, LevelOf
<1>. QED
  BY <1>1, Consts DEF Filter!SetVictim, Asked, Asking, Filter!Past, Filter!Climbing,
     Filter!InCS, Filter!TypeOK

\* Every step preserves the two facts about victims.
LEMMA VictimStep ==
  ASSUME Filter!TypeOK, LevelInv, VictimInv, HeldInv,
         NEW t \in Filter!Threads, Filter!Thread(t)
  PROVE  VictimInv' /\ HeldInv'
<1>1. ASSUME NEW l \in 1 .. N - 1, NEW x \in Filter!Threads, NEW u \in Filter!Threads,
             x # u, Asked(x, l, u)', Settled(u, l)'
      PROVE  victim'[l] # x
  <2>1. CASE Filter!SetVictim(t) /\ l = fi[t]
    <3>1. victim'[l] = t
      BY <2>1, VictimMoves
    <3>. QED
      BY <1>1, <2>1, <3>1, FreshVictim
  <2>2. CASE ~ (Filter!SetVictim(t) /\ l = fi[t])
    <3>1. victim'[l] = victim[l] /\ Settled(u, l)
      BY <1>1, <2>2, VictimMoves, SettledMoves
    <3>2. CASE Asked(x, l, u)
      BY <1>1, <3>1, <3>2 DEF VictimInv
    <3>3. CASE ~ Asked(x, l, u)
      BY <1>1, <3>1, <3>3, AskedMoves
    <3>. QED
      BY <3>2, <3>3
  <2>. QED
    BY <2>1, <2>2
<1>2. ASSUME NEW l \in 1 .. N - 1, NEW u \in Filter!Threads, Settled(u, l)'
      PROVE  \E v \in Filter!Threads : victim'[l] = v /\ Settled(v, l)'
  <2>1. CASE Filter!SetVictim(t) /\ l = fi[t]
    <3>1. victim'[l] = t
      BY <2>1, VictimMoves
    <3>2. Settled(t, l)'
      BY <2>1 DEF Filter!SetVictim, Settled, Asking, Filter!TypeOK
    <3>. QED
      BY <3>1, <3>2
  <2>2. CASE ~ (Filter!SetVictim(t) /\ l = fi[t])
    <3>1. victim'[l] = victim[l] /\ Settled(u, l)
      BY <1>2, <2>2, VictimMoves, SettledMoves
    <3>2. PICK v \in Filter!Threads : victim[l] = v /\ Settled(v, l)
      BY <3>1 DEF HeldInv
    <3>3. Settled(v, l)'
      <4> SUFFICES ASSUME ~ Settled(v, l)' PROVE FALSE
        OBVIOUS
      <4>1. v = t /\ Filter!Past(t, l) /\ ~ Settled(t, l)'
        BY <3>2, SettledMoves
      <4>2. u # t /\ Asked(t, l, u)
        BY <1>2, <4>1 DEF Asked
      <4>. QED
        BY <3>1, <3>2, <4>1, <4>2 DEF VictimInv
    <3>. QED
      BY <3>1, <3>2, <3>3
  <2>. QED
    BY <2>1, <2>2
<1>3. VictimInv'
  BY <1>1 DEF VictimInv
<1>4. HeldInv'
  BY <1>2 DEF HeldInv
<1>. QED
  BY <1>3, <1>4

-----------------------------------------------------------------------------
\* The sets of threads past a level are finite.
LEMMA PastFinite ==
  ASSUME NEW S, S \subseteq Filter!Threads
  PROVE  IsFiniteSet(S) /\ Cardinality(S) \in Nat /\ Cardinality(S) <= N
<1>1. IsFiniteSet(Filter!Threads) /\ Cardinality(Filter!Threads) = N
  BY FS_Interval, Consts DEF Filter!Threads
<1>2. IsFiniteSet(S) /\ Cardinality(S) <= Cardinality(Filter!Threads)
  BY <1>1, FS_Subset
<1>. QED
  BY <1>1, <1>2, FS_CardinalityType

\* A thread gets past a level only by NextLevel, or to level 0 by calling Lock.
LEMMA PastMoves ==
  ASSUME Filter!TypeOK, LevelInv, NEW t \in Filter!Threads, Filter!Thread(t),
         NEW l \in 0 .. N - 1, NEW u \in Filter!Threads,
         Filter!Past(u, l)', ~ Filter!Past(u, l), l # 0
  PROVE  u = t /\ l = fi[t] /\ Filter!NextLevel(t)
<1> USE Consts DEF Filter!TypeOK, Filter!Past, Filter!Climbing, Filter!InCS
<1>a. u = t
  BY OthersStay
<1>1. CASE Filter!CallLock(t)
  BY <1>a, <1>1 DEF Filter!CallLock
<1>2. CASE Filter!SetLevel(t) \/ Filter!SetVictim(t)
  BY <1>a, <1>2 DEF Filter!SetLevel, Filter!SetVictim
<1>3. CASE Filter!SkipSelf(t) \/ Filter!ReadLevel(t) \/ Filter!ReadVictim(t)
  BY <1>a, <1>3 DEF Filter!SkipSelf, Filter!ReadLevel, Filter!ReadVictim
<1>4. CASE Filter!NextLevel(t)
  BY <1>a, <1>4 DEF Filter!NextLevel
<1>5. CASE Filter!EnterCS(t)
  BY <1>a, <1>5 DEF Filter!EnterCS, Filter!LastLevel
<1>6. CASE Filter!LoadWaitTime(t) \/ Filter!StoreWaitTime(t) \/ Filter!Unlock(t)
  BY <1>a, <1>6 DEF Filter!LoadWaitTime, Filter!StoreWaitTime, Filter!Unlock
<1>. QED
  BY <1>1, <1>2, <1>3, <1>4, <1>5, <1>6 DEF Filter!Thread

\* At a level that holds two threads the victim is not past it.
LEMMA VictimWaits ==
  ASSUME VictimInv, HeldInv, NEW l \in 1 .. N - 1,
         NEW t \in Filter!Threads, NEW u \in Filter!Threads,
         t # u, Settled(t, l), Settled(u, l)
  PROVE  \E v \in Filter!Threads : Settled(v, l) /\ ~ Filter!Past(v, l)
<1>1. PICK v \in Filter!Threads : victim[l] = v /\ Settled(v, l)
  BY DEF HeldInv
<1>2. ASSUME Filter!Past(v, l) PROVE FALSE
  <2>1. PICK w \in {t, u} : w # v
    OBVIOUS
  <2>2. Asked(v, l, w) /\ Settled(w, l)
    BY <1>2 DEF Asked
  <2>. QED
    BY <1>1, <2>1, <2>2 DEF VictimInv
<1>. QED
  BY <1>1, <1>2

\* Level l holds back one of the threads that are past level l - 1.
HoldsOneBack ==
  \A l \in 1 .. N - 1 : CountPast(l - 1) <= N - (l - 1) => CountPast(l) <= N - l

LEMMA EveryLevelHoldsOneBack ==
  Filter!TypeOK /\ VictimInv /\ HeldInv => HoldsOneBack
<1> SUFFICES ASSUME Filter!TypeOK, VictimInv, HeldInv, NEW l \in 1 .. N - 1,
                    Cardinality(PastSet(l - 1)) <= N - (l - 1)
             PROVE  Cardinality(PastSet(l)) <= N - l
  BY DEF HoldsOneBack, CountPast
<1>1. \A S \in SUBSET Filter!Threads :
        IsFiniteSet(S) /\ Cardinality(S) \in Nat /\ Cardinality(S) <= N
  BY PastFinite
<1>2. \A u \in Filter!Threads : Settled(u, l) => u \in PastSet(l - 1)
  BY Consts DEF Settled, Asking, PastSet, Filter!Past, Filter!Climbing, Filter!TypeOK
<1>3. \A u \in PastSet(l) : Settled(u, l)
  BY DEF Settled, PastSet
<1>4. CASE \E t \in PastSet(l), u \in PastSet(l) : t # u
  <2>1. PICK t \in PastSet(l), u \in PastSet(l) : t # u
    BY <1>4
  <2>2. t \in Filter!Threads /\ u \in Filter!Threads /\ Settled(t, l) /\ Settled(u, l)
    BY <1>3 DEF PastSet
  <2>3. PICK v \in Filter!Threads : Settled(v, l) /\ ~ Filter!Past(v, l)
    BY <2>1, <2>2, VictimWaits
  <2>4. PastSet(l) \subseteq PastSet(l - 1) \ {v} /\ v \in PastSet(l - 1)
    BY <1>2, <1>3, <2>3 DEF PastSet
  <2>5. PastSet(l - 1) \in SUBSET Filter!Threads
    BY DEF PastSet
  <2>6. IsFiniteSet(PastSet(l - 1)) /\ Cardinality(PastSet(l - 1)) \in Nat
    BY <1>1, <2>5
  <2>7. /\ IsFiniteSet(PastSet(l - 1) \ {v})
        /\ Cardinality(PastSet(l - 1) \ {v}) = Cardinality(PastSet(l - 1)) - 1
    BY <2>4, <2>6, FS_RemoveElement
  <2>8. Cardinality(PastSet(l)) <= Cardinality(PastSet(l - 1) \ {v})
    BY <2>4, <2>7, FS_Subset
  <2>9. Cardinality(PastSet(l)) \in Nat
    BY <1>1 DEF PastSet
  <2>. QED
    BY <2>6, <2>7, <2>8, <2>9, Consts
<1>5. CASE \A t \in PastSet(l), u \in PastSet(l) : t = u
  <2>1. CASE PastSet(l) = {}
    BY <2>1, FS_EmptySet, Consts
  <2>2. ASSUME NEW t \in PastSet(l) PROVE Cardinality(PastSet(l)) = 1
    <3>1. PastSet(l) = {t}
      BY <1>5, <2>2
    <3>. QED
      BY <3>1, FS_Singleton
  <2>. QED
    BY <2>1, <2>2, Consts
<1>. QED
  BY <1>4, <1>5

\* The narrowing is kept by every step.
LEMMA NarrowStep ==
  ASSUME Filter!TypeOK, LevelInv, VictimInv, HeldInv, FilterLeftInv, Narrows,
         NEW t \in Filter!Threads, Filter!Thread(t)
  PROVE  Narrows'
<1>2. \A S \in SUBSET Filter!Threads :
        IsFiniteSet(S) /\ Cardinality(S) \in Nat /\ Cardinality(S) <= N
  BY PastFinite
<1> SUFFICES ASSUME NEW l \in 0 .. N - 1 PROVE CountPast(l)' <= N - l
  BY DEF Narrows
<1>1. \A m \in 0 .. N - 1 : PastSet(m) \in SUBSET Filter!Threads
                            /\ PastSet(m)' \in SUBSET Filter!Threads
  BY DEF PastSet
<1>3. ASSUME NEW m \in 0 .. N - 1, PastSet(m)' \subseteq PastSet(m)
      PROVE  CountPast(m)' <= N - m
  <2>1. Cardinality(PastSet(m)') <= Cardinality(PastSet(m))
    BY <1>1, <1>2, <1>3, FS_Subset
  <2>2. Cardinality(PastSet(m)) <= N - m
    BY DEF Narrows, CountPast
  <2>3. Cardinality(PastSet(m)') \in Nat /\ Cardinality(PastSet(m)) \in Nat
    BY <1>1, <1>2
  <2>4. Cardinality(PastSet(m)') <= N - m
    BY <2>1, <2>2, <2>3, Consts
  <2>. QED
    BY <2>4 DEF CountPast
<1>4. CASE PastSet(l)' \subseteq PastSet(l)
  BY <1>3, <1>4
<1>5. CASE ~ (PastSet(l)' \subseteq PastSet(l)) /\ l = 0
  BY <1>1, <1>2, <1>5, Consts DEF CountPast
<1>6. CASE ~ (PastSet(l)' \subseteq PastSet(l)) /\ l # 0
  <2>1. PICK u \in Filter!Threads : Filter!Past(u, l)' /\ ~ Filter!Past(u, l)
    BY <1>6 DEF PastSet
  <2>2. l = fi[t] /\ Filter!NextLevel(t)
    BY <1>6, <2>1, PastMoves
  <2>3. l \in 1 .. N - 1 /\ l - 1 \in 0 .. N - 1 /\ l - 1 # l
    BY <1>6, Consts
  <2>4. \A x \in Filter!Threads : Filter!Past(x, l - 1)' => Filter!Past(x, l - 1)
    <3> SUFFICES ASSUME NEW x \in Filter!Threads, Filter!Past(x, l - 1)'
                 PROVE  Filter!Past(x, l - 1)
      OBVIOUS
    <3>1. CASE x = t
      BY <2>2, <2>3, <3>1, Consts
      DEF Filter!NextLevel, Filter!Past, Filter!Climbing, Filter!InCS, Filter!TypeOK
    <3>2. CASE x # t
      BY <3>2, OthersStay DEF Filter!Past, Filter!Climbing, Filter!InCS
    <3>. QED
      BY <3>1, <3>2
  <2>5. PastSet(l - 1)' \subseteq PastSet(l - 1)
    BY <2>4 DEF PastSet
  <2>6. CountPast(l - 1)' <= N - (l - 1)
    BY <1>3, <2>3, <2>5
  <2>7. Filter!TypeOK' /\ VictimInv' /\ HeldInv'
    BY FilterTypeStep, VictimStep
  <2>8. HoldsOneBack'
    BY <2>7, EveryLevelHoldsOneBack, PTL
  <2>. QED
    BY <2>3, <2>6, <2>8 DEF HoldsOneBack
<1>. QED
  BY <1>4, <1>5, <1>6

-----------------------------------------------------------------------------
\* Narrows is the statement of the module FilterLock, which counts with the
\* operator of its own instance of FiniteSets.
LEMMA SameCardinality == \A S : Filter!Cardinality(S) = Cardinality(S)
  BY DEF Filter!Cardinality, Cardinality, Filter!IsFiniteSet, IsFiniteSet

LEMMA NarrowsIsFilterNarrows == Narrows <=> Filter!FilterNarrows
  BY SameCardinality DEF Narrows, CountPast, PastSet, Filter!FilterNarrows

\* One thread at a time has got past the last level.
LEMMA OnePastTheLast ==
  ASSUME Narrows, NEW t \in Filter!Threads, NEW u \in Filter!Threads,
         Filter!Past(t, N - 1), Filter!Past(u, N - 1)
  PROVE  t = u
<1> SUFFICES ASSUME t # u PROVE FALSE
  OBVIOUS
<1>1. {t, u} \subseteq PastSet(N - 1) /\ PastSet(N - 1) \subseteq Filter!Threads
  BY DEF PastSet
<1>2. Cardinality({t, u}) = 2
  <2>1. IsFiniteSet({t}) /\ Cardinality({t}) = 1
    BY FS_Singleton
  <2>2. Cardinality({t} \cup {u}) = Cardinality({t}) + 1
    BY <2>1, FS_AddElement
  <2>3. {t, u} = {t} \cup {u}
    OBVIOUS
  <2>. QED
    BY <2>1, <2>2, <2>3
<1>3. Cardinality({t, u}) <= Cardinality(PastSet(N - 1))
  BY <1>1, PastFinite, FS_Subset
<1>4. CountPast(N - 1) <= N - (N - 1)
  BY Consts DEF Narrows
<1>5. Cardinality(PastSet(N - 1)) \in Nat
  BY <1>1, PastFinite
<1>. QED
  BY <1>2, <1>3, <1>4, <1>5, Consts DEF CountPast

\* So the narrowing excludes the threads from each other.
LEMMA NarrowingExcludes == Narrows => Filter!MutualExclusion
  BY OnePastTheLast DEF Filter!MutualExclusion, Filter!Past

\* Between its load and its store of wait_time a thread is alone with it.
LEMMA FilterTmpStep ==
  ASSUME Filter!TypeOK, Filter!MutualExclusion, FilterTmpInv,
         NEW t \in Filter!Threads, Filter!Thread(t)
  PROVE  FilterTmpInv'
<1> USE DEF Filter!TypeOK, FilterTmpInv
<1> SUFFICES ASSUME NEW u \in Filter!Threads, fPc'[u] = "store" PROVE fTmp'[u] = fTotal'
  OBVIOUS
<1>1. CASE u = t
  BY <1>1 DEF Filter!Thread, Filter!CallLock, Filter!SetLevel, Filter!SetVictim,
     Filter!SkipSelf, Filter!ReadLevel, Filter!ReadVictim, Filter!NextLevel,
     Filter!EnterCS, Filter!LoadWaitTime, Filter!StoreWaitTime, Filter!Unlock
<1>2. CASE u # t
  <2>1. fPc[u] = "store" /\ fTmp'[u] = fTmp[u]
    BY <1>2, OthersStay
  <2>2. ~ Filter!StoreWaitTime(t)
    BY <1>2, <2>1 DEF Filter!MutualExclusion, Filter!InCS, Filter!StoreWaitTime
  <2>3. fTotal' = fTotal
    BY <2>2 DEF Filter!Thread, Filter!CallLock, Filter!SetLevel, Filter!SetVictim,
       Filter!SkipSelf, Filter!ReadLevel, Filter!ReadVictim, Filter!NextLevel,
       Filter!EnterCS, Filter!LoadWaitTime, Filter!Unlock
  <2>. QED
    BY <2>1, <2>3
<1>. QED
  BY <1>1, <1>2

-----------------------------------------------------------------------------
\* When the filter threads are joined nobody is in the lock.
LEMMA IdleInv ==
  ASSUME Filter!TypeOK,
         \A t \in Filter!Threads : fPc[t] = "rem" /\ level[t] = 0
  PROVE  LevelInv /\ VictimInv /\ HeldInv /\ Narrows /\ FilterTmpInv /\ FilterLeftInv
<1>1. \A t \in Filter!Threads : \A l : ~ Filter!Past(t, l) /\ ~ Settled(t, l)
  BY DEF Filter!Past, Filter!InCS, Filter!Climbing, Settled, Asking
<1>2. LevelInv /\ FilterTmpInv /\ FilterLeftInv
  BY DEF LevelInv, LevelOf, FilterTmpInv, FilterLeftInv, Filter!InCS
<1>3. VictimInv /\ HeldInv
  BY <1>1 DEF VictimInv, HeldInv
<1>4. ASSUME NEW l \in 0 .. N - 1 PROVE CountPast(l) <= N - l
  <2>1. PastSet(l) = {}
    BY <1>1 DEF PastSet
  <2>. QED
    BY <2>1, FS_EmptySet, Consts DEF CountPast
<1>. QED
  BY <1>2, <1>3, <1>4 DEF Narrows

\* The program starts and creates the bakery threads with an idle filter lock.
LEMMA CreateStep ==
  ASSUME Filter!TypeOK, CreateBakeryThreads
  PROVE  Filter!TypeOK' /\ \A t \in Filter!Threads : fPc'[t] = "rem" /\ level'[t] = 0
  BY SameThreads, Consts DEF CreateBakeryThreads, Filter!TypeOK, Filter!Finished

LEMMA IdleLockSatisfiesInv ==
  Filter!TypeOK /\ (\A t \in Filter!Threads : fPc[t] = "rem" /\ level[t] = 0)
    => FilterInv /\ FilterTmpInv
  BY IdleInv DEF FilterInv

\* The inductive invariant of the filter half.
THEOREM FilterInvariant == MainSpec => [](FilterInv /\ FilterTmpInv)
<1>1. MainInit => FilterInv /\ FilterTmpInv
  <2> SUFFICES ASSUME MainInit PROVE FilterInv /\ FilterTmpInv
    OBVIOUS
  <2>1. Filter!TypeOK /\ \A t \in Filter!Threads : fPc[t] = "rem" /\ level[t] = 0
    BY Consts DEF MainInit, Filter!Init, Filter!TypeOK
  <2>. QED
    BY <2>1, IdleLockSatisfiesInv
<1>2. FilterInv /\ FilterTmpInv /\ [MainNext]_mainVars => FilterInv' /\ FilterTmpInv'
  <2> SUFFICES ASSUME FilterInv, FilterTmpInv, [MainNext]_mainVars PROVE FilterInv' /\ FilterTmpInv'
    OBVIOUS
  <2>1. ASSUME NEW t \in Filter!Threads, Filter!Thread(t) PROVE FilterInv' /\ FilterTmpInv'
    <3>1. Filter!MutualExclusion
      BY NarrowingExcludes DEF FilterInv
    <3>2. FilterTmpInv'
      BY <2>1, <3>1, FilterTmpStep DEF FilterInv
    <3>3. Filter!TypeOK' /\ LevelInv' /\ FilterLeftInv'
      BY <2>1, FilterTypeStep, LevelStep DEF FilterInv
    <3>4. VictimInv' /\ HeldInv'
      BY <2>1, VictimStep DEF FilterInv
    <3>5. Narrows'
      BY <2>1, NarrowStep DEF FilterInv
    <3>. QED
      BY <3>2, <3>3, <3>4, <3>5 DEF FilterInv
  <2>2. CASE CreateBakeryThreads
    <3>1. Filter!TypeOK' /\ (\A t \in Filter!Threads : fPc[t] = "rem" /\ level[t] = 0)'
      BY <2>2, CreateStep DEF FilterInv
    <3>. QED
      BY <3>1, IdleLockSatisfiesInv, PTL
  <2>3. CASE UNCHANGED filterVars
    BY <2>3 DEF filterVars, FilterInv, FilterTmpInv, Filter!TypeOK, LevelInv, LevelOf, VictimInv, HeldInv,
       Narrows, CountPast, PastSet, FilterLeftInv, Settled, Asked, Asking, Filter!Past,
       Filter!InCS, Filter!Climbing
  <2>. QED
    BY <2>1, <2>2, <2>3, FilterMoves
<1>. QED
  BY <1>1, <1>2, PTL DEF MainSpec

\* The filter lock is well formed, excludes the threads from each other and
\* narrows level by level: at most n - l of them are past level l.
THEOREM FilterLockSafety == MainSpec => []FilterSafety
<1>1. FilterInv => FilterSafety
  BY NarrowingExcludes, NarrowsIsFilterNarrows DEF FilterInv, FilterSafety, Filter!Safety
<1>. QED
  BY <1>1, FilterInvariant, PTL

\* The filter half refines Mutex: Unlock is the only way out, nobody enters an
\* occupied section and no update of wait_time is lost.
THEOREM FilterLockImplementsMutex == MainSpec => FilterImplementsMutex
<1> USE DEF Filter!Phase
<1>1. MainInit => Filter!Abstract!Init
  BY DEF MainInit, Filter!Init, Filter!Abstract!Init
<1>2. FilterInv /\ FilterTmpInv /\ [MainNext]_mainVars
        => [Filter!Abstract!Next]_<<Filter!Phase, fTotal>>
  <2> SUFFICES ASSUME FilterInv, FilterTmpInv, [MainNext]_mainVars
               PROVE  [Filter!Abstract!Next]_<<Filter!Phase, fTotal>>
    OBVIOUS
  <2> USE DEF FilterInv, Filter!TypeOK
  <2>1. ASSUME NEW t \in Filter!Threads, Filter!CallLock(t)
        PROVE  Filter!Abstract!Request(t)
    BY <2>1 DEF Filter!CallLock, Filter!Abstract!Request
  <2>2. ASSUME NEW t \in Filter!Threads, Filter!EnterCS(t)
        PROVE  Filter!Abstract!Enter(t)
    <3>1. Filter!Past(t, N - 1)
      BY <2>2, Consts DEF Filter!EnterCS, Filter!LastLevel, Filter!Past, Filter!Climbing
    <3>2. \A u \in Filter!Threads : ~ Filter!InCS(u)
      <4> SUFFICES ASSUME NEW u \in Filter!Threads, Filter!InCS(u) PROVE FALSE
        OBVIOUS
      <4>1. Filter!Past(u, N - 1)
        BY DEF Filter!Past
      <4>2. u = t
        BY <3>1, <4>1, OnePastTheLast
      <4>. QED
        BY <2>2, <4>2 DEF Filter!EnterCS, Filter!InCS
    <3>3. \A u \in Filter!Threads : ~ Filter!Abstract!Inside(u)
      BY <3>2 DEF Filter!InCS, Filter!Abstract!Inside
    <3>4. Filter!Phase[t] = "try" /\ Filter!Phase' = [Filter!Phase EXCEPT ![t] = "cs"]
      BY <2>2 DEF Filter!EnterCS
    <3>. QED
      BY <2>2, <3>3, <3>4 DEF Filter!EnterCS, Filter!Abstract!Enter
  <2>3. ASSUME NEW t \in Filter!Threads, Filter!StoreWaitTime(t)
        PROVE  Filter!Abstract!Work(t)
    BY <2>3 DEF Filter!StoreWaitTime, FilterTmpInv, Filter!Abstract!Work
  <2>4. ASSUME NEW t \in Filter!Threads, Filter!Unlock(t)
        PROVE  Filter!Abstract!Leave(t)
    BY <2>4 DEF Filter!Unlock, Filter!Abstract!Leave
  <2>5. ASSUME NEW t \in Filter!Threads,
               \/ Filter!SetLevel(t) \/ Filter!SetVictim(t) \/ Filter!SkipSelf(t)
               \/ Filter!ReadLevel(t) \/ Filter!ReadVictim(t) \/ Filter!NextLevel(t)
               \/ Filter!LoadWaitTime(t)
        PROVE  UNCHANGED <<Filter!Phase, fTotal>>
    BY <2>5 DEF Filter!SetLevel, Filter!SetVictim, Filter!SkipSelf, Filter!ReadLevel,
       Filter!ReadVictim, Filter!NextLevel, Filter!LoadWaitTime
  <2>6. CASE UNCHANGED filterVars
    BY <2>6 DEF filterVars
  <2>7. CASE CreateBakeryThreads
    BY <2>7 DEF CreateBakeryThreads
  <2>. QED
    BY <2>1, <2>2, <2>3, <2>4, <2>5, <2>6, <2>7, FilterMoves
    DEF Filter!Thread, Filter!Abstract!Next
<1>. QED
  BY <1>1, <1>2, FilterInvariant, PTL
  DEF MainSpec, FilterImplementsMutex, Filter!ImplementsMutex, Filter!Abstract!Spec,
      Filter!Abstract!mvars
=============================================================================
