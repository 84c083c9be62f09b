------------------------ MODULE TestAndSetLocksProofs ------------------------
(***************************************************************************)
(* The locks of TestAndSetLocks, for every number of threads and of        *)
(* iterations: mutual exclusion, refinement of Mutex and bounded waiting   *)
(* for the one that hands over, and mutual exclusion and the measurements  *)
(* of the locks that spin.                                                 *)
(***************************************************************************)
EXTENDS TestAndSetLocks, FiniteSetTheorems, TLAPS

\* The lock is t's: it found the flag clear, or its waiting flag was cleared
\* for it, and it has not unlocked.
Granted(t) ==
  \/ pc[t] = "clear"
  \/ pc[t] = "test" /\ (~ key[t] \/ ~ waiting[t])
  \/ pc[t] = "tas" /\ ~ waiting[t]
Holder(t) == InCS(t) \/ Granted(t)

\* How far thread b is behind thread a in the cyclic order.
Dist(a, b) == IF a <= b THEN b - a ELSE b - a + N

WaitingInv == \A t \in Threads : waiting[t] => Asking(t)
KeyInv     == \A t \in Threads : pc[t] = "tas" => key[t]
LockInv    == \A t \in Threads : Holder(t) => lock
HolderInv  == \A t, u \in Threads : Holder(t) /\ Holder(u) => t = u
SearchInv  == \A t \in Threads :
                pc[t] \in {"load", "store", "unlock"} /\ j[t] # t => waiting[j[t]]
TmpInv     == \A t \in Threads : pc[t] = "store" => tmp[t] = wait_time
LeftInv    == \A t \in Threads : pc[t] # "rem" => left[t] > 0

\* Once an entry has been counted against t, the lock only moves forward in
\* the cyclic order and its search never goes past t: whoever has been counted
\* lies behind the holder, and is not met again before t.
Unpassed(t)  == \A u \in Threads : bypassed[t][u] = 0
Passed(t, d) == \A u \in Threads : bypassed[t][u] > 0 => Dist(u, t) >= d
FreeInv == ~ lock => \A t \in Threads : Asking(t) => Unpassed(t)
Ahead(h, t) == j[h] # h /\ Dist(h, j[h]) <= Dist(h, t)
Distance(h, t) ==
  \/ Granted(h) /\ Passed(t, Dist(h, t) + 1)
  \/ InCS(h) /\ Unpassed(t)
  \/ /\ InCS(h) /\ Passed(t, Dist(h, t))
     /\ pc[h] # "cs" => Ahead(h, t)
DistInv == \A h, t \in Threads :
             Holder(h) /\ Asking(t) /\ ~ Holder(t) => Distance(h, t)

IInv == /\ TypeOK /\ WaitingInv /\ KeyInv /\ LockInv /\ HolderInv /\ SearchInv
        /\ TmpInv /\ LeftInv

-----------------------------------------------------------------------------
LEMMA ThreadsAreNat == \A t \in Threads : t \in Nat /\ t < N
  BY NAssumption DEF Threads

\* The successor of a thread is a thread: the next one, or the first.
LEMMA AfterIsThread ==
  \A t \in Threads : /\ After(t) \in Threads
                     /\ After(t) = IF t = N - 1 THEN 0 ELSE t + 1
<1> SUFFICES ASSUME NEW t \in Threads
             PROVE  After(t) \in Threads /\ After(t) = IF t = N - 1 THEN 0 ELSE t + 1
  OBVIOUS
<1>1. CASE t = N - 1
  BY <1>1, NAssumption DEF After, Threads
<1>2. CASE t < N - 1
  BY <1>2, NAssumption DEF After, Threads
<1>. QED
  BY <1>1, <1>2, NAssumption DEF Threads

\* Distances in the cyclic order lie below N and are 0 only from a thread to
\* itself.
LEMMA DistRange ==
  \A a, b \in Threads : /\ Dist(a, b) \in 0 .. N - 1
                        /\ Dist(a, b) = 0 <=> a = b
  BY NAssumption DEF Dist, Threads

\* Walking on from a brings the walker one closer to b, unless it is there.
LEMMA DistStep ==
  \A a, x, b \in Threads : x # b /\ Dist(a, x) <= Dist(a, b) =>
     /\ Dist(a, After(x)) <= Dist(a, b)
     /\ After(x) # a
  BY AfterIsThread, NAssumption DEF Dist, Threads

\* A thread between a and b is closer to b than a is.
LEMMA DistChain ==
  \A a, x, b \in Threads : x # a /\ x # b /\ Dist(a, x) <= Dist(a, b) =>
     Dist(x, b) < Dist(a, b)
  BY NAssumption DEF Dist, Threads
-----------------------------------------------------------------------------
\* Every step preserves the types.
LEMMA TypeStep == ASSUME TypeOK, LeftInv, [Next]_vars PROVE TypeOK'
<1> USE NAssumption, KAssumption, AfterIsThread DEF TypeOK
<1>1. ASSUME NEW t \in Threads, Ask(t) PROVE TypeOK'
  BY <1>1 DEF Ask
<1>2. ASSUME NEW t \in Threads, Test(t) PROVE TypeOK'
  BY <1>2 DEF Test
<1>3. ASSUME NEW t \in Threads, TestAndSet(t) PROVE TypeOK'
  BY <1>3 DEF TestAndSet
<1>4. ASSUME NEW t \in Threads, EnterCS(t) PROVE TypeOK'
  BY <1>4 DEF EnterCS, StopWaiting
<1>5. ASSUME NEW t \in Threads, StartSearch(t) PROVE TypeOK'
  BY <1>5 DEF StartSearch, FirstToAsk
<1>6. ASSUME NEW t \in Threads, Search(t) PROVE TypeOK'
  <2>1. j' \in [Threads -> Threads]
    BY <1>6 DEF Search
  <2>2. pc' = pc \/ pc' = [pc EXCEPT ![t] = "load"]
    BY <1>6 DEF Search
  <2>. QED
    BY <1>6, <2>1, <2>2 DEF Search
<1>7. ASSUME NEW t \in Threads, LoadWaitTime(t) PROVE TypeOK'
  BY <1>7 DEF LoadWaitTime
<1>8. ASSUME NEW t \in Threads, StoreWaitTime(t) PROVE TypeOK'
  BY <1>8 DEF StoreWaitTime
<1>9. ASSUME NEW t \in Threads, Unlock(t) PROVE TypeOK'
  <2>1. left'[t] \in 0 .. K /\ left' \in [Threads -> 0 .. K]
    BY <1>9 DEF Unlock, LeftInv
  <2>2. waiting' \in [Threads -> BOOLEAN] /\ lock' \in BOOLEAN
    BY <1>9 DEF Unlock, HandOver
  <2>. QED
    BY <1>9, <2>1, <2>2 DEF Unlock
<1>10. CASE UNCHANGED vars
  BY <1>10 DEF vars
<1>. QED
  BY <1>1, <1>2, <1>3, <1>4, <1>5, <1>6, <1>7, <1>8, <1>9, <1>10 DEF Next, Thread, Over

\* Steps keep the facts that speak of one thread.
LEMMA LocalStep == ASSUME IInv, [Next]_vars PROVE (WaitingInv /\ KeyInv /\ LeftInv)'
<1> USE DEF IInv, TypeOK, WaitingInv, KeyInv, LeftInv, Asking
<1>1. ASSUME NEW t \in Threads, Ask(t) PROVE (WaitingInv /\ KeyInv /\ LeftInv)'
  BY <1>1 DEF Ask
<1>2. ASSUME NEW t \in Threads, Test(t) PROVE (WaitingInv /\ KeyInv /\ LeftInv)'
  BY <1>2 DEF Test
<1>3. ASSUME NEW t \in Threads, TestAndSet(t) PROVE (WaitingInv /\ KeyInv /\ LeftInv)'
  BY <1>3 DEF TestAndSet
<1>4. ASSUME NEW t \in Threads, EnterCS(t) PROVE (WaitingInv /\ KeyInv /\ LeftInv)'
  BY <1>4 DEF EnterCS, StopWaiting
<1>5. ASSUME NEW t \in Threads, StartSearch(t) PROVE (WaitingInv /\ KeyInv /\ LeftInv)'
  BY <1>5 DEF StartSearch, FirstToAsk
<1>6. ASSUME NEW t \in Threads, Search(t) PROVE (WaitingInv /\ KeyInv /\ LeftInv)'
  BY <1>6 DEF Search
<1>7. ASSUME NEW t \in Threads, LoadWaitTime(t) PROVE (WaitingInv /\ KeyInv /\ LeftInv)'
  BY <1>7 DEF LoadWaitTime
<1>8. ASSUME NEW t \in Threads, StoreWaitTime(t) PROVE (WaitingInv /\ KeyInv /\ LeftInv)'
  BY <1>8 DEF StoreWaitTime
<1>9. ASSUME NEW t \in Threads, Unlock(t) PROVE (WaitingInv /\ KeyInv /\ LeftInv)'
  BY <1>9 DEF Unlock, HandOver
<1>10. CASE UNCHANGED vars
  BY <1>10 DEF vars
<1>. QED
  BY <1>1, <1>2, <1>3, <1>4, <1>5, <1>6, <1>7, <1>8, <1>9, <1>10 DEF Next, Thread, Over

\* The lock has at most one holder, and is set while it has one.
LEMMA HolderStep == ASSUME IInv, [Next]_vars PROVE (LockInv /\ HolderInv)'
<1> USE DEF IInv, TypeOK, WaitingInv, KeyInv, LockInv, HolderInv,
            Holder, Granted, InCS, Asking
<1>1. ASSUME NEW t \in Threads, Ask(t) PROVE (LockInv /\ HolderInv)'
  BY <1>1 DEF Ask
<1>2. ASSUME NEW t \in Threads, Test(t) PROVE (LockInv /\ HolderInv)'
  BY <1>2 DEF Test
<1>3. ASSUME NEW t \in Threads, TestAndSet(t) PROVE (LockInv /\ HolderInv)'
  BY <1>3 DEF TestAndSet
<1>4. ASSUME NEW t \in Threads, EnterCS(t) PROVE (LockInv /\ HolderInv)'
  BY <1>4 DEF EnterCS, StopWaiting
<1>5. ASSUME NEW t \in Threads, StartSearch(t) PROVE (LockInv /\ HolderInv)'
  BY <1>5 DEF StartSearch, FirstToAsk
<1>6. ASSUME NEW t \in Threads, Search(t) PROVE (LockInv /\ HolderInv)'
  BY <1>6 DEF Search
<1>7. ASSUME NEW t \in Threads, LoadWaitTime(t) PROVE (LockInv /\ HolderInv)'
  BY <1>7 DEF LoadWaitTime
<1>8. ASSUME NEW t \in Threads, StoreWaitTime(t) PROVE (LockInv /\ HolderInv)'
  BY <1>8 DEF StoreWaitTime
<1>9. ASSUME NEW t \in Threads, Unlock(t) PROVE (LockInv /\ HolderInv)'
  BY <1>9 DEF Unlock, HandOver, SearchInv
<1>10. CASE UNCHANGED vars
  BY <1>10 DEF vars
<1>. QED
  BY <1>1, <1>2, <1>3, <1>4, <1>5, <1>6, <1>7, <1>8, <1>9, <1>10 DEF Next, Thread, Over

\* The thread the search found is still waiting when the lock is handed over.
LEMMA SearchStep == ASSUME IInv, [Next]_vars PROVE SearchInv'
<1> USE DEF IInv, TypeOK, WaitingInv, HolderInv, SearchInv,
            Holder, Granted, InCS, Asking
<1>1. ASSUME NEW t \in Threads, Ask(t) PROVE SearchInv'
  BY <1>1 DEF Ask
<1>2. ASSUME NEW t \in Threads, Test(t) PROVE SearchInv'
  BY <1>2 DEF Test
<1>3. ASSUME NEW t \in Threads, TestAndSet(t) PROVE SearchInv'
  BY <1>3 DEF TestAndSet
<1>4. ASSUME NEW t \in Threads, EnterCS(t) PROVE SearchInv'
  BY <1>4 DEF EnterCS, StopWaiting
<1>5. ASSUME NEW t \in Threads, StartSearch(t) PROVE SearchInv'
  BY <1>5 DEF StartSearch, FirstToAsk
<1>6. ASSUME NEW t \in Threads, Search(t) PROVE SearchInv'
  BY <1>6 DEF Search
<1>7. ASSUME NEW t \in Threads, LoadWaitTime(t) PROVE SearchInv'
  BY <1>7 DEF LoadWaitTime
<1>8. ASSUME NEW t \in Threads, StoreWaitTime(t) PROVE SearchInv'
  BY <1>8 DEF StoreWaitTime
<1>9. ASSUME NEW t \in Threads, Unlock(t) PROVE SearchInv'
  BY <1>9 DEF Unlock, HandOver
<1>10. CASE UNCHANGED vars
  BY <1>10 DEF vars
<1>. QED
  BY <1>1, <1>2, <1>3, <1>4, <1>5, <1>6, <1>7, <1>8, <1>9, <1>10 DEF Next, Thread, Over

\* Between the load and the store of wait_time nobody else stores.
LEMMA TmpStep == ASSUME IInv, [Next]_vars PROVE TmpInv'
<1> USE DEF IInv, TypeOK, TmpInv, HolderInv, Holder, InCS
<1>1. ASSUME NEW t \in Threads, LoadWaitTime(t) PROVE TmpInv'
  BY <1>1 DEF LoadWaitTime
<1>2. ASSUME NEW t \in Threads, StoreWaitTime(t) PROVE TmpInv'
  BY <1>2 DEF StoreWaitTime
<1>3. ASSUME NEW t \in Threads,
             \/ Ask(t) \/ Test(t) \/ TestAndSet(t) \/ EnterCS(t)
             \/ StartSearch(t) \/ Search(t) \/ Unlock(t)
      PROVE  TmpInv'
  BY <1>3 DEF Ask, Test, TestAndSet, EnterCS, StartSearch, Search, Unlock
<1>4. CASE UNCHANGED vars
  BY <1>4 DEF vars
<1>. QED
  BY <1>1, <1>2, <1>3, <1>4 DEF Next, Thread, Over
\* While the lock is free nobody asking has been bypassed.
LEMMA FreeStep == ASSUME IInv, DistInv, FreeInv, [Next]_vars PROVE FreeInv'
<1> USE DEF IInv, TypeOK, FreeInv, Asking, Unpassed
<1>1. ASSUME NEW t \in Threads, EnterCS(t) PROVE FreeInv'
  BY <1>1 DEF EnterCS, StopWaiting, LockInv, Holder, Granted
<1>2. ASSUME NEW t \in Threads, Unlock(t) PROVE FreeInv'
  <2> SUFFICES ASSUME ~ lock', NEW u \in Threads, Asking(u)'
               PROVE  Unpassed(u)'
    OBVIOUS
  <2>1. Holder(t) /\ lock /\ j[t] = t /\ u # t /\ Asking(u)
    BY <1>2 DEF Unlock, HandOver, Holder, InCS, LockInv
  <2>2. ~ Holder(u)
    BY <2>1 DEF HolderInv
  <2>3. Distance(t, u) /\ ~ Ahead(t, u)
    BY <2>1, <2>2 DEF DistInv, Ahead
  <2>. QED
    BY <1>2, <2>3 DEF Distance, Granted, Unlock, Unpassed
<1>3. ASSUME NEW t \in Threads,
             \/ Ask(t) \/ Test(t) \/ TestAndSet(t) \/ StartSearch(t) \/ Search(t)
             \/ LoadWaitTime(t) \/ StoreWaitTime(t)
      PROVE  FreeInv'
  BY <1>3 DEF Ask, Test, TestAndSet, StartSearch, Search, LoadWaitTime,
              StoreWaitTime
<1>4. CASE UNCHANGED vars
  BY <1>4 DEF vars
<1>. QED
  BY <1>1, <1>2, <1>3, <1>4 DEF Next, Thread, Over

\* Every step keeps the distance argument: an entry is paid for by the lock
\* having come closer.
LEMMA DistInvStep == ASSUME IInv, DistInv, FreeInv, [Next]_vars PROVE DistInv'
<1> SUFFICES ASSUME NEW h \in Threads, NEW u \in Threads,
                    Holder(h)', Asking(u)', ~ Holder(u)'
             PROVE  Distance(h, u)'
  BY DEF DistInv
<1> USE DEF IInv, TypeOK
<1>a. h # u /\ Dist(h, u) \in 0 .. N - 1
  BY DistRange
<1>b. \A x \in Threads : bypassed[u][x] \in Nat /\ Dist(x, u) \in 0 .. N - 1
  BY DistRange
<1>1. ASSUME NEW t \in Threads, Ask(t) PROVE Distance(h, u)'
  <2>1. Holder(h) /\ h # t
    BY <1>1 DEF Ask, Holder, Granted, InCS
  <2>2. CASE u = t
    <3>1. Unpassed(u)' /\ Passed(u, Dist(h, u) + 1)'
      BY <1>1, <2>2 DEF Ask, Unpassed, Passed
    <3>2. Granted(h)' \/ InCS(h)'
      BY DEF Holder
    <3>. QED
      BY <3>1, <3>2 DEF Distance, Dist
  <2>3. CASE u # t
    <3>1. Asking(u) /\ ~ Holder(u)
      BY <1>1, <2>3 DEF Ask, Asking, Holder, Granted, InCS
    <3>2. Distance(h, u)
      BY <2>1, <3>1 DEF DistInv
    <3>. QED
      BY <1>1, <2>1, <2>3, <3>2 DEF Ask, Distance, Granted, InCS, Ahead, Dist, Passed, Unpassed
  <2>. QED
    BY <2>2, <2>3
<1>2. ASSUME NEW t \in Threads, Test(t) PROVE Distance(h, u)'
  <2>1. Holder(h) /\ Asking(u) /\ ~ Holder(u)
    BY <1>2 DEF Test, Asking, Holder, Granted, InCS, KeyInv
  <2>2. Distance(h, u)
    BY <2>1 DEF DistInv
  <2>. QED
    BY <1>2, <2>2 DEF Test, Distance, Granted, InCS, Ahead, Dist, Passed, Unpassed
<1>3. ASSUME NEW t \in Threads, TestAndSet(t) PROVE Distance(h, u)'
  <2>1. Asking(u)
    BY <1>3 DEF TestAndSet, Asking
  <2>2. CASE lock
    <3>1. Holder(h) /\ ~ Holder(u)
      BY <1>3, <2>2 DEF TestAndSet, Holder, Granted, InCS
    <3>2. Distance(h, u)
      BY <2>1, <3>1 DEF DistInv
    <3>. QED
      BY <1>3, <2>2, <3>2 DEF TestAndSet, Distance, Granted, InCS, Ahead, Dist,
                                     Passed, Unpassed
  <2>3. CASE ~ lock
    <3>1. ~ Holder(h) /\ Unpassed(u)
      BY <2>1, <2>3 DEF LockInv, FreeInv
    <3>2. Granted(h)' /\ Passed(u, Dist(h, u) + 1)'
      BY <1>3, <3>1 DEF TestAndSet, Holder, Granted, InCS, Passed, Unpassed
    <3>. QED
      BY <3>2 DEF Distance, Dist
  <2>. QED
    BY <2>2, <2>3
<1>4. ASSUME NEW t \in Threads, EnterCS(t) PROVE Distance(h, u)'
  <2>1. Granted(t) /\ Holder(t)
    BY <1>4 DEF EnterCS, Granted, Holder
  <2>2. Holder(h)
    BY <1>4, <2>1 DEF EnterCS, StopWaiting, Holder, Granted, InCS
  <2>3. h = t /\ u # t
    BY <1>a, <2>1, <2>2 DEF HolderInv
  <2>4. Asking(u) /\ ~ Holder(u)
    BY <1>4, <2>3 DEF EnterCS, StopWaiting, Asking, Holder, Granted, InCS
  <2>5. Passed(u, Dist(h, u) + 1)
    BY <1>4, <2>1, <2>2, <2>3, <2>4 DEF DistInv, Distance, EnterCS, InCS
  <2>6. bypassed'[u] = [bypassed[u] EXCEPT ![h] = @ + 1] /\ pc'[h] = "cs"
    BY <1>4, <2>3, <2>4 DEF EnterCS
  <2>7. ASSUME NEW x \in Threads, bypassed'[u][x] > 0 PROVE Dist(x, u) >= Dist(h, u)
    <3>1. CASE x = h
      BY <1>a, <3>1
    <3>2. CASE x # h
      <4>1. bypassed'[u][x] = bypassed[u][x]
        BY <2>6, <3>2
      <4>2. Dist(x, u) >= Dist(h, u) + 1
        BY <2>5, <2>7, <4>1 DEF Passed
      <4>. QED
        BY <1>a, <1>b, <4>2
    <3>. QED
      BY <3>1, <3>2
  <2>. QED
    BY <2>6, <2>7 DEF Distance, InCS, Dist, Passed
<1>5. ASSUME NEW t \in Threads, StartSearch(t) PROVE Distance(h, u)'
  <2>1. Holder(t) /\ InCS(t)
    BY <1>5 DEF StartSearch, Holder, InCS
  <2>2. Holder(h) /\ Asking(u) /\ ~ Holder(u)
    BY <1>5, <2>1 DEF StartSearch, Holder, Granted, InCS, Asking
  <2>3. h = t
    BY <2>1, <2>2 DEF HolderInv
  <2>4. InCS(h)' /\ bypassed' = bypassed /\ j'[h] = After(h)
    BY <1>5, <2>3 DEF StartSearch, FirstToAsk, InCS
  <2>5. Unpassed(u) \/ Passed(u, Dist(h, u))
    BY <1>5, <2>2, <2>3 DEF DistInv, Distance, StartSearch, Granted
  <2>6. After(h) # h /\ Dist(h, After(h)) <= Dist(h, u)
    BY <1>a, DistStep, DistRange
  <2>. QED
    BY <2>4, <2>5, <2>6 DEF Distance, Ahead, Dist, Passed, Unpassed
<1>6. ASSUME NEW t \in Threads, Search(t) PROVE Distance(h, u)'
  <2>1. Holder(t) /\ InCS(t)
    BY <1>6 DEF Search, Holder, InCS
  <2>2. Holder(h) /\ Asking(u) /\ ~ Holder(u)
    BY <1>6, <2>1 DEF Search, Holder, Granted, InCS, Asking
  <2>3. h = t /\ pc[h] = "scan"
    BY <1>6, <2>1, <2>2 DEF HolderInv, Search
  <2>4. waiting[u]
    BY <2>2 DEF Asking, Holder, Granted
  <2>5. InCS(h)' /\ bypassed' = bypassed
    BY <1>6, <2>3 DEF Search, InCS
  <2>6. Unpassed(u) \/ (Passed(u, Dist(h, u)) /\ Ahead(h, u))
    BY <2>2, <2>3 DEF DistInv, Distance, Granted
  <2>7. Ahead(h, u) => Ahead(h, u)'
    <3>1. CASE j[h] # h /\ ~ waiting[j[h]]
      <4>1. j[h] # u /\ j'[h] = After(j[h])
        BY <1>6, <2>3, <2>4, <3>1 DEF Search
      <4>. QED
        BY <4>1, DistStep DEF Ahead, Dist
    <3>2. CASE ~ (j[h] # h /\ ~ waiting[j[h]])
      BY <1>6, <2>3, <3>2 DEF Search, Ahead, Dist
    <3>. QED
      BY <3>1, <3>2
  <2>. QED
    BY <2>5, <2>6, <2>7 DEF Distance, Dist, Passed, Unpassed
<1>7. ASSUME NEW t \in Threads, LoadWaitTime(t) \/ StoreWaitTime(t)
      PROVE  Distance(h, u)'
  <2>1. Holder(h) /\ Asking(u) /\ ~ Holder(u)
    BY <1>7 DEF LoadWaitTime, StoreWaitTime, Holder, Granted, InCS, Asking
  <2>2. Distance(h, u)
    BY <2>1 DEF DistInv
  <2>. QED
    BY <1>7, <2>2 DEF LoadWaitTime, StoreWaitTime, Distance, Granted, InCS, Ahead, Dist,
                      Passed, Unpassed
<1>8. ASSUME NEW t \in Threads, Unlock(t) PROVE Distance(h, u)'
  <2>1. Holder(t) /\ InCS(t) /\ ~ Holder(t)' /\ ~ Asking(t)'
    BY <1>8 DEF Unlock, HandOver, Holder, Granted, InCS, Asking
  <2>2. h # t /\ u # t /\ ~ Holder(h) /\ Asking(u)
    BY <1>8, <2>1 DEF HolderInv, Unlock, Asking
  <2>3. h = j[t] /\ t # j[t] /\ Granted(h)' /\ bypassed' = bypassed
    BY <1>8, <2>2 DEF Unlock, HandOver, Holder, Granted, InCS
  <2>4. ~ Holder(u)
    BY <2>1, <2>2 DEF HolderInv
  <2>5. \/ Unpassed(u)
        \/ Passed(u, Dist(t, u)) /\ Dist(t, h) <= Dist(t, u)
    BY <1>8, <2>1, <2>2, <2>3, <2>4 DEF DistInv, Distance, Granted, Unlock, Ahead
  <2>6. Dist(t, h) <= Dist(t, u) => Dist(h, u) < Dist(t, u)
    BY <1>a, <2>2, DistChain
  <2>7. Dist(t, u) \in 0 .. N - 1
    BY DistRange
  <2>8. ASSUME NEW x \in Threads, bypassed[u][x] > 0 PROVE Dist(x, u) >= Dist(h, u) + 1
    <3>1. Dist(x, u) >= Dist(t, u) /\ Dist(t, h) <= Dist(t, u)
      BY <2>5, <2>8 DEF Unpassed, Passed
    <3>. QED
      BY <1>a, <1>b, <2>6, <2>7, <3>1
  <2>. QED
    BY <2>3, <2>8 DEF Distance, Dist, Passed
<1>9. CASE UNCHANGED vars
  <2>1. Distance(h, u)
    BY <1>9 DEF vars, DistInv, Holder, Granted, InCS, Asking
  <2>. QED
    BY <1>9, <2>1 DEF vars, Distance, Granted, InCS, Ahead, Dist, Passed, Unpassed
<1>. QED
  BY <1>1, <1>2, <1>3, <1>4, <1>5, <1>6, <1>7, <1>8, <1>9 DEF Next, Thread, Over

\* No entry goes beyond the bound.
LEMMA BoundStep ==
  ASSUME IInv, DistInv, BoundedWaiting, [Next]_vars PROVE BoundedWaiting'
<1> USE NAssumption DEF IInv, TypeOK, BoundedWaiting
<1>1. ASSUME NEW t \in Threads, EnterCS(t) PROVE BoundedWaiting'
  <2> SUFFICES ASSUME NEW u \in Threads, NEW x \in Threads PROVE bypassed'[u][x] <= 1
    OBVIOUS
  <2>1. CASE Asking(u) /\ u # t /\ x = t
    <3>1. Holder(t) /\ ~ Holder(u)
      BY <1>1, <2>1 DEF EnterCS, Holder, Granted, HolderInv
    <3>2. Passed(u, Dist(t, u) + 1)
      BY <1>1, <2>1, <3>1 DEF DistInv, Distance, EnterCS, InCS
    <3>3. Dist(t, u) \in 0 .. N - 1
      BY DistRange
    <3>4. bypassed[u][t] = 0
      <4>1. bypassed[u][t] \in Nat
        OBVIOUS
      <4>2. bypassed[u][t] > 0 => Dist(t, u) >= Dist(t, u) + 1
        BY <3>2 DEF Passed
      <4>. QED
        BY <3>3, <4>1, <4>2
    <3>5. bypassed'[u] = [bypassed[u] EXCEPT ![t] = @ + 1]
      BY <1>1, <2>1 DEF EnterCS
    <3>. QED
      BY <2>1, <3>4, <3>5
  <2>2. CASE ~ (Asking(u) /\ u # t /\ x = t)
    BY <1>1, <2>2 DEF EnterCS
  <2>. QED
    BY <2>1, <2>2
<1>2. ASSUME NEW t \in Threads,
             \/ Ask(t) \/ Test(t) \/ TestAndSet(t) \/ StartSearch(t) \/ Search(t)
             \/ LoadWaitTime(t) \/ StoreWaitTime(t) \/ Unlock(t)
      PROVE  BoundedWaiting'
  <2>1. CASE Ask(t)
    BY <2>1 DEF Ask
  <2>2. CASE ~ Ask(t)
    <3>1. bypassed' = bypassed
      BY <1>2, <2>2 DEF Test, TestAndSet, StartSearch, Search, LoadWaitTime, StoreWaitTime, Unlock
    <3>. QED
      BY <3>1
  <2>. QED
    BY <2>1, <2>2
<1>3. CASE UNCHANGED vars
  BY <1>3 DEF vars
<1>. QED
  BY <1>1, <1>2, <1>3 DEF Next, Thread, Over

-----------------------------------------------------------------------------
\* The invariant of the lock and of its hand-over, for every n and k.
THEOREM BoundedTASInvariant == Spec => [](IInv /\ DistInv /\ FreeInv /\ BoundedWaiting)
<1>1. Init => IInv /\ DistInv /\ FreeInv /\ BoundedWaiting
  <2>1. Init => TypeOK
    <3>1. 0 \in Threads /\ K \in 0 .. K
      BY NAssumption, KAssumption DEF Threads
    <3>2. Init => /\ waiting \in [Threads -> BOOLEAN] /\ lock \in BOOLEAN
                  /\ key \in [Threads -> BOOLEAN] /\ j \in [Threads -> Threads]
                  /\ left \in [Threads -> 0 .. K]
      BY <3>1 DEF Init
    <3>3. Init => /\ wait_time \in Nat /\ tmp \in [Threads -> Nat]
                  /\ bypassed \in [Threads -> [Threads -> Nat]]
      BY DEF Init
    <3>. QED
      BY <3>2, <3>3 DEF Init, TypeOK
  <2>2. Init => /\ WaitingInv /\ KeyInv /\ LockInv /\ HolderInv /\ SearchInv
                /\ TmpInv /\ LeftInv /\ DistInv /\ FreeInv
    BY DEF Init, WaitingInv, KeyInv, LockInv, HolderInv, SearchInv, TmpInv,
           LeftInv, DistInv, FreeInv, Holder, Granted, InCS, Asking
  <2>3. Init => BoundedWaiting
    BY NAssumption DEF Init, BoundedWaiting
  <2>. QED
    BY <2>1, <2>2, <2>3 DEF IInv
<1>2. IInv /\ DistInv /\ FreeInv /\ BoundedWaiting /\ [Next]_vars
        => (IInv /\ DistInv /\ FreeInv /\ BoundedWaiting)'
  <2> SUFFICES ASSUME IInv, DistInv, FreeInv, BoundedWaiting, [Next]_vars
               PROVE  (IInv /\ DistInv /\ FreeInv /\ BoundedWaiting)'
    OBVIOUS
  <2>1. IInv'
    BY TypeStep, LocalStep, HolderStep, SearchStep, TmpStep DEF IInv
  <2>. QED
    BY <2>1, DistInvStep, FreeStep, BoundStep
<1>. QED
  BY <1>1, <1>2, PTL DEF Spec

\* At most one thread holds the lock, whether it took it or was given it, and
\* the variables of the threads keep their types.
THEOREM BoundedTASSafety == Spec => []Safety
<1>1. IInv => TypeOK
  BY DEF IInv
<1>2. IInv => MutualExclusion
  BY DEF IInv, HolderInv, Holder, MutualExclusion
<1>3. IInv => Safety
  BY <1>1, <1>2 DEF Safety
<1>. QED
  BY <1>3, BoundedTASInvariant, PTL

\* The "Bounded Time" of the program's header: while a thread waits, every other
\* thread enters at most once.
THEOREM BoundedTASBound == Spec => []BoundedWaiting
  BY BoundedTASInvariant, PTL

\* The threads implement the abstract mutex: critical sections exclude each
\* other and every update of wait_time takes effect.
THEOREM BoundedTASImplementsMutex == Spec => ImplementsMutex
<1>1. Init => Abstract!Init
  BY DEF Init, Abstract!Init, Phase
<1>2. IInv /\ [Next]_vars => [Abstract!Next]_<<Phase, wait_time>>
  <2> SUFFICES ASSUME IInv, [Next]_vars
               PROVE  [Abstract!Next]_<<Phase, wait_time>>
    OBVIOUS
  <2> USE DEF IInv, TypeOK
  <2>1. ASSUME NEW t \in Threads, Ask(t) PROVE Abstract!Request(t)
    BY <2>1 DEF Ask, Phase, Abstract!Request
  <2>2. ASSUME NEW t \in Threads, EnterCS(t) PROVE Abstract!Enter(t)
    <3>1. \A u \in Threads : ~ InCS(u)
      BY <2>2 DEF EnterCS, HolderInv, Holder, Granted, InCS
    <3>2. \A u \in Threads : ~ Abstract!Inside(u)
      BY <3>1 DEF InCS, Phase, Abstract!Inside
    <3>3. Phase[t] = "try" /\ Phase' = [Phase EXCEPT ![t] = "cs"]
      BY <2>2 DEF EnterCS, Phase
    <3>. QED
      BY <2>2, <3>2, <3>3 DEF EnterCS, Abstract!Enter
  <2>3. ASSUME NEW t \in Threads, StoreWaitTime(t) PROVE Abstract!Work(t)
    BY <2>3 DEF StoreWaitTime, TmpInv, Phase, Abstract!Work
  <2>4. ASSUME NEW t \in Threads, Unlock(t) PROVE Abstract!Leave(t)
    BY <2>4 DEF Unlock, Phase, Abstract!Leave
  <2>5. ASSUME NEW t \in Threads,
               \/ Test(t) \/ TestAndSet(t) \/ StartSearch(t) \/ Search(t)
               \/ LoadWaitTime(t)
        PROVE  UNCHANGED <<Phase, wait_time>>
    BY <2>5 DEF Test, TestAndSet, StartSearch, Search, LoadWaitTime, Phase
  <2>6. CASE UNCHANGED vars
    BY <2>6 DEF vars, Phase
  <2>. QED
    BY <2>1, <2>2, <2>3, <2>4, <2>5, <2>6 DEF Next, Thread, Over, Abstract!Next
<1>. QED
  BY <1>1, <1>2, BoundedTASInvariant, PTL
  DEF Spec, ImplementsMutex, Abstract!Spec, Abstract!mvars

-----------------------------------------------------------------------------
(* The locks of SpinLock.  The report of main adds up because the sections *)
(* still owed to the accumulator are counted as pairs, one per thread and  *)
(* iteration, of which every store of wait_time removes one.               *)

\* t has added its measurement to wait_time and not yet left the section.
SpinStored(t) == spc[t] \in {"worst", "sworst", "unlock"}
SpinOwedTo(t) == sleft[t] - (IF SpinStored(t) THEN 1 ELSE 0)
SpinOwed ==
  {p \in Spin!Threads \X (1 .. SpinK) : p[2] <= SpinOwedTo(p[1])}

\* The measurement of t is in longest and not yet in worst_time.
Pending(t) == spc[t] \in {"cs", "store", "worst", "sworst"}

\* The shared variables one lock is measured with: who is inside has set the
\* flag, nobody else has, and what it loaded is still what is stored.
SpinLocal(t) ==
  /\ Spin!InCS(t) => lck
  /\ spc[t] = "store" => stmp[t] = swait_time
  /\ spc[t] = "sworst" => stmp[t] = worst_time
  /\ spc[t] # "rem" => sleft[t] > 0
SpinLockInv == \A t \in Spin!Threads : SpinLocal(t)

SpinSumInv ==
  swait_time + Cardinality(SpinOwed) = N * SpinK
SpinWorstInv ==
  kind \in {"TAS", "TTAS", "Backoff"} =>
    /\ (\A t \in Spin!Threads : ~ Pending(t)) => worst_time = longest
    /\ \A t \in Spin!Threads :
         Pending(t) => longest = Spin!Larger(worst_time, waited[t])

SpinInv == /\ Spin!TypeOK /\ Spin!MutualExclusion /\ SpinLockInv /\ SpinSumInv
           /\ SpinWorstInv

SpinNext == (\E t \in Threads : ThreadOf(t)) \/ NextLock \/ AllOver

LEMMA SpinConsts == /\ N \in Nat \ {0} /\ SpinK \in Nat /\ Measures \subseteq Nat
                    /\ MinDelay \in Nat \ {0} /\ MaxDelay \in Nat /\ MinDelay <= MaxDelay
  BY NAssumption, SpinAssumption, DelayAssumption, MeasuresAssumption

LEMMA TimesAreNat == \A w \in Measures \cup {0} : w \in Nat
  BY MeasuresAssumption

\* How the variables of the spinning programs can change.
LEMMA SpinMoves ==
  ASSUME [SpinNext]_allVars
  PROVE  \/ \E t \in Spin!Threads : Spin!Thread(t)
         \/ Spin!NextLock
         \/ UNCHANGED spinVars
  BY DEF SpinNext, ThreadOf, Spinning, Fair, NextLock, AllOver, allVars, spinVars, Spin!Over,
     Spin!vars, Spin!Threads, Threads

\* A step of t leaves the control point and the local variables of the others.
LEMMA SpinOthersStay ==
  ASSUME Spin!TypeOK, NEW t \in Spin!Threads, Spin!Thread(t),
         NEW u \in Spin!Threads, u # t
  PROVE  /\ spc'[u] = spc[u] /\ sleft'[u] = sleft[u] /\ waited'[u] = waited[u]
         /\ stmp'[u] = stmp[u]
  BY DEF Spin!TypeOK, Spin!Thread, Spin!CallLock, Spin!SpinOnLoad, Spin!Acquire, Spin!Retry,
     Spin!BackOff, Spin!LoadWaitTime, Spin!StoreWaitTime, Spin!LoadWorstTime,
     Spin!StoreWorstTime, Spin!Unlock

\* Every step of a spinning thread preserves the types.
LEMMA SpinTypeStep ==
  ASSUME Spin!TypeOK, NEW t \in Spin!Threads, SpinLocal(t), Spin!Thread(t)
  PROVE  Spin!TypeOK'
<1> USE SpinConsts DEF Spin!TypeOK
<1>1. CASE Spin!CallLock(t)
  <2>1. MinDelay \in MinDelay .. MaxDelay
    OBVIOUS
  <2>. QED
    BY <1>1, <2>1 DEF Spin!CallLock
<1>2. CASE Spin!SpinOnLoad(t)
  BY <1>2 DEF Spin!SpinOnLoad
<1>3. CASE Spin!Acquire(t)
  <2>1. PICK w \in Measures : waited' = [waited EXCEPT ![t] = w] /\ longest' = Spin!Larger(longest, w)
    BY <1>3 DEF Spin!Acquire
  <2>2. w \in Nat /\ longest' \in Nat
    BY <2>1 DEF Spin!Larger
  <2>. QED
    BY <1>3, <2>1, <2>2 DEF Spin!Acquire
<1>4. CASE Spin!Retry(t)
  BY <1>4 DEF Spin!Retry
<1>5. CASE Spin!BackOff(t)
  <2>1. Spin!Doubled(limit[t]) \in MinDelay .. MaxDelay
    <3>1. limit[t] \in MinDelay .. MaxDelay
      OBVIOUS
    <3>. QED
      BY <3>1 DEF Spin!Doubled
  <2>. QED
    BY <1>5, <2>1 DEF Spin!BackOff
<1>6. CASE Spin!LoadWaitTime(t)
  BY <1>6 DEF Spin!LoadWaitTime
<1>7. CASE Spin!StoreWaitTime(t)
  BY <1>7 DEF Spin!StoreWaitTime
<1>8. CASE Spin!LoadWorstTime(t)
  BY <1>8 DEF Spin!LoadWorstTime
<1>9. CASE Spin!StoreWorstTime(t)
  <2>1. waited[t] \in Nat
    <3>1. waited[t] \in Measures \cup {0}
      OBVIOUS
    <3>. QED
      BY <3>1, TimesAreNat
  <2>. QED
    BY <1>9, <2>1 DEF Spin!StoreWorstTime, Spin!Larger
<1>10. CASE Spin!Unlock(t)
  <2>1. sleft[t] - 1 \in 0 .. SpinK
    BY <1>10 DEF Spin!Unlock, SpinLocal
  <2>. QED
    BY <1>10, <2>1 DEF Spin!Unlock, Spin!Release
<1>. QED
  BY <1>1, <1>2, <1>3, <1>4, <1>5, <1>6, <1>7, <1>8, <1>9, <1>10 DEF Spin!Thread

\* One thread at a time is inside, it alone changes the accumulators, and the
\* flag is set as long as it is there.
LEMMA SpinLockStep ==
  ASSUME Spin!TypeOK, Spin!MutualExclusion, SpinLockInv,
         NEW t \in Spin!Threads, Spin!Thread(t)
  PROVE  Spin!MutualExclusion' /\ SpinLockInv'
<1> USE DEF Spin!TypeOK
<1>a. SpinLocal(t)
  BY DEF SpinLockInv
<1>1. \A u \in Spin!Threads : u # t => (Spin!InCS(u)' <=> Spin!InCS(u))
  BY SpinOthersStay DEF Spin!InCS
<1>2. \A u \in Spin!Threads : u # t /\ Spin!InCS(t) => ~ Spin!InCS(u)
  BY DEF Spin!MutualExclusion
<1>3. ASSUME ~ Spin!InCS(t), Spin!InCS(t)'
      PROVE  Spin!Acquire(t)
  BY <1>3 DEF Spin!InCS, Spin!Thread, Spin!CallLock, Spin!SpinOnLoad, Spin!Retry, Spin!BackOff,
     Spin!LoadWaitTime, Spin!StoreWaitTime, Spin!LoadWorstTime, Spin!StoreWorstTime,
     Spin!Unlock
<1>4. Spin!Acquire(t) => \A u \in Spin!Threads : ~ Spin!InCS(u)
  BY DEF Spin!Acquire, Spin!WasFree, SpinLockInv, SpinLocal
<1>5. Spin!MutualExclusion'
  <2> SUFFICES ASSUME NEW x \in Spin!Threads, NEW y \in Spin!Threads, x # y,
                      Spin!InCS(x)', Spin!InCS(y)'
               PROVE  FALSE
    BY DEF Spin!MutualExclusion
  <2>1. CASE Spin!InCS(x) /\ Spin!InCS(y)
    BY <2>1 DEF Spin!MutualExclusion
  <2>2. CASE ~ Spin!InCS(x)
    BY <1>1, <1>3, <1>4, <2>2
  <2>3. CASE ~ Spin!InCS(y)
    BY <1>1, <1>3, <1>4, <2>3
  <2>. QED
    BY <2>1, <2>2, <2>3
<1>6. SpinLocal(t)'
  <2>1. CASE Spin!CallLock(t) \/ Spin!SpinOnLoad(t) \/ Spin!Retry(t) \/ Spin!BackOff(t)
    BY <1>a, <2>1 DEF Spin!CallLock, Spin!SpinOnLoad, Spin!Retry, Spin!BackOff, SpinLocal, Spin!InCS
  <2>2. CASE Spin!Acquire(t)
    BY <1>a, <2>2 DEF Spin!Acquire, SpinLocal
  <2>3. CASE Spin!LoadWaitTime(t) \/ Spin!LoadWorstTime(t)
    BY <1>a, <2>3 DEF Spin!LoadWaitTime, Spin!LoadWorstTime, SpinLocal, Spin!InCS
  <2>4. CASE Spin!StoreWaitTime(t) \/ Spin!StoreWorstTime(t)
    BY <1>a, <2>4 DEF Spin!StoreWaitTime, Spin!StoreWorstTime, SpinLocal, Spin!InCS
  <2>5. CASE Spin!Unlock(t)
    BY <1>a, <2>5 DEF Spin!Unlock, SpinLocal, Spin!InCS
  <2>. QED
    BY <2>1, <2>2, <2>3, <2>4, <2>5 DEF Spin!Thread
<1>7. ASSUME NEW u \in Spin!Threads, u # t PROVE SpinLocal(u)'
  <2>1. /\ spc'[u] = spc[u] /\ sleft'[u] = sleft[u] /\ stmp'[u] = stmp[u]
        /\ SpinLocal(u)
    BY <1>7, SpinOthersStay DEF SpinLockInv
  <2>2. CASE ~ Spin!InCS(u)
    BY <2>1, <2>2 DEF SpinLocal, Spin!InCS
  <2>3. CASE Spin!InCS(u)
    <3>1. ~ Spin!InCS(t) /\ lck
      BY <1>2, <1>7, <2>1, <2>3 DEF SpinLocal
    <3>2. swait_time' = swait_time /\ worst_time' = worst_time /\ lck'
      BY <1>4, <2>3, <3>1 DEF Spin!InCS, Spin!Thread, Spin!CallLock, Spin!SpinOnLoad, Spin!Retry,
         Spin!BackOff, Spin!LoadWaitTime, Spin!StoreWaitTime, Spin!LoadWorstTime,
         Spin!StoreWorstTime, Spin!Unlock
    <3>. QED
      BY <2>1, <3>1, <3>2 DEF SpinLocal, Spin!InCS
  <2>. QED
    BY <2>2, <2>3
<1>. QED
  BY <1>5, <1>6, <1>7 DEF SpinLockInv

\* The pairs are finitely many, and all of them at the start.
LEMMA SpinPairs ==
  /\ IsFiniteSet(Spin!Threads \X (1 .. SpinK))
  /\ Cardinality(Spin!Threads \X (1 .. SpinK)) = N * SpinK
<1>1. IsFiniteSet(Spin!Threads) /\ Cardinality(Spin!Threads) = N
  BY FS_Interval, SpinConsts DEF Spin!Threads
<1>2. IsFiniteSet(1 .. SpinK) /\ Cardinality(1 .. SpinK) = SpinK
  BY FS_Interval, SpinConsts
<1>. QED
  BY <1>1, <1>2, FS_Product

LEMMA SpinOwedFinite == IsFiniteSet(SpinOwed) /\ Cardinality(SpinOwed) \in Nat
  BY SpinPairs, FS_Subset, FS_CardinalityType DEF SpinOwed

\* A store of wait_time removes one pair, every other step none.
LEMMA SpinSumStep ==
  ASSUME Spin!TypeOK, SpinLockInv, SpinSumInv, NEW t \in Spin!Threads, Spin!Thread(t)
  PROVE  SpinSumInv'
<1> USE DEF Spin!TypeOK
<1>a. SpinLocal(t)
  BY DEF SpinLockInv
<1>b. ASSUME NEW u \in Spin!Threads, u # t PROVE SpinOwedTo(u)' = SpinOwedTo(u)
  BY <1>b, SpinOthersStay DEF SpinOwedTo, SpinStored
<1>1. CASE Spin!StoreWaitTime(t)
  <2>1. swait_time' = swait_time + 1
    BY <1>a, <1>1 DEF Spin!StoreWaitTime, SpinLocal
  <2>2. /\ sleft[t] \in 1 .. SpinK /\ SpinOwedTo(t) = sleft[t]
        /\ SpinOwedTo(t)' = sleft[t] - 1
    BY <1>a, <1>1, SpinConsts DEF Spin!StoreWaitTime, SpinLocal, SpinOwedTo, SpinStored
  <2>3. <<t, sleft[t]>> \in SpinOwed
    BY <2>2 DEF SpinOwed
  <2>4. SpinOwed' = SpinOwed \ {<<t, sleft[t]>>}
    <3>1. \A u \in Spin!Threads, k \in 1 .. SpinK :
            k <= SpinOwedTo(u)' <=> k <= SpinOwedTo(u) /\ ~ (u = t /\ k = sleft[t])
      BY <1>b, <2>2
    <3>. QED
      BY <3>1 DEF SpinOwed
  <2>5. Cardinality(SpinOwed') = Cardinality(SpinOwed) - 1
    BY <2>3, <2>4, SpinOwedFinite, FS_RemoveElement
  <2>. QED
    BY <2>1, <2>5, SpinOwedFinite DEF SpinSumInv
<1>2. CASE ~ Spin!StoreWaitTime(t)
  <2>1. swait_time' = swait_time
    BY <1>2 DEF Spin!Thread, Spin!CallLock, Spin!SpinOnLoad, Spin!Acquire, Spin!Retry,
       Spin!BackOff, Spin!LoadWaitTime, Spin!LoadWorstTime, Spin!StoreWorstTime, Spin!Unlock
  <2>2. SpinOwedTo(t)' = SpinOwedTo(t)
    <3>1. CASE Spin!Unlock(t)
      BY <1>a, <3>1 DEF Spin!Unlock, SpinOwedTo, SpinStored
    <3>2. CASE ~ Spin!Unlock(t)
      BY <1>2, <3>2 DEF Spin!Thread, Spin!CallLock, Spin!SpinOnLoad, Spin!Acquire, Spin!Retry,
         Spin!BackOff, Spin!LoadWaitTime, Spin!LoadWorstTime, Spin!StoreWorstTime,
         SpinOwedTo, SpinStored
    <3>. QED
      BY <3>1, <3>2
  <2>3. SpinOwed' = SpinOwed
    BY <1>b, <2>2 DEF SpinOwed
  <2>. QED
    BY <2>1, <2>3 DEF SpinSumInv
<1>. QED
  BY <1>1, <1>2

\* worst_time is the longest time measured, but for the one being added.
LEMMA SpinWorstStep ==
  ASSUME Spin!TypeOK, Spin!MutualExclusion, SpinLockInv, SpinWorstInv,
         NEW t \in Spin!Threads, Spin!Thread(t)
  PROVE  SpinWorstInv'
<1> USE DEF Spin!TypeOK
<1>a. SpinLocal(t)
  BY DEF SpinLockInv
<1>b. kind' = kind
  BY DEF Spin!Thread, Spin!CallLock, Spin!SpinOnLoad, Spin!Acquire, Spin!Retry, Spin!BackOff,
     Spin!LoadWaitTime, Spin!StoreWaitTime, Spin!LoadWorstTime, Spin!StoreWorstTime,
     Spin!Unlock
<1> SUFFICES ASSUME kind \in {"TAS", "TTAS", "Backoff"}
             PROVE  /\ (\A u \in Spin!Threads : ~ Pending(u)') => worst_time' = longest'
                    /\ \A u \in Spin!Threads :
                         Pending(u)' => longest' = Spin!Larger(worst_time', waited'[u])
  BY <1>b DEF SpinWorstInv, Spin!Larger
<1>c. /\ (\A u \in Spin!Threads : ~ Pending(u)) => worst_time = longest
      /\ \A u \in Spin!Threads : Pending(u) => longest = Spin!Larger(worst_time, waited[u])
  BY DEF SpinWorstInv
<1>d. \A u \in Spin!Threads : u # t =>
        (Pending(u)' <=> Pending(u)) /\ waited'[u] = waited[u]
  BY SpinOthersStay DEF Pending
<1>e. \A u \in Spin!Threads : u # t /\ Spin!InCS(t) => ~ Pending(u)
  BY DEF Spin!MutualExclusion, Pending, Spin!InCS
<1>1. CASE Spin!Acquire(t)
  <2>1. PICK w \in Measures : /\ waited' = [waited EXCEPT ![t] = w]
                              /\ longest' = Spin!Larger(longest, w)
    BY <1>1 DEF Spin!Acquire
  <2>2. \A u \in Spin!Threads : ~ Pending(u)
    BY <1>1 DEF Spin!Acquire, Spin!WasFree, SpinLockInv, SpinLocal, Pending, Spin!InCS
  <2>3. Pending(t)' /\ worst_time' = longest /\ waited'[t] = w
    BY <1>1, <1>c, <2>1, <2>2 DEF Spin!Acquire, Pending
  <2>. QED
    BY <1>d, <2>1, <2>2, <2>3
<1>2. CASE Spin!StoreWorstTime(t)
  <2>1. longest = Spin!Larger(worst_time, waited[t]) /\ stmp[t] = worst_time
    BY <1>2, <1>a, <1>c DEF Spin!StoreWorstTime, Pending, SpinLocal
  <2>2. worst_time' = longest' /\ ~ Pending(t)'
    BY <1>2, <2>1 DEF Spin!StoreWorstTime, Pending
  <2>3. \A u \in Spin!Threads : ~ Pending(u)'
    BY <1>2, <1>d, <1>e, <2>2 DEF Spin!StoreWorstTime, Spin!InCS
  <2>. QED
    BY <2>2, <2>3
<1>3. CASE ~ Spin!Acquire(t) /\ ~ Spin!StoreWorstTime(t)
  <2>1. waited' = waited /\ worst_time' = worst_time /\ longest' = longest
    BY <1>3 DEF Spin!Thread, Spin!CallLock, Spin!SpinOnLoad, Spin!Retry, Spin!BackOff,
       Spin!LoadWaitTime, Spin!StoreWaitTime, Spin!LoadWorstTime, Spin!Unlock
  <2>2. Pending(t)' <=> Pending(t)
    BY <1>3 DEF Spin!Thread, Spin!CallLock, Spin!SpinOnLoad, Spin!Retry, Spin!BackOff,
       Spin!LoadWaitTime, Spin!StoreWaitTime, Spin!LoadWorstTime, Spin!Unlock, Pending
  <2>. QED
    BY <1>c, <1>d, <2>1, <2>2
<1>. QED
  BY <1>1, <1>2, <1>3

\* A lock is measured from the start: no time, every section owed.
LEMMA SpinFresh ==
  Spin!TypeOK /\ (\A t \in Spin!Threads : spc[t] = "rem" /\ sleft[t] = SpinK)
    /\ swait_time = 0 /\ worst_time = longest
    => SpinInv
<1> SUFFICES ASSUME Spin!TypeOK, \A t \in Spin!Threads : spc[t] = "rem" /\ sleft[t] = SpinK,
                    swait_time = 0, worst_time = longest
             PROVE  SpinInv
  OBVIOUS
<1>1. Spin!MutualExclusion /\ SpinLockInv
  BY DEF Spin!MutualExclusion, SpinLockInv, SpinLocal, Spin!InCS
<1>2. \A t \in Spin!Threads : SpinOwedTo(t) = SpinK
  BY SpinConsts DEF SpinOwedTo, SpinStored
<1>3. SpinOwed = Spin!Threads \X (1 .. SpinK)
  BY <1>2 DEF SpinOwed
<1>4. SpinSumInv
  BY <1>3, SpinPairs, SpinConsts DEF SpinSumInv
<1>5. SpinWorstInv
  BY DEF SpinWorstInv, Pending
<1>. QED
  BY <1>1, <1>4, <1>5 DEF SpinInv

\* main goes on to the next lock.
LEMMA NextLockStep ==
  ASSUME Spin!TypeOK, Spin!NextLock
  PROVE  /\ Spin!TypeOK' /\ (\A t \in Spin!Threads : spc[t] = "rem" /\ sleft[t] = SpinK)'
         /\ swait_time' = 0 /\ worst_time' = longest'
<1>1. \A t \in Spin!Threads : spc'[t] = "rem" /\ sleft'[t] = SpinK
  BY DEF Spin!NextLock, Spin!Joined, Spin!Finished
<1>2. sleft' \in [Spin!Threads -> 0 .. SpinK]
  BY SpinConsts DEF Spin!NextLock
<1>3. /\ kind' \in Spin!Kinds /\ lck' \in BOOLEAN
      /\ swait_time' \in Nat /\ worst_time' \in Nat /\ longest' \in Nat
  BY DEF Spin!NextLock, Spin!Kinds
<1>4. /\ spc' = spc /\ limit' = limit /\ waited' = waited /\ stmp' = stmp
      /\ swait_time' = 0 /\ worst_time' = longest'
  BY DEF Spin!NextLock
<1>. QED
  BY <1>1, <1>2, <1>3, <1>4 DEF Spin!TypeOK

\* The inductive invariant of the spinning programs.
THEOREM SpinInvariant == Programs => []SpinInv
<1>1. Start => SpinInv
  <2> SUFFICES ASSUME Start PROVE SpinInv
    OBVIOUS
  <2>1. MinDelay \in MinDelay .. MaxDelay
    BY SpinConsts
  <2>2. /\ Spin!TypeOK /\ (\A t \in Spin!Threads : spc[t] = "rem" /\ sleft[t] = SpinK)
        /\ swait_time = 0 /\ worst_time = longest
    <3>1. /\ limit \in [Spin!Threads -> MinDelay .. MaxDelay]
          /\ sleft \in [Spin!Threads -> 0 .. SpinK]
          /\ waited \in [Spin!Threads -> Measures \cup {0}]
      BY <2>1, SpinConsts DEF Start, Spin!Init
    <3>. QED
      BY <3>1, SpinConsts DEF Start, Spin!Init, Spin!TypeOK, Spin!Kinds
  <2>. QED
    BY <2>2, SpinFresh
<1>2. SpinInv /\ [SpinNext]_allVars => SpinInv'
  <2> SUFFICES ASSUME SpinInv, [SpinNext]_allVars PROVE SpinInv'
    OBVIOUS
  <2>1. ASSUME NEW t \in Spin!Threads, Spin!Thread(t) PROVE SpinInv'
    <3>1. Spin!TypeOK'
      BY <2>1, SpinTypeStep DEF SpinInv, SpinLockInv
    <3>2. Spin!MutualExclusion' /\ SpinLockInv'
      BY <2>1, SpinLockStep DEF SpinInv
    <3>3. SpinSumInv' /\ SpinWorstInv'
      BY <2>1, SpinSumStep, SpinWorstStep DEF SpinInv
    <3>. QED
      BY <3>1, <3>2, <3>3 DEF SpinInv
  <2>2. CASE Spin!NextLock
    <3>1. /\ Spin!TypeOK' /\ (\A t \in Spin!Threads : spc[t] = "rem" /\ sleft[t] = SpinK)'
          /\ (swait_time = 0)' /\ (worst_time = longest)'
      BY <2>2, NextLockStep DEF SpinInv
    <3>. QED
      BY <3>1, SpinFresh, PTL
  <2>3. CASE UNCHANGED spinVars
    BY <2>3 DEF spinVars, SpinInv, Spin!TypeOK, Spin!MutualExclusion, Spin!InCS, SpinLockInv,
       SpinLocal, SpinSumInv, SpinOwed, SpinOwedTo, SpinStored, SpinWorstInv, Pending,
       Spin!Larger
  <2>. QED
    BY <2>1, <2>2, <2>3, SpinMoves
<1>. QED
  BY <1>1, <1>2, PTL DEF Programs, SpinNext

\* Every spinning lock is exclusive, its back-off stays within its limits, and
\* what main prints for it accounts for all its sections.
THEOREM SpinLocksSafety == Programs => []SpinSafety
<1>1. SpinInv => SpinSafety
  <2> SUFFICES ASSUME SpinInv PROVE SpinSafety
    OBVIOUS
  <2>1. ASSUME Spin!Joined
        PROVE  swait_time = N * SpinK
    <3>1. \A t \in Spin!Threads : SpinOwedTo(t) = 0
      BY <2>1 DEF Spin!Joined, Spin!Finished, SpinOwedTo, SpinStored
    <3>2. SpinOwed = {}
      BY <3>1 DEF SpinOwed
    <3>. QED
      BY <3>2, FS_EmptySet DEF SpinInv, SpinSumInv, Spin!TypeOK
  <2>2. ASSUME Spin!Joined, kind \in {"TAS", "TTAS", "Backoff"}
        PROVE  worst_time = longest
    BY <2>2 DEF Spin!Joined, Spin!Finished, SpinInv, SpinWorstInv, Pending
  <2>. QED
    BY <2>1, <2>2 DEF SpinInv, SpinSafety, Spin!Safety, Spin!ReportIsExact
<1>. QED
  BY <1>1, SpinInvariant, PTL

\* What is proved of the fair program alone holds where its module is run: the
\* other program leaves its variables alone.
THEOREM ProgramsRunBoundedTAS == Programs => Spec
<1>1. Start => Init
  BY DEF Start
<1>2. [(\E t \in Threads : ThreadOf(t)) \/ NextLock \/ AllOver]_allVars => [Next]_vars
  BY DEF ThreadOf, Fair, Spinning, NextLock, AllOver, allVars, Next, vars
<1>. QED
  BY <1>1, <1>2, PTL DEF Programs, Spec
=============================================================================
