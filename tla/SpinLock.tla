------------------------------ MODULE SpinLock ------------------------------
(***************************************************************************)
(* The locks that spin on one atomic flag: TASLock, TTASLock and           *)
(* BackoffLock of assignment/pcp/a5/b.cpp, which main measures one after   *)
(* the other with the same threads, and the test-and-set and compare-and-  *)
(* swap programs of "assignment/OS 2/A2", which measure one lock each.     *)
(***************************************************************************)
EXTENDS Integers

CONSTANTS N, K,                 \* threads, critical sections per thread
          MinDelay, MaxDelay,   \* limits of the back-off (4 and 128)
          Measures              \* bound: the waiting times a clock may show
                                \* (TestAndSetLocks states what they must be)

Threads == 0 .. N - 1
Kinds   == {"TAS", "TTAS", "Backoff", "OS2TAS", "OS2CAS"}

VARIABLES kind,                     \* the lock main is measuring
          lck,                      \* the atomic flag
          pc, limit, left,          \* control point, back-off limit, iterations
          waited,                   \* the waiting time a thread has measured
          wait_time, worst_time,    \* the shared accumulators
          tmp,                      \* the value of one of them a thread loaded
          longest                   \* history: the longest time measured so far

vars == <<kind, lck, pc, limit, left, waited, wait_time, worst_time, tmp, longest>>

InCS(t)     == pc[t] \in {"cs", "store", "worst", "sworst", "unlock"}
Finished(t) == pc[t] = "rem" /\ left[t] = 0
Larger(a, b) == IF a > b THEN a ELSE b

-----------------------------------------------------------------------------
Init ==
  /\ kind \in {"TAS", "OS2TAS", "OS2CAS"}
  /\ lck = FALSE
  /\ pc = [t \in Threads |-> "rem"]
  /\ left = [t \in Threads |-> K]
  /\ wait_time = 0 /\ worst_time = 0 /\ longest = 0
  /\ limit = [t \in Threads |-> MinDelay]
  /\ waited = [t \in Threads |-> 0]
  /\ tmp = [t \in Threads |-> 0]

\* lock() is called: the test-and-set locks go straight to the exchange, the
\* others first spin on loads; BackoffLock makes a new Backoff.
CallLock(t) ==
  /\ pc[t] = "rem" /\ left[t] > 0
  /\ pc' = [pc EXCEPT ![t] = IF kind \in {"TTAS", "Backoff"} THEN "load" ELSE "swap"]
  /\ limit' = [limit EXCEPT ![t] = MinDelay]
  /\ UNCHANGED <<kind, lck, left, waited, wait_time, worst_time, tmp, longest>>

\* while(lck.load());
SpinOnLoad(t) ==
  /\ pc[t] = "load"
  /\ pc' = [pc EXCEPT ![t] = IF lck THEN "load" ELSE "swap"]
  /\ UNCHANGED <<kind, lck, limit, left, waited, wait_time, worst_time, tmp, longest>>

\* lck.exchange(true), atomic_flag_test_and_set and the compare-and-exchange
\* of 0 by 1: all set the flag and tell whether it was set.  Entering takes
\* the clock.  Mutated form: the old value is not looked at.
WasFree_m == TRUE
WasFree == ~ lck

Acquire(t) ==
  /\ pc[t] = "swap" /\ WasFree
  /\ lck' = TRUE
  /\ \E w \in Measures :
       /\ waited' = [waited EXCEPT ![t] = w]
       /\ longest' = Larger(longest, w)
  /\ pc' = [pc EXCEPT ![t] = "cs"]
  /\ UNCHANGED <<kind, limit, left, wait_time, worst_time, tmp>>

Retry(t) ==
  /\ pc[t] = "swap" /\ ~ WasFree
  /\ pc' = [pc EXCEPT ![t] = CASE kind = "TTAS" -> "load"
                               [] kind = "Backoff" -> "sleep"
                               [] OTHER -> "swap"]
  /\ UNCHANGED <<kind, lck, limit, left, waited, wait_time, worst_time, tmp, longest>>

\* Backoff::backoff: the limit doubles up to the maximum, and the thread
\* sleeps.  Mutated form: the maximum is forgotten.
Doubled_m(l) == 2 * l
Doubled(l) == IF MaxDelay < 2 * l THEN MaxDelay ELSE 2 * l

BackOff(t) ==
  /\ pc[t] = "sleep"
  /\ limit' = [limit EXCEPT ![t] = Doubled(@)]
  /\ pc' = [pc EXCEPT ![t] = "load"]
  /\ UNCHANGED <<kind, lck, left, waited, wait_time, worst_time, tmp, longest>>

\* wait_time += _wt.count(): a load and a store, one unit per measurement.
LoadWaitTime(t) ==
  /\ pc[t] = "cs"
  /\ tmp' = [tmp EXCEPT ![t] = wait_time]
  /\ pc' = [pc EXCEPT ![t] = "store"]
  /\ UNCHANGED <<kind, lck, limit, left, waited, wait_time, worst_time, longest>>

StoreWaitTime(t) ==
  /\ pc[t] = "store"
  /\ wait_time' = tmp[t] + 1
  /\ pc' = [pc EXCEPT ![t] = IF kind \in {"OS2TAS", "OS2CAS"} THEN "unlock" ELSE "worst"]
  /\ UNCHANGED <<kind, lck, limit, left, waited, worst_time, tmp, longest>>

\* worst_time = worst_time > w ? worst_time : w.
LoadWorstTime(t) ==
  /\ pc[t] = "worst"
  /\ tmp' = [tmp EXCEPT ![t] = worst_time]
  /\ pc' = [pc EXCEPT ![t] = "sworst"]
  /\ UNCHANGED <<kind, lck, limit, left, waited, wait_time, worst_time, longest>>

StoreWorstTime(t) ==
  /\ pc[t] = "sworst"
  /\ worst_time' = Larger(tmp[t], waited[t])
  /\ pc' = [pc EXCEPT ![t] = "unlock"]
  /\ UNCHANGED <<kind, lck, limit, left, waited, wait_time, tmp, longest>>

\* unlock().  Mutated form: the flag is not cleared.
Release_m == UNCHANGED lck
Release == lck' = FALSE

Unlock(t) ==
  /\ pc[t] = "unlock"
  /\ Release
  /\ left' = [left EXCEPT ![t] = @ - 1]
  /\ pc' = [pc EXCEPT ![t] = "rem"]
  /\ UNCHANGED <<kind, limit, waited, wait_time, worst_time, tmp, longest>>

Thread(t) ==
  \/ CallLock(t) \/ SpinOnLoad(t) \/ Acquire(t) \/ Retry(t) \/ BackOff(t)
  \/ LoadWaitTime(t) \/ StoreWaitTime(t) \/ LoadWorstTime(t)
  \/ StoreWorstTime(t) \/ Unlock(t)

\* main has joined every thread, reports, and measures the next lock.
Joined == \A t \in Threads : Finished(t)

NextLock ==
  /\ Joined
  /\ kind \in {"TAS", "TTAS"}
  /\ kind' = IF kind = "TAS" THEN "TTAS" ELSE "Backoff"
  /\ left' = [t \in Threads |-> K]
  /\ lck' = FALSE                                 \* its own flag
  /\ wait_time' = 0 /\ worst_time' = 0 /\ longest' = 0
  /\ UNCHANGED <<pc, limit, waited, tmp>>

Over == Joined /\ kind \notin {"TAS", "TTAS"} /\ UNCHANGED vars

Next == (\E t \in Threads : Thread(t)) \/ NextLock \/ Over

Spec == Init /\ [][Next]_vars

\* The operating system runs every thread, main included.
FairSpec == Spec /\ (\A t \in Threads : WF_vars(Thread(t))) /\ WF_vars(NextLock)

-----------------------------------------------------------------------------
\* The back-off limit stays positive and within maxDelay, so that rand() %
\* limit is defined and the sleep bounded.
TypeOK ==
  /\ kind \in Kinds
  /\ lck \in BOOLEAN
  /\ pc \in [Threads -> {"rem", "load", "swap", "sleep", "cs", "store",
                         "worst", "sworst", "unlock"}]
  /\ limit \in [Threads -> MinDelay .. MaxDelay]
  /\ left \in [Threads -> 0 .. K]
  /\ waited \in [Threads -> Measures \cup {0}]
  /\ tmp \in [Threads -> Nat]
  /\ wait_time \in Nat /\ worst_time \in Nat /\ longest \in Nat

\* No two threads are between a successful exchange and the store of unlock.
MutualExclusion ==
  \A t, u \in Threads : t # u => ~ (InCS(t) /\ InCS(u))

\* The lock is exclusive, and the back-off limit stays between minDelay and
\* maxDelay (part of TypeOK).
Safety == TypeOK /\ MutualExclusion

\* What main prints for a lock is true of all its critical sections: no
\* waiting time is missing from the sum, and none exceeds the worst.
ReportIsExact ==
  Joined => /\ wait_time = N * K
            /\ kind \in {"TAS", "TTAS", "Backoff"} => worst_time = longest

\* A spinning thread may be overtaken for as long as others come back, yet
\* every thread finishes its K sections and main gets to its end.
MainReturns == <>(Joined /\ kind \notin {"TAS", "TTAS"})
=============================================================================
