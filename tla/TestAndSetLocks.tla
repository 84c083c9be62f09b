--------------------------- MODULE TestAndSetLocks ---------------------------
(***************************************************************************)
(* The programs that wait for an atomic flag.  First the bounded-waiting   *)
(* one of "assignment/OS 2/A2/Assgn2-TAS_Faircs16btech11038.cpp": a        *)
(* leaving thread looks for the next waiting thread in cyclic order and    *)
(* hands the lock to it by clearing its waiting flag; only if nobody waits *)
(* does it free the lock.  The second part adds those of SpinLock: each    *)
(* program is started on its own, running names the one a behaviour is a   *)
(* run of, and the other stays as it would start.                          *)
(***************************************************************************)
EXTENDS Integers

CONSTANTS N, K      \* threads, critical sections per thread

ASSUME NAssumption == N \in Nat \ {0}
ASSUME KAssumption == K \in Nat

Threads == 0 .. N - 1

VARIABLES waiting, lock,        \* shared: the waiting flags, the atomic flag
          pc, key, j, left,     \* control point, locals key and j, iterations
          wait_time, tmp,       \* the shared accumulator, the value loaded
          bypassed              \* history: of each thread, the entries of each
                                \* other one since it asked

vars == <<waiting, lock, pc, key, j, left, wait_time, tmp, bypassed>>

Asking(t)   == pc[t] \in {"test", "tas", "clear"}
InCS(t)     == pc[t] \in {"cs", "scan", "load", "store", "unlock"}
Finished(t) == pc[t] = "rem" /\ left[t] = 0

\* The thread after t in cyclic order.
After(t) == (t + 1) % N

-----------------------------------------------------------------------------
Init ==
  /\ waiting = [t \in Threads |-> FALSE]
  /\ lock = FALSE
  /\ pc = [t \in Threads |-> "rem"]
  /\ key = [t \in Threads |-> FALSE]
  /\ j = [t \in Threads |-> 0]
  /\ left = [t \in Threads |-> K]
  /\ wait_time = 0
  /\ tmp = [t \in Threads |-> 0]
  /\ bypassed = [t \in Threads |-> [u \in Threads |-> 0]]

\* waiting[id] = true; key = true
Ask(t) ==
  /\ pc[t] = "rem" /\ left[t] > 0
  /\ waiting' = [waiting EXCEPT ![t] = TRUE]
  /\ key' = [key EXCEPT ![t] = TRUE]
  /\ bypassed' = [bypassed EXCEPT ![t] = [u \in Threads |-> 0]]
  /\ pc' = [pc EXCEPT ![t] = "test"]
  /\ UNCHANGED <<lock, j, left, wait_time, tmp>>

\* while(waiting[id] && key): the condition.
Test(t) ==
  /\ pc[t] = "test"
  /\ pc' = [pc EXCEPT ![t] = IF waiting[t] /\ key[t] THEN "tas" ELSE "clear"]
  /\ UNCHANGED <<waiting, lock, key, j, left, wait_time, tmp, bypassed>>

\* key = atomic_flag_test_and_set(&lock), one indivisible step.
TestAndSet(t) ==
  /\ pc[t] = "tas"
  /\ key' = [key EXCEPT ![t] = lock]
  /\ lock' = TRUE
  /\ pc' = [pc EXCEPT ![t] = "test"]
  /\ UNCHANGED <<waiting, j, left, wait_time, tmp, bypassed>>

\* waiting[id] = false: the thread is in.  Mutated form: the store is left
\* out, as if key alone told who holds the lock.
StopWaiting_m(t) == UNCHANGED waiting
StopWaiting(t) == waiting' = [waiting EXCEPT ![t] = FALSE]

EnterCS(t) ==
  /\ pc[t] = "clear"
  /\ StopWaiting(t)
  /\ bypassed' = [u \in Threads |->
                    IF Asking(u) /\ u # t THEN [bypassed[u] EXCEPT ![t] = @ + 1]
                                          ELSE bypassed[u]]
  /\ pc' = [pc EXCEPT ![t] = "cs"]
  /\ UNCHANGED <<lock, key, j, left, wait_time, tmp>>

\* j = (id + 1) % n.  Mutated form: the search starts at 0 instead.
FirstToAsk_m(t) == 0
FirstToAsk(t) == After(t)

StartSearch(t) ==
  /\ pc[t] = "cs"
  /\ j' = [j EXCEPT ![t] = FirstToAsk(t)]
  /\ pc' = [pc EXCEPT ![t] = "scan"]
  /\ UNCHANGED <<waiting, lock, key, left, wait_time, tmp, bypassed>>

\* while ((j != id) && !waiting[j]) j = (j + 1) % n
Search(t) ==
  /\ pc[t] = "scan"
  /\ IF j[t] # t /\ ~ waiting[j[t]]
     THEN j' = [j EXCEPT ![t] = After(@)] /\ UNCHANGED pc
     ELSE pc' = [pc EXCEPT ![t] = "load"] /\ UNCHANGED j
  /\ UNCHANGED <<waiting, lock, key, left, wait_time, tmp, bypassed>>

\* wait_time += _wt.count(): a load and a store, one unit per measurement.
LoadWaitTime(t) ==
  /\ pc[t] = "load"
  /\ tmp' = [tmp EXCEPT ![t] = wait_time]
  /\ pc' = [pc EXCEPT ![t] = "store"]
  /\ UNCHANGED <<waiting, lock, key, j, left, wait_time, bypassed>>

StoreWaitTime(t) ==
  /\ pc[t] = "store"
  /\ wait_time' = tmp[t] + 1
  /\ pc' = [pc EXCEPT ![t] = "unlock"]
  /\ UNCHANGED <<waiting, lock, key, j, left, tmp, bypassed>>

\* Free the lock if the search came back to the thread itself, hand it over
\* otherwise.  Mutated form: the hand-over also frees the lock.
HandOver_m2(t) ==
  /\ lock' = FALSE
  /\ waiting' = IF j[t] = t THEN waiting ELSE [waiting EXCEPT ![j[t]] = FALSE]
HandOver(t) ==
  IF j[t] = t
  THEN lock' = FALSE /\ UNCHANGED waiting
  ELSE waiting' = [waiting EXCEPT ![j[t]] = FALSE] /\ UNCHANGED lock

Unlock(t) ==
  /\ pc[t] = "unlock"
  /\ HandOver(t)
  /\ left' = [left EXCEPT ![t] = @ - 1]
  /\ pc' = [pc EXCEPT ![t] = "rem"]
  /\ UNCHANGED <<key, j, wait_time, tmp, bypassed>>

Thread(t) ==
  \/ Ask(t) \/ Test(t) \/ TestAndSet(t) \/ EnterCS(t) \/ StartSearch(t)
  \/ Search(t) \/ LoadWaitTime(t) \/ StoreWaitTime(t) \/ Unlock(t)

\* main has joined every thread.
Over == (\A t \in Threads : Finished(t)) /\ UNCHANGED vars

Next == (\E t \in Threads : Thread(t)) \/ Over

Spec == Init /\ [][Next]_vars

-----------------------------------------------------------------------------
\* The variables keep their types; j stays an index of waiting.
TypeOK ==
  /\ waiting \in [Threads -> BOOLEAN]
  /\ lock \in BOOLEAN
  /\ pc \in [Threads -> {"rem", "test", "tas", "clear", "cs", "scan", "load",
                         "store", "unlock"}]
  /\ key \in [Threads -> BOOLEAN]
  /\ j \in [Threads -> Threads]
  /\ left \in [Threads -> 0 .. K]
  /\ wait_time \in Nat
  /\ tmp \in [Threads -> Nat]
  /\ bypassed \in [Threads -> [Threads -> Nat]]

\* The lock is never both handed over and taken: one thread at a time.
MutualExclusion ==
  \A t, u \in Threads : t # u => ~ (InCS(t) /\ InCS(u))

\* "Bounded Time": between the moment a thread raises its waiting flag and its
\* entry every other thread enters at most once.
BoundedWaiting == \A t, u \in Threads : bypassed[t][u] <= 1

\* The lock is exclusive, and the index the search leaves behind is a thread's
\* (part of TypeOK), so that the hand-over stays inside the array waiting.
Safety == TypeOK /\ MutualExclusion

\* The lock is freed only when nobody the search saw is waiting, and whoever
\* waits is let in.
LockIsGranted == \A t \in Threads : pc[t] = "test" ~> InCS(t)

Phase ==
  [t \in Threads |-> CASE pc[t] = "rem" -> "rem"
                       [] pc[t] \in {"test", "tas", "clear"} -> "try"
                       [] pc[t] = "unlock" -> "out"
                       [] OTHER -> "cs"]

Abstract == INSTANCE Mutex WITH phase <- Phase, total <- wait_time

\* Every step of testCS is a step of the abstract mutex or leaves it alone:
\* no update of wait_time is lost.
ImplementsMutex == Abstract!Spec

-----------------------------------------------------------------------------
(* The programs side by side.                                              *)

CONSTANTS SpinK,                          \* critical sections per spinning thread
          MinDelay, MaxDelay, Measures

ASSUME SpinAssumption == SpinK \in Nat
ASSUME DelayAssumption == MinDelay \in Nat \ {0} /\ MaxDelay \in Nat
                          /\ MinDelay <= MaxDelay
ASSUME MeasuresAssumption == Measures \subseteq Nat /\ Measures # {}

VARIABLES running, kind, lck, spc, limit, sleft, waited, swait_time, worst_time,
          stmp, longest

Spin == INSTANCE SpinLock WITH
  K <- SpinK, pc <- spc, left <- sleft, wait_time <- swait_time, tmp <- stmp

spinVars == <<kind, lck, spc, limit, sleft, waited, swait_time, worst_time, stmp, longest>>
allVars  == <<running, vars, spinVars>>

-----------------------------------------------------------------------------
Start ==
  /\ Init /\ Spin!Init
  /\ running \in {"fair", "spin"}
  /\ running = "fair" => kind = "TAS"

Fair(A)     == running = "fair" /\ A /\ UNCHANGED <<running, spinVars>>
Spinning(A) == running = "spin" /\ A /\ UNCHANGED <<running, vars>>

\* The steps of thread t, in whichever program runs.
ThreadOf(t) == Fair(Thread(t)) \/ Spinning(Spin!Thread(t))

NextLock == Spinning(Spin!NextLock)

AllOver == Fair(Over) \/ Spinning(Spin!Over)

\* The operating system runs every thread.
Programs ==
  /\ Start /\ [][(\E t \in Threads : ThreadOf(t)) \/ NextLock \/ AllOver]_allVars
  /\ (\A t \in Threads : WF_allVars(ThreadOf(t))) /\ WF_allVars(NextLock)

-----------------------------------------------------------------------------
\* At most one spinning thread is inside, which is what the lock's flag says,
\* and the back-off limit stays between MinDelay and MaxDelay.  The total and
\* the worst waiting time main prints lose no thread's measurement, however the
\* loads and stores of the threads fall.
SpinSafety == Spin!Safety /\ Spin!ReportIsExact

\* The spinning threads end and main goes on to the last of the locks it
\* measures.
MainReturns == <>(running = "spin" => Spin!Joined /\ kind \notin {"TAS", "TTAS"})
=============================================================================
