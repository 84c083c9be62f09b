----------------------------- MODULE FilterLock -----------------------------
(***************************************************************************)
(* The filter lock of assignment/pcp/a2/b.cpp and the threads (testCS2)    *)
(* that take it k times each.  The book's lock waits while SOME other      *)
(* thread is at my level or above; this one asks the threads one after the *)
(* other, each answer two loads, and never looks back.                     *)
(***************************************************************************)
EXTENDS Integers, FiniteSets

CONSTANTS N,    \* number of threads (n of inp-params.txt), positive
          K     \* critical sections each thread executes (k)

Threads == 0 .. N - 1

VARIABLES level, victim,        \* the two shared arrays
          pc, i, j,             \* control point and the two loop indices
          left,                 \* iterations of testCS2 still to run
          wait_time, tmp        \* the shared accumulator, the value loaded

vars == <<level, victim, pc, i, j, left, wait_time, tmp>>

InCS(t)     == pc[t] \in {"cs", "store", "unlock"}
Climbing(t) == pc[t] \in {"level", "victim", "rlevel", "rvictim"}
Finished(t) == pc[t] = "rem" /\ left[t] = 0
Nobody      == -1               \* victim is allocated and never initialised

-----------------------------------------------------------------------------
Init ==
  /\ level = [t \in Threads |-> 0]
  /\ victim = [l \in 1 .. N - 1 |-> Nobody]
  /\ pc = [t \in Threads |-> "rem"]
  /\ i = [t \in Threads |-> 0]
  /\ j = [t \in Threads |-> 0]
  /\ left = [t \in Threads |-> K]
  /\ wait_time = 0
  /\ tmp = [t \in Threads |-> 0]

\* Lock is called.
CallLock(t) ==
  /\ pc[t] = "rem" /\ left[t] > 0
  /\ i' = [i EXCEPT ![t] = 1]
  /\ pc' = [pc EXCEPT ![t] = "level"]
  /\ UNCHANGED <<level, victim, j, left, wait_time, tmp>>

\* The outer loop runs over the levels 1 .. n - 1.
LastLevel == N - 1

\* level[me] = i
SetLevel(t) ==
  /\ pc[t] = "level" /\ i[t] <= LastLevel
  /\ level' = [level EXCEPT ![t] = i[t]]
  /\ pc' = [pc EXCEPT ![t] = "victim"]
  /\ UNCHANGED <<victim, i, j, left, wait_time, tmp>>

\* victim[i] = me.  Mutated form: only the first level is contested.
Contested_m(l) == 1
Contested(l) == l

SetVictim(t) ==
  /\ pc[t] = "victim"
  /\ victim' = [victim EXCEPT ![Contested(i[t])] = t]
  /\ j' = [j EXCEPT ![t] = 0]
  /\ pc' = [pc EXCEPT ![t] = "rlevel"]
  /\ UNCHANGED <<level, i, left, wait_time, tmp>>

\* The inner loop: skip me, then level[j] >= i, then victim[i] == me.
SkipSelf(t) ==
  /\ pc[t] = "rlevel" /\ j[t] = t
  /\ j' = [j EXCEPT ![t] = @ + 1]
  /\ UNCHANGED <<level, victim, pc, i, left, wait_time, tmp>>

Above_m(t, u) == level[u] > i[t]                  \* >= mistyped as >
Above(t, u) == level[u] >= i[t]

ReadLevel(t) ==
  /\ pc[t] = "rlevel" /\ j[t] \notin {t, N}
  /\ IF Above(t, j[t])
     THEN pc' = [pc EXCEPT ![t] = "rvictim"] /\ UNCHANGED j
     ELSE j' = [j EXCEPT ![t] = @ + 1] /\ UNCHANGED pc
  /\ UNCHANGED <<level, victim, i, left, wait_time, tmp>>

ReadVictim(t) ==
  /\ pc[t] = "rvictim"
  /\ pc' = [pc EXCEPT ![t] = "rlevel"]
  /\ IF victim[i[t]] = t
     THEN UNCHANGED j
     ELSE j' = [j EXCEPT ![t] = @ + 1]
  /\ UNCHANGED <<level, victim, i, left, wait_time, tmp>>

\* The inner loop is over: the next level, or the critical section.
NextLevel(t) ==
  /\ pc[t] = "rlevel" /\ j[t] = N
  /\ i' = [i EXCEPT ![t] = @ + 1]
  /\ pc' = [pc EXCEPT ![t] = "level"]
  /\ UNCHANGED <<level, victim, j, left, wait_time, tmp>>

EnterCS(t) ==
  /\ pc[t] = "level" /\ i[t] > LastLevel
  /\ pc' = [pc EXCEPT ![t] = "cs"]
  /\ UNCHANGED <<level, victim, i, j, left, wait_time, tmp>>

\* wait_time += _wt.count(): a load and a store, one unit per measurement.
LoadWaitTime(t) ==
  /\ pc[t] = "cs"
  /\ tmp' = [tmp EXCEPT ![t] = wait_time]
  /\ pc' = [pc EXCEPT ![t] = "store"]
  /\ UNCHANGED <<level, victim, i, j, left, wait_time>>

StoreWaitTime(t) ==
  /\ pc[t] = "store"
  /\ wait_time' = tmp[t] + 1
  /\ pc' = [pc EXCEPT ![t] = "unlock"]
  /\ UNCHANGED <<level, victim, i, j, left, tmp>>

Descend_m(t) == UNCHANGED level                   \* Unlock forgets its store
Descend(t) == level' = [level EXCEPT ![t] = 0]

Unlock(t) ==
  /\ pc[t] = "unlock"
  /\ Descend(t)
  /\ left' = [left EXCEPT ![t] = @ - 1]
  /\ pc' = [pc EXCEPT ![t] = "rem"]
  /\ UNCHANGED <<victim, i, j, wait_time, tmp>>

Thread(t) ==
  \/ CallLock(t) \/ SetLevel(t) \/ SetVictim(t) \/ SkipSelf(t) \/ ReadLevel(t)
  \/ ReadVictim(t) \/ NextLevel(t) \/ EnterCS(t)
  \/ LoadWaitTime(t) \/ StoreWaitTime(t) \/ Unlock(t)

\* main has joined every thread.
Over == (\A t \in Threads : Finished(t)) /\ UNCHANGED vars

Next == (\E t \in Threads : Thread(t)) \/ Over

Spec == Init /\ [][Next]_vars

\* The operating system runs every thread.
FairSpec == Spec /\ \A t \in Threads : WF_vars(Thread(t))

-----------------------------------------------------------------------------
\* The arrays and loop indices of Lock stay in range.
TypeOK ==
  /\ level \in [Threads -> 0 .. N - 1]
  /\ victim \in [1 .. N - 1 -> Threads \cup {Nobody}]
  /\ pc \in [Threads -> {"rem", "level", "victim", "rlevel", "rvictim",
                         "cs", "store", "unlock"}]
  /\ i \in [Threads -> 0 .. N]
  /\ j \in [Threads -> 0 .. N]
  /\ left \in [Threads -> 0 .. K]
  /\ wait_time \in Nat
  /\ tmp \in [Threads -> Nat]

\* No two threads are between the return of Lock and the store of Unlock.
MutualExclusion ==
  \A t, u \in Threads : t # u => ~ (InCS(t) /\ InCS(u))

\* The filter: at most N - l threads have climbed past level l, counting a
\* thread as past it once its inner loop for l is over, although the loop
\* looks at the others one by one.
Past(t, l) == InCS(t) \/ (Climbing(t) /\ i[t] > l)
FilterNarrows ==
  \A l \in 0 .. N - 1 : Cardinality({t \in Threads : Past(t, l)}) <= N - l

\* The state of the filter lock is well formed, exclusive and narrows level by
\* level.
Safety == TypeOK /\ MutualExclusion /\ FilterNarrows

\* Every thread that calls Lock gets the critical section: each level has a
\* victim, and a newcomer frees the one that waits there.
LockIsGranted == \A t \in Threads : Climbing(t) ~> InCS(t)

Phase ==
  [t \in Threads |-> CASE pc[t] = "rem" -> "rem"
                       [] pc[t] \in {"cs", "store"} -> "cs"
                       [] pc[t] = "unlock" -> "out"
                       [] OTHER -> "try"]

Abstract == INSTANCE Mutex WITH phase <- Phase, total <- wait_time

\* Every step of testCS2 is a step of the abstract mutex or leaves it alone:
\* no update of wait_time is lost.
ImplementsMutex == Abstract!Spec
=============================================================================
