----------------------------- MODULE BakeryLock -----------------------------
(***************************************************************************)
(* The bakery lock of assignment/pcp/a2/b.cpp and the threads (testCS1)    *)
(* that take it k times each.  Every load and every store of the shared    *)
(* arrays is a step of its own.  The seq_cst fences of the source order    *)
(* each store before the loads that follow it, so the steps interleave.    *)
(***************************************************************************)
EXTENDS Integers, FiniteSets

CONSTANTS N,          \* number of threads (n of inp-params.txt)
          K,          \* critical sections each thread executes (k)
          LabelMax    \* INT64_MAX, the largest label

ASSUME NAssumption == N \in Nat \ {0}
ASSUME KAssumption == K \in Nat
ASSUME LabelAssumption == LabelMax \in Nat \ {0}

Threads == 0 .. N - 1

VARIABLES flag, label,          \* the two shared arrays
          pc, idx, maxLabel,    \* control point, loop index, local maximum
          left,                 \* iterations of testCS1 still to run
          wait_time, tmp,       \* the shared accumulator, the value loaded
          exited,               \* exit(1) was called
          ahead                 \* history: who had its label when I began

vars == <<flag, label, pc, idx, maxLabel, left, wait_time, tmp, exited, ahead>>

Waiting(t)  == pc[t] \in {"wflag", "wless", "wequal"}
InCS(t)     == pc[t] \in {"cs", "store", "unlock"}
Finished(t) == pc[t] = "rem" /\ left[t] = 0

-----------------------------------------------------------------------------
Init ==
  /\ flag = [t \in Threads |-> FALSE]
  /\ label = [t \in Threads |-> 0]
  /\ pc = [t \in Threads |-> "rem"]
  /\ idx = [t \in Threads |-> 0]
  /\ maxLabel = [t \in Threads |-> 0]
  /\ left = [t \in Threads |-> K]
  /\ wait_time = 0
  /\ tmp = [t \in Threads |-> 0]
  /\ exited = FALSE
  /\ ahead = [t \in Threads |-> {}]

\* The operators ending in _m are mutated forms: the slip each stands for is
\* named beside it, and the definition after it is the code's own.
Tie_m(t, j) == FALSE                              \* the tie is not broken
Tie(t, j) == label[j] = label[t] /\ j < t

NextLabel_m(m) == m                               \* the + 1 is forgotten
NextLabel_m2(m) == m + 2                          \* labels are wasted
NextLabel(m) == m + 1

Exhausted(m) == m = LabelMax

LowerFlag_m(t) == UNCHANGED flag                  \* Unlock forgets its store
LowerFlag(t) == flag' = [flag EXCEPT ![t] = FALSE]

\* flag[tid] = true, the first step of Lock.
RaiseFlag(t) ==
  /\ pc[t] = "rem" /\ left[t] > 0
  /\ flag' = [flag EXCEPT ![t] = TRUE]
  /\ maxLabel' = [maxLabel EXCEPT ![t] = 0]
  /\ idx' = [idx EXCEPT ![t] = 0]
  /\ pc' = [pc EXCEPT ![t] = "scan"]
  /\ ahead' = [ahead EXCEPT ![t] = {u \in Threads : Waiting(u)}]
  /\ UNCHANGED <<label, left, wait_time, tmp, exited>>

\* One load of the loop that looks for the largest label.
ScanLabel(t) ==
  /\ pc[t] = "scan" /\ idx[t] < N
  /\ maxLabel' = [maxLabel EXCEPT
                    ![t] = IF @ > label[idx[t]] THEN @ ELSE label[idx[t]]]
  /\ idx' = [idx EXCEPT ![t] = @ + 1]
  /\ UNCHANGED <<flag, label, pc, left, wait_time, tmp, exited, ahead>>

\* Label overflow protection: exit(1) ends the process, all threads included.
Overflow(t) ==
  /\ pc[t] = "scan" /\ idx[t] = N
  /\ Exhausted(maxLabel[t])
  /\ exited' = TRUE
  /\ UNCHANGED <<flag, label, pc, idx, maxLabel, left, wait_time, tmp, ahead>>

TakeLabel(t) ==
  /\ pc[t] = "scan" /\ idx[t] = N
  /\ ~ Exhausted(maxLabel[t])
  /\ label' = [label EXCEPT ![t] = NextLabel(maxLabel[t])]
  /\ idx' = [idx EXCEPT ![t] = 0]
  /\ pc' = [pc EXCEPT ![t] = "wflag"]
  /\ UNCHANGED <<flag, maxLabel, left, wait_time, tmp, exited, ahead>>

\* The busy wait on thread j = idx[t]: flag[j], then label[j] < label[tid],
\* then label[j] == label[tid] && j < tid, each a load of its own.
SkipSelf(t) ==
  /\ pc[t] = "wflag" /\ idx[t] = t
  /\ idx' = [idx EXCEPT ![t] = @ + 1]
  /\ UNCHANGED <<flag, label, pc, maxLabel, left, wait_time, tmp, exited, ahead>>

ReadFlag(t) ==
  /\ pc[t] = "wflag" /\ idx[t] \notin {t, N}
  /\ IF flag[idx[t]]
     THEN pc' = [pc EXCEPT ![t] = "wless"] /\ UNCHANGED idx
     ELSE idx' = [idx EXCEPT ![t] = @ + 1] /\ UNCHANGED pc
  /\ UNCHANGED <<flag, label, maxLabel, left, wait_time, tmp, exited, ahead>>

ReadLess(t) ==
  /\ pc[t] = "wless"
  /\ pc' = [pc EXCEPT ![t] = IF label[idx[t]] < label[t] THEN "wflag" ELSE "wequal"]
  /\ UNCHANGED <<flag, label, idx, maxLabel, left, wait_time, tmp, exited, ahead>>

ReadEqual(t) ==
  /\ pc[t] = "wequal"
  /\ pc' = [pc EXCEPT ![t] = "wflag"]
  /\ IF Tie(t, idx[t])
     THEN UNCHANGED idx
     ELSE idx' = [idx EXCEPT ![t] = @ + 1]
  /\ UNCHANGED <<flag, label, maxLabel, left, wait_time, tmp, exited, ahead>>

\* Lock returns.
EnterCS(t) ==
  /\ pc[t] = "wflag" /\ idx[t] = N
  /\ pc' = [pc EXCEPT ![t] = "cs"]
  /\ ahead' = [u \in Threads |-> ahead[u] \ {t}]
  /\ UNCHANGED <<flag, label, idx, maxLabel, left, wait_time, tmp, exited>>

\* wait_time += _wt.count(): a load and a store, one unit per measurement.
LoadWaitTime(t) ==
  /\ pc[t] = "cs"
  /\ tmp' = [tmp EXCEPT ![t] = wait_time]
  /\ pc' = [pc EXCEPT ![t] = "store"]
  /\ UNCHANGED <<flag, label, idx, maxLabel, left, wait_time, exited, ahead>>

StoreWaitTime(t) ==
  /\ pc[t] = "store"
  /\ wait_time' = tmp[t] + 1
  /\ pc' = [pc EXCEPT ![t] = "unlock"]
  /\ UNCHANGED <<flag, label, idx, maxLabel, left, tmp, exited, ahead>>

\* Unlock, and the end of one iteration of testCS1.
Unlock(t) ==
  /\ pc[t] = "unlock"
  /\ LowerFlag(t)
  /\ left' = [left EXCEPT ![t] = @ - 1]
  /\ pc' = [pc EXCEPT ![t] = "rem"]
  /\ UNCHANGED <<label, idx, maxLabel, wait_time, tmp, exited, ahead>>

Thread(t) ==
  /\ ~ exited
  /\ \/ RaiseFlag(t) \/ ScanLabel(t) \/ Overflow(t) \/ TakeLabel(t)
     \/ SkipSelf(t) \/ ReadFlag(t) \/ ReadLess(t) \/ ReadEqual(t)
     \/ EnterCS(t) \/ LoadWaitTime(t) \/ StoreWaitTime(t) \/ Unlock(t)

\* The process is over: main joined every thread, or somebody called exit.
Over ==
  /\ exited \/ \A t \in Threads : Finished(t)
  /\ UNCHANGED vars

Next == (\E t \in Threads : Thread(t)) \/ Over

Spec == Init /\ [][Next]_vars

\* The operating system runs every thread that is not blocked.
FairSpec == Spec /\ \A t \in Threads : WF_vars(Thread(t))

-----------------------------------------------------------------------------
\* The shared arrays and the locals of Lock hold what their types allow; a
\* label never passes INT64_MAX, which the overflow check of b.cpp guards.
TypeOK ==
  /\ flag \in [Threads -> BOOLEAN]
  /\ label \in [Threads -> 0 .. LabelMax]
  /\ pc \in [Threads -> {"rem", "scan", "wflag", "wless", "wequal",
                         "cs", "store", "unlock"}]
  /\ idx \in [Threads -> 0 .. N]
  /\ maxLabel \in [Threads -> 0 .. LabelMax]
  /\ left \in [Threads -> 0 .. K]
  /\ wait_time \in Nat
  /\ tmp \in [Threads -> Nat]
  /\ exited \in BOOLEAN
  /\ ahead \in [Threads -> SUBSET Threads]

\* No two threads are between the return of Lock and the store of Unlock,
\* although each decides from loads made at different times.
MutualExclusion ==
  \A t, u \in Threads : t # u => ~ (InCS(t) /\ InCS(u))

\* What a caller of Lock relies on in every state, unless the process has
\* exited on a full label: the lock is exclusive and labels stay in range.
Safety == TypeOK /\ MutualExclusion

\* First come, first served: a thread that held its label before t raised
\* its flag is never overtaken by t.
FirstComeFirstServed == \A t \in Threads : InCS(t) => ahead[t] = {}

\* Whoever starts Lock gets the critical section (or the process exits).
LockIsGranted ==
  \A t \in Threads : pc[t] = "scan" ~> (InCS(t) \/ exited)

\* The lock implements the abstract mutual-exclusion specification.
Phase ==
  [t \in Threads |-> CASE pc[t] = "rem" -> "rem"
                       [] pc[t] \in {"cs", "store"} -> "cs"
                       [] pc[t] = "unlock" -> "out"
                       [] OTHER -> "try"]

Abstract == INSTANCE Mutex WITH phase <- Phase, total <- wait_time

\* Every step of the threads of b.cpp is a step of the abstract mutex, or
\* leaves its state alone.
ImplementsMutex == Abstract!Spec
=============================================================================
