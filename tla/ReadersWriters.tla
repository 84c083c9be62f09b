--------------------------- MODULE ReadersWriters ---------------------------
(***************************************************************************)
(* The two readers/writers programs of "assignment/OS 2/A3": the plain one *)
(* (Assgn3-RWcs16btech11038.cpp) and the fair one, in which readers and    *)
(* writers first pass the semaphore `fair'.  One action per semaphore call *)
(* or access to the shared accumulator; read_count is only touched under   *)
(* mtx, so its update and its test are one step.                           *)
(***************************************************************************)
EXTENDS Integers, FiniteSets

CONSTANTS Readers, Writers,   \* the reader and the writer threads
          KR, KW              \* critical sections per reader and writer
                              \* (OSPrograms states what they must be)

Threads == Readers \cup Writers
Iterations(t) == IF t \in Writers THEN KW ELSE KR

VARIABLES program,                \* "rw" or "rw_fair"
          endless,                \* environment: KR and KW are larger than any
                                  \* execution gets to, or as given
          rw_mutex, mtx, fair,    \* the semaphores
          read_count,
          pc, left,               \* control point, iterations still to run
          wait_time, tmp          \* the shared accumulator, the value loaded

input == <<program, endless>>
sems  == <<rw_mutex, mtx, fair>>
vars  == <<input, sems, read_count, pc, left, wait_time, tmp>>

\* Mutated form: the semaphore is left out.
FairVersion_m == FALSE
FairVersion == program = "rw_fair"

\* The points of the two loops at which a thread is in its critical section.
Inside(t)   == pc[t] \in {"cs", "store", "leave"}
Finished(t) == pc[t] = "rem" /\ left[t] = 0

\* sem_wait blocks while the semaphore is 0.
Wait(s) == s > 0 /\ s' = s - 1
Post(s) == s' = s + 1
Goto(t, l) == pc' = [pc EXCEPT ![t] = l]

-----------------------------------------------------------------------------
Init ==
  /\ program \in {"rw", "rw_fair"} /\ endless \in BOOLEAN
  /\ rw_mutex = 1 /\ mtx = 1 /\ fair = 1
  /\ read_count = 0
  /\ pc = [t \in Threads |-> "rem"]
  /\ left = [t \in Threads |-> Iterations(t)]
  /\ wait_time = 0
  /\ tmp = [t \in Threads |-> 0]

\* A thread requests its critical section; the first semaphore it meets is
\* fair in the fair program, rw_mutex or mtx in the other.
\* Mutated form: only readers pass through fair.
AfterFair(t) == IF t \in Writers THEN "rw" ELSE "mtx"

Entry_m(t) == IF FairVersion /\ t \in Readers THEN "fair" ELSE AfterFair(t)
Entry(t) == IF FairVersion THEN "fair" ELSE AfterFair(t)

Request(t) ==
  /\ pc[t] = "rem" /\ left[t] > 0
  /\ Goto(t, Entry(t))
  /\ UNCHANGED <<input, sems, read_count, left, wait_time, tmp>>

WaitFair(t) ==
  /\ pc[t] = "fair" /\ Wait(fair)
  /\ Goto(t, AfterFair(t))
  /\ UNCHANGED <<input, rw_mutex, mtx, read_count, left, wait_time, tmp>>

\* Writer: sem_wait(&rw_mutex), critical section, the posts.
WriterWaitRW(t) ==
  /\ t \in Writers /\ pc[t] = "rw" /\ Wait(rw_mutex)
  /\ Goto(t, "cs")
  /\ UNCHANGED <<input, mtx, fair, read_count, left, wait_time, tmp>>

WriterPostRW(t) ==
  /\ t \in Writers /\ pc[t] = "leave" /\ Post(rw_mutex)
  /\ Goto(t, IF FairVersion THEN "postfair" ELSE "next")
  /\ UNCHANGED <<input, mtx, fair, read_count, left, wait_time, tmp>>

\* Reader: enter through mtx; the first reader takes rw_mutex for all of
\* them.  Mutated form: only the second of them does.
First_m == read_count' = 2
First == read_count' = 1

ReaderWaitMtx(t) ==
  /\ pc[t] = "mtx" /\ Wait(mtx)
  /\ Goto(t, "count")
  /\ UNCHANGED <<input, rw_mutex, fair, read_count, left, wait_time, tmp>>

ReaderCount(t) ==
  /\ pc[t] = "count"
  /\ read_count' = read_count + 1
  /\ Goto(t, IF First THEN "rw" ELSE "postmtx")
  /\ UNCHANGED <<input, sems, left, wait_time, tmp>>

ReaderWaitRW(t) ==
  /\ t \in Readers /\ pc[t] = "rw" /\ Wait(rw_mutex)
  /\ Goto(t, "postmtx")
  /\ UNCHANGED <<input, mtx, fair, read_count, left, wait_time, tmp>>

ReaderPostMtx(t) ==
  /\ pc[t] = "postmtx" /\ Post(mtx)
  /\ Goto(t, IF FairVersion THEN "postfair" ELSE "cs")
  /\ UNCHANGED <<input, rw_mutex, fair, read_count, left, wait_time, tmp>>

\* sem_post(&fair): a reader enters after it, a writer has left before it.
PostFair(t) ==
  /\ pc[t] = "postfair" /\ Post(fair)
  /\ Goto(t, IF t \in Readers THEN "cs" ELSE "next")
  /\ UNCHANGED <<input, rw_mutex, mtx, read_count, left, wait_time, tmp>>

\* wait_time += _wt.count(): a load and a store, one unit per measurement.
LoadWaitTime(t) ==
  /\ pc[t] = "cs"
  /\ tmp' = [tmp EXCEPT ![t] = wait_time]
  /\ Goto(t, "store")
  /\ UNCHANGED <<input, sems, read_count, left, wait_time>>

StoreWaitTime(t) ==
  /\ pc[t] = "store"
  /\ wait_time' = IF endless THEN 0 ELSE tmp[t] + 1
  /\ Goto(t, "leave")
  /\ UNCHANGED <<input, sems, read_count, left, tmp>>

\* Reader: leave through mtx; the last reader posts rw_mutex.
ReaderWaitMtxAgain(t) ==
  /\ t \in Readers /\ pc[t] = "leave" /\ Wait(mtx)
  /\ Goto(t, "uncount")
  /\ UNCHANGED <<input, rw_mutex, fair, read_count, left, wait_time, tmp>>

\* The last reader to leave posts rw_mutex.
Last == read_count' = 0

ReaderUncount(t) ==
  /\ pc[t] = "uncount"
  /\ read_count' = read_count - 1
  /\ Goto(t, IF Last THEN "postrw" ELSE "postmtx2")
  /\ UNCHANGED <<input, sems, left, wait_time, tmp>>

ReaderPostRW(t) ==
  /\ pc[t] = "postrw" /\ Post(rw_mutex)
  /\ Goto(t, "postmtx2")
  /\ UNCHANGED <<input, mtx, fair, read_count, left, wait_time, tmp>>

ReaderPostMtxAgain(t) ==
  /\ pc[t] = "postmtx2" /\ Post(mtx)
  /\ Goto(t, "next")
  /\ UNCHANGED <<input, rw_mutex, fair, read_count, left, wait_time, tmp>>

\* The end of one iteration of the loop.
NextIteration(t) ==
  /\ pc[t] = "next"
  /\ left' = [left EXCEPT ![t] = IF endless THEN @ ELSE @ - 1]
  /\ Goto(t, "rem")
  /\ UNCHANGED <<input, sems, read_count, wait_time, tmp>>

SemWait(t) ==
  \/ WaitFair(t) \/ WriterWaitRW(t)
  \/ ReaderWaitMtx(t) \/ ReaderWaitRW(t) \/ ReaderWaitMtxAgain(t)

Other(t) ==
  \/ Request(t) \/ WriterPostRW(t) \/ ReaderCount(t) \/ ReaderPostMtx(t)
  \/ PostFair(t) \/ LoadWaitTime(t) \/ StoreWaitTime(t) \/ ReaderUncount(t)
  \/ ReaderPostRW(t) \/ ReaderPostMtxAgain(t) \/ NextIteration(t)

\* main has joined every thread.
Joined == \A t \in Threads : Finished(t)
Over == Joined /\ UNCHANGED vars

Next == (\E t \in Threads : SemWait(t) \/ Other(t)) \/ Over

Spec == Init /\ [][Next]_vars

\* Running threads run; a thread blocked in sem_wait is not overtaken for ever
\* at a semaphore that is posted again and again.
FairSpec ==
  Spec /\ \A t \in Threads : WF_vars(Other(t)) /\ SF_vars(SemWait(t))

-----------------------------------------------------------------------------
\* The semaphores are binary and the counter counts threads.
TypeOK ==
  /\ program \in {"rw", "rw_fair"} /\ endless \in BOOLEAN
  /\ rw_mutex \in {0, 1} /\ mtx \in {0, 1} /\ fair \in {0, 1}
  /\ read_count \in 0 .. Cardinality(Readers)
  /\ pc \in [Threads -> {"rem", "fair", "mtx", "count", "rw", "postmtx", "postfair",
                         "cs", "store", "leave", "uncount", "postrw", "postmtx2", "next"}]
  /\ left \in [Threads -> Nat]
  /\ \A t \in Threads : left[t] <= Iterations(t)
  /\ wait_time \in Nat /\ tmp \in [Threads -> Nat]

\* A writer shares the critical section with nobody.
WritersExclude ==
  \A w \in Writers, t \in Threads : t # w => ~ (Inside(w) /\ Inside(t))

\* Fair program: once a writer has passed the semaphore fair, no thread that
\* was not inside gets inside before it.
NoOvertaking ==
  [][\A w \in Writers, t \in Threads :
       program = "rw_fair" /\ pc[w] = "rw" /\ t # w /\ ~ Inside(t) => ~ Inside(t)']_vars

\* Fair program: a thread that asks for the critical section gets it, however
\* often the others come back.
NoStarvation ==
  \A t \in Threads :
    program = "rw_fair" /\ pc[t] \in {"fair", "mtx", "rw"} ~> Inside(t)

\* Readers may lose each other's additions to wait_time, but a writer's are
\* never lost: main divides at least the writers' measurements.
WritersAreCounted ==
  Joined => wait_time >= KW * Cardinality(Writers)

\* Writers are alone inside, and what they add to wait_time is not lost to the
\* readers' unprotected additions.
Safety == TypeOK /\ WritersExclude /\ WritersAreCounted
=============================================================================
