----------------------------- MODULE OSPrograms -----------------------------
(***************************************************************************)
(* The programs of "assignment/OS 2" that wait for semaphores, its slab    *)
(* allocator and its schedulers, and the searches for primes.  Each is     *)
(* started on its own: os names the one a behaviour is a run of, and the   *)
(* others stay as they would start.                                        *)
(***************************************************************************)
EXTENDS Integers, FiniteSets, Sequences

CONSTANTS Readers, Writers, KR, KW,                     \* of ReadersWriters
          Meeting, Rounds,                              \* of NewBarrier
          Tribesmen, Meals, PotSize,                    \* of HungryTribe
          Users, Loops, Sizes, MaxObjects, Areas,       \* of SlabAllocator
          TaskSets,                                     \* of RealTimeScheduler
          Inputs, SLICE, DAMInputs                      \* of PrimeSearch

ASSUME ReadersAssumption == Readers \cap Writers = {}
ASSUME FiniteAssumption == IsFiniteSet(Readers) /\ IsFiniteSet(Writers)
ASSUME KAssumption == KR \in Nat /\ KW \in Nat
ASSUME BarrierAssumption == IsFiniteSet(Meeting) /\ Meeting # {} /\ Rounds \in Nat
ASSUME TribeAssumption == IsFiniteSet(Tribesmen) /\ Meals \in Nat
ASSUME PotAssumption == PotSize \in Nat \ {0}
ASSUME SlabAssumption ==
  /\ 0 \notin Users /\ MaxObjects \in Nat \ {0}
  /\ \A size \in Sizes : size \in Nat \ {0} /\ size <= 8192
ASSUME TasksAssumption ==
  \A ts \in TaskSets : ts \in Seq([t : Nat \ {0}, p : Nat \ {0}, k : Nat])

VARIABLES os,
  program, endless, rw_mutex, mtx, fair, read_count, pc, left, wait_time, tmp,
  barr1, barr2, b_mtx, count, b_pc, round,
  t_rw_mutex, t_mtx, t_fair, nDLock, pot_count, gg, nDone, t_pc, t_left, cook,
  t_wait_time, t_tmp, refills,
  locks, chain, slab, user, ptr, todo,
  policy, tasks, all, rq, running, fin, cur_time, phase,
  input, search, counter, p_mtx, p_pc, num, primes, file

RW == INSTANCE ReadersWriters
Barrier == INSTANCE NewBarrier WITH Threads <- Meeting, mtx <- b_mtx, pc <- b_pc
Tribe == INSTANCE HungryTribe WITH M <- PotSize,
  rw_mutex <- t_rw_mutex, mtx <- t_mtx, fair <- t_fair, pc <- t_pc, left <- t_left,
  wait_time <- t_wait_time, tmp <- t_tmp
Slab == INSTANCE SlabAllocator
Sim == INSTANCE RealTimeScheduler
Searches == INSTANCE PrimeSearch WITH mtx <- p_mtx, pc <- p_pc

rwVars == <<program, endless, rw_mutex, mtx, fair, read_count, pc, left, wait_time, tmp>>
barrierVars == <<barr1, barr2, b_mtx, count, b_pc, round>>
tribeVars == <<t_rw_mutex, t_mtx, t_fair, nDLock, pot_count, gg, nDone, t_pc, t_left,
               cook, t_wait_time, t_tmp, refills>>
slabVars == <<locks, chain, slab, user, ptr, todo>>
simVars == <<policy, tasks, all, rq, running, fin, cur_time, phase>>
primeVars == <<input, search, counter, p_mtx, p_pc, num, primes, file>>
vars == <<os, rwVars, barrierVars, tribeVars, slabVars, simVars, primeVars>>

-----------------------------------------------------------------------------
Init ==
  /\ RW!Init /\ Barrier!Init /\ Tribe!Init /\ Slab!SlabInit /\ Sim!SimInit
  /\ Searches!PrimesInit
  /\ os \in {"rw", "barrier", "tribe", "slab", "sim", "primes"}
  /\ os # "rw" => program = "rw" /\ ~ endless
  /\ os # "sim" => policy = "EDF" /\ tasks = CHOOSE ts \in TaskSets : TRUE
  /\ os # "primes" => search = "sam1" /\ input = CHOOSE i \in Inputs : TRUE

\* A step of one program leaves the variables of the others alone.
RWStep(A) ==
  os = "rw" /\ A /\ UNCHANGED <<os, barrierVars, tribeVars, slabVars, simVars, primeVars>>
BarrierStep(A) ==
  os = "barrier" /\ A /\ UNCHANGED <<os, rwVars, tribeVars, slabVars, simVars, primeVars>>
TribeStep(A) ==
  os = "tribe" /\ A /\ UNCHANGED <<os, rwVars, barrierVars, slabVars, simVars, primeVars>>
SlabStep(A) ==
  os = "slab" /\ A /\ UNCHANGED <<os, rwVars, barrierVars, tribeVars, simVars, primeVars>>
SimStep(A) ==
  os = "sim" /\ A /\ UNCHANGED <<os, rwVars, barrierVars, tribeVars, slabVars, primeVars>>
PrimeStep(A) ==
  os = "primes" /\ A /\ UNCHANGED <<os, rwVars, barrierVars, tribeVars, slabVars, simVars>>

\* Calls of sem_wait, and the other steps of a reader, writer or tribesman.
SemWait(t) ==
  \/ t \in Readers \cup Writers /\ RWStep(RW!SemWait(t))
  \/ t \in Tribesmen /\ TribeStep(Tribe!SemWait(t))

Other(t) ==
  \/ t \in Readers \cup Writers /\ RWStep(RW!Other(t))
  \/ t \in Tribesmen /\ TribeStep(Tribe!Tribesman(t))

Cook == TribeStep(Tribe!Cook)

Over ==
  /\ \/ os = "rw" /\ RW!Joined
     \/ os = "barrier" /\ Barrier!Joined
     \/ os = "tribe" /\ cook = "end"
     \/ os = "slab" /\ Slab!Joined
     \/ os = "sim" /\ phase = "stats"
     \/ os = "primes" /\ Searches!Finished
  /\ UNCHANGED vars

Next ==
  \/ \E t \in Readers \cup Writers \cup Tribesmen : SemWait(t) \/ Other(t)
  \/ \E t \in Meeting : BarrierStep(Barrier!Thread(t))
  \/ Cook
  \/ \E u \in Users : SlabStep(Slab!User(u))
  \/ SimStep(Sim!Simulate)
  \/ PrimeStep(Searches!PrimesNext)
  \/ Over

Spec == Init /\ [][Next]_vars

\* Running threads run, the cook is one of them, and a thread blocked in
\* sem_wait is not overtaken for ever at a semaphore that is posted again and
\* again.
FairSpec ==
  /\ Spec /\ WF_vars(Cook)
  /\ \A t \in Readers \cup Writers \cup Tribesmen : WF_vars(Other(t)) /\ SF_vars(SemWait(t))

-----------------------------------------------------------------------------
\* Writers are alone inside and their measurements are not lost; the
\* turnstiles of the barrier are never open together and nobody laps; no
\* serving is taken from an empty pot, no answer of the cook is left over and
\* the servings cooked are the meals eaten and what is left; objects of the
\* allocator have one owner and lie in mapped slabs; the simulations count
\* every process once.
Safety ==
  /\ RW!Safety
  /\ Barrier!Safety /\ Barrier!NobodyLaps
  /\ Tribe!Safety /\ Tribe!ServingsAddUp
  /\ Slab!ObjectsAreOwned /\ Slab!ObjectsFit
  /\ Sim!ProcessesAddUp

\* The files of primes are complete, however the numbers are divided among
\* the threads.
FilesAreComplete == Searches!FileIsComplete

\* The simulations miss a deadline only if their policy had to.
DeadlinesAreMet == Sim!DeadlinesAreMet

\* A fast thread does not go through the barrier twice while a slow one is in
\* it: it implements the promise of a barrier.
ImplementsBarrier == Barrier!ImplementsBarrier

\* In the fair program nobody gets inside before a writer that has passed fair.
NoOvertaking == RW!NoOvertaking

\* In the fair program whoever asks gets inside.
NoStarvation == RW!NoStarvation

\* All tribesmen eat and the cook goes home.
TribeIsFed == <>(os = "tribe" => cook = "end")
=============================================================================
