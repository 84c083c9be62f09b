----------------------------- MODULE PrimeSearch -----------------------------
(***************************************************************************)
(* The searches for primes below MAX by M threads: SAM1 and then DAM in    *)
(* assignment/pcp/Src-cs16btech11038.cpp, SAM2 and its sieve in sam2.cpp   *)
(* and sam2-sieve.cpp, and the programs of "assignment/OS 1/A2", whose     *)
(* processes differ from the threads in their memory only.  A thread that  *)
(* shares nothing searches in one action; one action of DAM is an access   *)
(* to the mutex or the counter.  Where the first file names a vector that  *)
(* is out of scope (line 183) the model takes a new one.                   *)
(***************************************************************************)
EXTENDS Integers, Sequences, SequencesExt, FiniteSets

CONSTANTS Inputs,               \* the pairs <<MAX, M>>
          SLICE,
          DAMInputs             \* bound: those on which DAM runs too

VARIABLES input, search,        \* search: which of the five is under way
          counter, mtx,         \* mtx: the thread that holds it, or Nobody
          pc, num, primes,      \* num: start, or temp of getAndIncrement
          file                  \* what is written, in any order

pvars == <<input, search, counter, mtx, pc, num, primes, file>>

MAX == input[1]
M == input[2]
Threads == 0 .. M - 1
Nobody == -1
Each(x) == [t \in Threads |-> x]

PrimesInit ==
  /\ input \in Inputs /\ search \in {"sam1", "sam2", "sieve", "os1"}
  /\ counter = 1 /\ mtx = Nobody /\ file = <<>>
  /\ pc = Each("start") /\ num = Each(0) /\ primes = Each(<<>>)

-----------------------------------------------------------------------------
IsOdd(k) == k % 2 = 1

\* From 5 on only divisors of the form 6k - 1 and 6k + 1.
isPrime(k) ==
  /\ k % 2 # 0 /\ k % 3 # 0
  /\ \A i \in 5 .. k : i % 6 \in {1, 5} /\ i * i <= k => k % i # 0

\* from, from + by, ... below to.
Numbers(from, to, by) ==
  [k \in 1 .. IF from < to THEN (to - from + by - 1) \div by ELSE 0 |-> from + (k - 1) * by]
Primes(from, to, by) == SelectSeq(Numbers(from, to, by), isPrime)

\* SAM1: every M-th number.
First(t) == IF t + 1 = 1 THEN M + 1 ELSE t + 1
SAM1(t) == IF First(t) \in {2, 3} THEN <<First(t)>> \o Primes(First(t) + M, MAX, M)
                                  ELSE Primes(First(t), MAX, M)

\* SAM2: every M-th slice, of which only the odd numbers are tested.  Mutated
\* form: a slice ends one number early.
End_m(from) == IF from + SLICE - 1 > MAX THEN MAX ELSE from + SLICE - 1
End(from) == IF from + SLICE > MAX THEN MAX ELSE from + SLICE
Slices(t) == Numbers(2 + t * SLICE, MAX, M * SLICE)

Tested(from) ==
  Primes(IF IsOdd(from) THEN from ELSE from + 1, End(from), 2)
    \o SelectSeq(<<2, 3>>, LAMBDA k : from <= k /\ k < End(from))

\* The sieve: the odd multiples of the odd numbers below the root, most
\* multiples of 3, 5, 7 and 11 left out, from the square on.
Sieving(to) ==
  {i \in 3 .. to : /\ IsOdd(i) /\ i * i < to
                   /\ \A d \in {5, 7, 11} : ~ (i >= d * d /\ i % d = 0)
                   /\ ~ (i > 9 /\ i % 3 = 0)}
FirstMultiple(i, from) ==
  LET k == ((from + i - 1) \div i) * i
      s == IF k < i * i THEN i * i ELSE k
  IN  IF IsOdd(s) THEN s ELSE s + i
Struck(k, from) ==
  \E i \in Sieving(End(from)) :
    k >= FirstMultiple(i, from) /\ (k - FirstMultiple(i, from)) % (2 * i) = 0
Sieved(from) ==
  LET memory == (End(from) - from) \div 2 IN
  SelectSeq([i \in 1 .. memory |-> 2 * (i - 1) + from + 1], LAMBDA k : ~ Struck(k, from))
    \o (IF from <= 2 THEN <<2>> ELSE <<>>)

\* OS 1: trial division of every M-th number from 2 on.
Divided(t) ==
  SelectSeq(Numbers(t + 2, MAX, M), LAMBDA k : \A c \in 2 .. k : c * c <= k => k % c # 0)

Searched(t) ==
  LET from == Slices(t) IN
  CASE search = "sam1"  -> SAM1(t)
    [] search = "sam2"  -> FlattenSeq([s \in DOMAIN from |-> Tested(from[s])])
    [] search = "sieve" -> FlattenSeq([s \in DOMAIN from |-> Sieved(from[s])])
    [] search = "os1"   -> Divided(t)

Search(t) ==
  /\ search # "dam" /\ pc[t] = "start"
  /\ primes' = [primes EXCEPT ![t] = Searched(t)] /\ pc' = [pc EXCEPT ![t] = "done"]
  /\ UNCHANGED <<input, search, counter, mtx, num, file>>

-----------------------------------------------------------------------------
(* DAM: getAndIncrement, and what it returns is tested. *)
Goto(t, from, to) == search = "dam" /\ pc[t] = from /\ pc' = [pc EXCEPT ![t] = to]

\* Mutated form: the mutex is not waited for.
MayLock_m(t) == TRUE
MayLock(t) == mtx = Nobody

Lock(t) ==
  /\ Goto(t, "start", "load") /\ MayLock(t) /\ mtx' = t
  /\ UNCHANGED <<input, search, counter, num, primes, file>>

LoadCounter(t) ==
  /\ Goto(t, "load", "store") /\ num' = [num EXCEPT ![t] = counter]
  /\ UNCHANGED <<input, search, counter, mtx, primes, file>>

StoreCounter(t) ==
  /\ Goto(t, "store", "temp") /\ counter' = num[t] + 1
  /\ UNCHANGED <<input, search, mtx, num, primes, file>>

LoadTemp(t) ==
  /\ Goto(t, "temp", "unlock") /\ num' = [num EXCEPT ![t] = counter]
  /\ UNCHANGED <<input, search, counter, mtx, primes, file>>

Unlock(t) ==
  /\ Goto(t, "unlock", "test") /\ mtx' = Nobody
  /\ UNCHANGED <<input, search, counter, num, primes, file>>

Test(t) ==
  /\ IF num[t] < MAX
       THEN /\ Goto(t, "test", "start")
            /\ primes' = IF num[t] \in {2, 3} \/ isPrime(num[t])
                           THEN [primes EXCEPT ![t] = Append(@, num[t])] ELSE primes
       ELSE Goto(t, "test", "done") /\ UNCHANGED primes
  /\ UNCHANGED <<input, search, counter, mtx, num, file>>

Searcher(t) ==
  \/ Search(t) \/ Lock(t) \/ LoadCounter(t) \/ StoreCounter(t) \/ LoadTemp(t) \/ Unlock(t)
  \/ Test(t)

-----------------------------------------------------------------------------
\* main joins the threads and writes what they found; after SAM1 it clears the
\* vectors and starts DAM.
Joined == \A t \in Threads : pc[t] = "done"

Write ==
  /\ Joined /\ file = <<>>
  /\ file' = FlattenSeq([i \in 1 .. M |-> primes[i - 1]])
  /\ UNCHANGED <<input, search, counter, mtx, pc, num, primes>>

StartDAM ==
  /\ search = "sam1" /\ file # <<>> /\ input \in DAMInputs
  /\ search' = "dam" /\ file' = <<>> /\ pc' = Each("start") /\ primes' = Each(<<>>)
  /\ UNCHANGED <<input, counter, mtx, num>>

Finished == file # <<>> /\ (search = "sam1" => input \notin DAMInputs)

PrimesNext == (\E t \in Threads : Searcher(t)) \/ Write \/ StartDAM
Spec == PrimesInit /\ [][PrimesNext]_pvars

-----------------------------------------------------------------------------
Known == {k \in 2 .. MAX - 1 : \A d \in 2 .. k - 1 : k % d # 0}

\* 3 divides itself: one thread alone passes 2 on to isPrime's loop (Src:65),
\* which is for numbers above 3, with 3 as its first number.
Missed == IF search = "sam1" /\ M = 1 THEN {3} ELSE {}

\* Every file holds the primes below MAX, each once, however the numbers are
\* divided among the threads or taken from the counter.
FileIsComplete ==
  file # <<>> => ToSet(file) = Known \ Missed /\ Len(file) = Cardinality(ToSet(file))
=============================================================================
