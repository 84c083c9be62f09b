----------------------------- MODULE NewBarrier -----------------------------
(***************************************************************************)
(* The barrier of "assignment/OS 2/A4/Assgn4-newbarrCS16BTECH11038.cpp",   *)
(* built from two turnstiles, and the threads (bthread) that meet at it k  *)
(* times.  The first turnstile, barr1, is opened by the last thread to     *)
(* come and closed by the last to pass; barr2 the other way round.  One    *)
(* action per semaphore call; count is only touched under mtx.             *)
(***************************************************************************)
EXTENDS Naturals, FiniteSets

CONSTANTS Threads, Rounds       \* n threads, k rounds (see OSPrograms)

N == Cardinality(Threads)

VARIABLES barr1, barr2, mtx,    \* the semaphores
          count,                \* threads currently in the barrier
          pc, round             \* control point, rounds completed

vars == <<barr1, barr2, mtx, count, pc, round>>

\* The points between count++ and count--.
Inside(t) == pc[t] \in {"close2", "open1", "post", "turn1", "pass1", "lock2", "leave"}
AtBarrier(t) == pc[t] \notin {"work", "end"}

Goto(t, from, to) == pc[t] = from /\ pc' = [pc EXCEPT ![t] = to]
Wait(s) == s > 0 /\ s' = s - 1
Post(s) == s' = s + 1

-----------------------------------------------------------------------------
Init ==
  /\ barr1 = 0 /\ barr2 = 1 /\ mtx = 1
  /\ count = 0
  /\ pc = [t \in Threads |-> "work"]
  /\ round = [t \in Threads |-> 0]

\* bthread has slept and calls barrierPoint.
CallBarrier(t) ==
  /\ round[t] < Rounds
  /\ Goto(t, "work", "lock")
  /\ UNCHANGED <<barr1, barr2, mtx, count, round>>

LockToCome(t) ==
  /\ Goto(t, "lock", "come") /\ Wait(mtx)
  /\ UNCHANGED <<barr1, barr2, count, round>>

\* count++; only the n-th thread works the turnstiles.
Last == count' = N

Come(t) ==
  /\ count' = count + 1
  /\ Goto(t, "come", IF Last THEN "close2" ELSE "post")
  /\ UNCHANGED <<barr1, barr2, mtx, round>>

\* Mutated form: the second turnstile is left open.
Shut_m(s) == UNCHANGED s
Shut(s) == Wait(s)

CloseBarr2(t) ==
  /\ Goto(t, "close2", "open1") /\ Shut(barr2)
  /\ UNCHANGED <<barr1, mtx, count, round>>

OpenBarr1(t) ==
  /\ Goto(t, "open1", "post") /\ Post(barr1)
  /\ UNCHANGED <<barr2, mtx, count, round>>

UnlockAfterCome(t) ==
  /\ Goto(t, "post", "turn1") /\ Post(mtx)
  /\ UNCHANGED <<barr1, barr2, count, round>>

\* The first turnstile: take it and put it back for the next thread.
WaitBarr1(t) ==
  /\ Goto(t, "turn1", "pass1") /\ Wait(barr1)
  /\ UNCHANGED <<barr2, mtx, count, round>>

PassBarr1(t) ==
  /\ Goto(t, "pass1", "lock2") /\ Post(barr1)
  /\ UNCHANGED <<barr2, mtx, count, round>>

LockToLeave(t) ==
  /\ Goto(t, "lock2", "leave") /\ Wait(mtx)
  /\ UNCHANGED <<barr1, barr2, count, round>>

\* count--; the last thread to pass swaps the turnstiles back.
Leave(t) ==
  /\ count' = count - 1
  /\ Goto(t, "leave", IF count' = 0 THEN "close1" ELSE "post2")
  /\ UNCHANGED <<barr1, barr2, mtx, round>>

CloseBarr1(t) ==
  /\ Goto(t, "close1", "open2") /\ Wait(barr1)
  /\ UNCHANGED <<barr2, mtx, count, round>>

OpenBarr2(t) ==
  /\ Goto(t, "open2", "post2") /\ Post(barr2)
  /\ UNCHANGED <<barr1, mtx, count, round>>

UnlockAfterLeave(t) ==
  /\ Goto(t, "post2", "turn2") /\ Post(mtx)
  /\ UNCHANGED <<barr1, barr2, count, round>>

WaitBarr2(t) ==
  /\ Goto(t, "turn2", "pass2") /\ Wait(barr2)
  /\ UNCHANGED <<barr1, mtx, count, round>>

\* barrierPoint returns.
PassBarr2(t) ==
  /\ Goto(t, "pass2", "work") /\ Post(barr2)
  /\ round' = [round EXCEPT ![t] = @ + 1]
  /\ UNCHANGED <<barr1, mtx, count>>

\* The thread writes its own wait_time slot and exits.
Exit(t) ==
  /\ round[t] = Rounds
  /\ Goto(t, "work", "end")
  /\ UNCHANGED <<barr1, barr2, mtx, count, round>>

Thread(t) ==
  \/ CallBarrier(t) \/ LockToCome(t) \/ Come(t) \/ CloseBarr2(t) \/ OpenBarr1(t)
  \/ UnlockAfterCome(t) \/ WaitBarr1(t) \/ PassBarr1(t)
  \/ LockToLeave(t) \/ Leave(t) \/ CloseBarr1(t) \/ OpenBarr2(t)
  \/ UnlockAfterLeave(t) \/ WaitBarr2(t) \/ PassBarr2(t) \/ Exit(t)

\* main has joined every thread.
Joined == \A t \in Threads : pc[t] = "end"
Over == Joined /\ UNCHANGED vars

Next == (\E t \in Threads : Thread(t)) \/ Over

Spec == Init /\ [][Next]_vars

-----------------------------------------------------------------------------
\* The semaphores are binary and count never leaves 0 .. n.
TypeOK ==
  /\ barr1 \in {0, 1} /\ barr2 \in {0, 1} /\ mtx \in {0, 1}
  /\ count \in 0 .. N
  /\ pc \in [Threads -> {"work", "lock", "come", "close2", "open1", "post", "turn1",
                         "pass1", "lock2", "leave", "close1", "open2", "post2",
                         "turn2", "pass2", "end"}]
  /\ round \in [Threads -> 0 .. Rounds]

\* One turnstile at most lets threads through.
OneTurnstileOpen == ~ (barr1 = 1 /\ barr2 = 1)

\* The semaphores stay binary although they are posted from both sides, and
\* the turnstiles are never open together.
Safety == TypeOK /\ OneTurnstileOpen

\* A thread is never a full round ahead: a fast thread that comes back finds
\* its way barred until the slow ones are out of the second turnstile.
NobodyLaps ==
  \A t, u \in Threads :
    round[t] > round[u] => round[t] = round[u] + 1 /\ ~ Inside(u) /\ AtBarrier(u)

Promise == INSTANCE Barrier WITH
  called   <- [t \in Threads |-> round[t] + IF AtBarrier(t) THEN 1 ELSE 0],
  returned <- round

\* barrierPoint is a barrier: nobody returns before all have called.
ImplementsBarrier == Promise!Spec
=============================================================================
