----------------------------- MODULE HungryTribe -----------------------------
(***************************************************************************)
(* "assignment/OS 2/cs16btech11038.cpp": tribesmen (threads) eat from a    *)
(* pot of M servings that the cook (main) refills.  A tribesman that finds *)
(* the pot empty leaves a note in gg and blocks on rw_mutex; the cook, who *)
(* looks at the pot from time to time, refills it and answers the note.    *)
(***************************************************************************)
EXTENDS Integers, FiniteSets

CONSTANTS Tribesmen, Meals, M   \* K threads, n meals each, size of the pot
                                \* (see OSPrograms)

VARIABLES rw_mutex, mtx, fair, nDLock,    \* the semaphores
          pot_count, gg, nDone,
          pc, left,                       \* a tribesman's point, meals to go
          cook,                           \* the cook's point
          wait_time, tmp,                 \* the accumulator, the value loaded
          refills                         \* history: how often the cook cooked

tribe == <<pc, left, wait_time, tmp>>
pot   == <<pot_count, gg>>
vars  == <<rw_mutex, mtx, fair, nDLock, nDone, pot, tribe, cook, refills>>

Goto(t, from, to) == pc[t] = from /\ pc' = [pc EXCEPT ![t] = to]
CookGoes(from, to) == cook = from /\ cook' = to
Wait(s) == s > 0 /\ s' = s - 1
Post(s) == s' = s + 1

-----------------------------------------------------------------------------
Init ==
  /\ rw_mutex = 0 /\ mtx = 1 /\ fair = 1 /\ nDLock = 1
  /\ pot_count = M /\ gg = 0 /\ nDone = 0
  /\ pc = [t \in Tribesmen |-> "serve"]
  /\ left = [t \in Tribesmen |-> Meals]
  /\ cook = "sleep"
  /\ wait_time = 0 /\ tmp = [t \in Tribesmen |-> 0]
  /\ refills = 0

\* A hungry tribesman.
GetHungry(t) ==
  /\ left[t] > 0 /\ Goto(t, "serve", "mtx")
  /\ UNCHANGED <<rw_mutex, mtx, fair, nDLock, nDone, pot, left, wait_time, tmp, cook, refills>>

TakeMtx(t) ==
  /\ Goto(t, "mtx", "fair") /\ Wait(mtx)
  /\ UNCHANGED <<rw_mutex, fair, nDLock, nDone, pot, left, wait_time, tmp, cook, refills>>

TakeFair(t) ==
  /\ Goto(t, "fair", "look") /\ Wait(fair)
  /\ UNCHANGED <<rw_mutex, mtx, nDLock, nDone, pot, left, wait_time, tmp, cook, refills>>

\* if (_pc == 0) gg = -1; both branches post fair.  Mutated form: the note is
\* not left.
LeaveNote_m == gg' = gg
LeaveNote == gg' = -1

Look(t) ==
  /\ Goto(t, "look", IF pot_count = 0 THEN "postfair" ELSE "postfair2")
  /\ IF pot_count = 0 THEN LeaveNote ELSE gg' = gg
  /\ UNCHANGED <<rw_mutex, mtx, fair, nDLock, nDone, pot_count, left, wait_time, tmp, cook, refills>>

PostFair(t) ==
  /\ \/ Goto(t, "postfair", "rw")
     \/ Goto(t, "postfair2", "fair2")
  /\ Post(fair)
  /\ UNCHANGED <<rw_mutex, mtx, nDLock, nDone, pot, left, wait_time, tmp, cook, refills>>

\* Blocked until the cook answers.
AwaitCook(t) ==
  /\ Goto(t, "rw", "fair2") /\ Wait(rw_mutex)
  /\ UNCHANGED <<mtx, fair, nDLock, nDone, pot, left, wait_time, tmp, cook, refills>>

TakeFairAgain(t) ==
  /\ Goto(t, "fair2", "get") /\ Wait(fair)
  /\ UNCHANGED <<rw_mutex, mtx, nDLock, nDone, pot, left, wait_time, tmp, cook, refills>>

\* pot_count--
GetServing(t) ==
  /\ Goto(t, "get", "postfair3")
  /\ pot_count' = pot_count - 1
  /\ UNCHANGED <<rw_mutex, mtx, fair, nDLock, nDone, gg, left, wait_time, tmp, cook, refills>>

PostFairAgain(t) ==
  /\ Goto(t, "postfair3", "eat") /\ Post(fair)
  /\ UNCHANGED <<rw_mutex, mtx, nDLock, nDone, pot, left, wait_time, tmp, cook, refills>>

\* wait_time += _wt.count(): a load and a store, one unit per measurement.
LoadWaitTime(t) ==
  /\ Goto(t, "eat", "store")
  /\ tmp' = [tmp EXCEPT ![t] = wait_time]
  /\ UNCHANGED <<rw_mutex, mtx, fair, nDLock, nDone, pot, left, wait_time, cook, refills>>

StoreWaitTime(t) ==
  /\ Goto(t, "store", "postmtx")
  /\ wait_time' = tmp[t] + 1
  /\ UNCHANGED <<rw_mutex, mtx, fair, nDLock, nDone, pot, left, tmp, cook, refills>>

PostMtx(t) ==
  /\ Goto(t, "postmtx", "serve") /\ Post(mtx)
  /\ left' = [left EXCEPT ![t] = @ - 1]
  /\ UNCHANGED <<rw_mutex, fair, nDLock, nDone, pot, wait_time, tmp, cook, refills>>

\* All meals eaten: nDone++ under nDLock, and the thread exits.
TakeDone(t) ==
  /\ left[t] = 0 /\ Goto(t, "serve", "done") /\ Wait(nDLock)
  /\ UNCHANGED <<rw_mutex, mtx, fair, nDone, pot, left, wait_time, tmp, cook, refills>>

CountDone(t) ==
  /\ Goto(t, "done", "postdone")
  /\ nDone' = nDone + 1
  /\ UNCHANGED <<rw_mutex, mtx, fair, nDLock, pot, left, wait_time, tmp, cook, refills>>

Exit(t) ==
  /\ Goto(t, "postdone", "end") /\ Post(nDLock)
  /\ UNCHANGED <<rw_mutex, mtx, fair, nDone, pot, left, wait_time, tmp, cook, refills>>

-----------------------------------------------------------------------------
\* One turn of the cook's loop.
CookTakeFair ==
  /\ CookGoes("sleep", "look") /\ Wait(fair)
  /\ UNCHANGED <<rw_mutex, mtx, nDLock, nDone, pot, tribe, refills>>

\* Mutated form: the cook fills up a pot that is not empty.
MustCook_m == pot_count < M
MustCook == pot_count = 0

\* if (gg == -1): the answer.  Mutated form: the cook always answers.
Noted_m == TRUE
Noted == gg = -1

PutServingsInPot ==
  /\ MustCook
  /\ CookGoes("look", IF Noted THEN "answer" ELSE "postfair")
  /\ pot_count' = M
  /\ gg' = 0
  /\ refills' = refills + 1
  /\ UNCHANGED <<rw_mutex, mtx, fair, nDLock, nDone, tribe>>

LeavePot ==
  /\ ~ MustCook
  /\ CookGoes("look", "postfair")
  /\ UNCHANGED <<rw_mutex, mtx, fair, nDLock, nDone, pot, tribe, refills>>

Answer ==
  /\ CookGoes("answer", "postfair") /\ Post(rw_mutex)
  /\ UNCHANGED <<mtx, fair, nDLock, nDone, pot, tribe, refills>>

CookPostFair ==
  /\ CookGoes("postfair", "nap") /\ Post(fair)
  /\ UNCHANGED <<rw_mutex, mtx, nDLock, nDone, pot, tribe, refills>>

\* The cook sleeps, then asks under nDLock whether everybody is done.
CookTakeDone ==
  /\ CookGoes("nap", "ask") /\ Wait(nDLock)
  /\ UNCHANGED <<rw_mutex, mtx, fair, nDone, pot, tribe, refills>>

AllDone == nDone = Cardinality(Tribesmen)

CookPostDone ==
  /\ CookGoes("ask", IF AllDone THEN "join" ELSE "sleep") /\ Post(nDLock)
  /\ UNCHANGED <<rw_mutex, mtx, fair, nDone, pot, tribe, refills>>

Join ==
  /\ \A t \in Tribesmen : pc[t] = "end"
  /\ CookGoes("join", "end")
  /\ UNCHANGED <<rw_mutex, mtx, fair, nDLock, nDone, pot, tribe, refills>>

-----------------------------------------------------------------------------
SemWait(t) == TakeMtx(t) \/ TakeFair(t) \/ TakeFairAgain(t) \/ TakeDone(t)

Tribesman(t) ==
  \/ GetHungry(t) \/ Look(t) \/ PostFair(t) \/ AwaitCook(t) \/ GetServing(t)
  \/ PostFairAgain(t) \/ LoadWaitTime(t) \/ StoreWaitTime(t) \/ PostMtx(t)
  \/ CountDone(t) \/ Exit(t)

Cook ==
  \/ CookTakeFair \/ PutServingsInPot \/ LeavePot \/ Answer \/ CookPostFair
  \/ CookTakeDone \/ CookPostDone \/ Join

Over == cook = "end" /\ UNCHANGED vars

Next == (\E t \in Tribesmen : SemWait(t) \/ Tribesman(t)) \/ Cook \/ Over

Spec == Init /\ [][Next]_vars

\* Everybody runs, and a tribesman gets a semaphore that keeps being posted:
\* the cook sleeps between his turns and outside the semaphores.
FairSpec ==
  /\ Spec /\ WF_vars(Cook)
  /\ \A t \in Tribesmen : SF_vars(SemWait(t)) /\ WF_vars(Tribesman(t))

-----------------------------------------------------------------------------
\* The pot holds 0 .. M servings: nobody serves himself from an empty pot.
TypeOK ==
  /\ rw_mutex \in {0, 1} /\ mtx \in {0, 1} /\ fair \in {0, 1} /\ nDLock \in {0, 1}
  /\ pot_count \in 0 .. M /\ gg \in {-1, 0}
  /\ nDone \in 0 .. Cardinality(Tribesmen)
  /\ pc \in [Tribesmen -> {"serve", "mtx", "fair", "look", "postfair", "postfair2", "rw",
                           "fair2", "get", "postfair3", "eat", "store", "postmtx",
                           "done", "postdone", "end"}]
  /\ left \in [Tribesmen -> 0 .. Meals]
  /\ cook \in {"sleep", "look", "answer", "postfair", "nap", "ask", "join", "end"}
  /\ wait_time \in Nat /\ tmp \in [Tribesmen -> Nat] /\ refills \in Nat

\* An answer on rw_mutex is always for a tribesman who waits for it: none is
\* left over that would let a later one reach into an empty pot.
AnswersAreAwaited ==
  rw_mutex = 1 \/ cook = "answer" => \E t \in Tribesmen : pc[t] = "rw" /\ pot_count = M

\* No serving is taken from an empty pot (pot_count stays in its type), and no
\* answer of the cook is left over.
Safety == TypeOK /\ AnswersAreAwaited

\* The cook fills only an empty pot: at the end the servings cooked are the
\* meals eaten and what is left in the pot.
ServingsAddUp ==
  cook = "end" => /\ M * (refills + 1) = Meals * Cardinality(Tribesmen) + pot_count
                  /\ wait_time = Meals * Cardinality(Tribesmen)

\* Everybody eats n times and the cook goes home.
MainReturns == <>(cook = "end")
=============================================================================
