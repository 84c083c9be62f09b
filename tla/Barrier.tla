------------------------------ MODULE Barrier ------------------------------
(***************************************************************************)
(* What a barrier promises: a thread that has called it in its r-th round  *)
(* returns only when every thread has called it in its r-th round.         *)
(***************************************************************************)
EXTENDS Naturals

CONSTANTS Threads, Rounds

VARIABLES called, returned      \* how often each thread called, returned

bvars == <<called, returned>>

Init ==
  /\ called = [t \in Threads |-> 0]
  /\ returned = [t \in Threads |-> 0]

Call(t) ==
  /\ called[t] = returned[t] /\ called[t] < Rounds
  /\ called' = [called EXCEPT ![t] = @ + 1]
  /\ UNCHANGED returned

Return(t) ==
  /\ returned[t] < called[t]
  /\ \A u \in Threads : called[u] >= called[t]
  /\ returned' = [returned EXCEPT ![t] = @ + 1]
  /\ UNCHANGED called

Next == \E t \in Threads : Call(t) \/ Return(t)

Spec == Init /\ [][Next]_bvars
=============================================================================
