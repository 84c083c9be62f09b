------------------------------- MODULE Mutex -------------------------------
(***************************************************************************)
(* What every lock of the repository promises to the threads that share    *)
(* it.  A thread asks for the critical section, enters it only when nobody *)
(* else is inside, adds its measurement to the shared accumulator          *)
(* (wait_time in the lock programs) in one indivisible step and leaves.    *)
(* The lock modules implement this module under a refinement mapping.      *)
(***************************************************************************)
EXTENDS Naturals

CONSTANT Threads

VARIABLES phase,    \* what each thread is doing
          total     \* the accumulator the critical section protects

mvars == <<phase, total>>

Inside(t) == phase[t] \in {"cs", "out"}

Init ==
  /\ phase = [t \in Threads |-> "rem"]
  /\ total = 0

Request(t) ==
  /\ phase[t] = "rem"
  /\ phase' = [phase EXCEPT ![t] = "try"]
  /\ UNCHANGED total

Enter(t) ==
  /\ phase[t] = "try"
  /\ \A u \in Threads : ~ Inside(u)
  /\ phase' = [phase EXCEPT ![t] = "cs"]
  /\ UNCHANGED total

Work(t) ==
  /\ phase[t] = "cs"
  /\ phase' = [phase EXCEPT ![t] = "out"]
  /\ total' = total + 1

Leave(t) ==
  /\ phase[t] = "out"
  /\ phase' = [phase EXCEPT ![t] = "rem"]
  /\ UNCHANGED total

Next == \E t \in Threads : Request(t) \/ Enter(t) \/ Work(t) \/ Leave(t)

Spec == Init /\ [][Next]_mvars
=============================================================================
