------------------------------ MODULE Multiset ------------------------------
(***************************************************************************)
(* What the containers of "assignment/Data Struct" promise at their menus: *)
(* a bag of numbers, and answers that agree with it.                       *)
(***************************************************************************)
EXTENDS Integers

CONSTANT Values

VARIABLES bag,          \* how often each value is in
          answer        \* what the last call answered

vars == <<bag, answer>>

Empty == \A v \in Values : bag[v] = 0
Least == CHOOSE v \in Values : bag[v] > 0 /\ \A w \in Values : bag[w] > 0 => v <= w

Init == bag = [v \in Values |-> 0] /\ answer = 0

Insert(v) == bag' = [bag EXCEPT ![v] = @ + 1] /\ answer' = 0

\* 0 for success and -1 for failure.
Delete(v) ==
  IF bag[v] > 0
    THEN bag' = [bag EXCEPT ![v] = @ - 1] /\ answer' = 0
    ELSE UNCHANGED bag /\ answer' = -1

ExtractMin ==
  /\ ~ Empty
  /\ bag' = [bag EXCEPT ![Least] = @ - 1] /\ answer' = Least

Next == (\E v \in Values : Insert(v) \/ Delete(v)) \/ ExtractMin

Spec == Init /\ [][Next]_vars
=============================================================================
