-------------------------- MODULE LinearizableSet --------------------------
(***************************************************************************)
(* What a concurrent set promises its callers.  An add or a remove that    *)
(* returns true has changed the set at one moment between call and return; *)
(* any other answer was right at some moment between call and return.      *)
(* The skip lists of assignment/pcp/proj implement it.                     *)
(***************************************************************************)
EXTENDS Naturals

CONSTANTS Threads, Keys

VARIABLES members,      \* the set
          busy          \* per thread: the operation under way, or the answer
                        \* to the last one; seen: whether its key was in the
                        \* set, at every moment since the call

svars == <<members, busy>>

Answered(kind, x, seen, b) == [kind |-> kind, x |-> x, done |-> FALSE, seen |-> seen,
                               returned |-> TRUE, ret |-> b]

Init ==
  /\ members \in SUBSET Keys
  /\ busy = [t \in Threads |-> Answered("none", 0, {}, FALSE)]

Call(t) ==
  /\ busy[t].returned
  /\ \E kind \in {"add", "remove", "contains"}, x \in Keys :
       busy' = [busy EXCEPT ![t] = [kind |-> kind, x |-> x, done |-> FALSE, seen |-> {x \in members},
                                    returned |-> FALSE, ret |-> FALSE]]
  /\ UNCHANGED members

\* The one moment at which an operation changes the set.
Effect(t) ==
  /\ ~ busy[t].returned /\ ~ busy[t].done
  /\ LET x == busy[t].x IN
       /\ \/ busy[t].kind = "add" /\ x \notin members /\ members' = members \cup {x}
          \/ busy[t].kind = "remove" /\ x \in members /\ members' = members \ {x}
       /\ busy' = [u \in Threads |->
                     IF ~ busy[u].returned /\ busy[u].x = x
                     THEN [busy[u] EXCEPT !.seen = @ \cup {x \in members'}, !.done = @ \/ u = t]
                     ELSE busy[u]]

\* The answers that are right.
MayAnswer(t, b) ==
  LET o == busy[t] IN
    CASE o.kind = "contains" -> b \in o.seen
      [] o.kind = "add"      -> IF b THEN o.done ELSE ~ o.done /\ TRUE \in o.seen
      [] o.kind = "remove"   -> IF b THEN o.done ELSE ~ o.done /\ FALSE \in o.seen

Return(t) ==
  /\ ~ busy[t].returned
  /\ \E b \in BOOLEAN :
       /\ MayAnswer(t, b)
       /\ busy' = [busy EXCEPT ![t] = Answered(@.kind, @.x, @.seen, b)]
  /\ UNCHANGED members

Next == \E t \in Threads : Call(t) \/ Effect(t) \/ Return(t)

Spec == Init /\ [][Next]_svars
=============================================================================
