-------------------------- MODULE RealTimeScheduler --------------------------
(***************************************************************************)
(* The simulations of "assignment/OS 2/A1": earliest deadline first        *)
(* (Assgn1-EDFcs16btech11038.cpp), rate monotonic (Assgn1-RMS...), which   *)
(* differ in what makes a process the more urgent one, and "backup         *)
(* edf.cpp", which does not stop a process that misses its deadline.  One  *)
(* action per branch of the simulator loop.                                *)
(***************************************************************************)
EXTENDS Integers, FiniteSets, FiniteSetsExt

CONSTANT TaskSets       \* bound: the inputs, sequences of records of a
                        \* processing time t, a period p and a repetition k

VARIABLES policy,       \* the program: "EDF", "RM" or "backup"
          tasks,        \* the input
          all, rq,      \* processes to come and waiting ones, sets for queues
          running,      \* the process that has the CPU, or {}
          fin,          \* the processes that are over
          cur_time,
          phase         \* where in the loop: "join", "pick", "sim", or "stats"

simVars == <<policy, tasks, all, rq, running, fin, cur_time, phase>>

-----------------------------------------------------------------------------
dline(a) == a.st + a.p

\* "if dline is t=50, process has to finish on or before t=49".  Mutated form:
\* it may run in the tick that begins at its deadline.
miss_dl_m(a) == policy # "backup" /\ cur_time > dline(a)
miss_dl(a) == policy # "backup" /\ cur_time >= dline(a)

Rank(a) == IF policy = "RM" THEN a.p ELSE dline(a)

\* The more urgent of two; with equal ranks the first to enter.  The
\* comparator of rq does not order the others, so the heap may have any of
\* them on top.
Before(a, b) == Rank(a) < Rank(b) \/ (Rank(a) = Rank(b) /\ a.st < b.st)
Tops(q) == {a \in q : \A b \in q : ~ Before(b, a)}

\* pr_lt: a is not preempted by a less urgent process, but by an equal one.
pr_lt_m(a, b) == ~ Before(b, a)
pr_lt(a, b) == ~ Before(a, b)

Ended(a, end) == [a EXCEPT !.end_time = end]

Processes(ts) ==
  UNION {{[pid |-> i, t |-> ts[i].t, p |-> ts[i].p, st |-> n * ts[i].p,
           run_time |-> 0, end_time |-> 0] : n \in 0 .. ts[i].k - 1} : i \in DOMAIN ts}

SimInit ==
  /\ policy \in {"EDF", "RM", "backup"} /\ tasks \in TaskSets
  /\ all = Processes(tasks) /\ rq = {} /\ running = {} /\ fin = {}
  /\ cur_time = 0 /\ phase = "join"

\* The processes whose start time has come enter the ready queue.
Join ==
  LET now == {a \in all : a.st = cur_time} IN
  /\ phase = "join"
  /\ all' = all \ now /\ rq' = rq \cup now
  /\ phase' = IF running \cup rq' \cup all' = {} THEN "stats" ELSE "pick"
  /\ UNCHANGED <<policy, tasks, running, fin, cur_time>>

\* The running process is stopped at its deadline; the loop starts over at
\* the same time.
StopRunning ==
  /\ phase = "pick"
  /\ \E a \in running : miss_dl(a) /\ fin' = fin \cup {Ended(a, dline(a))}
  /\ running' = {} /\ phase' = "join"
  /\ UNCHANGED <<policy, tasks, all, rq, cur_time>>

Picking == phase = "pick" /\ \A a \in running : ~ miss_dl(a)

\* A waiting process that has missed its deadline is found when it is on top.
StopWaiting(a) ==
  /\ Picking /\ a \in Tops(rq) /\ miss_dl(a)
  /\ rq' = rq \ {a} /\ fin' = fin \cup {Ended(a, dline(a))}
  /\ phase' = IF running \cup rq' = {} THEN "sim" ELSE "pick"
  /\ UNCHANGED <<policy, tasks, all, running, cur_time>>

Ran(a) == {[a EXCEPT !.run_time = @ + 1]}

\* Give the CPU to the process on top, if it is idle or a less urgent process
\* has it.
Dispatch(a) ==
  /\ Picking /\ a \in Tops(rq) /\ ~ miss_dl(a)
  /\ \A b \in running : pr_lt(b, a)
  /\ rq' = (rq \ {a}) \cup running /\ running' = Ran(a)
  /\ phase' = "sim"
  /\ UNCHANGED <<policy, tasks, all, fin, cur_time>>

Continue ==
  /\ Picking
  /\ \E a \in running :
       /\ rq = {} \/ \E b \in Tops(rq) : ~ miss_dl(b) /\ ~ pr_lt(a, b)
       /\ running' = Ran(a)
  /\ phase' = "sim"
  /\ UNCHANGED <<policy, tasks, all, rq, fin, cur_time>>

StayIdle ==
  /\ Picking /\ running \cup rq = {}
  /\ phase' = "sim"
  /\ UNCHANGED <<policy, tasks, all, rq, running, fin, cur_time>>

\* sim: the running process may have finished; the clock ticks.
Tick ==
  LET done == {a \in running : a.run_time = a.t} IN
  /\ phase = "sim"
  /\ fin' = fin \cup {Ended(a, cur_time) : a \in done}
  /\ running' = running \ done
  /\ cur_time' = cur_time + 1 /\ phase' = "join"
  /\ UNCHANGED <<policy, tasks, all, rq>>

Simulate ==
  \/ Join \/ StopRunning \/ (\E a \in rq : StopWaiting(a) \/ Dispatch(a))
  \/ Continue \/ StayIdle \/ Tick

\* Stats-Analysis: those that missed their deadline.
dead == {a \in fin : a.end_time >= dline(a)}

-----------------------------------------------------------------------------
\* A process is in one place at a time, and none is lost or run twice: those
\* that met their deadline ran for their processing time between their start
\* and it, the others did not, or not before it.  (The total the submitted
\* programs print is that of the processes; backup edf.cpp prints the number
\* of tasks under the same name.)
ProcessesAddUp ==
  /\ Cardinality(all) + Cardinality(rq) + Cardinality(running) + Cardinality(fin)
       = Cardinality(Processes(tasks))
  /\ \A a \in fin \ dead : a.run_time = a.t /\ a.end_time - a.st + 1 >= a.t
  /\ \A a \in dead : IF policy = "backup" THEN a.run_time = a.t ELSE a.run_time < a.t

\* The demand of the tasks that precede task i or are as urgent as it, over
\* the first d ticks, in processes that are released in them.
Demand(i, d) ==
  LET n(j) == (d + tasks[j].p - 1) \div tasks[j].p
  IN  MapThenSumSet(LAMBDA j : (IF n(j) < tasks[j].k THEN n(j) ELSE tasks[j].k) * tasks[j].t,
                    {j \in DOMAIN tasks : tasks[j].p <= tasks[i].p})

\* The processes due by time d, whatever their rank.
DueBy(d) ==
  MapThenSumSet(LAMBDA a : a.t, {a \in Processes(tasks) : dline(a) <= d})

Horizon == Max({dline(a) : a \in Processes(tasks)})

\* Whether the input can be scheduled: earliest deadline first if nothing more
\* is due by any time than fits before it, rate monotonic if every task's first
\* process, which enters with those of all others, can finish behind them.
Feasible ==
  IF policy # "RM" THEN \A d \in 1 .. Horizon : DueBy(d) <= d
  ELSE \A i \in DOMAIN tasks : \E d \in 1 .. tasks[i].p : Demand(i, d) <= d

\* The program misses a deadline only if its policy had to: neither preemption,
\* nor the removal of late processes, nor the ticks lost or won at the edges
\* of a deadline cost a process its time.
DeadlinesAreMet == phase = "stats" => (dead = {} <=> Feasible)
=============================================================================
