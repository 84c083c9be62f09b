---------------------------- MODULE MCOSPrograms ----------------------------
\* Small instances of the programs for TLC.
EXTENDS OSPrograms

\* Two tasks of any urgency, and three of different periods.
TwoTasks ==
  {ts \in [1 .. 2 -> [t : 1 .. 3, p : 2 .. 5, k : {2}]] :
     ts[1].p <= ts[2].p /\ \A i \in 1 .. 2 : ts[i].t <= ts[i].p}

ThreeTasks ==
  {ts \in [1 .. 3 -> [t : 1 .. 2, p : {2, 4, 5}, k : {3}]] :
     ts[1].p < ts[2].p /\ ts[2].p < ts[3].p /\ ts[3].t = 1}

MCTaskSets == TwoTasks \cup ThreeTasks

\* MAX is a power of ten.
MCInputs == ({10} \X {1, 2, 3}) \cup ({100} \X {1, 3}) \cup {<<1000, 2>>}
MCDAMInputs == {10} \X {1, 2}
=============================================================================
