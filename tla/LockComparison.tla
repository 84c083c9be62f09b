--------------------------- MODULE LockComparison ---------------------------
(***************************************************************************)
(* The program assignment/pcp/a2/b.cpp: main runs n threads through the    *)
(* filter lock (testCS2), joins them, then runs n threads through the      *)
(* bakery lock (testCS1).  The accumulator wait_time is reset in between,  *)
(* so each half has one of its own here.                                   *)
(***************************************************************************)
EXTENDS BakeryLock

VARIABLES level, victim, fPc, fi, fj, fLeft, fTotal, fTmp,   \* the filter half
          stage                   \* what main is waiting for

filterVars == <<level, victim, fPc, fi, fj, fLeft, fTotal, fTmp>>

Filter == INSTANCE FilterLock WITH
  pc <- fPc, i <- fi, j <- fj, left <- fLeft, wait_time <- fTotal, tmp <- fTmp

-----------------------------------------------------------------------------
MainInit == Init /\ Filter!Init /\ stage = "filter"

FilterThread(t) ==
  /\ stage = "filter" /\ Filter!Thread(t)
  /\ UNCHANGED <<vars, stage>>

\* main joins the filter threads and creates the bakery threads; nobody uses
\* the filter lock and the locals of its threads again, so they are forgotten.
CreateBakeryThreads ==
  /\ stage = "filter" /\ \A t \in Threads : Filter!Finished(t)
  /\ stage' = "bakery"
  /\ level' = [t \in Threads |-> 0] /\ victim' = [l \in 1 .. N - 1 |-> Filter!Nobody]
  /\ fi' = level' /\ fj' = level' /\ fTmp' = level'
  /\ UNCHANGED <<fPc, fLeft, fTotal, vars>>

BakeryThread(t) ==
  /\ stage = "bakery" /\ Thread(t)
  /\ UNCHANGED <<filterVars, stage>>

MainReturns == stage = "bakery" /\ Over /\ UNCHANGED <<filterVars, stage>>

MainThread(t) == FilterThread(t) \/ BakeryThread(t)

MainNext == (\E t \in Threads : MainThread(t)) \/ CreateBakeryThreads \/ MainReturns

mainVars == <<vars, filterVars, stage>>

\* The operating system runs main and every thread it has created.
MainSpec ==
  /\ MainInit /\ [][MainNext]_mainVars
  /\ WF_mainVars(CreateBakeryThreads)
  /\ \A t \in Threads : WF_mainVars(MainThread(t))

-----------------------------------------------------------------------------
\* How often thread t has taken a bakery label so far, and every time anyone
\* has: thread and count.
Taken(t) == K - left[t] + (IF Waiting(t) \/ InCS(t) THEN 1 ELSE 0)
Acquisitions == {a \in Threads \X (1 .. K) : a[2] <= Taken(a[1])}

\* Labels advance no faster than acquisitions: the overflow check of Lock can
\* end the process only after the threads have taken INT64_MAX labels.
LabelsCountAcquisitions == \A t \in Threads : label[t] <= Cardinality(Acquisitions)

\* The filter half: at most one thread is between Lock and Unlock, each level
\* holds one thread back, and the indices of Lock stay in range.
FilterSafety == Filter!Safety

\* The filter half refines the abstract mutex: no measurement is lost.
FilterImplementsMutex == Filter!ImplementsMutex

\* The filter half: every call of Lock returns.
FilterIsGranted == Filter!LockIsGranted
=============================================================================
