------------------------------ MODULE Snapshot ------------------------------
(***************************************************************************)
(* The wait-free snapshot objects of assignment/pcp/a4.  Thread j updates  *)
(* part j of a_table, after a scan of its own whose result it leaves for   *)
(* others; a scan collects the table until two collects agree, or until a  *)
(* part has moved twice and its owner's scan will do.  mrmw.cpp keeps the  *)
(* scans to borrow in helpsnap, x.cpp in the table.  A value is named by   *)
(* its stamp.  One action per load or store of a shared location.          *)
(***************************************************************************)
EXTENDS Integers, FiniteSets

CONSTANTS N,                \* capacity: parts of the table, one updater each
          Updates, Scans    \* bounds: updates of each thread, scans of snap1
                            \* (AtomicObjects states what they must be)

Parts   == 0 .. N - 1

Scanner == N                \* the thread snap1
Threads == 0 .. N
NULL    == [j \in Parts |-> -1]

VARIABLES program,              \* "mrmw.cpp" or "x.cpp"
          a_table, helpsnap,    \* stamp and snap of each part; scans to borrow
          pc, j,                \* control point of a thread, index in collect
          oldCopy, newCopy,     \* its two collects
          moved,                \* can_help (mrmw.cpp) or moved (x.cpp)
          snap,                 \* what its scan returned
          left,                 \* updates or scans it has still to do
          collects,             \* history: collects of the scan under way
          during,               \*   the tables that existed during that scan
          past                  \*   the tables that existed at all

vars == <<program, a_table, helpsnap, pc, j, oldCopy, newCopy, moved, snap, left, collects, during, past>>

Forgotten == [p \in Parts |-> [stamp |-> 0, snap |-> NULL]]
Stamps == [p \in Parts |-> a_table[p].stamp]
Scanning(t) == pc[t] \in {"collect", "recollect", "compare"}

-----------------------------------------------------------------------------
Init ==
  /\ program \in {"mrmw.cpp", "x.cpp"}
  /\ a_table = Forgotten
  /\ helpsnap = [p \in Parts |-> NULL]
  /\ pc = [t \in Threads |-> "idle"] /\ j = [t \in Threads |-> 0]
  /\ oldCopy = [t \in Threads |-> a_table] /\ newCopy = oldCopy
  /\ moved = [t \in Threads |-> {}]
  /\ snap = [t \in Threads |-> NULL]
  /\ left = [t \in Threads |-> IF t = Scanner THEN Scans ELSE Updates[t]]
  /\ collects = [t \in Threads |-> 0] /\ during = [t \in Threads |-> {}]
  /\ past = {Stamps}

\* scan is called, by snap1 or by update.  x.cpp does not initialise moved.
MovedAtStart == IF program = "x.cpp" THEN SUBSET Parts ELSE {{}}

StartScan(t) ==
  /\ pc[t] = "idle" /\ left[t] > 0
  /\ \E m \in MovedAtStart : moved' = [moved EXCEPT ![t] = m]
  /\ pc' = [pc EXCEPT ![t] = "collect"]
  /\ j' = [j EXCEPT ![t] = 0]
  /\ collects' = [collects EXCEPT ![t] = 1]
  /\ during' = [during EXCEPT ![t] = {Stamps}]
  /\ UNCHANGED <<program, a_table, helpsnap, oldCopy, newCopy, snap, left, past>>

\* collect: load the parts one after the other.
Collect(t) ==
  /\ pc[t] = "collect"
  /\ oldCopy' = [oldCopy EXCEPT ![t][j[t]] = a_table[j[t]]]
  /\ IF j[t] = N - 1
     THEN /\ pc' = [pc EXCEPT ![t] = "recollect"]
          /\ j' = [j EXCEPT ![t] = 0]
          /\ collects' = [collects EXCEPT ![t] = @ + 1]
     ELSE j' = [j EXCEPT ![t] = @ + 1] /\ UNCHANGED <<pc, collects>>
  /\ UNCHANGED <<program, a_table, helpsnap, newCopy, moved, snap, left, during, past>>

Recollect(t) ==
  /\ pc[t] = "recollect"
  /\ newCopy' = [newCopy EXCEPT ![t][j[t]] = a_table[j[t]]]
  /\ IF j[t] = N - 1
     THEN pc' = [pc EXCEPT ![t] = "compare"] /\ j' = [j EXCEPT ![t] = 0]
     ELSE j' = [j EXCEPT ![t] = @ + 1] /\ UNCHANGED pc
  /\ UNCHANGED <<program, a_table, helpsnap, oldCopy, moved, snap, left, collects, during, past>>

\* The parts whose stamps differ in the two collects, and those of them seen
\* to move before.  Mutated form: a part that has moved once is good
\* enough.
Differ(t) == {p \in Parts : oldCopy[t][p].stamp # newCopy[t][p].stamp}

MovedTwice_m(t) == Differ(t)
MovedTwice(t) == Differ(t) \cap moved[t]

First(S) == CHOOSE p \in S : \A q \in S : p <= q

\* A scan of update goes on to the store, one of snap1 is done; the locals of
\* scan are gone.
ScanReturns(t, s) ==
  /\ snap' = [snap EXCEPT ![t] = s]
  /\ oldCopy' = [oldCopy EXCEPT ![t] = Forgotten]
  /\ newCopy' = [newCopy EXCEPT ![t] = Forgotten]
  /\ moved' = [moved EXCEPT ![t] = {}]
  /\ pc' = [pc EXCEPT ![t] = IF t = Scanner THEN "report" ELSE "help"]
  /\ UNCHANGED <<program, a_table, helpsnap, j, left, collects, during, past>>

\* Two equal collects: the values of the new one.
ReturnClean(t) ==
  /\ pc[t] = "compare" /\ Differ(t) = {}
  /\ ScanReturns(t, [p \in Parts |-> newCopy[t][p].stamp])

\* mrmw.cpp: helpsnap of the first part that has moved twice.
ReturnHelp(t) ==
  /\ program = "mrmw.cpp"
  /\ pc[t] = "compare" /\ MovedTwice(t) # {}
  /\ ScanReturns(t, helpsnap[First(MovedTwice(t))])

\* x.cpp: only the first part that differs counts, and its OLD copy is read.
ReturnOldSnap(t) ==
  /\ program = "x.cpp"
  /\ pc[t] = "compare" /\ Differ(t) # {} /\ First(Differ(t)) \in moved[t]
  /\ ScanReturns(t, oldCopy[t][First(Differ(t))].snap)

\* Otherwise remember who moved and collect again.  Mutated form: nothing is
\* remembered.
Remember_m(t) == {}
Remember(t) == IF program = "x.cpp" THEN {First(Differ(t))} ELSE Differ(t)

CollectAgain(t) ==
  /\ pc[t] = "compare" /\ Differ(t) # {}
  /\ IF program = "x.cpp" THEN First(Differ(t)) \notin moved[t] ELSE MovedTwice(t) = {}
  /\ moved' = [moved EXCEPT ![t] = @ \cup Remember(t)]
  /\ oldCopy' = [oldCopy EXCEPT ![t] = newCopy[t]]
  /\ pc' = [pc EXCEPT ![t] = "recollect"]
  /\ j' = [j EXCEPT ![t] = 0]
  /\ collects' = [collects EXCEPT ![t] = @ + 1]
  /\ UNCHANGED <<program, a_table, helpsnap, newCopy, snap, left, during, past>>

\* update, after its scan: offer the scan, then store the value.
OfferSnap(t) ==
  /\ pc[t] = "help"
  /\ helpsnap' = IF program = "mrmw.cpp" THEN [helpsnap EXCEPT ![t] = snap[t]] ELSE helpsnap
  /\ pc' = [pc EXCEPT ![t] = "store"]
  /\ UNCHANGED <<program, a_table, j, oldCopy, newCopy, moved, snap, left, collects, during, past>>

\* oldValue.stamp + 1.
NextStamp(t) == a_table[t].stamp + 1

Store(t) ==
  /\ pc[t] = "store"
  /\ a_table' = [a_table EXCEPT ![t] = [stamp |-> NextStamp(t), snap |-> snap[t]]]
  /\ during' = [u \in Threads |-> IF Scanning(u) THEN during[u] \cup {Stamps'} ELSE during[u]]
  /\ past' = past \cup {Stamps'}
  /\ left' = [left EXCEPT ![t] = @ - 1]
  /\ snap' = [snap EXCEPT ![t] = NULL]
  /\ pc' = [pc EXCEPT ![t] = "idle"]
  /\ UNCHANGED <<program, helpsnap, j, oldCopy, newCopy, moved, collects>>

\* snap1 prints what it got.
Report ==
  /\ pc[Scanner] = "report"
  /\ left' = [left EXCEPT ![Scanner] = @ - 1]
  /\ pc' = [pc EXCEPT ![Scanner] = "idle"]
  /\ UNCHANGED <<program, a_table, helpsnap, j, oldCopy, newCopy, moved, snap, collects, during, past>>

Thread(t) ==
  \/ StartScan(t) \/ Collect(t) \/ Recollect(t)
  \/ ReturnClean(t) \/ ReturnHelp(t) \/ ReturnOldSnap(t) \/ CollectAgain(t)
  \/ OfferSnap(t) \/ Store(t)

Over == (\A t \in Threads : pc[t] = "idle" /\ left[t] = 0) /\ UNCHANGED vars

Next == (\E t \in Threads : Thread(t)) \/ Report \/ Over

Spec == Init /\ [][Next]_vars

-----------------------------------------------------------------------------
Tables == [Parts -> Nat \cup {-1}]
Cells  == [stamp : Nat, snap : Tables]

\* Stamps count the updates.
TypeOK ==
  /\ program \in {"mrmw.cpp", "x.cpp"}
  /\ a_table \in [Parts -> Cells] /\ helpsnap \in [Parts -> Tables]
  /\ \A p \in Parts : a_table[p].stamp = Updates[p] - left[p]
  /\ pc \in [Threads -> {"idle", "collect", "recollect", "compare", "help", "store", "report"}]
  /\ j \in [Threads -> 0 .. N]
  /\ oldCopy \in [Threads -> [Parts -> Cells]] /\ newCopy \in [Threads -> [Parts -> Cells]]
  /\ moved \in [Threads -> SUBSET Parts]
  /\ snap \in [Threads -> Tables]
  /\ left \in [Threads -> Nat] /\ collects \in [Threads -> Nat]
  /\ past \subseteq [Parts -> Nat] /\ during \in [Threads -> SUBSET past]

\* mrmw.cpp: a scan returns the table as it was at one moment between its call
\* and its return, whoever's scan it borrowed.
ScansAreAtomic ==
  program = "mrmw.cpp" =>
    \A t \in Threads : pc[t] \in {"help", "report"} => snap[t] \in during[t]

\* x.cpp may return an older table or none at all, but never a mixture: what
\* it returns is a table that existed at some moment of the execution.
ScansAreTables ==
  \A t \in Threads : snap[t] # NULL => snap[t] \in past

\* Wait-freedom: every part can disturb a scan once, then its owner's scan is
\* borrowed; no scan collects more than N + 2 times however busy the others.
WaitFree == \A t \in Threads : collects[t] <= N + 2

\* What either program's scans keep to: tables that existed, in a bounded
\* number of collects.
Safety == TypeOK /\ ScansAreTables /\ WaitFree
=============================================================================
