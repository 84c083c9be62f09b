------------------------- MODULE AtomicObjectsProofs -------------------------
(***************************************************************************)
(* The atomic objects of assignment/pcp/a3 and a4, for every number of     *)
(* threads and of their actions: scans are the tables they should be and   *)
(* end, and reads of both registers are fresh but where a read overlapped  *)
(* a write.  Each object has its inductive invariant, kept by the steps of *)
(* the other objects, which leave its variables alone.                     *)
(***************************************************************************)
EXTENDS AtomicObjects, FiniteSetTheorems, WellFoundedInduction, TLAPS
-----------------------------------------------------------------------------
(* The snapshot objects.  Between the call and the return of a scan lie    *)
(* the tables of during.  Two equal collects are the table that was there  *)
(* between them.  A part seen to move twice has moved twice since the scan *)
(* began, so the second of its updates began, and made its own scan, since *)
(* then as well; in x.cpp the old copy may hold the scan of the first.     *)

\* The table, by its stamps.
Table == Snap!Stamps

\* What a copy of the table may hold: a table that existed, or nothing.
NSeen == past \cup {Snap!NULL}

NPlaceInv ==
  \A t \in Snap!Threads :
    /\ s_pc[t] = "report" => t = Snap!Scanner
    /\ s_pc[t] \in {"help", "store"} => t \in Snap!Parts
    /\ s_pc[t] # "idle" => s_left[t] > 0
    /\ s_pc[t] \in {"collect", "recollect"} => j[t] \in Snap!Parts

NPastInv ==
  /\ Table \in past
  /\ \A p \in Snap!Parts : a_table[p].snap \in NSeen /\ helpsnap[p] \in NSeen
  /\ \A t \in Snap!Threads :
       /\ snap[t] \in NSeen
       /\ \A p \in Snap!Parts : oldCopy[t][p].snap \in NSeen /\ newCopy[t][p].snap \in NSeen

\* T lies between the old collect of t and what it has of the new one.
NBetween(t, T) ==
  \A p \in Snap!Parts :
    /\ oldCopy[t][p].stamp <= T[p] /\ T[p] <= Table[p]
    /\ s_pc[t] = "compare" \/ p < j[t]
         => T[p] <= newCopy[t][p].stamp /\ newCopy[t][p].stamp <= Table[p]

NScan(t) ==
  Snap!Scanning(t) =>
    /\ Table \in during[t]
    /\ s_pc[t] = "collect" =>
         \A p \in Snap!Parts : p < j[t] => oldCopy[t][p].stamp <= Table[p]
    /\ s_pc[t] # "collect" => \E T \in during[t] : NBetween(t, T)

\* S is the table when the scan of t began: who has moved since and scans
\* does so within the scan of t, and the scan of a second update is borrowed.
NMoves(t, S, p) ==
  /\ S[p] <= Table[p]
  /\ s_pc[t] # "collect" \/ p < j[t] => S[p] <= oldCopy[t][p].stamp
  /\ p \in moved[t] => s_pc[t] # "collect" /\ S[p] < oldCopy[t][p].stamp
  /\ S[p] < Table[p] /\ s_pc[p] # "idle" => during[p] \subseteq during[t]
  /\ S[p] + 1 < Table[p] \/ (S[p] < Table[p] /\ s_pc[p] = "store")
       => helpsnap[p] \in during[t]

NBorrow(t) ==
  /\ Snap!Scanning(t) => \E S \in during[t] : \A p \in Snap!Parts : NMoves(t, S, p)
  /\ s_pc[t] \in {"help", "report", "store"} => snap[t] \in during[t]

\* Every collect after the second has put another part into moved.
NCollects(t) ==
  /\ s_pc[t] = "collect" => collects[t] = 1
  /\ s_pc[t] \in {"recollect", "compare"} => collects[t] <= 2 + Cardinality(moved[t])
  /\ collects[t] <= Capacity + 2

NScanInv    == \A t \in Snap!Threads : NScan(t)
NBorrowInv  == program = "mrmw.cpp" => \A t \in Snap!Threads : NBorrow(t)
NCollectInv == \A t \in Snap!Threads : NCollects(t)

NInv == /\ Snap!TypeOK /\ NPlaceInv /\ NPastInv /\ NScanInv /\ NBorrowInv /\ NCollectInv

\* How the variables of the snapshot objects can change.
LEMMA NMoveOn ==
  ASSUME Next \/ UNCHANGED <<object, registerVars, sharedVars, snapVars>>
  PROVE  (\E t \in Snap!Threads : Snap!Thread(t)) \/ Snap!Report \/ UNCHANGED snapVars
  BY DEF Next, snapVars, Snap!Next, Snap!Over, Snap!vars

LEMMA NBasics ==
  /\ Capacity \in Nat /\ Capacity > 0 /\ Snap!Parts = 0 .. Capacity - 1
  /\ Snap!Threads = 0 .. Capacity /\ Snap!Parts \subseteq Snap!Threads
  /\ Snap!Scanner \in Snap!Threads /\ Snap!Scanner \notin Snap!Parts
  /\ \A t \in Snap!Threads : t # Snap!Scanner => t \in Snap!Parts
  /\ Updates \in [Snap!Parts -> Nat] /\ Scans \in Nat
  BY CapacityAssumption, UpdatesAssumption DEF Snap!Parts, Snap!Threads, Snap!Scanner

\* A nonempty set of parts has a first one.
LEMMA NFirst ==
  ASSUME NEW S, S \subseteq Snap!Parts, S # {}
  PROVE  Snap!First(S) \in S
<1>. DEFINE R == OpToRel(<, Nat)
<1>1. \E x \in S : \A y \in S : ~ (<<y, x>> \in R)
  <2>1. S \subseteq Nat
    BY NBasics
  <2>. QED
    BY <2>1, NatLessThanWellFounded, WFMin
<1>2. \A x, y \in Nat : y < x => <<y, x>> \in R
  BY DEF OpToRel
<1>. HIDE DEF R
<1>3. PICK x \in S : \A y \in S : ~ (<<y, x>> \in R)
  BY <1>1
<1>4. ASSUME NEW y \in S PROVE x <= y
  <2>1. x \in Nat /\ y \in Nat
    BY NBasics
  <2>2. ~ (y < x)
    BY <1>2, <1>3, <2>1
  <2>. QED
    BY <2>1, <2>2
<1>5. x \in Snap!Parts
  OBVIOUS
<1>. QED
  BY <1>4, <1>5 DEF Snap!First

\* A step of t leaves the others' part of the state alone, but for the tables
\* that existed during their scans.
LEMMA NOthersStay ==
  ASSUME Snap!TypeOK, NEW t \in Snap!Threads, Snap!Thread(t), NEW u \in Snap!Threads, u # t
  PROVE  /\ s_pc'[u] = s_pc[u] /\ j'[u] = j[u] /\ oldCopy'[u] = oldCopy[u]
         /\ newCopy'[u] = newCopy[u] /\ moved'[u] = moved[u] /\ snap'[u] = snap[u]
         /\ s_left'[u] = s_left[u] /\ collects'[u] = collects[u]
         /\ during'[u] = IF s_pc[t] = "store" /\ Snap!Scanning(u)
                         THEN during[u] \cup {Table'} ELSE during[u]
         /\ u \in Snap!Parts => a_table'[u] = a_table[u] /\ helpsnap'[u] = helpsnap[u]
<1>1. CASE Snap!StartScan(t)
  BY <1>1, NBasics DEF Snap!TypeOK, Snap!Scanning, Snap!StartScan
<1>2. CASE Snap!Collect(t)
  BY <1>2, NBasics DEF Snap!TypeOK, Snap!Scanning, Snap!Collect
<1>3. CASE Snap!Recollect(t)
  BY <1>3, NBasics DEF Snap!TypeOK, Snap!Scanning, Snap!Recollect
<1>4. CASE Snap!ReturnClean(t)
  BY <1>4, NBasics DEF Snap!TypeOK, Snap!Scanning, Snap!ReturnClean, Snap!ScanReturns
<1>5. CASE Snap!ReturnHelp(t)
  BY <1>5, NBasics DEF Snap!TypeOK, Snap!Scanning, Snap!ReturnHelp, Snap!ScanReturns
<1>6. CASE Snap!ReturnOldSnap(t)
  BY <1>6, NBasics DEF Snap!TypeOK, Snap!Scanning, Snap!ReturnOldSnap, Snap!ScanReturns
<1>7. CASE Snap!CollectAgain(t)
  BY <1>7, NBasics DEF Snap!TypeOK, Snap!Scanning, Snap!CollectAgain
<1>8. CASE Snap!OfferSnap(t)
  BY <1>8, NBasics DEF Snap!TypeOK, Snap!Scanning, Snap!OfferSnap
<1>9. CASE Snap!Store(t)
  BY <1>9, NBasics DEF Snap!TypeOK, Snap!Scanning, Snap!Store, Table
<1>. QED
  BY <1>1, <1>2, <1>3, <1>4, <1>5, <1>6, <1>7, <1>8, <1>9 DEF Snap!Thread

\* Only a store changes the table, and a scan begins in the table that is there.
LEMMA NTable ==
  ASSUME Snap!TypeOK, NEW t \in Snap!Threads, Snap!Thread(t)
  PROVE  /\ program' = program
         /\ s_pc[t] # "store" => /\ a_table' = a_table /\ past' = past
                                 /\ Table' = Table
         /\ s_pc[t] = "store" => past' = past \cup {Table'} /\ during'[t] = during[t]
         /\ s_pc[t] # "idle" /\ s_pc[t] # "store" => during'[t] = during[t]
         /\ s_pc[t] = "idle" => during'[t] = {Table}
         /\ s_pc[t] # "help" => helpsnap' = helpsnap
<1>1. CASE Snap!StartScan(t)
  BY <1>1, NBasics DEF Snap!TypeOK, Snap!StartScan, Table, Snap!Stamps
<1>2. CASE Snap!Collect(t)
  BY <1>2, NBasics DEF Snap!TypeOK, Snap!Collect, Table, Snap!Stamps
<1>3. CASE Snap!Recollect(t)
  BY <1>3, NBasics DEF Snap!TypeOK, Snap!Recollect, Table, Snap!Stamps
<1>4. CASE Snap!ReturnClean(t)
  BY <1>4, NBasics DEF Snap!TypeOK, Snap!ReturnClean, Snap!ScanReturns, Table, Snap!Stamps
<1>5. CASE Snap!ReturnHelp(t)
  BY <1>5, NBasics DEF Snap!TypeOK, Snap!ReturnHelp, Snap!ScanReturns, Table, Snap!Stamps
<1>6. CASE Snap!ReturnOldSnap(t)
  BY <1>6, NBasics DEF Snap!TypeOK, Snap!ReturnOldSnap, Snap!ScanReturns, Table, Snap!Stamps
<1>7. CASE Snap!CollectAgain(t)
  BY <1>7, NBasics DEF Snap!TypeOK, Snap!CollectAgain, Table, Snap!Stamps
<1>8. CASE Snap!OfferSnap(t)
  BY <1>8, NBasics DEF Snap!TypeOK, Snap!OfferSnap, Table, Snap!Stamps
<1>9. CASE Snap!Store(t)
  BY <1>9, NBasics DEF Snap!TypeOK, Snap!Scanning, Snap!Store, Table, Snap!Stamps
<1>. QED
  BY <1>1, <1>2, <1>3, <1>4, <1>5, <1>6, <1>7, <1>8, <1>9 DEF Snap!Thread

LEMMA NStamps ==
  ASSUME Snap!TypeOK
  PROVE  Table \in [Snap!Parts -> Nat] /\ \A p \in Snap!Parts : Table[p] = a_table[p].stamp
  BY DEF Snap!TypeOK, Snap!Stamps, Table, Snap!Cells

\* A store by t.
LEMMA NStore ==
  ASSUME Snap!TypeOK, NPlaceInv, NEW t \in Snap!Threads, Snap!Thread(t), s_pc[t] = "store"
  PROVE  /\ t \in Snap!Parts /\ s_pc'[t] = "idle" /\ snap'[t] = Snap!NULL
         /\ a_table' = [a_table EXCEPT ![t] = [stamp |-> a_table[t].stamp + 1, snap |-> snap[t]]]
         /\ s_left'[t] = s_left[t] - 1 /\ s_left[t] > 0
         /\ oldCopy' = oldCopy /\ newCopy' = newCopy /\ collects' = collects
         /\ j' = j /\ moved' = moved
         /\ Table' = [Table EXCEPT ![t] = @ + 1]
<1>1. t \in Snap!Parts /\ Snap!Store(t) /\ s_left[t] > 0
  BY DEF NPlaceInv, Snap!Thread, Snap!StartScan, Snap!Collect, Snap!Recollect,
     Snap!ReturnClean, Snap!ReturnHelp, Snap!ReturnOldSnap, Snap!CollectAgain, Snap!OfferSnap
<1>2. a_table' = [a_table EXCEPT ![t] = [stamp |-> a_table[t].stamp + 1, snap |-> snap[t]]]
  BY <1>1 DEF Snap!Store, Snap!NextStamp
<1>3. Table' = [Table EXCEPT ![t] = @ + 1]
  BY <1>1, <1>2 DEF Snap!TypeOK, Snap!Cells, Snap!Stamps, Table
<1>. QED
  BY <1>1, <1>2, <1>3, NBasics DEF Snap!Store, Snap!TypeOK

\* Stamps only grow, and what existed during a scan goes on to.
LEMMA NGrow ==
  ASSUME Snap!TypeOK, NPlaceInv, NEW t \in Snap!Threads, Snap!Thread(t), Snap!TypeOK'
  PROVE  /\ \A p \in Snap!Parts : Table[p] <= Table'[p]
         /\ \A p \in Snap!Parts : p # t \/ s_pc[t] # "store" => Table'[p] = Table[p]
         /\ \A u \in Snap!Threads : u # t => during[u] \subseteq during'[u]
         /\ past \subseteq past' /\ Table' \in [Snap!Parts -> Nat]
<1>1. \A u \in Snap!Threads : u # t => during[u] \subseteq during'[u]
  BY NOthersStay
<1>2. past \subseteq past' /\ Table' \in [Snap!Parts -> Nat]
  BY NTable DEF Snap!TypeOK, Snap!Cells, Snap!Stamps, Table
<1>3. CASE s_pc[t] = "store"
  BY <1>1, <1>2, <1>3, NStore, NStamps
<1>4. CASE s_pc[t] # "store"
  BY <1>1, <1>2, <1>4, NTable, NStamps
<1>. QED
  BY <1>3, <1>4

LEMMA NCells ==
  ASSUME Snap!TypeOK
  PROVE  /\ Snap!NULL \in Snap!Tables /\ Snap!Forgotten \in [Snap!Parts -> Snap!Cells]
         /\ \A p \in Snap!Parts : a_table[p].stamp \in Nat /\ a_table[p].snap \in Snap!Tables
         /\ \A t \in Snap!Threads, p \in Snap!Parts :
              /\ oldCopy[t][p].stamp \in Nat /\ oldCopy[t][p].snap \in Snap!Tables
              /\ newCopy[t][p].stamp \in Nat /\ newCopy[t][p].snap \in Snap!Tables
         /\ \A f \in [Snap!Parts -> Nat] : f \in Snap!Tables
  BY DEF Snap!TypeOK, Snap!Cells, Snap!Tables, Snap!NULL, Snap!Forgotten

\* The part whose snap a scan borrows is one that differs, and was seen to move.
LEMMA NDiffer ==
  ASSUME NEW t \in Snap!Threads
  PROVE  /\ Snap!Differ(t) \subseteq Snap!Parts /\ Snap!MovedTwice(t) = Snap!Differ(t) \cap moved[t]
         /\ Snap!Differ(t) # {} => Snap!First(Snap!Differ(t)) \in Snap!Differ(t)
         /\ Snap!MovedTwice(t) # {} => Snap!First(Snap!MovedTwice(t)) \in Snap!MovedTwice(t)
         /\ \A p \in Snap!Differ(t) : oldCopy[t][p].stamp # newCopy[t][p].stamp
<1>1. /\ Snap!Differ(t) \subseteq Snap!Parts /\ Snap!MovedTwice(t) = Snap!Differ(t) \cap moved[t]
      /\ \A p \in Snap!Differ(t) : oldCopy[t][p].stamp # newCopy[t][p].stamp
  BY DEF Snap!Differ, Snap!MovedTwice
<1>. QED
  BY <1>1, NFirst

\* A scan returns the new copy's stamps, or a table it borrows.
LEMMA NReturn ==
  ASSUME Snap!TypeOK, NEW t \in Snap!Threads,
         Snap!ReturnClean(t) \/ Snap!ReturnHelp(t) \/ Snap!ReturnOldSnap(t)
  PROVE  \E s \in Snap!Tables :
           /\ s_pc[t] = "compare" /\ Snap!ScanReturns(t, s)
           /\ \/ /\ s = [p \in Snap!Parts |-> newCopy[t][p].stamp]
                 /\ \A p \in Snap!Parts : oldCopy[t][p].stamp = newCopy[t][p].stamp
              \/ /\ program = "mrmw.cpp"
                 /\ \E p \in Snap!Parts : /\ s = helpsnap[p] /\ p \in moved[t]
                                          /\ oldCopy[t][p].stamp # newCopy[t][p].stamp
              \/ program = "x.cpp" /\ \E p \in Snap!Parts : s = oldCopy[t][p].snap
<1>1. CASE Snap!ReturnClean(t)
  <2>1. [p \in Snap!Parts |-> newCopy[t][p].stamp] \in Snap!Tables
    BY NCells
  <2>. QED
    BY <1>1, <2>1 DEF Snap!ReturnClean, Snap!Differ
<1>2. CASE Snap!ReturnHelp(t)
  <2>1. PICK p \in Snap!Parts : p = Snap!First(Snap!MovedTwice(t)) /\ p \in moved[t]
                                /\ oldCopy[t][p].stamp # newCopy[t][p].stamp
    BY <1>2, NDiffer DEF Snap!ReturnHelp
  <2>2. helpsnap[p] \in Snap!Tables
    BY DEF Snap!TypeOK
  <2>. QED
    BY <1>2, <2>1, <2>2 DEF Snap!ReturnHelp
<1>3. CASE Snap!ReturnOldSnap(t)
  <2>1. PICK p \in Snap!Parts : p = Snap!First(Snap!Differ(t))
    BY <1>3, NDiffer DEF Snap!ReturnOldSnap
  <2>2. oldCopy[t][p].snap \in Snap!Tables
    BY NCells
  <2>. QED
    BY <1>3, <2>1, <2>2 DEF Snap!ReturnOldSnap
<1>. QED
  BY <1>1, <1>2, <1>3

LEMMA NTypeNext ==
  ASSUME Snap!TypeOK, NPlaceInv, NPastInv, NEW t \in Snap!Threads, Snap!Thread(t)
  PROVE  Snap!TypeOK'
<1>1. CASE Snap!StartScan(t)
  <2>1. PICK m \in SUBSET Snap!Parts : moved' = [moved EXCEPT ![t] = m]
    BY <1>1 DEF Snap!StartScan, Snap!MovedAtStart
  <2>2. {Snap!Stamps} \in SUBSET past /\ 0 \in 0 .. Capacity
    BY NBasics DEF NPastInv, Table
  <2>. QED
    BY <1>1, <2>1, <2>2 DEF Snap!TypeOK, Snap!StartScan
<1>2. CASE Snap!Collect(t)
  <2>1. j[t] \in Snap!Parts /\ j[t] + 1 \in 0 .. Capacity /\ 0 \in 0 .. Capacity
    BY <1>2, NBasics DEF NPlaceInv, Snap!Collect
  <2>2. [oldCopy[t] EXCEPT ![j[t]] = a_table[j[t]]] \in [Snap!Parts -> Snap!Cells]
    BY <2>1 DEF Snap!TypeOK
  <2>3. oldCopy' = [oldCopy EXCEPT ![t] = [oldCopy[t] EXCEPT ![j[t]] = a_table[j[t]]]]
    BY <1>2 DEF Snap!Collect
  <2>4. oldCopy' \in [Snap!Threads -> [Snap!Parts -> Snap!Cells]]
    BY <2>2, <2>3 DEF Snap!TypeOK
  <2>5. j' \in [Snap!Threads -> 0 .. Capacity]
    BY <1>2, <2>1 DEF Snap!TypeOK, Snap!Collect
  <2>6. s_pc' \in [Snap!Threads -> {"idle", "collect", "recollect", "compare", "help", "store", "report"}]
    BY <1>2 DEF Snap!TypeOK, Snap!Collect
  <2>8. collects' \in [Snap!Threads -> Nat]
    <3>1. collects' = collects \/ collects' = [collects EXCEPT ![t] = @ + 1]
      BY <1>2 DEF Snap!Collect
    <3>2. collects \in [Snap!Threads -> Nat]
      BY DEF Snap!TypeOK
    <3>. QED
      BY <3>1, <3>2
  <2>7. UNCHANGED <<program, a_table, helpsnap, newCopy, moved, snap, s_left, during, past>>
    BY <1>2 DEF Snap!Collect
  <2>. QED
    BY <2>4, <2>5, <2>6, <2>7, <2>8 DEF Snap!TypeOK
<1>3. CASE Snap!Recollect(t)
  <2>1. j[t] \in Snap!Parts /\ j[t] + 1 \in 0 .. Capacity /\ 0 \in 0 .. Capacity
    BY <1>3, NBasics DEF NPlaceInv, Snap!Recollect
  <2>2. [newCopy[t] EXCEPT ![j[t]] = a_table[j[t]]] \in [Snap!Parts -> Snap!Cells]
    BY <2>1 DEF Snap!TypeOK
  <2>3. newCopy' = [newCopy EXCEPT ![t] = [newCopy[t] EXCEPT ![j[t]] = a_table[j[t]]]]
    BY <1>3 DEF Snap!Recollect
  <2>4. newCopy' \in [Snap!Threads -> [Snap!Parts -> Snap!Cells]]
    BY <2>2, <2>3 DEF Snap!TypeOK
  <2>5. j' \in [Snap!Threads -> 0 .. Capacity]
    BY <1>3, <2>1 DEF Snap!TypeOK, Snap!Recollect
  <2>6. s_pc' \in [Snap!Threads -> {"idle", "collect", "recollect", "compare", "help", "store", "report"}]
    BY <1>3 DEF Snap!TypeOK, Snap!Recollect
  <2>8. collects' \in [Snap!Threads -> Nat]
    BY <1>3 DEF Snap!TypeOK, Snap!Recollect
  <2>7. UNCHANGED <<program, a_table, helpsnap, oldCopy, moved, snap, s_left, during, past>>
    BY <1>3 DEF Snap!Recollect
  <2>. QED
    BY <2>4, <2>5, <2>6, <2>7, <2>8 DEF Snap!TypeOK
<1>4. CASE Snap!ReturnClean(t) \/ Snap!ReturnHelp(t) \/ Snap!ReturnOldSnap(t)
  <2>1. PICK s \in Snap!Tables : s_pc[t] = "compare" /\ Snap!ScanReturns(t, s)
    BY <1>4, NReturn
  <2>. QED
    BY <2>1, NCells DEF Snap!TypeOK, Snap!ScanReturns
<1>5. CASE Snap!CollectAgain(t)
  <2>1. Snap!Remember(t) \subseteq Snap!Parts
    BY <1>5, NDiffer DEF Snap!CollectAgain, Snap!Remember
  <2>2. moved[t] \cup Snap!Remember(t) \in SUBSET Snap!Parts
    BY <2>1 DEF Snap!TypeOK
  <2>3. 0 \in 0 .. Capacity
    BY NBasics
  <2>. QED
    BY <1>5, <2>2, <2>3 DEF Snap!TypeOK, Snap!CollectAgain
<1>6. CASE Snap!OfferSnap(t)
  <2>1. t \in Snap!Parts
    BY <1>6 DEF NPlaceInv, Snap!OfferSnap
  <2>. QED
    BY <1>6, <2>1 DEF Snap!TypeOK, Snap!OfferSnap
<1>7. CASE Snap!Store(t)
  <2>1. /\ t \in Snap!Parts /\ s_pc[t] = "store" /\ s_left[t] > 0 /\ s_left[t] \in Nat
        /\ a_table[t].stamp \in Nat /\ snap[t] \in Snap!Tables
    BY <1>7, NCells DEF Snap!TypeOK, NPlaceInv, Snap!Store
  <2>2. /\ a_table' = [a_table EXCEPT ![t] = [stamp |-> a_table[t].stamp + 1, snap |-> snap[t]]]
        /\ s_left' = [s_left EXCEPT ![t] = @ - 1]
    BY <1>7 DEF Snap!Store, Snap!NextStamp
  <2>3. [stamp |-> a_table[t].stamp + 1, snap |-> snap[t]] \in Snap!Cells
    BY <2>1 DEF Snap!Cells
  <2>4. a_table' \in [Snap!Parts -> Snap!Cells] /\ s_left' \in [Snap!Threads -> Nat]
    BY <2>1, <2>2, <2>3 DEF Snap!TypeOK
  <2>5. ASSUME NEW p \in Snap!Parts PROVE a_table'[p].stamp = Updates[p] - s_left'[p]
    <3>1. /\ Updates[p] \in Nat /\ s_left[p] \in Nat /\ p \in Snap!Threads
          /\ a_table[p].stamp = Updates[p] - s_left[p]
      BY NBasics DEF Snap!TypeOK
    <3>2. CASE p = t
      BY <2>1, <2>2, <3>1, <3>2 DEF Snap!TypeOK
    <3>3. CASE p # t
      BY <2>1, <2>2, <3>1, <3>3 DEF Snap!TypeOK
    <3>. QED
      BY <3>2, <3>3
  <2>6. Table' \in [Snap!Parts -> Nat]
    BY <2>4 DEF Table, Snap!Stamps, Snap!Cells
  <2>7. past' \subseteq [Snap!Parts -> Nat] /\ during' \in [Snap!Threads -> SUBSET past']
    BY <1>7, <2>6 DEF Table, Snap!TypeOK, Snap!Store
  <2>. QED
    BY <1>7, <2>1, <2>4, <2>5, <2>7, NCells DEF Snap!TypeOK, Snap!Store
<1>. QED
  BY <1>1, <1>2, <1>3, <1>4, <1>5, <1>6, <1>7 DEF Snap!Thread

\* How a step of t moves it.
NPath ==
  { <<"idle", "collect">>, <<"collect", "collect">>, <<"collect", "recollect">>,
    <<"recollect", "recollect">>, <<"recollect", "compare">>, <<"compare", "recollect">>,
    <<"compare", "help">>, <<"compare", "report">>, <<"help", "store">>, <<"store", "idle">> }

LEMMA NMoving ==
  ASSUME Snap!TypeOK, NPlaceInv, NEW t \in Snap!Threads, Snap!Thread(t)
  PROVE  /\ <<s_pc[t], s_pc'[t]>> \in NPath
         /\ s_pc[t] = "idle" => s_left[t] > 0
         /\ s_pc[t] # "store" => s_left'[t] = s_left[t]
         /\ s_pc'[t] = "report" => t = Snap!Scanner
         /\ s_pc'[t] = "help" => t # Snap!Scanner
         /\ s_pc'[t] \in {"collect", "recollect"} => j'[t] \in Snap!Parts
<1>. USE DEF NPath
<1>1. CASE Snap!StartScan(t)
  BY <1>1, NBasics DEF Snap!TypeOK, Snap!StartScan
<1>2. CASE Snap!Collect(t)
  <2>1. j[t] \in Snap!Parts /\ (j[t] # Capacity - 1 => j[t] + 1 \in Snap!Parts) /\ 0 \in Snap!Parts
    BY <1>2, NBasics DEF NPlaceInv, Snap!Collect
  <2>. QED
    BY <1>2, <2>1 DEF Snap!TypeOK, Snap!Collect
<1>3. CASE Snap!Recollect(t)
  <2>1. j[t] \in Snap!Parts /\ (j[t] # Capacity - 1 => j[t] + 1 \in Snap!Parts)
    BY <1>3, NBasics DEF NPlaceInv, Snap!Recollect
  <2>. QED
    BY <1>3, <2>1 DEF Snap!TypeOK, Snap!Recollect
<1>4. CASE Snap!ReturnClean(t) \/ Snap!ReturnHelp(t) \/ Snap!ReturnOldSnap(t)
  <2>1. PICK s \in Snap!Tables : s_pc[t] = "compare" /\ Snap!ScanReturns(t, s)
    BY <1>4, NReturn
  <2>. QED
    BY <2>1 DEF Snap!TypeOK, Snap!ScanReturns
<1>5. CASE Snap!CollectAgain(t)
  <2>1. 0 \in Snap!Parts
    BY NBasics
  <2>. QED
    BY <1>5, <2>1 DEF Snap!TypeOK, Snap!CollectAgain
<1>6. CASE Snap!OfferSnap(t)
  BY <1>6 DEF Snap!TypeOK, Snap!OfferSnap
<1>7. CASE Snap!Store(t)
  BY <1>7 DEF Snap!TypeOK, Snap!Store
<1>. QED
  BY <1>1, <1>2, <1>3, <1>4, <1>5, <1>6, <1>7 DEF Snap!Thread

LEMMA NPlaceNext ==
  ASSUME Snap!TypeOK, NPlaceInv, NEW t \in Snap!Threads, Snap!Thread(t)
  PROVE  NPlaceInv'
<1>1. \A u \in Snap!Threads : u # t => s_pc'[u] = s_pc[u] /\ s_left'[u] = s_left[u] /\ j'[u] = j[u]
  BY NOthersStay
<1>. QED
  BY <1>1, NMoving, NBasics DEF NPlaceInv, NPath

\* Two equal collects are the table as it was between them.
LEMMA NClean ==
  ASSUME Snap!TypeOK, NScanInv, NEW t \in Snap!Threads, s_pc[t] = "compare",
         \A p \in Snap!Parts : oldCopy[t][p].stamp = newCopy[t][p].stamp
  PROVE  [p \in Snap!Parts |-> newCopy[t][p].stamp] \in during[t]
<1>1. PICK T \in during[t] : NBetween(t, T)
  BY DEF NScanInv, NScan, Snap!Scanning
<1>2. T \in [Snap!Parts -> Nat]
  BY DEF Snap!TypeOK
<1>3. ASSUME NEW p \in Snap!Parts PROVE T[p] = newCopy[t][p].stamp
  <2>1. T[p] \in Nat /\ newCopy[t][p].stamp \in Nat
    BY <1>2, NCells
  <2>. QED
    BY <1>1, <2>1 DEF NBetween
<1>4. [p \in Snap!Parts |-> newCopy[t][p].stamp] = T
  BY <1>2, <1>3
<1>. QED
  BY <1>1, <1>4

LEMMA NPastNext ==
  ASSUME Snap!TypeOK, NPlaceInv, NPastInv, NScanInv, NEW t \in Snap!Threads, Snap!Thread(t),
         Snap!TypeOK'
  PROVE  NPastInv'
<1>1. Table' \in past' /\ NSeen \subseteq NSeen'
  BY NTable, NGrow DEF NPastInv, NSeen
<1>2. /\ Snap!NULL \in NSeen /\ \A p \in Snap!Parts : Snap!Forgotten[p].snap \in NSeen
      /\ \A T \in during[t] : T \in NSeen
  BY DEF Snap!TypeOK, NSeen, Snap!Forgotten
<1>4. ASSUME NEW p \in Snap!Parts, p # t PROVE a_table'[p].snap \in NSeen' /\ helpsnap'[p] \in NSeen'
  <2>1. p \in Snap!Threads
    BY NBasics
  <2>. QED
    BY <1>1, <1>4, <2>1, NOthersStay DEF NPastInv
<1>5. /\ snap[t] \in NSeen' 
      /\ \A p \in Snap!Parts : /\ oldCopy[t][p].snap \in NSeen' /\ newCopy[t][p].snap \in NSeen'
                               /\ a_table[p].snap \in NSeen' /\ helpsnap[p] \in NSeen'
  BY <1>1 DEF NPastInv
<1>. DEFINE Own == /\ snap'[t] \in NSeen'
                   /\ t \in Snap!Parts => a_table'[t].snap \in NSeen' /\ helpsnap'[t] \in NSeen'
                   /\ \A p \in Snap!Parts : /\ oldCopy'[t][p].snap \in NSeen'
                                            /\ newCopy'[t][p].snap \in NSeen'
<1>6. ASSUME Snap!StartScan(t) PROVE Own
  BY <1>5, <1>6, NBasics DEF Snap!StartScan
<1>7. ASSUME Snap!Collect(t) PROVE Own
  <2>1. j[t] \in Snap!Parts
    BY <1>7 DEF NPlaceInv, Snap!Collect
  <2>2. \A p \in Snap!Parts :
          oldCopy'[t][p] = IF p = j[t] THEN a_table[p] ELSE oldCopy[t][p]
    BY <1>7, <2>1 DEF Snap!TypeOK, Snap!Collect
  <2>. QED
    BY <1>5, <1>7, <2>2 DEF Snap!Collect
<1>8. ASSUME Snap!Recollect(t) PROVE Own
  <2>1. j[t] \in Snap!Parts
    BY <1>8 DEF NPlaceInv, Snap!Recollect
  <2>2. \A p \in Snap!Parts :
          newCopy'[t][p] = IF p = j[t] THEN a_table[p] ELSE newCopy[t][p]
    BY <1>8, <2>1 DEF Snap!TypeOK, Snap!Recollect
  <2>. QED
    BY <1>5, <1>8, <2>2 DEF Snap!Recollect
<1>9. ASSUME Snap!ReturnClean(t) \/ Snap!ReturnHelp(t) \/ Snap!ReturnOldSnap(t) PROVE Own
  <2>1. ASSUME NEW s, Snap!ScanReturns(t, s), s \in NSeen PROVE Own
    BY <1>1, <1>2, <1>5, <2>1 DEF Snap!TypeOK, Snap!ScanReturns
  <2>2. PICK s \in Snap!Tables :
          /\ Snap!ScanReturns(t, s)
          /\ \/ /\ s = [p \in Snap!Parts |-> newCopy[t][p].stamp] /\ s_pc[t] = "compare"
                /\ \A p \in Snap!Parts : oldCopy[t][p].stamp = newCopy[t][p].stamp
             \/ \E p \in Snap!Parts : s = helpsnap[p] \/ s = oldCopy[t][p].snap
    BY <1>9, NReturn
  <2>3. s = [p \in Snap!Parts |-> newCopy[t][p].stamp] /\ s_pc[t] = "compare"
          /\ (\A p \in Snap!Parts : oldCopy[t][p].stamp = newCopy[t][p].stamp)
          => s \in during[t]
    BY NClean
  <2>. QED
    BY <1>2, <2>1, <2>2, <2>3 DEF NPastInv
<1>10. ASSUME Snap!CollectAgain(t) PROVE Own
  BY <1>5, <1>10 DEF Snap!TypeOK, Snap!CollectAgain
<1>11. ASSUME Snap!OfferSnap(t) PROVE Own
  BY <1>5, <1>11 DEF Snap!TypeOK, NPlaceInv, Snap!OfferSnap
<1>12. ASSUME Snap!Store(t) PROVE Own
  BY <1>1, <1>2, <1>5, <1>12 DEF Snap!TypeOK, NPlaceInv, Snap!Store
<1>13. Own
  BY <1>6, <1>7, <1>8, <1>9, <1>10, <1>11, <1>12 DEF Snap!Thread
<1>14. \A p \in Snap!Parts : a_table'[p].snap \in NSeen' /\ helpsnap'[p] \in NSeen'
  BY <1>4, <1>13
<1>15. ASSUME NEW u \in Snap!Threads
       PROVE  /\ snap'[u] \in NSeen'
              /\ \A p \in Snap!Parts : oldCopy'[u][p].snap \in NSeen' /\ newCopy'[u][p].snap \in NSeen'
  <2>1. CASE u = t
    BY <2>1, <1>13
  <2>2. CASE u # t
    BY <2>2, <1>1, NOthersStay DEF NPastInv
  <2>. QED
    BY <2>1, <2>2
<1>. QED
  BY <1>1, <1>14, <1>15 DEF NPastInv

\* What a collect has read so far goes up to the index, in the old and then in
\* the new copy.
LEMMA NCollecting ==
  ASSUME Snap!TypeOK, NPlaceInv, NEW t \in Snap!Threads
  PROVE  /\ Snap!Collect(t) =>
              /\ j[t] \in Snap!Parts
              /\ \A p \in Snap!Parts :
                   /\ oldCopy'[t][p] = IF p = j[t] THEN a_table[p] ELSE oldCopy[t][p]
                   /\ s_pc'[t] = "recollect" \/ p < j'[t] => p < j[t] \/ p = j[t]
              /\ s_pc'[t] = "recollect" => j'[t] = 0 /\ collects'[t] = collects[t] + 1
              /\ s_pc'[t] # "recollect" => collects'[t] = collects[t]
              /\ moved' = moved /\ newCopy' = newCopy
         /\ Snap!Recollect(t) =>
              /\ j[t] \in Snap!Parts
              /\ \A p \in Snap!Parts :
                   /\ newCopy'[t][p] = IF p = j[t] THEN a_table[p] ELSE newCopy[t][p]
                   /\ s_pc'[t] = "compare" \/ p < j'[t] => p < j[t] \/ p = j[t]
              /\ moved' = moved /\ oldCopy' = oldCopy /\ collects' = collects
<1>1. ASSUME Snap!Collect(t)
      PROVE  /\ j[t] \in Snap!Parts /\ j[t] \in Int /\ moved' = moved /\ newCopy' = newCopy
             /\ j'[t] = IF j[t] = Capacity - 1 THEN 0 ELSE j[t] + 1
             /\ s_pc'[t] = IF j[t] = Capacity - 1 THEN "recollect" ELSE "collect"
             /\ s_pc'[t] = "recollect" => collects'[t] = collects[t] + 1
             /\ s_pc'[t] # "recollect" => collects'[t] = collects[t]
             /\ \A p \in Snap!Parts :
                  oldCopy'[t][p] = IF p = j[t] THEN a_table[p] ELSE oldCopy[t][p]
  <2>1. j[t] \in Snap!Parts
    BY <1>1 DEF NPlaceInv, Snap!Collect
  <2>2. j[t] \in Int
    BY <2>1, NBasics
  <2>. QED
    BY <1>1, <2>1, <2>2 DEF Snap!TypeOK, Snap!Collect
<1>2. ASSUME Snap!Recollect(t)
      PROVE  /\ j[t] \in Snap!Parts /\ j[t] \in Int
             /\ moved' = moved /\ oldCopy' = oldCopy /\ collects' = collects
             /\ j'[t] = IF j[t] = Capacity - 1 THEN 0 ELSE j[t] + 1
             /\ s_pc'[t] = IF j[t] = Capacity - 1 THEN "compare" ELSE "recollect"
             /\ \A p \in Snap!Parts :
                  newCopy'[t][p] = IF p = j[t] THEN a_table[p] ELSE newCopy[t][p]
  <2>1. j[t] \in Snap!Parts
    BY <1>2 DEF NPlaceInv, Snap!Recollect
  <2>2. j[t] \in Int
    BY <2>1, NBasics
  <2>. QED
    BY <1>2, <2>1, <2>2 DEF Snap!TypeOK, Snap!Recollect
<1>3. \A p \in Snap!Parts : p \in Int /\ p >= 0 /\ p <= Capacity - 1
  BY NBasics
<1>. QED
  BY <1>1, <1>2, <1>3

\* A step of another thread keeps the tables a scan lies between.
LEMMA NScanOther ==
  ASSUME Snap!TypeOK, NPlaceInv, NPastInv, NEW t \in Snap!Threads, Snap!Thread(t),
         Snap!TypeOK', NEW u \in Snap!Threads, u # t, NScan(u)
  PROVE  NScan(u)'
<1>1. /\ \A p \in Snap!Parts : Table[p] <= Table'[p] /\ Table[p] \in Nat /\ Table'[p] \in Nat
      /\ \A p \in Snap!Parts : oldCopy[u][p].stamp \in Nat /\ newCopy[u][p].stamp \in Nat
  BY NGrow, NStamps, NCells
<1>2. during[u] \subseteq during'[u]
  BY NGrow
<1>3. \A T \in during[u] : T \in [Snap!Parts -> Nat]
  BY DEF Snap!TypeOK
<1>4. /\ s_pc'[u] = s_pc[u] /\ j'[u] = j[u] /\ oldCopy'[u] = oldCopy[u] /\ newCopy'[u] = newCopy[u]
      /\ Snap!Scanning(u)' <=> Snap!Scanning(u)
  BY NOthersStay DEF Snap!Scanning
<1>5. \A T \in during[u] : NBetween(u, T) => NBetween(u, T)'
  BY <1>1, <1>3, <1>4 DEF NBetween
<1>6. Snap!Scanning(u) /\ Table \in during[u] => Table' \in during'[u]
  BY <1>2, NOthersStay, NTable
<1>7. ASSUME s_pc[u] = "collect", NEW p \in Snap!Parts, p < j[u], oldCopy[u][p].stamp <= Table[p]
      PROVE  oldCopy'[u][p].stamp <= Table'[p]
  BY <1>1, <1>4, <1>7
<1>. QED
  BY <1>2, <1>4, <1>5, <1>6, <1>7 DEF NScan

LEMMA NScanSelf ==
  ASSUME Snap!TypeOK, NPlaceInv, NPastInv, NEW t \in Snap!Threads, Snap!Thread(t),
         Snap!TypeOK', NScan(t)
  PROVE  NScan(t)'
<1>1. s_pc[t] # "store" => Table' = Table /\ a_table' = a_table
  BY NTable
<1>2. \A p \in Snap!Parts : /\ Table[p] = a_table[p].stamp /\ Table[p] \in Nat
                            /\ oldCopy[t][p].stamp \in Nat /\ newCopy[t][p].stamp \in Nat
  BY NStamps, NCells
<1>3. \A T \in during[t] : T \in [Snap!Parts -> Nat]
  BY DEF Snap!TypeOK
<1>4. CASE Snap!StartScan(t)
  <2>1. s_pc[t] = "idle" /\ s_pc'[t] = "collect" /\ j'[t] = 0 /\ during'[t] = {Table'}
    BY <1>4, <1>1, NTable DEF Snap!StartScan, Snap!TypeOK
  <2>2. \A p \in Snap!Parts : ~ (p < 0)
    BY NBasics
  <2>. QED
    BY <2>1, <2>2 DEF NScan
<1>5. CASE Snap!Collect(t)
  <2>1. s_pc[t] = "collect" /\ Snap!Scanning(t) /\ during'[t] = during[t]
    BY <1>5, NTable DEF Snap!Collect, Snap!Scanning
  <2>2. Table' \in during'[t] /\ Table \in during[t]
    BY <2>1, <1>1 DEF NScan
  <2>3. \A p \in Snap!Parts : p < j[t] \/ p = j[t] => oldCopy'[t][p].stamp <= Table[p]
    BY <1>2, <1>5, <2>1, NCollecting DEF NScan
  <2>4. CASE s_pc'[t] = "collect"
    BY <1>1, <1>5, <2>1, <2>2, <2>3, <2>4, NCollecting DEF NScan
  <2>5. CASE s_pc'[t] = "recollect"
    <3>1. \A p \in Snap!Parts : oldCopy'[t][p].stamp <= Table[p] /\ Table[p] <= Table[p]
      BY <1>2, <1>5, <2>3, <2>5, NCollecting
    <3>2. j'[t] = 0 /\ \A p \in Snap!Parts : ~ (p < 0)
      BY <1>5, <2>5, NCollecting, NBasics
    <3>3. NBetween(t, Table)'
      BY <1>1, <2>1, <2>5, <3>1, <3>2 DEF NBetween
    <3>. QED
      BY <1>1, <2>1, <2>2, <2>5, <3>3 DEF NScan
  <2>. QED
    BY <2>1, <2>4, <2>5, NMoving DEF NPath
<1>6. CASE Snap!Recollect(t)
  <2>1. s_pc[t] = "recollect" /\ Snap!Scanning(t) /\ during'[t] = during[t]
    BY <1>6, NTable DEF Snap!Recollect, Snap!Scanning
  <2>2. PICK T \in during[t] : NBetween(t, T)
    BY <2>1 DEF NScan
  <2>3. ASSUME NEW p \in Snap!Parts
        PROVE  /\ oldCopy'[t][p].stamp <= T[p] /\ T[p] <= Table[p]
               /\ p < j[t] \/ p = j[t] =>
                    T[p] <= newCopy'[t][p].stamp /\ newCopy'[t][p].stamp <= Table[p]
    <3>1. T[p] \in Nat
      BY <1>3
    <3>. QED
      BY <1>2, <1>6, <2>1, <2>2, <3>1, NCollecting DEF NBetween
  <2>4. \A p \in Snap!Parts : s_pc'[t] = "compare" \/ p < j'[t] => p < j[t] \/ p = j[t]
    BY <1>6, NCollecting
  <2>5. NBetween(t, T)'
    BY <1>1, <2>1, <2>3, <2>4 DEF NBetween
  <2>. QED
    BY <1>1, <2>1, <2>2, <2>5, NMoving DEF NScan, NPath
<1>7. CASE Snap!CollectAgain(t)
  <2>1. /\ s_pc[t] = "compare" /\ Snap!Scanning(t) /\ during'[t] = during[t] /\ j'[t] = 0
        /\ s_pc'[t] = "recollect" /\ oldCopy'[t] = newCopy[t] /\ newCopy' = newCopy
    BY <1>7, NTable DEF Snap!CollectAgain, Snap!Scanning, Snap!TypeOK
  <2>2. PICK T \in during[t] : NBetween(t, T)
    BY <2>1 DEF NScan
  <2>3. \A p \in Snap!Parts : newCopy[t][p].stamp <= Table[p] /\ Table[p] <= Table[p]
    BY <1>2, <2>1, <2>2 DEF NBetween
  <2>4. \A p \in Snap!Parts : ~ (p < 0)
    BY NBasics
  <2>5. NBetween(t, Table)'
    BY <1>1, <2>1, <2>3, <2>4 DEF NBetween
  <2>. QED
    BY <1>1, <2>1, <2>5 DEF NScan
<1>8. CASE ~ Snap!Scanning(t)'
  BY <1>8 DEF NScan
<1>9. Snap!OfferSnap(t) \/ Snap!Store(t) => ~ Snap!Scanning(t)'
  BY DEF Snap!OfferSnap, Snap!Store, Snap!Scanning, Snap!TypeOK
<1>10. ASSUME Snap!ReturnClean(t) \/ Snap!ReturnHelp(t) \/ Snap!ReturnOldSnap(t)
       PROVE  ~ Snap!Scanning(t)'
  <2>1. PICK s \in Snap!Tables : Snap!ScanReturns(t, s)
    BY <1>10, NReturn
  <2>. QED
    BY <2>1 DEF Snap!ScanReturns, Snap!Scanning, Snap!TypeOK
<1>. QED
  BY <1>4, <1>5, <1>6, <1>7, <1>8, <1>9, <1>10 DEF Snap!Thread

LEMMA NScanNext ==
  ASSUME Snap!TypeOK, NPlaceInv, NPastInv, NScanInv, NEW t \in Snap!Threads, Snap!Thread(t),
         Snap!TypeOK'
  PROVE  NScanInv'
  BY NScanOther, NScanSelf DEF NScanInv

\* A step of another thread, the one whose scan u would borrow perhaps.
LEMMA NMovesOther ==
  ASSUME Snap!TypeOK, NPlaceInv, NEW t \in Snap!Threads, Snap!Thread(t), Snap!TypeOK',
         NEW u \in Snap!Threads, u # t, NScan(u), Snap!Scanning(u), program = "mrmw.cpp",
         NBorrow(t), NEW S \in during[u], NEW p \in Snap!Parts, NMoves(u, S, p)
  PROVE  NMoves(u, S, p)'
<1>1. /\ Table[p] <= Table'[p] /\ Table[p] \in Nat /\ Table'[p] \in Nat
      /\ p # t \/ s_pc[t] # "store" => Table'[p] = Table[p]
  BY NGrow, NStamps
<1>2. S[p] \in Nat /\ oldCopy[u][p].stamp \in Nat
  <2>1. S \in [Snap!Parts -> Nat]
    BY DEF Snap!TypeOK
  <2>. QED
    BY <2>1, NCells
<1>3. /\ s_pc'[u] = s_pc[u] /\ j'[u] = j[u] /\ oldCopy'[u] = oldCopy[u] /\ moved'[u] = moved[u]
      /\ during'[u] = IF s_pc[t] = "store" THEN during[u] \cup {Table'} ELSE during[u]
      /\ Table \in during[u]
  BY NOthersStay DEF NScan
<1>4. CASE p # t
  <2>1. /\ s_pc'[p] = s_pc[p] /\ helpsnap'[p] = helpsnap[p]
        /\ during'[p] = during[p] \/ (s_pc[t] = "store" /\ during'[p] = during[p] \cup {Table'})
    <3>1. p \in Snap!Threads
      BY NBasics
    <3>. QED
      BY <1>4, <3>1, NOthersStay
  <2>. QED
    BY <1>1, <1>2, <1>3, <1>4, <2>1 DEF NMoves
<1>5. CASE p = t /\ s_pc[t] = "store"
  <2>1. s_pc'[t] = "idle" /\ helpsnap'[t] = helpsnap[t] /\ Table'[t] = Table[t] + 1
    BY <1>5, NStore, NTable, NStamps
  <2>. QED
    BY <1>1, <1>2, <1>3, <1>5, <2>1 DEF NMoves
<1>6. CASE p = t /\ s_pc[t] = "idle"
  <2>1. s_pc'[t] = "collect" /\ helpsnap'[t] = helpsnap[t] /\ during'[t] = {Table}
    BY <1>6, NTable, NMoving DEF NPath
  <2>. QED
    BY <1>1, <1>2, <1>3, <1>6, <2>1 DEF NMoves
<1>7. CASE p = t /\ s_pc[t] = "help"
  <2>1. s_pc'[t] = "store" /\ helpsnap'[t] = snap[t] /\ during'[t] = during[t]
    <3>1. Snap!OfferSnap(t)
      BY <1>7 DEF Snap!Thread, Snap!StartScan, Snap!Collect, Snap!Recollect,
         Snap!ReturnClean, Snap!ReturnHelp, Snap!ReturnOldSnap, Snap!CollectAgain, Snap!Store
    <3>. QED
      BY <3>1, <1>7, NTable DEF Snap!OfferSnap, Snap!TypeOK
  <2>2. snap[t] \in during[t]
    BY <1>7 DEF NBorrow
  <2>. QED
    BY <1>1, <1>2, <1>3, <1>7, <2>1, <2>2 DEF NMoves
<1>8. CASE p = t /\ s_pc[t] \notin {"idle", "help", "store"}
  <2>1. s_pc'[t] \notin {"idle", "store"} /\ helpsnap'[t] = helpsnap[t] /\ during'[t] = during[t]
    BY <1>8, NTable, NMoving DEF NPath
  <2>. QED
    BY <1>1, <1>2, <1>3, <1>8, <2>1 DEF NMoves
<1>. QED
  BY <1>4, <1>5, <1>6, <1>7, <1>8

LEMMA NBorrowOther ==
  ASSUME Snap!TypeOK, NPlaceInv, NEW t \in Snap!Threads, Snap!Thread(t), Snap!TypeOK',
         NEW u \in Snap!Threads, u # t, NScan(u), program = "mrmw.cpp", NBorrow(t), NBorrow(u)
  PROVE  NBorrow(u)'
<1>1. /\ s_pc'[u] = s_pc[u] /\ snap'[u] = snap[u] /\ during[u] \subseteq during'[u]
      /\ Snap!Scanning(u)' <=> Snap!Scanning(u)
  BY NOthersStay, NGrow DEF Snap!Scanning
<1>2. ASSUME Snap!Scanning(u)
      PROVE  \E S \in during'[u] : \A p \in Snap!Parts : NMoves(u, S, p)'
  <2>1. PICK S \in during[u] : \A p \in Snap!Parts : NMoves(u, S, p)
    BY <1>2 DEF NBorrow
  <2>2. \A p \in Snap!Parts : NMoves(u, S, p)'
    BY <1>2, <2>1, NMovesOther
  <2>. QED
    BY <1>1, <2>2
<1>. QED
  BY <1>1, <1>2 DEF NBorrow

\* A collect of t itself: what it reads is not older than the table when its
\* scan began, and what differs from the old copy is younger.
LEMMA NMovesSelf ==
  ASSUME Snap!TypeOK, NPlaceInv, NEW t \in Snap!Threads, Snap!TypeOK', NScan(t),
         program = "mrmw.cpp", Snap!Collect(t) \/ Snap!Recollect(t) \/ Snap!CollectAgain(t),
         NEW S \in during[t], NEW p \in Snap!Parts, NMoves(t, S, p)
  PROVE  NMoves(t, S, p)'
<1>1. Snap!Thread(t) /\ Snap!Scanning(t)
  BY DEF Snap!Thread, Snap!Scanning, Snap!Collect, Snap!Recollect, Snap!CollectAgain
<1>2. /\ Table' = Table /\ during'[t] = during[t] /\ helpsnap' = helpsnap
      /\ Table[p] = a_table[p].stamp /\ Table[p] \in Nat
      /\ oldCopy[t][p].stamp \in Nat /\ newCopy[t][p].stamp \in Nat
  BY <1>1, NTable, NStamps, NCells DEF Snap!Scanning
<1>3. S[p] \in Nat
  <2>1. S \in [Snap!Parts -> Nat]
    BY DEF Snap!TypeOK
  <2>. QED
    BY <2>1
<1>4. s_pc'[t] \in {"collect", "recollect", "compare"} /\ s_pc[t] \in {"collect", "recollect", "compare"}
  BY <1>1 DEF Snap!Scanning, Snap!TypeOK, Snap!Collect, Snap!Recollect, Snap!CollectAgain
<1>5. /\ S[p] <= Table'[p]
      /\ S[p] < Table'[p] /\ s_pc'[p] # "idle" => during'[p] \subseteq during'[t]
      /\ S[p] + 1 < Table'[p] \/ (S[p] < Table'[p] /\ s_pc'[p] = "store") => helpsnap'[p] \in during'[t]
  <2>1. CASE p # t
    <3>1. s_pc'[p] = s_pc[p] /\ during'[p] = during[p]
      BY <1>1, <1>4, <2>1, NOthersStay, NBasics
    <3>. QED
      BY <1>2, <3>1 DEF NMoves
  <2>2. CASE p = t
    BY <1>2, <1>4, <2>2 DEF NMoves
  <2>. QED
    BY <2>1, <2>2
<1>6. CASE Snap!Collect(t)
  <2>1. s_pc[t] = "collect" /\ p \notin moved'[t]
    BY <1>6, NCollecting DEF NMoves, Snap!Collect
  <2>2. s_pc'[t] # "collect" \/ p < j'[t] => p < j[t] \/ p = j[t]
    BY <1>4, <1>6, NCollecting, NMoving, <1>1, <2>1 DEF NPath
  <2>3. p < j[t] \/ p = j[t] => S[p] <= oldCopy'[t][p].stamp
    BY <1>2, <1>3, <1>6, NCollecting DEF NMoves
  <2>. QED
    BY <1>5, <2>1, <2>2, <2>3 DEF NMoves
<1>7. CASE Snap!Recollect(t)
  <2>1. /\ s_pc[t] = "recollect" /\ s_pc'[t] # "collect"
        /\ oldCopy'[t] = oldCopy[t] /\ moved'[t] = moved[t]
    BY <1>1, <1>7, NCollecting, NMoving DEF Snap!Recollect, NPath
  <2>. QED
    BY <1>5, <2>1 DEF NMoves
<1>8. CASE Snap!CollectAgain(t)
  <2>1. /\ s_pc[t] = "compare" /\ s_pc'[t] = "recollect" /\ oldCopy'[t] = newCopy[t]
        /\ moved'[t] = moved[t] \cup Snap!Differ(t)
    BY <1>8 DEF Snap!CollectAgain, Snap!TypeOK, Snap!Remember
  <2>2. PICK T \in during[t] : NBetween(t, T)
    BY <1>1, <2>1 DEF NScan
  <2>3. T[p] \in Nat
    <3>1. T \in [Snap!Parts -> Nat]
      BY DEF Snap!TypeOK
    <3>. QED
      BY <3>1
  <2>4. oldCopy[t][p].stamp <= newCopy[t][p].stamp
    BY <1>2, <2>1, <2>2, <2>3 DEF NBetween
  <2>5. S[p] <= newCopy[t][p].stamp
    BY <1>2, <1>3, <2>1, <2>4 DEF NMoves
  <2>6. p \in moved'[t] => S[p] < newCopy[t][p].stamp
    BY <1>2, <1>3, <2>1, <2>4, NDiffer DEF NMoves
  <2>. QED
    BY <1>5, <2>1, <2>5, <2>6 DEF NMoves
<1>. QED
  BY <1>6, <1>7, <1>8

\* What t borrows was scanned within its own scan.
LEMMA NBorrowed ==
  ASSUME Snap!TypeOK, NEW t \in Snap!Threads, NScan(t), NBorrow(t), s_pc[t] = "compare",
         NEW p \in Snap!Parts, p \in moved[t], oldCopy[t][p].stamp # newCopy[t][p].stamp
  PROVE  helpsnap[p] \in during[t]
<1>1. Snap!Scanning(t)
  BY DEF Snap!Scanning
<1>2. PICK S \in during[t] : NMoves(t, S, p)
  BY <1>1 DEF NBorrow
<1>3. PICK T \in during[t] : NBetween(t, T)
  BY <1>1 DEF NScan
<1>4. S \in [Snap!Parts -> Nat] /\ T \in [Snap!Parts -> Nat]
  BY DEF Snap!TypeOK
<1>5. /\ S[p] \in Nat /\ T[p] \in Nat /\ Table[p] \in Nat
      /\ oldCopy[t][p].stamp \in Nat /\ newCopy[t][p].stamp \in Nat
  BY <1>4, NStamps, NCells
<1>6. /\ S[p] < oldCopy[t][p].stamp /\ oldCopy[t][p].stamp <= T[p]
      /\ T[p] <= newCopy[t][p].stamp /\ newCopy[t][p].stamp <= Table[p]
  BY <1>2, <1>3 DEF NMoves, NBetween
<1>7. S[p] + 1 < Table[p]
  BY <1>5, <1>6
<1>. QED
  BY <1>2, <1>7 DEF NMoves

LEMMA NBorrowSelf ==
  ASSUME Snap!TypeOK, NPlaceInv, NEW t \in Snap!Threads, Snap!Thread(t), Snap!TypeOK',
         NScanInv, program = "mrmw.cpp", NBorrow(t)
  PROVE  NBorrow(t)'
<1>0. NScan(t)
  BY DEF NScanInv
<1>1. CASE Snap!StartScan(t)
  <2>0. moved' = [moved EXCEPT ![t] = {}]
    BY <1>1 DEF Snap!StartScan, Snap!MovedAtStart
  <2>1. /\ s_pc[t] = "idle" /\ s_pc'[t] = "collect" /\ j'[t] = 0 /\ moved'[t] = {}
        /\ during'[t] = {Table} /\ Table' = Table
    BY <1>1, <2>0, NTable DEF Snap!StartScan, Snap!TypeOK
  <2>2. \A p \in Snap!Parts : ~ (p < 0) /\ Table[p] \in Nat
    BY NStamps, NBasics
  <2>3. \A p \in Snap!Parts : NMoves(t, Table, p)'
    BY <2>1, <2>2 DEF NMoves
  <2>. QED
    BY <2>1, <2>3 DEF NBorrow
<1>2. CASE Snap!Collect(t) \/ Snap!Recollect(t) \/ Snap!CollectAgain(t)
  <2>1. Snap!Scanning(t) /\ s_pc'[t] \notin {"help", "report", "store"} /\ during'[t] = during[t]
    BY <1>2, NTable DEF Snap!Scanning, Snap!TypeOK, Snap!Collect, Snap!Recollect, Snap!CollectAgain
  <2>2. PICK S \in during[t] : \A p \in Snap!Parts : NMoves(t, S, p)
    BY <2>1 DEF NBorrow
  <2>3. \A p \in Snap!Parts : NMoves(t, S, p)'
    BY <1>0, <1>2, <2>2, NMovesSelf
  <2>. QED
    BY <2>1, <2>3 DEF NBorrow
<1>3. CASE Snap!ReturnClean(t) \/ Snap!ReturnHelp(t) \/ Snap!ReturnOldSnap(t)
  <2>1. PICK s \in Snap!Tables :
           /\ s_pc[t] = "compare" /\ Snap!ScanReturns(t, s)
           /\ \/ /\ s = [p \in Snap!Parts |-> newCopy[t][p].stamp]
                 /\ \A p \in Snap!Parts : oldCopy[t][p].stamp = newCopy[t][p].stamp
              \/ \E p \in Snap!Parts : /\ s = helpsnap[p] /\ p \in moved[t]
                                       /\ oldCopy[t][p].stamp # newCopy[t][p].stamp
    BY <1>3, NReturn
  <2>2. s \in during[t]
    BY <1>0, <2>1, NClean, NBorrowed
  <2>3. /\ s_pc'[t] \in {"help", "report"} /\ snap'[t] = s /\ during'[t] = during[t]
    BY <2>1 DEF Snap!ScanReturns, Snap!TypeOK
  <2>. QED
    BY <2>2, <2>3 DEF NBorrow, Snap!Scanning
<1>4. CASE Snap!OfferSnap(t)
  <2>1. /\ s_pc[t] = "help" /\ s_pc'[t] = "store" /\ snap'[t] = snap[t] /\ during'[t] = during[t]
    BY <1>4 DEF Snap!OfferSnap, Snap!TypeOK
  <2>. QED
    BY <2>1 DEF NBorrow, Snap!Scanning
<1>5. CASE Snap!Store(t)
  <2>1. s_pc'[t] = "idle"
    BY <1>5 DEF Snap!Store, Snap!TypeOK
  <2>. QED
    BY <2>1 DEF NBorrow, Snap!Scanning
<1>. QED
  BY <1>1, <1>2, <1>3, <1>4, <1>5 DEF Snap!Thread

LEMMA NBorrowNext ==
  ASSUME Snap!TypeOK, NPlaceInv, NScanInv, NBorrowInv, NEW t \in Snap!Threads, Snap!Thread(t),
         Snap!TypeOK'
  PROVE  NBorrowInv'
<1>1. program' = program
  BY NTable
<1>2. ASSUME program = "mrmw.cpp", NEW u \in Snap!Threads
      PROVE  NBorrow(u)'
  <2>1. NBorrow(t) /\ NBorrow(u) /\ NScan(u)
    BY <1>2 DEF NBorrowInv, NScanInv
  <2>2. CASE u = t
    BY <1>2, <2>1, <2>2, NBorrowSelf
  <2>3. CASE u # t
    BY <1>2, <2>1, <2>3, NBorrowOther
  <2>. QED
    BY <2>2, <2>3
<1>. QED
  BY <1>1, <1>2 DEF NBorrowInv

\* Another collect is made only when another part has moved.
LEMMA NCollectNext ==
  ASSUME Snap!TypeOK, NPlaceInv, NCollectInv, NEW t \in Snap!Threads, Snap!Thread(t),
         Snap!TypeOK'
  PROVE  NCollectInv'
<1>1. \A u \in Snap!Threads : /\ moved[u] \subseteq Snap!Parts /\ moved'[u] \subseteq Snap!Parts
                              /\ collects[u] \in Nat /\ collects'[u] \in Nat
  BY DEF Snap!TypeOK
<1>2. \A S \in SUBSET Snap!Parts :
        IsFiniteSet(S) /\ Cardinality(S) \in Nat /\ Cardinality(S) <= Capacity
  <2>1. IsFiniteSet(Snap!Parts) /\ Cardinality(Snap!Parts) = Capacity
    BY FS_Interval, NBasics
  <2>. QED
    BY <2>1, FS_Subset, FS_CardinalityType
<1>3. \A u \in Snap!Threads : u # t => NCollects(u)'
  BY NOthersStay DEF NCollectInv, NCollects
<1>4. Capacity \in Nat
  BY NBasics
<1>5. NCollects(t)
  BY DEF NCollectInv
<1>6. CASE Snap!StartScan(t)
  <2>1. s_pc'[t] = "collect" /\ collects'[t] = 1
    BY <1>6 DEF Snap!StartScan, Snap!TypeOK
  <2>2. NCollects(t)'
    BY <1>4, <2>1 DEF NCollects
  <2>. QED
    BY <1>3, <2>2 DEF NCollectInv
<1>7. CASE Snap!Collect(t)
  <2>1. /\ s_pc[t] = "collect" /\ s_pc'[t] \in {"collect", "recollect"}
        /\ s_pc'[t] = "recollect" => collects'[t] = collects[t] + 1
        /\ s_pc'[t] # "recollect" => collects'[t] = collects[t]
    BY <1>7, NCollecting, NMoving DEF Snap!Collect, NPath
  <2>2. Cardinality(moved'[t]) \in Nat
    BY <1>1, <1>2
  <2>3. NCollects(t)'
    BY <1>1, <1>4, <1>5, <2>1, <2>2 DEF NCollects
  <2>. QED
    BY <1>3, <2>3 DEF NCollectInv
<1>8. CASE Snap!Recollect(t)
  <2>1. /\ s_pc[t] = "recollect" /\ s_pc'[t] \in {"recollect", "compare"}
        /\ collects' = collects /\ moved' = moved
    BY <1>8, NCollecting, NMoving DEF Snap!Recollect, NPath
  <2>2. NCollects(t)'
    BY <1>5, <2>1 DEF NCollects
  <2>. QED
    BY <1>3, <2>2 DEF NCollectInv
<1>9. CASE Snap!CollectAgain(t)
  <2>1. PICK p \in Snap!Parts : p \notin moved[t] /\ p \in Snap!Remember(t)
    BY <1>9, NDiffer DEF Snap!CollectAgain, Snap!Remember
  <2>2. /\ s_pc[t] = "compare" /\ s_pc'[t] = "recollect" /\ collects'[t] = collects[t] + 1
        /\ moved'[t] = moved[t] \cup Snap!Remember(t)
    BY <1>9 DEF Snap!CollectAgain, Snap!TypeOK
  <2>3. Cardinality(moved[t] \cup {p}) = Cardinality(moved[t]) + 1
    BY <1>1, <1>2, <2>1, FS_AddElement
  <2>4. Cardinality(moved[t] \cup {p}) <= Cardinality(moved'[t])
    <3>1. moved[t] \cup {p} \in SUBSET moved'[t] /\ IsFiniteSet(moved'[t])
      BY <1>1, <1>2, <2>1, <2>2
    <3>. QED
      BY <3>1, FS_Subset
  <2>5. /\ Cardinality(moved'[t]) \in Nat /\ Cardinality(moved'[t]) <= Capacity
        /\ Cardinality(moved[t]) \in Nat
    BY <1>1, <1>2
  <2>6. collects'[t] <= 2 + Cardinality(moved'[t]) /\ collects'[t] <= Capacity + 2
    BY <1>1, <1>4, <1>5, <2>2, <2>3, <2>4, <2>5 DEF NCollects
  <2>7. NCollects(t)'
    BY <2>2, <2>6 DEF NCollects
  <2>. QED
    BY <1>3, <2>7 DEF NCollectInv
<1>10. CASE Snap!OfferSnap(t) \/ Snap!Store(t)
  <2>1. s_pc'[t] \in {"store", "idle"} /\ collects' = collects
    BY <1>10 DEF Snap!OfferSnap, Snap!Store, Snap!TypeOK
  <2>2. NCollects(t)'
    BY <1>5, <2>1 DEF NCollects
  <2>. QED
    BY <1>3, <2>2 DEF NCollectInv
<1>11. CASE Snap!ReturnClean(t) \/ Snap!ReturnHelp(t) \/ Snap!ReturnOldSnap(t)
  <2>1. PICK s \in Snap!Tables : Snap!ScanReturns(t, s)
    BY <1>11, NReturn
  <2>2. s_pc'[t] \in {"help", "report"} /\ collects' = collects
    BY <2>1 DEF Snap!ScanReturns, Snap!TypeOK
  <2>3. NCollects(t)'
    BY <1>5, <2>2 DEF NCollects
  <2>. QED
    BY <1>3, <2>3 DEF NCollectInv
<1>. QED
  BY <1>6, <1>7, <1>8, <1>9, <1>10, <1>11 DEF Snap!Thread

LEMMA NInit == ASSUME Init PROVE NInv
<1>1. /\ s_pc = [t \in Snap!Threads |-> "idle"] /\ collects = [t \in Snap!Threads |-> 0]
      /\ a_table = Snap!Forgotten /\ past = {Table} /\ snap = [t \in Snap!Threads |-> Snap!NULL]
      /\ helpsnap = [p \in Snap!Parts |-> Snap!NULL]
      /\ oldCopy = [t \in Snap!Threads |-> Snap!Forgotten]
      /\ newCopy = [t \in Snap!Threads |-> Snap!Forgotten]
      /\ during = [t \in Snap!Threads |-> {}] /\ moved = [t \in Snap!Threads |-> {}]
      /\ j = [t \in Snap!Threads |-> 0] /\ program \in {"mrmw.cpp", "x.cpp"}
      /\ s_left = [t \in Snap!Threads |-> IF t = Snap!Scanner THEN Scans ELSE Updates[t]]
  BY DEF Init, Snap!Init, Table
<1>2. /\ Snap!NULL \in Snap!Tables /\ Snap!Forgotten \in [Snap!Parts -> Snap!Cells]
      /\ \A p \in Snap!Parts : Snap!Forgotten[p].snap = Snap!NULL /\ Snap!Forgotten[p].stamp = 0
  BY DEF Snap!Cells, Snap!Tables, Snap!NULL, Snap!Forgotten
<1>3. \A t \in Snap!Threads : s_left[t] \in Nat /\ (t \in Snap!Parts => s_left[t] = Updates[t])
  BY <1>1, NBasics
<1>4. 0 \in 0 .. Capacity
  BY NBasics
<1>5. past \subseteq [Snap!Parts -> Nat]
  BY <1>1, <1>2 DEF Table, Snap!Stamps, Snap!Cells
<1>6. \A p \in Snap!Parts : a_table[p].stamp = Updates[p] - s_left[p]
  BY <1>1, <1>2, <1>3, NBasics
<1>7. Snap!TypeOK
  BY <1>1, <1>2, <1>3, <1>4, <1>5, <1>6 DEF Snap!TypeOK
<1>8. NPlaceInv /\ NScanInv /\ NBorrowInv
  BY <1>1 DEF NPlaceInv, NScanInv, NBorrowInv, NScan, NBorrow, Snap!Scanning
<1>9. NPastInv
  BY <1>1, <1>2 DEF NPastInv, NSeen
<1>10. NCollectInv
  BY <1>1, NBasics DEF NCollectInv, NCollects
<1>. QED
  BY <1>7, <1>8, <1>9, <1>10 DEF NInv

LEMMA NReport == ASSUME NInv, Snap!Report PROVE NInv'
<1>1. /\ s_pc[Snap!Scanner] = "report" /\ s_left' = [s_left EXCEPT ![Snap!Scanner] = @ - 1]
      /\ s_pc' = [s_pc EXCEPT ![Snap!Scanner] = "idle"]
      /\ UNCHANGED <<program, a_table, helpsnap, j, oldCopy, newCopy, moved, snap, collects,
                     during, past>>
  BY DEF Snap!Report
<1>2. s_left[Snap!Scanner] > 0 /\ s_left[Snap!Scanner] \in Nat
  BY <1>1, NBasics DEF NInv, NPlaceInv, Snap!TypeOK
<1>3. s_left' \in [Snap!Threads -> Nat] /\ \A p \in Snap!Parts : s_left'[p] = s_left[p]
  <2>1. s_left \in [Snap!Threads -> Nat]
    BY DEF NInv, Snap!TypeOK
  <2>. QED
    BY <1>1, <1>2, <2>1, NBasics
<1>4. s_pc' \in [Snap!Threads -> {"idle", "collect", "recollect", "compare", "help", "store", "report"}]
  BY <1>1 DEF NInv, Snap!TypeOK
<1>5. Snap!TypeOK'
  BY <1>1, <1>3, <1>4 DEF NInv, Snap!TypeOK
<1>6. /\ s_pc'[Snap!Scanner] = "idle"
      /\ \A u \in Snap!Threads : u # Snap!Scanner => s_pc'[u] = s_pc[u] /\ s_left'[u] = s_left[u]
      /\ \A p \in Snap!Parts : s_pc'[p] = s_pc[p]
  BY <1>1, NBasics DEF NInv, Snap!TypeOK
<1>7. NPlaceInv'
  BY <1>1, <1>6 DEF NInv, NPlaceInv
<1>8. Table' = Table
  BY <1>1 DEF Table, Snap!Stamps
<1>9. NPastInv'
  BY <1>1, <1>8 DEF NInv, NPastInv, NSeen
<1>10. ASSUME NEW u \in Snap!Threads PROVE NScan(u)' /\ NCollects(u)'
  <2>1. CASE u = Snap!Scanner
    BY <1>1, <1>6, <2>1 DEF NScan, NCollects, NInv, NCollectInv, Snap!Scanning
  <2>2. CASE u # Snap!Scanner
    BY <1>1, <1>6, <1>8, <2>2 DEF NScan, NCollects, NInv, NScanInv, NCollectInv, Snap!Scanning, NBetween
  <2>. QED
    BY <2>1, <2>2
<1>11. ASSUME program = "mrmw.cpp", NEW u \in Snap!Threads PROVE NBorrow(u)'
  <2>1. CASE u = Snap!Scanner
    BY <1>6, <2>1 DEF NBorrow, Snap!Scanning
  <2>2. CASE u # Snap!Scanner
    <3>1. NBorrow(u)
      BY <1>11 DEF NInv, NBorrowInv
    <3>2. \A S : \A p \in Snap!Parts : NMoves(u, S, p) => NMoves(u, S, p)'
      BY <1>1, <1>6, <1>8, <2>2 DEF NMoves
    <3>. QED
      BY <1>1, <1>6, <2>2, <3>1, <3>2 DEF NBorrow, Snap!Scanning
  <2>. QED
    BY <2>1, <2>2
<1>. QED
  BY <1>1, <1>5, <1>7, <1>9, <1>10, <1>11 DEF NInv, NScanInv, NBorrowInv, NCollectInv

LEMMA NNext == ASSUME NInv, Next \/ UNCHANGED <<object, registerVars, sharedVars, snapVars>> PROVE NInv'
<1>1. CASE UNCHANGED snapVars
  <2>1. Snap!TypeOK' /\ NPlaceInv'
    BY <1>1 DEF snapVars, NInv, NPlaceInv, Snap!TypeOK
  <2>2. NPastInv' /\ NCollectInv'
    BY <1>1 DEF snapVars, NInv, NPastInv, NSeen, Table, Snap!Stamps, NCollectInv, NCollects
  <2>3. NScanInv'
    BY <1>1 DEF snapVars, NInv, NScanInv, NScan, NBetween, Table, Snap!Stamps, Snap!Scanning
  <2>4. NBorrowInv'
    BY <1>1 DEF snapVars, NInv, NBorrowInv, NBorrow, NMoves, Table, Snap!Stamps, Snap!Scanning
  <2>. QED
    BY <2>1, <2>2, <2>3, <2>4 DEF NInv
<1>2. CASE \E t \in Snap!Threads : Snap!Thread(t)
  <2>1. PICK t \in Snap!Threads : Snap!Thread(t)
    BY <1>2
  <2>2. Snap!TypeOK' /\ NPlaceInv'
    BY <2>1, NTypeNext, NPlaceNext DEF NInv
  <2>3. NPastInv' /\ NScanInv' /\ NBorrowInv' /\ NCollectInv'
    BY <2>1, <2>2, NPastNext, NScanNext, NBorrowNext, NCollectNext DEF NInv
  <2>. QED
    BY <2>2, <2>3 DEF NInv
<1>. QED
  BY <1>1, <1>2, NReport, NMoveOn

\* The tables between which the scans of both snapshot objects lie
\* (WFSnapshot::scan, WFSnapshot::update).
THEOREM SnapshotInvariant == Spec => []NInv
<1>1. Init => NInv
  BY NInit
<1>2. NInv /\ [Next]_<<object, registerVars, sharedVars, snapVars>> => NInv'
  BY NNext
<1>. QED
  BY <1>1, <1>2, PTL DEF Spec

LEMMA NInvImpliesSafety == ASSUME NInv PROVE Snap!Safety /\ Snap!ScansAreAtomic
<1>1. Snap!ScansAreTables /\ Snap!WaitFree
  BY DEF NInv, NPastInv, NSeen, NCollectInv, NCollects, Snap!ScansAreTables, Snap!WaitFree
<1>. QED
  BY <1>1 DEF NInv, NBorrowInv, NBorrow, Snap!Safety, Snap!ScansAreAtomic

\* A scan of mrmw.cpp is the table at one moment between its call and its
\* return, also when it is another's scan that it borrows, for any number of
\* threads, of updates and of scans.
THEOREM ScansAreAtomicHolds == Spec => []ScansAreAtomic
<1>1. NInv => ScansAreAtomic
  BY NInvImpliesSafety DEF ScansAreAtomic
<1>. QED
  BY <1>1, SnapshotInvariant, PTL
-----------------------------------------------------------------------------
(* The register one thread writes.  Every cell has one thread writing to   *)
(* it at a time, unless a read overlapped a write: then both may be at a   *)
(* cell of the diagonal, which is why the order of what a reader finds     *)
(* there is only kept for readers that never overlapped a write.  What a   *)
(* thread tells others along its row it knows itself for good.             *)

RReading(t) == Register!During(t, "read")
RWriting    == Register!During(0, "write")
RRow(t)     == RReading(t) /\ pc[t] \in {"load", "value", "stamp"}

\* u is between the load of a stamp for cell <<r, c>> and its store.
RAt(u, r, c) == pc[u] \in {"value", "stamp"} /\ Register!Target(u) = <<r, c>>

\* What the reader of a cell would read, and what its writer stored last.
RVisible(r, c) == Register!SRSWRead(cell[<<r, c>>]).value
RTold(r, c)    == cell[<<r, c>>].r_value.value
RRead(t)       == cell[<<t, t>>].lastRead.value

\* t has never overlapped a write, or has not got to its own cell since.
RTidy(t) == t \notin overlapped \/ (pc[t] = "own" /\ floor[t] > 0)

\* What t knows for good, what it will find if it reads now, and what a read
\* that is on its way down the column will return at least.
RToldBy(t, v) == \E x \in Register!Threads : x # t /\ RTold(x, t) >= v
RKnown(t, v)  == RRead(t) >= v \/ RToldBy(t, v)
RKnows(t, v)  == RVisible(t, t) >= v \/ RToldBy(t, v)
RWill(t, v)   == val[t] >= v \/ \E x \in Register!Threads : i[t] <= x /\ x # t /\ RTold(x, t) >= v

RControlInv ==
  /\ lastStamp + left[0].write = Writes
  /\ \A t \in Register!Threads :
       /\ t # 0 => left[t].write = 0 /\ op[t] # "write"
       /\ pc[t] # "idle" => op[t] # "none"
       /\ pc[t] \in {"own", "column"} => op[t] = "read"
       /\ pc[t] \in {"value", "stamp"} => i[t] < N
  /\ RWriting => val[0] = lastStamp
  /\ ~ RWriting => finished = lastStamp
  /\ 0 \notin overlapped
  /\ \A t \in Register!Threads : t \notin overlapped /\ RReading(t) => floor[t] = lastStamp /\ ~ RWriting

\* The stamps of a cell, and who is at it.
RCell(r, c) ==
  LET x == cell[<<r, c>>]
  IN  /\ x.lastRead.stamp <= x.r_value.stamp
      /\ x.lastRead.stamp = x.r_value.stamp => x.lastRead = x.r_value
      /\ \A u \in Register!Threads : RAt(u, r, c) =>
           /\ st[u] = x.lastStamp + 1
           /\ x.r_value.stamp = IF pc[u] = "value" THEN x.lastStamp ELSE x.lastStamp + 1
      /\ (\A u \in Register!Threads : ~ RAt(u, r, c)) => x.r_value.stamp = x.lastStamp
RCellInv == \A r, c \in Register!Threads : r # c \/ RTidy(r) => RCell(r, c)

\* Nothing older than what t read of its own cell, and nothing older than
\* what it told others, will be read by t again.
ROwn(t) ==
  /\ RVisible(t, t) >= RRead(t)
  /\ pc[t] = "column" \/ RRow(t) => val[t] >= RRead(t) /\ RKnown(t, val[t])
RRows(t, c) ==
  t # c => /\ RKnown(t, RTold(t, c))
           /\ pc[t] = "column" => RWill(t, RTold(t, c))
           /\ RRow(t) => val[t] >= RTold(t, c)
           /\ RRow(t) /\ (c < i[t] \/ (c = i[t] /\ pc[t] = "stamp")) => RTold(t, c) = val[t]
RRowInv == \A t \in Register!Threads : ROwn(t) /\ \A c \in Register!Threads : RRows(t, c)

\* What is finished is known to all that never overlapped a write.
RFresh(t) ==
  /\ t \notin overlapped => RKnows(t, finished)
  /\ t \notin overlapped /\ RWriting /\ (t < i[0] \/ (t = i[0] /\ pc[0] = "stamp"))
       => RVisible(t, t) = lastStamp
  /\ pc[t] = "own" => floor[t] = 0 \/ RKnows(t, floor[t])
  /\ pc[t] = "column" => RWill(t, floor[t])
  /\ RRow(t) => val[t] >= floor[t]
  /\ pc[t] = "idle" /\ op[t] = "read" => result[t] >= floor[t]
RFreshInv == \A t \in Register!Threads : RFresh(t)

RInv == /\ Register!TypeOK /\ RControlInv /\ RCellInv /\ RRowInv /\ RFreshInv
        /\ Register!ReadsOwnWrites

LEMMA RMoveOn ==
  ASSUME Next \/ UNCHANGED <<object, registerVars, sharedVars, snapVars>>
  PROVE  (\E t \in Register!Threads : Register!Thread(t)) \/ UNCHANGED registerVars
  BY DEF Next, registerVars, Register!Next, Register!Over, Register!vars

LEMMA RBasics ==
  /\ N \in Nat /\ N > 0 /\ Register!Threads = 0 .. N - 1 /\ Writes \in Nat
  /\ 0 \in Register!Threads /\ Register!Writer = 0
  /\ \A t \in Register!Threads : t \in Int /\ t >= 0 /\ t < N
  /\ \A t \in Int : t >= 0 /\ t < N => t \in Register!Threads
  BY NAssumption, ReadsAssumption DEF Register!Threads, Register!Writer

\* The types, one by one.
LEMMA RNumbers ==
  ASSUME Register!TypeOK
  PROVE  /\ lastStamp \in Nat /\ finished \in Nat /\ finished <= lastStamp
         /\ \A t \in Register!Threads :
              /\ val[t] \in Nat /\ val[t] <= lastStamp /\ floor[t] \in Nat /\ floor[t] <= lastStamp
              /\ result[t] \in Nat /\ result[t] <= lastStamp /\ st[t] \in Nat
              /\ i[t] \in Int /\ 0 <= i[t] /\ i[t] <= N
              /\ RRead(t) \in Nat /\ RRead(t) <= lastStamp
         /\ \A r, c \in Register!Threads :
              /\ RTold(r, c) \in Nat /\ RTold(r, c) <= lastStamp
              /\ RVisible(r, c) \in Nat /\ RVisible(r, c) <= lastStamp
              /\ cell[<<r, c>>].r_value.stamp \in Nat /\ cell[<<r, c>>].lastRead.stamp \in Nat
              /\ cell[<<r, c>>].lastStamp \in Nat
<1>1. /\ lastStamp \in Nat /\ finished \in Nat /\ finished <= lastStamp
  BY RBasics DEF Register!TypeOK
<1>2. ASSUME NEW t \in Register!Threads
      PROVE  /\ val[t] \in Nat /\ val[t] <= lastStamp /\ floor[t] \in Nat /\ floor[t] <= lastStamp
             /\ result[t] \in Nat /\ result[t] <= lastStamp /\ st[t] \in Nat
             /\ i[t] \in Int /\ 0 <= i[t] /\ i[t] <= N
  <2>1. /\ val[t] \in 0 .. lastStamp /\ floor[t] \in 0 .. lastStamp /\ result[t] \in 0 .. lastStamp
        /\ st[t] \in Nat /\ i[t] \in 0 .. N
    BY DEF Register!TypeOK
  <2>. QED
    BY <1>1, <2>1, RBasics
<1>3. ASSUME NEW r \in Register!Threads, NEW c \in Register!Threads
      PROVE  /\ RTold(r, c) \in Nat /\ RTold(r, c) <= lastStamp
             /\ RVisible(r, c) \in Nat /\ RVisible(r, c) <= lastStamp
             /\ cell[<<r, c>>].lastRead.value \in Nat /\ cell[<<r, c>>].lastRead.value <= lastStamp
             /\ cell[<<r, c>>].r_value.stamp \in Nat /\ cell[<<r, c>>].lastRead.stamp \in Nat
             /\ cell[<<r, c>>].lastStamp \in Nat
  <2>1. cell[<<r, c>>] \in [r_value : [stamp : Nat, value : 0 .. lastStamp], lastStamp : Nat,
                            lastRead : [stamp : Nat, value : 0 .. lastStamp]]
    BY DEF Register!TypeOK
  <2>2. /\ cell[<<r, c>>].r_value.value \in 0 .. lastStamp /\ cell[<<r, c>>].lastRead.value \in 0 .. lastStamp
        /\ cell[<<r, c>>].r_value.stamp \in Nat /\ cell[<<r, c>>].lastRead.stamp \in Nat
        /\ cell[<<r, c>>].lastStamp \in Nat
    BY <2>1
  <2>. QED
    BY <1>1, <2>2 DEF RTold, RVisible, Register!SRSWRead
<1>. QED
  BY <1>1, <1>2, <1>3 DEF RRead

\* A step of t leaves the others' part of the state alone.
LEMMA ROthersStay ==
  ASSUME Register!TypeOK, NEW t \in Register!Threads, Register!Thread(t),
         NEW u \in Register!Threads, u # t
  PROVE  /\ pc'[u] = pc[u] /\ op'[u] = op[u] /\ i'[u] = i[u] /\ val'[u] = val[u] /\ st'[u] = st[u]
         /\ result'[u] = result[u] /\ floor'[u] = floor[u] /\ left'[u] = left[u]
<1>. USE DEF Register!TypeOK
<1>1. CASE Register!StartWrite(t)
  BY <1>1 DEF Register!StartWrite
<1>2. CASE Register!StartRead(t)
  BY <1>2 DEF Register!StartRead
<1>3. CASE Register!ReadOwn(t)
  BY <1>3 DEF Register!ReadOwn
<1>4. CASE Register!ReadColumn(t)
  BY <1>4 DEF Register!ReadColumn
<1>5. CASE Register!StartRow(t)
  BY <1>5 DEF Register!StartRow
<1>6. CASE Register!LoadStamp(t)
  BY <1>6 DEF Register!LoadStamp
<1>7. CASE Register!StoreValue(t)
  BY <1>7 DEF Register!StoreValue
<1>8. CASE Register!StoreStamp(t)
  BY <1>8 DEF Register!StoreStamp
<1>9. CASE Register!Return(t)
  BY <1>9 DEF Register!Return
<1>. QED
  BY <1>1, <1>2, <1>3, <1>4, <1>5, <1>6, <1>7, <1>8, <1>9 DEF Register!Thread

\* What a step does to the locals of its thread and to what is not of a cell.
RStarts(t) ==
  \/ /\ pc[t] = "idle" /\ pc'[t] = "own" /\ op'[t] = "read" /\ lastStamp' = lastStamp
     /\ left'[t].write = left[t].write
     /\ floor'[t] = IF t \in overlapped THEN 0 ELSE finished
     /\ overlapped' = IF RWriting THEN overlapped \cup {t} ELSE overlapped
  \/ /\ pc[t] = "idle" /\ pc'[t] = "load" /\ op'[t] = "write" /\ lastStamp' = lastStamp + 1
     /\ left[t].write > 0 /\ left'[t].write = left[t].write - 1
     /\ i'[t] = 0 /\ val'[t] = lastStamp' /\ floor'[t] = floor[t]
     /\ overlapped' = overlapped \cup {u \in Register!Threads : RReading(u)}

RGoes(t) ==
  \/ pc[t] = "own" /\ pc'[t] = "column" /\ i'[t] = 0 /\ val'[t] = RVisible(t, t)
  \/ /\ pc[t] = "column" /\ pc'[t] = "column" /\ i[t] < N /\ i'[t] = i[t] + 1
     /\ val'[t] = IF val[t] > RVisible(i[t], t) THEN val[t] ELSE RVisible(i[t], t)
  \/ pc[t] = "column" /\ pc'[t] = "load" /\ i[t] = N /\ i'[t] = 0 /\ val'[t] = val[t]
  \/ /\ pc[t] = "load" /\ pc'[t] = "value" /\ i[t] < N /\ i'[t] = i[t] /\ val'[t] = val[t]
     /\ st'[t] = cell[Register!Target(t)].lastStamp + 1
  \/ pc[t] = "value" /\ pc'[t] = "stamp" /\ i'[t] = i[t] /\ val'[t] = val[t] /\ st'[t] = st[t]
  \/ pc[t] = "stamp" /\ pc'[t] = "load" /\ i'[t] = i[t] + 1 /\ val'[t] = val[t]

RReturns(t) ==
  /\ pc[t] = "load" /\ pc'[t] = "idle" /\ i[t] = N
  /\ finished' = IF finished > val[t] THEN finished ELSE val[t]
  /\ op[t] = "read" => result'[t] = val[t]

LEMMA RSteps ==
  ASSUME Register!TypeOK, NEW t \in Register!Threads, Register!Thread(t)
  PROVE  /\ \/ RStarts(t) /\ finished' = finished /\ result' = result
            \/ /\ RGoes(t) /\ op' = op /\ left' = left /\ lastStamp' = lastStamp /\ floor' = floor
               /\ finished' = finished /\ overlapped' = overlapped /\ result' = result
            \/ /\ RReturns(t) /\ op' = op /\ left' = left /\ lastStamp' = lastStamp
               /\ floor' = floor /\ overlapped' = overlapped
<1>. USE DEF Register!TypeOK
<1>1. CASE Register!StartWrite(t)
  BY <1>1 DEF Register!StartWrite, Register!Version, RStarts, RReading
<1>2. CASE Register!StartRead(t)
  BY <1>2, RBasics DEF Register!StartRead, RStarts, RWriting
<1>3. CASE Register!ReadOwn(t)
  BY <1>3 DEF Register!ReadOwn, RGoes, RVisible
<1>4. CASE Register!ReadColumn(t)
  BY <1>4 DEF Register!ReadColumn, RGoes, RVisible, Register!Best, Register!Newer
<1>5. CASE Register!StartRow(t)
  BY <1>5 DEF Register!StartRow, RGoes
<1>6. CASE Register!LoadStamp(t)
  BY <1>6 DEF Register!LoadStamp, Register!NextStamp, RGoes
<1>7. CASE Register!StoreValue(t)
  BY <1>7 DEF Register!StoreValue, RGoes
<1>8. CASE Register!StoreStamp(t)
  BY <1>8 DEF Register!StoreStamp, RGoes
<1>9. CASE Register!Return(t)
  BY <1>9 DEF Register!Return, RReturns, Register!Newer
<1>. QED
  BY <1>1, <1>2, <1>3, <1>4, <1>5, <1>6, <1>7, <1>8, <1>9 DEF Register!Thread

\* What a step does to a cell.
RReads(t, r, c) == c = t /\ ((pc[t] = "own" /\ r = t) \/ (pc[t] = "column" /\ i[t] < N /\ r = i[t]))

LEMMA RTargets ==
  ASSUME Register!TypeOK, RControlInv, NEW t \in Register!Threads, pc[t] \in {"load", "value", "stamp"},
         pc[t] = "load" => i[t] < N
  PROVE  /\ i[t] \in Register!Threads
         /\ Register!Target(t) \in Register!Threads \X Register!Threads
         /\ op[t] = "write" => t = 0 /\ Register!Target(t) = <<i[t], i[t]>>
         /\ op[t] # "write" => op[t] = "read" /\ Register!Target(t) = <<t, i[t]>>
<1>1. i[t] \in Register!Threads
  BY RNumbers, RBasics DEF RControlInv
<1>. QED
  BY <1>1 DEF Register!Target, RControlInv, Register!TypeOK

LEMMA RCellSteps ==
  ASSUME Register!TypeOK, RControlInv, NEW t \in Register!Threads, Register!Thread(t),
         NEW r \in Register!Threads, NEW c \in Register!Threads
  PROVE  /\ cell'[<<r, c>>].r_value =
              IF pc[t] = "value" /\ Register!Target(t) = <<r, c>>
              THEN [stamp |-> st[t], value |-> val[t]] ELSE cell[<<r, c>>].r_value
         /\ cell'[<<r, c>>].lastStamp =
              IF pc[t] = "stamp" /\ Register!Target(t) = <<r, c>>
              THEN st[t] ELSE cell[<<r, c>>].lastStamp
         /\ cell'[<<r, c>>].lastRead =
              IF RReads(t, r, c) THEN Register!SRSWRead(cell[<<r, c>>]) ELSE cell[<<r, c>>].lastRead
<1>0. /\ <<r, c>> \in Register!Threads \X Register!Threads
      /\ DOMAIN cell = Register!Threads \X Register!Threads
      /\ \A x \in Register!Threads \X Register!Threads :
           cell[x] \in [r_value : [stamp : Nat, value : 0 .. lastStamp], lastStamp : Nat,
                        lastRead : [stamp : Nat, value : 0 .. lastStamp]]
  BY DEF Register!TypeOK
<1>1. CASE Register!StartWrite(t) \/ Register!StartRead(t) \/ Register!StartRow(t)
           \/ Register!LoadStamp(t) \/ Register!Return(t)
  <2>1. pc[t] \notin {"own", "value", "stamp"} /\ cell' = cell /\ (pc[t] = "column" => i[t] = N)
    BY <1>1 DEF Register!StartWrite, Register!StartRead, Register!StartRow, Register!LoadStamp,
       Register!Return
  <2>. QED
    BY <2>1, RBasics DEF RReads
<1>2. CASE Register!ReadOwn(t)
  <2>1. /\ pc[t] = "own" /\ <<t, t>> \in Register!Threads \X Register!Threads
        /\ cell' = [cell EXCEPT ![<<t, t>>].lastRead = Register!SRSWRead(cell[<<t, t>>])]
    BY <1>2 DEF Register!ReadOwn
  <2>2. CASE r = t /\ c = t
    BY <1>0, <2>1, <2>2 DEF RReads
  <2>3. CASE ~ (r = t /\ c = t)
    BY <1>0, <2>1, <2>3 DEF RReads
  <2>. QED
    BY <2>2, <2>3
<1>3. CASE Register!ReadColumn(t)
  <2>1. i[t] \in Register!Threads /\ i[t] < N /\ pc[t] = "column"
    BY <1>3, RNumbers, RBasics DEF Register!ReadColumn
  <2>2. /\ <<i[t], t>> \in Register!Threads \X Register!Threads
        /\ cell' = [cell EXCEPT ![<<i[t], t>>].lastRead = Register!SRSWRead(cell[<<i[t], t>>])]
    BY <1>3, <2>1 DEF Register!ReadColumn
  <2>3. CASE r = i[t] /\ c = t
    BY <1>0, <2>1, <2>2, <2>3 DEF RReads
  <2>4. CASE ~ (r = i[t] /\ c = t)
    BY <1>0, <2>1, <2>2, <2>4 DEF RReads
  <2>. QED
    BY <2>3, <2>4
<1>4. CASE Register!StoreValue(t)
  <2>1. PICK x \in Register!Threads \X Register!Threads : x = Register!Target(t)
    BY <1>4, RTargets DEF Register!StoreValue
  <2>2. /\ pc[t] = "value"
        /\ cell' = [cell EXCEPT ![x].r_value = [stamp |-> st[t], value |-> val[t]]]
    BY <1>4, <2>1 DEF Register!StoreValue, Register!SV
  <2>3. CASE <<r, c>> = x
    BY <1>0, <2>1, <2>2, <2>3 DEF RReads
  <2>4. CASE <<r, c>> # x
    BY <1>0, <2>1, <2>2, <2>4 DEF RReads
  <2>. QED
    BY <2>3, <2>4
<1>5. CASE Register!StoreStamp(t)
  <2>1. PICK x \in Register!Threads \X Register!Threads : x = Register!Target(t)
    BY <1>5, RTargets DEF Register!StoreStamp
  <2>2. /\ pc[t] = "stamp" /\ cell' = [cell EXCEPT ![x].lastStamp = st[t]]
    BY <1>5, <2>1 DEF Register!StoreStamp
  <2>3. CASE <<r, c>> = x
    BY <1>0, <2>1, <2>2, <2>3 DEF RReads
  <2>4. CASE <<r, c>> # x
    BY <1>0, <2>1, <2>2, <2>4 DEF RReads
  <2>. QED
    BY <2>3, <2>4
<1>. QED
  BY <1>1, <1>2, <1>3, <1>4, <1>5 DEF Register!Thread

RSV(n) == [stamp : Nat, value : 0 .. n]
RCells(n) == [r_value : RSV(n), lastStamp : Nat, lastRead : RSV(n)]

LEMMA RCellUpdate ==
  ASSUME NEW n, NEW S, NEW f \in [S -> RCells(n)], NEW x \in S
  PROVE  /\ \A v \in RSV(n) : /\ [f EXCEPT ![x].lastRead = v] \in [S -> RCells(n)]
                              /\ [f EXCEPT ![x].r_value = v] \in [S -> RCells(n)]
         /\ \A s \in Nat : [f EXCEPT ![x].lastStamp = s] \in [S -> RCells(n)]
<1>1. f[x] \in RCells(n)
  OBVIOUS
<1>2. /\ \A v \in RSV(n) : /\ [f[x] EXCEPT !.lastRead = v] \in RCells(n)
                           /\ [f[x] EXCEPT !.r_value = v] \in RCells(n)
      /\ \A s \in Nat : [f[x] EXCEPT !.lastStamp = s] \in RCells(n)
  BY <1>1 DEF RCells
<1>. QED
  BY <1>2

LEMMA RTypeNext ==
  ASSUME Register!TypeOK, RControlInv, NEW t \in Register!Threads, Register!Thread(t)
  PROVE  Register!TypeOK'
<1>0. cell \in [Register!Threads \X Register!Threads -> RCells(lastStamp)]
  BY DEF Register!TypeOK, RCells, RSV
<1>1. CASE Register!StartWrite(t)
  <2>1. /\ lastStamp' = lastStamp + 1 /\ cell' = cell /\ finished' = finished
        /\ left' = [left EXCEPT ![t].write = @ - 1] /\ left[t].write > 0 /\ t = 0
        /\ op' = [op EXCEPT ![t] = "write"] /\ pc' = [pc EXCEPT ![t] = "load"]
        /\ val' = [val EXCEPT ![t] = lastStamp'] /\ i' = [i EXCEPT ![t] = 0]
        /\ overlapped' \subseteq Register!Threads /\ UNCHANGED <<st, result, floor>>
    BY <1>1 DEF Register!StartWrite, Register!Version, Register!TypeOK, RControlInv
  <2>2. lastStamp \in Nat /\ lastStamp + left[0].write = Writes /\ Writes \in Nat
    BY RNumbers, RBasics DEF RControlInv
  <2>3. left[0].write \in Nat
    BY RBasics DEF Register!TypeOK
  <2>4. lastStamp' \in 0 .. Writes /\ lastStamp' \in 0 .. lastStamp' /\ 0 \in 0 .. N
    BY <2>1, <2>2, <2>3, RBasics
  <2>5. 0 .. lastStamp \subseteq 0 .. lastStamp'
    BY <2>1, <2>2
  <2>6. cell \in [Register!Threads \X Register!Threads -> RCells(lastStamp)]
    BY DEF Register!TypeOK, RCells, RSV
  <2>7. RCells(lastStamp) \subseteq RCells(lastStamp')
    BY <2>5 DEF RCells, RSV
  <2>8. cell' \in [Register!Threads \X Register!Threads -> RCells(lastStamp')]
    BY <2>1, <2>6, <2>7
  <2>9. left[t].write - 1 \in 0 .. Writes
    BY <2>1, <2>2, <2>3
  <2>10. left' \in [Register!Threads -> [read : Nat, write : 0 .. Writes]]
    BY <2>1, <2>9 DEF Register!TypeOK
  <2>11. /\ val' \in [Register!Threads -> 0 .. lastStamp'] /\ floor' \in [Register!Threads -> 0 .. lastStamp']
         /\ result' \in [Register!Threads -> 0 .. lastStamp'] /\ finished' \in 0 .. lastStamp'
    BY <2>1, <2>4, <2>5 DEF Register!TypeOK
  <2>12. i' \in [Register!Threads -> 0 .. N]
    BY <2>1, <2>4 DEF Register!TypeOK
  <2>13. /\ op' \in [Register!Threads -> {"none", "read", "write"}]
         /\ pc' \in [Register!Threads -> {"idle", "own", "column", "load", "value", "stamp"}]
         /\ st' \in [Register!Threads -> Nat]
    BY <2>1 DEF Register!TypeOK
  <2>. QED
    BY <2>1, <2>4, <2>8, <2>10, <2>11, <2>12, <2>13 DEF Register!TypeOK, RCells, RSV
<1>2. CASE Register!StartRead(t)
  <2>1. left[t].read - 1 \in Nat /\ 0 \in 0 .. lastStamp
    BY <1>2, RNumbers DEF Register!StartRead, Register!TypeOK
  <2>2. /\ left' \in [Register!Threads -> [read : Nat, write : 0 .. Writes]]
        /\ floor' \in [Register!Threads -> 0 .. lastStamp]
    BY <1>2, <2>1 DEF Register!StartRead, Register!TypeOK
  <2>. QED
    BY <1>2, <2>2 DEF Register!StartRead, Register!TypeOK
<1>3. ASSUME NEW x \in Register!Threads
      PROVE  Register!SRSWRead(cell[<<x, t>>]) \in RSV(lastStamp)
  BY DEF Register!TypeOK, RSV, Register!SRSWRead
<1>4. CASE Register!ReadOwn(t)
  <2>1. Register!SRSWRead(cell[<<t, t>>]).value \in 0 .. lastStamp /\ 0 \in 0 .. N
    BY <1>3, RBasics DEF RSV
  <2>2. cell' \in [Register!Threads \X Register!Threads -> RCells(lastStamp)]
    <3>1. /\ <<t, t>> \in Register!Threads \X Register!Threads
          /\ Register!SRSWRead(cell[<<t, t>>]) \in RSV(lastStamp)
      BY <1>3
    <3>. QED
      BY <1>0, <3>1, <1>4, RCellUpdate DEF Register!ReadOwn
  <2>. QED
    BY <1>4, <2>1, <2>2 DEF Register!ReadOwn, Register!TypeOK, RCells, RSV
<1>5. CASE Register!ReadColumn(t)
  <2>1. i[t] \in Register!Threads /\ i[t] + 1 \in 0 .. N
    BY <1>5, RNumbers, RBasics DEF Register!ReadColumn
  <2>2. Register!Best(val[t], Register!SRSWRead(cell[<<i[t], t>>]).value) \in 0 .. lastStamp
    BY <1>3, <2>1 DEF RSV, Register!Best, Register!Newer, Register!TypeOK
  <2>3. cell' \in [Register!Threads \X Register!Threads -> RCells(lastStamp)]
    <3>1. /\ <<i[t], t>> \in Register!Threads \X Register!Threads
          /\ Register!SRSWRead(cell[<<i[t], t>>]) \in RSV(lastStamp)
      BY <1>3, <2>1
    <3>. QED
      BY <1>0, <3>1, <1>5, RCellUpdate DEF Register!ReadColumn
  <2>4. /\ val' = [val EXCEPT ![t] = Register!Best(val[t], Register!SRSWRead(cell[<<i[t], t>>]).value)]
        /\ i' = [i EXCEPT ![t] = i[t] + 1]
        /\ UNCHANGED <<lastStamp, op, pc, st, left, result, finished, floor, overlapped>>
    BY <1>5 DEF Register!ReadColumn, Register!TypeOK
  <2>. QED
    BY <2>1, <2>2, <2>3, <2>4 DEF Register!TypeOK, RCells, RSV
<1>6. CASE Register!StartRow(t)
  <2>1. 0 \in 0 .. N
    BY RBasics
  <2>. QED
    BY <1>6, <2>1 DEF Register!StartRow, Register!TypeOK
<1>7. CASE Register!LoadStamp(t)
  <2>1. Register!NextStamp(cell[Register!Target(t)]) \in Nat
    BY <1>7, RTargets DEF Register!LoadStamp, Register!NextStamp, Register!TypeOK
  <2>. QED
    BY <1>7, <2>1 DEF Register!LoadStamp, Register!TypeOK
<1>8. CASE Register!StoreValue(t)
  <2>1. PICK x \in Register!Threads \X Register!Threads : x = Register!Target(t)
    BY <1>8, RTargets DEF Register!StoreValue
  <2>2. cell' = [cell EXCEPT ![x].r_value = [stamp |-> st[t], value |-> val[t]]]
    BY <1>8, <2>1 DEF Register!StoreValue, Register!SV
  <2>3. [stamp |-> st[t], value |-> val[t]] \in RSV(lastStamp)
    BY DEF Register!TypeOK, RSV
  <2>4. cell' \in [Register!Threads \X Register!Threads -> RCells(lastStamp)]
    <3>1. PICK v \in RSV(lastStamp) : v = [stamp |-> st[t], value |-> val[t]]
      BY <2>3
    <3>2. cell' = [cell EXCEPT ![x].r_value = v]
      BY <2>2, <3>1
    <3>. QED
      BY <1>0, <3>2, RCellUpdate
  <2>. QED
    BY <1>8, <2>4 DEF Register!StoreValue, Register!TypeOK, RCells, RSV
<1>9. CASE Register!StoreStamp(t)
  <2>1. Register!Target(t) \in Register!Threads \X Register!Threads /\ i[t] + 1 \in 0 .. N
    BY <1>9, RTargets, RBasics DEF Register!StoreStamp
  <2>2. cell' \in [Register!Threads \X Register!Threads -> RCells(lastStamp)]
    <3>1. st[t] \in Nat
      BY DEF Register!TypeOK
    <3>. QED
      BY <1>0, <2>1, <3>1, <1>9, RCellUpdate DEF Register!StoreStamp
  <2>. QED
    BY <1>9, <2>1, <2>2 DEF Register!StoreStamp, Register!TypeOK, RCells, RSV
<1>10. CASE Register!Return(t)
  BY <1>10 DEF Register!Return, Register!Newer, Register!TypeOK
<1>. QED
  BY <1>1, <1>2, <1>4, <1>5, <1>6, <1>7, <1>8, <1>9, <1>10 DEF Register!Thread

LEMMA RControlNext ==
  ASSUME Register!TypeOK, RControlInv, Register!TypeOK', NEW t \in Register!Threads, Register!Thread(t)
  PROVE  RControlInv'
<1>1. \A u \in Register!Threads : u # t =>
        /\ pc'[u] = pc[u] /\ op'[u] = op[u] /\ i'[u] = i[u] /\ val'[u] = val[u] /\ floor'[u] = floor[u]
        /\ left'[u] = left[u]
  BY ROthersStay
<1>2. \A u \in Register!Threads : u # t => (RReading(u)' <=> RReading(u))
  BY <1>1 DEF RReading, Register!During
<1>3. t # 0 => (RWriting' <=> RWriting)
  BY <1>1, RBasics DEF RWriting, Register!During
<1>4. /\ lastStamp \in Nat /\ finished \in Nat /\ finished <= lastStamp /\ left[0].write \in Nat
      /\ val[0] \in Nat /\ val[0] <= lastStamp /\ Writes \in Nat
      /\ val[t] \in Nat /\ val[t] <= lastStamp
  BY RNumbers, RBasics DEF Register!TypeOK
<1>5. CASE RStarts(t) /\ finished' = finished /\ result' = result
  <2>1. CASE pc'[t] = "own"
    <3>1. /\ pc[t] = "idle" /\ op'[t] = "read" /\ lastStamp' = lastStamp /\ left'[t].write = left[t].write
          /\ floor'[t] = IF t \in overlapped THEN 0 ELSE finished
          /\ overlapped' = IF RWriting THEN overlapped \cup {t} ELSE overlapped
      BY <1>5, <2>1 DEF RStarts
    <3>2. (RWriting' <=> RWriting) /\ (t = 0 => ~ RWriting)
      BY <1>3, <2>1, <3>1 DEF RWriting, Register!During
    <3>3. val'[0] = val[0] \/ ~ RWriting'
      BY <1>1, <3>2, RBasics
    <3>4. lastStamp' + left'[0].write = Writes
      BY <1>1, <3>1, RBasics DEF RControlInv
    <3>5. \A u \in Register!Threads :
            /\ u # 0 => left'[u].write = 0 /\ op'[u] # "write"
            /\ pc'[u] # "idle" => op'[u] # "none"
            /\ pc'[u] \in {"own", "column"} => op'[u] = "read"
            /\ pc'[u] \in {"value", "stamp"} => i'[u] < N
      BY <1>1, <2>1, <3>1 DEF RControlInv
    <3>6. (~ RWriting' => finished' = lastStamp') /\ 0 \notin overlapped'
      BY <1>5, <3>1, <3>2 DEF RControlInv
    <3>7. ASSUME NEW u \in Register!Threads, u \notin overlapped', RReading(u)'
          PROVE  floor'[u] = lastStamp' /\ ~ RWriting'
      <4>1. CASE u = t
        BY <3>1, <3>2, <3>7, <4>1 DEF RControlInv
      <4>2. CASE u # t
        BY <1>1, <1>2, <3>1, <3>2, <3>7, <4>2 DEF RControlInv
      <4>. QED
        BY <4>1, <4>2
    <3>8. RWriting' => val'[0] = lastStamp'
      BY <3>1, <3>2, <3>3 DEF RControlInv
    <3>. QED
      BY <3>4, <3>5, <3>6, <3>7, <3>8 DEF RControlInv
  <2>2. CASE pc'[t] = "load"
    <3>1. /\ pc[t] = "idle" /\ op'[t] = "write" /\ lastStamp' = lastStamp + 1
          /\ left[t].write > 0 /\ left'[t].write = left[t].write - 1 /\ val'[t] = lastStamp'
          /\ overlapped' = overlapped \cup {u \in Register!Threads : RReading(u)}
      BY <1>5, <2>2 DEF RStarts
    <3>2. t = 0 /\ ~ RReading(0) /\ ~ RReading(0)' /\ RWriting'
      BY <3>1, <2>2 DEF RControlInv, RReading, RWriting, Register!During
    <3>3. \A u \in Register!Threads : u \notin overlapped' => ~ RReading(u)'
      BY <1>2, <3>1, <3>2
    <3>4. lastStamp' + left'[0].write = Writes
      BY <1>4, <3>1, <3>2 DEF RControlInv
    <3>. QED
      BY <1>1, <1>5, <2>2, <3>1, <3>2, <3>3, <3>4 DEF RControlInv
  <2>. QED
    BY <1>5, <2>1, <2>2 DEF RStarts
<1>6. CASE /\ RGoes(t) /\ op' = op /\ left' = left /\ lastStamp' = lastStamp /\ floor' = floor
           /\ finished' = finished /\ overlapped' = overlapped /\ result' = result
  <2>1. pc[t] # "idle" /\ pc'[t] # "idle" /\ (op[t] = "write" => val'[t] = val[t])
    BY <1>6 DEF RGoes, RControlInv
  <2>2. (RWriting' <=> RWriting) /\ \A u \in Register!Threads : RReading(u)' <=> RReading(u)
    BY <1>2, <1>3, <1>6, <2>1 DEF RReading, RWriting, Register!During
  <2>3. RWriting => val'[0] = val[0]
    BY <1>1, <2>1, RBasics DEF RWriting, Register!During
  <2>4. /\ pc'[t] \in {"own", "column"} => op[t] = "read"
        /\ pc'[t] \in {"value", "stamp"} => i'[t] < N
    BY <1>6 DEF RGoes, RControlInv
  <2>. QED
    BY <1>1, <1>6, <2>1, <2>2, <2>3, <2>4 DEF RControlInv
<1>7. CASE /\ RReturns(t) /\ op' = op /\ left' = left /\ lastStamp' = lastStamp
           /\ floor' = floor /\ overlapped' = overlapped
  <2>1. /\ pc[t] = "load" /\ pc'[t] = "idle" /\ i[t] = N
        /\ finished' = IF finished > val[t] THEN finished ELSE val[t]
    BY <1>7 DEF RReturns
  <2>2. ~ RReading(t)' /\ (t = 0 => ~ RWriting')
    BY <2>1 DEF RReading, RWriting, Register!During
  <2>3. ~ RWriting' => finished' = lastStamp
    <3>1. CASE RWriting /\ t = 0
      BY <1>4, <2>1, <3>1 DEF RControlInv
    <3>2. CASE ~ RWriting
      BY <1>4, <2>1, <3>2 DEF RControlInv
    <3>. QED
      BY <1>3, <3>1, <3>2
  <2>4. \A u \in Register!Threads : RReading(u)' => RReading(u)
    BY <1>2, <2>2
  <2>5. RWriting' => RWriting /\ val'[0] = val[0]
    BY <1>1, <1>3, <2>2, RBasics
  <2>. QED
    BY <1>1, <1>7, <2>1, <2>3, <2>4, <2>5 DEF RControlInv
<1>. QED
  BY <1>5, <1>6, <1>7, RSteps

LEMMA RTidyBefore ==
  ASSUME Register!TypeOK, RControlInv, NEW t \in Register!Threads, Register!Thread(t),
         NEW u \in Register!Threads, RTidy(u)'
  PROVE  RTidy(u)
<1>1. u \notin overlapped' => u \notin overlapped
  BY RSteps DEF RStarts
<1>2. CASE u = t /\ pc'[u] = "own"
  <2>1. pc[t] = "idle" /\ floor'[t] = IF t \in overlapped THEN 0 ELSE finished
    BY <1>2, RSteps DEF RStarts, RGoes, RReturns
  <2>. QED
    BY <1>1, <1>2, <2>1 DEF RTidy
<1>3. CASE u # t
  BY <1>1, <1>3, ROthersStay DEF RTidy
<1>. QED
  BY <1>1, <1>2, <1>3 DEF RTidy

\* The threads that write to a cell: one, unless it is on the diagonal and
\* not tidy.
ROn(u, r, c) == pc[u] \in {"load", "value", "stamp"} /\ i[u] < N /\ Register!Target(u) = <<r, c>>

LEMMA ROneWriter ==
  ASSUME Register!TypeOK, RControlInv, NEW r \in Register!Threads, NEW c \in Register!Threads,
         r # c \/ RTidy(r), NEW u \in Register!Threads, NEW v \in Register!Threads,
         ROn(u, r, c), ROn(v, r, c)
  PROVE  u = v
<1>1. /\ op[u] = "write" => u = 0 /\ r = c
      /\ op[u] # "write" => op[u] = "read" /\ u = r
      /\ op[v] = "write" => v = 0 /\ r = c
      /\ op[v] # "write" => op[v] = "read" /\ v = r
  BY RTargets DEF ROn
<1>2. \A w \in Register!Threads : ROn(w, r, c) =>
        /\ op[w] = "read" => RReading(w)
        /\ op[w] = "write" /\ w = 0 => RWriting
        /\ pc[w] # "own"
  BY DEF ROn, RReading, RWriting, Register!During
<1>3. RTidy(r) /\ pc[r] # "own" /\ RReading(r) => ~ RWriting
  BY DEF RTidy, RControlInv
<1>. QED
  BY <1>1, <1>2, <1>3

LEMMA RCellNext ==
  ASSUME Register!TypeOK, RControlInv, RCellInv, Register!TypeOK', NEW t \in Register!Threads,
         Register!Thread(t), RControlInv'
  PROVE  RCellInv'
<1>1. SUFFICES ASSUME NEW r \in Register!Threads, NEW c \in Register!Threads, r # c \/ RTidy(r)'
               PROVE  RCell(r, c)'
  BY DEF RCellInv
<1>2. (r # c \/ RTidy(r)) /\ RCell(r, c)
  BY <1>1, RTidyBefore DEF RCellInv
<1>. DEFINE x == cell[<<r, c>>]  y == cell'[<<r, c>>]
<1>3. /\ x.r_value.stamp \in Nat /\ x.lastRead.stamp \in Nat /\ x.lastStamp \in Nat /\ st[t] \in Nat
  BY RNumbers
<1>4. /\ y.r_value = IF pc[t] = "value" /\ Register!Target(t) = <<r, c>>
                     THEN [stamp |-> st[t], value |-> val[t]] ELSE x.r_value
      /\ y.lastStamp = IF pc[t] = "stamp" /\ Register!Target(t) = <<r, c>>
                       THEN st[t] ELSE x.lastStamp
      /\ y.lastRead = IF RReads(t, r, c) THEN Register!SRSWRead(x) ELSE x.lastRead
  BY RCellSteps
<1>5. /\ x.lastRead.stamp <= x.r_value.stamp
      /\ x.lastRead.stamp = x.r_value.stamp => x.lastRead = x.r_value
      /\ \A u \in Register!Threads : RAt(u, r, c) =>
           /\ st[u] = x.lastStamp + 1
           /\ x.r_value.stamp = IF pc[u] = "value" THEN x.lastStamp ELSE x.lastStamp + 1
      /\ (\A u \in Register!Threads : ~ RAt(u, r, c)) => x.r_value.stamp = x.lastStamp
  BY <1>2 DEF RCell
<1>6. Register!SRSWRead(x) = x.r_value
  BY <1>3, <1>5 DEF Register!SRSWRead
<1>7. \A u \in Register!Threads : u # t => /\ RAt(u, r, c)' <=> RAt(u, r, c)
                                           /\ pc'[u] = pc[u] /\ st'[u] = st[u]
  BY ROthersStay DEF RAt, Register!Target
<1>8. \A u \in Register!Threads : RAt(u, r, c) => ROn(u, r, c)
  BY DEF RAt, ROn, RControlInv
<1>. HIDE DEF x, y
<1>. DEFINE Goal == /\ y.lastRead.stamp <= y.r_value.stamp
                    /\ y.lastRead.stamp = y.r_value.stamp => y.lastRead = y.r_value
                    /\ \A u \in Register!Threads : RAt(u, r, c)' =>
                         /\ st'[u] = y.lastStamp + 1
                         /\ y.r_value.stamp = IF pc'[u] = "value" THEN y.lastStamp ELSE y.lastStamp + 1
                    /\ (\A u \in Register!Threads : ~ RAt(u, r, c)') => y.r_value.stamp = y.lastStamp
<1>9. ASSUME ROn(t, r, c) PROVE Goal
  <2>1. \A u \in Register!Threads : u # t => ~ RAt(u, r, c) /\ ~ RAt(u, r, c)'
    BY <1>2, <1>7, <1>8, <1>9, ROneWriter
  <2>2. Register!Target(t) = <<r, c>> /\ ~ RReads(t, r, c) /\ i[t] < N
    BY <1>9 DEF ROn, RReads
  <2>3. CASE pc[t] = "load"
    <3>1. /\ pc'[t] = "value" /\ st'[t] = x.lastStamp + 1 /\ RAt(t, r, c)' /\ ~ RAt(t, r, c)
      <4>1. RGoes(t) /\ op' = op
        <5>1. i[t] # N
          BY <2>2, RNumbers, RBasics
        <5>. QED
          BY <2>3, <5>1, RSteps DEF RStarts, RReturns
      <4>2. pc'[t] = "value" /\ st'[t] = cell[Register!Target(t)].lastStamp + 1 /\ i'[t] = i[t]
        BY <2>2, <2>3, <4>1, RNumbers, RBasics DEF RGoes
      <4>3. Register!Target(t)' = Register!Target(t)
        BY <4>1, <4>2 DEF Register!Target
      <4>. QED
        BY <2>2, <2>3, <4>2, <4>3 DEF RAt, x
    <3>. QED
      BY <1>3, <1>4, <1>5, <2>1, <2>2, <2>3, <3>1
  <2>4. CASE pc[t] = "value"
    <3>1. RAt(t, r, c) /\ pc'[t] = "stamp" /\ st'[t] = st[t] /\ RAt(t, r, c)'
      <4>1. RGoes(t) /\ op' = op
        BY <2>4, RSteps DEF RStarts, RReturns
      <4>2. pc'[t] = "stamp" /\ st'[t] = st[t] /\ i'[t] = i[t]
        BY <2>4, <4>1 DEF RGoes
      <4>3. Register!Target(t)' = Register!Target(t)
        BY <4>1, <4>2 DEF Register!Target
      <4>. QED
        BY <2>2, <2>4, <4>2, <4>3 DEF RAt
    <3>2. /\ st[t] = x.lastStamp + 1 /\ x.r_value.stamp = x.lastStamp
          /\ y.r_value.stamp = st[t] /\ y.lastStamp = x.lastStamp /\ y.lastRead = x.lastRead
      BY <1>4, <1>5, <2>2, <2>4, <3>1
    <3>. QED
      BY <1>3, <1>5, <2>1, <3>1, <3>2
  <2>5. CASE pc[t] = "stamp"
    <3>1. RAt(t, r, c) /\ ~ RAt(t, r, c)'
      BY <2>2, <2>5, RSteps DEF RStarts, RReturns, RGoes, RAt
    <3>2. /\ y.lastStamp = x.lastStamp + 1 /\ x.r_value.stamp = x.lastStamp + 1
          /\ y.r_value = x.r_value /\ y.lastRead = x.lastRead
      BY <1>4, <1>5, <2>2, <2>5, <3>1
    <3>. QED
      BY <1>5, <2>1, <3>1, <3>2
  <2>. QED
    BY <1>9, <2>3, <2>4, <2>5 DEF ROn
<1>10. ASSUME ~ ROn(t, r, c) PROVE Goal
  <2>1. /\ ~ RAt(t, r, c)
        /\ ~ (pc[t] \in {"value", "stamp"} /\ Register!Target(t) = <<r, c>>)
    BY <1>8, <1>10 DEF RAt
  <2>2. ~ RAt(t, r, c)'
    <3>1. ASSUME RAt(t, r, c)' PROVE FALSE
      <4>1. pc'[t] \in {"value", "stamp"} /\ Register!Target(t)' = <<r, c>>
        BY <3>1 DEF RAt
      <4>2. RGoes(t) /\ op' = op /\ pc[t] \in {"load", "value"} /\ i'[t] = i[t]
        BY <4>1, RSteps DEF RStarts, RReturns, RGoes
      <4>3. Register!Target(t) = <<r, c>> /\ i[t] < N
        BY <4>1, <4>2 DEF Register!Target, RControlInv
      <4>. QED
        BY <1>10, <4>2, <4>3 DEF ROn
    <3>. QED
      BY <3>1
  <2>3. /\ y.r_value = x.r_value /\ y.lastStamp = x.lastStamp
        /\ y.lastRead = x.lastRead \/ y.lastRead = x.r_value
    BY <1>4, <1>6, <2>1
  <2>4. /\ y.lastRead.stamp <= y.r_value.stamp
        /\ y.lastRead.stamp = y.r_value.stamp => y.lastRead = y.r_value
    BY <1>3, <1>5, <2>3
  <2>. QED
    BY <1>5, <1>7, <2>1, <2>2, <2>3, <2>4
<1>11. Goal
  BY <1>9, <1>10
<1>. QED
  BY <1>11 DEF RCell, y

\* What the reader of a cell gets is what was stored there last.
LEMMA RCellIsAtomic ==
  ASSUME Register!TypeOK, RCellInv, NEW r \in Register!Threads, NEW c \in Register!Threads,
         r # c \/ RTidy(r)
  PROVE  /\ Register!SRSWRead(cell[<<r, c>>]) = cell[<<r, c>>].r_value
         /\ RVisible(r, c) = RTold(r, c)
<1>1. /\ cell[<<r, c>>].lastRead.stamp <= cell[<<r, c>>].r_value.stamp
      /\ cell[<<r, c>>].lastRead.stamp = cell[<<r, c>>].r_value.stamp
           => cell[<<r, c>>].lastRead = cell[<<r, c>>].r_value
  BY DEF RCellInv, RCell
<1>2. cell[<<r, c>>].lastRead.stamp \in Nat /\ cell[<<r, c>>].r_value.stamp \in Nat
  BY RNumbers
<1>3. Register!SRSWRead(cell[<<r, c>>]) = cell[<<r, c>>].r_value
  BY <1>1, <1>2 DEF Register!SRSWRead
<1>. QED
  BY <1>3 DEF RVisible, RTold

\* A store gives what t holds, to be seen at once if only one thread writes to
\* the cell; and nothing else changes what a cell shows.
LEMMA RShows ==
  ASSUME Register!TypeOK, RControlInv, RCellInv, Register!TypeOK', NEW t \in Register!Threads,
         Register!Thread(t), NEW r \in Register!Threads, NEW c \in Register!Threads
  PROVE  /\ pc[t] = "value" /\ Register!Target(t) = <<r, c>> =>
              /\ RTold(r, c)' = val[t]
              /\ r # c \/ RTidy(r) => RVisible(r, c)' = val[t]
              /\ r = c => RVisible(r, c)' = val[t] \/ RVisible(r, c)' = RRead(c)
         /\ ~ (pc[t] = "value" /\ Register!Target(t) = <<r, c>>) =>
              RTold(r, c)' = RTold(r, c) /\ RVisible(r, c)' = RVisible(r, c)
         /\ RReads(t, r, r) => RRead(r)' = RVisible(r, r)
         /\ ~ RReads(t, r, r) => RRead(r)' = RRead(r)
<1>. DEFINE x == cell[<<r, c>>]  y == cell'[<<r, c>>]
<1>1. /\ x.r_value.stamp \in Nat /\ x.lastRead.stamp \in Nat /\ x.lastStamp \in Nat /\ st[t] \in Nat
  BY RNumbers
<1>2. /\ y.r_value = IF pc[t] = "value" /\ Register!Target(t) = <<r, c>>
                     THEN [stamp |-> st[t], value |-> val[t]] ELSE x.r_value
      /\ y.lastRead = IF RReads(t, r, c) THEN Register!SRSWRead(x) ELSE x.lastRead
  BY RCellSteps
<1>3. ~ (pc[t] = "value" /\ RReads(t, r, c))
  BY DEF RReads
<1>4. /\ RTold(r, c) = x.r_value.value /\ RTold(r, c)' = y.r_value.value
      /\ RVisible(r, c) = Register!SRSWRead(x).value /\ RVisible(r, c)' = Register!SRSWRead(y).value
  BY DEF RTold, RVisible, Register!SRSWRead
<1>5. ASSUME pc[t] = "value", Register!Target(t) = <<r, c>>
      PROVE  /\ RTold(r, c)' = val[t]
             /\ r # c \/ RTidy(r) => RVisible(r, c)' = val[t]
             /\ r = c => RVisible(r, c)' = val[t] \/ RVisible(r, c)' = RRead(c)
  <2>1. y.r_value.stamp = st[t] /\ y.r_value.value = val[t] /\ y.lastRead = x.lastRead
    BY <1>2, <1>3, <1>5
  <2>2. ASSUME r # c \/ RTidy(r) PROVE x.lastRead.stamp < st[t]
    <3>1. RCell(r, c) /\ RAt(t, r, c)
      BY <1>5, <2>2 DEF RCellInv, RAt
    <3>2. x.lastRead.stamp <= x.r_value.stamp /\ st[t] = x.lastStamp + 1 /\ x.r_value.stamp = x.lastStamp
      BY <1>5, <3>1 DEF RCell
    <3>. QED
      BY <1>1, <3>2
  <2>3. Register!SRSWRead(y) = y.r_value \/ Register!SRSWRead(y) = y.lastRead
    BY DEF Register!SRSWRead
  <2>4. r # c \/ RTidy(r) => Register!SRSWRead(y) = y.r_value
    BY <1>1, <2>1, <2>2 DEF Register!SRSWRead
  <2>5. r = c => x.lastRead.value = RRead(c)
    BY DEF RRead
  <2>. HIDE DEF x, y
  <2>. QED
    BY <1>4, <2>1, <2>3, <2>4, <2>5
<1>6. ASSUME ~ (pc[t] = "value" /\ Register!Target(t) = <<r, c>>)
      PROVE  RTold(r, c)' = RTold(r, c) /\ RVisible(r, c)' = RVisible(r, c)
  <2>1. y.r_value = x.r_value /\ (y.lastRead = x.lastRead \/ y.lastRead = Register!SRSWRead(x))
    BY <1>2, <1>6
  <2>2. Register!SRSWRead(y) = Register!SRSWRead(x)
    BY <1>1, <2>1 DEF Register!SRSWRead
  <2>. HIDE DEF x, y
  <2>. QED
    BY <1>4, <2>1, <2>2
<1>7. cell'[<<r, r>>].lastRead = IF RReads(t, r, r) THEN Register!SRSWRead(cell[<<r, r>>])
                                 ELSE cell[<<r, r>>].lastRead
  BY RCellSteps
<1>8. /\ RReads(t, r, r) => RRead(r)' = RVisible(r, r)
      /\ ~ RReads(t, r, r) => RRead(r)' = RRead(r)
  BY <1>7 DEF RRead, RVisible
<1>. QED
  BY <1>5, <1>6, <1>8

\* Who stores: the writer on the diagonal what it writes, a reader in its row
\* what it has read.
LEMMA RStores ==
  ASSUME Register!TypeOK, RControlInv, RRowInv, NEW t \in Register!Threads,
         NEW r \in Register!Threads, NEW c \in Register!Threads,
         pc[t] = "value", Register!Target(t) = <<r, c>>
  PROVE  /\ i[t] = c /\ (r # c => t = r /\ RRow(t) /\ val[t] >= RTold(r, c))
         /\ r = c => \/ t = 0 /\ RWriting /\ val[t] = lastStamp /\ op[t] = "write"
                     \/ t = r /\ RRow(t) /\ val[t] >= RRead(t)
<1>1. /\ op[t] = "write" => t = 0 /\ r = i[t] /\ c = i[t]
      /\ op[t] # "write" => op[t] = "read" /\ r = t /\ c = i[t]
  BY RTargets
<1>2. /\ op[t] = "read" => RRow(t)
      /\ op[t] = "write" /\ t = 0 => RWriting /\ val[t] = lastStamp
  BY DEF RRow, RReading, RWriting, Register!During, RControlInv
<1>3. /\ RRow(t) => val[t] >= RRead(t)
      /\ RRow(t) /\ t # c => val[t] >= RTold(t, c)
  BY DEF RRowInv, ROwn, RRows
<1>. QED
  BY <1>1, <1>2, <1>3

\* What others told a thread and what it knows is never taken back.
LEMMA RGrows ==
  ASSUME Register!TypeOK, RControlInv, RCellInv, RRowInv, Register!TypeOK',
         NEW t \in Register!Threads, Register!Thread(t)
  PROVE  /\ \A x, c \in Register!Threads : x # c => RTold(x, c)' >= RTold(x, c)
         /\ \A c \in Register!Threads : /\ RRead(c)' >= RRead(c)
                                        /\ c # t => RRead(c)' = RRead(c)
         /\ \A c \in Register!Threads : \A v \in Nat : RToldBy(c, v) => RToldBy(c, v)'
         /\ \A c \in Register!Threads : \A v \in Nat : RKnown(c, v) => RKnown(c, v)'
<1>1. ASSUME NEW x \in Register!Threads, NEW c \in Register!Threads, x # c
      PROVE  RTold(x, c)' >= RTold(x, c) /\ RTold(x, c) \in Nat /\ RTold(x, c)' \in Nat
  <2>1. RTold(x, c) \in Nat /\ val[t] \in Nat
    BY RNumbers
  <2>2. CASE pc[t] = "value" /\ Register!Target(t) = <<x, c>>
    BY <1>1, <2>1, <2>2, RShows, RStores
  <2>3. CASE ~ (pc[t] = "value" /\ Register!Target(t) = <<x, c>>)
    BY <2>1, <2>3, RShows
  <2>. QED
    BY <2>2, <2>3
<1>2. ASSUME NEW c \in Register!Threads
      PROVE  /\ RRead(c)' >= RRead(c) /\ RRead(c) \in Nat /\ RRead(c)' \in Nat
             /\ c # t => RRead(c)' = RRead(c)
  <2>1. RVisible(c, c) >= RRead(c) /\ RVisible(c, c) \in Nat /\ RRead(c) \in Nat
    BY RNumbers DEF RRowInv, ROwn
  <2>2. RReads(t, c, c) => c = t
    BY DEF RReads
  <2>. QED
    BY <2>1, <2>2, RShows
<1>3. ASSUME NEW c \in Register!Threads, NEW v \in Nat, RToldBy(c, v) PROVE RToldBy(c, v)'
  <2>1. PICK x \in Register!Threads : x # c /\ RTold(x, c) >= v
    BY <1>3 DEF RToldBy
  <2>2. RTold(x, c)' >= v
    BY <1>1, <2>1
  <2>. QED
    BY <2>1, <2>2 DEF RToldBy
<1>4. ASSUME NEW c \in Register!Threads, NEW v \in Nat, RKnown(c, v) PROVE RKnown(c, v)'
  <2>1. RRead(c) >= v => RRead(c)' >= v
    BY <1>2
  <2>. QED
    BY <1>3, <1>4, <2>1 DEF RKnown
<1>. QED
  BY <1>1, <1>2, <1>3, <1>4

\* On its way down the column a read keeps what it has and will find the rest.
LEMMA RWillStays ==
  ASSUME Register!TypeOK, RControlInv, RCellInv, RRowInv, Register!TypeOK',
         NEW t \in Register!Threads, Register!Thread(t), NEW u \in Register!Threads, NEW v \in Nat
  PROVE  /\ u # t /\ RWill(u, v) => RWill(u, v)'
         /\ pc[t] = "own" /\ (RKnown(t, v) \/ RKnows(t, v)) => RWill(t, v)'
         /\ pc[t] = "column" /\ RWill(t, v) => IF pc'[t] = "column" THEN RWill(t, v)' ELSE val'[t] >= v
<1>1. \A x \in Register!Threads : x # u => /\ RTold(x, u)' >= RTold(x, u)
                                           /\ RTold(x, u) \in Nat /\ RTold(x, u)' \in Nat
  BY RGrows, RNumbers DEF RTold, Register!TypeOK
<1>2. \A x \in Register!Threads : x # t => /\ RTold(x, t)' >= RTold(x, t)
                                           /\ RTold(x, t) \in Nat /\ RTold(x, t)' \in Nat
  BY RGrows, RNumbers DEF RTold, Register!TypeOK
<1>3. ASSUME u # t, RWill(u, v) PROVE RWill(u, v)'
  BY <1>1, <1>3, ROthersStay DEF RWill
<1>4. ASSUME pc[t] = "own", RKnown(t, v) \/ RKnows(t, v) PROVE RWill(t, v)'
  <2>1. i'[t] = 0 /\ val'[t] = RVisible(t, t)
    BY <1>4, RSteps DEF RStarts, RGoes, RReturns
  <2>2. RVisible(t, t) >= RRead(t) /\ RVisible(t, t) \in Nat /\ RRead(t) \in Nat
    BY RNumbers DEF RRowInv, ROwn
  <2>3. val'[t] >= v \/ RToldBy(t, v)
    BY <1>4, <2>1, <2>2 DEF RKnown, RKnows
  <2>4. CASE val'[t] >= v
    BY <2>4 DEF RWill
  <2>5. CASE RToldBy(t, v)
    <3>1. PICK x \in Register!Threads : x # t /\ RTold(x, t) >= v
      BY <2>5 DEF RToldBy
    <3>2. RTold(x, t)' >= v /\ i'[t] <= x
      BY <1>2, <2>1, <3>1, RBasics
    <3>. QED
      BY <3>1, <3>2 DEF RWill
  <2>. QED
    BY <2>3, <2>4, <2>5
<1>5. ASSUME pc[t] = "column", RWill(t, v)
      PROVE  IF pc'[t] = "column" THEN RWill(t, v)' ELSE val'[t] >= v
  <2>1. \/ /\ pc'[t] = "column" /\ i[t] < N /\ i'[t] = i[t] + 1
           /\ val'[t] = IF val[t] > RVisible(i[t], t) THEN val[t] ELSE RVisible(i[t], t)
        \/ pc'[t] = "load" /\ i[t] = N /\ val'[t] = val[t]
    BY <1>5, RSteps DEF RStarts, RGoes, RReturns
  <2>2. val[t] \in Nat /\ i[t] \in Int /\ 0 <= i[t]
    BY RNumbers
  <2>3. CASE pc'[t] = "load"
    <3>1. \A x \in Register!Threads : ~ (i[t] <= x)
      BY <2>1, <2>3, RBasics
    <3>. QED
      BY <1>5, <2>1, <2>3, <3>1 DEF RWill
  <2>4. CASE pc'[t] = "column"
    <3>1. i[t] \in Register!Threads /\ RVisible(i[t], t) \in Nat
      BY <2>1, <2>2, <2>4, RBasics, RNumbers
    <3>2. val'[t] >= val[t] /\ val'[t] >= RVisible(i[t], t) /\ i'[t] = i[t] + 1 /\ val'[t] \in Nat
      BY <2>1, <2>2, <2>4, <3>1
    <3>3. CASE val[t] >= v
      <4>1. val'[t] >= v
        BY <2>2, <3>2, <3>3
      <4>. QED
        BY <2>4, <4>1 DEF RWill
    <3>4. CASE \E x \in Register!Threads : i[t] <= x /\ x # t /\ RTold(x, t) >= v
      <4>1. PICK x \in Register!Threads : i[t] <= x /\ x # t /\ RTold(x, t) >= v
        BY <3>4
      <4>2. CASE x = i[t]
        <5>1. RVisible(i[t], t) = RTold(x, t)
          BY <3>1, <4>1, <4>2, RCellIsAtomic
        <5>2. val'[t] >= v
          BY <1>2, <3>1, <3>2, <4>1, <5>1
        <5>. QED
          BY <2>4, <5>2 DEF RWill
      <4>3. CASE x # i[t]
        <5>1. i'[t] <= x /\ RTold(x, t)' >= v
          BY <1>2, <2>2, <3>2, <4>1, <4>3, RBasics
        <5>. QED
          BY <2>4, <4>1, <5>1 DEF RWill
      <4>. QED
        BY <4>2, <4>3
    <3>. QED
      BY <1>5, <3>3, <3>4 DEF RWill
  <2>. QED
    BY <2>1, <2>3, <2>4
<1>. QED
  BY <1>3, <1>4, <1>5

LEMMA RPrimedNumbers ==
  ASSUME Register!TypeOK'
  PROVE  /\ lastStamp' \in Nat /\ finished' \in Nat
         /\ \A t \in Register!Threads :
              /\ val'[t] \in Nat /\ floor'[t] \in Nat /\ result'[t] \in Nat
              /\ i'[t] \in Int /\ 0 <= i'[t] /\ i'[t] <= N
         /\ \A r, c \in Register!Threads : RTold(r, c)' \in Nat /\ RVisible(r, c)' \in Nat
<1>1. ASSUME NEW t \in Register!Threads
      PROVE  /\ val'[t] \in 0 .. lastStamp' /\ floor'[t] \in 0 .. lastStamp'
             /\ result'[t] \in 0 .. lastStamp' /\ i'[t] \in 0 .. N
  BY DEF Register!TypeOK
<1>2. ASSUME NEW r \in Register!Threads, NEW c \in Register!Threads
      PROVE  RTold(r, c)' \in Nat /\ RVisible(r, c)' \in Nat
  <2>1. cell'[<<r, c>>] \in [r_value : [stamp : Nat, value : 0 .. lastStamp'], lastStamp : Nat,
                             lastRead : [stamp : Nat, value : 0 .. lastStamp']]
    BY DEF Register!TypeOK
  <2>2. /\ cell'[<<r, c>>].r_value.value \in 0 .. lastStamp'
        /\ cell'[<<r, c>>].lastRead.value \in 0 .. lastStamp'
    BY <2>1
  <2>. QED
    BY <2>2 DEF RTold, RVisible, Register!SRSWRead
<1>3. lastStamp' \in Nat /\ finished' \in Nat
  BY DEF Register!TypeOK
<1>4. N \in Int
  BY RBasics
<1>5. ASSUME NEW t \in Register!Threads
      PROVE  /\ val'[t] \in Nat /\ floor'[t] \in Nat /\ result'[t] \in Nat
             /\ i'[t] \in Int /\ 0 <= i'[t] /\ i'[t] <= N
  BY <1>1, <1>3, <1>4
<1>. QED
  BY <1>2, <1>3, <1>5

\* What holds of the rows holds after every step.
LEMMA ROwnNext ==
  ASSUME Register!TypeOK, RControlInv, RCellInv, RRowInv, Register!TypeOK', RControlInv',
         NEW t \in Register!Threads, Register!Thread(t), NEW u \in Register!Threads
  PROVE  ROwn(u)'
<1>1. /\ RVisible(u, u) >= RRead(u)
      /\ pc[u] = "column" \/ RRow(u) => val[u] >= RRead(u) /\ RKnown(u, val[u])
  BY DEF RRowInv, ROwn
<1>2. /\ RVisible(u, u) \in Nat /\ RRead(u) \in Nat /\ val[u] \in Nat /\ lastStamp \in Nat
      /\ RRead(u) <= lastStamp
  BY RNumbers
<1>3. RVisible(u, u)' >= RRead(u)'
  <2>1. CASE pc[t] = "value" /\ Register!Target(t) = <<u, u>>
    <3>1. ~ RReads(t, u, u)
      BY <2>1 DEF RReads
    <3>2. RRead(u)' = RRead(u) /\ (RVisible(u, u)' = val[t] \/ RVisible(u, u)' = RRead(u))
      BY <2>1, <3>1, RShows
    <3>3. val[t] >= RRead(u)
      BY <1>2, <2>1, RStores
    <3>. QED
      BY <1>2, <3>2, <3>3
  <2>2. CASE ~ (pc[t] = "value" /\ Register!Target(t) = <<u, u>>)
    <3>1. RVisible(u, u)' = RVisible(u, u) /\ (RRead(u)' = RRead(u) \/ RRead(u)' = RVisible(u, u))
      BY <2>2, RShows
    <3>. QED
      BY <1>1, <1>2, <3>1
  <2>. QED
    BY <2>1, <2>2
<1>5. /\ val'[u] \in Nat /\ RVisible(u, u)' \in Nat
      /\ \A x \in Register!Threads : RTold(x, u)' \in Nat
  BY RPrimedNumbers
<1>6. PICK w \in Nat : w = val'[u]
  BY <1>5
<1>7. PICK v \in Nat : v = val[u]
  BY <1>2
<1>8. ASSUME RKnown(u, w)' PROVE RKnown(u, val[u])'
  BY <1>6, <1>8 DEF RKnown, RToldBy
<1>9. ASSUME RKnown(u, val[u]) PROVE RKnown(u, v)'
  BY <1>7, <1>9, RGrows
<1>4. ASSUME pc'[u] = "column" \/ RRow(u)' PROVE val'[u] >= RRead(u)' /\ RKnown(u, w)'
  <2>1. CASE u # t
    <3>1. /\ val'[u] = val[u] /\ RRead(u)' = RRead(u) /\ (pc[u] = "column" \/ RRow(u))
      BY <1>4, <2>1, ROthersStay, RGrows DEF RRow, RReading, Register!During
    <3>. QED
      BY <1>1, <1>2, <1>6, <1>7, <1>9, <3>1
  <2>2. CASE u = t
    <3>1. CASE pc[t] = "own"
      <4>1. val'[t] = RVisible(t, t) /\ RReads(t, t, t)
        BY <3>1, RSteps DEF RStarts, RGoes, RReturns, RReads
      <4>2. RRead(t)' = val'[t] /\ val'[t] \in Nat
        BY <1>2, <2>2, <4>1, RShows
      <4>3. RKnown(u, w)'
        BY <1>6, <2>2, <4>2 DEF RKnown
      <4>. QED
        BY <2>2, <4>2, <4>3
    <3>2. CASE pc[t] = "column" /\ pc'[t] = "column"
      <4>1. /\ i[t] < N /\ val'[t] = IF val[t] > RVisible(i[t], t) THEN val[t] ELSE RVisible(i[t], t)
        BY <3>2, RSteps DEF RStarts, RGoes, RReturns
      <4>2. i[t] \in Register!Threads
        BY <4>1, RNumbers, RBasics
      <4>3. val[t] >= RRead(t) /\ RKnown(u, v)' /\ v = val[t]
        BY <1>1, <1>7, <1>9, <2>2, <3>2
      <4>4. CASE i[t] = t
        <5>1. RRead(t)' = RVisible(t, t)
          BY <3>2, <4>1, <4>4, RShows DEF RReads
        <5>2. val'[t] = val[t] \/ val'[t] = RRead(t)'
          BY <4>1, <4>4, <5>1
        <5>3. RVisible(t, t) \in Nat /\ val[t] \in Nat
          BY <1>2, <2>2
        <5>4. RKnown(u, w)'
          BY <1>6, <2>2, <4>3, <5>1, <5>2, <5>3 DEF RKnown
        <5>. QED
          BY <2>2, <4>1, <4>4, <5>1, <5>3, <5>4
      <4>5. CASE i[t] # t
        <5>1. RRead(t)' = RRead(t)
          BY <3>2, <4>5, RShows DEF RReads
        <5>2. PICK k \in Register!Threads : k = i[t]
          BY <4>2
        <5>3. RVisible(k, t) = RTold(k, t) /\ RTold(k, t) \in Nat /\ RTold(k, t)' >= RTold(k, t)
          BY <4>5, <5>2, RCellIsAtomic, RGrows, RNumbers
        <5>4. ASSUME w = RTold(k, t) PROVE RToldBy(u, w)'
          BY <2>2, <4>5, <5>2, <5>3, <5>4 DEF RToldBy
        <5>5. RKnown(u, w)'
          BY <1>6, <2>2, <4>1, <4>3, <5>2, <5>3, <5>4 DEF RKnown
        <5>. QED
          BY <1>2, <1>6, <2>2, <4>1, <4>3, <5>1, <5>2, <5>3, <5>5
      <4>. QED
        BY <4>4, <4>5
    <3>3. CASE pc[t] \in {"column", "load", "value", "stamp"} /\ pc'[t] # "column"
      <4>1. /\ val'[t] = val[t] /\ op' = op /\ (pc[t] = "column" => i[t] = N)
        BY <1>4, <2>2, <3>3, RSteps DEF RStarts, RGoes, RReturns, RRow, RReading, Register!During
      <4>2. pc[t] = "column" \/ RRow(t)
        BY <1>4, <2>2, <3>3, <4>1 DEF RRow, RReading, Register!During
      <4>3. RRead(t)' = RRead(t)
        BY <3>3, <4>1, RShows, RBasics DEF RReads
      <4>. QED
        BY <1>1, <1>2, <1>6, <1>7, <1>9, <2>2, <4>1, <4>2, <4>3
    <3>4. pc[t] # "idle"
      BY <1>4, <2>2, RSteps DEF RStarts, RGoes, RReturns, RRow, RReading, Register!During
    <3>5. pc[t] = "load" \/ pc[t] = "value" \/ pc[t] = "stamp" => pc'[t] # "column"
      BY RSteps DEF RStarts, RGoes, RReturns
    <3>6. pc[t] \in {"own", "column", "load", "value", "stamp"}
      BY <3>4 DEF Register!TypeOK
    <3>. QED
      BY <3>1, <3>2, <3>3, <3>5, <3>6
  <2>. QED
    BY <2>1, <2>2
<1>. QED
  BY <1>3, <1>4, <1>8 DEF ROwn

LEMMA RRowsNext ==
  ASSUME Register!TypeOK, RControlInv, RCellInv, RRowInv, Register!TypeOK', RControlInv',
         NEW t \in Register!Threads, Register!Thread(t), NEW u \in Register!Threads,
         NEW c \in Register!Threads
  PROVE  RRows(u, c)'
<1>1. SUFFICES ASSUME u # c PROVE RRows(u, c)'
  BY DEF RRows
<1>2. /\ RKnown(u, RTold(u, c))
      /\ pc[u] = "column" => RWill(u, RTold(u, c))
      /\ RRow(u) => val[u] >= RTold(u, c)
      /\ RRow(u) /\ (c < i[u] \/ (c = i[u] /\ pc[u] = "stamp")) => RTold(u, c) = val[u]
      /\ RRow(u) => RKnown(u, val[u])
  BY <1>1 DEF RRowInv, RRows, ROwn
<1>3. RTold(u, c) \in Nat /\ val[u] \in Nat
  BY RNumbers
<1>6. PICK v \in Nat : v = RTold(u, c)
  BY <1>3
<1>7. PICK w \in Nat : w = val[u]
  BY <1>3
<1>8. /\ RTold(u, c)' = v /\ RKnown(u, v)' => RKnown(u, RTold(u, c))'
      /\ RTold(u, c)' = w /\ RKnown(u, w)' => RKnown(u, RTold(u, c))'
      /\ RTold(u, c)' = v /\ RWill(u, v)' => RWill(u, RTold(u, c))'
  BY DEF RKnown, RToldBy, RWill
<1>4. CASE pc[t] = "value" /\ Register!Target(t) = <<u, c>>
  <2>1. i[t] = c /\ t = u /\ RRow(t) /\ RTold(u, c)' = val[u]
    BY <1>1, <1>4, RStores, RShows
  <2>2. pc'[t] = "stamp" /\ val'[t] = val[t]
    BY <1>4, RSteps DEF RStarts, RGoes, RReturns
  <2>3. RKnown(u, w)'
    BY <1>2, <1>7, <2>1, RGrows
  <2>. QED
    BY <1>3, <1>7, <1>8, <2>1, <2>2, <2>3 DEF RRows
<1>5. CASE ~ (pc[t] = "value" /\ Register!Target(t) = <<u, c>>)
  <2>1. RTold(u, c)' = RTold(u, c)
    BY <1>5, RShows
  <2>2. RKnown(u, RTold(u, c))'
    BY <1>2, <1>6, <1>8, <2>1, RGrows
  <2>3. CASE u # t
    <3>1. pc'[u] = pc[u] /\ val'[u] = val[u] /\ i'[u] = i[u] /\ (RRow(u)' <=> RRow(u))
      BY <2>3, ROthersStay DEF RRow, RReading, Register!During
    <3>2. RWill(u, RTold(u, c)) => RWill(u, RTold(u, c))'
      BY <1>6, <1>8, <2>1, <2>3, RWillStays
    <3>. QED
      BY <1>2, <2>1, <2>2, <3>1, <3>2 DEF RRows
  <2>4. CASE u = t
    <3>1. CASE pc[t] = "idle"
      <4>1. pc'[t] # "column" /\ ~ RRow(t)'
        BY <3>1, RSteps DEF RStarts, RGoes, RReturns, RRow, RReading, Register!During
      <4>. QED
        BY <2>1, <2>2, <2>4, <4>1 DEF RRows
    <3>2. CASE pc[t] = "own"
      <4>1. pc'[t] = "column" /\ ~ RRow(t)'
        BY <3>2, RSteps DEF RStarts, RGoes, RReturns, RRow
      <4>2. RWill(u, RTold(u, c))'
        BY <1>2, <1>6, <1>8, <2>1, <2>4, <3>2, RWillStays
      <4>. QED
        BY <2>1, <2>2, <2>4, <4>1, <4>2 DEF RRows
    <3>3. CASE pc[t] = "column" /\ pc'[t] = "column"
      <4>1. RWill(u, RTold(u, c))' /\ ~ RRow(t)'
        <5>1. RWill(u, v)'
          BY <1>2, <1>6, <2>4, <3>3, RWillStays
        <5>. QED
          BY <1>6, <1>8, <2>1, <3>3, <5>1 DEF RRow
      <4>. QED
        BY <2>1, <2>2, <2>4, <4>1 DEF RRows
    <3>4. CASE pc[t] = "column" /\ pc'[t] # "column"
      <4>1. pc'[t] = "load" /\ i'[t] = 0 /\ val'[t] >= RTold(u, c)
        BY <1>2, <1>3, <2>4, <3>4, RWillStays, RSteps DEF RStarts, RGoes, RReturns
      <4>2. ~ (c < i'[t])
        BY <4>1, RBasics
      <4>. QED
        BY <2>1, <2>2, <2>4, <4>1, <4>2 DEF RRows
    <3>5. CASE pc[t] \in {"load", "value", "stamp"}
      <4>1. CASE RRow(t)'
        <5>1. RRow(t) /\ RGoes(t) /\ val'[t] = val[t]
          BY <3>5, <4>1, RSteps DEF RStarts, RGoes, RReturns, RRow, RReading, Register!During
        <5>2. ~ (pc[t] = "value" /\ i[t] = c)
          <6>1. op[t] = "read"
            BY <5>1 DEF RRow, RReading, Register!During
          <6>. QED
            BY <1>5, <2>4, <6>1 DEF Register!Target
        <5>3. c < i'[t] \/ (c = i'[t] /\ pc'[t] = "stamp") => c < i[t] \/ (c = i[t] /\ pc[t] = "stamp")
          <6>1. i[t] \in Int /\ c \in Int
            BY RNumbers, RBasics
          <6>. QED
            BY <3>5, <5>1, <5>2, <6>1 DEF RGoes
        <5>4. pc'[t] # "column"
          BY <4>1 DEF RRow
        <5>. QED
          BY <1>2, <2>1, <2>2, <2>4, <5>1, <5>3, <5>4 DEF RRows
      <4>2. CASE ~ RRow(t)'
        <5>1. pc'[t] # "column"
          BY <3>5, RSteps DEF RStarts, RGoes, RReturns
        <5>. QED
          BY <2>1, <2>2, <2>4, <4>2, <5>1 DEF RRows
      <4>. QED
        BY <4>1, <4>2
    <3>. QED
      BY <3>1, <3>2, <3>3, <3>4, <3>5 DEF Register!TypeOK
  <2>. QED
    BY <2>3, <2>4
<1>. QED
  BY <1>4, <1>5

LEMMA RRowNext ==
  ASSUME Register!TypeOK, RControlInv, RCellInv, RRowInv, Register!TypeOK', RControlInv',
         NEW t \in Register!Threads, Register!Thread(t)
  PROVE  RRowInv'
  BY ROwnNext, RRowsNext DEF RRowInv

\* What a tidy reader would find it finds after the step as well.
LEMMA RKnowsStays ==
  ASSUME Register!TypeOK, RControlInv, RCellInv, RRowInv, RFreshInv, Register!TypeOK',
         NEW t \in Register!Threads, Register!Thread(t), NEW u \in Register!Threads, NEW v \in Nat,
         RTidy(u), v <= lastStamp, RKnows(u, v)
  PROVE  RKnows(u, v)'
<1>1. CASE RToldBy(u, v)
  BY <1>1, RGrows DEF RKnows
<1>2. CASE RVisible(u, u) >= v
  <2>1. CASE pc[t] = "value" /\ Register!Target(t) = <<u, u>>
    <3>1. RVisible(u, u)' = val[t]
      BY <2>1, RShows
    <3>2. CASE val[t] = lastStamp
      BY <3>1, <3>2 DEF RKnows
    <3>3. CASE t = u /\ RRow(t)
      <4>1. pc[u] # "own" /\ RReading(u)
        BY <3>3 DEF RRow
      <4>2. u \notin overlapped
        BY <4>1 DEF RTidy
      <4>3. floor[u] = lastStamp
        BY <4>1, <4>2 DEF RControlInv
      <4>4. val[u] >= floor[u]
        BY <3>3 DEF RFreshInv, RFresh
      <4>5. val[u] \in Nat /\ lastStamp \in Nat
        BY RNumbers
      <4>6. val[t] >= v
        BY <3>3, <4>3, <4>4, <4>5
      <4>. QED
        BY <3>1, <4>6 DEF RKnows
    <3>. QED
      BY <2>1, <3>2, <3>3, RStores
  <2>2. CASE ~ (pc[t] = "value" /\ Register!Target(t) = <<u, u>>)
    <3>1. RVisible(u, u)' = RVisible(u, u)
      BY <2>2, RShows
    <3>. QED
      BY <1>2, <3>1 DEF RKnows
  <2>. QED
    BY <2>1, <2>2
<1>. QED
  BY <1>1, <1>2 DEF RKnows

LEMMA RFinishedNext ==
  ASSUME Register!TypeOK, RControlInv, RCellInv, RRowInv, RFreshInv, Register!TypeOK',
         NEW t \in Register!Threads, Register!Thread(t), NEW u \in Register!Threads,
         u \notin overlapped
  PROVE  RKnows(u, finished)'
<1>1. PICK v \in Nat : v = finished'
  BY RPrimedNumbers
<1>2. SUFFICES RKnows(u, v)'
  BY <1>1 DEF RKnows, RToldBy
<1>3. RTidy(u)
  BY DEF RTidy
<1>4. finished \in Nat /\ finished <= lastStamp /\ val[t] \in Nat /\ val[t] <= lastStamp
  BY RNumbers
<1>5. CASE v = finished
  <2>1. RKnows(u, v)
    BY <1>5 DEF RFreshInv, RFresh
  <2>. QED
    BY <1>3, <1>4, <1>5, <2>1, RKnowsStays
<1>6. CASE v # finished
  <2>1. RReturns(t)
    BY <1>1, <1>6, RSteps
  <2>2. v = val[t] /\ pc[t] = "load" /\ i[t] = N
    BY <1>1, <1>6, <2>1 DEF RReturns
  <2>3. u < i[t]
    BY <2>2, RBasics
  <2>4. CASE op[t] = "write"
    <3>1. t = 0 /\ RWriting /\ val[t] = lastStamp
      BY <2>2, <2>4 DEF RControlInv, RWriting, Register!During
    <3>2. RVisible(u, u) = lastStamp
      BY <2>3, <3>1 DEF RFreshInv, RFresh
    <3>3. RKnows(u, v)
      BY <1>4, <2>2, <3>1, <3>2 DEF RKnows
    <3>. QED
      BY <1>3, <1>4, <2>2, <3>3, RKnowsStays
  <2>5. CASE op[t] # "write"
    <3>1. RRow(t)
      BY <2>2, <2>5 DEF RControlInv, RRow, RReading, Register!During, Register!TypeOK
    <3>2. CASE u = t
      <4>1. RKnown(u, v) /\ RVisible(u, u) >= RRead(u)
        BY <2>2, <3>1, <3>2 DEF RRowInv, ROwn
      <4>2. RVisible(u, u) \in Nat /\ RRead(u) \in Nat
        BY RNumbers
      <4>3. RKnows(u, v)
        BY <4>1, <4>2 DEF RKnown, RKnows
      <4>. QED
        BY <1>3, <1>4, <2>2, <4>3, RKnowsStays
    <3>3. CASE u # t
      <4>1. RTold(t, u) = v
        BY <2>2, <2>3, <3>1, <3>3 DEF RRowInv, RRows
      <4>2. RKnows(u, v)
        BY <3>3, <4>1 DEF RKnows, RToldBy
      <4>. QED
        BY <1>3, <1>4, <2>2, <4>2, RKnowsStays
    <3>. QED
      BY <3>2, <3>3
  <2>. QED
    BY <2>4, <2>5
<1>. QED
  BY <1>5, <1>6

LEMMA RWriterNext ==
  ASSUME Register!TypeOK, RControlInv, RCellInv, RRowInv, RFreshInv, Register!TypeOK', RControlInv',
         NEW t \in Register!Threads, Register!Thread(t), NEW u \in Register!Threads,
         u \notin overlapped, RWriting', u < i'[0] \/ (u = i'[0] /\ pc'[0] = "stamp")
  PROVE  RVisible(u, u)' = lastStamp'
<1>1. RTidy(u)
  BY DEF RTidy
<1>2. i[0] \in Int /\ u \in Int /\ u >= 0
  BY RNumbers, RBasics
<1>3. CASE t = 0
  <2>1. pc'[0] # "idle" /\ op'[0] = "write"
    BY DEF RWriting, Register!During
  <2>2. RGoes(t) /\ op' = op /\ lastStamp' = lastStamp
    BY <1>2, <1>3, <2>1, RSteps DEF RStarts, RReturns
  <2>3. RWriting /\ val[0] = lastStamp
    BY <1>3, <2>1, <2>2 DEF RGoes, RWriting, Register!During, RControlInv
  <2>4. pc[0] \in {"load", "value", "stamp"}
    BY <1>3, <2>1, <2>2, RBasics DEF RGoes, RControlInv
  <2>5. CASE pc[0] = "value" /\ i[0] = u
    <3>1. Register!Target(0) = <<u, u>>
      BY <2>1, <2>2, <2>5 DEF Register!Target
    <3>. QED
      BY <1>1, <1>3, <2>2, <2>3, <2>5, <3>1, RShows
  <2>6. CASE ~ (pc[0] = "value" /\ i[0] = u)
    <3>1. u < i[0] \/ (u = i[0] /\ pc[0] = "stamp")
      BY <1>2, <1>3, <2>2, <2>4, <2>6 DEF RGoes
    <3>2. RVisible(u, u) = lastStamp
      BY <2>3, <3>1 DEF RFreshInv, RFresh
    <3>3. ~ (pc[t] = "value" /\ Register!Target(t) = <<u, u>>)
      BY <1>3, <2>1, <2>2, <2>6 DEF Register!Target
    <3>. QED
      BY <2>2, <3>2, <3>3, RShows
  <2>. QED
    BY <2>5, <2>6
<1>4. CASE t # 0
  <2>1. pc'[0] = pc[0] /\ op'[0] = op[0] /\ i'[0] = i[0]
    BY <1>4, ROthersStay, RBasics
  <2>2. RWriting
    BY <2>1 DEF RWriting, Register!During
  <2>3. RVisible(u, u) = lastStamp
    BY <2>1, <2>2 DEF RFreshInv, RFresh
  <2>4. lastStamp' = lastStamp
    BY <1>4, RSteps DEF RStarts, RControlInv
  <2>5. ~ (pc[t] = "value" /\ Register!Target(t) = <<u, u>>)
    <3>1. ASSUME pc[t] = "value", Register!Target(t) = <<u, u>> PROVE FALSE
      <4>1. t = u /\ RRow(t)
        BY <1>4, <3>1, RStores
      <4>. QED
        BY <2>2, <4>1 DEF RRow, RControlInv
    <3>. QED
      BY <3>1
  <2>. QED
    BY <2>3, <2>4, <2>5, RShows
<1>. QED
  BY <1>3, <1>4

LEMMA RReaderNext ==
  ASSUME Register!TypeOK, RControlInv, RCellInv, RRowInv, RFreshInv, Register!TypeOK',
         NEW t \in Register!Threads, Register!Thread(t), NEW u \in Register!Threads
  PROVE  /\ pc'[u] = "own" => floor'[u] = 0 \/ RKnows(u, floor[u])'
         /\ pc'[u] = "column" => RWill(u, floor[u])'
         /\ RRow(u)' => val'[u] >= floor'[u]
         /\ pc'[u] = "idle" /\ op'[u] = "read" => result'[u] >= floor'[u]
<1>1. PICK f \in Nat : f = floor'[u]
  BY RPrimedNumbers
<1>2. /\ RKnows(u, f)' => RKnows(u, floor[u])'
      /\ RWill(u, f)' => RWill(u, floor[u])'
  BY <1>1 DEF RKnows, RToldBy, RWill
<1>3. /\ pc[u] = "own" => floor[u] = 0 \/ RKnows(u, floor[u])
      /\ pc[u] = "column" => RWill(u, floor[u])
      /\ RRow(u) => val[u] >= floor[u]
      /\ pc[u] = "idle" /\ op[u] = "read" => result[u] >= floor[u]
  BY DEF RFreshInv, RFresh
<1>4. floor[u] \in Nat /\ floor[u] <= lastStamp
  BY RNumbers
<1>5. CASE u # t
  <2>1. /\ pc'[u] = pc[u] /\ op'[u] = op[u] /\ i'[u] = i[u] /\ val'[u] = val[u]
        /\ result'[u] = result[u] /\ floor'[u] = floor[u] /\ (RRow(u)' <=> RRow(u))
    BY <1>5, ROthersStay DEF RRow, RReading, Register!During
  <2>2. ASSUME pc'[u] = "own", floor'[u] # 0 PROVE RKnows(u, f)'
    <3>1. RTidy(u) /\ RKnows(u, f)
      BY <1>1, <1>3, <1>4, <2>1, <2>2 DEF RTidy
    <3>. QED
      BY <1>1, <1>4, <2>1, <3>1, RKnowsStays
  <2>3. pc'[u] = "column" => RWill(u, f)'
    BY <1>1, <1>3, <1>5, <2>1, RWillStays
  <2>. QED
    BY <1>2, <1>3, <2>1, <2>2, <2>3
<1>6. CASE u = t
  <2>1. CASE pc[t] = "idle"
    <3>1. RStarts(t)
      BY <2>1, RSteps DEF RGoes, RReturns
    <3>2. CASE pc'[t] = "own"
      <4>1. floor'[t] = IF t \in overlapped THEN 0 ELSE finished
        BY <3>1, <3>2 DEF RStarts
      <4>2. finished' = finished
        BY <2>1, RSteps DEF RGoes, RReturns
      <4>3. t \notin overlapped => RKnows(u, f)'
        <5>1. ASSUME t \notin overlapped PROVE RKnows(u, finished)' /\ f = finished'
          BY <1>1, <1>6, <4>1, <4>2, <5>1, RFinishedNext
        <5>. QED
          BY <5>1 DEF RKnows, RToldBy
      <4>. QED
        BY <1>2, <1>6, <3>2, <4>1, <4>3 DEF RRow
    <3>3. CASE pc'[t] # "own"
      <4>1. pc'[t] = "load" /\ op'[t] = "write"
        BY <3>1, <3>3 DEF RStarts
      <4>. QED
        BY <1>6, <4>1 DEF RRow, RReading, Register!During
    <3>. QED
      BY <3>2, <3>3
  <2>2. CASE pc[t] = "own"
    <3>1. pc'[t] = "column" /\ floor' = floor /\ val'[t] = RVisible(t, t) /\ RVisible(t, t) \in Nat
      BY <2>2, RSteps, RNumbers DEF RStarts, RGoes, RReturns
    <3>2. CASE floor[u] = 0
      <4>1. RWill(u, f)'
        BY <1>1, <1>6, <3>1, <3>2 DEF RWill
      <4>. QED
        BY <1>2, <1>6, <3>1, <4>1 DEF RRow
    <3>3. CASE RKnows(u, floor[u])
      <4>1. RWill(t, f)'
        BY <1>1, <1>6, <2>2, <3>1, <3>3, RWillStays
      <4>. QED
        BY <1>2, <1>6, <3>1, <4>1 DEF RRow
    <3>. QED
      BY <1>3, <1>6, <2>2, <3>2, <3>3
  <2>3. CASE pc[t] = "column"
    <3>1. pc'[t] \in {"column", "load"} /\ floor' = floor
      BY <2>3, RSteps DEF RStarts, RGoes, RReturns
    <3>2. RWill(t, f)
      BY <1>1, <1>3, <1>6, <2>3, <3>1
    <3>3. IF pc'[t] = "column" THEN RWill(t, f)' ELSE val'[t] >= f
      BY <2>3, <3>2, RWillStays
    <3>. QED
      BY <1>1, <1>2, <1>6, <3>1, <3>3 DEF RRow
  <2>4. CASE pc[t] \in {"load", "value", "stamp"}
    <3>1. /\ pc'[t] \in {"load", "value", "stamp", "idle"} /\ floor' = floor /\ op' = op
          /\ pc'[t] # "idle" => val'[t] = val[t]
          /\ pc'[t] = "idle" /\ op[t] = "read" => result'[t] = val[t]
      BY <2>4, RSteps DEF RStarts, RGoes, RReturns
    <3>2. op[t] = "read" => val[t] >= floor[t]
      BY <1>3, <1>6, <2>4 DEF RRow, RReading, Register!During
    <3>. QED
      BY <1>6, <3>1, <3>2 DEF RRow, RReading, Register!During
  <2>. QED
    BY <2>1, <2>2, <2>3, <2>4 DEF Register!TypeOK
<1>. QED
  BY <1>5, <1>6

LEMMA RFreshNext ==
  ASSUME Register!TypeOK, RControlInv, RCellInv, RRowInv, RFreshInv, Register!TypeOK', RControlInv',
         NEW t \in Register!Threads, Register!Thread(t)
  PROVE  RFreshInv'
<1>1. SUFFICES ASSUME NEW u \in Register!Threads PROVE RFresh(u)'
  BY DEF RFreshInv
<1>2. u \notin overlapped' => u \notin overlapped
  BY RSteps DEF RStarts
<1>3. u \notin overlapped' => RKnows(u, finished)'
  BY <1>2, RFinishedNext
<1>4. u \notin overlapped' /\ RWriting' /\ (u < i'[0] \/ (u = i'[0] /\ pc'[0] = "stamp"))
        => RVisible(u, u)' = lastStamp'
  BY <1>2, RWriterNext
<1>. QED
  BY <1>3, <1>4, RReaderNext DEF RFresh

LEMMA ROwnWritesNext ==
  ASSUME Register!TypeOK, RControlInv, RFreshInv, Register!ReadsOwnWrites,
         NEW t \in Register!Threads, Register!Thread(t)
  PROVE  Register!ReadsOwnWrites'
<1>1. SUFFICES ASSUME pc'[0] = "idle", op'[0] = "read" PROVE result'[0] = lastStamp'
  BY RBasics DEF Register!ReadsOwnWrites
<1>2. 0 \in Register!Threads
  BY RBasics
<1>3. CASE t # 0
  <2>1. pc'[0] = pc[0] /\ op'[0] = op[0] /\ result'[0] = result[0]
    BY <1>2, <1>3, ROthersStay
  <2>2. lastStamp' = lastStamp
    <3>1. left[t].write = 0
      BY <1>3 DEF RControlInv
    <3>. QED
      BY <3>1, RSteps DEF RStarts
  <2>. QED
    BY <1>1, <2>1, <2>2, RBasics DEF Register!ReadsOwnWrites
<1>4. CASE t = 0
  <2>1. RReturns(t) /\ op' = op /\ lastStamp' = lastStamp
    BY <1>1, <1>4, RSteps DEF RStarts, RGoes
  <2>2. pc[0] = "load" /\ op[0] = "read" /\ result'[0] = val[0]
    BY <1>1, <1>4, <2>1 DEF RReturns
  <2>3. RRow(0) /\ RReading(0)
    BY <2>2 DEF RRow, RReading, Register!During
  <2>4. floor[0] = lastStamp /\ val[0] >= floor[0]
    BY <1>2, <2>3 DEF RControlInv, RFreshInv, RFresh
  <2>5. val[0] \in Nat /\ val[0] <= lastStamp /\ lastStamp \in Nat
    BY <1>2, RNumbers
  <2>. QED
    BY <2>1, <2>2, <2>4, <2>5
<1>. QED
  BY <1>3, <1>4

LEMMA RInit == Init => RInv
<1>. SUFFICES ASSUME Init PROVE RInv
  OBVIOUS
<1>1. Register!Init
  BY DEF Init
<1>2. PICK r \in Reads : left = [t \in Register!Threads |->
                            [read |-> r[t + 1], write |-> IF t = 0 THEN Writes ELSE 0]]
  BY <1>1 DEF Register!Init, Register!Writer
<1>3. r \in Seq(Nat) /\ Len(r) = N
  BY ReadsAssumption
<1>4. \A t \in Register!Threads : r[t + 1] \in Nat
  BY <1>3, RBasics
<1>5. left \in [Register!Threads -> [read : Nat, write : 0 .. Writes]]
  <2>1. \A t \in Register!Threads : (IF t = 0 THEN Writes ELSE 0) \in 0 .. Writes
    BY RBasics
  <2>. QED
    BY <1>2, <1>4, <2>1
<1>6. cell = [c \in Register!Threads \X Register!Threads |->
                [r_value |-> [stamp |-> 1, value |-> 0], lastStamp |-> 1,
                 lastRead |-> [stamp |-> 0, value |-> 0]]]
  BY <1>1 DEF Register!Init, Register!SV
<1>7. /\ lastStamp = 0 /\ finished = 0 /\ overlapped = {}
      /\ op = [t \in Register!Threads |-> "none"] /\ pc = [t \in Register!Threads |-> "idle"]
      /\ i = [t \in Register!Threads |-> 0] /\ val = [t \in Register!Threads |-> 0]
      /\ st = [t \in Register!Threads |-> 0] /\ result = [t \in Register!Threads |-> 0]
      /\ floor = [t \in Register!Threads |-> 0]
  BY <1>1 DEF Register!Init
<1>8. Register!TypeOK
  <2>1. 0 \in 0 .. 0 /\ 0 \in 0 .. N /\ 0 \in 0 .. Writes /\ 0 \in Nat /\ 1 \in Nat
    BY RBasics
  <2>. QED
    BY <1>5, <1>6, <1>7, <2>1 DEF Register!TypeOK
<1>9. \A t \in Register!Threads : ~ RReading(t) /\ ~ RRow(t) /\ pc[t] = "idle" /\ op[t] = "none"
                                  /\ floor[t] = 0
  BY <1>7 DEF RReading, RRow, Register!During
<1>10. ~ RWriting /\ left[0].write = Writes /\ \A t \in Register!Threads : t # 0 => left[t].write = 0
  BY <1>2, <1>9, RBasics DEF RWriting, Register!During
<1>11. \A x, c \in Register!Threads : RTold(x, c) = 0 /\ RVisible(x, c) = 0 /\ RRead(c) = 0
  BY <1>6 DEF RTold, RVisible, RRead, Register!SRSWRead
<1>12. RControlInv
  BY <1>7, <1>9, <1>10, RBasics DEF RControlInv
<1>13. RCellInv
  BY <1>6, <1>9 DEF RCellInv, RCell, RAt
<1>14. RRowInv
  BY <1>9, <1>11 DEF RRowInv, ROwn, RRows, RKnown
<1>15. RFreshInv
  BY <1>7, <1>9, <1>10, <1>11 DEF RFreshInv, RFresh, RKnows
<1>. QED
  BY <1>8, <1>9, <1>12, <1>13, <1>14, <1>15, RBasics DEF RInv, Register!ReadsOwnWrites

LEMMA RNext ==
  RInv /\ [Next]_<<object, registerVars, sharedVars, snapVars>> => RInv'
<1>. SUFFICES ASSUME RInv, Next \/ UNCHANGED <<object, registerVars, sharedVars, snapVars>>
              PROVE  RInv'
  OBVIOUS
<1>1. /\ Register!TypeOK /\ RControlInv /\ RCellInv /\ RRowInv /\ RFreshInv
      /\ Register!ReadsOwnWrites
  BY DEF RInv
<1>2. ASSUME NEW t \in Register!Threads, Register!Thread(t) PROVE RInv'
  <2>1. Register!TypeOK'
    BY <1>1, <1>2, RTypeNext
  <2>2. RControlInv'
    BY <1>1, <1>2, <2>1, RControlNext
  <2>3. RCellInv' /\ RRowInv'
    BY <1>1, <1>2, <2>1, <2>2, RCellNext, RRowNext
  <2>4. RFreshInv' /\ Register!ReadsOwnWrites'
    BY <1>1, <1>2, <2>1, <2>2, RFreshNext, ROwnWritesNext
  <2>. QED
    BY <2>1, <2>2, <2>3, <2>4 DEF RInv
<1>3. ASSUME UNCHANGED registerVars PROVE RInv'
  <2>1. Register!TypeOK'
    BY <1>1, <1>3 DEF registerVars, Register!TypeOK
  <2>2. RControlInv'
    BY <1>1, <1>3 DEF registerVars, RControlInv, RReading, RWriting, Register!During
  <2>3. RCellInv'
    <3>1. /\ cell' = cell /\ pc' = pc /\ st' = st /\ i' = i /\ op' = op
          /\ overlapped' = overlapped /\ floor' = floor
      BY <1>3 DEF registerVars
    <3>2. ASSUME NEW r \in Register!Threads, NEW c \in Register!Threads, r # c \/ RTidy(r)'
          PROVE  RCell(r, c)'
      <4>1. RCell(r, c)
        BY <1>1, <3>1, <3>2 DEF RCellInv, RTidy
      <4>2. \A u \in Register!Threads : RAt(u, r, c)' <=> RAt(u, r, c)
        BY <3>1 DEF RAt, Register!Target
      <4>. QED
        BY <3>1, <4>1, <4>2 DEF RCell
    <3>. QED
      BY <3>2 DEF RCellInv
  <2>4. RRowInv'
    BY <1>1, <1>3 DEF registerVars, RRowInv, ROwn, RRows, RRow, RReading, Register!During,
       RKnown, RWill, RToldBy, RTold, RRead, RVisible, Register!SRSWRead
  <2>5. RFreshInv'
    BY <1>1, <1>3 DEF registerVars, RFreshInv, RFresh, RRow, RReading, RWriting, Register!During,
       RKnows, RWill, RToldBy, RTold, RVisible, Register!SRSWRead
  <2>6. Register!ReadsOwnWrites'
    BY <1>1, <1>3 DEF registerVars, Register!ReadsOwnWrites
  <2>. QED
    BY <2>1, <2>2, <2>3, <2>4, <2>5, <2>6 DEF RInv
<1>. QED
  BY <1>2, <1>3, RMoveOn

LEMMA RInvImpliesSafety ==
  ASSUME RInv PROVE Register!Safety /\ Register!ReadsAreFresh
<1>1. Register!SingleWriterCells
  BY RCellIsAtomic DEF RInv, Register!SingleWriterCells
<1>2. Register!ReadsAreFresh
  BY DEF RInv, RFreshInv, RFresh, Register!ReadsAreFresh
<1>. QED
  BY <1>1, <1>2 DEF RInv, Register!Safety

\* At every moment of a run of the register one thread writes (x.cpp), what
\* others told a thread along their rows it reads again or more, cells have
\* the stamps their single writer gave them, and what is finished is known to
\* all threads none of whose reads overlapped a write.
THEOREM RegisterInvariant == Spec => []RInv
  BY RInit, RNext, PTL DEF Spec

-----------------------------------------------------------------------------
(* The register everybody writes.  A thread that never read register r     *)
(* while it was written finds the last write of r on its own cell of the   *)
(* diagonal whenever it reads: so what it reads of r is what was written   *)
(* last, and that is enough, whatever others told it.  For its own         *)
(* register every thread is such a reader, whence its stamps grow.         *)

MThreads == Shared!Threads
MClean(r, t) == <<r, t>> \notin doubtful
MLen(r)      == Len(written[r])
MLatest(r)   == <<written[r][MLen(r)], r>>

\* The stamp and version t would read from its own cell of register r.
MVisible(r, t) == Shared!SRSWRead(cells[r][<<t, t>>])[2]

\* u is between the load of a stamp for t's own cell of r and its store.
MAt(u, r, t) ==
  th[u].pc \in {"value", "stamp"} /\ Shared!Register(u) = r /\ Shared!Cell(u) = <<t, t>>

MHolds(t)   == th[t].pc \in {"column", "load", "value", "stamp"}
MReading(t) == th[t].pc # "idle" /\ ~ th[t].writing

MCells == [value : Nat \X Nat, last : Nat \X Nat, stamp : Nat]
MLocals == [pc : {"idle", "own", "column", "load", "value", "stamp"}, at : Nat, writing : BOOLEAN,
            r : MThreads, i : 0 .. Sharers, val : Nat, st : Nat, max : Nat \X Nat,
            since : Nat \X Nat]
MTypeOK ==
  /\ cells \in [MThreads -> [MThreads \X MThreads -> MCells]]
  /\ written \in [MThreads -> Seq(Nat)] /\ \A r \in MThreads : MLen(r) > 0
  /\ th \in [MThreads -> MLocals] /\ ended \in Nat \X Nat /\ doubtful \subseteq MThreads \X MThreads

\* Versions are versions that were begun, and those on the diagonal are not
\* the null pointer.
MBoundInv ==
  /\ \A r, x, c \in MThreads :
       cells[r][<<x, c>>].value[2] <= MLen(r) /\ cells[r][<<x, c>>].last[2] <= MLen(r)
  /\ \A r, t \in MThreads : LET c == cells[r][<<t, t>>] IN
       c.value[1] > 0 /\ c.value[2] > 0 /\ (c.last[1] = 0 \/ c.last[2] > 0)
  /\ \A t \in MThreads :
       /\ MHolds(t) => th[t].val > 0 /\ th[t].val <= MLen(Shared!Register(t))
       /\ th[t].pc \in {"value", "stamp"} => th[t].st > 0

MControlInv ==
  /\ \A t \in MThreads :
       /\ th[t].writing => th[t].pc \in {"load", "value", "stamp"} /\ th[t].val = MLen(t)
       /\ th[t].pc \in {"value", "stamp", "column"} => th[t].i < Sharers
       /\ MClean(t, t)
  /\ \A r, t \in MThreads : MClean(r, t) /\ Shared!Reading(t, r) => ~ th[r].writing

MCell(r, t) ==
  LET x == cells[r][<<t, t>>]
  IN  /\ x.last[1] <= x.value[1]
      /\ x.last[1] = x.value[1] => x.last = x.value
      /\ \A u \in MThreads : MAt(u, r, t) =>
           /\ th[u].st = x.stamp + 1
           /\ x.value[1] = IF th[u].pc = "value" THEN x.stamp ELSE x.stamp + 1
      /\ (\A u \in MThreads : ~ MAt(u, r, t)) => x.value[1] = x.stamp
MCellInv == \A r, t \in MThreads : MClean(r, t) => MCell(r, t)

MFresh(r, t) ==
  /\ ~ th[r].writing => MVisible(r, t) = MLen(r)
  /\ th[r].writing /\ (t < th[r].i \/ (t = th[r].i /\ th[r].pc = "stamp")) => MVisible(r, t) = MLen(r)
  /\ Shared!Reading(t, r) /\ MHolds(t) => th[t].val = MLen(r)
MFreshInv == \A r, t \in MThreads : MClean(r, t) => MFresh(r, t)

\* The writes that were begun; their stamps grow; what a thread has read of
\* the registers up to its own is no older than its last write; and no older
\* than what had ended when it began, once it is past that register.
MBegun(e) == \E r \in MThreads, k \in Nat : 0 < k /\ k <= MLen(r) /\ e = <<written[r][k], r>>
MOrderInv ==
  /\ \A r \in MThreads : \A k, l \in Nat :
       0 < k /\ k < l /\ l <= MLen(r) => written[r][k] < written[r][l]
  /\ MBegun(ended) /\ MBegun(Shared!Oldest)
  /\ \A t \in MThreads :
       /\ MBegun(th[t].since) /\ (MReading(t) => MBegun(th[t].max))
       /\ th[t].writing => th[t].max = MLatest(t)
       /\ MReading(t) /\ th[t].r > t => Shared!Above(th[t].max, MLatest(t))
       /\ MClean(th[t].since[2], t) /\ (MReading(t) => th[t].r > th[t].since[2])
            => Shared!Above(th[t].max, th[t].since)

MInv == MTypeOK /\ MBoundInv /\ MControlInv /\ MCellInv /\ MFreshInv /\ MOrderInv

LEMMA MMoveOn ==
  ASSUME Next \/ UNCHANGED <<object, registerVars, sharedVars, snapVars>>
  PROVE  (\E t \in MThreads : Shared!Thread(t)) \/ UNCHANGED sharedVars
  BY DEF Next, sharedVars, Shared!Next, Shared!mvars, MThreads

LEMMA MBasics ==
  /\ Sharers \in Nat /\ Sharers > 0 /\ MThreads = 0 .. Sharers - 1 /\ 0 \in MThreads
  /\ \A t \in MThreads : t \in Nat /\ t \in Int /\ t >= 0 /\ t < Sharers
  /\ \A t \in Int : t >= 0 /\ t < Sharers => t \in MThreads
  BY SharersAssumption DEF MThreads, Shared!Threads

\* The order of writes.
LEMMA MAboveOrder ==
  ASSUME NEW x \in Nat \X Nat, NEW y \in Nat \X Nat, NEW z \in Nat \X Nat
  PROVE  /\ Shared!Above(x, x) /\ Shared!Later(x, y) \in Nat \X Nat
         /\ Shared!Above(x, y) /\ Shared!Above(y, z) => Shared!Above(x, z)
         /\ Shared!Above(Shared!Later(x, y), x) /\ Shared!Above(Shared!Later(x, y), y)
         /\ Shared!Later(x, y) = x \/ Shared!Later(x, y) = y
  BY DEF Shared!Above, Shared!Later

LEMMA MNumbers ==
  ASSUME MTypeOK
  PROVE  /\ \A t \in MThreads :
              /\ th[t].pc \in {"idle", "own", "column", "load", "value", "stamp"}
              /\ th[t].at \in Nat /\ th[t].writing \in BOOLEAN /\ th[t].r \in MThreads
              /\ th[t].i \in Int /\ 0 <= th[t].i /\ th[t].i <= Sharers
              /\ th[t].val \in Nat /\ th[t].st \in Nat
              /\ th[t].max \in Nat \X Nat /\ th[t].since \in Nat \X Nat
              /\ Shared!Register(t) \in MThreads /\ th[t] \in MLocals
         /\ \A r \in MThreads : /\ written[r] \in Seq(Nat) /\ MLen(r) \in Nat /\ MLen(r) > 0
                                /\ \A k \in Nat : 0 < k /\ k <= MLen(r) => written[r][k] \in Nat
         /\ \A r, x, c \in MThreads :
              /\ cells[r][<<x, c>>] \in MCells
              /\ cells[r][<<x, c>>].value[1] \in Nat /\ cells[r][<<x, c>>].value[2] \in Nat
              /\ cells[r][<<x, c>>].last[1] \in Nat /\ cells[r][<<x, c>>].last[2] \in Nat
              /\ cells[r][<<x, c>>].stamp \in Nat
              /\ cells[r][<<x, c>>].value \in Nat \X Nat /\ cells[r][<<x, c>>].last \in Nat \X Nat
<1>1. ASSUME NEW t \in MThreads
      PROVE  /\ th[t].pc \in {"idle", "own", "column", "load", "value", "stamp"}
             /\ th[t].at \in Nat /\ th[t].writing \in BOOLEAN /\ th[t].r \in MThreads
             /\ th[t].i \in Int /\ 0 <= th[t].i /\ th[t].i <= Sharers
             /\ th[t].val \in Nat /\ th[t].st \in Nat
             /\ th[t].max \in Nat \X Nat /\ th[t].since \in Nat \X Nat
             /\ Shared!Register(t) \in MThreads /\ th[t] \in MLocals
  <2>1. th[t] \in MLocals
    BY DEF MTypeOK
  <2>2. th[t].i \in 0 .. Sharers /\ th[t].r \in MThreads
    BY <2>1 DEF MLocals
  <2>3. th[t].i \in Int /\ 0 <= th[t].i /\ th[t].i <= Sharers
    BY <2>2, MBasics
  <2>. QED
    BY <2>1, <2>2, <2>3 DEF MLocals, Shared!Register
<1>2. ASSUME NEW r \in MThreads
      PROVE  /\ written[r] \in Seq(Nat) /\ MLen(r) \in Nat /\ MLen(r) > 0
             /\ \A k \in Nat : 0 < k /\ k <= MLen(r) => written[r][k] \in Nat
  <2>1. written[r] \in Seq(Nat) /\ MLen(r) > 0
    BY DEF MTypeOK
  <2>2. MLen(r) \in Nat
    BY <2>1 DEF MLen
  <2>3. \A k \in Nat : 0 < k /\ k <= Len(written[r]) => written[r][k] \in Nat
    BY <2>1
  <2>. QED
    BY <2>1, <2>2, <2>3 DEF MLen
<1>3. ASSUME NEW r \in MThreads, NEW x \in MThreads, NEW c \in MThreads
      PROVE  /\ cells[r][<<x, c>>] \in MCells
             /\ cells[r][<<x, c>>].value \in Nat \X Nat /\ cells[r][<<x, c>>].last \in Nat \X Nat
             /\ cells[r][<<x, c>>].stamp \in Nat
  <2>1. cells[r] \in [MThreads \X MThreads -> MCells]
    BY DEF MTypeOK
  <2>2. cells[r][<<x, c>>] \in MCells
    BY <2>1
  <2>. QED
    BY <2>2 DEF MCells
<1>4. \A e \in Nat \X Nat : e[1] \in Nat /\ e[2] \in Nat
  OBVIOUS
<1>. QED
  BY <1>1, <1>2, <1>3, <1>4

\* A step of t leaves the others' locals alone.
LEMMA MOthersStay ==
  ASSUME MTypeOK, NEW t \in MThreads, Shared!Thread(t), NEW u \in MThreads, u # t
  PROVE  th'[u] = th[u]
  BY DEF MTypeOK, Shared!Thread, Shared!StartAction, Shared!ReadCell, Shared!WriteCell,
     Shared!NextRegister, Shared!ReturnRead, Shared!BeginWrite, Shared!ReturnWrite, Shared!Goto

\* What a step does to the locals of its thread and to what is not of a cell.
MSame(t) == /\ th'[t].r = th[t].r /\ th'[t].max = th[t].max /\ th'[t].since = th[t].since
            /\ th'[t].writing = th[t].writing
MRest == written' = written /\ ended' = ended /\ doubtful' = doubtful

MStarts(t) ==
  /\ th[t].pc = "idle" /\ th'[t].pc = "own" /\ th'[t].writing = th[t].writing
  /\ th'[t].r = 0 /\ th'[t].max = <<0, 0>> /\ th'[t].since = ended
  /\ doubtful' = IF Shared!Writing(0) THEN doubtful \cup {<<0, t>>} ELSE doubtful
  /\ written' = written /\ ended' = ended
MReads(t) ==
  /\ MSame(t) /\ MRest
  /\ \/ th[t].pc = "own" /\ th'[t].pc = "column" /\ th'[t].i = 0 /\ th'[t].val = MVisible(th[t].r, t)
     \/ /\ th[t].pc = "column"
        /\ LET v == Shared!SRSWRead(cells[th[t].r][<<th[t].i, t>>])[2]
           IN  th'[t].val = IF th[t].val > v THEN th[t].val ELSE v
        /\ \/ th'[t].pc = "column" /\ th'[t].i = th[t].i + 1 /\ th[t].i < Sharers - 1
           \/ th'[t].pc = "load" /\ th'[t].i = 0
MStores(t) ==
  /\ MSame(t) /\ MRest /\ th'[t].val = th[t].val /\ th[t].i < Sharers
  /\ \/ /\ th[t].pc = "load" /\ th'[t].pc = "value" /\ th'[t].i = th[t].i
        /\ th'[t].st = cells[Shared!Register(t)][Shared!Cell(t)].stamp + 1
     \/ th[t].pc = "value" /\ th'[t].pc = "stamp" /\ th'[t].i = th[t].i /\ th'[t].st = th[t].st
     \/ th[t].pc = "stamp" /\ th'[t].pc = "load" /\ th'[t].i = th[t].i + 1
MGoesOn(t) ==
  /\ th[t].pc = "load" /\ th[t].i = Sharers /\ ~ th[t].writing /\ th[t].r < Sharers - 1
  /\ th'[t].pc = "own" /\ th'[t].writing = FALSE /\ th'[t].r = th[t].r + 1
  /\ th'[t].max = Shared!Greatest(t) /\ th'[t].since = th[t].since
  /\ doubtful' = IF Shared!Writing(th[t].r + 1) THEN doubtful \cup {<<th[t].r + 1, t>>} ELSE doubtful
  /\ written' = written /\ ended' = ended
MReturnsRead(t) ==
  /\ Shared!AllRead(t) /\ th'[t].pc = "idle" /\ th'[t].writing = FALSE /\ th'[t].r = th[t].r
  /\ th'[t].max = Shared!Greatest(t) /\ th'[t].since = th[t].since
  /\ ended' = Shared!Later(Shared!Greatest(t), ended) /\ written' = written /\ doubtful' = doubtful
MBegins(t) ==
  /\ Shared!AllRead(t) /\ th'[t].pc = "load" /\ th'[t].writing = TRUE /\ th'[t].r = th[t].r
  /\ th'[t].i = 0 /\ th'[t].val = MLen(t) + 1
  /\ th'[t].max = <<Shared!Greatest(t)[1] + 1, t>> /\ th'[t].since = th[t].since
  /\ written' = [written EXCEPT ![t] = Append(@, Shared!Greatest(t)[1] + 1)]
  /\ doubtful' = doubtful \cup {<<t, u>> : u \in {v \in MThreads \ {t} : Shared!Reading(v, t)}}
  /\ ended' = ended
MReturnsWrite(t) ==
  /\ th[t].pc = "load" /\ th[t].i = Sharers /\ th[t].writing
  /\ th'[t].pc = "idle" /\ th'[t].writing = FALSE /\ th'[t].r = th[t].r
  /\ th'[t].max = th[t].max /\ th'[t].since = th[t].since
  /\ ended' = Shared!Later(th[t].max, ended) /\ written' = written /\ doubtful' = doubtful

LEMMA MSteps ==
  ASSUME MTypeOK, NEW t \in MThreads, Shared!Thread(t)
  PROVE  \/ MStarts(t) /\ cells' = cells
         \/ MReads(t)
         \/ MStores(t)
         \/ cells' = cells /\ (MGoesOn(t) \/ MReturnsRead(t) \/ MBegins(t) \/ MReturnsWrite(t))
<1>1. th \in [MThreads -> MLocals] /\ th[t] \in MLocals
  BY DEF MTypeOK
<1>. USE DEF Shared!Goto, MLocals
<1>2. CASE Shared!StartAction(t)
  BY <1>1, <1>2 DEF Shared!StartAction, MStarts, Shared!Doubts, Shared!Oldest
<1>3. CASE Shared!ReadCell(t)
  <2>. DEFINE k == IF th[t].pc = "own" THEN t ELSE th[t].i
              v == Shared!SRSWRead(cells[th[t].r][<<k, t>>])
  <2>1. /\ th[t].pc \in {"own", "column"} /\ MRest
        /\ th' = [th EXCEPT ![t] =
             CASE th[t].pc = "own" -> [th[t] EXCEPT !.pc = "column", !.i = 0, !.val = v[2]]
               [] th[t].pc = "column" /\ th[t].i < Sharers - 1 ->
                    [th[t] EXCEPT !.i = @ + 1, !.val = IF @ > v[2] THEN @ ELSE v[2]]
               [] OTHER -> [th[t] EXCEPT !.pc = "load", !.i = 0, !.val = IF @ > v[2] THEN @ ELSE v[2]]]
    BY <1>3 DEF Shared!ReadCell, MRest
  <2>2. CASE th[t].pc = "own"
    <3>0. th'[t] = [th[t] EXCEPT !.pc = "column", !.i = 0, !.val = v[2]]
      <4>. HIDE DEF v
      <4>. QED
        BY <1>1, <2>1, <2>2
    <3>1. /\ th'[t].pc = "column" /\ th'[t].i = 0 /\ th'[t].val = v[2] /\ k = t
          /\ MSame(t)
      <4>. HIDE DEF v
      <4>. QED
        BY <1>1, <3>0, <2>2 DEF MSame
    <3>. QED
      BY <2>1, <2>2, <3>1 DEF MReads, MVisible
  <2>3. CASE th[t].pc = "column" /\ th[t].i < Sharers - 1
    BY <1>1, <2>1, <2>3 DEF MReads, MSame
  <2>4. CASE th[t].pc = "column" /\ ~ (th[t].i < Sharers - 1)
    BY <1>1, <2>1, <2>4 DEF MReads, MSame
  <2>. QED
    BY <2>1, <2>2, <2>3, <2>4
<1>4. CASE Shared!WriteCell(t)
  <2>1. MRest /\ th[t].i < Sharers
    BY <1>4 DEF Shared!WriteCell, MRest
  <2>2. CASE th[t].pc = "load"
    <3>1. th'[t] = [th[t] EXCEPT !.pc = "value",
                       !.st = cells[Shared!Register(t)][Shared!Cell(t)].stamp + 1]
      BY <1>1, <1>4, <2>2 DEF Shared!WriteCell
    <3>. DEFINE s == cells[Shared!Register(t)][Shared!Cell(t)].stamp + 1
    <3>2. th'[t] = [th[t] EXCEPT !.pc = "value", !.st = s]
      BY <3>1
    <3>. HIDE DEF s
    <3>3. MSame(t) /\ th'[t].val = th[t].val /\ th'[t].pc = "value" /\ th'[t].i = th[t].i /\ th'[t].st = s
      BY <1>1, <3>2 DEF MSame
    <3>. QED
      BY <2>1, <2>2, <3>3 DEF MStores, s
  <2>3. CASE th[t].pc = "value"
    BY <1>1, <1>4, <2>1, <2>3 DEF Shared!WriteCell, MStores, MSame
  <2>4. CASE th[t].pc = "stamp"
    <3>1. th'[t] = [th[t] EXCEPT !.pc = "load", !.i = th[t].i + 1]
      BY <1>1, <1>4, <2>4 DEF Shared!WriteCell
    <3>. QED
      BY <1>1, <2>1, <2>4, <3>1 DEF MStores, MSame
  <2>. QED
    BY <1>4, <2>2, <2>3, <2>4 DEF Shared!WriteCell
<1>5. CASE Shared!NextRegister(t)
  BY <1>1, <1>5 DEF Shared!NextRegister, MGoesOn, Shared!Doubts
<1>6. CASE Shared!ReturnRead(t)
  BY <1>1, <1>6 DEF Shared!ReturnRead, MReturnsRead, Shared!AllRead
<1>7. CASE Shared!BeginWrite(t)
  BY <1>1, <1>7 DEF Shared!BeginWrite, MBegins, Shared!AllRead, Shared!NewStamp, MLen, MThreads
<1>8. CASE Shared!ReturnWrite(t)
  BY <1>1, <1>8 DEF Shared!ReturnWrite, MReturnsWrite
<1>. QED
  BY <1>2, <1>3, <1>4, <1>5, <1>6, <1>7, <1>8 DEF Shared!Thread

\* What a step does to a cell.
MLoads(t, r, x, c) ==
  /\ c = t /\ r = th[t].r
  /\ (th[t].pc = "own" /\ x = t) \/ (th[t].pc = "column" /\ x = th[t].i)

LEMMA MTargets ==
  ASSUME MTypeOK, NEW t \in MThreads, th[t].i < Sharers
  PROVE  /\ Shared!Register(t) \in MThreads /\ Shared!Cell(t) \in MThreads \X MThreads
         /\ th[t].i \in MThreads
<1>1. th[t].i \in MThreads
  BY MNumbers, MBasics
<1>. QED
  BY <1>1, MNumbers DEF Shared!Cell

LEMMA MCellUpdate ==
  ASSUME NEW S, NEW f \in [MThreads -> [S -> MCells]], NEW r \in MThreads, NEW x \in S
  PROVE  /\ \A v \in Nat \X Nat :
              /\ [f EXCEPT ![r][x].last = v] \in [MThreads -> [S -> MCells]]
              /\ [f EXCEPT ![r][x].value = v] \in [MThreads -> [S -> MCells]]
         /\ \A s \in Nat : [f EXCEPT ![r][x].stamp = s] \in [MThreads -> [S -> MCells]]
<1>1. f[r] \in [S -> MCells] /\ f[r][x] \in MCells
  OBVIOUS
<1>2. ASSUME NEW c \in MCells PROVE [f EXCEPT ![r] = [f[r] EXCEPT ![x] = c]] \in [MThreads -> [S -> MCells]]
  BY <1>1
<1>3. /\ \A v \in Nat \X Nat : /\ [f[r][x] EXCEPT !.last = v] \in MCells
                               /\ [f[r][x] EXCEPT !.value = v] \in MCells
      /\ \A s \in Nat : [f[r][x] EXCEPT !.stamp = s] \in MCells
  BY <1>1 DEF MCells
<1>. QED
  BY <1>1, <1>2, <1>3

LEMMA MCellSteps ==
  ASSUME MTypeOK, MControlInv, NEW t \in MThreads, Shared!Thread(t),
         NEW r \in MThreads, NEW x \in MThreads, NEW c \in MThreads
  PROVE  /\ cells'[r][<<x, c>>].value =
              IF th[t].pc = "value" /\ Shared!Register(t) = r /\ Shared!Cell(t) = <<x, c>>
              THEN <<th[t].st, th[t].val>> ELSE cells[r][<<x, c>>].value
         /\ cells'[r][<<x, c>>].stamp =
              IF th[t].pc = "stamp" /\ Shared!Register(t) = r /\ Shared!Cell(t) = <<x, c>>
              THEN th[t].st ELSE cells[r][<<x, c>>].stamp
         /\ cells'[r][<<x, c>>].last =
              IF MLoads(t, r, x, c) THEN Shared!SRSWRead(cells[r][<<x, c>>]) ELSE cells[r][<<x, c>>].last
         /\ cells' \in [MThreads -> [MThreads \X MThreads -> MCells]]
<1>. DEFINE D == MThreads \X MThreads
<1>0. /\ <<x, c>> \in D /\ DOMAIN cells = MThreads
      /\ cells \in [MThreads -> [D -> MCells]]
      /\ \A q \in MThreads : DOMAIN cells[q] = D
      /\ \A q \in MThreads : \A y \in D : cells[q][y] \in MCells
  BY DEF MTypeOK
<1>9. \A q \in MThreads : \A y \in D :
        cells[q][y] \in [value : Nat \X Nat, last : Nat \X Nat, stamp : Nat]
  BY <1>0 DEF MCells
<1>10. \A y, z \in MThreads : <<y, z>> \in D
  OBVIOUS
<1>11. Shared!Cell(t) \in D \/ ~ (th[t].i < Sharers)
  BY MTargets
<1>20. SUFFICES /\ cells'[r][<<x, c>>].value =
                      IF th[t].pc = "value" /\ Shared!Register(t) = r /\ Shared!Cell(t) = <<x, c>>
                      THEN <<th[t].st, th[t].val>> ELSE cells[r][<<x, c>>].value
                /\ cells'[r][<<x, c>>].stamp =
                      IF th[t].pc = "stamp" /\ Shared!Register(t) = r /\ Shared!Cell(t) = <<x, c>>
                      THEN th[t].st ELSE cells[r][<<x, c>>].stamp
                /\ cells'[r][<<x, c>>].last =
                      IF MLoads(t, r, x, c) THEN Shared!SRSWRead(cells[r][<<x, c>>]) ELSE cells[r][<<x, c>>].last
                /\ cells' \in [MThreads -> [D -> MCells]]
  BY DEF D
<1>. HIDE DEF D
<1>1. CASE Shared!StartAction(t) \/ Shared!NextRegister(t) \/ Shared!ReturnRead(t)
           \/ Shared!BeginWrite(t) \/ Shared!ReturnWrite(t)
  <2>1. th[t].pc \notin {"own", "column", "value", "stamp"} /\ cells' = cells
    BY <1>1 DEF Shared!StartAction, Shared!NextRegister, Shared!ReturnRead, Shared!BeginWrite,
       Shared!ReturnWrite, Shared!AllRead
  <2>. QED
    BY <1>0, <2>1 DEF MLoads
<1>2. CASE Shared!ReadCell(t)
  <2>1. PICK q \in MThreads, k \in MThreads :
          q = th[t].r /\ k = IF th[t].pc = "own" THEN t ELSE th[t].i
    BY <1>2, MNumbers, MTargets DEF Shared!ReadCell, MControlInv
  <2>2. PICK y \in D : y = <<k, t>>
    BY <1>10
  <2>3. PICK v \in Nat \X Nat : v = Shared!SRSWRead(cells[q][y])
    BY <1>9, <2>2 DEF Shared!SRSWRead
  <2>4. th[t].pc \in {"own", "column"} /\ cells' = [cells EXCEPT ![q][y].last = v]
    BY <1>2, <2>1, <2>2, <2>3 DEF Shared!ReadCell
  <2>5. MLoads(t, r, x, c) <=> (r = q /\ <<x, c>> = y)
    BY <2>1, <2>2, <2>4 DEF MLoads
  <2>6. cells' \in [MThreads -> [D -> MCells]]
    BY <1>0, <2>4, MCellUpdate
  <2>7. CASE r = q /\ <<x, c>> = y
    <3>1. cells'[q][y] = [cells[q][y] EXCEPT !.last = v]
      BY <1>0, <2>4
    <3>2. cells'[q][y].value = cells[q][y].value /\ cells'[q][y].stamp = cells[q][y].stamp
          /\ cells'[q][y].last = v
      BY <1>9, <3>1
    <3>. QED
      BY <2>3, <2>4, <2>5, <2>6, <2>7, <3>2
  <2>8. CASE ~ (r = q /\ <<x, c>> = y)
    BY <1>0, <1>9, <2>4, <2>5, <2>6, <2>8
  <2>. QED
    BY <2>7, <2>8
<1>3. CASE Shared!WriteCell(t)
  <2>1. PICK q \in MThreads, y \in D : q = Shared!Register(t) /\ y = Shared!Cell(t)
    BY <1>3, <1>11, MTargets DEF Shared!WriteCell
  <2>2. ~ MLoads(t, r, x, c)
    BY <1>3 DEF Shared!WriteCell, MLoads
  <2>3. CASE th[t].pc = "load"
    BY <1>0, <1>3, <2>2, <2>3 DEF Shared!WriteCell
  <2>4. CASE th[t].pc = "value"
    <3>1. PICK v \in Nat \X Nat : v = <<th[t].st, th[t].val>>
      BY MNumbers
    <3>2. cells' = [cells EXCEPT ![q][y].value = v]
      BY <1>3, <2>1, <2>4, <3>1 DEF Shared!WriteCell
    <3>3. cells' \in [MThreads -> [D -> MCells]]
      BY <1>0, <3>2, MCellUpdate
    <3>4. CASE r = q /\ <<x, c>> = y
      <4>1. cells'[q][y] = [cells[q][y] EXCEPT !.value = v]
        BY <1>0, <3>2
      <4>2. cells'[q][y].value = v /\ cells'[q][y].stamp = cells[q][y].stamp
            /\ cells'[q][y].last = cells[q][y].last
        BY <1>9, <4>1
      <4>. QED
        BY <2>1, <2>2, <2>4, <3>1, <3>3, <3>4, <4>2
    <3>5. CASE ~ (r = q /\ <<x, c>> = y)
      BY <1>0, <2>1, <2>2, <2>4, <3>2, <3>3, <3>5, <1>9
    <3>. QED
      BY <3>4, <3>5
  <2>5. CASE th[t].pc = "stamp"
    <3>1. PICK s \in Nat : s = th[t].st
      BY MNumbers
    <3>2. cells' = [cells EXCEPT ![q][y].stamp = s]
      BY <1>3, <2>1, <2>5, <3>1 DEF Shared!WriteCell
    <3>3. cells' \in [MThreads -> [D -> MCells]]
      BY <1>0, <3>2, MCellUpdate
    <3>4. CASE r = q /\ <<x, c>> = y
      <4>1. cells'[q][y] = [cells[q][y] EXCEPT !.stamp = s]
        BY <1>0, <3>2
      <4>2. cells'[q][y].value = cells[q][y].value /\ cells'[q][y].stamp = s
            /\ cells'[q][y].last = cells[q][y].last
        BY <1>9, <4>1
      <4>. QED
        BY <2>1, <2>2, <2>5, <3>1, <3>3, <3>4, <4>2
    <3>5. CASE ~ (r = q /\ <<x, c>> = y)
      BY <1>0, <2>1, <2>2, <2>5, <3>2, <3>3, <3>5, <1>9
    <3>. QED
      BY <3>4, <3>5
  <2>. QED
    BY <1>3, <2>3, <2>4, <2>5 DEF Shared!WriteCell
<1>. QED
  BY <1>1, <1>2, <1>3 DEF Shared!Thread

\* What was written stays, and so do the doubts.
LEMMA MGrows ==
  ASSUME MTypeOK, NEW t \in MThreads, Shared!Thread(t)
  PROVE  /\ \A r, u \in MThreads : MClean(r, u)' => MClean(r, u)
         /\ \A r \in MThreads :
              /\ r # t \/ ~ MBegins(t) => written'[r] = written[r] /\ MLen(r)' = MLen(r)
              /\ MLen(r)' >= MLen(r)
              /\ \A k \in Nat : 0 < k /\ k <= MLen(r) => written'[r][k] = written[r][k]
         /\ MBegins(t) => /\ MLen(t)' = MLen(t) + 1
                          /\ written'[t][MLen(t) + 1] = Shared!Greatest(t)[1] + 1
<1>1. doubtful \subseteq doubtful'
  BY MSteps DEF MStarts, MReads, MStores, MGoesOn, MReturnsRead, MBegins, MReturnsWrite, MRest
<1>2. written' = written \/ MBegins(t)
  BY MSteps DEF MStarts, MReads, MStores, MGoesOn, MReturnsRead, MReturnsWrite, MRest
<1>3. ASSUME MBegins(t)
      PROVE  /\ \A r \in MThreads : r # t => written'[r] = written[r]
             /\ MLen(t)' = MLen(t) + 1 /\ written'[t][MLen(t) + 1] = Shared!Greatest(t)[1] + 1
             /\ \A k \in Nat : 0 < k /\ k <= MLen(t) => written'[t][k] = written[t][k]
  <2>1. written' = [written EXCEPT ![t] = Append(written[t], Shared!Greatest(t)[1] + 1)]
        /\ DOMAIN written = MThreads
    BY <1>3 DEF MBegins, MTypeOK
  <2>2. written'[t] = Append(written[t], Shared!Greatest(t)[1] + 1)
        /\ \A r \in MThreads : r # t => written'[r] = written[r]
    BY <2>1
  <2>3. written[t] \in Seq(Nat)
    BY MNumbers
  <2>. DEFINE s == written[t]
              e == Shared!Greatest(t)[1] + 1
  <2>4. s \in Seq(Nat) /\ written'[t] = Append(s, e)
    BY <2>2, <2>3
  <2>5. ASSUME NEW q, q = Append(s, e)
        PROVE  /\ Len(q) = Len(s) + 1 /\ q[Len(s) + 1] = e
               /\ \A k \in Nat : 0 < k /\ k <= Len(s) => q[k] = s[k]
    <3>. HIDE DEF s, e
    <3>. QED
      BY <2>4, <2>5
  <2>6. /\ Len(written'[t]) = Len(s) + 1 /\ written'[t][Len(s) + 1] = e
        /\ \A k \in Nat : 0 < k /\ k <= Len(s) => written'[t][k] = s[k]
    <3>. HIDE DEF s, e
    <3>. QED
      BY <2>4, <2>5
  <2>. QED
    BY <2>2, <2>6 DEF MLen
<1>4. ASSUME ~ MBegins(t), NEW r \in MThreads PROVE written'[r] = written[r] /\ MLen(r)' = MLen(r)
  BY <1>2, <1>4 DEF MLen
<1>5. \A r, u \in MThreads : MClean(r, u)' => MClean(r, u)
  BY <1>1 DEF MClean
<1>6. \A r \in MThreads : MLen(r) \in Nat
  BY MNumbers
<1>7. ASSUME MBegins(t), NEW r \in MThreads, r # t PROVE MLen(r)' = MLen(r)
  BY <1>3, <1>7 DEF MLen
<1>8. ASSUME NEW r \in MThreads
      PROVE  /\ r # t \/ ~ MBegins(t) => written'[r] = written[r] /\ MLen(r)' = MLen(r)
             /\ MLen(r)' >= MLen(r)
             /\ \A k \in Nat : 0 < k /\ k <= MLen(r) => written'[r][k] = written[r][k]
  <2>1. CASE ~ MBegins(t)
    BY <1>4, <1>6, <2>1
  <2>2. CASE MBegins(t) /\ r # t
    BY <1>3, <1>6, <1>7, <2>2
  <2>3. CASE MBegins(t) /\ r = t
    BY <1>3, <1>6, <2>3
  <2>. QED
    BY <2>1, <2>2, <2>3
<1>. QED
  BY <1>3, <1>5, <1>8

\* The newest write a read has come across.
LEMMA MGreatest ==
  ASSUME MTypeOK, MBoundInv, NEW t \in MThreads, th[t].pc = "load", ~ th[t].writing
  PROVE  /\ <<written[th[t].r][th[t].val], th[t].r>> \in Nat \X Nat
         /\ Shared!Greatest(t) \in Nat \X Nat /\ Shared!Greatest(t)[1] \in Nat
         /\ Shared!Above(Shared!Greatest(t), <<written[th[t].r][th[t].val], th[t].r>>)
         /\ Shared!Above(Shared!Greatest(t), th[t].max)
         /\ Shared!Greatest(t) = <<written[th[t].r][th[t].val], th[t].r>> \/ Shared!Greatest(t) = th[t].max
<1>1. PICK r \in MThreads, v \in Nat : r = th[t].r /\ v = th[t].val /\ 0 < v /\ v <= MLen(r)
  BY MNumbers DEF MBoundInv, MHolds, Shared!Register
<1>2. PICK e \in Nat \X Nat : e = <<written[r][v], r>>
  BY <1>1, MNumbers, MBasics
<1>3. PICK m \in Nat \X Nat : m = th[t].max
  BY MNumbers
<1>4. Shared!Greatest(t) = Shared!Later(e, m)
  BY <1>1, <1>2, <1>3 DEF Shared!Greatest
<1>5. \A x \in Nat \X Nat : x[1] \in Nat
  OBVIOUS
<1>. QED
  BY <1>1, <1>2, <1>3, <1>4, <1>5, MAboveOrder

LEMMA MTypeNext ==
  ASSUME MInv, NEW t \in MThreads, Shared!Thread(t)
  PROVE  MTypeOK'
<1>0. MTypeOK /\ MBoundInv /\ MControlInv
  BY DEF MInv
<1>1. cells' \in [MThreads -> [MThreads \X MThreads -> MCells]]
  BY <1>0, MCellSteps
<1>2. written' \in [MThreads -> Seq(Nat)]
  <2>1. CASE MBegins(t)
    <3>1. Shared!Greatest(t)[1] \in Nat
      BY <1>0, <2>1, MGreatest DEF MBegins, Shared!AllRead
    <3>2. Append(written[t], Shared!Greatest(t)[1] + 1) \in Seq(Nat)
      BY <1>0, <3>1, MNumbers
    <3>. QED
      BY <1>0, <2>1, <3>2 DEF MBegins, MTypeOK
  <2>2. CASE ~ MBegins(t)
    BY <1>0, <2>2, MSteps DEF MStarts, MReads, MStores, MGoesOn, MReturnsRead, MReturnsWrite, MRest, MTypeOK
  <2>. QED
    BY <2>1, <2>2
<1>3. \A r \in MThreads : MLen(r)' > 0
  <2>1. ASSUME NEW r \in MThreads PROVE MLen(r)' > 0
    <3>1. MLen(r) \in Nat /\ MLen(r) > 0 /\ MLen(r)' >= MLen(r)
      BY <1>0, MGrows, MNumbers
    <3>2. MLen(r)' \in Nat
      BY <1>2 DEF MLen
    <3>. QED
      BY <3>1, <3>2
  <2>. QED
    BY <2>1
<1>4. doubtful' \subseteq MThreads \X MThreads
  <2>1. \A r \in MThreads : <<r, t>> \in MThreads \X MThreads /\ <<t, r>> \in MThreads \X MThreads
    OBVIOUS
  <2>2. MGoesOn(t) => th[t].r + 1 \in MThreads
    BY <1>0, MNumbers, MBasics DEF MGoesOn
  <2>3. 0 \in MThreads /\ doubtful \subseteq MThreads \X MThreads
    BY <1>0, MBasics DEF MTypeOK
  <2>4. CASE MBegins(t)
    BY <2>1, <2>3, <2>4 DEF MBegins
  <2>5. CASE MGoesOn(t)
    BY <2>1, <2>2, <2>3, <2>5 DEF MGoesOn
  <2>6. CASE MStarts(t)
    BY <2>1, <2>3, <2>6 DEF MStarts
  <2>. QED
    BY <1>0, <2>3, <2>4, <2>5, <2>6, MSteps DEF MReads, MStores, MReturnsRead, MReturnsWrite, MRest
<1>5. ended' \in Nat \X Nat
  <2>1. ended \in Nat \X Nat /\ th[t].max \in Nat \X Nat
    BY <1>0, MNumbers DEF MTypeOK
  <2>2. CASE MReturnsRead(t)
    <3>1. Shared!Greatest(t) \in Nat \X Nat
      BY <1>0, <2>2, MGreatest DEF MReturnsRead, Shared!AllRead
    <3>. QED
      BY <2>1, <2>2, <3>1, MAboveOrder DEF MReturnsRead
  <2>3. CASE MReturnsWrite(t)
    BY <2>1, <2>3, MAboveOrder DEF MReturnsWrite
  <2>. QED
    BY <1>0, <2>1, <2>2, <2>3, MSteps DEF MStarts, MReads, MStores, MGoesOn, MBegins, MRest
<1>6. th' \in [MThreads -> MLocals]
  <2>1. th \in [MThreads -> MLocals] /\ th[t] \in MLocals
    BY <1>0 DEF MTypeOK
  <2>2. \A x \in MLocals : [th EXCEPT ![t] = x] \in [MThreads -> MLocals]
    BY <2>1
  <2>3. 0 \in 0 .. Sharers /\ 0 \in MThreads /\ Sharers \in Nat
    BY MBasics
  <2>4. CASE Shared!StartAction(t)
    <3>1. ended \in Nat \X Nat /\ <<0, 0>> \in Nat \X Nat
      BY <1>0 DEF MTypeOK
    <3>2. [th[t] EXCEPT !.pc = "own", !.at = th[t].at + 1, !.r = 0, !.max = <<0, 0>>, !.since = ended] \in MLocals
      <4>1. th[t].at + 1 \in Nat
        BY <1>0, MNumbers
      <4>2. \A a \in Nat : [th[t] EXCEPT !.pc = "own", !.at = a, !.r = 0, !.max = <<0, 0>>, !.since = ended] \in MLocals
        BY <2>1, <2>3, <3>1 DEF MLocals
      <4>. QED
        BY <4>1, <4>2
    <3>. QED
      BY <2>2, <2>4, <3>2 DEF Shared!StartAction, Shared!Goto, Shared!Oldest
  <2>5. CASE Shared!ReadCell(t)
    <3>. DEFINE k == IF th[t].pc = "own" THEN t ELSE th[t].i
                v == Shared!SRSWRead(cells[th[t].r][<<k, t>>])[2]
    <3>1. th[t].pc \in {"own", "column"}
      BY <2>5 DEF Shared!ReadCell
    <3>2. k \in MThreads /\ th[t].r \in MThreads
      BY <1>0, <3>1, MNumbers, MTargets DEF MControlInv
    <3>3. v \in Nat
      BY <1>0, <3>2, MNumbers DEF Shared!SRSWRead
    <3>4. th' = [th EXCEPT ![t] =
             CASE th[t].pc = "own" -> [th[t] EXCEPT !.pc = "column", !.i = 0, !.val = v]
               [] th[t].pc = "column" /\ th[t].i < Sharers - 1 ->
                    [th[t] EXCEPT !.i = @ + 1, !.val = IF @ > v THEN @ ELSE v]
               [] OTHER -> [th[t] EXCEPT !.pc = "load", !.i = 0, !.val = IF @ > v THEN @ ELSE v]]
      BY <2>5 DEF Shared!ReadCell, Shared!Goto
    <3>. HIDE DEF v
    <3>5. (IF th[t].val > v THEN th[t].val ELSE v) \in Nat
      BY <1>0, <3>3, MNumbers
    <3>6. CASE th[t].pc = "own"
      <4>1. [th[t] EXCEPT !.pc = "column", !.i = 0, !.val = v] \in MLocals
        BY <2>1, <2>3, <3>3 DEF MLocals
      <4>. QED
        BY <2>2, <3>4, <3>6, <4>1
    <3>7. CASE th[t].pc = "column" /\ th[t].i < Sharers - 1
      <4>1. th[t].i + 1 \in 0 .. Sharers
        <5>1. th[t].i \in Int /\ 0 <= th[t].i
          BY <1>0, MNumbers
        <5>. QED
          BY <2>3, <3>7, <5>1
      <4>2. [th[t] EXCEPT !.i = th[t].i + 1, !.val = IF th[t].val > v THEN th[t].val ELSE v] \in MLocals
        BY <2>1, <3>5, <4>1 DEF MLocals
      <4>. QED
        BY <2>2, <3>4, <3>7, <4>2
    <3>8. CASE th[t].pc = "column" /\ ~ (th[t].i < Sharers - 1)
      <4>1. [th[t] EXCEPT !.pc = "load", !.i = 0, !.val = IF th[t].val > v THEN th[t].val ELSE v] \in MLocals
        BY <2>1, <2>3, <3>5 DEF MLocals
      <4>. QED
        BY <2>2, <3>4, <3>8, <4>1
    <3>. QED
      BY <3>1, <3>6, <3>7, <3>8
  <2>6. CASE Shared!WriteCell(t)
    <3>1. th[t].i < Sharers
      BY <2>6 DEF Shared!WriteCell
    <3>2. PICK s \in Nat : s = cells[Shared!Register(t)][Shared!Cell(t)].stamp + 1
      <4>1. PICK q \in MThreads, x \in MThreads, c \in MThreads :
              q = Shared!Register(t) /\ <<x, c>> = Shared!Cell(t)
        BY <1>0, <3>1, MTargets
      <4>2. cells[q][<<x, c>>].stamp \in Nat
        BY <1>0, MNumbers
      <4>. QED
        BY <4>1, <4>2
    <3>3. th[t].i + 1 \in 0 .. Sharers
      <4>1. th[t].i \in Int /\ 0 <= th[t].i
        BY <1>0, MNumbers
      <4>. QED
        BY <2>3, <3>1, <4>1
    <3>4. /\ [th[t] EXCEPT !.pc = "value", !.st = s] \in MLocals
          /\ [th[t] EXCEPT !.pc = "stamp"] \in MLocals
          /\ [th[t] EXCEPT !.pc = "load", !.i = th[t].i + 1] \in MLocals
      BY <2>1, <3>3 DEF MLocals
    <3>5. \/ th' = [th EXCEPT ![t] = [th[t] EXCEPT !.pc = "value", !.st = s]]
          \/ th' = [th EXCEPT ![t] = [th[t] EXCEPT !.pc = "stamp"]]
          \/ th' = [th EXCEPT ![t] = [th[t] EXCEPT !.pc = "load", !.i = th[t].i + 1]]
      BY <2>6, <3>2 DEF Shared!WriteCell, Shared!Goto
    <3>. QED
      BY <2>2, <3>4, <3>5
  <2>7. CASE Shared!NextRegister(t)
    <3>1. PICK g \in Nat \X Nat : g = Shared!Greatest(t)
      BY <1>0, <2>7, MGreatest DEF Shared!NextRegister
    <3>2. th[t].r + 1 \in MThreads
      BY <1>0, <2>7, MNumbers, MBasics DEF Shared!NextRegister
    <3>3. [th[t] EXCEPT !.pc = "own", !.r = th[t].r + 1, !.max = g] \in MLocals
      BY <2>1, <3>2 DEF MLocals
    <3>. QED
      BY <2>2, <2>7, <3>1, <3>3 DEF Shared!NextRegister, Shared!Goto
  <2>8. CASE Shared!ReturnRead(t)
    <3>1. PICK g \in Nat \X Nat : g = Shared!Greatest(t)
      BY <1>0, <2>8, MGreatest DEF Shared!ReturnRead, Shared!AllRead
    <3>2. [th[t] EXCEPT !.pc = "idle", !.max = g] \in MLocals
      BY <2>1 DEF MLocals
    <3>. QED
      BY <2>2, <2>8, <3>1, <3>2 DEF Shared!ReturnRead, Shared!Goto
  <2>9. CASE Shared!BeginWrite(t)
    <3>1. PICK g \in Nat : g = Shared!Greatest(t)[1]
      BY <1>0, <2>9, MGreatest DEF Shared!BeginWrite, Shared!AllRead
    <3>2. PICK m \in Nat \X Nat : m = <<g + 1, t>>
      <4>1. t \in Nat /\ g + 1 \in Nat
        BY MBasics
      <4>. QED
        BY <4>1
    <3>3. PICK l \in Nat : l = MLen(t) + 1
      BY <1>0, MNumbers
    <3>4. [th[t] EXCEPT !.writing = TRUE, !.i = 0, !.val = l, !.max = m] \in MLocals
      BY <2>1, <2>3 DEF MLocals
    <3>. QED
      BY <2>2, <2>9, <3>1, <3>2, <3>3, <3>4 DEF Shared!BeginWrite, Shared!Goto, Shared!NewStamp, MLen
  <2>10. CASE Shared!ReturnWrite(t)
    <3>1. [th[t] EXCEPT !.pc = "idle", !.writing = FALSE] \in MLocals
      BY <2>1 DEF MLocals
    <3>. QED
      BY <2>2, <2>10, <3>1 DEF Shared!ReturnWrite, Shared!Goto
  <2>. QED
    BY <2>4, <2>5, <2>6, <2>7, <2>8, <2>9, <2>10 DEF Shared!Thread
<1>. QED
  BY <1>1, <1>2, <1>3, <1>4, <1>5, <1>6 DEF MTypeOK

LEMMA MControlNext ==
  ASSUME MInv, NEW t \in MThreads, Shared!Thread(t)
  PROVE  MControlInv'
<1>0. MTypeOK /\ MBoundInv /\ MControlInv
  BY DEF MInv
<1>1. /\ MStarts(t) \/ MReads(t) \/ MStores(t) \/ MGoesOn(t) \/ MReturnsRead(t) \/ MBegins(t)
         \/ MReturnsWrite(t)
      /\ \A u \in MThreads : u # t => th'[u] = th[u]
  BY <1>0, MSteps, MOthersStay
<1>2. ASSUME NEW u \in MThreads
      PROVE  /\ th'[u].writing => th'[u].pc \in {"load", "value", "stamp"} /\ th'[u].val = MLen(u)'
             /\ th'[u].pc \in {"value", "stamp", "column"} => th'[u].i < Sharers
             /\ MClean(u, u)'
  <2>0. /\ th[u].writing => th[u].pc \in {"load", "value", "stamp"} /\ th[u].val = MLen(u)
        /\ th[u].pc \in {"value", "stamp", "column"} => th[u].i < Sharers
        /\ MClean(u, u)
    BY <1>0 DEF MControlInv
  <2>1. CASE u # t
    <3>1. th'[u] = th[u] /\ MLen(u)' = MLen(u)
      BY <1>0, <1>1, <2>1, MGrows
    <3>2. MClean(u, u)'
      BY <1>1, <2>0, <2>1 DEF MStarts, MReads, MStores, MGoesOn, MReturnsRead, MBegins, MReturnsWrite,
         MRest, MClean
    <3>. QED
      BY <2>0, <3>1, <3>2
  <2>2. CASE u = t
    <3>0. /\ th[t].i \in Int /\ Sharers \in Nat /\ Sharers > 0 /\ th[t].writing \in BOOLEAN
      BY <1>0, MNumbers, MBasics
    <3>1. CASE MStarts(t)
      <4>1. ~ th'[t].writing /\ th'[t].pc = "own" /\ ~ Shared!Writing(t)
        BY <2>0, <2>2, <3>1 DEF MStarts, Shared!Writing
      <4>2. MClean(t, t)'
        BY <2>0, <2>2, <3>1, <4>1 DEF MStarts, MClean
      <4>. QED
        BY <2>2, <4>1, <4>2
    <3>2. CASE MReads(t)
      <4>1. ~ th'[t].writing /\ th'[t].pc \in {"column", "load"}
        BY <2>0, <2>2, <3>2 DEF MReads, MSame
      <4>2. th'[t].pc = "column" => th'[t].i < Sharers
        BY <3>0, <3>2 DEF MReads
      <4>3. MClean(t, t)'
        BY <2>0, <2>2, <3>2 DEF MReads, MRest, MClean
      <4>. QED
        BY <2>2, <4>1, <4>2, <4>3
    <3>3. CASE MStores(t)
      <4>1. MLen(t)' = MLen(t) /\ MClean(t, t)'
        BY <2>0, <2>2, <3>3 DEF MStores, MRest, MLen, MClean
      <4>2. th'[t].pc \in {"load", "value", "stamp"} /\ th'[t].val = th[t].val
            /\ th'[t].writing = th[t].writing
        BY <3>3 DEF MStores, MSame
      <4>3. th'[t].pc \in {"value", "stamp", "column"} => th'[t].i < Sharers
        BY <3>3 DEF MStores
      <4>. QED
        BY <2>0, <2>2, <4>1, <4>2, <4>3
    <3>4. CASE MGoesOn(t)
      <4>1. ~ th'[t].writing /\ th'[t].pc = "own" /\ ~ Shared!Writing(t)
        BY <3>4 DEF MGoesOn, Shared!Writing
      <4>2. MClean(t, t)'
        BY <2>0, <2>2, <3>4, <4>1 DEF MGoesOn, MClean
      <4>. QED
        BY <2>2, <4>1, <4>2
    <3>5. CASE MReturnsRead(t)
      BY <2>0, <2>2, <3>5 DEF MReturnsRead, MClean
    <3>6. CASE MBegins(t)
      <4>1. MLen(t)' = MLen(t) + 1
        BY <1>0, <3>6, MGrows
      <4>2. MClean(t, t)'
        BY <2>0, <2>2, <3>6 DEF MBegins, MClean
      <4>. QED
        BY <2>2, <3>6, <4>1, <4>2 DEF MBegins
    <3>7. CASE MReturnsWrite(t)
      BY <2>0, <2>2, <3>7 DEF MReturnsWrite, MClean
    <3>. QED
      BY <1>1, <3>1, <3>2, <3>3, <3>4, <3>5, <3>6, <3>7
  <2>. QED
    BY <2>1, <2>2
<1>3. ASSUME NEW r \in MThreads, NEW u \in MThreads, MClean(r, u)', Shared!Reading(u, r)'
      PROVE  ~ th'[r].writing
  <2>0. MClean(r, u) /\ (Shared!Reading(u, r) => ~ th[r].writing)
    BY <1>0, <1>3, MGrows DEF MControlInv
  <2>1. th'[u].pc # "idle" /\ ~ th'[u].writing /\ th'[u].r = r
    BY <1>3 DEF Shared!Reading
  <2>2. CASE u = t /\ r # t
    <3>1. th'[r] = th[r]
      BY <1>1, <2>2
    <3>2. th[r].writing => Shared!Writing(r)
      BY <1>0 DEF MControlInv, Shared!Writing
    <3>3. CASE MStarts(t)
      <4>1. r = 0
        BY <2>1, <2>2, <3>3 DEF MStarts
      <4>. QED
        BY <1>3, <2>2, <3>1, <3>2, <3>3, <4>1 DEF MStarts, MClean
    <3>4. CASE MReads(t)
      BY <2>0, <2>1, <2>2, <3>1, <3>4 DEF MReads, MSame, Shared!Reading
    <3>5. CASE MStores(t)
      BY <2>0, <2>1, <2>2, <3>1, <3>5 DEF MStores, MSame, Shared!Reading
    <3>6. CASE MGoesOn(t)
      <4>1. r = th[t].r + 1
        BY <2>1, <2>2, <3>6 DEF MGoesOn
      <4>. QED
        BY <1>3, <2>2, <3>1, <3>2, <3>6, <4>1 DEF MGoesOn, MClean
    <3>7. CASE MReturnsRead(t) \/ MBegins(t) \/ MReturnsWrite(t)
      BY <2>1, <2>2, <3>7 DEF MReturnsRead, MBegins, MReturnsWrite
    <3>. QED
      BY <1>1, <3>3, <3>4, <3>5, <3>6, <3>7
  <2>3. CASE u # t /\ r # t
    BY <1>1, <2>0, <2>1, <2>3 DEF Shared!Reading
  <2>4. CASE u # t /\ r = t
    <3>1. Shared!Reading(u, r)
      BY <1>1, <2>1, <2>4 DEF Shared!Reading
    <3>2. ~ MBegins(t)
      BY <1>3, <2>4, <3>1 DEF MBegins, MClean, MThreads
    <3>3. ~ th[t].writing
      BY <2>0, <2>4, <3>1
    <3>. QED
      BY <1>1, <2>4, <3>2, <3>3 DEF MStarts, MReads, MStores, MSame, MGoesOn, MReturnsRead, MReturnsWrite
  <2>5. CASE u = r
    BY <2>1, <2>5
  <2>. QED
    BY <2>2, <2>3, <2>4, <2>5
<1>. QED
  BY <1>2, <1>3 DEF MControlInv

\* What a load gives is a version there is, and not null on the diagonal.
LEMMA MLoaded ==
  ASSUME MTypeOK, MBoundInv, NEW r \in MThreads, NEW x \in MThreads, NEW c \in MThreads
  PROVE  /\ Shared!SRSWRead(cells[r][<<x, c>>]) \in Nat \X Nat
         /\ Shared!SRSWRead(cells[r][<<x, c>>])[2] \in Nat
         /\ Shared!SRSWRead(cells[r][<<x, c>>])[2] <= MLen(r)
         /\ x = c => /\ Shared!SRSWRead(cells[r][<<x, c>>])[1] > 0
                     /\ Shared!SRSWRead(cells[r][<<x, c>>])[2] > 0
<1>1. PICK v \in Nat \X Nat, l \in Nat \X Nat : v = cells[r][<<x, c>>].value /\ l = cells[r][<<x, c>>].last
  BY MNumbers
<1>2. v[1] \in Nat /\ v[2] \in Nat /\ l[1] \in Nat /\ l[2] \in Nat
  OBVIOUS
<1>3. v[2] <= MLen(r) /\ l[2] <= MLen(r)
  BY <1>1 DEF MBoundInv
<1>4. x = c => v[1] > 0 /\ v[2] > 0 /\ (l[1] = 0 \/ l[2] > 0)
  BY <1>1 DEF MBoundInv
<1>5. Shared!SRSWRead(cells[r][<<x, c>>]) = IF v[1] > l[1] THEN v ELSE l
  BY <1>1 DEF Shared!SRSWRead
<1>. HIDE DEF MLen
<1>. QED
  BY <1>2, <1>3, <1>4, <1>5

LEMMA MBoundNext ==
  ASSUME MInv, NEW t \in MThreads, Shared!Thread(t)
  PROVE  MBoundInv'
<1>0. MTypeOK /\ MBoundInv /\ MControlInv
  BY DEF MInv
<1>1. /\ MStarts(t) \/ MReads(t) \/ MStores(t) \/ MGoesOn(t) \/ MReturnsRead(t) \/ MBegins(t)
         \/ MReturnsWrite(t)
      /\ \A u \in MThreads : u # t => th'[u] = th[u]
  BY <1>0, MSteps, MOthersStay
<1>2. \A r \in MThreads : MLen(r) \in Nat /\ MLen(r)' \in Nat /\ MLen(r) > 0 /\ MLen(r)' >= MLen(r)
  <2>1. \A r \in MThreads : MLen(r) \in Nat /\ MLen(r) > 0 /\ MLen(r)' >= MLen(r)
    BY <1>0, MNumbers, MGrows
  <2>2. written' \in [MThreads -> Seq(Nat)]
    BY MTypeNext DEF MTypeOK
  <2>3. \A r \in MThreads : MLen(r)' \in Nat
    BY <2>2 DEF MLen
  <2>. QED
    BY <2>1, <2>3
<1>3. th[t].pc \in {"value", "stamp"} =>
        /\ th[t].val \in Nat /\ th[t].val > 0 /\ th[t].val <= MLen(Shared!Register(t))
        /\ th[t].st \in Nat /\ th[t].st > 0
  BY <1>0, MNumbers DEF MBoundInv, MHolds
<1>4. ASSUME NEW r \in MThreads, NEW x \in MThreads, NEW c \in MThreads
      PROVE  /\ cells'[r][<<x, c>>].value[2] <= MLen(r)' /\ cells'[r][<<x, c>>].last[2] <= MLen(r)'
             /\ x = c => /\ cells'[r][<<x, c>>].value[1] > 0 /\ cells'[r][<<x, c>>].value[2] > 0
                         /\ cells'[r][<<x, c>>].last[1] = 0 \/ cells'[r][<<x, c>>].last[2] > 0
  <2>0. /\ cells[r][<<x, c>>].value[2] <= MLen(r) /\ cells[r][<<x, c>>].last[2] <= MLen(r)
        /\ x = c => /\ cells[r][<<x, c>>].value[1] > 0 /\ cells[r][<<x, c>>].value[2] > 0
                    /\ cells[r][<<x, c>>].last[1] = 0 \/ cells[r][<<x, c>>].last[2] > 0
        /\ cells[r][<<x, c>>].value[2] \in Nat /\ cells[r][<<x, c>>].last[2] \in Nat
        /\ MLen(r) \in Nat /\ MLen(r)' \in Nat /\ MLen(r)' >= MLen(r)
    BY <1>0, <1>2, MNumbers DEF MBoundInv
  <2>9. /\ cells'[r][<<x, c>>].value =
             IF th[t].pc = "value" /\ Shared!Register(t) = r /\ Shared!Cell(t) = <<x, c>>
             THEN <<th[t].st, th[t].val>> ELSE cells[r][<<x, c>>].value
        /\ cells'[r][<<x, c>>].last =
             IF MLoads(t, r, x, c) THEN Shared!SRSWRead(cells[r][<<x, c>>]) ELSE cells[r][<<x, c>>].last
    BY <1>0, MCellSteps
  <2>1. cells'[r][<<x, c>>].value = cells[r][<<x, c>>].value
        \/ /\ th[t].pc = "value" /\ Shared!Register(t) = r
           /\ cells'[r][<<x, c>>].value = <<th[t].st, th[t].val>>
    BY <2>9
  <2>2. cells'[r][<<x, c>>].last = cells[r][<<x, c>>].last
        \/ cells'[r][<<x, c>>].last = Shared!SRSWRead(cells[r][<<x, c>>])
    BY <2>9
  <2>3. /\ Shared!SRSWRead(cells[r][<<x, c>>])[2] \in Nat
        /\ Shared!SRSWRead(cells[r][<<x, c>>])[2] <= MLen(r)
        /\ x = c => Shared!SRSWRead(cells[r][<<x, c>>])[2] > 0
    BY <1>0, MLoaded
  <2>4. /\ cells'[r][<<x, c>>].value[2] <= MLen(r)'
        /\ x = c => cells'[r][<<x, c>>].value[1] > 0 /\ cells'[r][<<x, c>>].value[2] > 0
    <3>1. CASE cells'[r][<<x, c>>].value = cells[r][<<x, c>>].value
      BY <2>0, <3>1
    <3>2. CASE th[t].pc = "value" /\ Shared!Register(t) = r
               /\ cells'[r][<<x, c>>].value = <<th[t].st, th[t].val>>
      <4>1. th[t].val \in Nat /\ th[t].val > 0 /\ th[t].val <= MLen(r) /\ th[t].st > 0
        BY <1>3, <3>2
      <4>2. cells'[r][<<x, c>>].value[1] = th[t].st /\ cells'[r][<<x, c>>].value[2] = th[t].val
        BY <3>2
      <4>. QED
        BY <2>0, <4>1, <4>2
    <3>. QED
      BY <2>1, <3>1, <3>2
  <2>5. /\ cells'[r][<<x, c>>].last[2] <= MLen(r)'
        /\ x = c => cells'[r][<<x, c>>].last[1] = 0 \/ cells'[r][<<x, c>>].last[2] > 0
    BY <2>0, <2>2, <2>3
  <2>. QED
    BY <2>4, <2>5
<1>5. ASSUME NEW u \in MThreads
      PROVE  /\ MHolds(u)' => th'[u].val > 0 /\ th'[u].val <= MLen(Shared!Register(u))'
             /\ th'[u].pc \in {"value", "stamp"} => th'[u].st > 0
  <2>0. /\ MHolds(u) => th[u].val > 0 /\ th[u].val <= MLen(Shared!Register(u))
        /\ th[u].pc \in {"value", "stamp"} => th[u].st > 0
        /\ th[u].val \in Nat /\ th[u].st \in Nat
    BY <1>0, MNumbers DEF MBoundInv
  <2>9. PICK q \in MThreads : q = Shared!Register(u)
    BY <1>0, MNumbers
  <2>10. MLen(q) \in Nat /\ MLen(q)' \in Nat /\ MLen(q)' >= MLen(q)
    BY <1>2
  <2>1. ASSUME Shared!Register(u)' = q, th'[u].val = th[u].val, MHolds(u)' => MHolds(u)
        PROVE  MHolds(u)' => th'[u].val > 0 /\ th'[u].val <= MLen(Shared!Register(u))'
    <3>1. MLen(Shared!Register(u))' = MLen(q)'
      BY <2>1 DEF MLen
    <3>. QED
      BY <2>0, <2>1, <2>9, <2>10, <3>1
  <2>2. CASE u # t
    <3>1. th'[u] = th[u]
      BY <1>1, <2>2
    <3>2. Shared!Register(u)' = q /\ (MHolds(u)' => MHolds(u))
      BY <2>9, <3>1 DEF Shared!Register, MHolds
    <3>. QED
      BY <2>0, <2>1, <3>1, <3>2
  <2>3. CASE u = t
    <3>1. CASE MStarts(t) \/ MGoesOn(t) \/ MReturnsRead(t) \/ MReturnsWrite(t)
      <4>1. th'[t].pc \in {"own", "idle"}
        BY <3>1 DEF MStarts, MGoesOn, MReturnsRead, MReturnsWrite
      <4>. QED
        BY <2>3, <4>1 DEF MHolds
    <3>2. CASE MReads(t)
      <4>0. ~ th[t].writing /\ q = th[t].r /\ Shared!Register(u)' = q
        BY <1>0, <2>3, <2>9, <3>2 DEF MControlInv, MReads, MSame, Shared!Register
      <4>1. th'[t].pc \notin {"value", "stamp"}
        BY <3>2 DEF MReads
      <4>2. MLen(Shared!Register(u))' = MLen(q)'
        BY <4>0 DEF MLen
      <4>3. CASE th[t].pc = "own"
        <5>1. th'[t].val = Shared!SRSWRead(cells[q][<<t, t>>])[2]
          BY <3>2, <4>0, <4>3 DEF MReads, MVisible
        <5>2. th'[t].val \in Nat /\ th'[t].val > 0 /\ th'[t].val <= MLen(q)
          BY <1>0, <5>1, MLoaded
        <5>. QED
          BY <2>3, <2>10, <4>1, <4>2, <5>2
      <4>4. CASE th[t].pc = "column"
        <5>0. th[t].i \in MThreads
          BY <1>0, <4>4, MTargets DEF MControlInv
        <5>1. PICK v \in Nat : v = Shared!SRSWRead(cells[q][<<th[t].i, t>>])[2] /\ v <= MLen(q)
          BY <1>0, <5>0, MLoaded
        <5>2. th'[t].val = IF th[t].val > v THEN th[t].val ELSE v
          BY <3>2, <4>0, <4>4, <5>1 DEF MReads
        <5>3. th[t].val > 0 /\ th[t].val <= MLen(q) /\ th[t].val \in Nat
          BY <2>0, <2>3, <2>9, <4>4 DEF MHolds
        <5>4. th'[t].val > 0 /\ th'[t].val <= MLen(q) /\ th'[t].val \in Nat
          BY <5>2, <5>3, <5>1, <2>10
        <5>. QED
          BY <2>3, <2>10, <4>1, <4>2, <5>4
      <4>. QED
        BY <3>2, <4>3, <4>4 DEF MReads
    <3>3. CASE MStores(t)
      <4>1. Shared!Register(u)' = q /\ th'[u].val = th[u].val /\ MHolds(u)
        BY <2>3, <2>9, <3>3 DEF MStores, MSame, Shared!Register, MHolds
      <4>2. th'[u].pc \in {"value", "stamp"} => th'[u].st > 0
        <5>1. PICK x \in MThreads, c \in MThreads : Shared!Cell(t) = <<x, c>>
          BY <1>0, <3>3, MTargets DEF MStores
        <5>2. cells[q][<<x, c>>].stamp \in Nat
          BY <1>0, MNumbers
        <5>3. th[t].pc = "load" => th'[t].st > 0
          BY <2>3, <2>9, <3>3, <5>1, <5>2 DEF MStores
        <5>. QED
          BY <2>0, <2>3, <3>3, <5>3 DEF MStores
      <4>. QED
        BY <2>1, <4>1, <4>2
    <3>4. CASE MBegins(t)
      <4>1. Shared!Register(u)' = t /\ th'[t].val = MLen(t) + 1 /\ th'[t].pc = "load"
        BY <2>3, <3>4 DEF MBegins, Shared!Register
      <4>2. MLen(Shared!Register(u))' = MLen(t)'
        BY <4>1 DEF MLen
      <4>3. MLen(t)' = MLen(t) + 1 /\ MLen(t) \in Nat
        BY <1>0, <1>2, <3>4, MGrows
      <4>. QED
        BY <2>3, <4>1, <4>2, <4>3
    <3>. QED
      BY <1>1, <3>1, <3>2, <3>3, <3>4
  <2>. QED
    BY <2>2, <2>3
<1>. QED
  BY <1>4, <1>5 DEF MBoundInv

\* Nobody but the writer of register r and the reader t store to t's cell of
\* its diagonal, and while t is a clean reader never both.
MAims(u, r, t) ==
  th[u].pc \in {"load", "value", "stamp"} /\ Shared!Register(u) = r /\ Shared!Cell(u) = <<t, t>>

LEMMA MOneWriter ==
  ASSUME MTypeOK, MControlInv, NEW r \in MThreads, NEW t \in MThreads, MClean(r, t),
         NEW u \in MThreads, NEW w \in MThreads, MAims(u, r, t), MAims(w, r, t)
  PROVE  u = w
<1>1. ASSUME NEW q \in MThreads, MAims(q, r, t)
      PROVE  IF th[r].writing THEN q = r ELSE q = t
  <2>1. CASE th[q].writing
    BY <1>1, <2>1 DEF MAims, Shared!Register
  <2>2. CASE ~ th[q].writing
    <3>1. q = t /\ th[q].r = r /\ th[q].pc # "idle"
      BY <1>1, <2>2 DEF MAims, Shared!Register, Shared!Cell
    <3>2. ~ th[r].writing
      BY <2>2, <3>1 DEF MControlInv, Shared!Reading
    <3>. QED
      BY <3>1, <3>2
  <2>. QED
    BY <2>1, <2>2
<1>. QED
  BY <1>1

\* What a step does to the diagonal.
MStoresTo(t, r, c) == MStores(t) /\ Shared!Register(t) = r /\ Shared!Cell(t) = <<c, c>>

LEMMA MDiagonal ==
  ASSUME MTypeOK, MControlInv, NEW t \in MThreads, Shared!Thread(t),
         NEW r \in MThreads, NEW c \in MThreads
  PROVE  /\ ~ (MStoresTo(t, r, c) /\ th[t].pc = "value") =>
              cells'[r][<<c, c>>].value = cells[r][<<c, c>>].value /\ MVisible(r, c)' = MVisible(r, c)
         /\ ~ (MStoresTo(t, r, c) /\ th[t].pc = "stamp") =>
              cells'[r][<<c, c>>].stamp = cells[r][<<c, c>>].stamp
         /\ MStoresTo(t, r, c) => cells'[r][<<c, c>>].last = cells[r][<<c, c>>].last
         /\ MStoresTo(t, r, c) /\ th[t].pc = "value" =>
              cells'[r][<<c, c>>].value = <<th[t].st, th[t].val>>
         /\ MStoresTo(t, r, c) /\ th[t].pc = "stamp" => cells'[r][<<c, c>>].stamp = th[t].st
         /\ \/ cells'[r][<<c, c>>].last = cells[r][<<c, c>>].last
            \/ cells'[r][<<c, c>>].last = Shared!SRSWRead(cells[r][<<c, c>>])
<1>1. /\ cells'[r][<<c, c>>].value =
           IF th[t].pc = "value" /\ Shared!Register(t) = r /\ Shared!Cell(t) = <<c, c>>
           THEN <<th[t].st, th[t].val>> ELSE cells[r][<<c, c>>].value
      /\ cells'[r][<<c, c>>].stamp =
           IF th[t].pc = "stamp" /\ Shared!Register(t) = r /\ Shared!Cell(t) = <<c, c>>
           THEN th[t].st ELSE cells[r][<<c, c>>].stamp
      /\ cells'[r][<<c, c>>].last =
           IF MLoads(t, r, c, c) THEN Shared!SRSWRead(cells[r][<<c, c>>]) ELSE cells[r][<<c, c>>].last
  BY MCellSteps
<1>2. th[t].pc \in {"value", "stamp"} => MStores(t)
  BY MSteps DEF MStarts, MReads, MGoesOn, MReturnsRead, MBegins, MReturnsWrite, Shared!AllRead
<1>3. MStoresTo(t, r, c) => ~ MLoads(t, r, c, c)
  BY DEF MStoresTo, MStores, MLoads
<1>4. ASSUME ~ (MStoresTo(t, r, c) /\ th[t].pc = "value")
      PROVE  cells'[r][<<c, c>>].value = cells[r][<<c, c>>].value /\ MVisible(r, c)' = MVisible(r, c)
  <2>1. cells'[r][<<c, c>>].value = cells[r][<<c, c>>].value
    BY <1>1, <1>2, <1>4 DEF MStoresTo
  <2>2. PICK v \in Nat \X Nat, l \in Nat \X Nat : v = cells[r][<<c, c>>].value /\ l = cells[r][<<c, c>>].last
    BY MNumbers
  <2>3. v[1] \in Nat /\ l[1] \in Nat
    OBVIOUS
  <2>4. Shared!SRSWRead(cells[r][<<c, c>>]) = IF v[1] > l[1] THEN v ELSE l
    BY <2>2 DEF Shared!SRSWRead
  <2>5. Shared!SRSWRead(cells'[r][<<c, c>>]) = Shared!SRSWRead(cells[r][<<c, c>>])
    <3>1. cells'[r][<<c, c>>].last = l \/ cells'[r][<<c, c>>].last = IF v[1] > l[1] THEN v ELSE l
      BY <1>1, <2>2, <2>4
    <3>2. Shared!SRSWRead(cells'[r][<<c, c>>]) =
            IF v[1] > cells'[r][<<c, c>>].last[1] THEN v ELSE cells'[r][<<c, c>>].last
      BY <2>1, <2>2 DEF Shared!SRSWRead
    <3>. QED
      BY <2>3, <2>4, <3>1, <3>2
  <2>. QED
    BY <2>1, <2>5 DEF MVisible
<1>. QED
  BY <1>1, <1>2, <1>3, <1>4 DEF MStoresTo

LEMMA MCellNext ==
  ASSUME MInv, NEW t \in MThreads, Shared!Thread(t)
  PROVE  MCellInv'
<1>0. MTypeOK /\ MBoundInv /\ MControlInv /\ MCellInv
  BY DEF MInv
<1>1. /\ MStarts(t) \/ MReads(t) \/ MStores(t) \/ MGoesOn(t) \/ MReturnsRead(t) \/ MBegins(t)
         \/ MReturnsWrite(t)
      /\ \A u \in MThreads : u # t => th'[u] = th[u]
  BY <1>0, MSteps, MOthersStay
<1>2. ASSUME NEW r \in MThreads, NEW c \in MThreads, MClean(r, c)'
      PROVE  MCell(r, c)'
  <2>1. MClean(r, c) /\ MCell(r, c)
    BY <1>0, <1>2, MGrows DEF MCellInv
  <2>2. PICK v \in Nat \X Nat, l \in Nat \X Nat, s \in Nat :
          v = cells[r][<<c, c>>].value /\ l = cells[r][<<c, c>>].last /\ s = cells[r][<<c, c>>].stamp
    BY <1>0, MNumbers
  <2>3. v[1] \in Nat /\ l[1] \in Nat
    OBVIOUS
  <2>4. /\ l[1] <= v[1] /\ (l[1] = v[1] => l = v)
        /\ \A u \in MThreads : MAt(u, r, c) =>
             th[u].st = s + 1 /\ v[1] = IF th[u].pc = "value" THEN s ELSE s + 1
        /\ (\A u \in MThreads : ~ MAt(u, r, c)) => v[1] = s
    BY <2>1, <2>2 DEF MCell
  <2>5. \A u \in MThreads : u # t => (MAt(u, r, c)' <=> MAt(u, r, c)) /\ th'[u] = th[u]
    BY <1>1 DEF MAt, Shared!Register, Shared!Cell
  <2>6. SUFFICES
        ASSUME NEW vv \in Nat \X Nat, NEW ll \in Nat \X Nat, NEW ss \in Nat,
               vv = cells'[r][<<c, c>>].value, ll = cells'[r][<<c, c>>].last,
               ss = cells'[r][<<c, c>>].stamp
        PROVE  /\ ll[1] <= vv[1] /\ (ll[1] = vv[1] => ll = vv)
               /\ \A u \in MThreads : MAt(u, r, c)' =>
                    th'[u].st = ss + 1 /\ vv[1] = IF th'[u].pc = "value" THEN ss ELSE ss + 1
               /\ (\A u \in MThreads : ~ MAt(u, r, c)') => vv[1] = ss
    <3>1. cells' \in [MThreads -> [MThreads \X MThreads -> MCells]]
      BY <1>0, MCellSteps
    <3>2. cells'[r] \in [MThreads \X MThreads -> MCells] /\ <<c, c>> \in MThreads \X MThreads
      BY <3>1
    <3>3. cells'[r][<<c, c>>] \in MCells
      BY <3>2
    <3>4. PICK vv \in Nat \X Nat, ll \in Nat \X Nat, ss \in Nat :
            vv = cells'[r][<<c, c>>].value /\ ll = cells'[r][<<c, c>>].last
            /\ ss = cells'[r][<<c, c>>].stamp
      BY <3>3 DEF MCells
    <3>. QED
      BY <2>6, <3>4 DEF MCell
  <2>7. CASE ~ MStoresTo(t, r, c)
    <3>1. vv = v /\ ss = s
      BY <1>0, <2>2, <2>6, <2>7, MDiagonal
    <3>2. ~ MAt(t, r, c)
      <4>1. th[t].pc \in {"value", "stamp"} => MStores(t)
        BY <1>1 DEF MStarts, MReads, MGoesOn, MReturnsRead, MBegins, MReturnsWrite, Shared!AllRead
      <4>. QED
        BY <2>7, <4>1 DEF MAt, MStoresTo
    <3>3. ~ MAt(t, r, c)'
      <4>1. th'[t].pc \in {"value", "stamp"} => MStores(t) /\ th'[t].i = th[t].i
        BY <1>1 DEF MStarts, MReads, MStores, MGoesOn, MReturnsRead, MBegins, MReturnsWrite
      <4>2. MStores(t) /\ th'[t].i = th[t].i =>
              Shared!Register(t)' = Shared!Register(t) /\ Shared!Cell(t)' = Shared!Cell(t)
        BY DEF MStores, MSame, Shared!Register, Shared!Cell
      <4>. QED
        BY <2>7, <4>1, <4>2 DEF MAt, MStoresTo
    <3>4. ll = l \/ ll = IF v[1] > l[1] THEN v ELSE l
      BY <1>0, <2>2, <2>6, MDiagonal DEF Shared!SRSWRead
    <3>5. ll[1] <= vv[1] /\ (ll[1] = vv[1] => ll = vv)
      BY <2>3, <2>4, <3>1, <3>4
    <3>. QED
      BY <2>4, <2>5, <3>1, <3>2, <3>3, <3>5
  <2>8. CASE MStoresTo(t, r, c)
    <3>1. ll = l
      BY <1>0, <2>2, <2>6, <2>8, MDiagonal
    <3>2. MAims(t, r, c)
      BY <2>8 DEF MStoresTo, MStores, MAims
    <3>3. \A u \in MThreads : u # t => ~ MAt(u, r, c)
      BY <1>0, <2>1, <3>2, MOneWriter DEF MAims, MAt
    <3>4. \A u \in MThreads : u # t => ~ MAt(u, r, c)'
      BY <2>5, <3>3
    <3>5. CASE th[t].pc = "load"
      <4>1. vv = v /\ ss = s
        BY <1>0, <2>2, <2>6, <3>5, MDiagonal
      <4>2. v[1] = s
        BY <2>4, <3>3, <3>5 DEF MAt
      <4>3. th'[t].pc = "value" /\ th'[t].st = s + 1
        BY <2>2, <2>8, <3>5 DEF MStoresTo, MStores
      <4>4. MAt(t, r, c)'
        BY <2>8, <3>5 DEF MStoresTo, MStores, MSame, MAt, Shared!Register, Shared!Cell
      <4>. QED
        BY <2>3, <2>4, <3>1, <3>4, <4>1, <4>2, <4>3, <4>4
    <3>6. CASE th[t].pc = "value"
      <4>1. vv = <<th[t].st, th[t].val>> /\ ss = s
        BY <1>0, <2>2, <2>6, <2>8, <3>6, MDiagonal
      <4>2. MAt(t, r, c)
        BY <2>8, <3>6 DEF MStoresTo, MAt
      <4>3. th[t].st = s + 1 /\ v[1] = s
        BY <2>4, <3>6, <4>2
      <4>4. vv[1] = s + 1
        BY <4>1, <4>3
      <4>5. th'[t].pc = "stamp" /\ th'[t].st = s + 1
        BY <2>8, <3>6, <4>3 DEF MStoresTo, MStores
      <4>6. MAt(t, r, c)'
        BY <2>8, <3>6 DEF MStoresTo, MStores, MSame, MAt, Shared!Register, Shared!Cell
      <4>7. ll[1] <= vv[1] /\ ll[1] # vv[1]
        BY <2>3, <2>4, <3>1, <4>3, <4>4
      <4>. QED
        BY <3>4, <4>1, <4>4, <4>5, <4>6, <4>7
    <3>7. CASE th[t].pc = "stamp"
      <4>1. vv = v /\ ss = th[t].st
        BY <1>0, <2>2, <2>6, <2>8, <3>7, MDiagonal
      <4>2. MAt(t, r, c)
        BY <2>8, <3>7 DEF MStoresTo, MAt
      <4>3. th[t].st = s + 1 /\ v[1] = s + 1
        BY <2>4, <3>7, <4>2
      <4>4. ~ MAt(t, r, c)'
        BY <2>8, <3>7 DEF MStoresTo, MStores, MAt
      <4>. QED
        BY <2>4, <3>1, <3>4, <4>1, <4>3, <4>4
    <3>. QED
      BY <2>8, <3>5, <3>6, <3>7 DEF MStoresTo, MStores
  <2>. QED
    BY <2>7, <2>8
<1>. QED
  BY <1>2 DEF MCellInv

LEMMA MFreshNext ==
  ASSUME MInv, NEW t \in MThreads, Shared!Thread(t)
  PROVE  MFreshInv'
<1>0. MTypeOK /\ MBoundInv /\ MControlInv /\ MCellInv /\ MFreshInv
  BY DEF MInv
<1>1. /\ MStarts(t) \/ MReads(t) \/ MStores(t) \/ MGoesOn(t) \/ MReturnsRead(t) \/ MBegins(t)
         \/ MReturnsWrite(t)
      /\ \A u \in MThreads : u # t => th'[u] = th[u]
  BY <1>0, MSteps, MOthersStay
<1>2. ASSUME NEW r \in MThreads, NEW c \in MThreads, MClean(r, c)'
      PROVE  MFresh(r, c)'
  <2>1. MClean(r, c)
    BY <1>0, <1>2, MGrows
  <2>2. /\ ~ th[r].writing => MVisible(r, c) = MLen(r)
        /\ th[r].writing /\ (c < th[r].i \/ (c = th[r].i /\ th[r].pc = "stamp")) => MVisible(r, c) = MLen(r)
        /\ Shared!Reading(c, r) /\ MHolds(c) => th[c].val = MLen(r)
        /\ Shared!Reading(c, r) => ~ th[r].writing
        /\ th[r].writing => th[r].pc \in {"load", "value", "stamp"} /\ th[r].val = MLen(r)
    BY <1>0, <2>1 DEF MFreshInv, MFresh, MControlInv
  <2>3. r # t \/ ~ MBegins(t) => MLen(r)' = MLen(r)
    BY <1>0, MGrows
  <2>4. /\ th[r].i \in Int /\ th[r].i <= Sharers /\ 0 <= th[r].i /\ MLen(r) \in Nat
        /\ c \in Int /\ 0 <= c /\ c < Sharers /\ Sharers \in Int
    <3>1. th[r].i \in Int /\ th[r].i <= Sharers /\ 0 <= th[r].i /\ MLen(r) \in Nat
      BY <1>0, MNumbers
    <3>2. c \in Int /\ 0 <= c /\ c < Sharers /\ Sharers \in Int
      BY MBasics
    <3>. QED
      BY <3>1, <3>2
  <2>5. MVisible(r, c)' = MVisible(r, c) \/ MVisible(r, c)' = MLen(r)
    <3>1. CASE MStoresTo(t, r, c) /\ th[t].pc = "value"
      <4>1. PICK v \in Nat \X Nat, l \in Nat \X Nat, s \in Nat :
              v = cells[r][<<c, c>>].value /\ l = cells[r][<<c, c>>].last /\ s = cells[r][<<c, c>>].stamp
        BY <1>0, MNumbers
      <4>2. l[1] <= v[1] /\ th[t].st = s + 1 /\ v[1] = s
        BY <1>0, <2>1, <3>1, <4>1 DEF MCellInv, MCell, MStoresTo, MAt
      <4>3. cells'[r][<<c, c>>].value = <<th[t].st, th[t].val>> /\ cells'[r][<<c, c>>].last = l
        BY <1>0, <3>1, <4>1, MDiagonal
      <4>4. th[t].st > l[1]
        BY <4>1, <4>2
      <4>5. MVisible(r, c)' = th[t].val
        BY <4>3, <4>4 DEF MVisible, Shared!SRSWRead
      <4>6. th[t].val = MLen(r)
        <5>1. CASE th[t].writing
          BY <2>2, <3>1, <5>1 DEF MStoresTo, Shared!Register
        <5>2. CASE ~ th[t].writing
          BY <2>2, <3>1, <5>2 DEF MStoresTo, Shared!Register, Shared!Cell, Shared!Reading, MHolds
        <5>. QED
          BY <5>1, <5>2
      <4>. QED
        BY <4>5, <4>6
    <3>2. CASE ~ (MStoresTo(t, r, c) /\ th[t].pc = "value")
      BY <1>0, <3>2, MDiagonal
    <3>. QED
      BY <3>1, <3>2
  <2>6. MVisible(r, c) = MLen(r) => MVisible(r, c)' = MLen(r)
    BY <2>5
  <2>7. ~ th'[r].writing => MVisible(r, c)' = MLen(r)'
    <3>1. ASSUME ~ th'[r].writing PROVE MVisible(r, c) = MLen(r) /\ MLen(r)' = MLen(r)
      <4>1. r # t \/ ~ MBegins(t)
        BY <3>1 DEF MBegins
      <4>2. CASE ~ th[r].writing
        BY <2>2, <2>3, <4>1, <4>2
      <4>3. CASE th[r].writing
        <5>1. r = t
          BY <1>1, <3>1, <4>3
        <5>2. MReturnsWrite(t)
          BY <1>1, <2>2, <3>1, <4>3, <5>1 DEF MStarts, MReads, MStores, MSame, MGoesOn, MReturnsRead,
             MBegins, Shared!AllRead
        <5>3. c < th[r].i
          BY <2>4, <5>1, <5>2 DEF MReturnsWrite
        <5>. QED
          BY <2>2, <2>3, <4>1, <4>3, <5>3
      <4>. QED
        BY <4>2, <4>3
    <3>. QED
      BY <2>6, <3>1
  <2>8. th'[r].writing /\ (c < th'[r].i \/ (c = th'[r].i /\ th'[r].pc = "stamp"))
          => MVisible(r, c)' = MLen(r)'
    <3>1. ASSUME th'[r].writing, c < th'[r].i \/ (c = th'[r].i /\ th'[r].pc = "stamp")
          PROVE  MVisible(r, c)' = MLen(r)'
      <4>1. CASE r # t
        BY <1>1, <2>2, <2>3, <2>6, <3>1, <4>1
      <4>2. CASE r = t /\ MBegins(t)
        BY <2>4, <3>1, <4>2 DEF MBegins
      <4>3. CASE r = t /\ MStores(t)
        <5>0. th[t].writing /\ MLen(r)' = MLen(r)
          BY <3>1, <4>3, <2>3 DEF MStores, MSame, MRest, MLen
        <5>1. CASE th[t].pc = "load"
          <6>1. c < th[r].i
            BY <2>4, <3>1, <4>3, <5>1 DEF MStores
          <6>. QED
            BY <2>2, <2>6, <4>3, <5>0, <6>1
        <5>2. CASE th[t].pc = "value" /\ c # th[t].i
          <6>1. c < th[r].i
            BY <2>4, <3>1, <4>3, <5>2 DEF MStores
          <6>. QED
            BY <2>2, <2>6, <4>3, <5>0, <6>1
        <5>3. CASE th[t].pc = "value" /\ c = th[t].i
          <6>1. MStoresTo(t, r, c)
            BY <4>3, <5>0, <5>3 DEF MStoresTo, Shared!Register, Shared!Cell
          <6>2. PICK v \in Nat \X Nat, l \in Nat \X Nat, s \in Nat :
                  v = cells[r][<<c, c>>].value /\ l = cells[r][<<c, c>>].last /\ s = cells[r][<<c, c>>].stamp
            BY <1>0, MNumbers
          <6>3. l[1] <= v[1] /\ th[t].st = s + 1 /\ v[1] = s
            BY <1>0, <2>1, <5>3, <6>1, <6>2 DEF MCellInv, MCell, MStoresTo, MAt
          <6>4. cells'[r][<<c, c>>].value = <<th[t].st, th[t].val>> /\ cells'[r][<<c, c>>].last = l
            BY <1>0, <5>3, <6>1, <6>2, MDiagonal
          <6>5. th[t].st > l[1]
            BY <6>2, <6>3
          <6>6. MVisible(r, c)' = th[t].val
            BY <6>4, <6>5 DEF MVisible, Shared!SRSWRead
          <6>. QED
            BY <2>2, <4>3, <5>0, <6>6
        <5>4. CASE th[t].pc = "stamp"
          <6>1. c < th[r].i \/ (c = th[r].i /\ th[r].pc = "stamp")
            BY <2>4, <3>1, <4>3, <5>4 DEF MStores
          <6>. QED
            BY <2>2, <2>6, <4>3, <5>0, <6>1
        <5>. QED
          BY <4>3, <5>1, <5>2, <5>3, <5>4 DEF MStores
      <4>. QED
        BY <1>1, <2>2, <3>1, <4>1, <4>2, <4>3 DEF MStarts, MReads, MSame, MGoesOn, MReturnsRead, MReturnsWrite
    <3>. QED
      BY <3>1
  <2>9. Shared!Reading(c, r)' /\ MHolds(c)' => th'[c].val = MLen(r)'
    <3>1. ASSUME Shared!Reading(c, r)', MHolds(c)' PROVE th'[c].val = MLen(r)'
      <4>0. /\ th'[c].pc \in {"column", "load", "value", "stamp"} /\ ~ th'[c].writing /\ th'[c].r = r
        BY <3>1 DEF Shared!Reading, MHolds
      <4>1. CASE c # t
        <5>1. th'[c] = th[c]
          BY <1>1, <4>1
        <5>2. Shared!Reading(c, r) /\ MHolds(c)
          BY <4>0, <5>1 DEF Shared!Reading, MHolds
        <5>3. r # t \/ ~ MBegins(t)
          BY <1>2, <4>1, <5>2 DEF MBegins, MClean, MThreads
        <5>. QED
          BY <2>2, <2>3, <5>1, <5>2, <5>3
      <4>2. CASE c = t
        <5>1. MReads(t) \/ MStores(t)
          BY <1>1, <4>0, <4>2 DEF MStarts, MGoesOn, MReturnsRead, MBegins, MReturnsWrite
        <5>2. MLen(r)' = MLen(r) /\ th[t].r = r /\ ~ th[t].writing
          BY <4>0, <4>2, <5>1 DEF MReads, MStores, MRest, MSame, MLen
        <5>3. Shared!Reading(c, r)
          BY <4>2, <5>1, <5>2 DEF MReads, MStores, Shared!Reading
        <5>4. CASE th[t].pc = "own"
          <6>1. th'[t].val = MVisible(r, c)
            BY <4>2, <5>1, <5>2, <5>4 DEF MReads, MStores
          <6>. QED
            BY <2>2, <4>2, <5>2, <5>3, <6>1
        <5>5. CASE th[t].pc = "column"
          <6>0. th[t].i \in MThreads
            BY <1>0, <5>5, MTargets DEF MControlInv
          <6>1. PICK v \in Nat : v = Shared!SRSWRead(cells[r][<<th[t].i, t>>])[2] /\ v <= MLen(r)
            BY <1>0, <6>0, MLoaded
          <6>2. th'[t].val = IF th[t].val > v THEN th[t].val ELSE v
            BY <5>1, <5>2, <5>5, <6>1 DEF MReads, MStores
          <6>3. th[t].val = MLen(r)
            BY <2>2, <4>2, <5>3, <5>5 DEF MHolds
          <6>. QED
            BY <2>4, <4>2, <5>2, <6>1, <6>2, <6>3
        <5>6. CASE MStores(t)
          BY <2>2, <4>2, <5>2, <5>3, <5>6 DEF MStores, MHolds
        <5>. QED
          BY <5>1, <5>4, <5>5, <5>6 DEF MReads
      <4>. QED
        BY <4>1, <4>2
    <3>. QED
      BY <3>1
  <2>. QED
    BY <2>7, <2>8, <2>9 DEF MFresh
<1>. QED
  BY <1>2 DEF MFreshInv

\* A write that was begun stays one.
LEMMA MBegunStays ==
  ASSUME MTypeOK, NEW t \in MThreads, Shared!Thread(t), NEW e \in Nat \X Nat, MBegun(e)
  PROVE  MBegun(e)' /\ e[2] \in MThreads
<1>1. PICK r \in MThreads, k \in Nat : 0 < k /\ k <= MLen(r) /\ e = <<written[r][k], r>>
  BY DEF MBegun
<1>2. MLen(r) \in Nat /\ MLen(r)' >= MLen(r) /\ written'[r][k] = written[r][k]
  BY <1>1, MGrows, MNumbers
<1>3. k <= MLen(r)'
  <2>1. MLen(r)' = MLen(r) \/ MLen(r)' = MLen(r) + 1
    BY MGrows
  <2>. QED
    BY <1>1, <1>2, <2>1
<1>4. e = <<written'[r][k], r>>
  BY <1>1, <1>2
<1>. QED
  BY <1>1, <1>3, <1>4 DEF MBegun

\* What a clean reader of a register has come across when the read ends is as
\* new as anything begun in it.
LEMMA MGreatestIsFresh ==
  ASSUME MInv, NEW t \in MThreads, th[t].pc = "load", ~ th[t].writing, MClean(th[t].r, t)
  PROVE  /\ Shared!Above(Shared!Greatest(t), MLatest(th[t].r))
         /\ \A e \in Nat \X Nat : MBegun(e) /\ e[2] = th[t].r => Shared!Above(Shared!Greatest(t), e)
<1>0. MTypeOK /\ MBoundInv /\ MFreshInv /\ MOrderInv
  BY DEF MInv
<1>1. PICK r \in MThreads : r = th[t].r
  BY <1>0, MNumbers
<1>2. th[t].val = MLen(r)
  BY <1>0, <1>1 DEF MFreshInv, MFresh, Shared!Reading, MHolds
<1>3. PICK w \in Nat \X Nat, g \in Nat \X Nat :
        /\ w = <<written[r][MLen(r)], r>> /\ g = Shared!Greatest(t) /\ Shared!Above(g, w)
  BY <1>0, <1>1, <1>2, MGreatest
<1>4. ASSUME NEW e \in Nat \X Nat, MBegun(e), e[2] = r PROVE Shared!Above(g, e)
  <2>1. PICK q \in MThreads, k \in Nat : 0 < k /\ k <= MLen(q) /\ e = <<written[q][k], q>>
    BY <1>4 DEF MBegun
  <2>2. q = r
    BY <1>4, <2>1
  <2>3. MLen(r) \in Nat /\ written[r][k] \in Nat /\ written[r][MLen(r)] \in Nat
    BY <1>0, <2>1, <2>2, MNumbers
  <2>4. written[r][k] <= written[r][MLen(r)]
    <3>1. CASE k = MLen(r)
      BY <2>3, <3>1
    <3>2. CASE k < MLen(r)
      BY <1>0, <2>1, <2>2, <2>3, <3>2 DEF MOrderInv
    <3>. QED
      BY <2>1, <2>2, <2>3, <3>1, <3>2
  <2>5. r \in Nat
    BY MBasics
  <2>6. Shared!Above(w, e)
    BY <1>3, <2>1, <2>2, <2>3, <2>4, <2>5 DEF Shared!Above
  <2>. QED
    BY <1>3, <2>6, MAboveOrder
<1>. QED
  BY <1>1, <1>3, <1>4 DEF MLatest

\* Past a register, a read has come across its own last write, and a clean
\* read the write that had ended when it began.
LEMMA MPast ==
  ASSUME MInv, NEW t \in MThreads, th[t].pc = "load", ~ th[t].writing
  PROVE  /\ Shared!Greatest(t) \in Nat \X Nat /\ MBegun(Shared!Greatest(t))
         /\ th[t].r >= t => Shared!Above(Shared!Greatest(t), MLatest(t))
         /\ MClean(th[t].since[2], t) /\ th[t].r >= th[t].since[2]
              => Shared!Above(Shared!Greatest(t), th[t].since)
<1>0. MTypeOK /\ MBoundInv /\ MControlInv /\ MOrderInv
  BY DEF MInv
<1>1. PICK r \in MThreads, m \in Nat \X Nat, e \in Nat \X Nat, g \in Nat \X Nat :
        r = th[t].r /\ m = th[t].max /\ e = th[t].since /\ g = Shared!Greatest(t) /\ Shared!Above(g, m)
  BY <1>0, MNumbers, MGreatest
<1>2. MReading(t) /\ MBegun(m) /\ MBegun(e)
  BY <1>0, <1>1 DEF MReading, MOrderInv
<1>3. MBegun(g)
  <2>1. CASE g = m
    BY <1>2, <2>1
  <2>2. CASE g = <<written[r][th[t].val], r>>
    <3>1. th[t].val \in Nat /\ 0 < th[t].val /\ th[t].val <= MLen(r)
      BY <1>0, <1>1, MNumbers DEF MBoundInv, MHolds, Shared!Register
    <3>. QED
      BY <2>2, <3>1 DEF MBegun
  <2>. QED
    BY <1>0, <1>1, <2>1, <2>2, MGreatest
<1>4. ASSUME r >= t PROVE Shared!Above(g, MLatest(t))
  <2>1. PICK l \in Nat \X Nat : l = MLatest(t)
    <3>1. written[t][MLen(t)] \in Nat
      BY <1>0, MNumbers
    <3>2. t \in Nat
      BY MBasics
    <3>. QED
      BY <3>1, <3>2 DEF MLatest
  <2>2. CASE r = t
    BY <1>0, <1>1, <2>2, MGreatestIsFresh DEF MControlInv
  <2>3. CASE r > t
    <3>1. Shared!Above(m, l)
      BY <1>0, <1>1, <1>2, <2>1, <2>3 DEF MOrderInv
    <3>. QED
      BY <1>1, <2>1, <3>1, MAboveOrder
  <2>. QED
    BY <1>4, <2>2, <2>3, MBasics
<1>5. ASSUME MClean(e[2], t), r >= e[2] PROVE Shared!Above(g, e)
  <2>1. e[2] \in Nat /\ r \in Nat
    BY MBasics
  <2>2. CASE r = e[2]
    BY <1>1, <1>2, <1>5, <2>2, MGreatestIsFresh
  <2>3. CASE r > e[2]
    <3>1. Shared!Above(m, e)
      BY <1>0, <1>1, <1>5, <2>3 DEF MOrderInv
    <3>. QED
      BY <1>1, <3>1, MAboveOrder
  <2>. QED
    BY <1>5, <2>1, <2>2, <2>3
<1>. QED
  BY <1>1, <1>3, <1>4, <1>5

LEMMA MOrderNext ==
  ASSUME MInv, NEW t \in MThreads, Shared!Thread(t)
  PROVE  MOrderInv'
<1>0. MTypeOK /\ MBoundInv /\ MControlInv /\ MOrderInv
  BY DEF MInv
<1>1. /\ MStarts(t) \/ MReads(t) \/ MStores(t) \/ MGoesOn(t) \/ MReturnsRead(t) \/ MBegins(t)
         \/ MReturnsWrite(t)
      /\ \A u \in MThreads : u # t => th'[u] = th[u]
  BY <1>0, MSteps, MOthersStay
<1>2. PICK m \in Nat \X Nat, e \in Nat \X Nat, d \in Nat \X Nat, o \in Nat \X Nat :
        m = th[t].max /\ e = th[t].since /\ d = ended /\ o = <<0, 0>>
  <2>1. <<0, 0>> \in Nat \X Nat
    OBVIOUS
  <2>. QED
    BY <1>0, <2>1, MNumbers DEF MTypeOK
<1>3. MBegun(d) /\ MBegun(e) /\ MBegun(o) /\ (MReading(t) => MBegun(m)) /\ (th[t].writing => MBegun(m))
  <2>1. th[t].writing => MBegun(m)
    <3>1. MLen(t) \in Nat /\ 0 < MLen(t) /\ MLen(t) <= MLen(t)
      BY <1>0, MNumbers
    <3>2. th[t].writing => m = <<written[t][MLen(t)], t>>
      BY <1>0, <1>2 DEF MOrderInv, MLatest
    <3>. QED
      BY <3>1, <3>2 DEF MBegun
  <2>. QED
    BY <1>0, <1>2, <2>1 DEF MOrderInv, Shared!Oldest
<1>4. MBegun(d)' /\ MBegun(e)' /\ MBegun(o)' /\ (MReading(t) => MBegun(m)') /\ (th[t].writing => MBegun(m)')
      /\ d[2] \in MThreads /\ e[2] \in MThreads
  BY <1>0, <1>3, MBegunStays
<1>5. ASSUME th[t].pc = "load", ~ th[t].writing
      PROVE  \E g \in Nat \X Nat :
               /\ g = Shared!Greatest(t) /\ MBegun(g) /\ MBegun(g)' /\ Shared!Above(g, m)
               /\ th[t].r >= t => Shared!Above(g, MLatest(t))
               /\ MClean(e[2], t) /\ th[t].r >= e[2] => Shared!Above(g, e)
  <2>1. PICK g \in Nat \X Nat :
               /\ g = Shared!Greatest(t) /\ MBegun(g) /\ Shared!Above(g, m)
               /\ th[t].r >= t => Shared!Above(g, MLatest(t))
               /\ MClean(e[2], t) /\ th[t].r >= e[2] => Shared!Above(g, e)
    BY <1>0, <1>2, <1>5, MPast, MGreatest
  <2>2. MBegun(g)'
    BY <1>0, <2>1, MBegunStays
  <2>. QED
    BY <2>1, <2>2
<1>6. /\ th[t].r \in Int /\ t \in Int /\ Sharers \in Int /\ t < Sharers /\ d[2] \in Nat /\ e[2] < Sharers
      /\ 0 <= t /\ e[2] \in Nat /\ th[t].writing \in BOOLEAN
  <2>1. t \in MThreads /\ e[2] \in MThreads /\ d[2] \in MThreads /\ th[t].r \in MThreads
    BY <1>0, <1>4, MNumbers
  <2>. QED
    BY <1>0, <2>1, MBasics, MNumbers
\* Stamps grow.
<1>7. ASSUME NEW r \in MThreads, NEW k \in Nat, NEW l \in Nat, 0 < k, k < l, l <= MLen(r)'
      PROVE  written'[r][k] < written'[r][l]
  <2>1. MLen(r) \in Nat /\ \A a \in Nat : 0 < a /\ a <= MLen(r) => written[r][a] \in Nat
    BY <1>0, MNumbers
  <2>2. \A a, b \in Nat : 0 < a /\ a < b /\ b <= MLen(r) => written[r][a] < written[r][b]
    BY <1>0 DEF MOrderInv
  <2>3. \A a \in Nat : 0 < a /\ a <= MLen(r) => written'[r][a] = written[r][a]
    BY <1>0, MGrows
  <2>4. CASE l <= MLen(r)
    BY <1>7, <2>1, <2>2, <2>3, <2>4
  <2>5. CASE l > MLen(r)
    <3>1. r = t /\ MBegins(t)
      BY <1>0, <1>7, <2>1, <2>5, MGrows
    <3>2. MLen(t)' = MLen(t) + 1 /\ written'[t][MLen(t) + 1] = Shared!Greatest(t)[1] + 1
      BY <1>0, <3>1, MGrows
    <3>3. l = MLen(t) + 1 /\ 0 < MLen(t) /\ k <= MLen(t)
      <4>1. MLen(t) \in Nat /\ 0 < MLen(t)
        BY <1>0, MNumbers
      <4>2. l > MLen(t) /\ l <= MLen(t) + 1
        BY <1>7, <2>5, <3>1, <3>2
      <4>. QED
        BY <1>7, <4>1, <4>2
    <3>4. PICK g \in Nat \X Nat : g = Shared!Greatest(t) /\ (th[t].r >= t => Shared!Above(g, MLatest(t)))
      BY <1>5, <3>1 DEF MBegins, Shared!AllRead
    <3>5. Shared!Above(g, MLatest(t))
      BY <1>6, <3>1, <3>4 DEF MBegins, Shared!AllRead
    <3>6. PICK w \in Nat : w = written[t][MLen(t)]
      BY <2>1, <3>1, <3>3
    <3>7. g[1] \in Nat /\ g[1] >= w
      BY <3>5, <3>6 DEF Shared!Above, MLatest
    <3>8. PICK x \in Nat : x = written[t][k]
      BY <1>7, <2>1, <3>1, <3>3
    <3>9. x <= w
      <4>1. CASE k = MLen(t)
        BY <3>6, <3>8, <4>1
      <4>2. CASE k < MLen(t)
        BY <1>7, <2>1, <2>2, <3>1, <3>6, <3>8, <4>2
      <4>. QED
        BY <2>1, <3>1, <3>3, <4>1, <4>2
    <3>10. written'[r][k] = x
      BY <1>7, <2>3, <3>1, <3>3, <3>8
    <3>11. written'[r][l] = g[1] + 1
      BY <3>1, <3>2, <3>3, <3>4
    <3>. QED
      BY <3>7, <3>9, <3>10, <3>11
  <2>. QED
    BY <2>1, <1>7, <2>4, <2>5
<1>8. MBegun(ended)' /\ MBegun(Shared!Oldest)'
  <2>1. PICK x \in Nat \X Nat : x = ended' /\ MBegun(x)'
    <3>1. CASE ended' = d
      BY <1>4, <3>1
    <3>2. CASE MReturnsRead(t)
      <4>1. PICK g \in Nat \X Nat : g = Shared!Greatest(t) /\ MBegun(g)'
        BY <1>5, <3>2 DEF MReturnsRead, Shared!AllRead
      <4>2. ended' = g \/ ended' = d
        BY <1>2, <3>2, <4>1, MAboveOrder DEF MReturnsRead
      <4>. QED
        BY <1>4, <4>1, <4>2
    <3>3. CASE MReturnsWrite(t)
      <4>1. ended' = m \/ ended' = d
        BY <1>2, <3>3, MAboveOrder DEF MReturnsWrite
      <4>. QED
        BY <1>4, <3>3, <4>1 DEF MReturnsWrite
    <3>. QED
      BY <1>1, <1>2, <3>1, <3>2, <3>3 DEF MStarts, MReads, MStores, MRest, MGoesOn, MBegins
  <2>. QED
    BY <1>2, <1>4, <2>1 DEF MBegun, Shared!Oldest
\* The locals of one thread.
<1>9. ASSUME NEW u \in MThreads
      PROVE  /\ MBegun(th[u].since)' /\ (MReading(u)' => MBegun(th[u].max)')
             /\ th'[u].writing => th'[u].max = MLatest(u)'
             /\ MReading(u)' /\ th'[u].r > u => Shared!Above(th'[u].max, MLatest(u)')
             /\ MClean(th[u].since[2], u)' /\ (MReading(u)' => th'[u].r > th'[u].since[2])
                  => Shared!Above(th'[u].max, th'[u].since)
  <2>1. CASE u # t
    <3>1. th'[u] = th[u] /\ MLen(u)' = MLen(u) /\ written'[u] = written[u]
      BY <1>0, <1>1, <2>1, MGrows
    <3>2. PICK x \in Nat \X Nat, y \in Nat \X Nat : x = th[u].max /\ y = th[u].since
      BY <1>0, MNumbers
    <3>3. MBegun(y) /\ (MReading(u) => MBegun(x))
      BY <1>0, <3>2 DEF MOrderInv
    <3>4. MBegun(y)' /\ (MReading(u) => MBegun(x)')
      BY <1>0, <3>3, MBegunStays
    <3>5. (MReading(u)' <=> MReading(u)) /\ MLatest(u)' = MLatest(u)
      BY <3>1 DEF MReading, MLatest
    <3>6. MBegun(th[u].since)' /\ (MReading(u)' => MBegun(th[u].max)')
      BY <3>1, <3>2, <3>4, <3>5 DEF MBegun
    <3>7. y[2] \in MThreads
      BY <1>0, <3>3, MBegunStays
    <3>8. MClean(th[u].since[2], u)' => MClean(th[u].since[2], u)
      <4>1. MClean(y[2], u)' => MClean(y[2], u)
        BY <1>0, <3>7, MGrows
      <4>. QED
        BY <3>1, <3>2, <4>1 DEF MClean
    <3>. QED
      BY <1>0, <3>1, <3>5, <3>6, <3>8 DEF MOrderInv
  <2>2. CASE u = t
    <3>0. /\ \A q \in MThreads : MClean(q, t)' => MClean(q, t)
          /\ ~ MBegins(t) => MLatest(t)' = MLatest(t)
          /\ MBegins(t) => MLatest(t)' = <<Shared!Greatest(t)[1] + 1, t>>
      <4>1. ~ MBegins(t) => MLatest(t)' = MLatest(t)
        BY <1>0, MGrows DEF MLatest
      <4>2. MBegins(t) => MLatest(t)' = <<Shared!Greatest(t)[1] + 1, t>>
        BY <1>0, MGrows DEF MLatest
      <4>. QED
        BY <1>0, <4>1, <4>2, MGrows
    <3>9. /\ th[t].writing => m = MLatest(t)
          /\ MReading(t) /\ th[t].r > t => Shared!Above(m, MLatest(t))
          /\ MClean(e[2], t) /\ (MReading(t) => th[t].r > e[2]) => Shared!Above(m, e)
      BY <1>0, <1>2 DEF MOrderInv
    <3>1. CASE MStarts(t)
      <4>1. th'[t].max = o /\ th'[t].since = d /\ th'[t].r = 0 /\ th'[t].pc = "own" /\ ~ th'[t].writing
        BY <1>0, <1>2, <3>1 DEF MStarts, MControlInv
      <4>2. MBegun(th[t].since)' /\ MBegun(th[t].max)'
        BY <1>4, <4>1 DEF MBegun
      <4>3. MReading(t)' /\ ~ (th'[t].r > t) /\ ~ (th'[t].r > th'[t].since[2])
        BY <1>6, <4>1 DEF MReading
      <4>. QED
        BY <2>2, <4>1, <4>2, <4>3
    <3>2. CASE MReads(t) \/ MStores(t)
      <4>1. th'[t].max = m /\ th'[t].since = e /\ th'[t].r = th[t].r /\ th'[t].writing = th[t].writing
            /\ ~ MBegins(t)
        BY <1>2, <3>2 DEF MReads, MStores, MSame, MBegins, Shared!AllRead
      <4>2. MReading(t)' <=> MReading(t)
        BY <3>2, <4>1 DEF MReading, MReads, MStores
      <4>3. MBegun(th[t].since)' /\ (MReading(t)' => MBegun(th[t].max)')
        BY <1>4, <4>1, <4>2 DEF MBegun
      <4>4. MClean(e[2], t)' => MClean(e[2], t)
        BY <1>4, <3>0
      <4>5. MClean(th[t].since[2], t)' => MClean(e[2], t)
        BY <4>1, <4>4 DEF MClean
      <4>. QED
        BY <2>2, <3>0, <3>9, <4>1, <4>2, <4>3, <4>5
    <3>3. CASE MGoesOn(t)
      <4>0. PICK g \in Nat \X Nat :
               /\ g = Shared!Greatest(t) /\ MBegun(g)' /\ Shared!Above(g, m)
               /\ th[t].r >= t => Shared!Above(g, MLatest(t))
               /\ MClean(e[2], t) /\ th[t].r >= e[2] => Shared!Above(g, e)
        BY <1>5, <3>3 DEF MGoesOn
      <4>1. th'[t].max = g /\ th'[t].since = e /\ th'[t].r = th[t].r + 1 /\ ~ th'[t].writing
            /\ MLatest(t)' = MLatest(t) /\ MReading(t)'
        BY <1>2, <3>0, <3>3, <4>0 DEF MGoesOn, MBegins, MReading, Shared!AllRead
      <4>2. MBegun(th[t].since)' /\ MBegun(th[t].max)'
        BY <1>4, <4>0, <4>1 DEF MBegun
      <4>3. MClean(th[t].since[2], t)' => MClean(e[2], t)
        BY <1>4, <3>0, <4>1 DEF MClean
      <4>. QED
        BY <1>6, <2>2, <4>0, <4>1, <4>2, <4>3
    <3>4. CASE MReturnsRead(t)
      <4>0. PICK g \in Nat \X Nat :
               /\ g = Shared!Greatest(t) /\ MBegun(g)' /\ Shared!Above(g, m)
               /\ MClean(e[2], t) /\ th[t].r >= e[2] => Shared!Above(g, e)
        BY <1>5, <3>4 DEF MReturnsRead, Shared!AllRead
      <4>1. th'[t].max = g /\ th'[t].since = e /\ ~ th'[t].writing /\ ~ MReading(t)'
            /\ th[t].r = Sharers - 1
        BY <1>2, <3>4, <4>0 DEF MReturnsRead, MReading, Shared!AllRead
      <4>2. MBegun(th[t].since)'
        BY <1>4, <4>0, <4>1 DEF MBegun
      <4>3. MClean(th[t].since[2], t)' => MClean(e[2], t)
        BY <1>4, <3>0, <4>1 DEF MClean
      <4>. QED
        BY <1>6, <2>2, <4>0, <4>1, <4>2, <4>3
    <3>5. CASE MBegins(t)
      <4>0. PICK g \in Nat \X Nat :
               /\ g = Shared!Greatest(t) /\ MBegun(g)' /\ Shared!Above(g, m)
               /\ MClean(e[2], t) /\ th[t].r >= e[2] => Shared!Above(g, e)
        BY <1>5, <3>5 DEF MBegins, Shared!AllRead
      <4>1. th'[t].max = <<g[1] + 1, t>> /\ th'[t].since = e /\ th'[t].writing /\ ~ MReading(t)'
            /\ th[t].r = Sharers - 1
        BY <1>2, <3>5, <4>0 DEF MBegins, MReading, Shared!AllRead
      <4>2. MBegun(th[t].since)'
        BY <1>4, <4>0, <4>1 DEF MBegun
      <4>3. MClean(th[t].since[2], t)' => MClean(e[2], t)
        BY <1>4, <3>0, <4>1 DEF MClean
      <4>4. Shared!Above(g, e) => Shared!Above(th'[t].max, e)
        <5>1. g[1] \in Nat /\ e[1] \in Nat /\ th'[t].max[1] = g[1] + 1
          BY <4>1
        <5>. QED
          BY <5>1 DEF Shared!Above
      <4>5. th'[t].max = MLatest(t)'
        BY <3>0, <3>5, <4>0, <4>1
      <4>. QED
        BY <1>6, <2>2, <4>0, <4>1, <4>2, <4>3, <4>4, <4>5
    <3>6. CASE MReturnsWrite(t)
      <4>1. th'[t].max = m /\ th'[t].since = e /\ ~ th'[t].writing /\ ~ MReading(t)' /\ ~ MReading(t)
        BY <1>2, <3>6 DEF MReturnsWrite, MReading
      <4>2. MBegun(th[t].since)'
        BY <1>4, <4>1 DEF MBegun
      <4>3. MClean(th[t].since[2], t)' => MClean(e[2], t)
        BY <1>4, <3>0, <4>1 DEF MClean
      <4>. QED
        BY <2>2, <3>9, <4>1, <4>2, <4>3
    <3>. QED
      BY <1>1, <3>1, <3>2, <3>3, <3>4, <3>5, <3>6
  <2>. QED
    BY <2>1, <2>2
<1>. QED
  BY <1>7, <1>8, <1>9 DEF MOrderInv, Shared!Above

LEMMA MInit == Init => MInv
<1>. SUFFICES ASSUME Init PROVE MInv
  OBVIOUS
<1>. DEFINE D == MThreads \X MThreads
<1>1. /\ cells = [r \in MThreads |-> [c \in D |-> Shared!FreshCell(c[1], c[2])]]
      /\ written = [r \in MThreads |-> <<0>>]
      /\ th = [t \in MThreads |-> [pc |-> "idle", at |-> 0, writing |-> FALSE, r |-> 0, i |-> 0,
                                   val |-> 0, st |-> 0, max |-> <<0, 0>>, since |-> <<0, 0>>]]
      /\ ended = <<0, 0>> /\ doubtful = {}
  BY DEF Init, Shared!MRMWInit, Shared!Oldest, MThreads
<1>2. \A r, x, c \in MThreads : cells[r][<<x, c>>] = Shared!FreshCell(x, c)
  <2>1. \A r \in MThreads : cells[r] = [c \in D |-> Shared!FreshCell(c[1], c[2])]
    BY <1>1
  <2>2. \A x, c \in MThreads : <<x, c>> \in D
    OBVIOUS
  <2>. QED
    BY <2>1, <2>2
<1>3. \A x, c \in MThreads :
        IF x = c THEN Shared!FreshCell(x, c) = [value |-> <<2, 1>>, last |-> <<0, 0>>, stamp |-> 2]
                 ELSE Shared!FreshCell(x, c) = [value |-> <<1, 0>>, last |-> <<0, 0>>, stamp |-> 1]
  BY DEF Shared!FreshCell
<1>4. \A r \in MThreads : written[r] = <<0>> /\ MLen(r) = 1 /\ written[r][1] = 0
  BY <1>1 DEF MLen
<1>5. \A t \in MThreads :
        /\ th[t].pc = "idle" /\ ~ th[t].writing /\ th[t].max = <<0, 0>> /\ th[t].since = <<0, 0>>
        /\ ~ MHolds(t) /\ ~ MReading(t) /\ \A r \in MThreads : ~ Shared!Reading(t, r)
  BY <1>1 DEF MHolds, MReading, Shared!Reading
<1>6. MTypeOK
  <2>1. \A x, c \in MThreads : Shared!FreshCell(x, c) \in MCells
    BY <1>3 DEF MCells
  <2>2. cells \in [MThreads -> [D -> MCells]]
    <3>1. \A c \in D : c[1] \in MThreads /\ c[2] \in MThreads
      OBVIOUS
    <3>2. [c \in D |-> Shared!FreshCell(c[1], c[2])] \in [D -> MCells]
      BY <2>1, <3>1
    <3>. HIDE DEF D
    <3>. QED
      BY <1>1, <3>2
  <2>3. written \in [MThreads -> Seq(Nat)] /\ \A r \in MThreads : MLen(r) > 0
    BY <1>1, <1>4
  <2>4. th \in [MThreads -> MLocals]
    <3>1. 0 \in MThreads /\ 0 \in 0 .. Sharers
      BY MBasics
    <3>. QED
      BY <1>1, <3>1 DEF MLocals
  <2>. QED
    BY <1>1, <2>2, <2>3, <2>4 DEF MTypeOK
<1>7. MBoundInv
  <2>1. ASSUME NEW r \in MThreads, NEW x \in MThreads, NEW c \in MThreads
        PROVE  cells[r][<<x, c>>].value[2] <= MLen(r) /\ cells[r][<<x, c>>].last[2] <= MLen(r)
    <3>1. cells[r][<<x, c>>] = Shared!FreshCell(x, c) /\ MLen(r) = 1
      BY <1>2, <1>4
    <3>. QED
      BY <1>3, <3>1
  <2>2. ASSUME NEW r \in MThreads, NEW t \in MThreads
        PROVE  cells[r][<<t, t>>] = [value |-> <<2, 1>>, last |-> <<0, 0>>, stamp |-> 2]
    BY <1>2, <1>3
  <2>. QED
    BY <1>5, <2>1, <2>2 DEF MBoundInv
<1>8. MControlInv
  BY <1>1, <1>5 DEF MControlInv, MClean
<1>9. \A r, t \in MThreads : cells[r][<<t, t>>] = [value |-> <<2, 1>>, last |-> <<0, 0>>, stamp |-> 2]
  BY <1>2, <1>3
<1>10. MCellInv
  BY <1>5, <1>9 DEF MCellInv, MCell, MAt
<1>11. MFreshInv
  <2>1. \A r, t \in MThreads : MVisible(r, t) = 1
    <3>1. ASSUME NEW r \in MThreads, NEW t \in MThreads PROVE MVisible(r, t) = 1
      <4>1. PICK x : x = cells[r][<<t, t>>] /\ x = [value |-> <<2, 1>>, last |-> <<0, 0>>, stamp |-> 2]
        BY <1>9
      <4>2. x.value[1] = 2 /\ x.last[1] = 0 /\ x.value[2] = 1
        BY <4>1
      <4>. QED
        BY <4>1, <4>2 DEF MVisible, Shared!SRSWRead
    <3>. QED
      BY <3>1
  <2>. QED
    BY <1>4, <1>5, <2>1 DEF MFreshInv, MFresh
<1>12. MOrderInv
  <2>1. MBegun(<<0, 0>>)
    <3>1. 0 \in MThreads /\ 1 \in Nat /\ 0 < 1 /\ 1 <= MLen(0) /\ <<0, 0>> = <<written[0][1], 0>>
      BY <1>4, MBasics
    <3>. QED
      BY <3>1 DEF MBegun
  <2>2. \A r \in MThreads : \A k, l \in Nat :
          0 < k /\ k < l /\ l <= MLen(r) => written[r][k] < written[r][l]
    BY <1>4
  <2>3. MBegun(ended) /\ MBegun(Shared!Oldest) /\ \A t \in MThreads : MBegun(th[t].since)
    BY <1>1, <1>5, <2>1 DEF Shared!Oldest
  <2>. QED
    BY <1>5, <2>2, <2>3 DEF MOrderInv, Shared!Above
<1>. QED
  BY <1>6, <1>7, <1>8, <1>10, <1>11, <1>12 DEF MInv

LEMMA MNext ==
  MInv /\ [Next]_<<object, registerVars, sharedVars, snapVars>> => MInv'
<1>. SUFFICES ASSUME MInv, Next \/ UNCHANGED <<object, registerVars, sharedVars, snapVars>>
              PROVE  MInv'
  OBVIOUS
<1>1. ASSUME NEW t \in MThreads, Shared!Thread(t) PROVE MInv'
  BY <1>1, MTypeNext, MBoundNext, MControlNext, MCellNext, MFreshNext, MOrderNext DEF MInv
<1>2. ASSUME UNCHANGED sharedVars PROVE MInv'
  <2>0. /\ cells' = cells /\ written' = written /\ th' = th /\ ended' = ended /\ doubtful' = doubtful
        /\ MTypeOK /\ MBoundInv /\ MControlInv /\ MCellInv /\ MFreshInv /\ MOrderInv
    BY <1>2 DEF sharedVars, MInv
  <2>1. MTypeOK'
    BY <2>0 DEF MTypeOK, MLen
  <2>2. MBoundInv'
    BY <2>0 DEF MBoundInv, MLen, MHolds, Shared!Register
  <2>3. MControlInv'
    BY <2>0 DEF MControlInv, MLen, MClean, Shared!Reading
  <2>4. MCellInv'
    <3>1. ASSUME NEW r \in MThreads, NEW t \in MThreads, MClean(r, t)' PROVE MCell(r, t)'
      <4>1. MCell(r, t)
        BY <2>0, <3>1 DEF MCellInv, MClean
      <4>2. \A u \in MThreads : MAt(u, r, t)' <=> MAt(u, r, t)
        BY <2>0 DEF MAt, Shared!Register, Shared!Cell
      <4>. QED
        BY <2>0, <4>1, <4>2 DEF MCell
    <3>. QED
      BY <3>1 DEF MCellInv
  <2>5. MFreshInv'
    BY <2>0 DEF MFreshInv, MFresh, MClean, MVisible, MLen, MHolds, Shared!Reading, Shared!SRSWRead
  <2>6. MOrderInv'
    BY <2>0 DEF MOrderInv, MBegun, MLen, MLatest, MReading, MClean, Shared!Above, Shared!Oldest
  <2>. QED
    BY <2>1, <2>2, <2>3, <2>4, <2>5, <2>6 DEF MInv
<1>. QED
  BY <1>1, <1>2, MMoveOn

\* At every moment of a run of the register everybody writes (MRMW_Atomic), the
\* stamps of each thread grow, versions told along rows were written, and a
\* thread that never read register r while it was written finds its last write
\* on its own cell of the diagonal.
THEOREM SharedInvariant == Spec => []MInv
  BY MInit, MNext, PTL DEF Spec

LEMMA MInvImpliesSafety ==
  ASSUME MInv PROVE Shared!StampsGrow /\ Shared!NothingIsNull /\ Shared!ActionsAreFresh
<1>0. MTypeOK /\ MBoundInv /\ MOrderInv
  BY DEF MInv
<1>1. Shared!StampsGrow
  <2>1. ASSUME NEW r \in MThreads, NEW k \in 1 .. Len(written[r]) - 1
        PROVE  written[r][k] < written[r][k + 1]
    <3>1. MLen(r) \in Nat
      BY <1>0, MNumbers
    <3>2. k \in Nat /\ k + 1 \in Nat /\ 0 < k /\ k < k + 1 /\ k + 1 <= MLen(r)
      BY <3>1 DEF MLen
    <3>. QED
      BY <1>0, <3>2 DEF MOrderInv
  <2>. QED
    BY <2>1 DEF Shared!StampsGrow, MThreads
<1>2. Shared!NothingIsNull
  BY <1>0 DEF Shared!NothingIsNull, MBoundInv, MHolds, MThreads
<1>3. Shared!ActionsAreFresh
  <2>1. ASSUME NEW t \in MThreads, th[t].pc = "idle", \A r \in MThreads : MClean(r, t)
        PROVE  Shared!Above(th[t].max, th[t].since)
    <3>1. PICK r \in MThreads, k \in Nat : th[t].since = <<written[r][k], r>>
      BY <1>0 DEF MOrderInv, MBegun
    <3>2. MClean(th[t].since[2], t) /\ ~ MReading(t)
      BY <2>1, <3>1 DEF MReading
    <3>. QED
      BY <1>0, <3>2 DEF MOrderInv
  <2>. QED
    BY <2>1 DEF Shared!ActionsAreFresh, MClean, MThreads
<1>. QED
  BY <1>1, <1>2, <1>3

-----------------------------------------------------------------------------
\* For any number of threads, writes, reads, updates and scans: in the register
\* one thread writes every cell is atomic and a thread reads its own register's
\* last write; in the register everybody writes the stamps of a thread's writes
\* grow and nothing read is null; and a scan of either snapshot object is made
\* of tables that existed, after a bounded number of collects.
THEOREM AtomicObjectsSafety == Spec => []Safety
<1>1. NInv /\ RInv /\ MInv => Safety
  BY NInvImpliesSafety, RInvImpliesSafety, MInvImpliesSafety DEF Safety
<1>. QED
  BY <1>1, SnapshotInvariant, RegisterInvariant, SharedInvariant, PTL

\* A read of the register one thread writes returns no value older than one
\* written, or read by anyone, before it began, unless an earlier read of the
\* same thread overlapped a write; what a read of the register everybody writes
\* returns, and what a write writes, is no older than anything written or read
\* before it began, unless its thread has once read a register in a write.
THEOREM ReadsAreFreshHolds == Spec => []ReadsAreFresh
<1>1. RInv /\ MInv => ReadsAreFresh
  BY RInvImpliesSafety, MInvImpliesSafety DEF ReadsAreFresh
<1>. QED
  BY <1>1, RegisterInvariant, SharedInvariant, PTL
=============================================================================
