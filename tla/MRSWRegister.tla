---------------------------- MODULE MRSWRegister ----------------------------
(***************************************************************************)
(* MRSW_Atomic of assignment/pcp/a3/x.cpp, the multi-reader register made  *)
(* of a table of SRSW_Atomic cells: thread i reads column i, and tells the *)
(* others what it read by writing row i; the one writing thread writes the *)
(* diagonal.  A value is named by the stamp MRSW_Atomic::write gives it    *)
(* (0 the initial one).  One action per access to a cell's shared fields;  *)
(* lastRead of a cell belongs to its reader.                               *)
(***************************************************************************)
EXTENDS Integers, Sequences

CONSTANTS N,            \* NUM_THREADS; thread 0 is the one that writes
          Writes, Reads \* bounds: writes; the reads each thread may do, a set
                        \* (AtomicObjects states what they must be)

Threads == 0 .. N - 1
Writer == 0

VARIABLES cell,         \* a_table: r_value, lastStamp, lastRead of each cell
          lastStamp,    \* MRSW_Atomic::lastStamp
          op, pc,       \* the operation of a thread and where it stands
          i, val, st,   \* its locals: loop index, value, stamp in SRSW write
          left,         \* operations still to do
          result,       \* history: the value each thread's last read returned
          finished,     \*   the newest value written or read by a finished one
          floor,        \*   finished, when the thread's read began (0 if
                        \*   an earlier read of the thread overlapped a write)
          overlapped    \*   the threads one of whose reads met a write

vars == <<cell, lastStamp, op, pc, i, val, st, left, result, finished, floor, overlapped>>

During(t, kind) == pc[t] # "idle" /\ op[t] = kind

\* StampedValue: a stamp and a value.
SV(s, v) == [stamp |-> s, value |-> v]
Newer(a, b) == IF a > b THEN a ELSE b

-----------------------------------------------------------------------------
\* The constructor writes the initial value once to every cell.
Init ==
  /\ cell = [c \in Threads \X Threads |->
               [r_value |-> SV(1, 0), lastStamp |-> 1, lastRead |-> SV(0, 0)]]
  /\ lastStamp = 0
  /\ op = [t \in Threads |-> "none"] /\ pc = [t \in Threads |-> "idle"]
  /\ i = [t \in Threads |-> 0] /\ val = [t \in Threads |-> 0]
  /\ st = [t \in Threads |-> 0]
  /\ \E r \in Reads :
       left = [t \in Threads |-> [read |-> r[t + 1], write |-> IF t = Writer THEN Writes ELSE 0]]
  /\ result = [t \in Threads |-> 0]
  /\ finished = 0 /\ floor = [t \in Threads |-> 0]
  /\ overlapped = {}

Version == lastStamp + 1

StartWrite(t) ==
  /\ pc[t] = "idle" /\ left[t].write > 0
  /\ left' = [left EXCEPT ![t].write = @ - 1]
  /\ op' = [op EXCEPT ![t] = "write"]
  /\ pc' = [pc EXCEPT ![t] = "load"]
  /\ lastStamp' = Version
  /\ val' = [val EXCEPT ![t] = Version]
  /\ i' = [i EXCEPT ![t] = 0]
  /\ overlapped' = overlapped \cup {u \in Threads : During(u, "read")}
  /\ UNCHANGED <<cell, st, result, finished, floor>>

StartRead(t) ==
  /\ pc[t] = "idle" /\ left[t].read > 0
  /\ left' = [left EXCEPT ![t].read = @ - 1]
  /\ op' = [op EXCEPT ![t] = "read"]
  /\ pc' = [pc EXCEPT ![t] = "own"]
  /\ floor' = [floor EXCEPT ![t] = IF t \in overlapped THEN 0 ELSE finished]
  /\ overlapped' = IF During(Writer, "write") THEN overlapped \cup {t} ELSE overlapped
  /\ UNCHANGED <<cell, lastStamp, i, val, st, result, finished>>

\* SRSW_Atomic::read: r_value if its stamp is newer than that of the last
\* read, else the last read again.
SRSWRead(c) == IF c.r_value.stamp > c.lastRead.stamp THEN c.r_value ELSE c.lastRead

\* MRSW_Atomic::read begins with the thread's own cell of the diagonal ...
ReadOwn(t) ==
  /\ pc[t] = "own"
  /\ cell' = [cell EXCEPT ![<<t, t>>].lastRead = SRSWRead(cell[<<t, t>>])]
  /\ val' = [val EXCEPT ![t] = SRSWRead(cell[<<t, t>>]).value]
  /\ i' = [i EXCEPT ![t] = 0]
  /\ pc' = [pc EXCEPT ![t] = "column"]
  /\ UNCHANGED <<lastStamp, op, st, left, result, finished, floor, overlapped>>

\* ... goes down its column for the newest value ...  Mutated form: the last
\* one read is kept.
Best_m(v, w) == w
Best(v, w) == Newer(v, w)

ReadColumn(t) ==
  /\ pc[t] = "column" /\ i[t] < N
  /\ LET c == cell[<<i[t], t>>] IN
       /\ cell' = [cell EXCEPT ![<<i[t], t>>].lastRead = SRSWRead(c)]
       /\ val' = [val EXCEPT ![t] = Best(@, SRSWRead(c).value)]
  /\ i' = [i EXCEPT ![t] = @ + 1]
  /\ UNCHANGED <<lastStamp, op, pc, st, left, result, finished, floor, overlapped>>

\* ... and writes it along its row, the diagonal included.
StartRow(t) ==
  /\ pc[t] = "column" /\ i[t] = N
  /\ i' = [i EXCEPT ![t] = 0]
  /\ pc' = [pc EXCEPT ![t] = "load"]
  /\ UNCHANGED <<cell, lastStamp, op, val, st, left, result, finished, floor, overlapped>>

\* The cell an SRSW write is for: down the diagonal for a write, along the
\* row for a read.
Target(t) == IF op[t] = "write" THEN <<i[t], i[t]>> ELSE <<t, i[t]>>

\* SRSW_Atomic::write: stamp = lastStamp + 1, r_value = .., lastStamp = stamp.
\* Mutated form: the stamp is taken without the + 1.
NextStamp_m(c) == c.lastStamp
NextStamp(c) == c.lastStamp + 1

LoadStamp(t) ==
  /\ pc[t] = "load" /\ i[t] < N
  /\ st' = [st EXCEPT ![t] = NextStamp(cell[Target(t)])]
  /\ pc' = [pc EXCEPT ![t] = "value"]
  /\ UNCHANGED <<cell, lastStamp, op, i, val, left, result, finished, floor, overlapped>>

StoreValue(t) ==
  /\ pc[t] = "value"
  /\ cell' = [cell EXCEPT ![Target(t)].r_value = SV(st[t], val[t])]
  /\ pc' = [pc EXCEPT ![t] = "stamp"]
  /\ UNCHANGED <<lastStamp, op, i, val, st, left, result, finished, floor, overlapped>>

StoreStamp(t) ==
  /\ pc[t] = "stamp"
  /\ cell' = [cell EXCEPT ![Target(t)].lastStamp = st[t]]
  /\ i' = [i EXCEPT ![t] = @ + 1]
  /\ pc' = [pc EXCEPT ![t] = "load"]
  /\ UNCHANGED <<lastStamp, op, val, st, left, result, finished, floor, overlapped>>

Return(t) ==
  /\ pc[t] = "load" /\ i[t] = N
  /\ result' = IF op[t] = "read" THEN [result EXCEPT ![t] = val[t]] ELSE result
  /\ finished' = Newer(finished, val[t])
  /\ pc' = [pc EXCEPT ![t] = "idle"]
  /\ UNCHANGED <<cell, lastStamp, op, i, val, st, left, floor, overlapped>>

Thread(t) ==
  \/ StartWrite(t) \/ StartRead(t) \/ ReadOwn(t) \/ ReadColumn(t) \/ StartRow(t)
  \/ LoadStamp(t) \/ StoreValue(t) \/ StoreStamp(t) \/ Return(t)

\* main has joined every thread.
Over ==
  /\ \A t \in Threads : pc[t] = "idle" /\ left[t].read = 0 /\ left[t].write = 0
  /\ UNCHANGED vars

Next == (\E t \in Threads : Thread(t)) \/ Over

Spec == Init /\ [][Next]_vars

-----------------------------------------------------------------------------
\* Values are values that were written.
TypeOK ==
  /\ cell \in [Threads \X Threads ->
                 [r_value : [stamp : Nat, value : 0 .. lastStamp], lastStamp : Nat,
                  lastRead : [stamp : Nat, value : 0 .. lastStamp]]]
  /\ lastStamp \in 0 .. Writes
  /\ op \in [Threads -> {"none", "read", "write"}]
  /\ pc \in [Threads -> {"idle", "own", "column", "load", "value", "stamp"}]
  /\ i \in [Threads -> 0 .. N] /\ val \in [Threads -> 0 .. lastStamp]
  /\ st \in [Threads -> Nat] /\ finished \in 0 .. lastStamp
  /\ left \in [Threads -> [read : Nat, write : 0 .. Writes]]
  /\ overlapped \subseteq Threads
  /\ result \in [Threads -> 0 .. lastStamp] /\ floor \in [Threads -> 0 .. lastStamp]

\* A cell with one writer and one reader is an atomic register: whenever its
\* reader reads, it gets what its writer stored last.
SingleWriterCells ==
  \A r, c \in Threads : r # c => SRSWRead(cell[<<r, c>>]) = cell[<<r, c>>].r_value

\* The thread that writes sees its own writes.
ReadsOwnWrites ==
  pc[Writer] = "idle" /\ op[Writer] = "read" => result[Writer] = lastStamp

\* The parts of the register that one thread writes are sound on their own.
Safety == TypeOK /\ SingleWriterCells /\ ReadsOwnWrites

\* A read returns no value older than one that was written, or read by anyone,
\* before it began -- unless an earlier read of the same thread overlapped a
\* write and so may have put the old value back on the diagonal.
ReadsAreFresh ==
  \A t \in Threads : pc[t] = "idle" /\ op[t] = "read" => result[t] >= floor[t]
=============================================================================
