---------------------------- MODULE MRMWRegister ----------------------------
(***************************************************************************)
(* MRMW_Atomic of assignment/pcp/a3/x.cpp, the register everybody writes:  *)
(* one multi-reader register per thread, at the grain of MRSWRegister.  A  *)
(* write takes a stamp above all those it reads.  What register r holds is *)
(* named by the stamp MRSW_Atomic::write gave it, and written[r] tells the *)
(* stamps of MRMW_Atomic::write in that order.                             *)
(***************************************************************************)
EXTENDS Integers, Sequences

CONSTANTS N,            \* NUM_THREADS
          Actions       \* bound: what each thread does, "read" or "write", in turn

Threads == 0 .. N - 1

VARIABLES cells,        \* cells[r]: the a_table of register r
          written,      \* what thread r has begun to write to its register
          th,           \* control point and locals of each thread
          ended,        \* history: the newest write that returned or was read
          doubtful      \* history: the registers a read of which by their
                        \* reader overlapped a write, with that reader

mvars == <<cells, written, th, ended, doubtful>>

\* A write is known by its stamp and its thread; of equal stamps max keeps the
\* later register.
Oldest == <<0, 0>>
Above(x, y) == x[1] > y[1] \/ (x[1] = y[1] /\ x[2] >= y[2])
Later(x, y) == IF Above(x, y) THEN x ELSE y

\* A cell: r_value and lastRead as <<stamp, version>>, and lastStamp.  The
\* constructor of MRSW_Atomic writes every cell once, with a value that is a
\* null pointer (version 0); that of MRMW_Atomic writes the diagonal.
FreshCell(row, col) ==
  LET s == IF row = col THEN 2 ELSE 1
  IN  [value |-> <<s, s - 1>>, last |-> <<0, 0>>, stamp |-> s]

MRMWInit ==
  /\ cells = [r \in Threads |-> [c \in Threads \X Threads |-> FreshCell(c[1], c[2])]]
  /\ written = [r \in Threads |-> <<0>>]
  /\ th = [t \in Threads |-> [pc |-> "idle", at |-> 0, writing |-> FALSE, r |-> 0, i |-> 0,
                              val |-> 0, st |-> 0, max |-> Oldest, since |-> Oldest]]
  /\ ended = Oldest /\ doubtful = {}

Goto(t, to) == th' = [th EXCEPT ![t] = to]
Doing(t) == Actions[t + 1][th[t].at]
Reading(t, r) == th[t].pc # "idle" /\ ~ th[t].writing /\ th[t].r = r
Writing(r) == th[r].pc # "idle" /\ th[r].writing

\* read or write is called; both read all registers, from the first.
Doubts(t, r) == IF Writing(r) THEN doubtful \cup {<<r, t>>} ELSE doubtful

StartAction(t) ==
  /\ th[t].pc = "idle" /\ th[t].at < Len(Actions[t + 1])
  /\ Goto(t, [th[t] EXCEPT !.pc = "own", !.at = @ + 1, !.r = 0, !.max = Oldest, !.since = ended])
  /\ doubtful' = Doubts(t, 0)
  /\ UNCHANGED <<cells, written, ended>>

\* SRSW_Atomic::read by thread t of cell <<i, t>>.
SRSWRead(c) == IF c.value[1] > c.last[1] THEN c.value ELSE c.last

\* MRSW_Atomic::read: the diagonal, then the column.
ReadCell(t) ==
  LET x == th[t]
      k == IF x.pc = "own" THEN t ELSE x.i
      v == SRSWRead(cells[x.r][<<k, t>>])
  IN  /\ x.pc \in {"own", "column"}
      /\ cells' = [cells EXCEPT ![x.r][<<k, t>>].last = v]
      /\ Goto(t, CASE x.pc = "own" -> [x EXCEPT !.pc = "column", !.i = 0, !.val = v[2]]
                   [] x.pc = "column" /\ x.i < N - 1 ->
                        [x EXCEPT !.i = @ + 1, !.val = IF @ > v[2] THEN @ ELSE v[2]]
                   [] OTHER -> [x EXCEPT !.pc = "load", !.i = 0, !.val = IF @ > v[2] THEN @ ELSE v[2]])
      /\ UNCHANGED <<written, ended, doubtful>>

\* SRSW_Atomic::write: along the row of register r for a read, down the
\* diagonal of the thread's own register for a write.
Register(t) == IF th[t].writing THEN t ELSE th[t].r
Cell(t)     == IF th[t].writing THEN <<th[t].i, th[t].i>> ELSE <<t, th[t].i>>

WriteCell(t) ==
  LET x == th[t]
      r == Register(t)
      c == Cell(t)
  IN  /\ x.i < N
      /\ \/ /\ x.pc = "load"
            /\ Goto(t, [x EXCEPT !.pc = "value", !.st = cells[r][c].stamp + 1])
            /\ UNCHANGED cells
         \/ /\ x.pc = "value"
            /\ cells' = [cells EXCEPT ![r][c].value = <<x.st, x.val>>]
            /\ Goto(t, [x EXCEPT !.pc = "stamp"])
         \/ /\ x.pc = "stamp"
            /\ cells' = [cells EXCEPT ![r][c].stamp = x.st]
            /\ Goto(t, [x EXCEPT !.pc = "load", !.i = @ + 1])
      /\ UNCHANGED <<written, ended, doubtful>>

\* The end of the read of register r: on to the next one.
Greatest(t) == Later(<<written[th[t].r][th[t].val], th[t].r>>, th[t].max)

NextRegister(t) ==
  /\ th[t].pc = "load" /\ th[t].i = N /\ ~ th[t].writing /\ th[t].r < N - 1
  /\ Goto(t, [th[t] EXCEPT !.pc = "own", !.r = @ + 1, !.max = Greatest(t)])
  /\ doubtful' = Doubts(t, th[t].r + 1)
  /\ UNCHANGED <<cells, written, ended>>

\* The last register has been read: read returns, and write writes to the
\* thread's own register.  Mutated form: the stamp is the greatest one read.
NewStamp_m(stamp) == stamp
NewStamp(stamp) == stamp + 1

AllRead(t) == th[t].pc = "load" /\ th[t].i = N /\ ~ th[t].writing /\ th[t].r = N - 1

ReturnRead(t) ==
  /\ AllRead(t) /\ Doing(t) = "read"
  /\ Goto(t, [th[t] EXCEPT !.pc = "idle", !.max = Greatest(t)])
  /\ ended' = Later(Greatest(t), ended)
  /\ UNCHANGED <<cells, written, doubtful>>

BeginWrite(t) ==
  /\ AllRead(t) /\ Doing(t) = "write"
  /\ written' = [written EXCEPT ![t] = Append(@, NewStamp(Greatest(t)[1]))]
  /\ Goto(t, [th[t] EXCEPT !.writing = TRUE, !.i = 0, !.val = Len(written[t]) + 1,
                           !.max = <<NewStamp(Greatest(t)[1]), t>>])
  /\ doubtful' = doubtful \cup {<<t, u>> : u \in {v \in Threads \ {t} : Reading(v, t)}}
  /\ UNCHANGED <<cells, ended>>

ReturnWrite(t) ==
  /\ th[t].pc = "load" /\ th[t].i = N /\ th[t].writing
  /\ Goto(t, [th[t] EXCEPT !.pc = "idle", !.writing = FALSE])
  /\ ended' = Later(th[t].max, ended)
  /\ UNCHANGED <<cells, written, doubtful>>

Thread(t) ==
  \/ StartAction(t) \/ ReadCell(t) \/ WriteCell(t) \/ NextRegister(t)
  \/ ReturnRead(t) \/ BeginWrite(t) \/ ReturnWrite(t)

Joined == \A t \in Threads : th[t].pc = "idle" /\ th[t].at = Len(Actions[t + 1])
Next == (\E t \in Threads : Thread(t)) \/ (Joined /\ UNCHANGED mvars)
Spec == MRMWInit /\ [][Next]_mvars

-----------------------------------------------------------------------------
\* The stamps of a thread's writes grow: no write is lost behind an older one
\* of the same thread, for a thread always reads its own register's last write.
StampsGrow ==
  \A r \in Threads : \A k \in 1 .. Len(written[r]) - 1 : written[r][k] < written[r][k + 1]

\* What is read is never the null pointer of the constructor, which max would
\* follow.
NothingIsNull == \A t \in Threads : th[t].pc \in {"load", "value", "stamp"} => th[t].val > 0

\* A read returns, and a write exceeds, every write that had returned or been
\* read before it began -- unless the same thread has once read a register
\* while it was written, and so may have put an old value on its diagonal.
ActionsAreFresh ==
  \A t \in Threads :
    th[t].pc = "idle" /\ (\A r \in Threads : <<r, t>> \notin doubtful)
      => Above(th[t].max, th[t].since)
=============================================================================
