---------------------------- MODULE AtomicObjects ----------------------------
(***************************************************************************)
(* The programs of assignment/pcp/a3 and a4 that build an atomic object    *)
(* from weaker registers.  Each is run on its own: object names the one a  *)
(* behaviour is a run of, and the others stay as they would start.         *)
(***************************************************************************)
EXTENDS Integers, Sequences

CONSTANTS N, Writes, Reads,         \* of MRSWRegister
          Sharers, Actions,         \* of MRMWRegister
          Capacity, Updates, Scans  \* of Snapshot

ASSUME NAssumption == N \in Nat \ {0}
ASSUME ReadsAssumption == Writes \in Nat /\ \A r \in Reads : r \in Seq(Nat) /\ Len(r) = N
ASSUME SharersAssumption == Sharers \in Nat \ {0} /\ Len(Actions) = Sharers
ASSUME CapacityAssumption == Capacity \in Nat \ {0}
ASSUME UpdatesAssumption == Updates \in [0 .. Capacity - 1 -> Nat] /\ Scans \in Nat

VARIABLES object,
  cell, lastStamp, op, pc, i, val, st, left, result, finished, floor, overlapped,
  cells, written, th, ended, doubtful,
  program, a_table, helpsnap, s_pc, j, oldCopy, newCopy, moved, snap, s_left,
  collects, during, past

Register == INSTANCE MRSWRegister
Shared == INSTANCE MRMWRegister WITH N <- Sharers
Snap == INSTANCE Snapshot WITH N <- Capacity, pc <- s_pc, left <- s_left

registerVars == <<cell, lastStamp, op, pc, i, val, st, left, result, finished, floor, overlapped>>
sharedVars == <<cells, written, th, ended, doubtful>>
snapVars == <<program, a_table, helpsnap, s_pc, j, oldCopy, newCopy, moved, snap, s_left,
              collects, during, past>>

-----------------------------------------------------------------------------
Init ==
  /\ Register!Init /\ Shared!MRMWInit /\ Snap!Init
  /\ object \in {"mrsw", "mrmw", "snapshot"}
  /\ object # "snapshot" => program = "mrmw.cpp"

Next ==
  \/ object = "mrsw" /\ Register!Next /\ UNCHANGED <<object, sharedVars, snapVars>>
  \/ object = "mrmw" /\ Shared!Next /\ UNCHANGED <<object, registerVars, snapVars>>
  \/ object = "snapshot" /\ Snap!Next /\ UNCHANGED <<object, registerVars, sharedVars>>

Spec == Init /\ [][Next]_<<object, registerVars, sharedVars, snapVars>>

-----------------------------------------------------------------------------
\* The parts of the register that one thread writes are sound on their own; the
\* stamps of the register everybody writes grow and nothing it reads is
\* null; scans return tables that existed, in a bounded number of collects.
Safety == CASE object = "mrsw" -> Register!Safety
            [] object = "mrmw" -> Shared!StampsGrow /\ Shared!NothingIsNull
            [] OTHER           -> Snap!Safety

\* No action on a register is about a value older than one written, or read by
\* anyone, before it began, the cases of ReadsAreFresh in MRSWRegister and of
\* ActionsAreFresh in MRMWRegister apart.
ReadsAreFresh == CASE object = "mrsw" -> Register!ReadsAreFresh
                   [] object = "mrmw" -> Shared!ActionsAreFresh
                   [] OTHER           -> TRUE

\* A scan of mrmw.cpp is the table at one moment of the scan.
ScansAreAtomic == object = "snapshot" => Snap!ScansAreAtomic
=============================================================================
