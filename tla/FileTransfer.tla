---------------------------- MODULE FileTransfer ----------------------------
(***************************************************************************)
(* What a file transfer promises: the receiver's file grows block by block *)
(* in the order of the sender's file and is closed only when complete.     *)
(***************************************************************************)
EXTENDS Naturals, Sequences

CONSTANT File                   \* a sequence of blocks

VARIABLES written, closed

tvars == <<written, closed>>

Init == written = <<>> /\ closed = FALSE

Write ==
  /\ ~ closed /\ Len(written) < Len(File)
  /\ written' = Append(written, File[Len(written) + 1])
  /\ UNCHANGED closed

Close ==
  /\ written = File /\ ~ closed
  /\ closed' = TRUE
  /\ UNCHANGED written

Next == Write \/ Close

Spec == Init /\ [][Next]_tvars
=============================================================================
