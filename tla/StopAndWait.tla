----------------------------- MODULE StopAndWait -----------------------------
(***************************************************************************)
(* The stop-and-wait file transfer of assignment/networks2/tut4: a sender  *)
(* (stopNWaitAQR_FTP_sender.cpp) and a receiver (.._recv.cpp) exchange UDP *)
(* datagrams.  Both loop over senderFun and recvFun; recvfrom gives up     *)
(* after a timeout (0.1 s and 1.1 s).  Datagrams are sets: one may arrive  *)
(* again (it was sent again), late, damaged or never.                      *)
(***************************************************************************)
EXTENDS Naturals, Sequences

CONSTANTS File,             \* the blocks getDataFromFile reads, in order
          Failures          \* bound: how often sendto may return an error

ASSUME FileAssumption == File \in Seq(Nat)
ASSUME BoundAssumption == Failures \in Nat

VARIABLES data, acks,       \* datagrams under way, in the two directions
          \* the sender: next function, its globals, blocks read so far
          sPc, sSendFlag, sSenderTurn, object, nextSn, sExpectedSn, read,
          \* the receiver
          rPc, rSendFlag, rSenderTurn, ack_no, rExpectedSn, recd, DISCONNECT,
          failed,           \* errors of sendto so far
          calm,             \* environment: the network has stopped misbehaving
          cleanStart        \*   the first block arrives undamaged and before
                            \*   the receiver times out

sender   == <<sPc, sSendFlag, sSenderTurn, object, nextSn, sExpectedSn, read>>
receiver == <<rPc, rSendFlag, rSenderTurn, ack_no, rExpectedSn, recd, DISCONNECT>>
env      == <<failed, calm, cleanStart>>
vars     == <<data, acks, sender, receiver, env>>

\* A data datagram: its sequence number, payload, whether the checksum still
\* matches, and the disconnect flag.
Packet(s, b, d) == [seq_no |-> s, bytes |-> b, intact |-> TRUE, disconnect |-> d]

-----------------------------------------------------------------------------
Init ==
  /\ data = {} /\ acks = {}
  /\ sPc = "send" /\ sSendFlag = TRUE /\ sSenderTurn = TRUE
  /\ object = Packet(0, 0, FALSE)
  /\ nextSn = 0 /\ sExpectedSn = 1 /\ read = 0
  /\ rPc = "recv" /\ rSendFlag = TRUE /\ rSenderTurn = FALSE
  /\ ack_no = 1 /\ rExpectedSn = 1
  /\ recd = <<>> /\ DISCONNECT = FALSE
  /\ failed = 0 /\ calm = FALSE /\ cleanStart \in BOOLEAN

Fails == failed < Failures /\ failed' = failed + 1

\* Sender, main and senderFun: a new block gets the next sequence number.
SendNew ==
  /\ sPc = "send" /\ sSendFlag /\ read < Len(File)
  /\ read' = read + 1
  /\ object' = Packet(nextSn, File[read + 1], FALSE)
  /\ nextSn' = nextSn + 1
  /\ sPc' = "recv"
  /\ \/ /\ data' = data \cup {object'}
        /\ sSenderTurn' = FALSE
        /\ UNCHANGED <<sSendFlag, failed>>
     \/ /\ Fails                                  \* sendto returns -1
        /\ sSendFlag' = FALSE
        /\ UNCHANGED <<data, sSenderTurn>>
  /\ UNCHANGED <<acks, sExpectedSn, receiver, calm, cleanStart>>

Resend ==
  /\ sPc = "send" /\ ~ sSendFlag
  /\ data' = data \cup {object}
  /\ sSenderTurn' = FALSE /\ sSendFlag' = TRUE
  /\ sPc' = "recv"
  /\ UNCHANGED <<acks, object, nextSn, sExpectedSn, read, receiver, env>>

\* End of the file: one disconnect datagram, not repeated.
Disconnect ==
  /\ sPc = "send" /\ sSendFlag /\ read = Len(File)
  /\ data' = data \cup {[object EXCEPT !.disconnect = TRUE]}
  /\ sPc' = "done"
  /\ UNCHANGED <<acks, sSendFlag, sSenderTurn, object, nextSn, sExpectedSn, read, receiver, env>>

\* recvFun does nothing after a failed sendto.
SkipRecv ==
  /\ sPc = "recv" /\ sSenderTurn
  /\ sPc' = "send"
  /\ UNCHANGED <<data, acks, sSendFlag, sSenderTurn, object, nextSn, sExpectedSn, read, receiver, env>>

AckTimeout ==
  /\ sPc = "recv" /\ ~ sSenderTurn
  /\ sSendFlag' = FALSE /\ sSenderTurn' = TRUE
  /\ sPc' = "send"
  /\ UNCHANGED <<data, acks, object, nextSn, sExpectedSn, read, receiver, env>>

\* Mutated form: any acknowledgement will do.
CorrectAck_m(a) == TRUE
CorrectAck(a) == a = sExpectedSn

\* An arriving datagram may arrive once more.
Arrives(d, net) == d \in net /\ (net' = net \/ net' = net \ {d})

RecvCorrectAck(a) ==
  /\ sPc = "recv" /\ ~ sSenderTurn /\ Arrives(a, acks)
  /\ CorrectAck(a)
  /\ sExpectedSn' = sExpectedSn + 1
  /\ sSendFlag' = TRUE /\ sSenderTurn' = TRUE
  /\ sPc' = "send"
  /\ UNCHANGED <<data, object, nextSn, read, receiver, env>>

RecvUnorderedAck(a) ==
  /\ sPc = "recv" /\ ~ sSenderTurn /\ Arrives(a, acks)
  /\ ~ CorrectAck(a)
  /\ sSendFlag' = FALSE /\ sSenderTurn' = TRUE
  /\ sPc' = "send"
  /\ UNCHANGED <<data, object, nextSn, sExpectedSn, read, receiver, env>>

-----------------------------------------------------------------------------
\* Receiver, recvFun: the next block, intact.  Mutated form: the sequence
\* number is not compared.
Correct_m2(d) == d.intact
Correct(d) == d.seq_no = rExpectedSn - 1 /\ d.intact

\* Mutated form: setNextExp is forgotten.
NextExpected_m == rExpectedSn
NextExpected == rExpectedSn + 1

RecvData(d) ==
  /\ rPc = "recv" /\ ~ rSenderTurn /\ Arrives(d, data)
  /\ ~ d.disconnect /\ Correct(d)
  /\ rExpectedSn' = NextExpected
  /\ ack_no' = d.seq_no + 1
  /\ recd' = Append(recd, IF d.intact THEN d.bytes ELSE 0)
  /\ rSenderTurn' = TRUE /\ rPc' = "send"
  /\ UNCHANGED <<acks, rSendFlag, DISCONNECT, sender, env>>

\* Any other block: the last acknowledgement is sent again -- for a damaged
\* first block that is the one that accepts it.
RecvOther(d) ==
  /\ rPc = "recv" /\ ~ rSenderTurn /\ Arrives(d, data)
  /\ ~ d.disconnect /\ ~ Correct(d)
  /\ rSendFlag' = FALSE
  /\ rSenderTurn' = TRUE /\ rPc' = "send"
  /\ UNCHANGED <<acks, ack_no, rExpectedSn, recd, DISCONNECT, sender, env>>

RecvDisconnect(d) ==
  /\ rPc = "recv" /\ ~ rSenderTurn /\ Arrives(d, data)
  /\ d.disconnect
  /\ DISCONNECT' = TRUE /\ rPc' = "closed"
  /\ UNCHANGED <<acks, rSendFlag, rSenderTurn, ack_no, rExpectedSn, recd, sender, env>>

\* After a clean start nothing goes wrong before the first block is received.
Started == cleanStart => recd # <<>>

\* recvfrom times out: the last acknowledgement is sent again -- or, before
\* any data, one that nothing has been received for (ack_no starts at 1).
RecvTimeout ==
  /\ rPc = "recv" /\ ~ rSenderTurn
  /\ Started
  /\ rSendFlag' = FALSE /\ rSenderTurn' = TRUE
  /\ rPc' = "send"
  /\ UNCHANGED <<data, acks, ack_no, rExpectedSn, recd, DISCONNECT, sender, env>>

\* recvFun does nothing after a failed sendto of an acknowledgement.
SkipRecvData ==
  /\ rPc = "recv" /\ rSenderTurn
  /\ rPc' = "send"
  /\ UNCHANGED <<data, acks, rSendFlag, rSenderTurn, ack_no, rExpectedSn, recd, DISCONNECT, sender, env>>

\* senderFun of the receiver; the result of a repeated sendto is ignored.
SendAck ==
  /\ rPc = "send" /\ rPc' = "recv"
  /\ acks' = acks \cup {ack_no}
  /\ rSenderTurn' = FALSE /\ rSendFlag' = TRUE
  /\ UNCHANGED <<data, ack_no, rExpectedSn, recd, DISCONNECT, sender, env>>

SendAckFails ==
  /\ rPc = "send" /\ rPc' = "recv" /\ Fails
  /\ rSendFlag
  /\ rSendFlag' = FALSE
  /\ UNCHANGED <<data, acks, rSenderTurn, ack_no, rExpectedSn, recd, DISCONNECT, sender, calm, cleanStart>>

-----------------------------------------------------------------------------
\* The network loses a datagram or damages the bytes of one.
Lose ==
  /\ ~ calm
  /\ \/ \E d \in data : data' = data \ {d} /\ UNCHANGED acks
     \/ \E a \in acks : acks' = acks \ {a} /\ UNCHANGED data
  /\ UNCHANGED <<sender, receiver, env>>

Damage ==
  /\ ~ calm /\ Started
  /\ \E d \in data : data' = (data \ {d}) \cup {[d EXCEPT !.intact = FALSE]}
  /\ UNCHANGED <<acks, sender, receiver, env>>

CalmDown ==
  /\ ~ calm /\ calm' = TRUE
  /\ UNCHANGED <<data, acks, sender, receiver, failed, cleanStart>>

AcceptAck  == \E a \in acks : RecvCorrectAck(a)
AcceptData == \E d \in data : RecvData(d)

Sender ==
  \/ SendNew \/ Resend \/ Disconnect \/ SkipRecv \/ AckTimeout \/ AcceptAck
  \/ \E a \in acks : RecvUnorderedAck(a)

Receiver ==
  \/ AcceptData \/ (\E d \in data : RecvOther(d) \/ RecvDisconnect(d))
  \/ RecvTimeout \/ SkipRecvData \/ SendAck \/ SendAckFails

\* Both programs have returned.
Over == sPc = "done" /\ rPc = "closed" /\ UNCHANGED vars

Next == Sender \/ Receiver \/ Lose \/ Damage \/ CalmDown \/ Over

Spec == Init /\ [][Next]_vars

\* Both programs run, the network loses and damages finitely many datagrams,
\* and a datagram that stays on its way arrives.
FairSpec ==
  /\ Spec /\ WF_vars(CalmDown)
  /\ WF_vars(Sender) /\ WF_vars(Receiver)
  /\ SF_vars(AcceptAck) /\ SF_vars(AcceptData)

-----------------------------------------------------------------------------
\* Sequence numbers never outrun the blocks of the file.
TypeOK ==
  /\ \A d \in data : /\ d.seq_no \in Nat
                    /\ (d.disconnect \/ d.seq_no < Len(File))
                    /\ ({d.intact, d.disconnect} \subseteq BOOLEAN)
  /\ acks \subseteq 1 .. Len(File) + 1
  /\ sPc \in {"send", "recv", "done"} /\ rPc \in {"send", "recv", "closed"}
  /\ {sSendFlag, sSenderTurn, rSendFlag, rSenderTurn, DISCONNECT} \subseteq BOOLEAN
  /\ nextSn \in 0 .. Len(File) /\ read \in 0 .. Len(File)
  /\ sExpectedSn \in 1 .. Len(File) + 1 /\ rExpectedSn \in 1 .. Len(File) + 1
  /\ ack_no \in 1 .. Len(File) + 1
  /\ recd \in Seq(Nat) /\ failed \in 0 .. Failures /\ calm \in BOOLEAN
  /\ cleanStart \in BOOLEAN

\* After a clean start an acknowledgement the sender takes for block s says
\* that the receiver has written block s ("correctly recieved the message!").
\* Without one it does not: the receiver's first timeout acknowledges block 0.
AckMeansReceived == cleanStart => sExpectedSn - 1 <= Len(recd)

\* After a clean start the sender is never more than one block ahead.
OneBlockAhead == cleanStart => nextSn - Len(recd) <= 1

\* Sender and receiver agree, up to the block under way, about what has been
\* received.
Safety == TypeOK /\ AckMeansReceived /\ OneBlockAhead

\* After a clean start every block is written in the end and the sender returns.
Delivered == cleanStart ~> (recd = File /\ sPc = "done")

Transfer == INSTANCE FileTransfer WITH
  written <- recd, closed <- cleanStart /\ DISCONNECT

\* However the transfer starts, what the receiver writes is the file, in order,
\* each block once; after a clean start it closes the file complete.
ImplementsTransfer == Transfer!Spec
=============================================================================
