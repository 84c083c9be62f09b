-------------------------- MODULE StopAndWaitProofs --------------------------
(***************************************************************************)
(* Safety of the stop-and-wait transfer and its refinement of FileTransfer *)
(* for every file, every number of failing calls and every behaviour of    *)
(* the network: datagrams lost, damaged, late or repeated.                 *)
(***************************************************************************)
EXTENDS StopAndWait, SequenceTheorems, TLAPS

Packets == [seq_no : Nat, bytes : Nat, intact : BOOLEAN, disconnect : BOOLEAN]

TypeInv ==
  /\ data \subseteq Packets /\ acks \subseteq Nat /\ object \in Packets
  /\ sPc \in {"send", "recv", "done"} /\ rPc \in {"send", "recv", "closed"}
  /\ sSendFlag \in BOOLEAN /\ sSenderTurn \in BOOLEAN
  /\ rSendFlag \in BOOLEAN /\ rSenderTurn \in BOOLEAN /\ DISCONNECT \in BOOLEAN
  /\ nextSn \in 0 .. Len(File) /\ sExpectedSn \in Nat
  /\ rExpectedSn \in Nat /\ ack_no \in Nat
  /\ recd \in Seq(Nat) /\ failed \in 0 .. Failures /\ calm \in BOOLEAN
  /\ cleanStart \in BOOLEAN

\* The sender has a block under way, or the last one has been acknowledged.
Settled == (sPc = "send" /\ sSendFlag) \/ sPc = "done"

\* The block under way, its number and the acknowledgement awaited agree.
SenderInv ==
  /\ read = nextSn
  /\ sExpectedSn = IF Settled THEN nextSn + 1 ELSE nextSn
  /\ ~ Settled => nextSn > 0
  /\ sPc = "recv" /\ sSenderTurn => ~ sSendFlag
  /\ sPc = "done" => nextSn = Len(File)
  /\ object.intact
  /\ nextSn > 0 => object = Packet(nextSn - 1, File[nextSn], FALSE)

\* What is on its way was read from the file; a disconnect is the last thing
\* the sender sends.
DataInv ==
  \A d \in data : /\ d.disconnect => sPc = "done"
                  /\ ~ d.disconnect => d.seq_no < nextSn
                  /\ ~ d.disconnect /\ d.intact => d.bytes = File[d.seq_no + 1]

\* The receiver has a prefix of the file and acknowledges its last block --
\* or, before it has one, block 0.
ReceiverInv ==
  /\ Len(recd) <= nextSn
  /\ \A k \in 1 .. Len(recd) : recd[k] = File[k]
  /\ rExpectedSn = Len(recd) + 1
  /\ ack_no = IF recd = <<>> THEN 1 ELSE Len(recd)
  /\ DISCONNECT => rPc = "closed"

\* Acknowledgements under way, the early one of block 0 included.
AcksInv ==
  \A a \in acks : 1 <= a /\ (a <= Len(recd) \/ (a = 1 /\ ~ cleanStart))

\* After a clean start no acknowledgement is made before a block is received.
CleanInv ==
  cleanStart /\ recd = <<>> =>
    /\ \A d \in data : d.intact
    /\ rPc # "send" /\ ~ rSenderTurn

IInv == /\ TypeInv /\ SenderInv /\ DataInv /\ ReceiverInv /\ AcksInv /\ CleanInv
        /\ AckMeansReceived

-----------------------------------------------------------------------------
\* Facts about the file every step uses.
LEMMA FileFacts ==
  /\ Len(File) \in Nat /\ Failures \in Nat
  /\ \A k \in 1 .. Len(File) : File[k] \in Nat
  BY FileAssumption, BoundAssumption

\* A datagram that arrives is one under way, and nothing is added.
LEMMA ArrivesOnly ==
  ASSUME NEW d, NEW net, NEW net1, d \in net, net1 = net \/ net1 = net \ {d}
  PROVE  net1 \subseteq net
  OBVIOUS

\* A failing sendto stays within the bound.
LEMMA FailsBound ==
  ASSUME failed \in 0 .. Failures, Fails \/ failed' = failed PROVE failed' \in 0 .. Failures
  BY FileFacts DEF Fails

\* Every step preserves the types.
LEMMA TypeStep ==
  ASSUME TypeInv, SenderInv, ReceiverInv, [Next]_vars PROVE TypeInv'
<1> USE FileFacts DEF TypeInv, Packets
<1>1. ASSUME SendNew PROVE TypeInv'
  <2>1. nextSn' \in 0 .. Len(File) /\ read + 1 \in 1 .. Len(File)
    BY <1>1 DEF SendNew, SenderInv
  <2>2. object' \in Packets
    BY <1>1, <2>1 DEF SendNew, Packet
  <2>3. data' \subseteq Packets
    BY <1>1, <2>2 DEF SendNew
  <2>4. failed' \in 0 .. Failures /\ sSendFlag' \in BOOLEAN /\ sSenderTurn' \in BOOLEAN
    BY <1>1, FailsBound DEF SendNew
  <2>. QED
    BY <1>1, <2>1, <2>2, <2>3, <2>4 DEF SendNew, receiver
<1>2. CASE Resend
  BY <1>2 DEF Resend, receiver, env
<1>3. CASE Disconnect
  BY <1>3 DEF Disconnect, receiver, env
<1>4. CASE SkipRecv \/ AckTimeout
  BY <1>4 DEF SkipRecv, AckTimeout, receiver, env
<1>5. ASSUME NEW a \in acks, RecvCorrectAck(a) \/ RecvUnorderedAck(a) PROVE TypeInv'
  <2>1. acks' \subseteq acks
    BY <1>5 DEF RecvCorrectAck, RecvUnorderedAck, Arrives
  <2>2. CASE RecvCorrectAck(a)
    BY <2>1, <2>2 DEF RecvCorrectAck, receiver, env
  <2>3. CASE RecvUnorderedAck(a)
    BY <2>1, <2>3 DEF RecvUnorderedAck, receiver, env
  <2>. QED
    BY <1>5, <2>2, <2>3
<1>6. ASSUME NEW d \in data, RecvData(d) PROVE TypeInv'
  <2>1. d.intact \in BOOLEAN /\ d.bytes \in Nat /\ d.seq_no \in Nat /\ data' \subseteq data
    BY <1>6 DEF RecvData, Arrives
  <2>2. recd' \in Seq(Nat)
    BY <1>6, <2>1 DEF RecvData
  <2>. QED
    BY <1>6, <2>1, <2>2 DEF RecvData, NextExpected, sender, env
<1>7. ASSUME NEW d \in data, RecvOther(d) \/ RecvDisconnect(d) PROVE TypeInv'
  BY <1>7 DEF RecvOther, RecvDisconnect, Arrives, sender, env
<1>8. CASE RecvTimeout \/ SkipRecvData \/ SendAck
  BY <1>8, ZenonT(30) DEF RecvTimeout, SkipRecvData, SendAck, sender, env
<1>9. CASE SendAckFails
  BY <1>9, FailsBound DEF SendAckFails, sender
<1>10. CASE Lose
  <2>1. data' \subseteq data /\ acks' \subseteq acks /\ UNCHANGED <<sender, receiver, env>>
    BY <1>10 DEF Lose
  <2>. QED
    BY <2>1 DEF sender, receiver, env
<1>11. CASE Damage
  BY <1>11, ZenonT(30) DEF Damage, sender, receiver, env
<1>12. CASE CalmDown
  BY <1>12 DEF CalmDown, sender, receiver
<1>13. CASE UNCHANGED vars
  BY <1>13 DEF vars, sender, receiver, env
<1>. QED
  BY <1>1, <1>2, <1>3, <1>4, <1>5, <1>6, <1>7, <1>8, <1>9, <1>10, <1>11, <1>12, <1>13
  DEF Next, Sender, Receiver, AcceptAck, AcceptData, Over

\* The sender's numbers agree after every step.
LEMMA SenderStep == ASSUME TypeInv, SenderInv, [Next]_vars PROVE SenderInv'
<1> USE FileFacts DEF TypeInv, SenderInv, Settled
<1>1. CASE SendNew
  <2>1. /\ sPc = "send" /\ sSendFlag /\ read < Len(File) /\ sPc' = "recv"
        /\ read' = read + 1 /\ nextSn' = nextSn + 1 /\ sExpectedSn' = sExpectedSn
        /\ object' = Packet(nextSn, File[read + 1], FALSE)
        /\ sSenderTurn' => ~ sSendFlag'
    BY <1>1 DEF SendNew
  <2>2. read' = nextSn' /\ nextSn' > 0 /\ sExpectedSn' = nextSn'
    BY <2>1
  <2>3. object'.intact /\ object' = Packet(nextSn' - 1, File[nextSn'], FALSE)
    BY <2>1 DEF Packet
  <2>. QED
    BY <2>1, <2>2, <2>3
<1>2. CASE Resend
  BY <1>2 DEF Resend
<1>5. CASE Disconnect
  BY <1>5 DEF Disconnect
<1>6. CASE SkipRecv
  BY <1>6 DEF SkipRecv
<1>8. CASE AckTimeout
  BY <1>8 DEF AckTimeout
<1>3. ASSUME NEW a \in acks, RecvCorrectAck(a) \/ RecvUnorderedAck(a) PROVE SenderInv'
  BY <1>3 DEF RecvCorrectAck, RecvUnorderedAck
<1>4. CASE UNCHANGED sender
  BY <1>4 DEF sender
<1>7. Receiver \/ Lose \/ Damage \/ CalmDown => UNCHANGED sender
  BY DEF Receiver, AcceptData, RecvData, RecvOther, RecvDisconnect, RecvTimeout,
         SkipRecvData, SendAck, SendAckFails, Lose, Damage, CalmDown
<1>. QED
  BY <1>1, <1>2, <1>3, <1>4, <1>5, <1>6, <1>7, <1>8 DEF Next, Sender, AcceptAck, Over, vars

\* What is on its way stays a block of the file.
LEMMA DataStep == ASSUME TypeInv, SenderInv, DataInv, [Next]_vars PROVE DataInv'
<1> USE FileFacts DEF TypeInv, DataInv
<1>1. CASE SendNew
  <2>1. sPc = "send" /\ sPc' = "recv" /\ nextSn' = nextSn + 1
        /\ object' = Packet(nextSn, File[nextSn + 1], FALSE)
    BY <1>1 DEF SendNew, SenderInv
  <2>2. data' \subseteq data \cup {object'}
    BY <1>1 DEF SendNew
  <2>. QED
    BY <2>1, <2>2 DEF Packet, Packets
<1>2. CASE Resend
  <2>1. nextSn > 0 /\ object = Packet(nextSn - 1, File[nextSn], FALSE)
    BY <1>2 DEF Resend, SenderInv, Settled
  <2>2. data' = data \cup {object} /\ nextSn' = nextSn /\ sPc # "done"
    BY <1>2 DEF Resend
  <2>. QED
    BY <2>1, <2>2 DEF Packet, Packets
<1>3. CASE Disconnect
  <2>1. [object EXCEPT !.disconnect = TRUE].disconnect
    BY DEF Packets
  <2>. QED
    BY <1>3, <2>1 DEF Disconnect
<1>4. CASE UNCHANGED <<data, nextSn>> /\ (sPc = "done" => sPc' = "done")
  BY <1>4
<1>5. SkipRecv \/ AckTimeout \/ (\E a \in acks : RecvCorrectAck(a) \/ RecvUnorderedAck(a))
        => UNCHANGED <<data, nextSn>> /\ (sPc = "done" => sPc' = "done")
  BY DEF SkipRecv, AckTimeout, RecvCorrectAck, RecvUnorderedAck
<1>6. RecvTimeout \/ SkipRecvData \/ SendAck \/ SendAckFails \/ CalmDown \/ UNCHANGED vars
        => UNCHANGED <<data, nextSn, sPc>>
  BY DEF RecvTimeout, SkipRecvData, SendAck, SendAckFails, CalmDown, vars, sender
<1>7. CASE data' \subseteq data /\ UNCHANGED sender
  BY <1>7 DEF sender
<1>8. (\E d \in data : RecvData(d) \/ RecvOther(d) \/ RecvDisconnect(d)) \/ Lose
        => data' \subseteq data /\ UNCHANGED sender
  BY DEF RecvData, RecvOther, RecvDisconnect, Arrives, Lose
<1>9. CASE Damage
  BY <1>9 DEF Damage, sender, Packets
<1>. QED
  BY <1>1, <1>2, <1>3, <1>4, <1>5, <1>6, <1>7, <1>8, <1>9
  DEF Next, Sender, Receiver, AcceptAck, AcceptData, Over

\* The receiver keeps a prefix of the file and acknowledges its end.
LEMMA ReceiverStep ==
  ASSUME TypeInv, SenderInv, DataInv, ReceiverInv, [Next]_vars PROVE ReceiverInv'
<1> USE FileFacts DEF TypeInv, ReceiverInv
<1>1. nextSn' >= nextSn
  <2>1. CASE SendNew
    BY <2>1 DEF SendNew
  <2>2. CASE ~ SendNew
    BY <2>2 DEF Next, vars, Sender, Receiver, Resend, Disconnect, SkipRecv, AckTimeout,
           AcceptAck, RecvCorrectAck, RecvUnorderedAck, AcceptData, RecvData, RecvOther,
           RecvDisconnect, RecvTimeout, SkipRecvData, SendAck, SendAckFails, Lose, Damage,
           CalmDown, Over, sender
  <2>. QED
    BY <2>1, <2>2
<1>2. nextSn' \in Nat
  BY TypeStep
<1>3. ASSUME NEW d \in data, RecvData(d) PROVE ReceiverInv'
  <2>1. /\ d.seq_no = Len(recd) /\ d.intact /\ ~ d.disconnect
        /\ rExpectedSn' = Len(recd) + 2 /\ ack_no' = Len(recd) + 1
        /\ recd' = Append(recd, d.bytes) /\ nextSn' = nextSn
    BY <1>3 DEF RecvData, Correct, NextExpected, sender
  <2>2. Len(recd) < nextSn /\ d.bytes = File[Len(recd) + 1]
    BY <2>1 DEF DataInv
  <2>3. d.bytes \in Nat
    BY DEF Packets
  <2>4. /\ Len(recd') = Len(recd) + 1
        /\ \A k \in 1 .. Len(recd) : recd'[k] = recd[k]
        /\ recd'[Len(recd) + 1] = d.bytes
    BY <2>1, <2>3
  <2>5. recd' # <<>>
    BY <2>4
  <2>6. ~ DISCONNECT'
    BY <1>3 DEF RecvData
  <2>. QED
    BY <2>1, <2>2, <2>4, <2>5, <2>6
<1>4. CASE UNCHANGED <<recd, rExpectedSn, ack_no>> /\ (DISCONNECT' => rPc' = "closed")
  BY <1>1, <1>2, <1>4
<1>5. (\E d \in data : RecvOther(d) \/ RecvDisconnect(d)) \/ RecvTimeout \/ SkipRecvData
        \/ SendAck \/ SendAckFails
        => UNCHANGED <<recd, rExpectedSn, ack_no>> /\ (DISCONNECT' => rPc' = "closed")
  BY DEF RecvOther, RecvDisconnect, RecvTimeout, SkipRecvData, SendAck, SendAckFails
<1>6. CASE UNCHANGED receiver
  BY <1>4, <1>6 DEF receiver
<1>7. Sender \/ Lose \/ Damage \/ CalmDown \/ UNCHANGED vars => UNCHANGED receiver
  BY DEF Sender, SendNew, Resend, Disconnect, SkipRecv, AckTimeout, AcceptAck,
         RecvCorrectAck, RecvUnorderedAck, Lose, Damage, CalmDown, vars
<1>. QED
  BY <1>3, <1>4, <1>5, <1>6, <1>7 DEF Next, Receiver, AcceptData, Over

\* An accepted block is appended to the receiver's file.
LEMMA RecdIsAppended ==
  ASSUME TypeInv, NEW d \in data, RecvData(d)
  PROVE  /\ recd' \in Seq(Nat) /\ Len(recd') = Len(recd) + 1 /\ recd' # <<>>
         /\ cleanStart' = cleanStart
<1>1. d.bytes \in Nat /\ recd' = Append(recd, d.bytes) /\ cleanStart' = cleanStart
  BY DEF TypeInv, RecvData, Correct, Packets, env
<1>2. recd' \in Seq(Nat) /\ Len(recd') = Len(recd) + 1
  BY <1>1 DEF TypeInv
<1>. QED
  BY <1>1, <1>2 DEF TypeInv

\* The receiver's file only grows.
LEMMA RecdGrows ==
  ASSUME TypeInv, [Next]_vars
  PROVE  /\ Len(recd') \in Nat /\ Len(recd') >= Len(recd)
         /\ recd' = <<>> => recd = <<>>
         /\ cleanStart' = cleanStart
<1>1. ~ AcceptData => UNCHANGED <<recd, cleanStart>>
  BY DEF Next, vars, Sender, Receiver, SendNew, Resend, Disconnect, SkipRecv, AckTimeout,
         AcceptAck, RecvCorrectAck, RecvUnorderedAck, RecvOther, RecvDisconnect,
         RecvTimeout, SkipRecvData, SendAck, SendAckFails, Lose, Damage, CalmDown, Over,
         receiver, env
<1>. QED
  BY <1>1, RecdIsAppended DEF AcceptData, TypeInv

\* No acknowledgement runs ahead of the receiver, the first timeout's apart.
LEMMA AcksStep ==
  ASSUME TypeInv, ReceiverInv, CleanInv, AcksInv, [Next]_vars PROVE AcksInv'
<1> USE DEF TypeInv, AcksInv
<1>1. CASE acks' \subseteq acks
  BY <1>1, RecdGrows, TypeStep, SMTT(30)
<1>2. CASE SendAck
  <2>1. acks' = acks \cup {ack_no} /\ recd' = recd /\ cleanStart' = cleanStart
    BY <1>2 DEF SendAck, env
  <2>2. ack_no >= 1 /\ (ack_no <= Len(recd) \/ (ack_no = 1 /\ ~ cleanStart))
    <3>1. CASE recd = <<>>
      BY <1>2, <3>1 DEF SendAck, CleanInv, ReceiverInv
    <3>2. CASE recd # <<>>
      BY <3>2 DEF ReceiverInv
    <3>. QED
      BY <3>1, <3>2
  <2>. QED
    BY <2>1, <2>2
<1>3. ~ SendAck => acks' \subseteq acks
  BY DEF Next, vars, Sender, Receiver, SendNew, Resend, Disconnect, SkipRecv, AckTimeout,
         AcceptAck, RecvCorrectAck, RecvUnorderedAck, AcceptData, RecvData, RecvOther,
         RecvDisconnect, RecvTimeout, SkipRecvData, SendAckFails, Lose, Damage, CalmDown,
         Over, Arrives
<1>. QED
  BY <1>1, <1>2, <1>3

\* An acknowledgement the sender takes says that its block has been written.
LEMMA AckStep ==
  ASSUME TypeInv, AcksInv, AckMeansReceived, [Next]_vars PROVE AckMeansReceived'
<1> USE DEF TypeInv, AckMeansReceived
<1>1. ASSUME NEW a \in acks, RecvCorrectAck(a) PROVE AckMeansReceived'
  <2>1. a = sExpectedSn /\ sExpectedSn' = a + 1 /\ recd' = recd /\ cleanStart' = cleanStart
    BY <1>1 DEF RecvCorrectAck, CorrectAck, receiver, env
  <2>. QED
    BY <2>1 DEF AcksInv
<1>2. ~ AcceptAck => sExpectedSn' = sExpectedSn
  BY DEF Next, vars, Sender, Receiver, SendNew, Resend, Disconnect, SkipRecv, AckTimeout,
         RecvUnorderedAck, AcceptData, RecvData, RecvOther, RecvDisconnect, RecvTimeout,
         SkipRecvData, SendAck, SendAckFails, Lose, Damage, CalmDown, Over, sender
<1>3. Len(recd') \in Nat /\ Len(recd') >= Len(recd) /\ cleanStart' = cleanStart
  BY RecdGrows
<1>. QED
  BY <1>1, <1>2, <1>3 DEF AcceptAck

\* A clean start keeps every block whole and the receiver from acknowledging
\* until it has the first one.
LEMMA CleanStep ==
  ASSUME TypeInv, SenderInv, DataInv, ReceiverInv, CleanInv, AckMeansReceived, [Next]_vars
  PROVE  CleanInv'
<1> SUFFICES ASSUME cleanStart', recd' = <<>> PROVE CleanInv'
  BY DEF CleanInv
<1>1. cleanStart /\ recd = <<>> /\ Len(recd) = 0
  BY RecdGrows
<1>2. (\A d \in data : d.intact) /\ rPc # "send" /\ ~ rSenderTurn
  BY <1>1 DEF CleanInv
<1> USE DEF TypeInv
<1>3. object.intact
  BY DEF SenderInv
<1>4. ASSUME NEW d \in data, ~ d.disconnect PROVE Correct(d)
  <2>1. sExpectedSn <= 1 /\ nextSn <= 1
    BY <1>1 DEF AckMeansReceived, SenderInv
  <2>2. d.seq_no < nextSn /\ d.seq_no \in Nat
    BY <1>4 DEF DataInv, Packets
  <2>. QED
    BY <1>1, <1>2, <2>1, <2>2 DEF Correct, ReceiverInv
<1>5. CASE SendNew \/ Resend \/ Disconnect
  <2>1. data' \subseteq data \cup {object, object', [object EXCEPT !.disconnect = TRUE]}
        /\ UNCHANGED receiver
    BY <1>5 DEF SendNew, Resend, Disconnect
  <2>2. object'.intact
    BY SenderStep DEF SenderInv
  <2>3. [object EXCEPT !.disconnect = TRUE].intact
    BY <1>3 DEF Packets
  <2>4. \A d \in data' : d.intact
    BY <1>2, <1>3, <2>1, <2>2, <2>3
  <2>. QED
    BY <1>2, <2>1, <2>4 DEF CleanInv, receiver
<1>6. CASE data' \subseteq data /\ UNCHANGED <<rPc, rSenderTurn>>
  BY <1>2, <1>6 DEF CleanInv
<1>7. SkipRecv \/ AckTimeout \/ (\E a \in acks : RecvCorrectAck(a) \/ RecvUnorderedAck(a))
        \/ Lose \/ CalmDown \/ UNCHANGED vars
        => data' \subseteq data /\ UNCHANGED <<rPc, rSenderTurn>>
  BY DEF SkipRecv, AckTimeout, RecvCorrectAck, RecvUnorderedAck, Lose, CalmDown, vars, receiver
<1>8. ASSUME NEW d \in data, RecvDisconnect(d) PROVE CleanInv'
  BY <1>2, <1>8 DEF RecvDisconnect, Arrives, CleanInv
<1>9. ~ AcceptData
  <2>1. ASSUME NEW d \in data, RecvData(d) PROVE recd' # <<>>
    BY <2>1, RecdIsAppended
  <2>. QED
    BY <2>1 DEF AcceptData
<1>10. ~ (\E d \in data : RecvOther(d)) /\ ~ RecvTimeout /\ ~ SkipRecvData
       /\ ~ SendAck /\ ~ SendAckFails /\ ~ Damage
  BY <1>1, <1>2, <1>4 DEF RecvOther, RecvTimeout, SkipRecvData, SendAck, SendAckFails,
     Damage, Started
<1>. QED
  BY <1>5, <1>6, <1>7, <1>8, <1>9, <1>10 DEF Next, Sender, Receiver, AcceptAck, Over

-----------------------------------------------------------------------------
\* The inductive invariant.
THEOREM StopAndWaitInvariant == Spec => []IInv
<1>1. Init => IInv
  <2> SUFFICES ASSUME Init PROVE IInv
    OBVIOUS
  <2>1. TypeInv
    <3>1. object \in Packets
      BY DEF Init, Packet, Packets
    <3>2. cleanStart \in BOOLEAN /\ recd \in Seq(Nat)
      BY EmptySeq DEF Init
    <3>3. nextSn \in 0 .. Len(File) /\ failed \in 0 .. Failures
      BY FileFacts DEF Init
    <3>. QED
      BY <3>1, <3>2, <3>3 DEF Init, TypeInv
  <2>2. SenderInv
    BY FileFacts DEF Init, SenderInv, Settled, Packet
  <2>3. DataInv /\ ReceiverInv /\ AcksInv /\ CleanInv
    BY FileFacts DEF Init, DataInv, ReceiverInv, AcksInv, CleanInv
  <2>4. AckMeansReceived
    BY DEF Init, AckMeansReceived
  <2>. QED
    BY <2>1, <2>2, <2>3, <2>4 DEF IInv
<1>2. IInv /\ [Next]_vars => IInv'
  <2> SUFFICES ASSUME IInv, [Next]_vars PROVE IInv'
    OBVIOUS
  <2> USE DEF IInv
  <2>1. TypeInv' /\ SenderInv' /\ DataInv' /\ ReceiverInv'
    BY TypeStep, SenderStep, DataStep, ReceiverStep
  <2>2. AcksInv' /\ CleanInv' /\ AckMeansReceived'
    BY AcksStep, CleanStep, AckStep
  <2>. QED
    BY <2>1, <2>2
<1>. QED
  BY <1>1, <1>2, PTL DEF Spec

\* After a clean start every acknowledgement the sender takes means a written
\* block, the sender is at most one block ahead, and the numbers of both sides
\* stay within the file.
THEOREM StopAndWaitSafety == Spec => []Safety
<1>1. IInv => TypeOK
  <2> SUFFICES ASSUME IInv PROVE TypeOK
    OBVIOUS
  <2> USE FileFacts DEF IInv, TypeInv
  <2>1. sExpectedSn \in 1 .. Len(File) + 1 /\ read \in 0 .. Len(File)
    BY DEF SenderInv, Settled
  <2>2. rExpectedSn \in 1 .. Len(File) + 1 /\ ack_no \in 1 .. Len(File) + 1
    BY DEF ReceiverInv
  <2>3. acks \subseteq 1 .. Len(File) + 1
    BY DEF AcksInv, ReceiverInv
  <2>4. \A d \in data : /\ d.seq_no \in Nat
                        /\ (d.disconnect \/ d.seq_no < Len(File))
                        /\ ({d.intact, d.disconnect} \subseteq BOOLEAN)
    BY DEF DataInv, Packets
  <2>5. {sSendFlag, sSenderTurn, rSendFlag, rSenderTurn, DISCONNECT} \subseteq BOOLEAN
    OBVIOUS
  <2>. QED
    BY <2>1, <2>2, <2>3, <2>4, <2>5 DEF TypeOK
<1>2. IInv => OneBlockAhead
  BY DEF IInv, TypeInv, SenderInv, AckMeansReceived, OneBlockAhead
<1>3. IInv => Safety
  BY <1>1, <1>2 DEF Safety, IInv
<1>. QED
  BY <1>3, StopAndWaitInvariant, PTL

\* What the receiver writes is the file, in order and each block once, however
\* the transfer starts; after a clean start it closes the complete file.
THEOREM StopAndWaitImplementsTransfer == Spec => ImplementsTransfer
<1>1. Init => Transfer!Init
  BY DEF Init, Transfer!Init
<1>2. IInv /\ [Next]_vars => [Transfer!Next]_<<recd, cleanStart /\ DISCONNECT>>
  <2> SUFFICES ASSUME IInv, [Next]_vars
               PROVE  [Transfer!Next]_<<recd, cleanStart /\ DISCONNECT>>
    OBVIOUS
  <2> USE FileFacts DEF IInv, TypeInv
  <2>1. ASSUME NEW d \in data, RecvData(d) PROVE Transfer!Write
    <3>1. d.seq_no = Len(recd) /\ d.intact /\ ~ d.disconnect
      BY <2>1 DEF RecvData, Correct, ReceiverInv
    <3>2. d.bytes = File[Len(recd) + 1] /\ Len(recd) < Len(File)
      BY <3>1 DEF DataInv
    <3>3. recd' = Append(recd, File[Len(recd) + 1])
      BY <2>1, <3>1, <3>2 DEF RecvData
    <3>4. ~ DISCONNECT /\ UNCHANGED <<DISCONNECT, cleanStart>>
      BY <2>1 DEF RecvData, ReceiverInv, env
    <3>. QED
      BY <3>2, <3>3, <3>4 DEF Transfer!Write
  <2>2. ASSUME NEW d \in data, RecvDisconnect(d), cleanStart PROVE Transfer!Close
    <3>1. sPc = "done"
      BY <2>2 DEF RecvDisconnect, DataInv
    <3>2. Len(recd) = Len(File)
      BY <2>2, <3>1 DEF SenderInv, Settled, AckMeansReceived, ReceiverInv
    <3>3. recd = File
      BY <3>2, FileAssumption, SeqEqual DEF ReceiverInv
    <3>4. ~ DISCONNECT /\ DISCONNECT' /\ recd' = recd /\ cleanStart'
      BY <2>2 DEF RecvDisconnect, ReceiverInv, env
    <3>. QED
      BY <2>2, <3>3, <3>4 DEF Transfer!Close
  <2>3. ASSUME NEW d \in data, RecvDisconnect(d), ~ cleanStart
        PROVE  UNCHANGED <<recd, cleanStart /\ DISCONNECT>>
    BY <2>3 DEF RecvDisconnect, env
  <2>4. ~ AcceptData /\ ~ (\E d \in data : RecvDisconnect(d))
          => UNCHANGED <<recd, cleanStart, DISCONNECT>>
    BY DEF Next, vars, Sender, Receiver, SendNew, Resend, Disconnect, SkipRecv, AckTimeout,
           AcceptAck, RecvCorrectAck, RecvUnorderedAck, RecvOther, RecvTimeout,
           SkipRecvData, SendAck, SendAckFails, Lose, Damage, CalmDown, Over, receiver, env
  <2>. QED
    BY <2>1, <2>2, <2>3, <2>4 DEF Transfer!Next, AcceptData
<1>. QED
  BY <1>1, <1>2, StopAndWaitInvariant, PTL
  DEF Spec, ImplementsTransfer, Transfer!Spec, Transfer!tvars
=============================================================================
