---------------------------- MODULE MicTcpProofs ----------------------------
(***************************************************************************)
(* Proofs about MicTcp, for every value of its constants.                  *)
(***************************************************************************)
EXTENDS MicTcp, SequenceTheorems, TLAPS

\* create_nopayload_pdu builds well-formed PDUs out of numbers.
LEMMA ControlPdus ==
    /\ {Syn, SynAck, Fin, FinAck, NoPdu} \subseteq Pdus
    /\ \A n \in Nat : Ack(n) \in Pdus
<1>1. 0 \in Payloads
  BY DEF Payloads
<1>2. QED
  BY <1>1 DEF Pdus, mic_tcp_pdu, Flags, Syn, SynAck, Fin, FinAck, NoPdu, Ack,
              create_nopayload_pdu, create_pdu, NoPayload

LEMMA PeerIsAnEnd == ASSUME NEW e \in Ends PROVE Peer(e) \in Ends
  BY DEF Ends, Peer

\* IP_send puts its PDU in the queue of the peer or loses it.
LEMMA SendKeepsType ==
    ASSUME inbox \in [Ends -> Seq(Pdus)],
           NEW e \in Ends, NEW pdu \in Pdus, NEW outcome,
           IP_send(e, pdu, outcome)
    PROVE  inbox' \in [Ends -> Seq(Pdus)]
<1> DEFINE p == Peer(e)
<1>1. p \in Ends
  BY PeerIsAnEnd
<1> HIDE DEF p
<1>2. Append(inbox[p], pdu) \in Seq(Pdus)
  BY <1>1
<1>3. \/ inbox' = inbox
      \/ inbox' = [inbox EXCEPT ![p] = Append(inbox[p], pdu)]
  BY DEF IP_send, p
<1>4. QED
  BY <1>1, <1>2, <1>3

\* The first PDU of a queue, and what is left of it.
LEMMA ReceiveKeepsType ==
    ASSUME inbox \in [Ends -> Seq(Pdus)],
           NEW e \in Ends, inbox[e] # <<>>
    PROVE  /\ Head(inbox[e]) \in Pdus
           /\ [inbox EXCEPT ![e] = Tail(@)] \in [Ends -> Seq(Pdus)]
<1>1. inbox[e] \in Seq(Pdus)
  OBVIOUS
<1>2. Head(inbox[e]) \in Pdus /\ Tail(inbox[e]) \in Seq(Pdus)
  BY <1>1, HeadTailProperties
<1>3. QED
  BY <1>2


\* What the handlers choose to do with a PDU is one of the labels of a network
\* thread.
LEMMA EffectsAreLabels ==
    ASSUME NEW pdu \in Pdus
    PROVE  ClientEffect(pdu) \in NetLabels /\ ServerEffect(pdu) \in NetLabels
<1>1. ClientEffect(pdu) \in NetLabels
  BY DEF ClientEffect, NetLabels, AwaitingClosingEffect, ClosingEffect
<1>2. ServerEffect(pdu) \in NetLabels
  BY DEF ServerEffect, NetLabels, AwaitingClosingEffect, ClosingEffect
<1>3. QED
  BY <1>1, <1>2

\* A PDU is received into a network thread: listening, listening_client.
LEMMA NetReceiveKeepsTypes ==
    ASSUME EndTypeOK, NEW e \in Ends, NEW effect \in NetLabels,
           inbox[e] # <<>>, NetReceive(e, effect)
    PROVE  EndTypeOK'
<1>1. Head(inbox[e]) \in Pdus /\ inbox' \in [Ends -> Seq(Pdus)]
  BY ReceiveKeepsType DEF EndTypeOK, NetReceive
<1>2. net' \in [Ends -> [at : NetLabels, pdu : Pdus]]
  BY <1>1, ControlPdus DEF EndTypeOK, NetReceive, NetAt
<1>3. QED
  BY <1>1, <1>2 DEF EndTypeOK, NetReceive

\* mic_tcp_close and socket_cleanup: one step of the code, one case. An attempt
\* is only spent where it was counted below MAX_ATTEMPTS.
LEMMA CloseKeepsTypes ==
    ASSUME EndTypeOK, AttemptsLeft, NEW e \in Ends, Close(e)
    PROVE  EndTypeOK' /\ AttemptsLeft'
<1> USE EndpointAssumption DEF EndTypeOK, AttemptsLeft, Goto, Labels
<1>1. CASE SendFin(e)
  <2>1. inbox' \in [Ends -> Seq(Pdus)]
    BY <1>1, SendKeepsType, ControlPdus DEF SendFin
  <2>2. /\ pc[e] = "fin" /\ attempts[e] < MAX_ATTEMPTS
        /\ UNCHANGED <<state, seq, open, lock, woken, net>>
    BY <1>1 DEF SendFin
  <2>3. CASE SpendAttempt(e)
    BY <2>1, <2>2, <2>3 DEF SpendAttempt
  <2>4. CASE Goto(e, "finlock") /\ UNCHANGED attempts
    BY <2>1, <2>2, <2>4
  <2>5. QED
    BY <1>1, <2>3, <2>4 DEF SendFin
<1>2. CASE FinWaitStarts(e)
  BY <1>2 DEF FinWaitStarts
<1>3. CASE FinWaitFails(e)
  BY <1>3 DEF FinWaitFails
<1>4. CASE FinAcknowledged(e)
  BY <1>4 DEF FinAcknowledged, Wakes
<1>5. CASE FinTimesOut(e)
  BY <1>5 DEF FinTimesOut, SpendAttempt
<1>6. CASE SendFinalAck(e)
  <2>1. inbox' \in [Ends -> Seq(Pdus)]
    BY <1>6, SendKeepsType, ControlPdus DEF SendFinalAck
  <2>2. QED
    BY <1>6, <2>1 DEF SendFinalAck, socket_set_state, protocol_state
<1>7. CASE Cleanup(e)
  BY <1>7 DEF Cleanup
<1>8. CASE ProcessExits(e)
  BY <1>8, ControlPdus DEF ProcessExits, NetAt, NetLabels
<1>9. QED
  BY <1>1, <1>2, <1>3, <1>4, <1>5, <1>6, <1>7, <1>8 DEF Close

\* The effects that take a connection down, and the ends of a network thread's
\* loop.
LEMMA NetClosingKeepsTypes ==
    ASSUME EndTypeOK, NEW e \in Ends,
           NetClosing(e) \/ NetBlocks(e) \/ NetExits(e)
    PROVE  EndTypeOK' /\ pc' = pc /\ attempts' = attempts
<1> USE ControlPdus DEF EndTypeOK, NetDone, NetAt, NetLabels
<1>1. CASE NetFin(e)
  <2>1. inbox' \in [Ends -> Seq(Pdus)]
    BY <1>1, SendKeepsType DEF NetFin
  <2>2. QED
    BY <1>1, <2>1 DEF NetFin, socket_set_state, protocol_state
<1>2. CASE NetFinAgain(e)
  <2>1. inbox' \in [Ends -> Seq(Pdus)]
    BY <1>2, SendKeepsType DEF NetFinAgain
  <2>2. QED
    BY <1>2, <2>1 DEF NetFinAgain
<1>3. CASE NetCleanup(e)
  <2>1. CASE NetFinalAck(e)
    BY <2>1 DEF NetFinalAck, socket_set_state, protocol_state
  <2>2. CASE NetShut(e)
    BY <2>2 DEF NetShut, Signalled
  <2>3. CASE NetDestroy(e)
    BY <2>3 DEF NetDestroy
  <2>4. QED
    BY <1>3, <2>1, <2>2, <2>3 DEF NetCleanup
<1>4. CASE NetSignal(e)
  BY <1>4 DEF NetSignal, Signalled
<1>5. CASE NetBlocks(e)
  BY <1>5 DEF NetBlocks
<1>6. CASE NetExits(e)
  BY <1>6 DEF NetExits
<1>7. QED
  BY <1>1, <1>2, <1>3, <1>4, <1>5, <1>6 DEF NetClosing

\* send_connection_acknowledgement, from either thread.
LEMMA AcknowledgementKeepsTypes ==
    ASSUME EndTypeOK, NEW outcome, send_connection_acknowledgement(outcome)
    PROVE  state' \in [Ends -> protocol_state] /\ seq' \in [Ends -> Nat]
<1>1. CASE outcome = "error"
  <2>1. UNCHANGED <<state, seq>>
    BY <1>1 DEF send_connection_acknowledgement
  <2>2. QED
    BY <2>1 DEF EndTypeOK
<1>2. CASE outcome # "error"
  <2>1. /\ state' = [state EXCEPT ![me] = "ESTABLISHED"]
        /\ seq' = [seq EXCEPT ![me] = 1]
    BY <1>2 DEF send_connection_acknowledgement, socket_set_state
  <2>2. QED
    BY <2>1 DEF EndTypeOK, protocol_state
<1>3. QED
  BY <1>1, <1>2

\* A main thread outside mic_tcp_close that moves on keeps the count of attempts.
LEMMA GotoKeepsAttempts ==
    ASSUME EndTypeOK, AttemptsLeft, NEW e \in Ends,
           NEW label \in Labels \ {"finlock", "finwait"}, Goto(e, label),
           attempts' = attempts
    PROVE  pc' \in [Ends -> Labels] /\ AttemptsLeft'
BY DEF EndTypeOK, AttemptsLeft, Goto

\* mic_tcp_connect.
LEMMA ConnectKeepsTypes ==
    ASSUME TypeInv, Connect
    PROVE  EndTypeOK' /\ ClientTypeOK' /\ AttemptsLeft'
<1> USE DEF TypeInv
<1>0. me \in Ends /\ me = "client"
  BY DEF me, Ends
<1> DEFINE Moves(label) == Goto(me, label) /\ attempts' = attempts
<1>a. ASSUME NEW label \in Labels \ {"finlock", "finwait"}, Moves(label)
      PROVE  pc' \in [Ends -> Labels] /\ AttemptsLeft'
  BY <1>0, <1>a, GotoKeepsAttempts
<1>b. ASSUME UNCHANGED clientVars
      PROVE  ClientTypeOK'
  BY <1>b DEF ClientTypeOK, clientVars
<1>1. ASSUME NEW outcome, SendSyn(outcome)
      PROVE  EndTypeOK' /\ ClientTypeOK' /\ AttemptsLeft'
  <2>1. inbox' \in [Ends -> Seq(Pdus)]
    BY <1>0, <1>1, SendKeepsType, ControlPdus DEF SendSyn, EndTypeOK
  <2>2. pc' \in [Ends -> Labels] /\ AttemptsLeft'
    BY <1>1, <1>a DEF SendSyn, Labels
  <2>3. QED
    BY <1>0, <1>1, <1>b, <2>1, <2>2
    DEF SendSyn, EndTypeOK, socket_set_state, protocol_state
<1>2. CASE RecvWhileConnecting
  <2>1. inbox' \in [Ends -> Seq(Pdus)]
    BY <1>0, <1>2, ReceiveKeepsType DEF RecvWhileConnecting, EndTypeOK
  <2>2. Moves("connack") \/ Moves("synwait")
    BY <1>2 DEF RecvWhileConnecting
  <2>3. pc' \in [Ends -> Labels] /\ AttemptsLeft'
    BY <1>a, <2>2 DEF Labels
  <2>4. QED
    BY <1>2, <1>b, <2>1, <2>3 DEF RecvWhileConnecting, EndTypeOK
<1>3. CASE SynTimesOut
  <2>1. pc' \in [Ends -> Labels] /\ AttemptsLeft'
    BY <1>3, <1>a DEF SynTimesOut, Labels
  <2>2. QED
    BY <1>3, <1>b, <2>1 DEF SynTimesOut, EndTypeOK
<1>4. CASE Acknowledge
  <2>1. PICK outcome \in Outcomes : send_connection_acknowledgement(outcome)
    BY <1>4 DEF Acknowledge
  <2>2. inbox' \in [Ends -> Seq(Pdus)]
    BY <1>0, <2>1, SendKeepsType, ControlPdus
    DEF send_connection_acknowledgement, EndTypeOK
  <2>3. state' \in [Ends -> protocol_state] /\ seq' \in [Ends -> Nat]
    BY <1>0, <2>1, AcknowledgementKeepsTypes
  <2>4. pc' \in [Ends -> Labels] /\ AttemptsLeft'
    BY <1>4, <1>a DEF Acknowledge, Labels
  <2>5. QED
    BY <1>4, <1>b, <2>2, <2>3, <2>4 DEF Acknowledge, EndTypeOK
<1>5. CASE Spawn
  <2>1. pc' \in [Ends -> Labels] /\ AttemptsLeft'
    BY <1>5, <1>a DEF Spawn, Labels
  <2>2. net' \in [Ends -> [at : NetLabels, pdu : Pdus]]
    BY <1>0, <1>5, ControlPdus DEF Spawn, EndTypeOK, NetAt, NetLabels
  <2>3. QED
    BY <1>5, <1>b, <2>1, <2>2 DEF Spawn, EndTypeOK
<1>6. CASE SpawnFails
  <2>1. pc' \in [Ends -> Labels] /\ AttemptsLeft'
    BY <1>6, <1>a DEF SpawnFails, Labels
  <2>2. QED
    BY <1>6, <1>b, <2>1 DEF SpawnFails, EndTypeOK
<1>7. CASE StartMeasuring
  <2>1. pc' \in [Ends -> Labels] /\ AttemptsLeft'
    BY <1>7, <1>a DEF StartMeasuring, Labels
  <2>2. QED
    BY <1>0, <1>7, <1>b, <2>1
    DEF StartMeasuring, EndTypeOK, socket_set_state, protocol_state
<1>8. CASE SendProbe
  <2>1. create_pdu({}, 0, 0, MESURING_PAYLOAD) \in Pdus
    BY DEF create_pdu, Pdus, mic_tcp_pdu, Flags, Payloads
  <2>2. inbox' \in [Ends -> Seq(Pdus)]
    BY <1>0, <1>8, <2>1, SendKeepsType DEF SendProbe, EndTypeOK
  <2>3. probes' \in 0 .. MESURING_RELIABILITY_PACKET_NUMBER
    BY <1>8, ClientAssumption DEF SendProbe, ClientTypeOK
  <2>4. ClientTypeOK'
    BY <1>8, <2>3 DEF SendProbe, ClientTypeOK
  <2>5. EndTypeOK' /\ AttemptsLeft'
    BY <1>8, <2>2 DEF SendProbe, EndTypeOK, AttemptsLeft
  <2>6. QED
    BY <2>4, <2>5
<1>9. CASE AcceptChannel
  <2>1. pc' \in [Ends -> Labels] /\ AttemptsLeft'
    BY <1>9, <1>a DEF AcceptChannel, Labels
  <2>2. tolerance' \in 0 .. 3
    BY <1>9 DEF AcceptChannel, ConsecutiveLoss
  <2>3. ClientTypeOK'
    BY <1>9, <2>2 DEF AcceptChannel, ClientTypeOK
  <2>4. QED
    BY <1>0, <1>9, <2>1, <2>3
    DEF AcceptChannel, EndTypeOK, socket_set_state, protocol_state
<1>10. CASE RefuseChannel
  <2>1. EndTypeOK' /\ AttemptsLeft'
    BY <1>0, <1>10, EndpointAssumption
    DEF RefuseChannel, mic_tcp_close, EndTypeOK, AttemptsLeft, Goto, Labels,
        socket_set_state, protocol_state
  <2>2. QED
    BY <1>10, <1>b, <2>1 DEF RefuseChannel
<1>11. QED
  BY <1>1, <1>2, <1>3, <1>4, <1>5, <1>6, <1>7, <1>8, <1>9, <1>10 DEF Connect

\* The calls of the application: mic_tcp_send up to its check of the state, and
\* mic_tcp_close.
LEMMA CallsKeepTypes ==
    ASSUME TypeInv, ClientApplication
    PROVE  EndTypeOK' /\ ClientTypeOK' /\ AttemptsLeft'
<1> USE DEF TypeInv
<1>0. me \in Ends
  BY DEF me, Ends
<1>1. CASE CallSend
  <2>1. \/ Goto(me, "build") /\ results' = results
        \/ Goto(me, "idle") /\ results' = Append(results, "error")
    BY <1>1 DEF CallSend, Return
  <2>2. results' \in Seq(SendEnds)
    BY <2>1 DEF ClientTypeOK, SendEnds
  <2>3. pc' \in [Ends -> Labels] /\ AttemptsLeft'
    BY <1>0, <1>1, <2>1, GotoKeepsAttempts DEF CallSend, Labels
  <2>4. EndTypeOK'
    BY <1>1, <2>3 DEF CallSend, EndTypeOK
  <2>5. ClientTypeOK'
    BY <1>1, <2>2 DEF CallSend, ClientTypeOK
  <2>6. QED
    BY <2>3, <2>4, <2>5
<1>2. CASE CallClose
  <2>1. EndTypeOK' /\ AttemptsLeft'
    BY <1>0, <1>2, EndpointAssumption
    DEF CallClose, mic_tcp_close, EndTypeOK, AttemptsLeft, Goto, Labels,
        socket_set_state, protocol_state
  <2>2. ClientTypeOK'
    BY <1>2 DEF CallClose, ClientTypeOK, clientVars
  <2>3. QED
    BY <2>1, <2>2
<1>3. QED
  BY <1>1, <1>2 DEF ClientApplication

\* The window stays in its positions, whichever way a send ends.
LEMMA WindowKeepsType ==
    ASSUME NEW window \in SUBSET Positions(sliding_window_size),
           NEW received \in BOOLEAN
    PROVE  update_sliding_window(window, sliding_window_size, received)
             \subseteq Positions(sliding_window_size)
BY DEF update_sliding_window, Shift

\* mic_tcp_send.
LEMMA SendKeepsTypes ==
    ASSUME TypeInv, Send
    PROVE  EndTypeOK' /\ ClientTypeOK' /\ AttemptsLeft'
<1> USE DEF TypeInv
<1>0. me \in Ends
  BY DEF me, Ends
<1>a. ASSUME NEW label \in Labels \ {"finlock", "finwait"},
             Goto(me, label), attempts' = attempts
      PROVE  pc' \in [Ends -> Labels] /\ AttemptsLeft'
  BY <1>0, <1>a, GotoKeepsAttempts
<1>b. ASSUME NEW end \in SendEnds, Return(end)
      PROVE  results' \in Seq(SendEnds) /\ Goto(me, "idle")
  BY <1>b DEF ClientTypeOK, Return
<1>c. ASSUME NEW end \in SendEnds, NEW received \in BOOLEAN,
             Windowed(received, end)
      PROVE  /\ sliding_window' \subseteq Positions(sliding_window_size)
             /\ results' \in Seq(SendEnds)
             /\ Goto(me, "idle")
  BY <1>b, <1>c, WindowKeepsType DEF ClientTypeOK, Windowed
<1>1. CASE BuildPacket
  <2>1. pc' \in [Ends -> Labels] /\ AttemptsLeft'
    BY <1>1, <1>a DEF BuildPacket, Labels
  <2>2. packet' \in [seq_num : Nat, expected_ack_num : Nat]
    BY <1>0, <1>1 DEF BuildPacket, EndTypeOK, ClientTypeOK
  <2>3. EndTypeOK' /\ ClientTypeOK'
    BY <1>1, <2>1, <2>2 DEF BuildPacket, EndTypeOK, ClientTypeOK
  <2>4. QED
    BY <2>1, <2>3
<1>2. CASE SendPacket
  <2>1. PICK outcome \in SendResults :
          /\ IP_send(me, create_pdu({}, packet.seq_num, 0, message), outcome)
          /\ IF outcome = "error" THEN Return("error")
             ELSE Goto(me, "sendlock") /\ UNCHANGED results
    BY <1>2 DEF SendPacket
  <2>2. message \in Nat
    BY DEF message, ClientTypeOK
  <2>3. create_pdu({}, packet.seq_num, 0, message) \in Pdus
    BY <2>2 DEF ClientTypeOK, create_pdu, Pdus, mic_tcp_pdu, Flags, Payloads
  <2>4. inbox' \in [Ends -> Seq(Pdus)]
    BY <1>0, <2>1, <2>3, SendKeepsType DEF EndTypeOK
  <2>5. \/ Return("error")
        \/ Goto(me, "sendlock") /\ results' = results
    BY <2>1
  <2>6. results' \in Seq(SendEnds)
    BY <1>b, <2>5 DEF ClientTypeOK, SendEnds
  <2>7. Goto(me, "idle") \/ Goto(me, "sendlock")
    BY <2>5 DEF Return
  <2>8. pc' \in [Ends -> Labels] /\ AttemptsLeft'
    BY <1>2, <1>a, <2>7 DEF SendPacket, Labels
  <2>9. packet' \in [seq_num : Nat, expected_ack_num : Nat]
    <3>1. seq[me] + 1 \in Nat
      BY <1>0 DEF EndTypeOK
    <3>2. packet' = [packet EXCEPT !.expected_ack_num = seq[me] + 1]
      BY <1>2 DEF SendPacket
    <3>3. QED
      BY <3>1, <3>2 DEF ClientTypeOK
  <2>10. EndTypeOK'
    BY <1>2, <2>4, <2>8 DEF SendPacket, EndTypeOK
  <2>11. ClientTypeOK'
    BY <1>2, <2>6, <2>9 DEF SendPacket, ClientTypeOK
  <2>12. QED
    BY <2>8, <2>10, <2>11
<1>3. CASE SendWaitStarts
  <2>1. pc' \in [Ends -> Labels] /\ AttemptsLeft'
    BY <1>3, <1>a DEF SendWaitStarts, Labels
  <2>2. EndTypeOK'
    BY <1>3, <2>1 DEF SendWaitStarts, EndTypeOK
  <2>3. ClientTypeOK'
    BY <1>3 DEF SendWaitStarts, ClientTypeOK, clientVars
  <2>4. QED
    BY <2>1, <2>2, <2>3
<1>4. CASE SendWaitFails
  <2>1. results' \in Seq(SendEnds) /\ Goto(me, "idle")
    BY <1>4, <1>b DEF SendWaitFails, SendEnds
  <2>2. pc' \in [Ends -> Labels] /\ AttemptsLeft'
    BY <1>4, <1>a, <2>1 DEF SendWaitFails, Labels
  <2>3. EndTypeOK' /\ ClientTypeOK'
    BY <1>4, <2>1, <2>2 DEF SendWaitFails, EndTypeOK, ClientTypeOK
  <2>4. QED
    BY <2>2, <2>3
<1>5. CASE SendWakes \/ SendTimesOut
  <2>1. \/ Windowed(TRUE, "acked")
        \/ Windowed(FALSE, "lost")
        \/ Retry
    BY <1>5 DEF SendWakes, SendTimesOut
  <2>2. /\ sliding_window' \subseteq Positions(sliding_window_size)
        /\ results' \in Seq(SendEnds)
        /\ Goto(me, "idle") \/ Goto(me, "build")
    BY <1>c, <2>1 DEF SendEnds, Retry, ClientTypeOK
  <2>3. /\ UNCHANGED <<state, seq, open, lock, attempts, net, inbox>>
        /\ UNCHANGED <<received_packets, tolerance, probes, packet>>
    BY <1>5 DEF SendWakes, SendTimesOut
  <2>4. woken' \in [Ends -> BOOLEAN]
    BY <1>0, <1>5 DEF SendWakes, SendTimesOut, Wakes, EndTypeOK
  <2>5. pc' \in [Ends -> Labels] /\ AttemptsLeft'
    BY <1>a, <2>2, <2>3 DEF Labels
  <2>6. EndTypeOK'
    BY <2>3, <2>4, <2>5 DEF EndTypeOK
  <2>7. ClientTypeOK'
    BY <2>2, <2>3 DEF ClientTypeOK
  <2>8. QED
    BY <2>5, <2>6, <2>7
<1>6. QED
  BY <1>1, <1>2, <1>3, <1>4, <1>5 DEF Send

\* listening_client and process_client_PDU.
LEMMA ClientNetKeepsTypes ==
    ASSUME TypeInv, ClientNet
    PROVE  EndTypeOK' /\ ClientTypeOK' /\ AttemptsLeft'
<1> USE DEF TypeInv
<1>0. me \in Ends
  BY DEF me, Ends
<1>a. ASSUME pc' = pc, attempts' = attempts
      PROVE  AttemptsLeft'
  BY <1>a DEF AttemptsLeft
<1>b. ASSUME UNCHANGED clientVars
      PROVE  ClientTypeOK'
  BY <1>b DEF ClientTypeOK, clientVars
<1>1. CASE ProbeAcknowledged
  <2>1. EndTypeOK'
    BY <1>0, <1>1, ControlPdus
    DEF ProbeAcknowledged, EndTypeOK, Signalled, NetDone, NetAt, NetLabels
  <2>2. ClientTypeOK'
    BY <1>1 DEF ProbeAcknowledged, ClientTypeOK
  <2>3. AttemptsLeft'
    BY <1>1, <1>a DEF ProbeAcknowledged
  <2>4. QED
    BY <2>1, <2>2, <2>3
<1>2. CASE ClientReceive /\ UNCHANGED clientVars
  <2>1. Head(inbox[me]) \in Pdus
    BY <1>0, <1>2, ReceiveKeepsType DEF ClientReceive, EndTypeOK
  <2>2. EndTypeOK'
    BY <1>0, <1>2, <2>1, EffectsAreLabels, NetReceiveKeepsTypes
    DEF ClientReceive
  <2>3. AttemptsLeft'
    BY <1>2, <1>a DEF ClientReceive, NetReceive
  <2>4. QED
    BY <1>2, <1>b, <2>2, <2>3
<1>3. CASE DataAcknowledged /\ UNCHANGED clientVars
  <2>1. net[me].pdu.ack_num \in Nat
    BY <1>0 DEF EndTypeOK, Pdus, mic_tcp_pdu
  <2>2. EndTypeOK'
    BY <1>0, <1>3, <2>1, ControlPdus
    DEF DataAcknowledged, EndTypeOK, Signalled, NetDone, NetAt, NetLabels
  <2>3. AttemptsLeft'
    BY <1>3, <1>a DEF DataAcknowledged
  <2>4. QED
    BY <1>3, <1>b, <2>2, <2>3
<1>4. CASE /\ NetClosing(me) \/ ListenerExits \/ ListenerBlocks
           /\ UNCHANGED clientVars
  <2>1. NetClosing(me) \/ NetBlocks(me) \/ NetExits(me)
    BY <1>4 DEF ListenerExits, ListenerBlocks
  <2>2. EndTypeOK' /\ pc' = pc /\ attempts' = attempts
    BY <1>0, <2>1, NetClosingKeepsTypes
  <2>3. QED
    BY <1>4, <1>a, <1>b, <2>2
<1>5. ASSUME NEW outcome, Reacknowledge(outcome), UNCHANGED clientVars
      PROVE  EndTypeOK' /\ ClientTypeOK' /\ AttemptsLeft'
  <2>1. send_connection_acknowledgement(outcome)
    BY <1>5 DEF Reacknowledge
  <2>2. inbox' \in [Ends -> Seq(Pdus)]
    BY <1>0, <2>1, SendKeepsType, ControlPdus
    DEF send_connection_acknowledgement, EndTypeOK
  <2>3. state' \in [Ends -> protocol_state] /\ seq' \in [Ends -> Nat]
    BY <2>1, AcknowledgementKeepsTypes
  <2>4. net' \in [Ends -> [at : NetLabels, pdu : Pdus]]
    BY <1>0, <1>5, ControlPdus
    DEF Reacknowledge, EndTypeOK, NetDone, NetAt, NetLabels
  <2>5. EndTypeOK'
    BY <1>5, <2>2, <2>3, <2>4 DEF Reacknowledge, EndTypeOK
  <2>6. AttemptsLeft'
    BY <1>5, <1>a DEF Reacknowledge
  <2>7. QED
    BY <1>5, <1>b, <2>5, <2>6
<1>6. QED
  BY <1>1, <1>2, <1>3, <1>4, <1>5 DEF ClientNet

\* mic_tcp_bind, mic_tcp_accept and mic_tcp_recv.
LEMMA ServerMainKeepsTypes ==
    ASSUME TypeInv, Accept \/ mic_tcp_recv \/ ServerCloses
    PROVE  EndTypeOK' /\ ServerTypeOK' /\ AttemptsLeft'
<1> USE DEF TypeInv
<1>0. self \in Ends
  BY DEF self, Ends
<1>a. ASSUME NEW label \in Labels \ {"finlock", "finwait"},
             Goto(self, label), attempts' = attempts
      PROVE  pc' \in [Ends -> Labels] /\ AttemptsLeft'
  BY <1>0, <1>a, GotoKeepsAttempts
<1>b. ASSUME UNCHANGED serverVars
      PROVE  ServerTypeOK'
  BY <1>b DEF ServerTypeOK, serverVars
<1>c. AcceptLoop => Goto(self, "synack") \/ Goto(self, "recv")
  BY DEF AcceptLoop
<1>1. CASE mic_tcp_bind
  <2>1. pc' \in [Ends -> Labels] /\ AttemptsLeft'
    BY <1>1, <1>a DEF mic_tcp_bind, Labels
  <2>2. QED
    BY <1>0, <1>1, <1>b, <2>1
    DEF mic_tcp_bind, EndTypeOK, socket_set_state, protocol_state
<1>2. CASE mic_tcp_accept
  <2>1. pc' \in [Ends -> Labels] /\ AttemptsLeft'
    BY <1>2, <1>a DEF mic_tcp_accept, Labels
  <2>2. QED
    BY <1>0, <1>2, <1>b, <2>1
    DEF mic_tcp_accept, EndTypeOK, socket_set_state, protocol_state
<1>3. CASE AcceptWaitStarts
  <2>1. pc' \in [Ends -> Labels] /\ AttemptsLeft'
    BY <1>3, <1>a DEF AcceptWaitStarts, Labels
  <2>2. QED
    BY <1>3, <1>b, <2>1 DEF AcceptWaitStarts, EndTypeOK
<1>4. CASE AcceptWakes \/ SynAckWakes \/ SynAckTimesOut
  <2>1. pc' \in [Ends -> Labels] /\ AttemptsLeft'
    BY <1>4, <1>a, <1>c DEF AcceptWakes, SynAckWakes, SynAckTimesOut, Labels
  <2>2. woken' \in [Ends -> BOOLEAN]
    BY <1>0, <1>4 DEF AcceptWakes, SynAckWakes, SynAckTimesOut, Wakes, EndTypeOK
  <2>3. UNCHANGED <<state, seq, open, lock, attempts, net, inbox, serverVars>>
    BY <1>4 DEF AcceptWakes, SynAckWakes, SynAckTimesOut
  <2>4. QED
    BY <1>b, <2>1, <2>2, <2>3 DEF EndTypeOK
<1>5. ASSUME NEW outcome, SendSynAck(outcome)
      PROVE  EndTypeOK' /\ ServerTypeOK' /\ AttemptsLeft'
  <2>1. inbox' \in [Ends -> Seq(Pdus)]
    BY <1>0, <1>5, SendKeepsType, ControlPdus DEF SendSynAck, EndTypeOK
  <2>2. \/ Goto(self, "synack") \/ Goto(self, "recv")
        \/ Goto(self, "synacklock")
    BY <1>5, <1>c DEF SendSynAck
  <2>3. pc' \in [Ends -> Labels] /\ AttemptsLeft'
    BY <1>5, <1>a, <2>2 DEF SendSynAck, Labels
  <2>4. QED
    BY <1>5, <1>b, <2>1, <2>3 DEF SendSynAck, EndTypeOK
<1>6. CASE SynAckWaitStarts \/ SynAckWaitFails
  <2>1. pc' \in [Ends -> Labels] /\ AttemptsLeft'
    BY <1>6, <1>a DEF SynAckWaitStarts, SynAckWaitFails, Labels
  <2>2. QED
    BY <1>6, <1>b, <2>1 DEF SynAckWaitStarts, SynAckWaitFails, EndTypeOK
<1>7. CASE mic_tcp_recv
  <2>1. Goto(self, "close") \/ Goto(self, "recv")
    BY <1>7 DEF mic_tcp_recv
  <2>2. pc' \in [Ends -> Labels] /\ AttemptsLeft'
    BY <1>7, <1>a, <2>1 DEF mic_tcp_recv, Labels
  <2>3. EndTypeOK'
    BY <1>7, <2>2 DEF mic_tcp_recv, EndTypeOK
  <2>4. Len(delivered) \in Nat
    BY LenProperties DEF ServerTypeOK
  <2>5. nread' \in 0 .. Len(delivered)
    BY <1>7, <2>4 DEF mic_tcp_recv, ServerTypeOK
  <2>6. ServerTypeOK'
    BY <1>7, <2>5 DEF mic_tcp_recv, ServerTypeOK
  <2>7. QED
    BY <2>2, <2>3, <2>6
<1>8. CASE ServerCloses
  <2>1. EndTypeOK' /\ AttemptsLeft'
    BY <1>0, <1>8, EndpointAssumption
    DEF ServerCloses, mic_tcp_close, EndTypeOK, AttemptsLeft, Goto, Labels,
        socket_set_state, protocol_state
  <2>2. QED
    BY <1>8, <1>b, <2>1 DEF ServerCloses
<1>9. CASE AcceptCrashes
  <2>1. pc' \in [Ends -> Labels] /\ AttemptsLeft'
    BY <1>9, <1>a DEF AcceptCrashes, Labels
  <2>2. net' \in [Ends -> [at : NetLabels, pdu : Pdus]]
    BY <1>0, <1>9, ControlPdus DEF AcceptCrashes, EndTypeOK, NetAt, NetLabels
  <2>3. QED
    BY <1>0, <1>9, <1>b, <2>1, <2>2 DEF AcceptCrashes, EndTypeOK
<1>10. QED
  BY <1>1, <1>2, <1>3, <1>4, <1>5, <1>6, <1>7, <1>8, <1>9 DEF Accept

\* listening and process_server_PDU.
LEMMA ServerNetKeepsTypes ==
    ASSUME TypeInv, ServerNet
    PROVE  EndTypeOK' /\ ServerTypeOK' /\ AttemptsLeft'
<1> USE DEF TypeInv
<1>0. self \in Ends
  BY DEF self, Ends
<1>a. ASSUME pc' = pc, attempts' = attempts
      PROVE  AttemptsLeft'
  BY <1>a DEF AttemptsLeft
<1>b. ASSUME UNCHANGED serverVars
      PROVE  ServerTypeOK'
  BY <1>b DEF ServerTypeOK, serverVars
<1>c. ASSUME NetDone(self)
      PROVE  net' \in [Ends -> [at : NetLabels, pdu : Pdus]]
  BY <1>0, <1>c, ControlPdus DEF EndTypeOK, NetDone, NetAt, NetLabels
<1>1. CASE ServerReceive
  <2>1. Head(inbox[self]) \in Pdus
    BY <1>0, <1>1, ReceiveKeepsType DEF ServerReceive, EndTypeOK
  <2>2. EndTypeOK'
    BY <1>0, <1>1, <2>1, EffectsAreLabels, NetReceiveKeepsTypes
    DEF ServerReceive
  <2>3. Head(inbox[self]).data \in Payloads
    BY <2>1 DEF Pdus, mic_tcp_pdu
  <2>4. scratch' \in Payloads
    BY <1>1, <2>3 DEF ServerReceive, Text, ServerTypeOK
  <2>5. ServerTypeOK'
    BY <1>1, <2>4 DEF ServerReceive, ServerTypeOK
  <2>6. AttemptsLeft'
    BY <1>1, <1>a DEF ServerReceive, NetReceive
  <2>7. QED
    BY <2>2, <2>5, <2>6
<1>2. CASE TakeData
  <2> DEFINE pdu == net[self].pdu
             next == seq'[self]
  <2>1. pdu \in Pdus /\ pdu.data \in Payloads
    BY <1>0 DEF EndTypeOK, Pdus, mic_tcp_pdu
  <2>2. \/ /\ seq' = [seq EXCEPT ![self] = seq[self] + 1]
           /\ delivered' = Append(delivered, pdu.data)
        \/ /\ seq' = [seq EXCEPT ![self] = seq[self]]
           /\ delivered' = delivered
    BY <1>2 DEF TakeData
  <2>3. seq' \in [Ends -> Nat] /\ next \in Nat
    <3>1. seq[self] \in Nat /\ seq[self] + 1 \in Nat
      BY <1>0 DEF EndTypeOK
    <3>2. seq' \in [Ends -> Nat]
      BY <2>2, <3>1 DEF EndTypeOK
    <3>3. QED
      BY <1>0, <3>2
  <2>4. \E outcome \in SendResults : IP_send(self, Ack(next), outcome)
    BY <1>0, <1>2, <2>2 DEF TakeData, EndTypeOK
  <2>5. inbox' \in [Ends -> Seq(Pdus)]
    BY <1>0, <2>3, <2>4, SendKeepsType, ControlPdus DEF EndTypeOK
  <2>6. EndTypeOK'
    BY <1>2, <1>c, <2>3, <2>5 DEF TakeData, EndTypeOK
  <2>7. /\ delivered' \in Seq(Payloads)
        /\ Len(delivered') \in Nat /\ Len(delivered') >= Len(delivered)
    BY <2>1, <2>2, AppendProperties, LenProperties DEF ServerTypeOK
  <2>8. nread' \in 0 .. Len(delivered') /\ scratch' \in Payloads
    BY <1>2, <2>7 DEF TakeData, ServerTypeOK
  <2>9. ServerTypeOK'
    BY <2>7, <2>8 DEF ServerTypeOK
  <2>10. AttemptsLeft'
    BY <1>2, <1>a DEF TakeData
  <2>11. QED
    BY <2>6, <2>9, <2>10
<1>3. CASE (SynReceived \/ AddressKnown) /\ UNCHANGED serverVars
  <2>1. CASE SynReceived
    <3>1. net' \in [Ends -> [at : NetLabels, pdu : Pdus]]
      BY <1>0, <2>1 DEF SynReceived, EndTypeOK, NetLabels
    <3>2. EndTypeOK'
      BY <1>0, <2>1, <3>1
      DEF SynReceived, EndTypeOK, socket_set_state, protocol_state
    <3>3. QED
      BY <1>3, <1>a, <1>b, <2>1, <3>2 DEF SynReceived
  <2>2. CASE AddressKnown
    <3>1. EndTypeOK'
      BY <1>0, <1>c, <2>2 DEF AddressKnown, EndTypeOK, Signalled
    <3>2. QED
      BY <1>3, <1>a, <1>b, <2>2, <3>1 DEF AddressKnown
  <2>3. QED
    BY <1>3, <2>1, <2>2
<1>4. CASE ConnectionAcknowledged /\ UNCHANGED serverVars
  <2>1. EndTypeOK'
    BY <1>0, <1>4, <1>c
    DEF ConnectionAcknowledged, EndTypeOK, Signalled, socket_set_state,
        protocol_state
  <2>2. QED
    BY <1>4, <1>a, <1>b, <2>1 DEF ConnectionAcknowledged
<1>5. CASE AnswerProbe /\ UNCHANGED serverVars
  <2>1. inbox' \in [Ends -> Seq(Pdus)]
    BY <1>0, <1>5, SendKeepsType, ControlPdus DEF AnswerProbe, EndTypeOK
  <2>2. EndTypeOK'
    BY <1>5, <1>c, <2>1 DEF AnswerProbe, EndTypeOK
  <2>3. QED
    BY <1>5, <1>a, <1>b, <2>2 DEF AnswerProbe
<1>6. CASE /\ NetClosing(self) \/ NetBlocks(self) \/ ListeningReturns
           /\ UNCHANGED serverVars
  <2>1. NetClosing(self) \/ NetBlocks(self) \/ NetExits(self)
    BY <1>6 DEF ListeningReturns
  <2>2. EndTypeOK' /\ pc' = pc /\ attempts' = attempts
    BY <1>0, <2>1, NetClosingKeepsTypes
  <2>3. QED
    BY <1>6, <1>a, <1>b, <2>2
<1>7. QED
  BY <1>1, <1>2, <1>3, <1>4, <1>5, <1>6 DEF ServerNet

\* Both starts have the types.
LEMMA InitialTypes == Init \/ InitConnected => TypeInv
<1> USE EndpointAssumption, ClientAssumption DEF TypeInv
<1>1. \A c, s : Both(c, s) = [e \in Ends |-> IF e = "client" THEN c ELSE s]
  BY DEF Both
<1>2. InitShared => /\ open \in [Ends -> BOOLEAN]
                    /\ lock \in [Ends -> BOOLEAN]
                    /\ woken \in [Ends -> BOOLEAN]
                    /\ attempts \in [Ends -> 0 .. MAX_ATTEMPTS]
                    /\ inbox \in [Ends -> Seq(Pdus)]
  BY DEF InitShared, Both
<1>3. InitShared => /\ sliding_window \subseteq Positions(sliding_window_size)
                    /\ packet \in [seq_num : Nat, expected_ack_num : Nat]
                    /\ results \in Seq(SendEnds)
                    /\ delivered \in Seq(Payloads)
                    /\ nread \in 0 .. Len(delivered)
  BY DEF InitShared
<1>4. CASE Init
  <2>1. EndTypeOK
    BY <1>2, <1>4, ControlPdus
    DEF Init, Both, EndTypeOK, protocol_state, Labels, NetAt, NetLabels
  <2>2. ClientTypeOK /\ ServerTypeOK
    BY <1>3, <1>4 DEF Init, ClientTypeOK, ServerTypeOK, Payloads, NoPayload
  <2>3. AttemptsLeft
    BY <1>4 DEF Init, Both, AttemptsLeft
  <2>4. QED
    BY <2>1, <2>2, <2>3
<1>5. CASE InitConnected
  <2>1. EndTypeOK
    BY <1>2, <1>5, ControlPdus
    DEF InitConnected, Both, EndTypeOK, protocol_state, Labels, NetAt, NetLabels
  <2>2. received_packets \in Nat
    BY <1>5, MeasuresAssumption DEF InitConnected
  <2>3. tolerance \in 0 .. 3
    BY <1>5 DEF InitConnected, ConsecutiveLoss
  <2>4. ClientTypeOK /\ ServerTypeOK
    BY <1>3, <1>5, <2>2, <2>3
    DEF InitConnected, ClientTypeOK, ServerTypeOK, Payloads, MESURING_PAYLOAD
  <2>5. AttemptsLeft
    BY <1>5 DEF InitConnected, Both, AttemptsLeft
  <2>6. QED
    BY <2>1, <2>4, <2>5
<1>6. QED
  BY <1>4, <1>5

\* Every step keeps them.
LEMMA StepsKeepTypes == TypeInv /\ [Next]_vars => TypeInv'
<1> SUFFICES ASSUME TypeInv, [Next]_vars
             PROVE  TypeInv'
  OBVIOUS
<1>a. ASSUME UNCHANGED clientVars
      PROVE  ClientTypeOK'
  BY <1>a DEF TypeInv, ClientTypeOK, clientVars
<1>b. ASSUME UNCHANGED serverVars
      PROVE  ServerTypeOK'
  BY <1>b DEF TypeInv, ServerTypeOK, serverVars
<1>c. ASSUME NEW e \in Ends, Close(e)
      PROVE  EndTypeOK' /\ AttemptsLeft'
  BY <1>c, CloseKeepsTypes DEF TypeInv
<1>d. me \in Ends /\ self \in Ends
  BY DEF me, self, Ends
<1>1. CASE ClientStep
  <2>1. EndTypeOK' /\ ClientTypeOK' /\ AttemptsLeft'
    BY <1>1, <1>a, <1>c, <1>d, ConnectKeepsTypes, SendKeepsTypes,
       ClientNetKeepsTypes
    DEF ClientStep, ClientMain
  <2>2. QED
    BY <1>1, <1>b, <2>1 DEF ClientStep, TypeInv
<1>2. CASE ServerStep
  <2>1. EndTypeOK' /\ ServerTypeOK' /\ AttemptsLeft'
    BY <1>2, <1>b, <1>c, <1>d, ServerMainKeepsTypes, ServerNetKeepsTypes
    DEF ServerStep, ServerMain
  <2>2. QED
    BY <1>2, <1>a, <2>1 DEF ServerStep, TypeInv
<1>3. CASE Call
  BY <1>3, <1>b, CallsKeepTypes DEF Call, TypeInv
<1>4. CASE UNCHANGED vars
  <2>1. UNCHANGED endVars /\ UNCHANGED clientVars /\ UNCHANGED serverVars
    BY <1>4 DEF vars
  <2>2. EndTypeOK' /\ AttemptsLeft'
    BY <2>1 DEF TypeInv, EndTypeOK, AttemptsLeft, endVars
  <2>3. QED
    BY <1>a, <1>b, <2>1, <2>2 DEF TypeInv
<1>5. QED
  BY <1>1, <1>2, <1>3, <1>4 DEF Next

\* Whatever the channel does and however the threads interleave, every variable
\* keeps its range, and no FIN of mic_tcp_close is waited for beyond
\* MAX_ATTEMPTS.
THEOREM TypeInvariant == Spec => []TypeInv
<1>1. Init => TypeInv
  BY InitialTypes
<1>2. QED
  BY <1>1, StepsKeepTypes, PTL DEF Spec

\* The same for the runs that start on a connection.
THEOREM TypeInvariantConnected == SpecConnected => []TypeInv
<1>1. InitConnected => TypeInv
  BY InitialTypes
<1>2. QED
  BY <1>1, StepsKeepTypes, PTL DEF SpecConnected
=============================================================================
