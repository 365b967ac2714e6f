------------------------------- MODULE Client -------------------------------
(***************************************************************************)
(* The client end: mic_tcp_connect with its measure of the reliability of  *)
(* the channel, mic_tcp_send with partial reliability, and the network     *)
(* thread that takes the acknowledgements (listening_client and            *)
(* process_client_PDU).                                                    *)
(***************************************************************************)
EXTENDS Endpoint, SlidingWindow

CONSTANTS
    NMessages,              \* bound: calls of mic_tcp_send
    MESURING_RELIABILITY_PACKET_NUMBER,
    sliding_window_size,    \* 10 in mic_tcp_connect
    MaxSeq                  \* bound: sequence numbers the client may reach

ASSUME ClientAssumption ==
    /\ NMessages \in Nat
    /\ MESURING_RELIABILITY_PACKET_NUMBER \in Nat \ {0}
    /\ sliding_window_size \in Nat
    /\ MaxSeq \in Nat

VARIABLES
    received_packets,
    sliding_window,
    tolerance,      \* sliding_window_consecutive_loss
    probes,         \* i of the measuring loop
    packet,         \* seq_num of the PDU being sent, and expected_ack_num
    results         \* history: what each call of mic_tcp_send ended in

clientVars == <<received_packets, sliding_window, tolerance, probes, packet,
                results>>

me == "client"

\* msg_size, 0 for an accepted loss, and -1.
SendEnds == {"acked", "lost", "error"}

(***************************************************************************)
(* mic_tcp_connect.                                                        *)
(***************************************************************************)
SendSyn(outcome) ==
    /\ pc[me] = "syn"
    /\ IP_send(me, Syn, outcome)
    /\ socket_set_state(me, "SYN_SENT")
    /\ Goto(me, "synwait")
    /\ UNCHANGED <<seq, open, lock, woken, attempts, net, clientVars>>

\* What is not the SYN+ACK is dropped and the wait goes on.
RecvWhileConnecting ==
    /\ pc[me] = "synwait" /\ inbox[me] # <<>>
    /\ inbox' = [inbox EXCEPT ![me] = Tail(@)]
    /\ Goto(me, IF Carries(Head(inbox[me]), {"SYN", "ACK"}) THEN "connack"
                ELSE "synwait")
    /\ UNCHANGED <<state, seq, open, lock, woken, attempts, net, clientVars>>

SynTimesOut ==
    /\ pc[me] = "synwait" /\ inbox[me] = <<>> /\ MayTimeOut(me)
    /\ Goto(me, "syn")
    /\ UNCHANGED <<state, seq, open, lock, woken, attempts, net, inbox,
                   clientVars>>

\* Both threads call it: the main one for the first SYN+ACK, the network one
\* for each other. Nothing is set when the ACK could not be sent.
send_connection_acknowledgement(outcome) ==
    /\ IP_send(me, Ack(0), outcome)
    /\ IF outcome = "error" THEN UNCHANGED <<state, seq>>
       ELSE /\ socket_set_state(me, "ESTABLISHED")
            /\ seq' = [seq EXCEPT ![me] = 1]

Acknowledge ==
    /\ pc[me] = "connack"
    /\ \E outcome \in Outcomes : send_connection_acknowledgement(outcome)
    /\ Goto(me, "spawn")
    /\ UNCHANGED <<open, lock, woken, attempts, net, clientVars>>

Spawn ==
    /\ pc[me] = "spawn"
    /\ net' = [net EXCEPT ![me] = NetAt("top", NoPdu)]
    /\ Goto(me, "measuring")
    /\ UNCHANGED <<state, seq, open, lock, woken, attempts, inbox, clientVars>>

SpawnFails ==
    /\ pc[me] = "spawn" /\ "no_thread" \in Rare
    /\ Goto(me, "failed")
    /\ UNCHANGED <<state, seq, open, lock, woken, attempts, net, inbox,
                   clientVars>>

StartMeasuring ==
    /\ pc[me] = "measuring"
    /\ socket_set_state(me, "MEASURING_RELIABILITY")
    /\ Goto(me, "probe")
    /\ UNCHANGED <<seq, open, lock, woken, attempts, net, inbox, clientVars>>

\* The wait after each probe has a deadline of now (TIMEOUT / 1000 is 0 and the
\* milliseconds are not added): it is no wait, and takes no step here.
SendProbe ==
    /\ pc[me] = "probe" /\ probes < MESURING_RELIABILITY_PACKET_NUMBER
    /\ \E outcome \in SendResults :
         IP_send(me, create_pdu({}, 0, 0, MESURING_PAYLOAD), outcome)
    /\ probes' = probes + 1
    /\ UNCHANGED <<state, seq, open, lock, pc, woken, attempts, net, received_packets,
                   sliding_window, tolerance, packet, results>>

Measured == pc[me] = "probe" /\ probes = MESURING_RELIABILITY_PACKET_NUMBER

\* mic_tcp_connect returns 0.
AcceptChannel ==
    /\ Measured
    /\ ~ TooUnreliable(received_packets, MESURING_RELIABILITY_PACKET_NUMBER)
    /\ tolerance' = ConsecutiveLoss(received_packets,
                                    MESURING_RELIABILITY_PACKET_NUMBER)
    /\ socket_set_state(me, "ESTABLISHED")
    /\ Goto(me, "idle")
    /\ UNCHANGED <<seq, open, lock, woken, attempts, net, inbox, received_packets,
                   sliding_window, probes, packet, results>>

\* mic_tcp_connect closes the connection and returns -1.
RefuseChannel ==
    /\ Measured
    /\ TooUnreliable(received_packets, MESURING_RELIABILITY_PACKET_NUMBER)
    /\ mic_tcp_close(me)
    /\ UNCHANGED <<seq, open, lock, woken, net, inbox, clientVars>>

Connect ==
    \/ \E outcome \in Outcomes : SendSyn(outcome)
    \/ RecvWhileConnecting \/ SynTimesOut \/ Acknowledge \/ Spawn \/ SpawnFails
    \/ StartMeasuring \/ SendProbe \/ AcceptChannel \/ RefuseChannel

(***************************************************************************)
(* mic_tcp_send, called with the messages 1, 2, ... in turn. The main      *)
(* thread reads current_seq_num twice, once for the header and once for    *)
(* expected_ack_num, without the lock; the network thread writes it.       *)
(***************************************************************************)
message == Len(results) + 1

Return(end) ==
    /\ results' = Append(results, end)
    /\ Goto(me, "idle")

CallSend ==
    /\ pc[me] = "idle" /\ message <= NMessages
    /\ IF state[me] = "ESTABLISHED" THEN Goto(me, "build") /\ UNCHANGED results
       ELSE Return("error")
    /\ UNCHANGED <<state, seq, open, lock, woken, attempts, net, inbox,
                   received_packets, sliding_window, tolerance, probes, packet>>

BuildPacket ==
    /\ pc[me] = "build" /\ seq[me] <= MaxSeq
    /\ packet' = [packet EXCEPT !.seq_num = seq[me]]
    /\ Goto(me, "send")
    /\ UNCHANGED <<state, seq, open, lock, woken, attempts, net, inbox,
                   received_packets, sliding_window, tolerance, probes, results>>

SendPacket ==
    /\ pc[me] = "send"
    /\ packet' = [packet EXCEPT !.expected_ack_num = seq[me] + 1]
    /\ \E outcome \in SendResults :
         /\ IP_send(me, create_pdu({}, packet.seq_num, 0, message), outcome)
         /\ IF outcome = "error" THEN Return("error")
            ELSE Goto(me, "sendlock") /\ UNCHANGED results
    /\ UNCHANGED <<state, seq, open, lock, woken, attempts, net, received_packets,
                   sliding_window, tolerance, probes>>

SendWaitStarts ==
    /\ pc[me] = "sendlock" /\ WaitStarts(me)
    /\ Goto(me, "sendwait")
    /\ UNCHANGED <<state, seq, open, lock, woken, attempts, net, inbox,
                   clientVars>>

\* Mutant: the result of pthread_cond_timedwait is only compared to ETIMEDOUT.
SendWaitFailureIgnored ==
    /\ pc[me] = "sendlock" /\ WaitRefused(me)
    /\ Return("acked")
    /\ UNCHANGED <<state, seq, open, lock, woken, attempts, net, inbox,
                   received_packets, sliding_window, tolerance, probes, packet>>

SendWaitFails ==
    /\ pc[me] = "sendlock" /\ WaitRefused(me)
    /\ Return("error")
    /\ UNCHANGED <<state, seq, open, lock, woken, attempts, net, inbox,
                   received_packets, sliding_window, tolerance, probes, packet>>

Windowed(received, end) ==
    /\ sliding_window' =
         update_sliding_window(sliding_window, sliding_window_size, received)
    /\ Return(end)

Retry == Goto(me, "build") /\ UNCHANGED <<sliding_window, results>>

\* Mutant: any wakeup is taken for the acknowledgement.
SendWakesUnchecked ==
    /\ pc[me] = "sendwait" /\ Wakes(me)
    /\ Windowed(TRUE, "acked")
    /\ UNCHANGED <<state, seq, open, lock, attempts, net, inbox, received_packets,
                   tolerance, probes, packet>>

SendWakes ==
    /\ pc[me] = "sendwait" /\ Wakes(me)
    /\ IF seq[me] = packet.expected_ack_num THEN Windowed(TRUE, "acked")
       ELSE Retry
    /\ UNCHANGED <<state, seq, open, lock, attempts, net, inbox, received_packets,
                   tolerance, probes, packet>>

\* Mutant: every timeout is an accepted loss.
SendTimesOutUnchecked ==
    /\ pc[me] = "sendwait" /\ MayTimeOut(me)
    /\ Windowed(FALSE, "lost")
    /\ UNCHANGED <<state, seq, open, lock, woken, attempts, net, inbox,
                   received_packets, tolerance, probes, packet>>

SendTimesOut ==
    /\ pc[me] = "sendwait" /\ MayTimeOut(me)
    /\ IF verify_acceptable_loss(sliding_window, sliding_window_size, tolerance)
       THEN Windowed(FALSE, "lost")
       ELSE Retry
    /\ UNCHANGED <<state, seq, open, lock, woken, attempts, net, inbox,
                   received_packets, tolerance, probes, packet>>

Send ==
    \/ BuildPacket \/ SendPacket \/ SendWaitStarts \/ SendWaitFails
    \/ SendWakes \/ SendTimesOut

\* The end of the input may come at any time.
CallClose ==
    /\ pc[me] = "idle"
    /\ mic_tcp_close(me)
    /\ UNCHANGED <<seq, open, lock, woken, net, inbox, clientVars>>

\* What the application decides, and what a call then does.
ClientApplication == CallSend \/ CallClose
ClientMain == Connect \/ Send \/ (Close(me) /\ UNCHANGED clientVars)

(***************************************************************************)
(* listening_client and process_client_PDU. A SYN+ACK is answered in any   *)
(* state: it means that the ACK of the connection was not received.        *)
(***************************************************************************)
\* Mutant: while measuring, the ACK flag alone is looked at, and first.
ClientEffectByAckFlag(pdu) ==
    IF state[me] = "MEASURING_RELIABILITY" /\ "ACK" \in pdu.flags THEN "probeack"
    ELSE IF Carries(pdu, {"SYN", "ACK"}) THEN "reack"
    ELSE CASE state[me] = "ESTABLISHED" ->
                IF Carries(pdu, {"ACK"}) THEN "dataack"
                ELSE IF Carries(pdu, {"FIN"}) THEN "fin" ELSE "top"
           [] state[me] = "AWAITING_CLOSING" -> AwaitingClosingEffect(pdu)
           [] state[me] = "CLOSING" -> ClosingEffect(pdu)
           [] OTHER -> "top"

ClientEffect(pdu) ==
    IF Carries(pdu, {"SYN", "ACK"}) THEN "reack"
    ELSE CASE state[me] = "MEASURING_RELIABILITY" ->
                IF Carries(pdu, {"ACK"}) THEN "probeack" ELSE "top"
           [] state[me] = "ESTABLISHED" ->
                IF Carries(pdu, {"ACK"}) THEN "dataack"
                ELSE IF Carries(pdu, {"FIN"}) THEN "fin" ELSE "top"
           [] state[me] = "AWAITING_CLOSING" -> AwaitingClosingEffect(pdu)
           [] state[me] = "CLOSING" -> ClosingEffect(pdu)
           [] OTHER -> "top"

ClientReceive ==
    /\ inbox[me] # <<>>
    /\ NetReceive(me, ClientEffect(Head(inbox[me])))

Reacknowledge(outcome) ==
    /\ net[me].at = "reack"
    /\ send_connection_acknowledgement(outcome)
    /\ NetDone(me)
    /\ UNCHANGED <<open, lock, pc, woken, attempts>>

ProbeAcknowledged ==
    /\ net[me].at = "probeack"
    /\ received_packets' = received_packets + 1
    /\ woken' = Signalled(me)
    /\ NetDone(me)
    /\ UNCHANGED <<state, seq, open, lock, pc, attempts, inbox, sliding_window,
                   tolerance, probes, packet, results>>

DataAcknowledged ==
    /\ net[me].at = "dataack"
    /\ seq' = [seq EXCEPT ![me] = net[me].pdu.ack_num]
    /\ woken' = Signalled(me)
    /\ NetDone(me)
    /\ UNCHANGED <<state, open, lock, pc, attempts, inbox>>

ListenerExits == state[me] = "CLOSED" /\ NetExits(me)
ListenerBlocks == state[me] # "CLOSED" /\ NetBlocks(me)

ClientNet ==
    \/ ProbeAcknowledged
    \/ /\ \/ ClientReceive \/ DataAcknowledged \/ NetClosing(me)
          \/ \E outcome \in SendResults : Reacknowledge(outcome)
          \/ ListenerExits \/ ListenerBlocks
       /\ UNCHANGED clientVars
=============================================================================
