--------------------------- MODULE HandshakeProofs ---------------------------
(***************************************************************************)
(* What the two ends know of each other while they connect, and that a     *)
(* server which is taken down stays down, for every value of the           *)
(* constants.                                                              *)
(***************************************************************************)
EXTENDS CleanupProofs

\* Until accept has passed ACCEPTING to its wait, nobody has met a SYN.
NotYetAccepting ==
    pc["server"] \in {"bind", "accept"} =>
      /\ seq["server"] = 0
      /\ state["server"] \notin {"ACCEPTING", "SYN_RECEIVED"}
      /\ net["server"].at \notin {"syn", "synaddr", "connack"}

\* Once the server is established no part of the handshake is left to be run.
HandshakeIsOver ==
    ServerEstablished =>
      /\ state["server"] \notin {"ACCEPTING", "SYN_RECEIVED"}
      /\ net["server"].at \notin {"syn", "connack"}

OnceInv == NotYetAccepting /\ HandshakeIsOver

\* What only an established server has or does.
EstablishedFirst ==
    \/ state["server"] = "ESTABLISHED"
    \/ net["server"].at \in {"probe", "data"}
    \/ delivered # <<>>
    \/ pc["server"] \in {"close", "fin", "finlock", "finwait", "finalack"}
    => ServerEstablished

\* An acknowledgement means that the server is established, from the moment it is
\* sent to the last time the client has counted it.
AcksComeFromEstablished ==
    \/ \E i \in DOMAIN inbox["client"] : Carries(inbox["client"][i], {"ACK"})
    \/ net["client"].at = "probeack"
    \/ received_packets > 0
    => ServerEstablished

MeasuredSomething == Connected => received_packets > 0

MeasureInv == EstablishedFirst /\ AcksComeFromEstablished /\ MeasuredSomething

AcceptWaits == pc["server"] \in {"acceptlock", "acceptwait"} /\ ~ woken["server"]

\* The signal that wakes accept comes after the SYN, and with nothing else to wake
\* it the SYN is handled once.
SynHandledOnce ==
    /\ woken["server"] => pc["server"] \in Waiting
    /\ state["server"] = "ACCEPTING" =>
         AcceptWaits /\ net["server"].at # "synaddr"
    /\ net["server"].at = "syn" => state["server"] = "ACCEPTING"
    /\ net["server"].at = "synaddr" => state["server"] = "SYN_RECEIVED" /\ AcceptWaits
    /\ pc["server"] = "acceptwait" /\ woken["server"] =>
         state["server"] = "SYN_RECEIVED"
    /\ pc["server"] \in {"synack", "synacklock", "synackwait"} =>
         \/ state["server"] = "SYN_RECEIVED"
         \/ ServerEstablished \/ state["server"] \in Down

AcceptInv == AcceptsAlone /\ SynHandledOnce /\ AcceptOutcome

(***************************************************************************)
(* What a step of one end can do to the other: put a PDU in its queue.     *)
(***************************************************************************)
LEMMA SendReaches ==
    ASSUME EndTypeOK, NEW e \in Ends, NEW pdu, NEW outcome,
           IP_send(e, pdu, outcome)
    PROVE  /\ inbox'[e] = inbox[e]
           /\ \/ inbox'[Peer(e)] = inbox[Peer(e)]
              \/ inbox'[Peer(e)] = Append(inbox[Peer(e)], pdu)
<1>1. Peer(e) \in Ends /\ Peer(e) # e
  BY TheEnds DEF Ends
<1>2. \/ inbox' = inbox
      \/ inbox' = [inbox EXCEPT ![Peer(e)] = Append(inbox[Peer(e)], pdu)]
  BY DEF IP_send
<1>3. QED
  BY <1>1, <1>2 DEF EndTypeOK

Untouched(e) ==
    /\ state'[e] = state[e] /\ seq'[e] = seq[e] /\ open'[e] = open[e]
    /\ pc'[e] = pc[e] /\ woken'[e] = woken[e] /\ net'[e] = net[e]

QueueKept(e) == inbox'[e] = inbox[e]
QueueRead(e) == inbox[e] # <<>> /\ inbox'[e] = Tail(inbox[e])
QueuePut(e, pdu) == inbox'[e] = inbox[e] \/ inbox'[e] = Append(inbox[e], pdu)

\* mic_tcp_close, on either end.
LEMMA CloseApart ==
    ASSUME EndTypeOK, NEW e \in Ends, Close(e)
    PROVE  /\ Untouched(Peer(e)) /\ QueueKept(e)
           /\ \E pdu \in {Fin, Ack(0)} : QueuePut(Peer(e), pdu)
<1> DEFINE p == Peer(e)
<1>0. p \in Ends /\ p # e
  BY TheEnds DEF Ends
<1> HIDE DEF p
<1>1. ASSUME NEW label, Goto(e, label)
      PROVE  pc'[p] = pc[p]
  BY <1>0, <1>1 DEF Goto, EndTypeOK
<1>2. CASE SendFin(e)
  <2>1. QueueKept(e) /\ QueuePut(p, Fin)
    BY <1>2, SendReaches DEF SendFin, QueueKept, QueuePut, p
  <2>2. Untouched(p)
    BY <1>1, <1>2 DEF SendFin, SpendAttempt, Untouched
  <2>3. QED
    BY <2>1, <2>2 DEF p
<1>3. CASE FinWaitStarts(e) \/ FinWaitFails(e) \/ FinAcknowledged(e) \/ FinTimesOut(e)
  <2>1. Untouched(p)
    BY <1>0, <1>1, <1>3
    DEF FinWaitStarts, FinWaitFails, FinAcknowledged, FinTimesOut, SpendAttempt,
        Wakes, Untouched, EndTypeOK
  <2>2. QED
    BY <1>3, <2>1
    DEF FinWaitStarts, FinWaitFails, FinAcknowledged, FinTimesOut, QueueKept,
        QueuePut, p
<1>4. CASE SendFinalAck(e)
  <2>1. QueueKept(e) /\ QueuePut(p, Ack(0))
    BY <1>4, SendReaches DEF SendFinalAck, QueueKept, QueuePut, p
  <2>2. Untouched(p)
    BY <1>0, <1>1, <1>4 DEF SendFinalAck, socket_set_state, Untouched, EndTypeOK
  <2>3. QED
    BY <2>1, <2>2 DEF p
<1>5. CASE Cleanup(e) \/ ProcessExits(e)
  <2>1. Untouched(p)
    BY <1>0, <1>1, <1>5 DEF Cleanup, ProcessExits, Untouched, EndTypeOK
  <2>2. QED
    BY <1>5, <2>1 DEF Cleanup, ProcessExits, QueueKept, QueuePut, p
<1>6. QED
  BY <1>2, <1>3, <1>4, <1>5 DEF Close, p

\* What both network threads do to take a connection down, and to receive.
LEMMA NetApart ==
    ASSUME EndTypeOK, NEW e \in Ends,
           NetClosing(e) \/ NetBlocks(e) \/ NetExits(e)
    PROVE  /\ Untouched(Peer(e)) /\ QueueKept(e)
           /\ QueuePut(Peer(e), FinAck)
<1> DEFINE p == Peer(e)
<1>0. p \in Ends /\ p # e
  BY TheEnds DEF Ends
<1> HIDE DEF p
<1>1. CASE NetFin(e) \/ NetFinAgain(e)
  <2>1. QueueKept(e) /\ QueuePut(p, FinAck)
    BY <1>1, SendReaches DEF NetFin, NetFinAgain, QueueKept, QueuePut, p
  <2>2. Untouched(p)
    BY <1>0, <1>1
    DEF NetFin, NetFinAgain, NetDone, socket_set_state, Untouched, EndTypeOK
  <2>3. QED
    BY <2>1, <2>2 DEF p
<1>2. CASE NetCleanup(e) \/ NetSignal(e) \/ NetBlocks(e) \/ NetExits(e)
  <2>1. Untouched(p)
    BY <1>0, <1>2
    DEF NetCleanup, NetFinalAck, NetShut, NetDestroy, NetSignal, NetBlocks,
        NetExits, NetDone, Signalled, socket_set_state, Untouched, EndTypeOK
  <2>2. QED
    BY <1>2, <2>1
    DEF NetCleanup, NetFinalAck, NetShut, NetDestroy, NetSignal, NetBlocks,
        NetExits, QueueKept, QueuePut, p
<1>3. QED
  BY <1>1, <1>2 DEF NetClosing

\* A control PDU, a probe or a message.
ServerMayGet ==
    \E pdu \in Pdus :
      /\ QueuePut("server", pdu)
      /\ \/ pdu \in {Syn, Ack(0), Fin, FinAck}
         \/ SendProbe /\ pdu = create_pdu({}, 0, 0, MESURING_PAYLOAD)
         \/ SendPacket /\ pdu = create_pdu({}, packet.seq_num, 0, message)

\* Whatever the client does, the server only sees its queue grow.
LEMMA ClientApart ==
    ASSUME EndTypeOK, ClientTypeOK, ClientStep \/ Call
    PROVE  /\ Untouched(self) /\ UNCHANGED serverVars
           /\ \/ QueueKept(me)
              \/ QueueRead(me) /\ (RecvWhileConnecting \/ ClientReceive)
           /\ ServerMayGet
<1> USE TheEnds, ControlPdus
<1>0. UNCHANGED serverVars
  BY DEF ClientStep, Call
<1>a. ASSUME NEW label, Goto(me, label)
      PROVE  pc'[self] = pc[self]
  BY <1>a DEF Goto, EndTypeOK
<1>b. ASSUME NEW pdu, NEW outcome, IP_send(me, pdu, outcome)
      PROVE  QueueKept(me) /\ QueuePut(self, pdu)
  BY <1>b, SendReaches DEF QueueKept, QueuePut
<1>d. ASSUME NEW pdu \in {Syn, Ack(0), Fin, FinAck}, QueuePut(self, pdu)
      PROVE  ServerMayGet
  BY <1>d DEF ServerMayGet
<1>e. QueueKept(self) => ServerMayGet
  BY <1>d DEF QueueKept, QueuePut
<1>1. CASE Connect
  <2>1. ASSUME NEW outcome, SendSyn(outcome)
        PROVE  Untouched(self) /\ QueueKept(me) /\ QueuePut(self, Syn)
    BY <1>a, <1>b, <2>1 DEF SendSyn, socket_set_state, Untouched, EndTypeOK
  <2>2. CASE RecvWhileConnecting
    <3>1. Untouched(self)
      BY <1>a, <2>2 DEF RecvWhileConnecting, Untouched
    <3>2. QueueRead(me) /\ QueueKept(self)
      BY <2>2 DEF RecvWhileConnecting, QueueRead, QueueKept, EndTypeOK
    <3>3. QED
      BY <1>0, <1>e, <2>2, <3>1, <3>2
  <2>3. CASE Acknowledge
    <3>1. PICK outcome \in Outcomes : send_connection_acknowledgement(outcome)
      BY <2>3 DEF Acknowledge
    <3>2. QueueKept(me) /\ QueuePut(self, Ack(0))
      BY <1>b, <3>1 DEF send_connection_acknowledgement
    <3>3. Untouched(self)
      BY <1>a, <2>3, <3>1
      DEF Acknowledge, send_connection_acknowledgement, socket_set_state,
          Untouched, EndTypeOK
    <3>4. QED
      BY <1>0, <1>d, <3>2, <3>3
  <2>4. CASE SynTimesOut \/ Spawn \/ SpawnFails \/ StartMeasuring
             \/ AcceptChannel \/ RefuseChannel
    <3>1. Untouched(self)
      BY <1>a, <2>4
      DEF SynTimesOut, Spawn, SpawnFails, StartMeasuring, AcceptChannel,
          RefuseChannel, mic_tcp_close, socket_set_state, Untouched, EndTypeOK
    <3>2. QueueKept(me) /\ QueueKept(self)
      BY <2>4
      DEF SynTimesOut, Spawn, SpawnFails, StartMeasuring, AcceptChannel,
          RefuseChannel, QueueKept
    <3>3. QED
      BY <1>0, <1>e, <3>1, <3>2
  <2>5. CASE SendProbe
    <3> DEFINE probe == create_pdu({}, 0, 0, MESURING_PAYLOAD)
    <3>1. probe \in Pdus
      BY DEF create_pdu, Pdus, mic_tcp_pdu, Flags, Payloads
    <3>2. QueueKept(me) /\ QueuePut(self, probe) /\ Untouched(self)
      BY <1>b, <2>5 DEF SendProbe, Untouched
    <3>3. ServerMayGet
      BY <2>5, <3>1, <3>2 DEF ServerMayGet
    <3>4. QED
      BY <1>0, <3>2, <3>3
  <2>6. QED
    BY <1>0, <1>d, <1>1, <2>1, <2>2, <2>3, <2>4, <2>5 DEF Connect
<1>2. CASE Send
  <2>1. Untouched(self)
    BY <1>a, <1>2
    DEF Send, BuildPacket, SendPacket, SendWaitStarts, SendWaitFails, SendWakes,
        SendTimesOut, Windowed, Retry, Return, Wakes, Untouched, EndTypeOK
  <2>2. CASE SendPacket
    <3> DEFINE data == create_pdu({}, packet.seq_num, 0, message)
    <3>1. data \in Pdus
      <4>1. packet.seq_num \in Nat /\ message \in Nat
        BY LenProperties DEF ClientTypeOK, message
      <4>2. QED
        BY <4>1 DEF create_pdu, Pdus, mic_tcp_pdu, Flags, Payloads
    <3>2. QueueKept(me) /\ QueuePut(self, data)
      BY <1>b, <2>2 DEF SendPacket
    <3>3. ServerMayGet
      BY <2>2, <3>1, <3>2 DEF ServerMayGet
    <3>4. QED
      BY <1>0, <2>1, <3>2, <3>3
  <2>3. CASE ~ SendPacket
    <3>1. QueueKept(me) /\ QueueKept(self)
      BY <1>2, <2>3
      DEF Send, BuildPacket, SendWaitStarts, SendWaitFails, SendWakes,
          SendTimesOut, QueueKept
    <3>2. QED
      BY <1>0, <1>e, <2>1, <3>1
  <2>4. QED
    BY <2>2, <2>3
<1>3. CASE Close(me)
  BY <1>0, <1>d, <1>3, CloseApart
<1>4. CASE ClientNet
  <2>1. CASE ProbeAcknowledged \/ DataAcknowledged
    BY <1>0, <1>e, <2>1
    DEF ProbeAcknowledged, DataAcknowledged, NetDone, Signalled, Untouched,
        QueueKept, EndTypeOK
  <2>2. CASE ClientReceive
    BY <1>0, <1>e, <2>2
    DEF ClientReceive, NetReceive, Untouched, QueueKept, QueueRead, EndTypeOK
  <2>3. CASE NetClosing(me) \/ ListenerExits \/ ListenerBlocks
    BY <1>0, <1>d, <2>3, NetApart DEF ListenerExits, ListenerBlocks
  <2>4. ASSUME NEW outcome, Reacknowledge(outcome)
        PROVE  Untouched(self) /\ QueueKept(me) /\ QueuePut(self, Ack(0))
    <3>1. QueueKept(me) /\ QueuePut(self, Ack(0))
      BY <1>b, <2>4 DEF Reacknowledge, send_connection_acknowledgement
    <3>2. Untouched(self)
      BY <2>4
      DEF Reacknowledge, send_connection_acknowledgement, socket_set_state,
          NetDone, Untouched, EndTypeOK
    <3>3. QED
      BY <3>1, <3>2
  <2>5. QED
    BY <1>0, <1>d, <1>4, <2>1, <2>2, <2>3, <2>4 DEF ClientNet
<1>5. CASE ClientApplication
  <2>1. Untouched(self)
    BY <1>a, <1>5
    DEF ClientApplication, CallSend, CallClose, Return, mic_tcp_close,
        socket_set_state, Untouched, EndTypeOK
  <2>2. QueueKept(me) /\ QueueKept(self)
    BY <1>5 DEF ClientApplication, CallSend, CallClose, QueueKept
  <2>3. QED
    BY <1>0, <1>e, <2>1, <2>2
<1>6. QED
  BY <1>1, <1>2, <1>3, <1>4, <1>5 DEF ClientStep, Call, ClientMain

\* The steps in which the server sends a pure acknowledgement.
Acknowledges == AnswerProbe \/ TakeData \/ SendFinalAck(self)

ClientMayGet ==
    \E pdu \in Pdus : /\ QueuePut("client", pdu)
                      /\ Carries(pdu, {"ACK"}) => Acknowledges

\* Whatever the server does, the client only sees its queue grow.
LEMMA ServerApart ==
    ASSUME EndTypeOK, ServerStep
    PROVE  /\ Untouched(me) /\ UNCHANGED clientVars
           /\ QueueKept(self) \/ (QueueRead(self) /\ ServerReceive)
           /\ ClientMayGet
<1> USE TheEnds, ControlPdus DEF ClientMayGet
<1>0. UNCHANGED clientVars
  BY DEF ServerStep
<1>a. ASSUME NEW label, Goto(self, label)
      PROVE  pc'[me] = pc[me]
  BY <1>a DEF Goto, EndTypeOK
<1>b. ASSUME NEW pdu, NEW outcome, IP_send(self, pdu, outcome)
      PROVE  QueueKept(self) /\ QueuePut(me, pdu)
  BY <1>b, SendReaches DEF QueueKept, QueuePut
<1>c. ASSUME QueueKept(me)
      PROVE  \E pdu \in Pdus :
               QueuePut(me, pdu) /\ (Carries(pdu, {"ACK"}) => Acknowledges)
  <2>1. QueuePut(me, Syn)
    BY <1>c DEF QueueKept, QueuePut
  <2>2. ~ Carries(Syn, {"ACK"})
    BY DEF Carries, verify_pdu, Syn, create_nopayload_pdu, create_pdu
  <2>3. QED
    BY <2>1, <2>2
<1>d. /\ ~ Carries(SynAck, {"ACK"}) /\ ~ Carries(Fin, {"ACK"})
      /\ ~ Carries(FinAck, {"ACK"})
  BY DEF Carries, verify_pdu, SynAck, Fin, FinAck, create_nopayload_pdu,
      create_pdu
<1>1. CASE Accept
  <2>1. ASSUME NEW outcome, SendSynAck(outcome)
        PROVE  Untouched(me) /\ QueueKept(self) /\ QueuePut(me, SynAck)
    BY <1>a, <1>b, <2>1 DEF SendSynAck, AcceptLoop, Untouched
  <2>2. CASE \A outcome : ~ SendSynAck(outcome)
    <3>1. Untouched(me)
      BY <1>a, <1>1, <2>2
      DEF Accept, mic_tcp_bind, mic_tcp_accept, AcceptWaitStarts, AcceptWakes,
          AcceptCrashes, SynAckWaitStarts, SynAckWaitFails, SynAckWakes,
          SynAckTimesOut, AcceptLoop, Wakes, socket_set_state, Untouched,
          EndTypeOK
    <3>2. QueueKept(self) /\ QueueKept(me)
      BY <1>1, <2>2
      DEF Accept, mic_tcp_bind, mic_tcp_accept, AcceptWaitStarts, AcceptWakes,
          AcceptCrashes, SynAckWaitStarts, SynAckWaitFails, SynAckWakes,
          SynAckTimesOut, QueueKept
    <3>3. QED
      BY <1>0, <1>c, <3>1, <3>2
  <2>3. QED
    BY <1>0, <1>d, <2>1, <2>2
<1>2. CASE mic_tcp_recv \/ ServerCloses
  <2>1. Untouched(me)
    BY <1>a, <1>2
    DEF mic_tcp_recv, ServerCloses, mic_tcp_close, socket_set_state, Untouched,
        EndTypeOK
  <2>2. QueueKept(self) /\ QueueKept(me)
    BY <1>2 DEF mic_tcp_recv, ServerCloses, QueueKept
  <2>3. QED
    BY <1>0, <1>c, <2>1, <2>2
<1>3. CASE Close(self)
  <2>1. CASE SendFinalAck(self)
    <3>1. Acknowledges
      BY <2>1 DEF Acknowledges
    <3>2. QED
      BY <1>0, <1>3, <3>1, CloseApart
  <2>2. CASE ~ SendFinalAck(self)
    <3>1. CASE SendFin(self)
      BY <1>0, <1>3, <1>b, <1>d, <3>1, CloseApart DEF SendFin
    <3>2. CASE ~ SendFin(self)
      <4>1. QueueKept(me)
        BY <1>3, <2>2, <3>2
        DEF Close, FinWaitStarts, FinWaitFails, FinAcknowledged, FinTimesOut,
            Cleanup, ProcessExits, QueueKept
      <4>2. QED
        BY <1>0, <1>3, <1>c, <4>1, CloseApart
    <3>3. QED
      BY <3>1, <3>2
  <2>3. QED
    BY <2>1, <2>2
<1>4. CASE ServerNet
  <2>1. CASE ServerReceive \/ SynReceived \/ AddressKnown \/ ConnectionAcknowledged
    <3>1. Untouched(me)
      BY <2>1
      DEF ServerReceive, NetReceive, SynReceived, AddressKnown,
          ConnectionAcknowledged, NetDone, Signalled, socket_set_state,
          Untouched, EndTypeOK
    <3>2. /\ QueueKept(me)
          /\ QueueKept(self) \/ (QueueRead(self) /\ ServerReceive)
      BY <2>1
      DEF ServerReceive, NetReceive, SynReceived, AddressKnown,
          ConnectionAcknowledged, QueueKept, QueueRead, EndTypeOK
    <3>3. QED
      BY <1>0, <1>c, <3>1, <3>2
  <2>2. CASE TakeData \/ AnswerProbe
    <3>1. Untouched(me)
      BY <2>2 DEF TakeData, AnswerProbe, NetDone, Untouched, EndTypeOK
    <3>2. Acknowledges
      BY <2>2 DEF Acknowledges
    <3>3. \E n \in Nat : QueuePut(me, Ack(n)) /\ QueueKept(self)
      <4>1. seq[self] \in Nat /\ seq[self] + 1 \in Nat
        BY DEF EndTypeOK
      <4>2. QED
        BY <1>b, <2>2, <4>1 DEF TakeData, AnswerProbe
    <3>4. QED
      BY <1>0, <3>1, <3>2, <3>3
  <2>3. CASE NetClosing(self) \/ NetBlocks(self) \/ ListeningReturns
    BY <1>0, <1>d, <2>3, NetApart DEF ListeningReturns
  <2>4. QED
    BY <1>4, <2>1, <2>2, <2>3 DEF ServerNet
<1>5. QED
  BY <1>1, <1>2, <1>3, <1>4 DEF ServerStep, ServerMain

(***************************************************************************)
(* The handshake is over once.                                             *)
(***************************************************************************)
\* The state in which each effect of process_server_PDU is chosen.
LEMMA EffectsByState ==
    ASSUME NEW pdu
    PROVE  /\ ServerEffect(pdu) # "synaddr"
           /\ ServerEffect(pdu) = "syn" => state[self] = "ACCEPTING"
           /\ ServerEffect(pdu) = "connack" => state[self] = "SYN_RECEIVED"
           /\ ServerEffect(pdu) \in {"probe", "data"} => state[self] = "ESTABLISHED"
BY DEF ServerEffect, AwaitingClosingEffect, ClosingEffect

\* A server takes, answers or closes nothing before the ACK of the handshake.
LEMMA ServerKeepsEstablishedFirst ==
    ASSUME TypeInv, EstablishedFirst, ServerStep
    PROVE  EstablishedFirst' /\ (ServerEstablished => ServerEstablished')
<1> USE TheEnds DEF TypeInv, EstablishedFirst, ServerEstablished
<1>1. ASSUME NEW label, Goto(self, label)
      PROVE  pc'[self] = label
  BY <1>1 DEF Goto, EndTypeOK
<1>2. ASSUME NEW new, socket_set_state(self, new)
      PROVE  state'[self] = new
  BY <1>2 DEF socket_set_state, EndTypeOK
<1>3. seq[self] \in Nat
  BY DEF EndTypeOK
<1>4. CASE Accept
  <2>1. UNCHANGED <<seq, serverVars>>
    BY <1>4
    DEF Accept, mic_tcp_bind, mic_tcp_accept, AcceptWaitStarts, AcceptWakes,
        SendSynAck, AcceptCrashes, SynAckWaitStarts, SynAckWaitFails,
        SynAckWakes, SynAckTimesOut
  <2>2. pc'[self] \in {"accept", "acceptlock", "acceptwait", "synack", "recv",
                       "synacklock", "synackwait", "failed", "exited"}
    BY <1>1, <1>4
    DEF Accept, mic_tcp_bind, mic_tcp_accept, AcceptWaitStarts, AcceptWakes,
        SendSynAck, AcceptCrashes, SynAckWaitStarts, SynAckWaitFails,
        SynAckWakes, SynAckTimesOut, AcceptLoop
  <2>3. /\ state'[self] \in {state[self], "IDLE", "ACCEPTING"}
        /\ net'[self].at \in {net[self].at, "exited"}
    BY <1>2, <1>4
    DEF Accept, mic_tcp_bind, mic_tcp_accept, AcceptWaitStarts, AcceptWakes,
        SendSynAck, AcceptCrashes, SynAckWaitStarts, SynAckWaitFails,
        SynAckWakes, SynAckTimesOut, NetAt, EndTypeOK
  <2>4. QED
    BY <2>1, <2>2, <2>3 DEF serverVars
<1>5. CASE mic_tcp_recv
  <2>1. delivered # <<>> /\ UNCHANGED <<seq, delivered>>
    BY <1>5 DEF mic_tcp_recv, ServerTypeOK
  <2>2. QED
    BY <2>1
<1>6. CASE ServerCloses
  <2>1. pc[self] = "close" /\ UNCHANGED seq
    BY <1>6 DEF ServerCloses
  <2>2. QED
    BY <2>1
<1>7. CASE Close(self) /\ UNCHANGED serverVars
  <2>1. \/ pc[self] \in {"fin", "finlock", "finwait", "finalack"}
        \/ pc'[self] \in {"closed", "exited"}
    BY <1>1, <1>7
    DEF Close, SendFin, FinWaitStarts, FinWaitFails, FinAcknowledged,
        FinTimesOut, SendFinalAck, Cleanup, ProcessExits
  <2>2. /\ UNCHANGED seq
        /\ state'[self] \in {state[self], "CLOSED"}
        /\ net'[self].at \in {net[self].at, "exited"}
    BY <1>2, <1>7
    DEF Close, SendFin, FinWaitStarts, FinWaitFails, FinAcknowledged,
        FinTimesOut, SendFinalAck, Cleanup, ProcessExits, NetAt, EndTypeOK
  <2>3. QED
    BY <1>7, <2>1, <2>2 DEF serverVars
<1>8. CASE ServerNet
  <2>1. pc' = pc
    BY <1>8
    DEF ServerNet, ServerReceive, NetReceive, TakeData, SynReceived,
        AddressKnown, ConnectionAcknowledged, AnswerProbe, NetClosing, NetFin,
        NetFinAgain, NetCleanup, NetFinalAck, NetShut, NetDestroy, NetSignal,
        NetBlocks, ListeningReturns, NetExits
  <2>2. CASE ServerReceive
    <3>1. /\ UNCHANGED <<state, seq, delivered>>
          /\ net'[self].at = ServerEffect(Head(inbox[self]))
      BY <2>2 DEF ServerReceive, NetReceive, NetAt, EndTypeOK
    <3>2. QED
      BY <2>1, <3>1, EffectsByState
  <2>3. CASE TakeData \/ ConnectionAcknowledged
    <3>1. seq'[self] > 0
      <4>1. CASE TakeData
        <5>1. seq[self] > 0
          BY <4>1 DEF TakeData
        <5>2. seq'[self] \in {seq[self], seq[self] + 1}
          BY <4>1 DEF TakeData, EndTypeOK
        <5>3. QED
          BY <1>3, <5>1, <5>2
      <4>2. CASE ConnectionAcknowledged
        BY <4>2 DEF ConnectionAcknowledged, EndTypeOK
      <4>3. QED
        BY <2>3, <4>1, <4>2
    <3>2. QED
      BY <3>1
  <2>4. CASE /\ ~ ServerReceive /\ ~ TakeData /\ ~ ConnectionAcknowledged
    <3>1. UNCHANGED <<seq, delivered>>
      BY <1>8, <2>4
      DEF ServerNet, SynReceived, AddressKnown, AnswerProbe, NetClosing,
          NetFin, NetFinAgain, NetCleanup, NetFinalAck, NetShut, NetDestroy,
          NetSignal, NetBlocks, ListeningReturns, NetExits, serverVars
    <3>2. net'[self].at \in {"synaddr", "top", "blocked", "exited", "shut",
                         "destroy"}
      BY <1>8, <2>4
      DEF ServerNet, SynReceived, AddressKnown, AnswerProbe, NetClosing,
          NetFin, NetFinAgain, NetCleanup, NetFinalAck, NetShut, NetDestroy,
          NetSignal, NetBlocks, ListeningReturns, NetExits, NetDone, NetAt,
          EndTypeOK
    <3>3. state'[self] \in {state[self], "SYN_RECEIVED", "AWAITING_CLOSING", "CLOSED"}
      BY <1>2, <1>8, <2>4
      DEF ServerNet, SynReceived, AddressKnown, AnswerProbe, NetClosing,
          NetFin, NetFinAgain, NetCleanup, NetFinalAck, NetShut, NetDestroy,
          NetSignal, NetBlocks, ListeningReturns, NetExits
    <3>4. QED
      BY <2>1, <3>1, <3>2, <3>3
  <2>5. QED
    BY <2>2, <2>3, <2>4
<1>9. QED
  BY <1>4, <1>5, <1>6, <1>7, <1>8 DEF ServerStep, ServerMain

\* What a step of the server makes of its place, its state and its number,
\* action by action.
LEMMA ServerKeepsOnce ==
    ASSUME TypeInv, EstablishedFirst, OnceInv, ServerStep
    PROVE  /\ OnceInv'
           /\ state[self] \in Down /\ ServerEstablished => state'[self] \in Down
<1> USE TheEnds DEF TypeInv, OnceInv, NotYetAccepting, HandshakeIsOver, Down,
                    ServerEstablished
<1>1. ASSUME NEW label, Goto(self, label)
      PROVE  pc'[self] = label
  BY <1>1 DEF Goto, EndTypeOK
<1>2. ASSUME NEW new, socket_set_state(self, new)
      PROVE  state'[self] = new
  BY <1>2 DEF socket_set_state, EndTypeOK
<1>3. seq[self] \in Nat
  BY DEF EndTypeOK
<1>4. CASE Accept
  <2>1. CASE mic_tcp_bind \/ mic_tcp_accept
    BY <1>1, <1>2, <2>1 DEF mic_tcp_bind, mic_tcp_accept
  <2>2. CASE AcceptCrashes
    <3>1. net'[self].at = "exited"
      BY <2>2 DEF AcceptCrashes, NetAt, EndTypeOK
    <3>2. QED
      BY <1>1, <2>2, <3>1 DEF AcceptCrashes
  <2>3. CASE ~ mic_tcp_bind /\ ~ mic_tcp_accept /\ ~ AcceptCrashes
    <3>1. UNCHANGED <<state, seq, net>> /\ pc'[self] \notin {"bind", "accept"}
      BY <1>1, <1>4, <2>3
      DEF Accept, AcceptWaitStarts, AcceptWakes, SendSynAck, SynAckWaitStarts,
          SynAckWaitFails, SynAckWakes, SynAckTimesOut, AcceptLoop
    <3>2. QED
      BY <3>1
  <2>4. QED
    BY <2>1, <2>2, <2>3
<1>5. CASE mic_tcp_recv \/ ServerCloses
  <2>1. /\ UNCHANGED <<seq, net>> /\ pc'[self] \notin {"bind", "accept"}
        /\ state'[self] \in {state[self], "CLOSING"}
    BY <1>1, <1>2, <1>5 DEF mic_tcp_recv, ServerCloses, mic_tcp_close
  <2>2. QED
    BY <2>1
<1>6. CASE Close(self)
  <2>1. /\ UNCHANGED seq /\ pc'[self] \notin {"bind", "accept"}
        /\ state'[self] \in {state[self], "CLOSED"}
        /\ net'[self].at \in {net[self].at, "exited"}
    BY <1>1, <1>2, <1>6
    DEF Close, SendFin, FinWaitStarts, FinWaitFails, FinAcknowledged,
        FinTimesOut, SendFinalAck, Cleanup, ProcessExits, SpendAttempt, NetAt,
        EndTypeOK
  <2>2. QED
    BY <2>1
<1>7. CASE ServerNet
  <2>1. pc' = pc
    BY <1>7
    DEF ServerNet, ServerReceive, NetReceive, TakeData, SynReceived,
        AddressKnown, ConnectionAcknowledged, AnswerProbe, NetClosing, NetFin,
        NetFinAgain, NetCleanup, NetFinalAck, NetShut, NetDestroy, NetSignal,
        NetBlocks, ListeningReturns, NetExits
  <2>2. CASE ServerReceive
    <3>1. /\ UNCHANGED <<state, seq>>
          /\ net'[self].at = ServerEffect(Head(inbox[self]))
      BY <2>2 DEF ServerReceive, NetReceive, NetAt, EndTypeOK
    <3>2. QED
      BY <2>1, <3>1, EffectsByState
  <2>3. CASE SynReceived
    <3>1. net'[self].at = "synaddr" /\ UNCHANGED seq
      BY <2>3 DEF SynReceived, EndTypeOK
    <3>2. QED
      BY <1>2, <2>1, <2>3, <3>1 DEF SynReceived
  <2>4. CASE ConnectionAcknowledged
    <3>1. net'[self].at = "top" /\ seq'[self] = 1
      BY <2>4 DEF ConnectionAcknowledged, NetDone, NetAt, EndTypeOK
    <3>2. QED
      BY <1>2, <2>1, <2>4, <3>1 DEF ConnectionAcknowledged
  <2>5. CASE TakeData
    <3>1. net'[self].at = "top" /\ UNCHANGED state /\ seq'[self] >= seq[self]
      BY <1>3, <2>5 DEF TakeData, NetDone, NetAt, EndTypeOK
    <3>2. seq[self] > 0
      BY <2>5 DEF TakeData, EstablishedFirst
    <3>3. QED
      BY <1>3, <2>1, <3>1, <3>2
  <2>6. CASE \/ AddressKnown \/ AnswerProbe \/ NetClosing(self)
             \/ NetBlocks(self) \/ ListeningReturns
    <3>1. /\ net'[self].at \in {"top", "blocked", "exited", "shut", "destroy"}
          /\ UNCHANGED seq
      BY <2>6
      DEF AddressKnown, AnswerProbe, NetClosing, NetFin, NetFinAgain,
          NetCleanup, NetFinalAck, NetShut, NetDestroy, NetSignal, NetBlocks,
          ListeningReturns, NetExits, NetDone, NetAt, EndTypeOK
    <3>2. state'[self] \in {state[self], "AWAITING_CLOSING", "CLOSED"}
      BY <1>2, <2>6
      DEF AddressKnown, AnswerProbe, NetClosing, NetFin, NetFinAgain,
          NetCleanup, NetFinalAck, NetShut, NetDestroy, NetSignal, NetBlocks,
          ListeningReturns, NetExits
    <3>3. QED
      BY <2>1, <3>1, <3>2
  <2>7. QED
    BY <1>7, <2>2, <2>3, <2>4, <2>5, <2>6 DEF ServerNet
<1>8. QED
  BY <1>4, <1>5, <1>6, <1>7 DEF ServerStep, ServerMain

HandshakeInv == TypeInv /\ OnceInv /\ MeasureInv

LEMMA HandshakeStarts == Init \/ InitConnected => HandshakeInv
<1> SUFFICES ASSUME Init \/ InitConnected
             PROVE  OnceInv /\ MeasureInv
  BY InitialTypes DEF HandshakeInv
<1> USE DEF OnceInv, NotYetAccepting, HandshakeIsOver, MeasureInv,
            EstablishedFirst, AcksComeFromEstablished, MeasuredSomething,
            ServerEstablished, Connected, InitShared, Both, NetAt, Ends
<1>1. CASE Init
  BY <1>1 DEF Init
<1>2. CASE InitConnected
  <2>1. received_packets > 0
    BY <1>2, ClientAssumption, MeasuresAssumption DEF InitConnected,
        TooUnreliable
  <2>2. QED
    BY <1>2, <2>1 DEF InitConnected
<1>3. QED
  BY <1>1, <1>2

\* What a queue may grow by is all that is new in it.
LEMMA NewInQueue ==
    ASSUME NEW q \in Seq(Pdus), NEW pdu \in Pdus,
           NEW r, r \in {q, Append(q, pdu)} \/ (q # <<>> /\ r = Tail(q)),
           NEW i \in DOMAIN r
    PROVE  r[i] = pdu \/ \E j \in DOMAIN q : r[i] = q[j]
<1>1. CASE r = q
  BY <1>1
<1>2. CASE r = Append(q, pdu)
  BY <1>2, AppendProperties, LenProperties
<1>3. CASE q # <<>> /\ r = Tail(q)
  BY <1>3, HeadTailProperties, LenProperties
<1>4. QED
  BY <1>1, <1>2, <1>3

\* The listener counts an answer only when it has taken an ACK from its queue.
LEMMA ClientCounts ==
    ASSUME TypeInv, ClientStep \/ Call
    PROVE  /\ net'[me].at = "probeack" =>
                \/ net[me].at = "probeack"
                \/ inbox[me] # <<>> /\ Carries(Head(inbox[me]), {"ACK"})
           /\ \/ received_packets' = received_packets
              \/ /\ net[me].at = "probeack"
                 /\ received_packets' = received_packets + 1
           /\ Connected' => \/ Connected
                            \/ ~ TooUnreliable(received_packets,
                                   MESURING_RELIABILITY_PACKET_NUMBER)
<1> USE TheEnds DEF TypeInv, Connected
<1>1. ASSUME NEW label, Goto(me, label)
      PROVE  pc'[me] = label
  BY <1>1 DEF Goto, EndTypeOK
<1>2. CASE Connect
  <2>1. CASE AcceptChannel
    BY <2>1 DEF AcceptChannel
  <2>2. CASE ~ AcceptChannel
    <3>1. pc'[me] \in {"syn", "synwait", "connack", "spawn", "measuring", "probe",
                       "failed", "fin"}
      BY <1>1, <1>2, <2>2
      DEF Connect, SendSyn, RecvWhileConnecting, SynTimesOut, Acknowledge,
          Spawn, SpawnFails, StartMeasuring, SendProbe, RefuseChannel,
          mic_tcp_close
    <3>2. /\ received_packets' = received_packets
          /\ net'[me].at \in {net[me].at, "top"}
      BY <1>2, <2>2
      DEF Connect, SendSyn, RecvWhileConnecting, SynTimesOut, Acknowledge,
          Spawn, SpawnFails, StartMeasuring, SendProbe, RefuseChannel,
          clientVars, NetAt, EndTypeOK
    <3>3. QED
      BY <3>1, <3>2
  <2>3. QED
    BY <2>1, <2>2
<1>3. CASE Send \/ ClientApplication
  <2>1. Connected
    BY <1>3
    DEF Send, BuildPacket, SendPacket, SendWaitStarts, SendWaitFails, SendWakes,
        SendTimesOut, ClientApplication, CallSend, CallClose
  <2>2. received_packets' = received_packets /\ net' = net
    BY <1>3
    DEF Send, BuildPacket, SendPacket, SendWaitStarts, SendWaitFails, SendWakes,
        SendTimesOut, ClientApplication, CallSend, CallClose, clientVars
  <2>3. QED
    BY <2>1, <2>2
<1>4. CASE Close(me) /\ UNCHANGED clientVars
  <2>1. pc'[me] \in ClosingLabels
    BY <1>1, <1>4, CloseKeepsWatch
    DEF Close, SendFin, FinWaitStarts, FinWaitFails, FinAcknowledged,
        FinTimesOut, SendFinalAck, Cleanup, ProcessExits, SpendAttempt,
        ClosingLabels
  <2>2. net'[me].at \in {net[me].at, "exited"}
    BY <1>4
    DEF Close, SendFin, FinWaitStarts, FinWaitFails, FinAcknowledged,
        FinTimesOut, SendFinalAck, Cleanup, ProcessExits, NetAt, EndTypeOK
  <2>3. QED
    BY <1>4, <2>1, <2>2 DEF ClosingLabels, clientVars
<1>5. CASE ClientNet
  <2>1. pc' = pc
    BY <1>5
    DEF ClientNet, ProbeAcknowledged, ClientReceive, NetReceive,
        DataAcknowledged, NetClosing, NetFin, NetFinAgain, NetCleanup,
        NetFinalAck, NetShut, NetDestroy, NetSignal, Reacknowledge,
        ListenerExits, NetExits, ListenerBlocks, NetBlocks
  <2>2. CASE ClientReceive /\ UNCHANGED clientVars
    <3>1. net'[me].at = ClientEffect(Head(inbox[me])) /\ inbox[me] # <<>>
      BY <2>2 DEF ClientReceive, NetReceive, NetAt, EndTypeOK
    <3>2. ClientEffect(Head(inbox[me])) = "probeack"
            => Carries(Head(inbox[me]), {"ACK"})
      BY DEF ClientEffect, AwaitingClosingEffect, ClosingEffect
    <3>3. QED
      BY <2>1, <2>2, <3>1, <3>2 DEF clientVars
  <2>3. CASE ~ ClientReceive
    <3>1. net'[me].at \in {"top", "blocked", "exited", "shut", "destroy"}
      BY <1>5, <2>3
      DEF ClientNet, ProbeAcknowledged, DataAcknowledged, NetClosing, NetFin,
          NetFinAgain, NetCleanup, NetFinalAck, NetShut, NetDestroy, NetSignal,
          Reacknowledge, ListenerExits, NetExits, ListenerBlocks, NetBlocks,
          NetDone, NetAt, EndTypeOK
    <3>2. \/ received_packets' = received_packets
          \/ /\ net[me].at = "probeack"
             /\ received_packets' = received_packets + 1
      BY <1>5 DEF ClientNet, ProbeAcknowledged, clientVars
    <3>3. QED
      BY <2>1, <3>1, <3>2
  <2>4. QED
    BY <1>5, <2>2, <2>3 DEF ClientNet, ProbeAcknowledged, ClientReceive,
        NetReceive
<1>6. QED
  BY <1>2, <1>3, <1>4, <1>5 DEF ClientStep, Call, ClientMain

LEMMA HandshakeInvIsKept ==
    ASSUME HandshakeInv, [Next]_vars
    PROVE  HandshakeInv'
<1> USE TheEnds DEF HandshakeInv, OnceInv, MeasureInv
<1>1. TypeInv'
  BY StepsKeepTypes
<1>2. inbox[me] \in Seq(Pdus) /\ inbox'[me] \in Seq(Pdus)
  BY <1>1 DEF TypeInv, EndTypeOK
<1>3. received_packets \in Nat
  BY DEF TypeInv, ClientTypeOK
<1>4. CASE ClientStep \/ Call
  <2>1. /\ Untouched(self) /\ UNCHANGED serverVars
        /\ QueueKept(me) \/ QueueRead(me)
    BY <1>4, ClientApart DEF TypeInv
  <2>2. NotYetAccepting' /\ HandshakeIsOver' /\ EstablishedFirst'
    BY <2>1
    DEF Untouched, serverVars, NotYetAccepting, HandshakeIsOver,
        EstablishedFirst, ServerEstablished
  <2>3. ASSUME NEW i \in DOMAIN inbox'[me]
        PROVE  \E j \in DOMAIN inbox[me] : inbox'[me][i] = inbox[me][j]
    <3>1. CASE QueueKept(me)
      BY <2>3, <3>1 DEF QueueKept
    <3>2. CASE QueueRead(me)
      BY <1>2, <2>3, <3>2, HeadTailProperties, LenProperties DEF QueueRead
    <3>3. QED
      BY <2>1, <3>1, <3>2
  <2>4. inbox[me] # <<>> => Head(inbox[me]) = inbox[me][1] /\ 1 \in DOMAIN inbox[me]
    BY <1>2, HeadTailProperties, LenProperties
  <2>5. AcksComeFromEstablished'
    BY <1>3, <1>4, <2>1, <2>3, <2>4, ClientCounts
    DEF AcksComeFromEstablished, Untouched, ServerEstablished
  <2>6. MeasuredSomething'
    BY <1>3, <1>4, ClientCounts, ClientAssumption
    DEF MeasuredSomething, TooUnreliable
  <2>7. QED
    BY <1>1, <2>2, <2>5, <2>6
<1>5. CASE ServerStep
  <2>1. EstablishedFirst' /\ (ServerEstablished => ServerEstablished')
    BY <1>5, ServerKeepsEstablishedFirst
  <2>2. NotYetAccepting' /\ HandshakeIsOver'
    BY <1>5, ServerKeepsOnce
  <2>3. Untouched(me) /\ UNCHANGED clientVars /\ ClientMayGet
    BY <1>5, ServerApart DEF TypeInv
  <2>4. Acknowledges => ServerEstablished
    BY DEF Acknowledges, AnswerProbe, TakeData, SendFinalAck, EstablishedFirst
  <2>5. PICK pdu \in Pdus : /\ QueuePut(me, pdu)
                            /\ Carries(pdu, {"ACK"}) => ServerEstablished
    BY <2>3, <2>4 DEF ClientMayGet
  <2>6. \A i \in DOMAIN inbox'[me] :
          inbox'[me][i] = pdu \/ \E j \in DOMAIN inbox[me] : inbox'[me][i] = inbox[me][j]
    <3> DEFINE q == inbox[me]
               r == inbox'[me]
    <3>1. q \in Seq(Pdus) /\ r \in {q, Append(q, pdu)}
      BY <1>2, <2>5 DEF QueuePut
    <3> HIDE DEF q, r
    <3>2. \A i \in DOMAIN r : r[i] = pdu \/ \E j \in DOMAIN q : r[i] = q[j]
      BY <3>1, NewInQueue
    <3>3. QED
      BY <3>2 DEF q, r
  <2>7. AcksComeFromEstablished'
    BY <2>1, <2>3, <2>5, <2>6 DEF AcksComeFromEstablished, Untouched, clientVars
  <2>8. MeasuredSomething'
    BY <2>3 DEF MeasuredSomething, Connected, Untouched, clientVars
  <2>9. QED
    BY <1>1, <2>1, <2>2, <2>7, <2>8
<1>6. CASE UNCHANGED vars
  <2>1. UNCHANGED <<endVars, clientVars, serverVars>>
    BY <1>6 DEF vars
  <2>2. QED
    BY <1>1, <2>1
    DEF endVars, clientVars, serverVars, NotYetAccepting, HandshakeIsOver,
        EstablishedFirst, AcksComeFromEstablished, MeasuredSomething, Connected,
        ServerEstablished
<1>7. QED
  BY <1>4, <1>5, <1>6 DEF Next

\* mic_tcp_connect never returns 0 on a connection the server does not have: it
\* counted at least one acknowledgement, and only an established server sends any.
THEOREM ConnectOnlyToEstablished == Spec => []ConnectMeansEstablished
<1>1. Init => HandshakeInv
  BY HandshakeStarts
<1>2. HandshakeInv /\ [Next]_vars => HandshakeInv'
  BY HandshakeInvIsKept
<1>3. HandshakeInv => ConnectMeansEstablished
  BY DEF HandshakeInv, MeasureInv, MeasuredSomething, AcksComeFromEstablished,
         ConnectMeansEstablished
<1>4. QED
  BY <1>1, <1>2, <1>3, PTL DEF Spec

LEMMA NoStepReopens ==
    ASSUME HandshakeInv, [Next]_vars
    PROVE  [ state["server"] \in Down /\ ServerEstablished =>
               state'["server"] \in Down ]_state
<1> USE TheEnds DEF HandshakeInv, MeasureInv
<1>1. CASE ServerStep
  BY <1>1, ServerKeepsOnce
<1>2. CASE ClientStep \/ Call
  BY <1>2, ClientApart DEF TypeInv, Untouched
<1>3. CASE UNCHANGED vars
  BY <1>3 DEF vars, endVars
<1>4. QED
  BY <1>1, <1>2, <1>3 DEF Next

\* Once it was established and is taken down, the socket of the server is never
\* brought back: no part of the handshake is left for a thread to finish.
THEOREM NothingReopens == Spec \/ SpecConnected => NoReopening
<1>1. Init \/ InitConnected => HandshakeInv
  BY HandshakeStarts
<1>2. HandshakeInv /\ [Next]_vars => HandshakeInv'
  BY HandshakeInvIsKept
<1>3. HandshakeInv /\ [Next]_vars
        => [ state["server"] \in Down /\ ServerEstablished =>
               state'["server"] \in Down ]_state
  BY NoStepReopens
<1>4. QED
  BY <1>1, <1>2, <1>3, PTL DEF Spec, SpecConnected, NoReopening

(***************************************************************************)
(* What mic_tcp_accept returns on, when no wait returns without a signal.  *)
(* A spurious wakeup in acceptwait would be taken for the SYN, so the      *)
(* hypothesis cannot be dropped.                                           *)
(***************************************************************************)
AcceptHistory == HandshakeInv /\ CleanupInv /\ AcceptInv

LEMMA AcceptIsKeptByServer ==
    ASSUME "spurious_wakeup" \notin Rare, AcceptHistory, ServerStep
    PROVE  SynHandledOnce' /\ AcceptOutcome'
<1> USE TheEnds
    DEF AcceptHistory, HandshakeInv, CleanupInv, AcceptInv, OnceInv, TypeInv,
        SynHandledOnce, AcceptOutcome, AcceptWaits
<1>1. ASSUME NEW label, Goto(self, label)
      PROVE  pc'[self] = label
  BY <1>1 DEF Goto, EndTypeOK
<1>2. ASSUME NEW new, socket_set_state(self, new)
      PROVE  state'[self] = new
  BY <1>2 DEF socket_set_state, EndTypeOK
<1>3. ServerEstablished => ServerEstablished'
  BY ServerKeepsEstablishedFirst DEF MeasureInv
<1>4. pc[self] \in {"acceptlock", "acceptwait"}
        => net[self].at \in {"top", "blocked", "syn", "synaddr"}
  BY DEF AcceptsAlone, Accepting
<1>5. CASE Accept
  <2>1. AcceptLoop =>
          \/ pc'[self] = "synack" /\ state[self] = "SYN_RECEIVED"
          \/ pc'[self] = "recv" /\ state[self] # "SYN_RECEIVED"
    BY <1>1 DEF AcceptLoop
  <2>2. CASE mic_tcp_bind
    BY <1>1, <1>2, <1>3, <2>2 DEF mic_tcp_bind, NotYetAccepting, Waiting
  <2>3. CASE mic_tcp_accept
    BY <1>1, <1>2, <1>3, <2>3 DEF mic_tcp_accept, NotYetAccepting, Waiting
  <2>4. CASE AcceptWaitStarts
    BY <1>1, <1>3, <2>4 DEF AcceptWaitStarts, Waiting
  <2>5. CASE AcceptWakes
    <3>1. woken[self] /\ ~ woken'[self]
      BY <2>5 DEF AcceptWakes, Wakes, EndTypeOK
    <3>2. QED
      BY <1>1, <1>3, <2>1, <2>5, <3>1 DEF AcceptWakes
  <2>6. ASSUME NEW outcome, SendSynAck(outcome)
        PROVE  SynHandledOnce' /\ AcceptOutcome'
    <3>1. /\ UNCHANGED <<state, woken, net>> /\ pc[self] = "synack"
          /\ pc'[self] \in {"synack", "recv", "synacklock"}
          /\ pc'[self] = "recv" => state[self] # "SYN_RECEIVED"
      BY <1>1, <2>1, <2>6 DEF SendSynAck
    <3>2. QED
      BY <1>3, <3>1 DEF Waiting, Down
  <2>7. CASE SynAckWaitStarts \/ SynAckWaitFails
    <3>1. /\ UNCHANGED <<state, woken, net>> /\ pc[self] = "synacklock"
          /\ pc'[self] \in {"synackwait", "failed"}
      BY <1>1, <2>7 DEF SynAckWaitStarts, SynAckWaitFails
    <3>2. QED
      BY <1>3, <3>1 DEF Waiting, Down
  <2>8. CASE SynAckWakes \/ SynAckTimesOut
    <3>1. /\ UNCHANGED <<state, net>> /\ ~ woken'[self]
          /\ pc[self] = "synackwait"
          /\ pc'[self] \in {"synack", "recv"}
          /\ pc'[self] = "recv" => state[self] # "SYN_RECEIVED"
      BY <1>1, <2>1, <2>8
      DEF SynAckWakes, SynAckTimesOut, Wakes, MayTimeOut, EndTypeOK
    <3>2. QED
      BY <1>3, <3>1 DEF Down
  <2>9. CASE AcceptCrashes
    BY <2>9 DEF AcceptCrashes
  <2>10. QED
    BY <1>5, <2>2, <2>3, <2>4, <2>5, <2>6, <2>7, <2>8, <2>9 DEF Accept
<1>6. CASE mic_tcp_recv \/ ServerCloses
  <2>1. /\ UNCHANGED <<woken, net>>
        /\ pc[self] \in {"recv", "close"}
        /\ pc'[self] \in {"recv", "close", "fin"}
        /\ \/ state'[self] = state[self] /\ pc[self] = "recv"
           \/ state'[self] = "CLOSING" /\ pc'[self] = "fin"
    BY <1>1, <1>2, <1>6 DEF mic_tcp_recv, ServerCloses, mic_tcp_close
  <2>2. QED
    BY <1>3, <2>1 DEF Waiting, Down
<1>7. CASE Close(self)
  <2>1. /\ pc[self] \in ClosingLabels /\ pc'[self] \in ClosingLabels
        /\ state'[self] \in {state[self], "CLOSED"}
        /\ net'[self].at \in {net[self].at, "exited"}
    BY <1>1, <1>2, <1>7
    DEF Close, SendFin, FinWaitStarts, FinWaitFails, FinAcknowledged,
        FinTimesOut, SendFinalAck, Cleanup, ProcessExits, SpendAttempt,
        ClosingLabels, NetAt, EndTypeOK
  <2>2. ~ woken'[self]
    <3>1. CASE pc[self] \notin Waiting
      <4>1. woken' = woken
        BY <1>7, <3>1
        DEF Close, SendFin, FinWaitStarts, FinWaitFails, FinAcknowledged,
            FinTimesOut, SendFinalAck, Cleanup, ProcessExits, Waiting
      <4>2. QED
        BY <3>1, <4>1
    <3>2. CASE pc[self] \in Waiting
      <4>1. FinAcknowledged(self) \/ FinTimesOut(self)
        BY <1>7, <3>2
        DEF Close, SendFin, FinWaitStarts, FinWaitFails, SendFinalAck, Cleanup,
            ProcessExits, Waiting
      <4>2. QED
        BY <4>1 DEF FinAcknowledged, FinTimesOut, Wakes, MayTimeOut, EndTypeOK
    <3>3. QED
      BY <3>1, <3>2
  <2>3. QED
    BY <2>1, <2>2 DEF ClosingLabels
<1>8. CASE ServerNet
  <2>1. pc' = pc
    BY <1>8
    DEF ServerNet, ServerReceive, NetReceive, TakeData, SynReceived,
        AddressKnown, ConnectionAcknowledged, AnswerProbe, NetClosing, NetFin,
        NetFinAgain, NetCleanup, NetFinalAck, NetShut, NetDestroy, NetSignal,
        NetBlocks, ListeningReturns, NetExits
  <2>2. CASE ServerReceive
    <3>1. /\ UNCHANGED <<state, woken>>
          /\ net'[self].at = ServerEffect(Head(inbox[self]))
      BY <2>2 DEF ServerReceive, NetReceive, NetAt, EndTypeOK
    <3>2. QED
      BY <1>3, <2>1, <3>1, EffectsByState
  <2>3. CASE SynReceived
    <3>1. net'[self].at = "synaddr" /\ UNCHANGED woken
      BY <2>3 DEF SynReceived, EndTypeOK
    <3>2. QED
      BY <1>2, <2>1, <2>3, <3>1 DEF SynReceived, Waiting
  <2>4. CASE AddressKnown
    <3>1. /\ net'[self].at = "top" /\ UNCHANGED state
          /\ woken'[self] => woken[self] \/ pc[self] \in Waiting
      BY <2>4 DEF AddressKnown, NetDone, NetAt, Signalled, EndTypeOK
    <3>2. QED
      BY <2>1, <2>4, <3>1 DEF AddressKnown
  <2>5. CASE ConnectionAcknowledged
    <3>1. /\ net'[self].at = "top" /\ seq'[self] = 1
          /\ woken'[self] => woken[self] \/ pc[self] \in Waiting
      BY <2>5 DEF ConnectionAcknowledged, NetDone, NetAt, Signalled, EndTypeOK
    <3>2. QED
      BY <1>2, <1>4, <2>1, <2>5, <3>1 DEF ConnectionAcknowledged,
          ServerEstablished
  <2>6. CASE TakeData \/ AnswerProbe \/ NetBlocks(self) \/ ListeningReturns
    <3>1. /\ net'[self].at \in {"top", "blocked", "exited"}
          /\ UNCHANGED <<state, woken>>
      BY <2>6
      DEF TakeData, AnswerProbe, NetBlocks, ListeningReturns, NetExits, NetDone,
          NetAt, EndTypeOK
    <3>2. QED
      BY <1>3, <2>1, <3>1
  <2>7. CASE NetClosing(self)
    <3>1. /\ net[self].at \in {"fin", "finack", "cleanup", "shut", "destroy",
                               "signal"}
          /\ net'[self].at \in {"top", "shut", "destroy"}
          /\ woken'[self] => woken[self] \/ pc[self] \in Waiting
      BY <2>7
      DEF NetClosing, NetFin, NetFinAgain, NetCleanup, NetFinalAck, NetShut,
          NetDestroy, NetSignal, NetDone, NetAt, Signalled, EndTypeOK
    <3>2. state'[self] \in {state[self], "AWAITING_CLOSING", "CLOSED"}
      BY <1>2, <2>7 DEF NetClosing, NetFin, NetFinAgain, NetCleanup,
          NetFinalAck, NetShut, NetDestroy, NetSignal
    <3>3. state[self] # "ACCEPTING" /\ pc[self] # "acceptwait"
      BY <1>4, <3>1
    <3>4. QED
      BY <1>3, <2>1, <3>1, <3>2, <3>3 DEF Down
  <2>8. QED
    BY <1>8, <2>2, <2>3, <2>4, <2>5, <2>6, <2>7 DEF ServerNet
<1>9. QED
  BY <1>5, <1>6, <1>7, <1>8 DEF ServerStep, ServerMain

LEMMA AcceptHistoryIsInductive ==
    /\ Init \/ InitConnected => AcceptHistory
    /\ "spurious_wakeup" \notin Rare /\ AcceptHistory /\ [Next]_vars
         => AcceptHistory'
<1>1. ASSUME Init \/ InitConnected
      PROVE  AcceptHistory
  <2>1. HandshakeInv /\ CleanupInv
    BY <1>1, HandshakeStarts, CleanupInvIsInductive
  <2>2. SynHandledOnce /\ AcceptOutcome
    BY <1>1
    DEF Init, InitConnected, InitShared, Both, NetAt, Ends, SynHandledOnce,
        AcceptOutcome, ServerEstablished
  <2>3. QED
    BY <2>1, <2>2 DEF AcceptHistory, AcceptInv, CleanupInv
<1>2. ASSUME "spurious_wakeup" \notin Rare, AcceptHistory, [Next]_vars
      PROVE  AcceptHistory'
  <2>1. HandshakeInv' /\ CleanupInv'
    BY <1>2, HandshakeInvIsKept, CleanupInvIsInductive DEF AcceptHistory
  <2>2. SynHandledOnce' /\ AcceptOutcome'
    <3>1. CASE ServerStep
      BY <1>2, <3>1, AcceptIsKeptByServer
    <3>2. CASE ClientStep \/ Call
      <4>1. Untouched("server")
        BY <1>2, <3>2, TheEnds, ClientApart DEF AcceptHistory, HandshakeInv,
            TypeInv
      <4>2. QED
        BY <1>2, <4>1
        DEF AcceptHistory, AcceptInv, SynHandledOnce, AcceptOutcome,
            AcceptWaits, ServerEstablished, Untouched
    <3>3. CASE UNCHANGED vars
      <4>1. UNCHANGED endVars
        BY <3>3 DEF vars
      <4>2. QED
        BY <1>2, <4>1
        DEF AcceptHistory, AcceptInv, SynHandledOnce, AcceptOutcome,
            AcceptWaits, ServerEstablished, endVars
    <3>4. QED
      BY <1>2, <3>1, <3>2, <3>3 DEF Next
  <2>3. QED
    BY <2>1, <2>2 DEF AcceptHistory, AcceptInv, CleanupInv
<1>3. QED
  BY <1>1, <1>2

\* mic_tcp_accept returns 0 on nothing but a connection: no timeout and no PDU
\* that comes twice ends its loop before the ACK of the handshake.
THEOREM AcceptReturnsConnected ==
    ASSUME "spurious_wakeup" \notin Rare
    PROVE  Spec => []AcceptOutcome
<1>1. Init => AcceptHistory
  BY AcceptHistoryIsInductive
<1>2. AcceptHistory /\ [Next]_vars => AcceptHistory'
  BY AcceptHistoryIsInductive
<1>3. AcceptHistory => AcceptOutcome
  BY DEF AcceptHistory, AcceptInv
<1>4. QED
  BY <1>1, <1>2, <1>3, PTL DEF Spec

\* mic_tcp_accept never answers a SYN before the network thread has written the
\* address: whoever wakes it has written it first.
THEOREM SynIsAnsweredToAnAddress ==
    ASSUME "spurious_wakeup" \notin Rare
    PROVE  Spec => []SynAckHasAddress
<1>1. Init => AcceptHistory
  BY AcceptHistoryIsInductive
<1>2. AcceptHistory /\ [Next]_vars => AcceptHistory'
  BY AcceptHistoryIsInductive
<1>3. AcceptHistory => SynAckHasAddress
  BY DEF AcceptHistory, AcceptInv, SynHandledOnce, AcceptWaits, SynAckHasAddress
<1>4. QED
  BY <1>1, <1>2, <1>3, PTL DEF Spec

=============================================================================
