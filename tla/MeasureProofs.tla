---------------------------- MODULE MeasureProofs ----------------------------
(***************************************************************************)
(* What mic_tcp_connect counts: an answer to a probe is counted once, for  *)
(* every value of the constants.                                           *)
(***************************************************************************)
EXTENDS HandshakeProofs, FiniteSetTheorems

Connecting == {"syn", "synwait", "connack", "spawn", "measuring", "probe"}

Probes == { pdu \in Pdus : pdu.data = MESURING_PAYLOAD }
Acks   == { pdu \in Pdus : pdu.flags = {"ACK"} }

\* How many PDUs of a kind a queue holds, and an end has yet to deal with.
CountIn(q, kind) == Cardinality({ i \in DOMAIN q : q[i] \in kind })
UnderWay(e, kind) ==
    CountIn(inbox[e], kind) + (IF net[e].pdu \in kind THEN 1 ELSE 0)

MeasuringInProbe == state["client"] = "MEASURING_RELIABILITY" => pc["client"] = "probe"

\* Until mic_tcp_connect returns, what the server takes for a probe is one, and it
\* acknowledges nothing else: no message was sent, and it has none to close on.
OnlyProbes ==
    pc["client"] \in Connecting =>
      /\ delivered = <<>>
      /\ pc["server"] \notin {"close", "fin", "finlock", "finwait", "finalack"}
      /\ \A i \in DOMAIN inbox["server"] :
           inbox["server"][i].flags = {} => inbox["server"][i] \in Probes
      /\ net["server"].at # "data"
      /\ net["server"].at = "probe" => net["server"].pdu \in Probes

CountedIsAck == net["client"].at = "probeack" => net["client"].pdu \in Acks

\* The answers that may still be counted.
Answers ==
    IF pc["client"] \in Connecting THEN UnderWay("client", Acks)
    ELSE IF net["client"].at = "probeack" THEN 1 ELSE 0

ProbesCover == received_packets + UnderWay("server", Probes) + Answers <= probes

ProbeInv == MeasuringInProbe /\ OnlyProbes /\ CountedIsAck /\ ProbesCover

(***************************************************************************)
(* Counting the PDUs of a queue.                                           *)
(***************************************************************************)
LEMMA CountIsNat ==
    ASSUME NEW S, NEW q \in Seq(S), NEW kind
    PROVE  /\ IsFiniteSet({ i \in DOMAIN q : q[i] \in kind })
           /\ CountIn(q, kind) \in Nat
<1>1. DOMAIN q = 1 .. Len(q) /\ Len(q) \in Nat
  BY LenProperties
<1>2. IsFiniteSet(1 .. Len(q))
  BY <1>1, FS_Interval
<1>3. IsFiniteSet({ i \in DOMAIN q : q[i] \in kind })
  BY <1>1, <1>2, FS_Subset
<1>4. QED
  BY <1>3, FS_CardinalityType DEF CountIn

LEMMA CountAppend ==
    ASSUME NEW S, NEW q \in Seq(S), NEW x \in S, NEW kind
    PROVE  CountIn(Append(q, x), kind)
             = CountIn(q, kind) + (IF x \in kind THEN 1 ELSE 0)
<1> DEFINE r   == Append(q, x)
           old == { i \in DOMAIN q : q[i] \in kind }
           new == { i \in DOMAIN r : r[i] \in kind }
           n   == Len(q) + 1
<1>1. /\ Len(q) \in Nat /\ DOMAIN q = 1 .. Len(q)
      /\ DOMAIN r = 1 .. n /\ r[n] = x
      /\ \A i \in 1 .. Len(q) : r[i] = q[i]
  BY LenProperties, AppendProperties
<1>2. IsFiniteSet(old) /\ Cardinality(old) \in Nat
  BY CountIsNat DEF CountIn
<1> HIDE DEF r
<1>3. CASE x \in kind
  <2>1. new = old \cup {n} /\ n \notin old
    BY <1>1, <1>3
  <2>2. Cardinality(new) = Cardinality(old) + 1
    BY <1>2, <2>1, FS_AddElement
  <2>3. QED
    BY <1>3, <2>2 DEF CountIn, r
<1>4. CASE x \notin kind
  <2>1. new = old
    BY <1>1, <1>4
  <2>2. CountIn(r, kind) = CountIn(q, kind) /\ CountIn(q, kind) \in Nat
    BY <1>2, <2>1 DEF CountIn
  <2>3. QED
    BY <1>4, <2>2 DEF r
<1>5. QED
  BY <1>3, <1>4

LEMMA CountTail ==
    ASSUME NEW S, NEW q \in Seq(S), q # <<>>, NEW kind
    PROVE  CountIn(q, kind)
             = CountIn(Tail(q), kind) + (IF Head(q) \in kind THEN 1 ELSE 0)
<1> DEFINE r    == Tail(q)
           all  == { i \in DOMAIN q : q[i] \in kind }
           rest == { i \in DOMAIN r : r[i] \in kind }
           f    == [i \in all \ {1} |-> i - 1]
<1>1. /\ Len(q) \in Nat /\ DOMAIN q = 1 .. Len(q) /\ Len(q) > 0
      /\ r \in Seq(S) /\ DOMAIN r = 1 .. Len(q) - 1
      /\ \A i \in 1 .. Len(q) - 1 : r[i] = q[i + 1]
      /\ Head(q) = q[1]
  BY LenProperties, HeadTailProperties, EmptySeq
<1>2. IsFiniteSet(all) /\ Cardinality(all) \in Nat
  BY CountIsNat DEF CountIn
<1> HIDE DEF r
<1>3. f \in Bijection(all \ {1}, rest)
  <2>1. f \in [all \ {1} -> rest]
    BY <1>1
  <2>2. \A i, j \in all \ {1} : f[i] = f[j] => i = j
    BY <1>1
  <2>3. ASSUME NEW k \in rest
        PROVE  \E i \in all \ {1} : f[i] = k
    <3>1. k + 1 \in all \ {1} /\ f[k + 1] = k
      BY <1>1
    <3>2. QED
      BY <3>1
  <2>4. QED
    BY <2>1, <2>2, <2>3 DEF Bijection, Injection, Surjection, IsInjective
<1>4. IsFiniteSet(all \ {1})
  BY <1>2, FS_RemoveElement
<1>5. Cardinality(rest) = Cardinality(all \ {1})
  BY <1>3, <1>4, FS_Bijection DEF ExistsBijection
<1>6. Cardinality(all \ {1})
        = IF 1 \in all THEN Cardinality(all) - 1 ELSE Cardinality(all)
  BY <1>2, FS_RemoveElement
<1>7. 1 \in all <=> Head(q) \in kind
  BY <1>1
<1>8. Cardinality(all) = Cardinality(rest) + (IF Head(q) \in kind THEN 1 ELSE 0)
  BY <1>2, <1>5, <1>6, <1>7
<1>9. QED
  BY <1>8 DEF CountIn, r

\* What an end has under way of a kind changes with its queue and its thread.
LEMMA UnderWayIsNat ==
    ASSUME EndTypeOK, NEW e \in Ends, NEW kind
    PROVE  CountIn(inbox[e], kind) \in Nat /\ UnderWay(e, kind) \in Nat
<1>1. inbox[e] \in Seq(Pdus)
  BY DEF EndTypeOK
<1>2. CountIn(inbox[e], kind) \in Nat
  BY <1>1, CountIsNat
<1>3. QED
  BY <1>2 DEF UnderWay

LEMMA PutCounts ==
    ASSUME EndTypeOK, NEW e \in Ends, NEW kind, NEW pdu \in Pdus,
           QueuePut(e, pdu), net'[e] = net[e]
    PROVE  \/ UnderWay(e, kind)' = UnderWay(e, kind)
           \/ pdu \in kind /\ UnderWay(e, kind)' = UnderWay(e, kind) + 1
<1>1. inbox[e] \in Seq(Pdus) /\ CountIn(inbox[e], kind) \in Nat
  BY UnderWayIsNat DEF EndTypeOK
<1>2. CountIn(Append(inbox[e], pdu), kind)
        = CountIn(inbox[e], kind) + (IF pdu \in kind THEN 1 ELSE 0)
  BY <1>1, CountAppend
<1>3. CASE inbox'[e] = inbox[e]
  BY <1>3 DEF UnderWay
<1>4. CASE inbox'[e] = Append(inbox[e], pdu)
  BY <1>1, <1>2, <1>4 DEF UnderWay
<1>5. QED
  BY <1>3, <1>4 DEF QueuePut

LEMMA ReadCounts ==
    ASSUME EndTypeOK, NEW e \in Ends, NEW kind, QueueRead(e),
           net'[e] = net[e] \/ net'[e].pdu \in {Head(inbox[e]), NoPdu},
           NoPdu \notin kind
    PROVE  UnderWay(e, kind)' <= UnderWay(e, kind)
<1>1. inbox[e] \in Seq(Pdus) /\ inbox[e] # <<>> /\ inbox'[e] = Tail(inbox[e])
  BY DEF EndTypeOK, QueueRead
<1>2. CountIn(inbox[e], kind)
        = CountIn(Tail(inbox[e]), kind) + (IF Head(inbox[e]) \in kind THEN 1 ELSE 0)
  BY <1>1, CountTail
<1>3. Tail(inbox[e]) \in Seq(Pdus)
  BY <1>1, HeadTailProperties
<1>4. CountIn(Tail(inbox[e]), kind) \in Nat
  BY <1>3, CountIsNat
<1>5. QED
  BY <1>1, <1>2, <1>4 DEF UnderWay

LEMMA ThreadCounts ==
    ASSUME EndTypeOK, NEW e \in Ends, NEW kind, QueueKept(e),
           net'[e].pdu \in {net[e].pdu, NoPdu}, NoPdu \notin kind
    PROVE  /\ UnderWay(e, kind)' <= UnderWay(e, kind)
           /\ net[e].pdu \in kind /\ net'[e].pdu = NoPdu
                => UnderWay(e, kind)' = UnderWay(e, kind) - 1
<1>1. CountIn(inbox[e], kind) \in Nat
  BY UnderWayIsNat
<1>2. QED
  BY <1>1 DEF UnderWay, QueueKept

(***************************************************************************)
(* The steps of the client.                                                *)
(***************************************************************************)
LEMMA KindsApart ==
    /\ NoPdu \notin Probes /\ NoPdu \notin Acks
    /\ \A pdu \in {Syn, Ack(0), Fin, FinAck} : pdu \notin Probes
    /\ \A pdu \in Pdus : Carries(pdu, {"ACK"}) <=> pdu \in Acks
BY DEF Probes, Acks, NoPdu, Syn, Ack, Fin, FinAck, create_nopayload_pdu,
       create_pdu, NoPayload, MESURING_PAYLOAD, Carries, verify_pdu

LEMMA ClientMeasures ==
    ASSUME TypeInv, MeasuringInProbe, ClientStep \/ Call
    PROVE  /\ MeasuringInProbe'
           /\ pc'[me] \in Connecting => pc[me] \in Connecting
           /\ net'[me].at = "probeack" =>
                \/ net'[me] = net[me]
                \/ /\ pc'[me] \in Connecting
                   /\ net'[me].pdu = Head(inbox[me]) /\ net'[me].pdu \in Acks
           /\ \/ SendProbe \/ ProbeAcknowledged
              \/ UNCHANGED <<probes, received_packets>> /\ ~ SendProbe
<1> USE TheEnds DEF TypeInv, Connecting, MeasuringInProbe
<1>1. ASSUME NEW label, Goto(me, label)
      PROVE  pc'[me] = label
  BY <1>1 DEF Goto, EndTypeOK
<1>2. ASSUME NEW new, socket_set_state(me, new)
      PROVE  state'[me] = new
  BY <1>2 DEF socket_set_state, EndTypeOK
<1>3. CASE Connect
  <2>1. CASE SendProbe
    BY <2>1 DEF SendProbe
  <2>2. CASE Spawn
    <3>1. net'[me].at = "top" /\ pc'[me] = "measuring"
      BY <1>1, <2>2 DEF Spawn, NetAt, EndTypeOK
    <3>2. QED
      BY <2>2, <3>1 DEF Spawn, SendProbe, clientVars
  <2>3. CASE ~ SendProbe /\ ~ Spawn
    <3>1. UNCHANGED <<net, probes, received_packets>> /\ pc[me] \in Connecting
      BY <1>3, <2>3
      DEF Connect, SendSyn, RecvWhileConnecting, SynTimesOut, Acknowledge,
          SpawnFails, StartMeasuring, AcceptChannel, RefuseChannel, Measured,
          clientVars
    <3>2. MeasuringInProbe'
      <4>1. CASE StartMeasuring \/ AcceptChannel \/ RefuseChannel
        BY <1>1, <1>2, <4>1
        DEF StartMeasuring, AcceptChannel, RefuseChannel, mic_tcp_close
      <4>2. CASE ~ StartMeasuring /\ ~ AcceptChannel /\ ~ RefuseChannel
        <5>1. /\ pc[me] # "probe"
              /\ state'[me] \in {state[me], "SYN_SENT", "ESTABLISHED"}
          BY <1>2, <1>3, <2>3, <4>2
          DEF Connect, SendSyn, RecvWhileConnecting, SynTimesOut, Acknowledge,
              SpawnFails, send_connection_acknowledgement
        <5>2. QED
          BY <5>1
      <4>3. QED
        BY <4>1, <4>2
    <3>3. QED
      BY <2>3, <3>1, <3>2
  <2>4. QED
    BY <2>1, <2>2, <2>3
<1>4. CASE Send \/ ClientApplication
  <2>1. /\ pc[me] \in {"idle", "build", "send", "sendlock", "sendwait"}
        /\ pc'[me] \in {"idle", "build", "send", "sendlock", "sendwait", "fin"}
    BY <1>1, <1>4
    DEF Send, BuildPacket, SendPacket, SendWaitStarts, SendWaitFails, SendWakes,
        SendTimesOut, Windowed, Retry, Return, ClientApplication, CallSend,
        CallClose, mic_tcp_close
  <2>2. /\ UNCHANGED <<net, probes, received_packets>>
        /\ state'[me] \in {state[me], "CLOSING"}
    BY <1>2, <1>4
    DEF Send, BuildPacket, SendPacket, SendWaitStarts, SendWaitFails, SendWakes,
        SendTimesOut, ClientApplication, CallSend, CallClose, mic_tcp_close,
        clientVars
  <2>3. QED
    BY <2>1, <2>2 DEF SendProbe
<1>5. CASE Close(me) /\ UNCHANGED clientVars
  <2>1. pc[me] \in ClosingLabels /\ pc'[me] \in ClosingLabels
    BY <1>1, <1>5
    DEF Close, SendFin, FinWaitStarts, FinWaitFails, FinAcknowledged,
        FinTimesOut, SendFinalAck, Cleanup, ProcessExits, SpendAttempt,
        ClosingLabels
  <2>2. /\ net' = net \/ net'[me].at = "exited"
        /\ state'[me] \in {state[me], "CLOSED"}
    BY <1>2, <1>5
    DEF Close, SendFin, FinWaitStarts, FinWaitFails, FinAcknowledged,
        FinTimesOut, SendFinalAck, Cleanup, ProcessExits, NetAt, EndTypeOK
  <2>3. QED
    BY <1>5, <2>1, <2>2 DEF ClosingLabels, clientVars, SendProbe
<1>6. CASE ClientNet
  <2>1. pc' = pc /\ (ProbeAcknowledged \/ UNCHANGED <<probes, received_packets>>)
    BY <1>6
    DEF ClientNet, ProbeAcknowledged, ClientReceive, NetReceive,
        DataAcknowledged, NetClosing, NetFin, NetFinAgain, NetCleanup,
        NetFinalAck, NetShut, NetDestroy, NetSignal, Reacknowledge,
        ListenerExits, NetExits, ListenerBlocks, NetBlocks, clientVars
  <2>2. SendProbe => probes' # probes
    BY DEF SendProbe, ClientTypeOK
  <2>3. CASE ClientReceive
    <3> DEFINE pdu == Head(inbox[me])
    <3>1. /\ state' = state /\ net'[me].at = ClientEffect(pdu)
          /\ ClientEffect(pdu) = "probeack" => net'[me].pdu = pdu
      BY <2>3 DEF ClientReceive, NetReceive, NetAt, EndTypeOK
    <3>2. pdu \in Pdus
      BY <2>3, ReceiveKeepsType DEF ClientReceive, EndTypeOK
    <3>3. ClientEffect(pdu) = "probeack"
            => state[me] = "MEASURING_RELIABILITY" /\ Carries(pdu, {"ACK"})
      BY DEF ClientEffect, AwaitingClosingEffect, ClosingEffect
    <3> HIDE DEF pdu
    <3>4. QED
      BY <2>1, <2>2, <3>1, <3>2, <3>3, KindsApart DEF pdu
  <2>4. CASE ~ ClientReceive
    <3>1. net'[me].at \in {"top", "blocked", "exited", "shut", "destroy"}
      BY <1>6, <2>4
      DEF ClientNet, ProbeAcknowledged, DataAcknowledged, NetClosing, NetFin,
          NetFinAgain, NetCleanup, NetFinalAck, NetShut, NetDestroy, NetSignal,
          Reacknowledge, ListenerExits, NetExits, ListenerBlocks, NetBlocks,
          NetDone, NetAt, EndTypeOK
    <3>2. state'[me] \in {state[me], "ESTABLISHED", "AWAITING_CLOSING", "CLOSED"}
      BY <1>2, <1>6, <2>4
      DEF ClientNet, ProbeAcknowledged, DataAcknowledged, NetClosing, NetFin,
          NetFinAgain, NetCleanup, NetFinalAck, NetShut, NetDestroy, NetSignal,
          Reacknowledge, send_connection_acknowledgement, ListenerExits,
          NetExits, ListenerBlocks, NetBlocks
    <3>3. QED
      BY <2>1, <2>2, <3>1, <3>2
  <2>5. QED
    BY <2>3, <2>4
<1>7. QED
  BY <1>3, <1>4, <1>5, <1>6 DEF ClientStep, Call, ClientMain

\* A thread that receives nothing keeps the PDU it works on, or is done with it.
LEMMA ClientKeepsPdu ==
    ASSUME TypeInv, ClientStep \/ Call, ~ RecvWhileConnecting, ~ ClientReceive
    PROVE  QueueKept(me) /\ net'[me].pdu \in {net[me].pdu, NoPdu}
<1> USE TheEnds DEF TypeInv
<1> SUFFICES net'[me].pdu \in {net[me].pdu, NoPdu}
  BY ClientApart
<1>1. CASE Connect
  BY <1>1
  DEF Connect, SendSyn, SynTimesOut, Acknowledge, Spawn, SpawnFails,
      StartMeasuring, SendProbe, AcceptChannel, RefuseChannel, NetAt, EndTypeOK
<1>2. CASE Send \/ ClientApplication
  BY <1>2
  DEF Send, BuildPacket, SendPacket, SendWaitStarts, SendWaitFails, SendWakes,
      SendTimesOut, ClientApplication, CallSend, CallClose
<1>3. CASE Close(me)
  BY <1>3
  DEF Close, SendFin, FinWaitStarts, FinWaitFails, FinAcknowledged,
      FinTimesOut, SendFinalAck, Cleanup, ProcessExits, NetAt, EndTypeOK
<1>4. CASE ClientNet
  BY <1>4
  DEF ClientNet, ProbeAcknowledged, DataAcknowledged, NetClosing, NetFin,
      NetFinAgain, NetCleanup, NetFinalAck, NetShut, NetDestroy, NetSignal,
      Reacknowledge, ListenerExits, NetExits, ListenerBlocks, NetBlocks,
      NetDone, NetAt, EndTypeOK
<1>5. QED
  BY <1>1, <1>2, <1>3, <1>4 DEF ClientStep, Call, ClientMain

\* No step of the client adds to the answers it has yet to count.
LEMMA ClientTakesAnswers ==
    ASSUME TypeInv, ClientStep \/ Call
    PROVE  /\ UnderWay(me, Acks)' <= UnderWay(me, Acks)
           /\ ProbeAcknowledged /\ net[me].pdu \in Acks
                => UnderWay(me, Acks)' = UnderWay(me, Acks) - 1
<1> USE TheEnds, KindsApart DEF TypeInv
<1>1. CASE RecvWhileConnecting \/ ClientReceive
  <2>1. QueueRead(me)
    BY <1>1 DEF RecvWhileConnecting, ClientReceive, NetReceive, QueueRead,
        EndTypeOK
  <2>2. net'[me] = net[me] \/ net'[me].pdu \in {Head(inbox[me]), NoPdu}
    BY <1>1 DEF RecvWhileConnecting, ClientReceive, NetReceive, NetAt, EndTypeOK
  <2>3. ~ ProbeAcknowledged
    <3>1. CASE RecvWhileConnecting
      <4>1. inbox'[me] # inbox[me]
        <5>1. inbox[me] \in Seq(Pdus) /\ inbox[me] # <<>> /\ inbox'[me] = Tail(inbox[me])
          BY <2>1 DEF QueueRead, EndTypeOK
        <5>2. Len(inbox'[me]) # Len(inbox[me])
          BY <5>1, HeadTailProperties, LenProperties
        <5>3. QED
          BY <5>2
      <4>2. QED
        BY <4>1 DEF ProbeAcknowledged
    <3>2. CASE ClientReceive
      BY <3>2 DEF ClientReceive, NetReceive, ProbeAcknowledged
    <3>3. QED
      BY <1>1, <3>1, <3>2
  <2>4. QED
    BY <2>1, <2>2, <2>3, ReadCounts
<1>2. CASE ~ RecvWhileConnecting /\ ~ ClientReceive
  <2>1. QueueKept(me) /\ net'[me].pdu \in {net[me].pdu, NoPdu}
    BY <1>2, ClientKeepsPdu
  <2>2. ProbeAcknowledged => net'[me].pdu = NoPdu
    BY DEF ProbeAcknowledged, NetDone, NetAt, EndTypeOK
  <2>3. QED
    BY <2>1, <2>2, ThreadCounts
<1>3. QED
  BY <1>1, <1>2

\* A step of the client puts at most one probe under way, and counts it.
LEMMA ClientSendsProbes ==
    ASSUME TypeInv, ClientStep \/ Call
    PROVE  \/ UnderWay(self, Probes)' = UnderWay(self, Probes)
           \/ /\ SendProbe
              /\ UnderWay(self, Probes)' = UnderWay(self, Probes) + 1
<1>1. Untouched(self) /\ ServerMayGet
  BY ClientApart DEF TypeInv
<1>2. PICK pdu \in Pdus :
        /\ QueuePut(self, pdu)
        /\ \/ pdu \in {Syn, Ack(0), Fin, FinAck}
           \/ SendProbe /\ pdu = create_pdu({}, 0, 0, MESURING_PAYLOAD)
           \/ SendPacket /\ pdu = create_pdu({}, packet.seq_num, 0, message)
  BY <1>1, TheEnds DEF ServerMayGet
<1>3. pdu \in Probes => SendProbe
  <2>1. message \in Nat
    BY LenProperties DEF TypeInv, ClientTypeOK, message
  <2>2. create_pdu({}, packet.seq_num, 0, message) \notin Probes
    BY <2>1 DEF Probes, create_pdu, MESURING_PAYLOAD
  <2>3. QED
    BY <1>2, <2>2, KindsApart
<1>4. EndTypeOK /\ net'[self] = net[self]
  BY <1>1 DEF TypeInv, Untouched
<1>5. QED
  BY <1>2, <1>3, <1>4, TheEnds, PutCounts

LEMMA ClientKeepsProbeInv ==
    ASSUME TypeInv, ProbeInv, ClientStep \/ Call
    PROVE  ProbeInv'
<1> USE TheEnds DEF ProbeInv
<1>0. EndTypeOK /\ ClientTypeOK /\ EndTypeOK' /\ inbox[self] \in Seq(Pdus)
  <2>1. TypeInv'
    BY StepsKeepTypes DEF Next
  <2>2. QED
    BY <2>1 DEF TypeInv, EndTypeOK
<1>1. MeasuringInProbe'
  BY ClientMeasures
<1>2. Untouched(self) /\ UNCHANGED serverVars /\ ServerMayGet
  BY <1>0, ClientApart
<1>3. pc'[me] \in Connecting => pc[me] \in Connecting
  BY ClientMeasures
<1>4. OnlyProbes'
  <2> SUFFICES ASSUME pc[me] \in Connecting
               PROVE  OnlyProbes'
    BY <1>3 DEF OnlyProbes
  <2>1. PICK pdu \in Pdus :
          /\ QueuePut(self, pdu)
          /\ \/ pdu \in {Syn, Ack(0), Fin, FinAck}
             \/ SendProbe /\ pdu = create_pdu({}, 0, 0, MESURING_PAYLOAD)
             \/ SendPacket /\ pdu = create_pdu({}, packet.seq_num, 0, message)
    BY <1>2 DEF ServerMayGet
  <2>2. ~ SendPacket
    BY DEF SendPacket, Connecting
  <2>3. pdu.flags = {} => pdu \in Probes
    BY <2>1, <2>2
    DEF Probes, create_pdu, Syn, Ack, Fin, FinAck, create_nopayload_pdu
  <2> DEFINE q == inbox[self]
             r == inbox'[self]
  <2>4. q \in Seq(Pdus) /\ r \in {q, Append(q, pdu)}
    BY <1>0, <2>1 DEF QueuePut
  <2>5. \A i \in DOMAIN q : q[i].flags = {} => q[i] \in Probes
    BY DEF OnlyProbes
  <2> HIDE DEF q, r
  <2>6. \A i \in DOMAIN r : r[i] = pdu \/ \E j \in DOMAIN q : r[i] = q[j]
    BY <2>4, NewInQueue
  <2>7. \A i \in DOMAIN r : r[i].flags = {} => r[i] \in Probes
    BY <2>3, <2>5, <2>6
  <2>8. QED
    BY <1>2, <2>7 DEF OnlyProbes, Untouched, serverVars, r
<1>5. CountedIsAck'
  BY ClientMeasures DEF CountedIsAck
<1>6. ProbesCover'
  <2> DEFINE a == UnderWay(me, Acks)
             b == UnderWay(self, Probes)
  <2>1. a \in Nat /\ b \in Nat /\ a' \in Nat /\ b' \in Nat
    <3>1. /\ inbox'[me] \in Seq(Pdus) /\ inbox'[self] \in Seq(Pdus)
      BY <1>0 DEF EndTypeOK
    <3>2. /\ CountIn(inbox'[me], Acks) \in Nat
          /\ CountIn(inbox'[self], Probes) \in Nat
      BY <3>1, CountIsNat
    <3>3. a' \in Nat /\ b' \in Nat
      BY <3>2 DEF UnderWay
    <3>4. QED
      BY <1>0, <3>3, UnderWayIsNat
  <2>2. received_packets \in Nat /\ probes \in Nat
    BY <1>0 DEF ClientTypeOK
  <2>3. a' <= a /\ (ProbeAcknowledged /\ net[me].pdu \in Acks => a' = a - 1)
    BY ClientTakesAnswers
  <2>4. b' = b \/ (SendProbe /\ b' = b + 1)
    BY ClientSendsProbes
  <2>5. net[me].pdu \in Acks => a >= 1
    BY <1>0, UnderWayIsNat DEF UnderWay
  <2>6. received_packets + b + Answers <= probes
    BY DEF ProbesCover
  <2>7. Answers \in {a, 0, 1} /\ (pc[me] \in Connecting => Answers = a)
    BY DEF Answers
  <2> HIDE DEF a, b
  <2>8. CASE ProbeAcknowledged
    <3>1. /\ received_packets' = received_packets + 1 /\ UNCHANGED <<probes, pc>>
          /\ net[me].at = "probeack" /\ net'[me].at = "top"
          /\ ~ SendProbe
      BY <1>0, <2>2, <2>8
      DEF ProbeAcknowledged, SendProbe, NetDone, NetAt, EndTypeOK
    <3>2. net[me].pdu \in Acks
      BY <3>1 DEF CountedIsAck
    <3>3. Answers' = Answers - 1
      BY <2>3, <2>8, <3>1, <3>2 DEF Answers, a
    <3>4. QED
      BY <2>1, <2>2, <2>4, <2>6, <2>7, <3>1, <3>3 DEF ProbesCover, b
  <2>9. CASE ~ ProbeAcknowledged
    <3>1. Answers' <= Answers
      <4>1. CASE pc'[me] \in Connecting
        BY <1>3, <2>1, <2>3, <4>1 DEF Answers, a
      <4>2. CASE pc'[me] \notin Connecting /\ net'[me].at = "probeack"
        <5>1. net'[me] = net[me]
          BY <4>2, ClientMeasures
        <5>2. net[me].at = "probeack" /\ net[me].pdu \in Acks
          BY <4>2, <5>1 DEF CountedIsAck
        <5>3. QED
          BY <2>1, <2>5, <4>2, <5>2 DEF Answers, a
      <4>3. CASE pc'[me] \notin Connecting /\ net'[me].at # "probeack"
        BY <2>1, <4>3 DEF Answers, a
      <4>4. QED
        BY <4>1, <4>2, <4>3
    <3>2. \/ UNCHANGED <<probes, received_packets>> /\ ~ SendProbe
          \/ /\ SendProbe /\ probes' = probes + 1
             /\ received_packets' = received_packets
      BY <2>9, ClientMeasures DEF SendProbe
    <3>3. Answers' \in Nat
      BY <2>1 DEF Answers, a
    <3>4. QED
      BY <2>1, <2>2, <2>4, <2>6, <2>7, <3>1, <3>2, <3>3 DEF ProbesCover, b
  <2>10. QED
    BY <2>8, <2>9
<1>7. QED
  BY <1>1, <1>4, <1>5, <1>6

(***************************************************************************)
(* The steps of the server.                                                *)
(***************************************************************************)
LEMMA ServerKeepsPdu ==
    ASSUME TypeInv, ServerStep, ~ ServerReceive
    PROVE  QueueKept(self) /\ net'[self].pdu \in {net[self].pdu, NoPdu}
<1> USE TheEnds DEF TypeInv
<1> SUFFICES net'[self].pdu \in {net[self].pdu, NoPdu}
  BY ServerApart
<1>1. CASE Accept \/ mic_tcp_recv \/ ServerCloses
  BY <1>1
  DEF Accept, mic_tcp_bind, mic_tcp_accept, AcceptWaitStarts, AcceptWakes,
      SendSynAck, AcceptCrashes, SynAckWaitStarts, SynAckWaitFails,
      SynAckWakes, SynAckTimesOut, mic_tcp_recv, ServerCloses, NetAt,
      EndTypeOK
<1>2. CASE Close(self)
  BY <1>2
  DEF Close, SendFin, FinWaitStarts, FinWaitFails, FinAcknowledged,
      FinTimesOut, SendFinalAck, Cleanup, ProcessExits, NetAt, EndTypeOK
<1>3. CASE ServerNet
  <2>1. CASE SynReceived
    BY <2>1 DEF SynReceived, EndTypeOK
  <2>2. CASE ~ SynReceived
    BY <1>2, <1>3, <2>2
    DEF ServerNet, TakeData, AddressKnown, ConnectionAcknowledged, AnswerProbe,
        NetClosing, NetFin, NetFinAgain, NetCleanup, NetFinalAck, NetShut,
        NetDestroy, NetSignal, NetBlocks, ListeningReturns, NetExits, NetDone,
        NetAt, EndTypeOK
  <2>3. QED
    BY <2>1, <2>2
<1>4. QED
  BY <1>1, <1>2, <1>3 DEF ServerStep, ServerMain

\* The server answers a probe once: what it answered is not under way any more.
LEMMA ServerTakesProbes ==
    ASSUME TypeInv, ServerStep
    PROVE  /\ UnderWay(self, Probes)' <= UnderWay(self, Probes)
           /\ AnswerProbe /\ net[self].pdu \in Probes
                => UnderWay(self, Probes)' = UnderWay(self, Probes) - 1
<1> USE TheEnds, KindsApart DEF TypeInv
<1>1. CASE ServerReceive
  <2>1. QueueRead(self)
    BY <1>1 DEF ServerReceive, NetReceive, QueueRead, EndTypeOK
  <2>2. net'[self].pdu \in {Head(inbox[self]), NoPdu}
    BY <1>1 DEF ServerReceive, NetReceive, NetAt, EndTypeOK
  <2>3. ~ AnswerProbe
    BY <1>1 DEF ServerReceive, NetReceive, AnswerProbe
  <2>4. QED
    BY <2>1, <2>2, <2>3, ReadCounts
<1>2. CASE ~ ServerReceive
  <2>1. QueueKept(self) /\ net'[self].pdu \in {net[self].pdu, NoPdu}
    BY <1>2, ServerKeepsPdu
  <2>2. AnswerProbe => net'[self].pdu = NoPdu
    BY DEF AnswerProbe, NetDone, NetAt, EndTypeOK
  <2>3. QED
    BY <2>1, <2>2, ThreadCounts
<1>3. QED
  BY <1>1, <1>2

LEMMA ServerSendsAcks ==
    ASSUME TypeInv, ServerStep
    PROVE  \/ UnderWay(me, Acks)' = UnderWay(me, Acks)
           \/ Acknowledges /\ UnderWay(me, Acks)' = UnderWay(me, Acks) + 1
<1>1. EndTypeOK /\ net'[me] = net[me] /\ ClientMayGet
  BY ServerApart DEF TypeInv, Untouched
<1>2. PICK pdu \in Pdus :
        QueuePut(me, pdu) /\ (Carries(pdu, {"ACK"}) => Acknowledges)
  BY <1>1, TheEnds DEF ClientMayGet
<1>3. pdu \in Acks => Acknowledges
  BY <1>2, KindsApart
<1>4. QED
  BY <1>1, <1>2, <1>3, TheEnds, PutCounts

\* Until mic_tcp_connect returns the server only meets probes, and keeps to that.
LEMMA ServerOnlyMeetsProbes ==
    ASSUME TypeInv, OnlyProbes, ServerStep
    PROVE  OnlyProbes'
<1> USE TheEnds DEF TypeInv, OnlyProbes
<1>0. Untouched(me)
  BY ServerApart
<1> SUFFICES ASSUME pc[me] \in Connecting
             PROVE  OnlyProbes'
  BY <1>0 DEF Untouched
<1> DEFINE q == inbox[self]
           r == inbox'[self]
<1>1. ASSUME NEW label, Goto(self, label)
      PROVE  pc'[self] = label
  BY <1>1 DEF Goto, EndTypeOK
<1>2. q \in Seq(Pdus) /\ \A i \in DOMAIN q : q[i].flags = {} => q[i] \in Probes
  BY DEF EndTypeOK
<1>3. \A i \in DOMAIN r : r[i].flags = {} => r[i] \in Probes
  <2>1. r = q \/ (q # <<>> /\ r = Tail(q))
    BY ServerApart DEF QueueKept, QueueRead
  <2> HIDE DEF q, r
  <2>2. \A i \in DOMAIN r : \E j \in DOMAIN q : r[i] = q[j]
    <3>1. CASE r = q
      BY <3>1
    <3>2. CASE q # <<>> /\ r = Tail(q)
      BY <1>2, <3>2, HeadTailProperties, LenProperties
    <3>3. QED
      BY <2>1, <3>1, <3>2
  <2>3. QED
    BY <1>2, <2>2
<1>4. CASE Accept
  <2>1. /\ UNCHANGED delivered
        /\ net'[self] = net[self] \/ net'[self].at = "exited"
    BY <1>4
    DEF Accept, mic_tcp_bind, mic_tcp_accept, AcceptWaitStarts, AcceptWakes,
        SendSynAck, AcceptCrashes, SynAckWaitStarts, SynAckWaitFails,
        SynAckWakes, SynAckTimesOut, NetAt, EndTypeOK, serverVars
  <2>2. pc'[self] \in {"accept", "acceptlock", "acceptwait", "synack", "recv",
                       "synacklock", "synackwait", "failed", "exited"}
    BY <1>1, <1>4
    DEF Accept, mic_tcp_bind, mic_tcp_accept, AcceptWaitStarts, AcceptWakes,
        SendSynAck, AcceptCrashes, SynAckWaitStarts, SynAckWaitFails,
        SynAckWakes, SynAckTimesOut, AcceptLoop
  <2>3. QED
    BY <1>3, <2>1, <2>2
<1>5. CASE mic_tcp_recv \/ ServerCloses
  <2>1. Len(delivered) = 0 /\ nread \in Nat
    BY DEF ServerTypeOK
  <2>2. QED
    BY <1>5, <2>1 DEF mic_tcp_recv, ServerCloses
<1>6. CASE Close(self) /\ UNCHANGED serverVars
  <2>1. Cleanup(self) \/ ProcessExits(self)
    BY <1>6
    DEF Close, SendFin, FinWaitStarts, FinWaitFails, FinAcknowledged,
        FinTimesOut, SendFinalAck
  <2>2. /\ pc'[self] \in {"closed", "exited"}
        /\ net'[self] = net[self] \/ net'[self].at = "exited"
    BY <1>1, <2>1 DEF Cleanup, ProcessExits, NetAt, EndTypeOK
  <2>3. QED
    BY <1>3, <1>6, <2>2 DEF serverVars
<1>7. CASE ServerNet
  <2>1. pc' = pc
    BY <1>7
    DEF ServerNet, ServerReceive, NetReceive, TakeData, SynReceived,
        AddressKnown, ConnectionAcknowledged, AnswerProbe, NetClosing, NetFin,
        NetFinAgain, NetCleanup, NetFinalAck, NetShut, NetDestroy, NetSignal,
        NetBlocks, ListeningReturns, NetExits
  <2>2. CASE ServerReceive
    <3> DEFINE pdu == Head(inbox[self])
    <3>1. /\ UNCHANGED delivered /\ net'[self].at = ServerEffect(pdu)
          /\ ServerEffect(pdu) # "top" => net'[self].pdu = pdu
      BY <2>2 DEF ServerReceive, NetReceive, NetAt, EndTypeOK
    <3>2. pdu.flags = {} => pdu \in Probes
      <4>1. q # <<>>
        BY <2>2 DEF ServerReceive
      <4> HIDE DEF q
      <4>2. Head(q) = q[1] /\ 1 \in DOMAIN q
        BY <1>2, <4>1, HeadTailProperties, LenProperties
      <4>3. Head(q).flags = {} => Head(q) \in Probes
        BY <1>2, <4>2
      <4>4. QED
        BY <4>3 DEF q
    <3> HIDE DEF pdu
    <3>3. ServerEffect(pdu) \in {"probe", "data"} => pdu.flags = {}
      BY DEF ServerEffect, AwaitingClosingEffect, ClosingEffect, Carries,
          verify_pdu
    <3>4. pdu \in Probes => IsProbe(pdu)
      BY ServerAssumption
      DEF Probes, IsProbe, Text, NoPayload, MESURING_PAYLOAD
    <3>5. IsProbe(pdu) => ServerEffect(pdu) # "data"
      BY DEF ServerEffect, AwaitingClosingEffect, ClosingEffect
    <3>6. QED
      BY <1>3, <2>1, <3>1, <3>2, <3>3, <3>4, <3>5
  <2>3. CASE ~ ServerReceive
    <3>1. /\ UNCHANGED delivered
          /\ net'[self].at \in {"synaddr", "top", "blocked", "exited", "shut",
                         "destroy"}
      BY <1>7, <2>3
      DEF ServerNet, TakeData, SynReceived, AddressKnown,
          ConnectionAcknowledged, AnswerProbe, NetClosing, NetFin, NetFinAgain,
          NetCleanup, NetFinalAck, NetShut, NetDestroy, NetSignal, NetBlocks,
          ListeningReturns, NetExits, NetDone, NetAt, EndTypeOK, serverVars
    <3>2. QED
      BY <1>3, <2>1, <3>1
  <2>4. QED
    BY <2>2, <2>3
<1>8. QED
  BY <1>4, <1>5, <1>6, <1>7 DEF ServerStep, ServerMain

LEMMA ServerKeepsProbeInv ==
    ASSUME TypeInv, ProbeInv, ServerStep
    PROVE  ProbeInv'
<1> USE TheEnds DEF ProbeInv
<1>0. EndTypeOK /\ ClientTypeOK /\ inbox'[me] \in Seq(Pdus) /\ inbox'[self] \in Seq(Pdus)
  <2>1. TypeInv'
    BY StepsKeepTypes DEF Next
  <2>2. QED
    BY <2>1 DEF TypeInv, EndTypeOK
<1>1. Untouched(me) /\ UNCHANGED clientVars
  BY <1>0, ServerApart
<1>2. MeasuringInProbe' /\ CountedIsAck'
  BY <1>1 DEF MeasuringInProbe, CountedIsAck, Untouched
<1>3. OnlyProbes'
  BY ServerOnlyMeetsProbes
<1>4. ProbesCover'
  <2> DEFINE a == UnderWay(me, Acks)
             b == UnderWay(self, Probes)
  <2>1. a \in Nat /\ b \in Nat /\ a' \in Nat /\ b' \in Nat
    <3>1. /\ CountIn(inbox'[me], Acks) \in Nat
          /\ CountIn(inbox'[self], Probes) \in Nat
      BY <1>0, CountIsNat
    <3>2. a' \in Nat /\ b' \in Nat
      BY <3>1 DEF UnderWay
    <3>3. QED
      BY <1>0, <3>2, UnderWayIsNat
  <2>2. received_packets \in Nat /\ probes \in Nat
    BY <1>0 DEF ClientTypeOK
  <2>3. b' <= b /\ (AnswerProbe /\ net[self].pdu \in Probes => b' = b - 1)
    BY ServerTakesProbes
  <2>4. a' = a \/ (Acknowledges /\ a' = a + 1)
    BY ServerSendsAcks
  <2>5. received_packets + b + Answers <= probes
    BY DEF ProbesCover
  <2>6. /\ pc' [me] = pc[me] /\ net'[me] = net[me]
        /\ UNCHANGED <<probes, received_packets>>
    BY <1>1 DEF Untouched, clientVars
  <2> HIDE DEF a, b
  <2>7. CASE pc[me] \in Connecting
    <3>1. Answers = a /\ Answers' = a'
      BY <2>6, <2>7 DEF Answers, a
    <3>2. Acknowledges => AnswerProbe /\ net[self].pdu \in Probes
      BY <2>7
      DEF OnlyProbes, Acknowledges, AnswerProbe, TakeData, SendFinalAck
    <3>3. QED
      BY <2>1, <2>2, <2>3, <2>4, <2>5, <2>6, <3>1, <3>2 DEF ProbesCover, b
  <2>8. CASE pc[me] \notin Connecting
    <3>1. Answers' = Answers /\ Answers \in {0, 1}
      BY <2>6, <2>8 DEF Answers
    <3>2. QED
      BY <2>1, <2>2, <2>3, <2>5, <2>6, <3>1 DEF ProbesCover, b
  <2>9. QED
    BY <2>7, <2>8
<1>5. QED
  BY <1>2, <1>3, <1>4

LEMMA ProbeInvIsInductive ==
    /\ Init \/ InitConnected => ProbeInv
    /\ TypeInv /\ ProbeInv /\ [Next]_vars => ProbeInv'
<1>1. ASSUME Init \/ InitConnected
      PROVE  ProbeInv
  <2>1. /\ inbox["server"] = <<>> /\ inbox["client"] = <<>>
        /\ net["server"].pdu = NoPdu /\ net["client"].pdu = NoPdu
    BY <1>1 DEF Init, InitConnected, InitShared, Both, NetAt, Ends
  <2>2. \A e \in Ends : \A kind : NoPdu \notin kind => UnderWay(e, kind) = 0
    <3> SUFFICES ASSUME NEW e \in Ends, NEW kind, NoPdu \notin kind
                 PROVE  UnderWay(e, kind) = 0
      OBVIOUS
    <3>1. inbox[e] = <<>> /\ net[e].pdu = NoPdu
      BY <2>1 DEF Ends
    <3>2. { i \in DOMAIN inbox[e] : inbox[e][i] \in kind } = {}
      BY <3>1
    <3>3. CountIn(inbox[e], kind) = 0
      BY <3>2, FS_EmptySet DEF CountIn
    <3>4. QED
      BY <3>1, <3>3 DEF UnderWay
  <2>3. UnderWay("server", Probes) = 0 /\ UnderWay("client", Acks) = 0
    BY <2>2, KindsApart DEF Ends
  <2>4. ProbesCover
    <3>1. Answers = 0 /\ received_packets \in Int /\ received_packets <= probes
      BY <1>1, <2>3, MeasuresAssumption, ClientAssumption
      DEF Answers, Init, InitConnected, InitShared, Both, NetAt, Ends
    <3>2. QED
      BY <2>3, <3>1 DEF ProbesCover
  <2>5. MeasuringInProbe /\ OnlyProbes /\ CountedIsAck
    BY <1>1, <2>1
    DEF MeasuringInProbe, OnlyProbes, CountedIsAck, Connecting, Init,
        InitConnected, InitShared, Both, NetAt, Ends
  <2>6. QED
    BY <2>4, <2>5 DEF ProbeInv
<1>2. ASSUME TypeInv, ProbeInv, [Next]_vars
      PROVE  ProbeInv'
  <2>1. CASE ClientStep \/ Call
    BY <1>2, <2>1, ClientKeepsProbeInv
  <2>2. CASE ServerStep
    BY <1>2, <2>2, ServerKeepsProbeInv
  <2>3. CASE UNCHANGED vars
    <3>1. UNCHANGED <<endVars, clientVars, serverVars>>
      BY <2>3 DEF vars
    <3>2. QED
      BY <1>2, <3>1
      DEF endVars, clientVars, serverVars, ProbeInv, MeasuringInProbe,
          OnlyProbes, CountedIsAck, ProbesCover, UnderWay, Answers
  <2>4. QED
    BY <1>2, <2>1, <2>2, <2>3 DEF Next
<1>3. QED
  BY <1>1, <1>2

LEMMA CoverIsEnough == TypeInv /\ ProbeInv => EachProbeCountsOnce
<1> SUFFICES ASSUME TypeInv, ProbeInv
             PROVE  EachProbeCountsOnce
  OBVIOUS
<1>1. EndTypeOK /\ received_packets \in Nat /\ "client" \in Ends /\ "server" \in Ends
  BY DEF TypeInv, ClientTypeOK, Ends
<1>2. \A e \in Ends : net[e].pdu \in Pdus /\ \A i \in DOMAIN inbox[e] : inbox[e][i] \in Pdus
  BY <1>1 DEF EndTypeOK
<1>3. InFlight("server", LAMBDA pdu : pdu.data = MESURING_PAYLOAD)
        = UnderWay("server", Probes)
  <2>1. { i \in DOMAIN inbox["server"] : inbox["server"][i].data = MESURING_PAYLOAD }
          = { i \in DOMAIN inbox["server"] : inbox["server"][i] \in Probes }
    BY <1>1, <1>2 DEF Probes
  <2>2. net["server"].pdu.data = MESURING_PAYLOAD <=> net["server"].pdu \in Probes
    BY <1>1, <1>2 DEF Probes
  <2>3. QED
    BY <2>1, <2>2 DEF InFlight, UnderWay, CountIn
<1>4. InFlight("client", LAMBDA pdu : Carries(pdu, {"ACK"}))
        = UnderWay("client", Acks)
  <2>1. { i \in DOMAIN inbox["client"] : Carries(inbox["client"][i], {"ACK"}) }
          = { i \in DOMAIN inbox["client"] : inbox["client"][i] \in Acks }
    BY <1>1, <1>2, KindsApart
  <2>2. Carries(net["client"].pdu, {"ACK"}) <=> net["client"].pdu \in Acks
    BY <1>1, <1>2, KindsApart
  <2>3. QED
    BY <2>1, <2>2 DEF InFlight, UnderWay, CountIn
<1>5. /\ UnderWay("server", Probes) \in Nat /\ UnderWay("client", Acks) \in Nat
  BY <1>1, UnderWayIsNat
<1>6. received_packets + UnderWay("server", Probes)
        + (IF pc["client"] \in {"measuring", "probe"}
           THEN UnderWay("client", Acks) ELSE 0) <= probes
  <2>1. probes \in Nat /\ Answers \in Nat
    BY <1>5 DEF TypeInv, ClientTypeOK, Answers
  <2>2. pc["client"] \in {"measuring", "probe"} => Answers = UnderWay("client", Acks)
    BY DEF Answers, Connecting
  <2>3. QED
    BY <1>1, <1>5, <2>1, <2>2 DEF ProbeInv, ProbesCover
<1>7. QED
  BY <1>3, <1>4, <1>6 DEF EachProbeCountsOnce

\* The reliability that mic_tcp_connect measures is never above 100%: one answer
\* at most comes from each probe, whatever else is acknowledged, and it is counted
\* once.
THEOREM ProbesAreCountedOnce == Spec \/ SpecConnected => []EachProbeCountsOnce
<1>1. Init \/ InitConnected => TypeInv /\ ProbeInv
  BY InitialTypes, ProbeInvIsInductive
<1>2. TypeInv /\ ProbeInv /\ [Next]_vars => (TypeInv /\ ProbeInv)'
  BY StepsKeepTypes, ProbeInvIsInductive
<1>3. QED
  BY <1>1, <1>2, CoverIsEnough, PTL DEF Spec, SpecConnected

=============================================================================
