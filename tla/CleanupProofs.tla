---------------------------- MODULE CleanupProofs ----------------------------
(***************************************************************************)
(* Whom socket_cleanup leaves waiting, for every value of the constants.   *)
(*                                                                         *)
(* The cleanup made by a network thread closes and signals, so that a wait *)
(* that has begun is never left; a wait may still begin between the signal *)
(* and the destruction of the condition variable. That one has a deadline: *)
(* the wait of mic_tcp_accept, which has none, is not among them because   *)
(* nobody can have closed the connection yet. That is what AcceptsAlone    *)
(* says, and the only thing that has to be an invariant here.              *)
(***************************************************************************)
EXTENDS MicTcpProofs

Accepting == {"bind", "accept", "acceptlock", "acceptwait"}

\* Until accept has been woken the client has only sent SYNs, and nothing else
\* was ever sent.
AcceptsAlone ==
    pc["server"] \in Accepting =>
      /\ pc["client"] \in {"syn", "synwait"}
      /\ net["client"].at = "none" /\ inbox["client"] = <<>>
      /\ open["server"]
      /\ state["server"] \in {"CLOSED", "IDLE", "ACCEPTING", "SYN_RECEIVED"}
      /\ net["server"].at \in {"top", "blocked", "syn", "synaddr"}
      /\ \A i \in DOMAIN inbox["server"] : inbox["server"][i] = Syn

CleanupInv == TypeInv /\ AcceptsAlone

\* A step leaves nobody waiting but who has just begun to, with a deadline.
OnlyLateLeft ==
    \A e \in Ends :
      LeftWaiting(e)' /\ ~ LeftWaiting(e) =>
        pc[e] \in Locking /\ pc'[e] # "acceptwait"

LEMMA TheEnds ==
    /\ me = "client" /\ self = "server"
    /\ me \in Ends /\ self \in Ends
    /\ Peer(me) = self /\ Peer(self) = me
<1>1. me = "client" /\ self = "server" /\ Ends = {me, self}
  BY DEF me, self, Ends
<1>2. Peer(me) = self /\ Peer(self) = me
  BY <1>1 DEF Peer
<1>3. QED
  BY <1>1, <1>2

\* A main thread moves: to no wait, to one with a deadline that it had locked
\* for, or to one on a socket that is open.
LEMMA MainKeepsWatch ==
    ASSUME EndTypeOK, NEW e \in Ends, NEW label, Goto(e, label),
           open' = open \/ open' = [open EXCEPT ![e] = FALSE],
           woken' = woken \/ woken' = [woken EXCEPT ![e] = FALSE],
           \/ label \notin Waiting
           \/ pc[e] \in Locking /\ label # "acceptwait"
           \/ open' = open /\ open[e]
    PROVE  OnlyLateLeft
<1> SUFFICES ASSUME NEW f \in Ends, LeftWaiting(f)', ~ LeftWaiting(f)
             PROVE  pc[f] \in Locking /\ pc'[f] # "acceptwait"
  BY DEF OnlyLateLeft
<1>1. f = e
  BY DEF Goto, EndTypeOK, LeftWaiting
<1>2. pc'[e] = label
  BY DEF Goto, EndTypeOK
<1>3. label \in Waiting /\ ~ open'[e]
  BY <1>1, <1>2 DEF LeftWaiting
<1>4. QED
  BY <1>1, <1>2, <1>3

\* A network thread closes only what it signals.
LEMMA NetKeepsWatch ==
    ASSUME EndTypeOK, NEW e \in Ends, pc' = pc,
           \/ open' = open /\ woken' = woken
           \/ /\ open' = open \/ open' = [open EXCEPT ![e] = FALSE]
              /\ woken' = Signalled(e)
    PROVE  OnlyLateLeft
<1> SUFFICES ASSUME NEW f \in Ends, LeftWaiting(f)', ~ LeftWaiting(f)
             PROVE  FALSE
  BY DEF OnlyLateLeft
<1>1. CASE open' = open /\ woken' = woken
  BY <1>1 DEF LeftWaiting
<1>2. CASE woken' = Signalled(e) /\ f = e
  BY <1>2 DEF Signalled, EndTypeOK, LeftWaiting
<1>3. CASE /\ open' = open \/ open' = [open EXCEPT ![e] = FALSE]
           /\ woken' = Signalled(e)
           /\ f # e
  BY <1>3 DEF Signalled, EndTypeOK, LeftWaiting
<1>4. QED
  BY <1>1, <1>2, <1>3

\* mic_tcp_close, on either end: no step of it leads to accept.
LEMMA CloseKeepsWatch ==
    ASSUME EndTypeOK, NEW e \in Ends, Close(e)
    PROVE  /\ OnlyLateLeft
           /\ pc[e] \in ClosingLabels
           /\ \E label \in ClosingLabels : Goto(e, label)
<1> USE DEF Waiting, Locking, ClosingLabels
<1>1. CASE SendFin(e)
  <2>1. Goto(e, "fin") \/ Goto(e, "finlock")
    BY <1>1 DEF SendFin, SpendAttempt
  <2>2. QED
    BY <1>1, <2>1, MainKeepsWatch DEF SendFin
<1>2. CASE FinWaitStarts(e)
  BY <1>2, MainKeepsWatch DEF FinWaitStarts, WaitStarts
<1>3. CASE FinWaitFails(e)
  BY <1>3, MainKeepsWatch DEF FinWaitFails
<1>4. CASE FinAcknowledged(e)
  BY <1>4, MainKeepsWatch DEF FinAcknowledged, Wakes
<1>5. CASE FinTimesOut(e)
  BY <1>5, MainKeepsWatch DEF FinTimesOut, SpendAttempt
<1>6. CASE SendFinalAck(e)
  BY <1>6, MainKeepsWatch DEF SendFinalAck
<1>7. CASE Cleanup(e)
  BY <1>7, MainKeepsWatch DEF Cleanup
<1>8. CASE ProcessExits(e)
  BY <1>8, MainKeepsWatch DEF ProcessExits
<1>9. QED
  BY <1>1, <1>2, <1>3, <1>4, <1>5, <1>6, <1>7, <1>8 DEF Close

\* What every step of the network threads does to open, woken and pc.
LEMMA ClosingEffectsKeepWatch ==
    ASSUME EndTypeOK, NEW e \in Ends,
           NetClosing(e) \/ NetBlocks(e) \/ NetExits(e)
    PROVE  OnlyLateLeft
<1>1. CASE NetFin(e)
  BY <1>1, NetKeepsWatch DEF NetFin
<1>2. CASE NetFinAgain(e)
  BY <1>2, NetKeepsWatch DEF NetFinAgain
<1>3. CASE NetCleanup(e)
  <2>1. CASE NetFinalAck(e)
    BY <2>1, NetKeepsWatch DEF NetFinalAck
  <2>2. CASE NetShut(e)
    BY <2>2, NetKeepsWatch DEF NetShut
  <2>3. CASE NetDestroy(e)
    BY <2>3, NetKeepsWatch DEF NetDestroy
  <2>4. QED
    BY <1>3, <2>1, <2>2, <2>3 DEF NetCleanup
<1>4. CASE NetSignal(e)
  BY <1>4, NetKeepsWatch DEF NetSignal
<1>5. CASE NetBlocks(e)
  BY <1>5, NetKeepsWatch DEF NetBlocks
<1>6. CASE NetExits(e)
  BY <1>6, NetKeepsWatch DEF NetExits
<1>7. QED
  BY <1>1, <1>2, <1>3, <1>4, <1>5, <1>6 DEF NetClosing

\* The steps of the client: none touches a wait of the server.
LEMMA ClientKeepsWatch ==
    ASSUME TypeInv,
           \/ Connect \/ Send \/ Close(me) \/ ClientNet \/ ClientApplication
    PROVE  OnlyLateLeft
<1> USE TheEnds DEF TypeInv, Waiting, Locking
<1>1. CASE Connect
  <2>1. ASSUME NEW outcome, SendSyn(outcome)
        PROVE  OnlyLateLeft
    BY <2>1, MainKeepsWatch DEF SendSyn
  <2>2. CASE RecvWhileConnecting
    <3>1. Goto(me, "connack") \/ Goto(me, "synwait")
      BY <2>2 DEF RecvWhileConnecting
    <3>2. QED
      BY <2>2, <3>1, MainKeepsWatch DEF RecvWhileConnecting
  <2>3. CASE SynTimesOut
    BY <2>3, MainKeepsWatch DEF SynTimesOut
  <2>4. CASE Acknowledge
    BY <2>4, MainKeepsWatch DEF Acknowledge
  <2>5. CASE Spawn
    BY <2>5, MainKeepsWatch DEF Spawn
  <2>6. CASE SpawnFails
    BY <2>6, MainKeepsWatch DEF SpawnFails
  <2>7. CASE StartMeasuring
    BY <2>7, MainKeepsWatch DEF StartMeasuring
  <2>8. CASE SendProbe
    BY <2>8, NetKeepsWatch DEF SendProbe
  <2>9. CASE AcceptChannel
    BY <2>9, MainKeepsWatch DEF AcceptChannel
  <2>10. CASE RefuseChannel
    BY <2>10, MainKeepsWatch DEF RefuseChannel, mic_tcp_close
  <2>11. QED
    BY <1>1, <2>1, <2>2, <2>3, <2>4, <2>5, <2>6, <2>7, <2>8, <2>9, <2>10
    DEF Connect
<1>2. CASE Send
  <2>1. CASE BuildPacket
    BY <2>1, MainKeepsWatch DEF BuildPacket
  <2>2. CASE SendPacket
    <3>1. Goto(me, "idle") \/ Goto(me, "sendlock")
      BY <2>2 DEF SendPacket, Return
    <3>2. QED
      BY <2>2, <3>1, MainKeepsWatch DEF SendPacket
  <2>3. CASE SendWaitStarts
    BY <2>3, MainKeepsWatch DEF SendWaitStarts, WaitStarts
  <2>4. CASE SendWaitFails
    BY <2>4, MainKeepsWatch DEF SendWaitFails, Return
  <2>5. CASE SendWakes \/ SendTimesOut
    <3>1. Goto(me, "idle") \/ Goto(me, "build")
      BY <2>5 DEF SendWakes, SendTimesOut, Windowed, Retry, Return
    <3>2. QED
      BY <2>5, <3>1, MainKeepsWatch DEF SendWakes, SendTimesOut, Wakes
  <2>6. QED
    BY <1>2, <2>1, <2>2, <2>3, <2>4, <2>5 DEF Send
<1>3. CASE Close(me)
  BY <1>3, CloseKeepsWatch
<1>4. CASE ClientNet
  <2>1. CASE ProbeAcknowledged
    BY <2>1, NetKeepsWatch DEF ProbeAcknowledged
  <2>2. CASE ClientReceive
    BY <2>2, NetKeepsWatch DEF ClientReceive, NetReceive
  <2>3. CASE DataAcknowledged
    BY <2>3, NetKeepsWatch DEF DataAcknowledged
  <2>4. CASE NetClosing(me) \/ ListenerExits \/ ListenerBlocks
    BY <2>4, ClosingEffectsKeepWatch DEF ListenerExits, ListenerBlocks
  <2>5. ASSUME NEW outcome, Reacknowledge(outcome)
        PROVE  OnlyLateLeft
    BY <2>5, NetKeepsWatch DEF Reacknowledge
  <2>6. QED
    BY <1>4, <2>1, <2>2, <2>3, <2>4, <2>5 DEF ClientNet
<1>5. CASE ClientApplication
  <2>1. CASE CallSend
    <3>1. Goto(me, "idle") \/ Goto(me, "build")
      BY <2>1 DEF CallSend, Return
    <3>2. QED
      BY <2>1, <3>1, MainKeepsWatch DEF CallSend
  <2>2. CASE CallClose
    BY <2>2, MainKeepsWatch DEF CallClose, mic_tcp_close
  <2>3. QED
    BY <1>5, <2>1, <2>2 DEF ClientApplication
<1>6. QED
  BY <1>1, <1>2, <1>3, <1>4, <1>5

\* The steps of the server; only the wait of accept needs AcceptsAlone.
LEMMA ServerKeepsWatch ==
    ASSUME CleanupInv,
           \/ Accept \/ mic_tcp_recv \/ ServerCloses \/ Close(self) \/ ServerNet
    PROVE  OnlyLateLeft
<1> USE TheEnds DEF CleanupInv, TypeInv, Waiting, Locking
<1>a. AcceptLoop => Goto(self, "synack") \/ Goto(self, "recv")
  BY DEF AcceptLoop
<1>1. CASE Accept
  <2>1. CASE mic_tcp_bind
    BY <2>1, MainKeepsWatch DEF mic_tcp_bind
  <2>2. CASE mic_tcp_accept
    BY <2>2, MainKeepsWatch DEF mic_tcp_accept
  <2>3. CASE AcceptWaitStarts
    <3>1. open[self]
      BY <2>3 DEF AcceptWaitStarts, AcceptsAlone, Accepting
    <3>2. QED
      BY <2>3, <3>1, MainKeepsWatch DEF AcceptWaitStarts
  <2>4. CASE AcceptWakes \/ SynAckWakes \/ SynAckTimesOut
    BY <1>a, <2>4, MainKeepsWatch
    DEF AcceptWakes, SynAckWakes, SynAckTimesOut, Wakes
  <2>5. ASSUME NEW outcome, SendSynAck(outcome)
        PROVE  OnlyLateLeft
    <3>1. \/ Goto(self, "synack") \/ Goto(self, "recv")
          \/ Goto(self, "synacklock")
      BY <1>a, <2>5 DEF SendSynAck
    <3>2. QED
      BY <2>5, <3>1, MainKeepsWatch DEF SendSynAck
  <2>6. CASE SynAckWaitStarts
    BY <2>6, MainKeepsWatch DEF SynAckWaitStarts, WaitStarts
  <2>7. CASE SynAckWaitFails
    BY <2>7, MainKeepsWatch DEF SynAckWaitFails
  <2>8. CASE AcceptCrashes
    BY <2>8, MainKeepsWatch DEF AcceptCrashes
  <2>9. QED
    BY <1>1, <2>1, <2>2, <2>3, <2>4, <2>5, <2>6, <2>7, <2>8 DEF Accept
<1>2. CASE mic_tcp_recv
  <2>1. Goto(self, "close") \/ Goto(self, "recv")
    BY <1>2 DEF mic_tcp_recv
  <2>2. QED
    BY <1>2, <2>1, MainKeepsWatch DEF mic_tcp_recv
<1>3. CASE ServerCloses
  BY <1>3, MainKeepsWatch DEF ServerCloses, mic_tcp_close
<1>4. CASE Close(self)
  BY <1>4, CloseKeepsWatch
<1>5. CASE ServerNet
  <2>1. CASE ServerReceive
    BY <2>1, NetKeepsWatch DEF ServerReceive, NetReceive
  <2>2. CASE TakeData
    BY <2>2, NetKeepsWatch DEF TakeData
  <2>3. CASE SynReceived \/ AddressKnown \/ ConnectionAcknowledged
    BY <2>3, NetKeepsWatch DEF SynReceived, AddressKnown, ConnectionAcknowledged
  <2>4. CASE AnswerProbe
    BY <2>4, NetKeepsWatch DEF AnswerProbe
  <2>5. CASE NetClosing(self) \/ NetBlocks(self) \/ ListeningReturns
    BY <2>5, ClosingEffectsKeepWatch DEF ListeningReturns
  <2>6. QED
    BY <1>5, <2>1, <2>2, <2>3, <2>4, <2>5 DEF ServerNet
<1>6. QED
  BY <1>1, <1>2, <1>3, <1>4, <1>5

\* A step of the client leaves the main thread of the server where it is.
LEMMA ClientMovesAlone ==
    ASSUME TypeInv, ClientStep \/ Call
    PROVE  pc'["server"] = pc["server"]
<1> USE TheEnds DEF TypeInv
<1>1. \A label : Goto(me, label) => pc'["server"] = pc["server"]
  BY DEF Goto, EndTypeOK
<1>2. CASE Connect
  BY <1>1, <1>2
  DEF Connect, SendSyn, RecvWhileConnecting, SynTimesOut, Acknowledge, Spawn,
      SpawnFails, StartMeasuring, SendProbe, AcceptChannel, RefuseChannel,
      mic_tcp_close
<1>3. CASE Send
  BY <1>1, <1>3
  DEF Send, BuildPacket, SendPacket, SendWaitStarts, SendWaitFails, SendWakes,
      SendTimesOut, Windowed, Retry, Return
<1>4. CASE Close(me)
  BY <1>1, <1>4
  DEF Close, SendFin, FinWaitStarts, FinWaitFails, FinAcknowledged, FinTimesOut,
      SendFinalAck, Cleanup, ProcessExits, SpendAttempt
<1>5. CASE ClientNet
  BY <1>5
  DEF ClientNet, ProbeAcknowledged, ClientReceive, NetReceive,
      DataAcknowledged, NetClosing, NetFin, NetFinAgain, NetCleanup,
      NetFinalAck, NetShut, NetDestroy, NetSignal, Reacknowledge,
      ListenerExits, NetExits, ListenerBlocks, NetBlocks
<1>6. CASE ClientApplication
  BY <1>1, <1>6 DEF ClientApplication, CallSend, CallClose, Return,
      mic_tcp_close
<1>7. QED
  BY <1>2, <1>3, <1>4, <1>5, <1>6 DEF ClientStep, Call, ClientMain

\* While accept is alone the client can do nothing but send its SYN again.
LEMMA ClientLetsAcceptAlone ==
    ASSUME TypeInv, AcceptsAlone, ClientStep \/ Call
    PROVE  AcceptsAlone'
<1> USE TheEnds DEF TypeInv
<1>1. CASE pc["server"] \notin Accepting
  <2>1. pc'["server"] = pc["server"]
    BY <1>1, ClientMovesAlone DEF EndTypeOK
  <2>2. QED
    BY <1>1, <2>1 DEF AcceptsAlone
<1>2. CASE pc["server"] \in Accepting
  <2>1. /\ pc["client"] \in {"syn", "synwait"}
        /\ net["client"].at = "none" /\ inbox["client"] = <<>>
        /\ open["server"]
        /\ state["server"] \in {"CLOSED", "IDLE", "ACCEPTING", "SYN_RECEIVED"}
        /\ net["server"].at \in {"top", "blocked", "syn", "synaddr"}
        /\ \A i \in DOMAIN inbox["server"] : inbox["server"][i] = Syn
    BY <1>2 DEF AcceptsAlone
  <2>2. (\E outcome \in Outcomes : SendSyn(outcome)) \/ SynTimesOut
    BY <2>1 DEF ClientStep, Call, ClientMain, ClientNet, ClientApplication,
        Connect, Send, Close, RecvWhileConnecting, Acknowledge, Spawn,
        SpawnFails, StartMeasuring, SendProbe, AcceptChannel, RefuseChannel,
        Measured, BuildPacket, SendPacket, SendWaitStarts, SendWaitFails,
        SendWakes, SendTimesOut, SendFin, FinWaitStarts, FinWaitFails,
        FinAcknowledged, FinTimesOut, SendFinalAck, Cleanup, ProcessExits,
        CallSend, CallClose, ProbeAcknowledged, ClientReceive, NetReceive,
        DataAcknowledged, NetClosing, NetFin, NetFinAgain, NetCleanup,
        NetFinalAck, NetShut, NetDestroy, NetSignal, Reacknowledge,
        ListenerExits, NetExits, ListenerBlocks, NetBlocks
  <2>3. CASE SynTimesOut
    BY <2>1, <2>3 DEF SynTimesOut, Goto, AcceptsAlone, EndTypeOK
  <2>4. ASSUME NEW outcome \in Outcomes, SendSyn(outcome)
        PROVE  AcceptsAlone'
    <3>1. /\ pc'["client"] = "synwait" /\ net' = net /\ open' = open
          /\ state'["server"] = state["server"]
      BY <2>4 DEF SendSyn, Goto, socket_set_state, EndTypeOK
    <3>2. \/ inbox' = inbox
          \/ inbox' = [inbox EXCEPT !["server"] = Append(inbox["server"], Syn)]
      BY <2>4 DEF SendSyn, IP_send
    <3>3. /\ inbox'["client"] = <<>>
          /\ \A i \in DOMAIN inbox'["server"] : inbox'["server"][i] = Syn
      <4>1. CASE inbox' = inbox
        BY <2>1, <4>1
      <4>2. CASE inbox' = [inbox EXCEPT !["server"] = Append(inbox["server"], Syn)]
        <5>1. /\ inbox'["client"] = <<>>
              /\ inbox'["server"] = Append(inbox["server"], Syn)
          BY <2>1, <4>2 DEF EndTypeOK
        <5>2. inbox["server"] \in Seq(Pdus) /\ Syn \in Pdus
          BY ControlPdus DEF EndTypeOK
        <5> HIDE DEF Syn
        <5>3. \A i \in DOMAIN Append(inbox["server"], Syn) :
                Append(inbox["server"], Syn)[i] = Syn
          BY <2>1, <5>2, AppendProperties
        <5>4. QED
          BY <5>1, <5>3
      <4>3. QED
        BY <3>2, <4>1, <4>2
    <3>4. QED
      BY <2>1, <3>1, <3>3 DEF AcceptsAlone
  <2>5. QED
    BY <2>2, <2>3, <2>4
<1>3. QED
  BY <1>1, <1>2

\* On its side accept only leaves the states of the listening phase once it was
\* woken, and the network thread only meets SYNs.
LEMMA ServerLetsAcceptAlone ==
    ASSUME TypeInv, AcceptsAlone, ServerStep
    PROVE  AcceptsAlone'
<1> USE TheEnds DEF TypeInv
<1>1. \A label : Goto(self, label) => pc'["server"] = label /\ pc'["client"] = pc["client"]
  BY DEF Goto, EndTypeOK
<1>2. CASE Accept /\ UNCHANGED clientVars
  <2>1. CASE mic_tcp_bind
    <3>1. /\ pc["server"] \in Accepting
          /\ state' = [state EXCEPT !["server"] = "IDLE"]
      BY <2>1 DEF mic_tcp_bind, Accepting, socket_set_state
    <3>2. state'["server"] = "IDLE"
      BY <3>1 DEF EndTypeOK
    <3>3. QED
      BY <1>1, <2>1, <3>1, <3>2 DEF mic_tcp_bind, AcceptsAlone
  <2>2. CASE mic_tcp_accept
    <3>1. /\ pc["server"] \in Accepting
          /\ state' = [state EXCEPT !["server"] = "ACCEPTING"]
      BY <2>2 DEF mic_tcp_accept, Accepting, socket_set_state
    <3>2. state'["server"] = "ACCEPTING"
      BY <3>1 DEF EndTypeOK
    <3>3. QED
      BY <1>1, <2>2, <3>1, <3>2 DEF mic_tcp_accept, AcceptsAlone
  <2>3. CASE AcceptWaitStarts
    <3>1. pc["server"] \in Accepting
      BY <2>3 DEF AcceptWaitStarts, Accepting
    <3>2. QED
      BY <1>1, <2>3, <3>1 DEF AcceptWaitStarts, AcceptsAlone
  <2>4. CASE /\ ~ mic_tcp_bind /\ ~ mic_tcp_accept /\ ~ AcceptWaitStarts
    <3>1. \E label \in {"synack", "recv", "synacklock", "synackwait", "failed",
                        "exited"} :
            Goto(self, label)
      BY <1>2, <2>4
      DEF Accept, AcceptWakes, SendSynAck, AcceptCrashes, SynAckWaitStarts,
          SynAckWaitFails, SynAckWakes, SynAckTimesOut, AcceptLoop
    <3>2. QED
      BY <1>1, <3>1 DEF AcceptsAlone, Accepting
  <2>5. QED
    BY <2>1, <2>2, <2>3, <2>4
<1>3. CASE mic_tcp_recv \/ ServerCloses
  <2>1. Goto(self, "close") \/ Goto(self, "recv") \/ Goto(self, "fin")
    BY <1>3 DEF mic_tcp_recv, ServerCloses, mic_tcp_close
  <2>2. QED
    BY <1>1, <2>1 DEF AcceptsAlone, Accepting
<1>4. CASE Close(self)
  <2>1. \E label \in {"fin", "finlock", "finwait", "finalack", "join", "closed",
                      "failed", "exited"} : Goto(self, label)
    BY <1>4
    DEF Close, SendFin, FinWaitStarts, FinWaitFails, FinAcknowledged,
        FinTimesOut, SendFinalAck, Cleanup, ProcessExits, SpendAttempt
  <2>2. QED
    BY <1>1, <2>1 DEF AcceptsAlone, Accepting
<1>5. CASE ServerNet /\ UNCHANGED clientVars
  <2>1. pc' = pc
    BY <1>5
    DEF ServerNet, ServerReceive, NetReceive, TakeData, SynReceived,
        AddressKnown, ConnectionAcknowledged, AnswerProbe, NetClosing, NetFin,
        NetFinAgain, NetCleanup, NetFinalAck, NetShut, NetDestroy, NetSignal,
        NetBlocks, ListeningReturns, NetExits
  <2>2. CASE pc["server"] \notin Accepting
    BY <2>1, <2>2 DEF AcceptsAlone
  <2>3. CASE pc["server"] \in Accepting
    <3>1. /\ pc["client"] \in {"syn", "synwait"}
          /\ net["client"].at = "none" /\ inbox["client"] = <<>>
          /\ open["server"]
          /\ state["server"] \in {"CLOSED", "IDLE", "ACCEPTING", "SYN_RECEIVED"}
          /\ net["server"].at \in {"top", "blocked", "syn", "synaddr"}
          /\ \A i \in DOMAIN inbox["server"] : inbox["server"][i] = Syn
      BY <2>3 DEF AcceptsAlone
    <3>2. ServerReceive \/ SynReceived \/ AddressKnown \/ NetBlocks(self)
      BY <1>5, <3>1
      DEF ServerNet, TakeData, ConnectionAcknowledged, AnswerProbe, NetClosing,
          NetFin, NetFinAgain, NetCleanup, NetFinalAck, NetShut, NetDestroy,
          NetSignal, ListeningReturns
    <3>3. CASE SynReceived
      <4>1. /\ state'["server"] = "SYN_RECEIVED"
            /\ net'["server"].at = "synaddr" /\ net'["client"] = net["client"]
        BY <3>3 DEF SynReceived, socket_set_state, EndTypeOK
      <4>2. open' = open /\ inbox' = inbox
        BY <3>3 DEF SynReceived
      <4>3. QED
        BY <2>1, <3>1, <4>1, <4>2 DEF AcceptsAlone
    <3>4. CASE AddressKnown
      <4>1. net'["server"].at = "top" /\ net'["client"] = net["client"]
        BY <3>4 DEF AddressKnown, NetDone, NetAt, EndTypeOK
      <4>2. open' = open /\ inbox' = inbox /\ state' = state
        BY <3>4 DEF AddressKnown
      <4>3. QED
        BY <2>1, <3>1, <4>1, <4>2 DEF AcceptsAlone
    <3>5. CASE NetBlocks(self)
      <4>1. net'["server"].at = "blocked" /\ net'["client"] = net["client"]
        BY <3>5 DEF NetBlocks, NetAt, EndTypeOK
      <4>2. open' = open /\ inbox' = inbox /\ state' = state
        BY <3>5 DEF NetBlocks
      <4>3. QED
        BY <2>1, <3>1, <4>1, <4>2 DEF AcceptsAlone
    <3>6. CASE ServerReceive
      <4> DEFINE pdu == Head(inbox["server"])
      <4>1. inbox["server"] \in Seq(Pdus) /\ inbox["server"] # <<>>
        BY <3>6 DEF ServerReceive, EndTypeOK
      <4>2. pdu = Syn
        BY <3>1, <4>1, HeadTailProperties
      <4>3. ServerEffect(pdu) \in {"top", "syn"}
        <5>1. ~ Carries(pdu, {"FIN"}) /\ ~ Carries(pdu, {"ACK"})
          BY <4>2
          DEF Carries, verify_pdu, Syn, create_nopayload_pdu, create_pdu
        <5>2. QED
          BY <3>1, <5>1 DEF ServerEffect
      <4>4. /\ net'["server"].at \in {"top", "syn"}
            /\ net'["client"] = net["client"]
        BY <3>6, <4>3 DEF ServerReceive, NetReceive, NetAt, EndTypeOK
      <4>5. /\ inbox'["server"] = Tail(inbox["server"])
            /\ inbox'["client"] = inbox["client"]
        BY <3>6 DEF ServerReceive, NetReceive, EndTypeOK
      <4>6. \A i \in DOMAIN Tail(inbox["server"]) : Tail(inbox["server"])[i] = Syn
        <5> HIDE DEF Syn
        <5>1. QED
          BY <3>1, <4>1, HeadTailProperties, LenProperties
      <4>7. open' = open /\ state' = state
        BY <3>6 DEF ServerReceive, NetReceive
      <4>8. QED
        BY <2>1, <3>1, <4>4, <4>5, <4>6, <4>7 DEF AcceptsAlone
    <3>7. QED
      BY <3>2, <3>3, <3>4, <3>5, <3>6
  <2>4. QED
    BY <2>2, <2>3
<1>6. QED
  BY <1>2, <1>3, <1>4, <1>5 DEF ServerStep, ServerMain

LEMMA CleanupInvIsInductive ==
    /\ Init \/ InitConnected => CleanupInv
    /\ CleanupInv /\ [Next]_vars => CleanupInv'
<1>1. ASSUME Init \/ InitConnected
      PROVE  CleanupInv
  <2>1. TypeInv
    BY <1>1, InitialTypes
  <2>2. AcceptsAlone
    BY <1>1
    DEF Init, InitConnected, InitShared, Both, AcceptsAlone, Accepting, NetAt, Ends
  <2>3. QED
    BY <2>1, <2>2 DEF CleanupInv
<1>2. ASSUME CleanupInv, [Next]_vars
      PROVE  CleanupInv'
  <2>1. TypeInv'
    BY <1>2, StepsKeepTypes DEF CleanupInv
  <2>2. CASE ClientStep \/ Call
    BY <1>2, <2>1, <2>2, ClientLetsAcceptAlone DEF CleanupInv
  <2>3. CASE ServerStep
    BY <1>2, <2>1, <2>3, ServerLetsAcceptAlone DEF CleanupInv
  <2>4. CASE UNCHANGED vars
    BY <1>2, <2>1, <2>4 DEF CleanupInv, AcceptsAlone, vars, endVars
  <2>5. QED
    BY <1>2, <2>2, <2>3, <2>4 DEF Next
<1>3. QED
  BY <1>1, <1>2

LEMMA EveryStepKeepsWatch ==
    ASSUME CleanupInv, [Next]_vars
    PROVE  [OnlyLateLeft]_endVars
<1>1. CASE ClientStep \/ Call
  <2>1. Connect \/ Send \/ Close(me) \/ ClientNet \/ ClientApplication
    BY <1>1 DEF ClientStep, Call, ClientMain
  <2>2. QED
    BY <2>1, ClientKeepsWatch DEF CleanupInv
<1>2. CASE ServerStep
  <2>1. Accept \/ mic_tcp_recv \/ ServerCloses \/ Close(self) \/ ServerNet
    BY <1>2 DEF ServerStep, ServerMain
  <2>2. QED
    BY <2>1, ServerKeepsWatch
<1>3. CASE UNCHANGED vars
  BY <1>3 DEF vars
<1>4. QED
  BY <1>1, <1>2, <1>3 DEF Next

\* socket_cleanup, from either thread and between any two steps of the other one,
\* leaves no main thread waiting without a signal but one whose wait, which has a
\* deadline, began after the signal.
THEOREM OnlyLateWaitersAreLeftBehind == Spec => OnlyLateWaitersAreLeft
<1>1. Init => CleanupInv
  BY CleanupInvIsInductive
<1>2. CleanupInv /\ [Next]_vars => CleanupInv'
  BY CleanupInvIsInductive
<1>3. CleanupInv /\ [Next]_vars
        => [ \A e \in Ends :
               LeftWaiting(e)' /\ ~ LeftWaiting(e) =>
                 pc[e] \in Locking /\ pc'[e] # "acceptwait" ]_endVars
  BY EveryStepKeepsWatch DEF OnlyLateLeft
<1>4. QED
  BY <1>1, <1>2, <1>3, PTL DEF Spec, OnlyLateWaitersAreLeft

=============================================================================
