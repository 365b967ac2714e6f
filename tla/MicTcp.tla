------------------------------- MODULE MicTcp -------------------------------
(***************************************************************************)
(* A MIC-TCP client and a MIC-TCP server joined by the UDP channel: four   *)
(* threads, two receive queues. Init starts both programs; InitConnected   *)
(* starts after mic_tcp_accept and mic_tcp_connect have returned 0 and     *)
(* nothing is left under way, for the runs that are about the data.        *)
(***************************************************************************)
EXTENDS Client, Server, Functions

CONSTANT Measures   \* received_packets when a connected run starts

ASSUME MeasuresAssumption ==
    \A n \in Measures :
      /\ n \in 0 .. MESURING_RELIABILITY_PACKET_NUMBER
      /\ ~ TooUnreliable(n, MESURING_RELIABILITY_PACKET_NUMBER)

vars == <<endVars, clientVars, serverVars>>

Both(c, s) == [e \in Ends |-> IF e = "client" THEN c ELSE s]

InitShared ==
    /\ open = Both(TRUE, TRUE)
    /\ lock = Both(TRUE, TRUE)
    /\ woken = Both(FALSE, FALSE)
    /\ attempts = Both(0, 0)
    /\ inbox = Both(<<>>, <<>>)
    /\ sliding_window = {}
    /\ packet = [seq_num |-> 0, expected_ack_num |-> 0]
    /\ results = <<>>
    /\ delivered = <<>>
    /\ nread = 0

\* allocate_new_socket on both ends; the server listens from then on.
Init ==
    /\ InitShared
    /\ state = Both("CLOSED", "CLOSED")
    /\ seq = Both(0, 0)
    /\ pc = Both("syn", "bind")
    /\ net = Both(NetAt("none", NoPdu), NetAt("top", NoPdu))
    /\ received_packets = 0
    /\ tolerance = 0
    /\ probes = 0
    /\ scratch = NoPayload

InitConnected ==
    /\ InitShared
    /\ state = Both("ESTABLISHED", "ESTABLISHED")
    /\ seq = Both(1, 1)
    /\ pc = Both("idle", "recv")
    /\ net = Both(NetAt("blocked", NoPdu), NetAt("blocked", NoPdu))
    /\ received_packets \in Measures
    /\ tolerance = ConsecutiveLoss(received_packets,
                                   MESURING_RELIABILITY_PACKET_NUMBER)
    /\ probes = MESURING_RELIABILITY_PACKET_NUMBER
    /\ scratch = MESURING_PAYLOAD

ClientStep == (ClientMain \/ ClientNet) /\ UNCHANGED serverVars
ServerStep == (ServerMain \/ ServerNet) /\ UNCHANGED clientVars
Call == ClientApplication /\ UNCHANGED serverVars

Next == ClientStep \/ ServerStep \/ Call

Spec == Init /\ [][Next]_vars
SpecConnected == InitConnected /\ [][Next]_vars

(***************************************************************************)
(* Each thread runs when it can and each timed wait ends. Nobody owes a    *)
(* call: a client may sit between two calls for ever. A PDU that is sent   *)
(* again and again is not lost each time.                                  *)
(***************************************************************************)
Threads ==
    /\ WF_vars(ClientMain /\ UNCHANGED serverVars)
    /\ WF_vars(ClientNet /\ UNCHANGED serverVars)
    /\ WF_vars(ServerMain /\ UNCHANGED clientVars)
    /\ WF_vars(ServerNet /\ UNCHANGED clientVars)

Channel ==
    /\ SF_vars(SendSyn("sent") /\ UNCHANGED serverVars)
    /\ SF_vars(SendSynAck("sent") /\ UNCHANGED clientVars)
    /\ SF_vars(/\ Reacknowledge("sent")
               /\ UNCHANGED <<clientVars, serverVars>>)

FairSpec == Spec /\ Threads /\ Channel
FairSpecConnected == SpecConnected /\ Threads

\* For mic_tcp_close it is enough that the thread that closes runs, whatever the
\* other three do or leave undone.
Closers ==
    \A e \in Ends : WF_vars(Close(e) /\ UNCHANGED <<clientVars, serverVars>>)
ClosingSpec == SpecConnected /\ Closers

------------------------------------------------------------------------------

Labels ==
    {"syn", "synwait", "connack", "spawn", "measuring", "probe", "idle",
     "build", "send", "sendlock", "sendwait",
     "bind", "accept", "acceptlock", "acceptwait", "synack", "synacklock",
     "synackwait", "recv", "close",
     "fin", "finlock", "finwait", "finalack", "join", "closed", "failed",
     "exited"}

NetLabels ==
    {"none", "top", "blocked", "exited", "fin", "finack", "cleanup", "shut",
     "destroy", "signal", "reack", "probeack", "dataack", "syn", "synaddr",
     "connack", "probe", "data"}

Payloads == {MESURING_PAYLOAD} \cup Nat
Pdus == mic_tcp_pdu(Payloads)

EndTypeOK ==
    /\ state \in [Ends -> protocol_state]
    /\ seq \in [Ends -> Nat]
    /\ open \in [Ends -> BOOLEAN]
    /\ lock \in [Ends -> BOOLEAN]
    /\ pc \in [Ends -> Labels]
    /\ woken \in [Ends -> BOOLEAN]
    /\ attempts \in [Ends -> 0 .. MAX_ATTEMPTS]
    /\ net \in [Ends -> [at : NetLabels, pdu : Pdus]]
    /\ inbox \in [Ends -> Seq(Pdus)]

ClientTypeOK ==
    /\ received_packets \in Nat
    /\ sliding_window \subseteq Positions(sliding_window_size)
    /\ tolerance \in 0 .. 3
    /\ probes \in 0 .. MESURING_RELIABILITY_PACKET_NUMBER
    /\ packet \in [seq_num : Nat, expected_ack_num : Nat]
    /\ results \in Seq(SendEnds)

ServerTypeOK ==
    /\ scratch \in Payloads
    /\ delivered \in Seq(Payloads)
    /\ nread \in 0 .. Len(delivered)

\* An attempt that waits for its FIN+ACK is not spent yet.
AttemptsLeft ==
    \A e \in Ends : pc[e] \in {"finlock", "finwait"} => attempts[e] < MAX_ATTEMPTS

\* The values of every variable, with the count of the attempts that makes them
\* inductive: the loop of mic_tcp_close never goes past MAX_ATTEMPTS, whichever
\* way an attempt ends.
TypeInv == EndTypeOK /\ ClientTypeOK /\ ServerTypeOK /\ AttemptsLeft

(***************************************************************************)
(* The connection.                                                         *)
(***************************************************************************)
ClosingLabels ==
    {"fin", "finlock", "finwait", "finalack", "join", "closed", "failed",
     "exited"}

Connected == pc["client"] \in {"idle", "build", "send", "sendlock", "sendwait"}

\* The server sets current_seq_num to 1 when the handshake ends (and adds to it).
ServerEstablished == seq["server"] > 0

Down == {"AWAITING_CLOSING", "CLOSING", "CLOSED"}

\* mic_tcp_connect never returns 0 on a connection the server does not have: the
\* ACK of the handshake may be lost, but not every probe after it unanswered.
ConnectMeansEstablished == Connected => ServerEstablished

\* mic_tcp_accept only returns 0 on a connection that is established, or that the
\* client already takes down: no timeout and no repeated PDU ends its loop.
AcceptOutcome ==
    pc["server"] = "recv" => ServerEstablished \/ state["server"] \in Down

\* mic_tcp_accept never answers a SYN to an address the network thread has not
\* written yet, although the state it tests is set before and without a lock:
\* the signal comes last (and no wait returns without one).
SynAckHasAddress == pc["server"] = "synack" => net["server"].at # "synaddr"

InFlight(e, Test(_)) ==
    Cardinality({ i \in DOMAIN inbox[e] : Test(inbox[e][i]) })
      + (IF Test(net[e].pdu) THEN 1 ELSE 0)

\* The reliability measured is never above 100%: what received_packets counts
\* are answers to probes, each counted once, whatever else is acknowledged.
EachProbeCountsOnce ==
    received_packets
      + InFlight("server", LAMBDA pdu : pdu.data = MESURING_PAYLOAD)
      + (IF pc["client"] \in {"measuring", "probe"}
         THEN InFlight("client", LAMBDA pdu : Carries(pdu, {"ACK"})) ELSE 0)
    <= probes

\* Once a side of the connection is taken down on the server, no PDU and no call
\* brings the socket back.
NoReopening ==
    [][ state["server"] \in Down /\ ServerEstablished =>
          state'["server"] \in Down ]_state

\* A main thread that waits on what socket_cleanup takes away, and not signalled.
LeftWaiting(e) == pc[e] \in Waiting /\ ~ open[e] /\ ~ woken[e]

\* socket_cleanup wakes whom it finds waiting, whichever call that is. It signals
\* without the lock, so that a wait may begin after the signal and be left, but
\* only then, and that one has a deadline: it is never the wait of accept.
OnlyLateWaitersAreLeft ==
    [][ \A e \in Ends :
          LeftWaiting(e)' /\ ~ LeftWaiting(e) =>
            pc[e] \in Locking /\ pc'[e] # "acceptwait" ]_endVars

\* When accept waits and no SYN came before it did, a client that keeps
\* connecting gets through the handshake, and accept too unless that client has
\* begun to close, whatever the channel loses.
HandshakeCompletes ==
    /\ (/\ pc["server"] = "acceptwait" /\ state["server"] = "ACCEPTING"
        /\ pc["client"] \in {"syn", "synwait"})
         ~> pc["client"] \notin {"syn", "synwait"}
    /\ pc["server"] = "synack"
         ~> (pc["server"] = "recv" \/ pc["client"] \in ClosingLabels)

\* mic_tcp_close gets past its exchange of FINs, answered or not.
CloseGivesUp ==
    \A e \in Ends :
      pc[e] = "fin" ~> pc[e] \in {"join", "closed", "failed", "exited"}

(***************************************************************************)
(* The data, once connected.                                               *)
(***************************************************************************)
Ended(ends) == { m \in DOMAIN results : results[m] \in ends }

Undelivered == DOMAIN results \ Range(delivered)

\* Every message the application loses is paid for by a call of mic_tcp_send
\* that did not return msg_size. A loss may hit another message than the one it
\* was accepted for (an acknowledgement was lost, and the next message carries
\* an old number), but never makes two.
LossBudget == Cardinality(Undelivered) <= Cardinality(Ended({"lost", "error"}))

Service == INSTANCE Transfer

\* From a fresh start to the end of the stream, messages come out in the order of
\* the calls and none is invented: neither a retransmission nor a late packet
\* overtakes, although a number taken back to 0 or sent a second time for another
\* message tells the server nothing of the order.
DeliversInOrder == Service!Spec

\* On a connection the two ends also lose no more than the calls say.
ImplementsTransfer == Service!BudgetedSpec

\* Stop and wait: the server is at the number of the client or one ahead, so a
\* number accepted is never sent again for another message that is accepted.
ServerAtMostOneAhead ==
    /\ seq["client"] <= seq["server"]
    /\ seq["server"] <= seq["client"] + 1

\* The sends the window stands for: position 0 is the last of those that shifted
\* it, and every later one has moved a send by one position.
ShiftsSince(m) == Cardinality({ k \in DOMAIN results : k > m /\ results[k] # "error" })
LostPositions ==
    { ShiftsSince(m) : m \in Ended({"lost"}) } \cap Positions(sliding_window_size)

Policy == INSTANCE LossPolicy WITH
              lost <- LostPositions,
              sliding_window_consecutive_loss <- tolerance,
              Tolerances <- 0 .. 3

\* Partial reliability on the wire: what the sends of a connection do to the
\* window is what LossPolicy allows.
ImplementsLossPolicy == Policy!Spec
=============================================================================

