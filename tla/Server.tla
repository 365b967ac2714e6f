------------------------------- MODULE Server -------------------------------
(***************************************************************************)
(* The server end: mic_tcp_bind, mic_tcp_accept and mic_tcp_recv in the    *)
(* main thread, process_server_PDU in the thread that initialize_components*)
(* starts with the socket. It serves one connection.                       *)
(***************************************************************************)
EXTENDS Endpoint

CONSTANTS
    EndOfStream,    \* the message of size 0 the gateway sends last, or NoPayload
    LikeProbe       \* messages whose text is "mesure"

ASSUME ServerAssumption ==
    /\ EndOfStream \in Nat
    /\ LikeProbe \subseteq Nat

VARIABLES
    scratch,        \* the last bytes the payload buffer was filled with
    delivered,      \* history: the messages given to app_buffer_put
    nread           \* how many of them mic_tcp_recv has taken

serverVars == <<scratch, delivered, nread>>

self == "server"

(***************************************************************************)
(* The main thread.                                                        *)
(***************************************************************************)
mic_tcp_bind ==
    /\ pc[self] = "bind"
    /\ socket_set_state(self, "IDLE")
    /\ Goto(self, "accept")
    /\ UNCHANGED <<seq, open, lock, woken, attempts, net, inbox, serverVars>>

mic_tcp_accept ==
    /\ pc[self] = "accept"
    /\ socket_set_state(self, "ACCEPTING")
    /\ Goto(self, "acceptlock")
    /\ UNCHANGED <<seq, open, lock, woken, attempts, net, inbox, serverVars>>

\* There is no predicate: a SYN that came first has already signalled in vain.
AcceptWaitStarts ==
    /\ pc[self] = "acceptlock"
    /\ Goto(self, "acceptwait")
    /\ UNCHANGED <<state, seq, open, lock, woken, attempts, net, inbox,
                   serverVars>>

\* Mutant: the SYN+ACK is sent at most once more.
AcceptOnce == Goto(self, "recv")

\* while (sock->state == SYN_RECEIVED); mic_tcp_accept returns 0 after it.
AcceptLoop ==
    Goto(self, IF state[self] = "SYN_RECEIVED" THEN "synack" ELSE "recv")

AcceptWakes ==
    /\ pc[self] = "acceptwait" /\ Wakes(self)
    /\ AcceptLoop
    /\ UNCHANGED <<state, seq, open, lock, attempts, net, inbox, serverVars>>

SendSynAck(outcome) ==
    /\ pc[self] = "synack"
    /\ outcome = "sent" => net[self].at # "synaddr"
    /\ IP_send(self, SynAck, outcome)
    /\ IF outcome = "error" THEN AcceptLoop ELSE Goto(self, "synacklock")
    /\ UNCHANGED <<state, seq, open, lock, woken, attempts, net, serverVars>>

\* There is no remote_addr yet: IP_send follows a null pointer in gethostbyname.
AcceptCrashes ==
    /\ pc[self] = "synack" /\ net[self].at = "synaddr"
    /\ Goto(self, "exited")
    /\ open' = [open EXCEPT ![self] = FALSE]
    /\ net' = [net EXCEPT ![self] = NetAt("exited", NoPdu)]
    /\ UNCHANGED <<state, seq, lock, woken, attempts, inbox, serverVars>>

SynAckWaitStarts ==
    /\ pc[self] = "synacklock" /\ WaitStarts(self)
    /\ Goto(self, "synackwait")
    /\ UNCHANGED <<state, seq, open, lock, woken, attempts, net, inbox,
                   serverVars>>

SynAckWaitFails ==
    /\ pc[self] = "synacklock" /\ WaitRefused(self)
    /\ Goto(self, "failed")
    /\ UNCHANGED <<state, seq, open, lock, woken, attempts, net, inbox,
                   serverVars>>

SynAckWakes ==
    /\ pc[self] = "synackwait" /\ Wakes(self)
    /\ AcceptLoop
    /\ UNCHANGED <<state, seq, open, lock, attempts, net, inbox, serverVars>>

SynAckTimesOut ==
    /\ pc[self] = "synackwait" /\ MayTimeOut(self)
    /\ AcceptLoop
    /\ UNCHANGED <<state, seq, open, lock, woken, attempts, net, inbox,
                   serverVars>>

Accept ==
    \/ mic_tcp_bind \/ mic_tcp_accept \/ AcceptWaitStarts \/ AcceptWakes
    \/ \E outcome \in SendResults : SendSynAck(outcome)
    \/ AcceptCrashes
    \/ SynAckWaitStarts \/ SynAckWaitFails \/ SynAckWakes \/ SynAckTimesOut

\* The application buffer is what was delivered and not read yet. The gateway
\* closes when it reads a message of size 0.
mic_tcp_recv ==
    /\ pc[self] = "recv" /\ nread < Len(delivered)
    /\ nread' = nread + 1
    /\ Goto(self, IF delivered[nread + 1] = EndOfStream THEN "close" ELSE "recv")
    /\ UNCHANGED <<state, seq, open, lock, woken, attempts, net, inbox, scratch,
                   delivered>>

ServerCloses ==
    /\ pc[self] = "close"
    /\ mic_tcp_close(self)
    /\ UNCHANGED <<seq, open, lock, woken, net, inbox, serverVars>>

ServerMain ==
    \/ Accept \/ mic_tcp_recv \/ ServerCloses
    \/ Close(self) /\ UNCHANGED serverVars

(***************************************************************************)
(* process_server_PDU. An empty payload leaves the bytes of the one before *)
(* in the buffer, and those are what strcmp compares with "mesure".        *)
(***************************************************************************)
Text(pdu) == IF pdu.data \in {NoPayload, EndOfStream} THEN scratch ELSE pdu.data

IsProbe(pdu) == Text(pdu) \in {MESURING_PAYLOAD} \cup LikeProbe

\* Mutant: a closing connection takes an ACK for the one of the handshake.
ServerEffectFallingThrough(pdu) ==
    IF state[self] # "AWAITING_CLOSING" /\ Carries(pdu, {"FIN"}) THEN "fin"
    ELSE CASE state[self] = "ACCEPTING" ->
                IF Carries(pdu, {"SYN"}) THEN "syn" ELSE "top"
           [] state[self] \in {"SYN_RECEIVED", "AWAITING_CLOSING"} ->
                IF Carries(pdu, {"ACK"}) THEN "connack" ELSE "top"
           [] state[self] = "ESTABLISHED" ->
                IF ~ Carries(pdu, {}) THEN "top"
                ELSE IF IsProbe(pdu) THEN "probe" ELSE "data"
           [] state[self] = "CLOSING" -> ClosingEffect(pdu)
           [] OTHER -> "top"

ServerEffect(pdu) ==
    IF state[self] # "AWAITING_CLOSING" /\ Carries(pdu, {"FIN"}) THEN "fin"
    ELSE CASE state[self] = "ACCEPTING" ->
                IF Carries(pdu, {"SYN"}) THEN "syn" ELSE "top"
           [] state[self] = "SYN_RECEIVED" ->
                IF Carries(pdu, {"ACK"}) THEN "connack" ELSE "top"
           [] state[self] = "ESTABLISHED" ->
                IF ~ Carries(pdu, {}) THEN "top"
                ELSE IF IsProbe(pdu) THEN "probe" ELSE "data"
           [] state[self] = "AWAITING_CLOSING" -> AwaitingClosingEffect(pdu)
           [] state[self] = "CLOSING" -> ClosingEffect(pdu)
           [] OTHER -> "top"

ServerReceive ==
    /\ inbox[self] # <<>>
    /\ NetReceive(self, ServerEffect(Head(inbox[self])))
    /\ scratch' = Text(Head(inbox[self]))
    /\ UNCHANGED <<delivered, nread>>

\* Mutant: the signal comes with the state, before the address.
SynReceivedAndSignalled ==
    /\ net[self].at = "syn"
    /\ socket_set_state(self, "SYN_RECEIVED")
    /\ woken' = Signalled(self)
    /\ net' = [net EXCEPT ![self].at = "synaddr"]
    /\ UNCHANGED <<seq, open, lock, pc, attempts, inbox>>

SynReceived ==
    /\ net[self].at = "syn"
    /\ socket_set_state(self, "SYN_RECEIVED")
    /\ net' = [net EXCEPT ![self].at = "synaddr"]
    /\ UNCHANGED <<seq, open, lock, pc, woken, attempts, inbox>>

\* Mutant: the SYN is not signalled to mic_tcp_accept.
AddressInSilence ==
    /\ net[self].at = "synaddr"
    /\ NetDone(self)
    /\ UNCHANGED <<state, seq, open, lock, pc, woken, attempts, inbox>>

\* sock->remote_addr, and the signal.
AddressKnown ==
    /\ net[self].at = "synaddr"
    /\ woken' = Signalled(self)
    /\ NetDone(self)
    /\ UNCHANGED <<state, seq, open, lock, pc, attempts, inbox>>

ConnectionAcknowledged ==
    /\ net[self].at = "connack"
    /\ socket_set_state(self, "ESTABLISHED")
    /\ seq' = [seq EXCEPT ![self] = 1]
    /\ woken' = Signalled(self)
    /\ NetDone(self)
    /\ UNCHANGED <<open, lock, pc, attempts, inbox>>

AnswerProbe ==
    /\ net[self].at = "probe"
    /\ \E outcome \in SendResults : IP_send(self, Ack(0), outcome)
    /\ NetDone(self)
    /\ UNCHANGED <<state, seq, open, lock, pc, woken, attempts>>

\* Mutant: data is accepted whatever its sequence number.
TakeAnyData ==
    LET pdu == net[self].pdu
    IN  /\ net[self].at = "data"
        /\ seq' = [seq EXCEPT ![self] = @ + 1]
        /\ delivered' = Append(delivered, pdu.data)
        /\ \E outcome \in SendResults : IP_send(self, Ack(seq[self] + 1), outcome)
        /\ NetDone(self)
        /\ UNCHANGED <<state, open, lock, pc, woken, attempts, scratch, nread>>

\* Mutant: the message goes to the head of the application buffer.
TakeDataAtHead ==
    LET pdu      == net[self].pdu
        accepted == verify_pdu(pdu, {}, seq[self], 0)
        next     == IF accepted THEN seq[self] + 1 ELSE seq[self]
    IN  /\ net[self].at = "data"
        /\ seq' = [seq EXCEPT ![self] = next]
        /\ delivered' = IF accepted THEN <<pdu.data>> \o delivered ELSE delivered
        /\ \E outcome \in SendResults : IP_send(self, Ack(next), outcome)
        /\ NetDone(self)
        /\ UNCHANGED <<state, open, lock, pc, woken, attempts, scratch, nread>>

\* Whether the packet was the one expected or not, the acknowledgement asks for
\* the next one.
TakeData ==
    LET pdu      == net[self].pdu
        accepted == verify_pdu(pdu, {}, seq[self], 0)
        next     == IF accepted THEN seq[self] + 1 ELSE seq[self]
    IN  /\ net[self].at = "data"
        /\ seq' = [seq EXCEPT ![self] = next]
        /\ delivered' = IF accepted THEN Append(delivered, pdu.data) ELSE delivered
        /\ \E outcome \in SendResults : IP_send(self, Ack(next), outcome)
        /\ NetDone(self)
        /\ UNCHANGED <<state, open, lock, pc, woken, attempts, scratch, nread>>

ListeningReturns == ~ open[self] /\ NetExits(self)

ServerNet ==
    \/ ServerReceive \/ TakeData
    \/ /\ \/ SynReceived \/ AddressKnown
          \/ ConnectionAcknowledged \/ AnswerProbe
          \/ NetClosing(self) \/ NetBlocks(self) \/ ListeningReturns
       /\ UNCHANGED serverVars
=============================================================================
