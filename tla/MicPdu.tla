------------------------------- MODULE MicPdu -------------------------------
(***************************************************************************)
(* The MIC-TCP protocol data unit: what create_nopayload_pdu builds and    *)
(* what verify_pdu accepts (src/mictcp/mictcp_pdu.c), and the protocol     *)
(* states of a socket (include/mictcp/mictcp.h).                           *)
(*                                                                         *)
(* The three one-bit header fields are the set of the flags that are on.   *)
(* Ports are left out: no handler of the protocol ever looks at them.      *)
(***************************************************************************)
EXTENDS Integers

protocol_state ==
    {"IDLE", "CLOSED", "SYN_SENT", "MEASURING_RELIABILITY", "ACCEPTING",
     "SYN_RECEIVED", "ESTABLISHED", "CLOSING", "AWAITING_CLOSING"}

Flags == SUBSET {"SYN", "ACK", "FIN"}

\* A payload is the number of an application message (1, 2, ...), nothing, or
\* the measuring text "mesure", which only mic_tcp_connect sends on its own.
NoPayload == 0
MESURING_PAYLOAD == -1

mic_tcp_pdu(Payloads) ==
    [flags : Flags, seq_num : Nat, ack_num : Nat, data : Payloads]

create_pdu(flags, seq_num, ack_num, data) ==
    [flags |-> flags, seq_num |-> seq_num, ack_num |-> ack_num, data |-> data]

create_nopayload_pdu(flags, seq_num, ack_num) ==
    create_pdu(flags, seq_num, ack_num, NoPayload)

\* Zero in seq_num or ack_num means "any"; ack_num is only looked at when the
\* ACK flag is expected.
verify_pdu(pdu, flags, seq_num, ack_num) ==
    /\ pdu.flags = flags
    /\ "ACK" \in flags => ack_num \in {0, pdu.ack_num}
    /\ seq_num \in {0, pdu.seq_num}

\* The control PDUs of the two handlers, all with zero numbers.
Syn    == create_nopayload_pdu({"SYN"}, 0, 0)
SynAck == create_nopayload_pdu({"SYN", "ACK"}, 0, 0)
Fin    == create_nopayload_pdu({"FIN"}, 0, 0)
FinAck == create_nopayload_pdu({"FIN", "ACK"}, 0, 0)
Ack(n) == create_nopayload_pdu({"ACK"}, 0, n)

\* "The PDU carries exactly these flags": how every call of verify_pdu but one
\* is made, with both numbers zero.
Carries(pdu, flags) == verify_pdu(pdu, flags, 0, 0)
=============================================================================
