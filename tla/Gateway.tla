------------------------------ MODULE Gateway ------------------------------
(***************************************************************************)
(* The gateway of src/apps/gateway.c: the source reads RTP packets and     *)
(* their times from a file, waits as long as they were apart, and sends    *)
(* them; the sink hands what comes to a player, until an empty message,    *)
(* whether that is the end of the file or a record of size 0.              *)
(*                                                                         *)
(* Time passes in the source only. What is between the two gateways is the *)
(* service of Transfer, without its budget: the measure of the channel may *)
(* leave an acknowledgement behind (see AckedMeansDelivered in Claims).    *)
(***************************************************************************)
EXTENDS Timespec, Sequences, FiniteSets

CONSTANTS
    Files,          \* files: for each record its time, in units, and size
    PERIOD,         \* 600: packets between two stalls of file_to_faketcp
    Jitter,         \* bound: units by which a timed wait may end late
    MaxTries,       \* bound: sends of one message
    MaxDelivered    \* bound: messages put in the application buffer

\* The size is that of the bytes the file holds: not below zero, and not above
\* MAX_UDP_SEGMENT_SIZE, on which read_rtp_packet ends the program.
Records == [time : Nat, size : Nat]

ASSUME GatewayAssumption ==
    /\ \A f \in Files : f \in Seq(Records)
    /\ PERIOD \in Nat /\ Jitter \in Nat
    /\ MaxTries \in Nat /\ MaxDelivered \in Nat

VARIABLES
    transport,      \* -t tcp or -t mictcp
    connected,      \* mic_tcp_connect returned 0
    filefd,         \* the file
    whole,          \* it does not stop in the middle of its last packet
    src,            \* where the source is
    nb,             \* reads made, which is also the number of the message
    eof,            \* feof(filefd)
    last_time,
    count,          \* of file_to_faketcp
    clock,
    tries,          \* waits of the call of mic_tcp_send
    timeout,        \* the deadline of the wait
    results, delivered, nread,
    sink,
    udp,            \* history: the packets the player was sent
    sentAt          \* history: when each packet was sent

sourceVars == <<src, nb, eof, last_time, count, clock, tries, timeout, results,
                sentAt>>
constVars == <<transport, connected, filefd, whole>>
vars == <<sourceVars, constVars, delivered, nread, sink, udp>>

Service == INSTANCE Transfer

\* The read that finds nothing.
EndRead == Len(filefd) + 1

\* More than any tv_nsec.
LONG_MAX == 100 * SECOND

Init ==
    /\ transport \in {"tcp", "mictcp"}
    /\ connected \in BOOLEAN
    /\ filefd \in Files
    /\ whole \in BOOLEAN
    /\ src = "read" /\ nb = 0 /\ eof = FALSE
    /\ last_time = timespec(-1, LONG_MAX)
    /\ count = 0 /\ clock = 0 /\ tries = 0 /\ timeout = Clock(0)
    /\ delivered = <<>> /\ nread = 0 /\ results = <<>>
    /\ sink = "recv" /\ udp = <<>> /\ sentAt = <<>>

Later(t) == t .. t + Jitter
Latest(t) == IF t > clock THEN t ELSE clock

(***************************************************************************)
(* The loop of file_to_mictcp and of file_to_faketcp.                      *)
(***************************************************************************)
read_rtp_packet(n) ==
    IF n < EndRead THEN filefd[n] ELSE [time |-> 0, size |-> 0]

\* Mutant: the end is only seen by a second read that finds nothing.
OneReadMore == EndRead + 1

\* The read that meets the end of the file: one that finds nothing, unless the
\* last packet was cut short.
LastRead == IF whole \/ filefd = <<>> THEN EndRead ELSE Len(filefd)

\* The read, and the wait: nanosleep refuses the delay before the first packet,
\* which is that packet's seconds and a negative rest.
Read ==
    LET current_time == Clock(read_rtp_packet(nb + 1).time)
        delay == tsSubtract(current_time, last_time)
    IN  /\ src = "read" /\ ~ eof
        /\ nb' = nb + 1
        /\ eof' = (nb + 1 = LastRead)
        /\ clock' = clock + IF Valid(delay) THEN Units(delay) ELSE 0
        /\ last_time' = current_time
        /\ src' = "send"
        /\ UNCHANGED <<count, tries, timeout, results, sentAt>>

\* Mutant: the count goes on after a stall.
CountOn(stall) == count' = count + 1

\* count++ == 600, then count = 0.
Count(stall) == count' = IF stall THEN 0 ELSE count + 1

SendUdp ==
    LET stall == count = PERIOD
    IN  /\ transport = "tcp" /\ src = "send"
        /\ Count(stall)
        /\ clock' = IF stall THEN clock + 2 * SECOND ELSE clock
        /\ sentAt' = Append(sentAt, clock')
        /\ udp' = Append(udp, nb)
        /\ src' = "read"
        /\ UNCHANGED <<nb, eof, last_time, tries, timeout, results>>

Return(end) == results' = Append(results, end) /\ src' = "read"

\* IP_send, then a wait until the deadline that is computed when it starts.
Try(now) ==
    /\ tries' = tries + 1
    /\ timeout' = Deadline(Clock(now))
    /\ IF Valid(timeout') THEN src' = "wait" /\ UNCHANGED results
       ELSE Return("error")

\* mic_tcp_send. On a socket that is not connected it returns at once: the
\* gateway has gone on after mic_tcp_connect failed, or the sink has closed.
CallSend ==
    /\ transport = "mictcp" /\ src = "send"
    /\ sentAt' = Append(sentAt, clock)
    /\ \/ connected /\ src' = "try" /\ UNCHANGED results
       \/ (~ connected \/ sink = "closed") /\ Return("error")
    /\ tries' = 0
    /\ UNCHANGED <<nb, eof, last_time, count, clock, timeout>>

\* Once the sink has closed, the socket of the source may be too.
SendAndWait ==
    /\ src = "try" /\ tries < MaxTries
    /\ \/ Try(clock)
       \/ sink = "closed" /\ Return("error") /\ UNCHANGED <<tries, timeout>>
    /\ UNCHANGED <<nb, eof, last_time, count, clock, sentAt>>

\* The wait ends by a signal, for this message or for another.
Signalled ==
    /\ src = "wait"
    /\ clock' \in clock .. Latest(Units(timeout))
    /\ Return("acked") \/ (src' = "try" /\ UNCHANGED results)
    /\ UNCHANGED <<nb, eof, last_time, count, tries, timeout, sentAt>>

\* Or at its deadline, which may be past: the message is given up or sent again.
TimesOut ==
    /\ src = "wait"
    /\ clock' \in Later(Latest(Units(timeout)))
    /\ Return("lost") \/ (src' = "try" /\ UNCHANGED results)
    /\ UNCHANGED <<nb, eof, last_time, count, tries, timeout, sentAt>>

\* close or mic_tcp_close, and fclose.
SourceEnds ==
    /\ src = "read" /\ eof
    /\ src' = "closed"
    /\ UNCHANGED <<nb, eof, last_time, count, clock, tries, timeout, results, sentAt>>

SourceStep ==
    /\ Read \/ CallSend \/ SendAndWait \/ Signalled \/ TimesOut \/ SourceEnds
    /\ UNCHANGED <<constVars, delivered, nread, sink, udp>>

FakeTcp == SendUdp /\ UNCHANGED <<constVars, delivered, nread, sink>>

(***************************************************************************)
(* The service, and mictcp_to_udp.                                         *)
(***************************************************************************)
Sent == IF src = "wait" THEN nb ELSE Len(results)

Deliver ==
    /\ connected /\ Len(delivered) < MaxDelivered
    /\ Service!Deliver
    /\ delivered'[Len(delivered')] <= Sent
    /\ UNCHANGED <<src, nb, eof, last_time, count, clock, tries, timeout, sentAt,
                   constVars, nread, sink, udp>>

\* Mutant: an empty message is handed to the player like any other.
NoEnd(m) == FALSE

\* nb_read <= 0
Ends(m) == read_rtp_packet(m).size = 0

Recv ==
    /\ sink = "recv" /\ nread < Len(delivered)
    /\ nread' = nread + 1
    /\ LET m == delivered[nread + 1]
       IN  IF Ends(m) THEN sink' = "closed" /\ UNCHANGED udp
           ELSE udp' = Append(udp, m) /\ UNCHANGED sink
    /\ UNCHANGED <<sourceVars, constVars, delivered>>

Next == SourceStep \/ FakeTcp \/ Deliver \/ Recv

Spec == Init /\ [][Next]_vars

------------------------------------------------------------------------------

TypeOK ==
    /\ src \in {"read", "send", "try", "wait", "closed"}
    /\ sink \in {"recv", "closed"}
    /\ results \in Seq(Service!SendEnds)
    /\ nb \in 0 .. EndRead /\ clock \in Nat /\ tries \in 0 .. MaxTries
    /\ Len(sentAt) \in {nb, nb - 1}

\* Pacing: two packets are never sent closer to each other than they were
\* recorded, across seconds, whatever the sends between them took and whatever
\* the order of the times in the file.
NeverAhead ==
    \A j, k \in DOMAIN sentAt :
      j < k /\ k < EndRead =>
        sentAt[k] - sentAt[j] >= filefd[k].time - filefd[j].time

\* gateway.c:192: a sender that stalls for two seconds, so often that PERIOD + 2
\* packets in a row always contain a stall.
TcpStalls ==
    transport = "tcp" =>
      \A k \in DOMAIN sentAt : k + PERIOD + 1 \in DOMAIN sentAt =>
        sentAt[k + PERIOD + 1] - sentAt[k] >= 2 * SECOND

\* mic_tcp_send holds the source for TIMEOUT at most for each time it sends,
\* although the deadlines are computed without a carry.
CallIsBounded ==
    src \in {"try", "wait", "read"} /\ sentAt # <<>> =>
      clock <= sentAt[Len(sentAt)] + tries * (TIMEOUT + Jitter)

\* The sink stops on a message of no bytes that the source has read, and not on
\* another: where the file has no such record that is the end of the file. The
\* player gets packets that have bytes, in the order of the file, and none from
\* behind the one that stops it.
EndsWithAnEmptyPacket ==
    transport = "mictcp" =>
      /\ sink = "closed" =>
           /\ \E m \in 1 .. nb : /\ read_rtp_packet(m).size = 0
                                 /\ \A i \in DOMAIN udp : udp[i] < m
           /\ (\A n \in DOMAIN filefd : filefd[n].size > 0) =>
                eof /\ nb = EndRead
      /\ \A i \in DOMAIN udp : /\ udp[i] <= nb /\ udp[i] < EndRead
                               /\ filefd[udp[i]].size > 0
      /\ \A i, j \in DOMAIN udp : i < j => udp[i] <= udp[j]
=============================================================================
