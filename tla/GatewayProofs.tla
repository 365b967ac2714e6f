--------------------------- MODULE GatewayProofs ---------------------------
(***************************************************************************)
(* Proofs about the gateway, for every file, any length of a second and of *)
(* the timeout, and any number of sends of a message.                      *)
(***************************************************************************)
EXTENDS Gateway, TLAPS

(***************************************************************************)
(* Times.                                                                  *)
(***************************************************************************)
LEMMA SecondType == SECOND \in Nat /\ SECOND > 1 /\ TIMEOUT \in Nat /\ TIMEOUT < SECOND
BY TimespecAssumption

\* A clock that reads n units stands for n units, and its rest is one that
\* nanosleep accepts.
LEMMA ClockProperties ==
    ASSUME NEW n \in Nat
    PROVE  /\ Clock(n).tv_sec \in Nat
           /\ Clock(n).tv_nsec \in 0 .. SECOND - 1
           /\ Units(Clock(n)) = n
<1>1. /\ n \div SECOND \in Nat
      /\ n % SECOND \in 0 .. SECOND - 1
      /\ (n \div SECOND) * SECOND + (n % SECOND) = n
  <2>1. n % SECOND \in 0 .. SECOND - 1
    BY SecondType, SMTT(30)
  <2>2. n \div SECOND \in Nat
    BY SecondType, SMTT(30)
  <2>3. n = SECOND * (n \div SECOND) + (n % SECOND)
    BY SecondType, SMTT(30)
  <2>4. \A x, y \in Int : x * y = y * x
    OBVIOUS
  <2>5. QED
    BY <2>1, <2>2, <2>3, <2>4, SecondType
<1>2. /\ Clock(n).tv_sec = n \div SECOND
      /\ Clock(n).tv_nsec = n % SECOND
      /\ Units(Clock(n)) = (n \div SECOND) * SECOND + (n % SECOND)
  BY DEF Clock, Units, timespec
<1>3. QED
  BY <1>1, <1>2

\* tsSubtract never gives a valid time below zero, whatever it subtracts.
LEMMA SubtractIsNatural ==
    ASSUME NEW time1, NEW time2,
           time1.tv_sec \in Int, time1.tv_nsec \in Int,
           time2.tv_sec \in Int, time2.tv_nsec \in Int,
           Valid(tsSubtract(time1, time2))
    PROVE  Units(tsSubtract(time1, time2)) \in Nat
<1> DEFINE delay == tsSubtract(time1, time2)
<1>1. delay.tv_sec \in Nat
  BY SecondType DEF tsSubtract, timespec
<1>2. delay.tv_nsec \in Nat
  BY SecondType DEF Valid
<1>3. \A s, r \in Nat : s * SECOND + r \in Nat
  BY SecondType
<1>4. QED
  BY <1>1, <1>2, <1>3 DEF Units

\* Between two times of a file it borrows as it should: the delay is valid, and at
\* least the difference.
LEMMA SubtractBorrows ==
    ASSUME NEW m \in Nat, NEW n \in Nat
    PROVE  /\ Valid(tsSubtract(Clock(m), Clock(n)))
           /\ Units(tsSubtract(Clock(m), Clock(n))) \in Nat
           /\ Units(tsSubtract(Clock(m), Clock(n))) >= m - n
<1> DEFINE t == Clock(m)
           u == Clock(n)
           delay == tsSubtract(t, u)
<1>1. /\ t.tv_sec \in Nat /\ t.tv_nsec \in 0 .. SECOND - 1
      /\ u.tv_sec \in Nat /\ u.tv_nsec \in 0 .. SECOND - 1
      /\ t.tv_sec * SECOND + t.tv_nsec = m
      /\ u.tv_sec * SECOND + u.tv_nsec = n
  BY ClockProperties DEF Units
<1> HIDE DEF t, u
<1>2. Valid(delay)
  BY <1>1, SecondType DEF tsSubtract, timespec, Valid
<1>3. Units(delay) \in Nat
  BY <1>1, <1>2, SubtractIsNatural
<1>4. \A x, y \in Int : (x - y) * SECOND = x * SECOND - y * SECOND
  BY SecondType
<1>5. \A x, y \in Int : (x - y - 1) * SECOND = x * SECOND - y * SECOND - SECOND
  BY SecondType
<1>6. \A x, y \in Int : x < y => x * SECOND + SECOND <= y * SECOND
  BY SecondType
<1>7. \A x \in Int : x * SECOND \in Int
  BY SecondType
<1>8. Units(delay) >= m - n
  <2>1. CASE t.tv_sec < u.tv_sec
    <3>1. Units(delay) = 0
      BY <2>1, SecondType DEF tsSubtract, timespec, Units
    <3>2. t.tv_sec * SECOND + SECOND <= u.tv_sec * SECOND
      BY <2>1, <1>1, <1>6
    <3>3. QED
      BY <3>1, <3>2, <1>1, <1>7, SecondType
  <2>2. CASE t.tv_sec = u.tv_sec /\ t.tv_nsec <= u.tv_nsec
    <3>1. Units(delay) = 0
      BY <2>2, SecondType DEF tsSubtract, timespec, Units
    <3>2. QED
      BY <3>1, <2>2, <1>1, <1>7, SecondType
  <2>3. CASE t.tv_sec > u.tv_sec /\ t.tv_nsec < u.tv_nsec
    <3>1. Units(delay) = (t.tv_sec - u.tv_sec - 1) * SECOND
                           + (t.tv_nsec + SECOND - u.tv_nsec)
      BY <2>3, <1>1 DEF tsSubtract, timespec, Units
    <3>2. QED
      BY <3>1, <1>1, <1>5, <1>7, SecondType
  <2>4. CASE t.tv_sec >= u.tv_sec /\ t.tv_nsec >= u.tv_nsec
    <3>1. CASE t.tv_sec = u.tv_sec /\ t.tv_nsec = u.tv_nsec
      BY <3>1, <2>2, <1>1
    <3>2. CASE ~ (t.tv_sec = u.tv_sec /\ t.tv_nsec = u.tv_nsec)
      <4>1. Units(delay) = (t.tv_sec - u.tv_sec) * SECOND + (t.tv_nsec - u.tv_nsec)
        BY <2>4, <3>2, <1>1 DEF tsSubtract, timespec, Units
      <4>2. QED
        BY <4>1, <1>1, <1>4, <1>7, SecondType
    <3>3. QED
      BY <3>1, <3>2
  <2>5. QED
    BY <2>1, <2>2, <2>3, <2>4, <1>1
<1>9. QED
  BY <1>2, <1>3, <1>8 DEF t, u

\* The deadline of a timed wait may be in the past, never more than TIMEOUT away.
LEMMA DeadlineIsSoon ==
    ASSUME NEW n \in Nat
    PROVE  /\ Deadline(Clock(n)).tv_sec \in Int
           /\ Deadline(Clock(n)).tv_nsec \in Int
           /\ Units(Deadline(Clock(n))) \in Int
           /\ Units(Deadline(Clock(n))) <= n + TIMEOUT
<1> DEFINE now  == Clock(n)
           nsec == now.tv_nsec + TIMEOUT
           rest == IF nsec > SECOND THEN nsec % SECOND ELSE nsec
<1>1. /\ now.tv_sec \in Nat /\ now.tv_nsec \in 0 .. SECOND - 1
      /\ now.tv_sec * SECOND + now.tv_nsec = n
  BY ClockProperties DEF Units
<1> HIDE DEF now
<1>2. nsec \in Nat
  BY <1>1, SecondType
<1>3. rest \in Nat /\ rest <= nsec
  <2>1. \A x \in Nat : x > SECOND => x % SECOND \in Nat /\ x % SECOND <= x
    BY SecondType
  <2>2. QED
    BY <2>1, <1>2, SecondType
<1>4. Deadline(now).tv_sec = now.tv_sec /\ Deadline(now).tv_nsec = rest
  BY DEF Deadline, timespec
<1>5. Units(Deadline(now)) = now.tv_sec * SECOND + rest
  BY <1>4 DEF Units
<1>6. now.tv_sec * SECOND \in Int
  BY <1>1, SecondType
<1> HIDE DEF rest
<1>7. QED
  BY <1>1, <1>3, <1>4, <1>5, <1>6, SecondType DEF now

(***************************************************************************)
(* Types, and how far the source has read.                                 *)
(***************************************************************************)
GatewayTypes ==
    /\ transport \in {"tcp", "mictcp"} /\ connected \in BOOLEAN
    /\ filefd \in Seq(Records) /\ whole \in BOOLEAN /\ eof \in BOOLEAN
    /\ src \in {"read", "send", "try", "wait", "closed"}
    /\ sink \in {"recv", "closed"}
    /\ nb \in Nat /\ clock \in Nat /\ count \in Nat /\ tries \in 0 .. MaxTries
    /\ nread \in Nat
    /\ last_time.tv_sec \in Int /\ last_time.tv_nsec \in Int
    /\ Units(timeout) \in Int
    /\ sentAt \in Seq(Nat) /\ udp \in Seq(Nat) /\ delivered \in Seq(Nat)
    /\ results \in Seq(Service!SendEnds)

\* The source reads up to LastRead, and sends each packet it has read before it
\* reads the next. Only mic_tcp_send waits.
ReadsToTheEnd ==
    /\ nb <= LastRead /\ (eof <=> nb = LastRead)
    /\ src = "send" => Len(sentAt) = nb - 1
    /\ src # "send" => Len(sentAt) = nb
    /\ src \in {"try", "wait"} => nb > 0 /\ transport = "mictcp"

SourceInv == GatewayTypes /\ ReadsToTheEnd

LEMMA BoundTypes ==
    PERIOD \in Nat /\ Jitter \in Nat /\ MaxTries \in Nat /\ MaxDelivered \in Nat
BY GatewayAssumption

LEMMA AppendProperties ==
    ASSUME NEW S, NEW s \in Seq(S), NEW x \in S
    PROVE  /\ Append(s, x) \in Seq(S)
           /\ Len(Append(s, x)) = Len(s) + 1
           /\ \A i \in 1 .. Len(s) : Append(s, x)[i] = s[i]
           /\ Append(s, x)[Len(s) + 1] = x
OBVIOUS

\* There is something to read in every file, and one read at most that finds
\* nothing.
LEMMA LastReadType ==
    ASSUME filefd \in Seq(Records), whole \in BOOLEAN
    PROVE  /\ EndRead \in Nat /\ LastRead \in Nat
           /\ 1 <= LastRead /\ LastRead <= EndRead /\ EndRead = Len(filefd) + 1
<1>1. Len(filefd) \in Nat /\ (filefd # <<>> => Len(filefd) > 0)
  OBVIOUS
<1>2. QED
  BY <1>1 DEF LastRead, EndRead

\* What a read finds is the time of a record, or zero.
LEMMA RecordedTime ==
    ASSUME filefd \in Seq(Records), NEW n \in Nat, n > 0
    PROVE  \E x \in Nat : /\ read_rtp_packet(n).time = x
                          /\ n < EndRead => x = filefd[n].time
<1>1. CASE n < EndRead
  <2>1. filefd[n] \in Records
    BY <1>1 DEF EndRead
  <2>2. QED
    BY <1>1, <2>1 DEF read_rtp_packet, Records
<1>2. CASE ~ n < EndRead
  BY <1>2 DEF read_rtp_packet
<1>3. QED
  BY <1>1, <1>2

LEMMA TimeType ==
    ASSUME filefd \in Seq(Records), NEW n \in DOMAIN filefd
    PROVE  filefd[n].time \in Nat
<1>1. filefd[n] \in Records
  OBVIOUS
<1>2. QED
  BY <1>1 DEF Records

LEMMA ServiceEnds == Service!SendEnds = {"acked", "lost", "error"}
BY DEF Service!SendEnds

\* A delivery repeats the last message or goes on to a later one, and never runs
\* ahead of the source.
LEMMA DeliverEffect ==
    ASSUME GatewayTypes, Deliver
    PROVE  \E m \in Nat :
             /\ delivered' = Append(delivered, m)
             /\ m <= Sent
             /\ delivered = <<>> => m > 0
             /\ delivered # <<>> => delivered[Len(delivered)] <= m
<1>1. PICK m \in Service!LastDelivered .. Service!message :
               delivered' = Append(delivered, m)
  BY DEF Deliver, Service!Deliver
<1>2. delivered \in Seq(Nat)
  BY DEF GatewayTypes
<1>3. delivered # <<>> => Service!LastDelivered = delivered[Len(delivered)]
  BY DEF Service!LastDelivered, Service!Last
<1>4. delivered = <<>> => Service!LastDelivered = 1
  BY DEF Service!LastDelivered
<1>5. Service!message \in Nat
  BY DEF Service!message, GatewayTypes
<1>6. Service!LastDelivered \in Nat
  <2>1. CASE delivered = <<>>
    BY <2>1, <1>4
  <2>2. CASE delivered # <<>>
    <3>1. Len(delivered) \in 1 .. Len(delivered)
      BY <1>2, <2>2
    <3>2. delivered[Len(delivered)] \in Nat
      BY <1>2, <3>1
    <3>3. QED
      BY <2>2, <1>3, <3>2
  <2>3. QED
    BY <2>1, <2>2
<1>7. m \in Nat
  BY <1>1, <1>5, <1>6
<1>8. m <= Sent
  <2>1. delivered'[Len(delivered')] <= Sent
    BY DEF Deliver
  <2>2. delivered'[Len(delivered')] = m
    BY <1>1, <1>2, <1>7, AppendProperties
  <2>3. QED
    BY <2>1, <2>2
<1>9. QED
  BY <1>1, <1>3, <1>4, <1>5, <1>6, <1>7, <1>8

\* A late end of a wait is a time, and not before the wait.
LEMMA WaitsPass ==
    ASSUME GatewayTypes
    PROVE  /\ \A c \in clock .. Latest(Units(timeout)) : c \in Nat /\ c >= clock
           /\ \A c \in Later(Latest(Units(timeout))) : c \in Nat /\ c >= clock
<1>1. clock \in Nat /\ Units(timeout) \in Int
  BY DEF GatewayTypes
<1>2. Latest(Units(timeout)) \in Nat /\ Latest(Units(timeout)) >= clock
  BY <1>1 DEF Latest
<1>3. QED
  BY <1>1, <1>2, BoundTypes DEF Later

LEMMA SourceInit == Init => SourceInv
<1> SUFFICES ASSUME Init PROVE SourceInv
  OBVIOUS
<1>1. filefd \in Seq(Records) /\ whole \in BOOLEAN
  BY GatewayAssumption DEF Init
<1>2. Clock(0).tv_sec \in Nat /\ Units(Clock(0)) = 0
  BY ClockProperties
<1>3. LONG_MAX \in Int
  BY SecondType DEF LONG_MAX
<1>4. last_time.tv_sec \in Int /\ last_time.tv_nsec \in Int
  BY <1>3 DEF Init, timespec
<1>5. eof \in BOOLEAN /\ transport \in {"tcp", "mictcp"} /\ connected \in BOOLEAN
  BY DEF Init
<1>6. Units(timeout) \in Int /\ 0 \in 0 .. MaxTries
  BY <1>2, BoundTypes DEF Init
<1>7. GatewayTypes
  BY <1>1, <1>4, <1>5, <1>6 DEF Init, GatewayTypes
<1>8. ReadsToTheEnd
  BY <1>1, LastReadType DEF Init, ReadsToTheEnd
<1>9. QED
  BY <1>7, <1>8 DEF SourceInv

LEMMA ReadKeepsSource ==
    ASSUME SourceInv, Read, UNCHANGED <<constVars, delivered, nread, sink, udp>>
    PROVE  SourceInv'
<1> DEFINE current_time == Clock(read_rtp_packet(nb + 1).time)
           delay == tsSubtract(current_time, last_time)
<1> USE DEF SourceInv
<1>1. PICK x \in Nat : current_time = Clock(x)
  <2>1. filefd \in Seq(Records) /\ nb + 1 \in Nat /\ nb + 1 > 0
    BY DEF GatewayTypes
  <2>2. QED
    BY <2>1, RecordedTime
<1>2. clock' \in Nat
  <2>1. clock' = clock + IF Valid(delay) THEN Units(delay) ELSE 0
    BY DEF Read
  <2>2. Valid(delay) => Units(delay) \in Nat
    <3>1. current_time.tv_sec \in Int /\ current_time.tv_nsec \in Int
      BY <1>1, ClockProperties, SecondType
    <3>2. last_time.tv_sec \in Int /\ last_time.tv_nsec \in Int
      BY DEF GatewayTypes
    <3> HIDE DEF current_time
    <3>3. QED
      BY <3>1, <3>2, SubtractIsNatural
  <2>3. QED
    BY <2>1, <2>2 DEF GatewayTypes
<1>3. last_time'.tv_sec \in Int /\ last_time'.tv_nsec \in Int
  <2>1. last_time' = Clock(x)
    BY <1>1 DEF Read
  <2>2. QED
    BY <2>1, ClockProperties, SecondType
<1>4. GatewayTypes'
  BY <1>2, <1>3 DEF GatewayTypes, Read, constVars
<1>5. ReadsToTheEnd'
  <2>1. LastRead' = LastRead
    BY DEF LastRead, EndRead, constVars
  <2>2. LastRead \in Nat /\ nb \in Nat /\ Len(sentAt) \in Nat
    BY LastReadType DEF GatewayTypes
  <2>3. nb < LastRead
    BY <2>2 DEF Read, ReadsToTheEnd
  <2>4. nb' = nb + 1 /\ sentAt' = sentAt /\ src' = "send" /\ src = "read"
    BY DEF Read
  <2>5. eof' <=> nb + 1 = LastRead
    BY DEF Read
  <2>6. QED
    BY <2>1, <2>2, <2>3, <2>4, <2>5 DEF ReadsToTheEnd
<1>6. QED
  BY <1>4, <1>5

LEMMA SendUdpKeepsSource ==
    ASSUME SourceInv, FakeTcp
    PROVE  SourceInv'
<1> USE DEF SourceInv
<1>1. clock' \in Nat /\ count' \in Nat
  BY SecondType DEF GatewayTypes, FakeTcp, SendUdp, Count
<1>2. sentAt' = Append(sentAt, clock') /\ udp' = Append(udp, nb)
  BY DEF FakeTcp, SendUdp
<1>3. sentAt' \in Seq(Nat) /\ Len(sentAt') = Len(sentAt) + 1 /\ udp' \in Seq(Nat)
  BY <1>1, <1>2, AppendProperties DEF GatewayTypes
<1>4. GatewayTypes'
  BY <1>1, <1>3 DEF GatewayTypes, FakeTcp, SendUdp, constVars
<1>5. ReadsToTheEnd'
  <2>1. LastRead' = LastRead
    BY DEF LastRead, EndRead, FakeTcp, constVars
  <2>2. LastRead \in Nat /\ nb \in Nat /\ Len(sentAt) \in Nat
    BY LastReadType DEF GatewayTypes
  <2>3. src = "send" /\ src' = "read" /\ nb' = nb /\ eof' = eof
    BY DEF FakeTcp, SendUdp
  <2>4. QED
    BY <1>3, <2>1, <2>2, <2>3 DEF ReadsToTheEnd
<1>6. QED
  BY <1>4, <1>5

LEMMA ReturnTypes ==
    ASSUME GatewayTypes, NEW end \in {"acked", "lost", "error"}, Return(end)
    PROVE  results' \in Seq(Service!SendEnds) /\ Len(results') = Len(results) + 1
BY ServiceEnds, AppendProperties DEF GatewayTypes, Return

LEMMA SendKeepsSource ==
    ASSUME SourceInv, UNCHANGED <<constVars, delivered, nread, sink, udp>>,
           CallSend \/ SendAndWait \/ Signalled \/ TimesOut \/ SourceEnds
    PROVE  SourceInv'
<1> USE DEF SourceInv
<1>1. results' \in Seq(Service!SendEnds)
  <2>1. \/ results' = results
        \/ \E end \in {"acked", "lost", "error"} : Return(end)
    BY DEF CallSend, SendAndWait, Signalled, TimesOut, SourceEnds, Try
  <2>2. QED
    BY <2>1, ReturnTypes DEF GatewayTypes
<1>2. clock' \in Nat
  BY WaitsPass DEF GatewayTypes, CallSend, SendAndWait, Signalled, TimesOut,
      SourceEnds
<1>3. tries' \in 0 .. MaxTries
  BY BoundTypes
     DEF GatewayTypes, CallSend, SendAndWait, Signalled, TimesOut, SourceEnds,
         Try
<1>4. Units(timeout') \in Int
  <2>1. timeout' = timeout \/ timeout' = Deadline(Clock(clock))
    BY DEF CallSend, SendAndWait, Signalled, TimesOut, SourceEnds, Try
  <2>2. QED
    BY <2>1, DeadlineIsSoon DEF GatewayTypes
<1>5. /\ sentAt' \in Seq(Nat)
      /\ CallSend => Len(sentAt') = Len(sentAt) + 1
      /\ ~ CallSend => sentAt' = sentAt
  <2>1. CASE CallSend
    BY <2>1, AppendProperties DEF CallSend, GatewayTypes
  <2>2. CASE ~ CallSend
    BY <2>2 DEF SendAndWait, Signalled, TimesOut, SourceEnds, GatewayTypes
  <2>3. QED
    BY <2>1, <2>2
<1>6. /\ nb' = nb /\ eof' = eof /\ last_time' = last_time /\ count' = count
      /\ CallSend => src = "send" /\ transport = "mictcp" /\ src' \in {"try", "read"}
      /\ ~ CallSend => src # "send" /\ src' # "send"
      /\ src' \in {"try", "wait"} => src \in {"try", "wait", "send"}
      /\ src' \in {"read", "send", "try", "wait", "closed"}
  BY DEF CallSend, SendAndWait, Signalled, TimesOut, SourceEnds, Try, Return
<1>7. GatewayTypes'
  BY <1>1, <1>2, <1>3, <1>4, <1>5, <1>6 DEF GatewayTypes, constVars, Units
<1>8. ReadsToTheEnd'
  <2>1. LastRead' = LastRead /\ transport' = transport
    BY DEF LastRead, EndRead, constVars
  <2>2. LastRead \in Nat /\ nb \in Nat /\ Len(sentAt) \in Nat
    BY LastReadType DEF GatewayTypes
  <2>3. src = "send" => nb > 0
    BY <2>2 DEF ReadsToTheEnd
  <2>4. QED
    BY <1>5, <1>6, <2>1, <2>2, <2>3 DEF ReadsToTheEnd
<1>9. QED
  BY <1>7, <1>8

LEMMA SinkKeepsSource ==
    ASSUME SourceInv, Deliver \/ Recv
    PROVE  SourceInv'
<1> USE DEF SourceInv
<1>1. UNCHANGED <<src, nb, eof, last_time, count, clock, tries, timeout, results,
                  sentAt, transport, connected, filefd, whole>>
  BY DEF Deliver, Recv, sourceVars, constVars, Service!Deliver
<1>2. delivered' \in Seq(Nat)
  <2>1. CASE Deliver
    <3>1. PICK m \in Nat : delivered' = Append(delivered, m)
      BY <2>1, DeliverEffect
    <3>2. QED
      BY <3>1, AppendProperties DEF GatewayTypes
  <2>2. CASE Recv
    BY <2>2 DEF Recv, GatewayTypes
  <2>3. QED
    BY <2>1, <2>2
<1>3. udp' \in Seq(Nat) /\ nread' \in Nat /\ sink' \in {"recv", "closed"}
  <2>1. CASE Deliver
    BY <2>1 DEF Deliver, GatewayTypes
  <2>2. CASE Recv
    <3>1. nread + 1 \in 1 .. Len(delivered)
      BY <2>2 DEF Recv, GatewayTypes
    <3>2. delivered[nread + 1] \in Nat
      BY <3>1 DEF GatewayTypes
    <3>3. udp' = udp \/ udp' = Append(udp, delivered[nread + 1])
      BY <2>2 DEF Recv
    <3>4. Append(udp, delivered[nread + 1]) \in Seq(Nat) /\ udp \in Seq(Nat)
      BY <3>2, AppendProperties DEF GatewayTypes
    <3>5. sink' \in {"recv", "closed"} /\ nread' \in Nat
      BY <2>2 DEF Recv, GatewayTypes
    <3>6. QED
      BY <3>3, <3>4, <3>5
  <2>3. QED
    BY <2>1, <2>2
<1>4. GatewayTypes'
  BY <1>1, <1>2, <1>3 DEF GatewayTypes, Units
<1>5. ReadsToTheEnd'
  BY <1>1 DEF ReadsToTheEnd, LastRead, EndRead
<1>6. QED
  BY <1>4, <1>5

LEMMA SourceStutter ==
    ASSUME SourceInv, UNCHANGED vars
    PROVE  SourceInv'
BY DEF SourceInv, GatewayTypes, ReadsToTheEnd, vars, sourceVars, constVars,
       LastRead, EndRead, Units

LEMMA SourceInductive == Spec => []SourceInv
<1>1. SourceInv /\ [Next]_vars => SourceInv'
  BY ReadKeepsSource, SendUdpKeepsSource, SendKeepsSource, SinkKeepsSource,
     SourceStutter DEF Next, SourceStep
<1>2. QED
  BY SourceInit, <1>1, PTL DEF Spec

\* Type correctness, for every file: the source reads past its end once at most, and
\* has sent every packet it has read but the last (gateway.c, file_to_mictcp and
\* file_to_faketcp).
THEOREM GatewayTypeCorrect == Spec => []TypeOK
<1>1. SourceInv => TypeOK
  <2>1. SUFFICES ASSUME SourceInv PROVE TypeOK
    OBVIOUS
  <2>2. nb \in Nat /\ LastRead \in Nat /\ EndRead \in Nat /\ LastRead <= EndRead
    BY <2>1, LastReadType DEF SourceInv, GatewayTypes
  <2>3. nb \in 0 .. EndRead
    BY <2>1, <2>2 DEF SourceInv, ReadsToTheEnd
  <2>4. Len(sentAt) \in {nb, nb - 1}
    BY <2>1 DEF SourceInv, ReadsToTheEnd
  <2>5. QED
    BY <2>1, <2>3, <2>4 DEF SourceInv, GatewayTypes, TypeOK
<1>2. QED
  BY SourceInductive, <1>1, PTL

(***************************************************************************)
(* Pacing.                                                                 *)
(***************************************************************************)
LEMMA ElementType ==
    ASSUME NEW S, NEW s \in Seq(S), NEW i \in DOMAIN s
    PROVE  s[i] \in S
OBVIOUS

\* Waits add up: from the time sent to now, and from now to later.
LEMMA WaitsAddUp ==
    ASSUME NEW sent \in Int, NEW now \in Int, NEW later \in Int,
           NEW f \in Int, NEW g \in Int, NEW h \in Int,
           now - sent >= g - f, later - now >= h - g
    PROVE  later - sent >= h - f
OBVIOUS

\* The calls that hand over a packet, at the time they start (mic_tcp_send) or
\* after the stall (sendto).
Hands ==
    /\ src = "send" /\ sentAt' = Append(sentAt, clock') /\ clock' >= clock
    /\ UNCHANGED <<nb, last_time, filefd>>

Passes ==
    /\ clock' >= clock
    /\ UNCHANGED <<nb, last_time, filefd, sentAt>>

\* A step reads a packet, hands it over, or lets time pass.
LEMMA StepsOfTheSource ==
    ASSUME SourceInv, [Next]_vars
    PROVE  \/ Read /\ filefd' = filefd
           \/ Hands
           \/ Passes
<1>1. clock \in Nat
  BY DEF SourceInv, GatewayTypes
<1>2. CASE FakeTcp
  BY <1>1, <1>2, SecondType DEF FakeTcp, SendUdp, Hands, constVars
<1>3. CASE CallSend /\ UNCHANGED constVars
  BY <1>1, <1>3 DEF CallSend, Hands, constVars
<1>4. CASE (SendAndWait \/ Signalled \/ TimesOut \/ SourceEnds) /\ UNCHANGED constVars
  BY <1>1, <1>4, WaitsPass
     DEF SendAndWait, Signalled, TimesOut, SourceEnds, Passes, constVars,
         SourceInv
<1>5. CASE Deliver \/ Recv \/ UNCHANGED vars
  BY <1>1, <1>5 DEF Deliver, Recv, vars, sourceVars, constVars, Passes
<1>6. CASE Read /\ UNCHANGED constVars
  BY <1>6 DEF constVars
<1>7. QED
  BY <1>2, <1>3, <1>4, <1>5, <1>6 DEF Next, SourceStep

SentBefore == \A k \in DOMAIN sentAt : sentAt[k] <= clock

\* Since a packet was handed over at least the time has passed that lies between
\* it and the packet read last, in the file.
WaitedSince ==
    nb \in DOMAIN filefd =>
      /\ last_time = Clock(filefd[nb].time)
      /\ \A j \in DOMAIN sentAt : clock - sentAt[j] >= filefd[nb].time - filefd[j].time

PacingInv == SentBefore /\ WaitedSince /\ NeverAhead

\* The wait of a read: no time goes back, and between two packets of the file it is
\* at least what lies between them.
LEMMA ReadWaits ==
    ASSUME SourceInv, WaitedSince, Read, filefd' = filefd
    PROVE  /\ clock' >= clock
           /\ nb' = nb + 1 /\ sentAt' = sentAt
           /\ nb' \in DOMAIN filefd =>
                /\ last_time' = Clock(filefd[nb'].time)
                /\ nb > 0 => clock' - clock >= filefd[nb'].time - filefd[nb].time
<1> DEFINE current_time == Clock(read_rtp_packet(nb + 1).time)
           delay == tsSubtract(current_time, last_time)
<1>1. /\ clock' = clock + (IF Valid(delay) THEN Units(delay) ELSE 0)
      /\ nb' = nb + 1 /\ sentAt' = sentAt /\ last_time' = current_time
  BY DEF Read
<1>2. filefd \in Seq(Records) /\ nb \in Nat /\ clock \in Nat
      /\ last_time.tv_sec \in Int /\ last_time.tv_nsec \in Int
  BY DEF SourceInv, GatewayTypes
<1>3. PICK x \in Nat : /\ current_time = Clock(x)
                       /\ nb + 1 < EndRead => x = filefd[nb + 1].time
  BY <1>2, RecordedTime
<1>4. current_time.tv_sec \in Int /\ current_time.tv_nsec \in Int
  BY <1>3, ClockProperties, SecondType
<1> HIDE DEF current_time
<1>5. Valid(delay) => Units(delay) \in Nat
  BY <1>2, <1>4, SubtractIsNatural
<1>6. ASSUME nb' \in DOMAIN filefd
      PROVE  /\ last_time' = Clock(filefd[nb'].time)
             /\ nb > 0 => clock' - clock >= filefd[nb'].time - filefd[nb].time
  <2>1. nb + 1 < EndRead /\ nb + 1 \in DOMAIN filefd
    BY <1>1, <1>2, <1>6 DEF EndRead
  <2>2. last_time' = Clock(filefd[nb'].time) /\ x = filefd[nb'].time
    BY <1>1, <1>3, <2>1
  <2>3. ASSUME nb > 0
        PROVE  clock' - clock >= filefd[nb'].time - filefd[nb].time
    <3>1. nb \in DOMAIN filefd
      BY <1>2, <2>1, <2>3
    <3>2. last_time = Clock(filefd[nb].time) /\ filefd[nb].time \in Nat
      BY <1>2, <3>1, TimeType DEF WaitedSince
    <3>3. /\ Valid(delay) /\ Units(delay) \in Nat
          /\ Units(delay) >= x - filefd[nb].time
      BY <1>3, <3>2, SubtractBorrows
    <3> HIDE DEF delay
    <3>4. QED
      BY <1>1, <1>2, <2>2, <3>2, <3>3
  <2>4. QED
    BY <2>2, <2>3
<1> HIDE DEF delay
<1>7. QED
  BY <1>1, <1>2, <1>5, <1>6

LEMMA ReadKeepsPace ==
    ASSUME SourceInv, PacingInv, Read, filefd' = filefd, clock' \in Nat
    PROVE  PacingInv'
<1>1. /\ clock' >= clock /\ nb' = nb + 1 /\ sentAt' = sentAt
      /\ nb' \in DOMAIN filefd =>
           /\ last_time' = Clock(filefd[nb'].time)
           /\ nb > 0 => clock' - clock >= filefd[nb'].time - filefd[nb].time
  BY ReadWaits DEF PacingInv
<1>2. /\ filefd \in Seq(Records) /\ nb \in Nat /\ clock \in Nat /\ sentAt \in Seq(Nat)
      /\ Len(sentAt) = nb
  BY DEF SourceInv, GatewayTypes, ReadsToTheEnd, Read
<1>3. clock' \in Int
  OBVIOUS
<1>4. SentBefore'
  BY <1>1, <1>2, <1>3 DEF PacingInv, SentBefore
<1>5. NeverAhead'
  BY <1>1 DEF PacingInv, NeverAhead, EndRead
<1>6. WaitedSince'
  <2>1. SUFFICES ASSUME nb' \in DOMAIN filefd, NEW j \in DOMAIN sentAt
                 PROVE  clock' - sentAt[j] >= filefd[nb'].time - filefd[j].time
    BY <1>1 DEF WaitedSince
  <2>2. nb > 0 /\ nb \in DOMAIN filefd /\ j \in DOMAIN filefd
    BY <1>1, <1>2, <2>1
  <2>3. clock - sentAt[j] >= filefd[nb].time - filefd[j].time
    BY <2>2 DEF PacingInv, WaitedSince
  <2>4. /\ filefd[nb].time \in Nat /\ filefd[j].time \in Nat /\ filefd[nb'].time \in Nat
        /\ sentAt[j] \in Nat
    BY <1>2, <2>1, <2>2, ElementType, TimeType
  <2>5. clock' - clock >= filefd[nb'].time - filefd[nb].time
    BY <1>1, <2>1, <2>2
  <2>6. clock \in Int
    BY <1>2
  <2>7. QED
    BY <1>3, <2>3, <2>4, <2>5, <2>6, WaitsAddUp
<1>7. QED
  BY <1>4, <1>5, <1>6 DEF PacingInv

LEMMA HandsKeepsPace ==
    ASSUME SourceInv, PacingInv, Hands, clock' \in Nat
    PROVE  PacingInv'
<1>1. /\ sentAt' = Append(sentAt, clock') /\ clock' >= clock
      /\ nb' = nb /\ last_time' = last_time /\ filefd' = filefd
  BY DEF Hands
<1>2. /\ filefd \in Seq(Records) /\ nb \in Nat /\ clock \in Nat /\ sentAt \in Seq(Nat)
      /\ Len(sentAt) = nb - 1
  BY DEF SourceInv, GatewayTypes, ReadsToTheEnd, Hands
<1>3. /\ DOMAIN sentAt' = 1 .. nb /\ DOMAIN sentAt = 1 .. nb - 1
      /\ \A i \in 1 .. nb - 1 : sentAt'[i] = sentAt[i] /\ sentAt[i] \in Nat
      /\ nb > 0 => sentAt'[nb] = clock'
  <2>1. Len(sentAt') = nb /\ sentAt' \in Seq(Nat)
    BY <1>1, <1>2, AppendProperties
  <2>2. QED
    BY <1>1, <1>2, <2>1, AppendProperties
<1>4. SentBefore'
  BY <1>1, <1>2, <1>3 DEF PacingInv, SentBefore
<1>5. ASSUME nb \in DOMAIN filefd, NEW j \in 1 .. nb
      PROVE  clock' - sentAt'[j] >= filefd[nb].time - filefd[j].time
  <2>1. /\ filefd[nb].time \in Nat /\ filefd[j].time \in Nat
    <3>1. j \in DOMAIN filefd
      BY <1>2, <1>5
    <3>2. QED
      BY <1>2, <1>5, <3>1, TimeType
  <2>2. CASE j = nb
    BY <1>2, <1>3, <2>1, <2>2
  <2>3. CASE j # nb
    <3>1. j \in 1 .. nb - 1
      BY <1>2, <2>3
    <3>2. clock - sentAt[j] >= filefd[nb].time - filefd[j].time
      BY <1>3, <1>5, <3>1 DEF PacingInv, WaitedSince
    <3>3. sentAt'[j] = sentAt[j] /\ sentAt[j] \in Nat
      BY <1>3, <3>1
    <3>4. clock \in Int /\ clock' \in Int
      BY <1>2
    <3>5. clock' - clock >= filefd[nb].time - filefd[nb].time
      <4>1. filefd[nb].time - filefd[nb].time = 0
        BY <2>1
      <4>2. QED
        BY <1>1, <3>4, <4>1
    <3>6. clock' - sentAt[j] >= filefd[nb].time - filefd[j].time
      BY <2>1, <3>2, <3>3, <3>4, <3>5, WaitsAddUp
    <3>7. QED
      BY <3>3, <3>6
  <2>4. QED
    BY <2>2, <2>3
<1>6. WaitedSince'
  BY <1>1, <1>3, <1>5 DEF PacingInv, WaitedSince
<1>7. NeverAhead'
  <2>1. SUFFICES ASSUME NEW j \in 1 .. nb, NEW k \in 1 .. nb, j < k,
                        k < EndRead
                 PROVE  sentAt'[k] - sentAt'[j] >= filefd[k].time - filefd[j].time
    BY <1>1, <1>3 DEF NeverAhead, EndRead
  <2>2. k \in DOMAIN filefd
    BY <1>2, <2>1 DEF EndRead
  <2>3. CASE k = nb
    BY <1>3, <1>5, <2>2, <2>3
  <2>4. CASE k # nb
    <3>1. j \in DOMAIN sentAt /\ k \in DOMAIN sentAt
          /\ sentAt'[j] = sentAt[j] /\ sentAt'[k] = sentAt[k]
      BY <1>2, <1>3, <2>1, <2>4
    <3>2. QED
      BY <2>1, <3>1 DEF PacingInv, NeverAhead
  <2>5. QED
    BY <2>3, <2>4
<1>8. QED
  BY <1>4, <1>6, <1>7 DEF PacingInv

LEMMA PassesKeepsPace ==
    ASSUME SourceInv, PacingInv, Passes, clock' \in Nat
    PROVE  PacingInv'
<1>1. /\ clock' >= clock /\ nb' = nb /\ last_time' = last_time
      /\ filefd' = filefd /\ sentAt' = sentAt
  BY DEF Passes
<1>2. /\ filefd \in Seq(Records) /\ nb \in Nat /\ clock \in Nat /\ sentAt \in Seq(Nat)
      /\ Len(sentAt) <= nb
  BY DEF SourceInv, GatewayTypes, ReadsToTheEnd
<1>3. SentBefore'
  BY <1>1, <1>2 DEF PacingInv, SentBefore
<1>4. NeverAhead'
  BY <1>1 DEF PacingInv, NeverAhead, EndRead
<1>5. WaitedSince'
  <2>1. SUFFICES ASSUME nb \in DOMAIN filefd, NEW j \in DOMAIN sentAt
                 PROVE  clock' - sentAt[j] >= filefd[nb].time - filefd[j].time
    BY <1>1 DEF WaitedSince, PacingInv
  <2>2. clock - sentAt[j] >= filefd[nb].time - filefd[j].time
    BY <2>1 DEF PacingInv, WaitedSince
  <2>3. filefd[nb].time \in Nat /\ filefd[j].time \in Nat /\ sentAt[j] \in Nat
    <3>1. j \in DOMAIN filefd
      BY <1>2, <2>1
    <3>2. QED
      BY <1>2, <2>1, <3>1, ElementType, TimeType
  <2>4. clock' - clock >= filefd[nb].time - filefd[nb].time
    BY <1>1, <1>2, <2>3
  <2>5. clock \in Int /\ clock' \in Int
    BY <1>2
  <2>6. QED
    BY <2>2, <2>3, <2>4, <2>5, WaitsAddUp
<1>6. QED
  BY <1>3, <1>4, <1>5 DEF PacingInv

LEMMA PacingInductive == Spec => []PacingInv
<1>1. Init => PacingInv
  <2>1. SUFFICES ASSUME Init PROVE PacingInv
    OBVIOUS
  <2>2. filefd \in Seq(Records)
    BY <2>1, GatewayAssumption DEF Init
  <2>3. nb \notin DOMAIN filefd /\ DOMAIN sentAt = {}
    BY <2>1, <2>2 DEF Init
  <2>4. QED
    BY <2>3 DEF PacingInv, SentBefore, WaitedSince, NeverAhead
<1>2. SourceInv /\ SourceInv' /\ PacingInv /\ [Next]_vars => PacingInv'
  <2>1. SourceInv' => clock' \in Nat
    BY DEF SourceInv, GatewayTypes
  <2>2. QED
    BY <2>1, StepsOfTheSource, ReadKeepsPace, HandsKeepsPace, PassesKeepsPace
<1>3. QED
  BY SourceInductive, <1>1, <1>2, PTL DEF Spec

\* The packets of a file are never sent closer to each other than they were
\* recorded, for every file, in order or not, in both modes, and whatever the calls
\* between two packets took (gateway.c: tsSubtract, and the nanosleep of both loops).
THEOREM PacketsAreNeverAhead == Spec => []NeverAhead
BY PacingInductive, PTL DEF PacingInv

(***************************************************************************)
(* What a call of mic_tcp_send takes.                                      *)
(***************************************************************************)
Called == sentAt[Len(sentAt)]
Held(n) == n * (TIMEOUT + Jitter)

LEMMA HeldProperties ==
    /\ Held(0) = 0
    /\ \A n \in Nat : Held(n) \in Nat /\ Held(n + 1) = Held(n) + TIMEOUT + Jitter
<1>1. TIMEOUT + Jitter \in Nat /\ TIMEOUT \in Nat /\ Jitter \in Nat
  BY SecondType, BoundTypes
<1>2. \A n, m \in Nat : n * m \in Nat /\ (n + 1) * m = n * m + m
  OBVIOUS
<1>3. 0 * (TIMEOUT + Jitter) = 0
  BY <1>1
<1>4. QED
  BY <1>1, <1>2, <1>3 DEF Held

\* A wait starts within what the earlier tries were allowed, and its deadline is no
\* further than TIMEOUT from there.
WaitIsBounded ==
    src = "wait" =>
      /\ tries > 0
      /\ clock <= Called + Held(tries - 1)
      /\ Units(timeout) <= Called + Held(tries - 1) + TIMEOUT

CallInv == CallIsBounded /\ WaitIsBounded

LEMMA SendStartsInTime ==
    ASSUME SourceInv, FakeTcp \/ CallSend, clock' \in Nat, tries' \in Nat
    PROVE  CallInv'
<1>1. /\ sentAt' = Append(sentAt, clock') /\ src' \in {"try", "read"}
  BY DEF FakeTcp, SendUdp, CallSend, Return
<1>2. Called' = clock'
  BY <1>1, AppendProperties DEF SourceInv, GatewayTypes, Called
<1>3. Held(tries') \in Nat
  BY HeldProperties
<1>4. CallIsBounded'
  BY <1>2, <1>3 DEF CallIsBounded, Called, Held
<1>5. WaitIsBounded'
  BY <1>1 DEF WaitIsBounded
<1>6. QED
  BY <1>4, <1>5 DEF CallInv

\* The socket is closed: mic_tcp_send returns without a wait.
LEMMA RefusedInTime ==
    ASSUME CallInv, SendAndWait, Return("error"), UNCHANGED <<tries, timeout>>
    PROVE  CallInv'
BY DEF CallInv, CallIsBounded, WaitIsBounded, SendAndWait, Return

LEMMA TryStartsInTime ==
    ASSUME SourceInv, CallInv, SendAndWait, Try(clock)
    PROVE  CallInv'
<1>1. /\ tries' = tries + 1 /\ clock' = clock /\ sentAt' = sentAt
      /\ timeout' = Deadline(Clock(clock)) /\ src' \in {"wait", "read"}
  BY DEF SendAndWait, Try, Return
<1>2. /\ clock \in Nat /\ tries \in Nat /\ Len(sentAt) > 0 /\ sentAt \in Seq(Nat)
  BY BoundTypes DEF SourceInv, GatewayTypes, ReadsToTheEnd, SendAndWait
<1>3. Called \in Nat /\ sentAt # <<>>
  BY <1>2 DEF Called
<1>4. Held(tries) \in Nat /\ Held(tries') = Held(tries) + TIMEOUT + Jitter
  BY <1>1, <1>2, HeldProperties
<1>5. clock <= Called + Held(tries)
  BY <1>3 DEF CallInv, CallIsBounded, Called, Held, SendAndWait
<1>6. Called' = Called /\ tries' - 1 = tries
  BY <1>1, <1>2 DEF Called
<1>7. CallIsBounded'
  <2>1. clock' <= Called + Held(tries')
    BY <1>1, <1>2, <1>3, <1>4, <1>5, SecondType, BoundTypes
  <2>2. QED
    BY <1>6, <2>1 DEF CallIsBounded, Called, Held
<1>8. WaitIsBounded'
  <2>1. /\ Units(timeout') \in Int /\ Units(timeout') <= clock + TIMEOUT
    BY <1>1, <1>2, DeadlineIsSoon
  <2>2. Units(timeout') <= Called + Held(tries) + TIMEOUT
    BY <1>2, <1>3, <1>4, <1>5, <2>1, SecondType
  <2>3. Held(tries' - 1) = Held(tries) /\ Units(timeout)' = Units(timeout')
    BY <1>6 DEF Units
  <2>4. QED
    BY <1>1, <1>2, <1>5, <1>6, <2>2, <2>3 DEF WaitIsBounded, Held
<1>9. QED
  BY <1>7, <1>8 DEF CallInv

LEMMA WaitEndsInTime ==
    ASSUME SourceInv, CallInv, Signalled \/ TimesOut
    PROVE  CallInv'
<1>1. /\ tries' = tries /\ sentAt' = sentAt /\ src = "wait"
      /\ src' \in {"try", "read"}
  BY DEF Signalled, TimesOut, Return
<1>2. /\ clock \in Nat /\ tries \in Nat /\ Len(sentAt) > 0 /\ sentAt \in Seq(Nat)
      /\ Units(timeout) \in Int
  BY <1>1, BoundTypes DEF SourceInv, GatewayTypes, ReadsToTheEnd
<1>3. Called \in Nat
  BY <1>2 DEF Called
<1>4. /\ tries > 0 /\ clock <= Called + Held(tries - 1)
      /\ Units(timeout) <= Called + Held(tries - 1) + TIMEOUT
  BY <1>1 DEF CallInv, WaitIsBounded
<1>5. tries - 1 \in Nat /\ (tries - 1) + 1 = tries
  BY <1>2, <1>4
<1>6. Held(tries - 1) \in Nat /\ Held(tries) = Held(tries - 1) + TIMEOUT + Jitter
  BY <1>5, HeldProperties
<1>7. /\ clock' \in Nat
      /\ clock' <= clock + Jitter \/ clock' <= Units(timeout) + Jitter
  <2>1. /\ Latest(Units(timeout)) \in Nat
        /\ Latest(Units(timeout)) \in {clock, Units(timeout)}
    BY <1>2 DEF Latest
  <2>2. \/ clock' \in clock .. Latest(Units(timeout))
        \/ clock' \in Later(Latest(Units(timeout)))
    BY DEF Signalled, TimesOut
  <2>3. QED
    BY <1>2, <2>1, <2>2, WaitsPass, BoundTypes DEF SourceInv, Later
<1>8. clock' <= Called + Held(tries)
  BY <1>2, <1>3, <1>4, <1>6, <1>7, SecondType, BoundTypes
<1>9. CallIsBounded'
  <2>1. Called' = Called /\ Held(tries') = Held(tries)
    BY <1>1 DEF Called
  <2>2. QED
    BY <1>8, <2>1 DEF CallIsBounded, Called, Held
<1>10. WaitIsBounded'
  BY <1>1 DEF WaitIsBounded
<1>11. QED
  BY <1>9, <1>10 DEF CallInv

LEMMA CallInductive == Spec => []CallInv
<1>1. Init => CallInv
  BY DEF Init, CallInv, CallIsBounded, WaitIsBounded
<1>2. SourceInv /\ SourceInv' /\ CallInv /\ [Next]_vars => CallInv'
  <2>1. SUFFICES ASSUME SourceInv, SourceInv', CallInv, [Next]_vars
                 PROVE  CallInv'
    OBVIOUS
  <2>2. clock' \in Nat /\ tries' \in Nat
    BY <2>1, BoundTypes DEF SourceInv, GatewayTypes
  <2>3. CASE FakeTcp \/ CallSend
    BY <2>1, <2>2, <2>3, SendStartsInTime
  <2>4. CASE SendAndWait
    BY <2>1, <2>4, TryStartsInTime, RefusedInTime DEF SendAndWait
  <2>5. CASE Signalled \/ TimesOut
    BY <2>1, <2>5, WaitEndsInTime
  <2>6. CASE Read \/ SourceEnds
    <3>1. src' \in {"send", "closed"}
      BY <2>6 DEF Read, SourceEnds
    <3>2. QED
      BY <3>1 DEF CallInv, CallIsBounded, WaitIsBounded
  <2>7. CASE Deliver \/ Recv \/ UNCHANGED vars
    <3>1. UNCHANGED <<src, clock, tries, timeout, sentAt>>
      BY <2>7 DEF Deliver, Recv, vars, sourceVars
    <3>2. QED
      BY <2>1, <3>1
         DEF CallInv, CallIsBounded, WaitIsBounded, Called, Held, Units
  <2>8. QED
    BY <2>1, <2>3, <2>4, <2>5, <2>6, <2>7 DEF Next, SourceStep
<1>3. QED
  BY SourceInductive, <1>1, <1>2, PTL DEF Spec

\* A call of mic_tcp_send holds the gateway for TIMEOUT, and what the system adds, at
\* most for each time it sends (mictcp.c: the deadline without a carry).
THEOREM CallsAreBounded == Spec => []CallIsBounded
BY CallInductive, PTL DEF CallInv

(***************************************************************************)
(* The stalls of the plain mode.                                           *)
(***************************************************************************)
\* A stall was `count' packets ago: those before it are two seconds old at least.
StalledSince ==
    transport = "tcp" =>
      /\ count <= PERIOD
      /\ \A k \in DOMAIN sentAt :
           k + count < Len(sentAt) => clock - sentAt[k] >= 2 * SECOND

StallInv == StalledSince /\ TcpStalls

LEMMA SendUdpStalls ==
    ASSUME SourceInv, SentBefore, StallInv, FakeTcp, clock' \in Nat
    PROVE  StallInv'
<1> DEFINE n == Len(sentAt)
<1>1. /\ transport' = transport /\ transport = "tcp"
      /\ sentAt' = Append(sentAt, clock')
      /\ count = PERIOD => count' = 0 /\ clock' = clock + 2 * SECOND
      /\ count # PERIOD => count' = count + 1 /\ clock' = clock
  BY DEF FakeTcp, SendUdp, Count, constVars
<1>2. /\ clock \in Nat /\ count \in Nat /\ sentAt \in Seq(Nat) /\ n \in Nat
      /\ DOMAIN sentAt = 1 .. n
      /\ 2 * SECOND \in Nat /\ PERIOD \in Nat
  BY SecondType, BoundTypes DEF SourceInv, GatewayTypes
<1>3. /\ Len(sentAt') = n + 1 /\ DOMAIN sentAt' = 1 .. n + 1
      /\ \A k \in 1 .. n : sentAt'[k] = sentAt[k] /\ sentAt[k] \in Nat
      /\ sentAt'[n + 1] = clock'
  <2>1. sentAt' \in Seq(Nat) /\ Len(sentAt') = n + 1
    BY <1>1, <1>2, AppendProperties
  <2>2. QED
    BY <1>1, <1>2, <2>1, AppendProperties
<1> HIDE DEF n
<1>4. count <= PERIOD
  BY <1>1 DEF StallInv, StalledSince
<1>5. \A k \in 1 .. n : k + count < n => clock - sentAt[k] >= 2 * SECOND
  BY <1>1, <1>2 DEF StallInv, StalledSince, n
<1>6. \A k \in 1 .. n : sentAt[k] <= clock
  BY <1>2 DEF SentBefore
<1>7. ASSUME NEW k \in 1 .. n + 1, k + count' < n + 1
      PROVE  clock' - sentAt'[k] >= 2 * SECOND
  <2>1. CASE count = PERIOD
    <3>1. k \in 1 .. n /\ sentAt[k] <= clock /\ sentAt'[k] = sentAt[k]
          /\ sentAt[k] \in Nat
      BY <1>1, <1>2, <1>3, <1>6, <1>7, <2>1
    <3>2. QED
      BY <1>1, <1>2, <2>1, <3>1
  <2>2. CASE count # PERIOD
    <3>1. k \in 1 .. n /\ k + count < n
      BY <1>1, <1>2, <1>7, <2>2
    <3>2. sentAt'[k] = sentAt[k] /\ clock' = clock
      BY <1>1, <1>3, <2>2, <3>1
    <3>3. QED
      BY <1>5, <3>1, <3>2
  <2>3. QED
    BY <2>1, <2>2
<1>8. StalledSince'
  <2>1. count' <= PERIOD
    BY <1>1, <1>2, <1>4
  <2>2. QED
    BY <1>3, <1>7, <2>1 DEF StalledSince
<1>9. TcpStalls'
  <2>1. SUFFICES ASSUME NEW k \in 1 .. n + 1, k + PERIOD + 1 \in 1 .. n + 1
                 PROVE  sentAt'[k + PERIOD + 1] - sentAt'[k] >= 2 * SECOND
    BY <1>3 DEF TcpStalls
  <2>2. k \in 1 .. n
    BY <1>2, <2>1
  <2>3. CASE k + PERIOD + 1 = n + 1
    <3>1. k + count' < n + 1
      BY <1>1, <1>2, <1>4, <2>2, <2>3
    <3>2. QED
      BY <1>3, <1>7, <2>3, <3>1
  <2>4. CASE k + PERIOD + 1 # n + 1
    <3>1. k + PERIOD + 1 \in 1 .. n
      BY <1>2, <2>1, <2>4
    <3>2. sentAt[k + PERIOD + 1] - sentAt[k] >= 2 * SECOND
      BY <1>1, <1>2, <2>2, <3>1 DEF StallInv, TcpStalls
    <3>3. QED
      BY <1>3, <2>2, <3>1, <3>2
  <2>5. QED
    BY <2>3, <2>4
<1>10. QED
  BY <1>8, <1>9 DEF StallInv

LEMMA StallInductive == Spec => []StallInv
<1>1. Init => StallInv
  <2>1. SUFFICES ASSUME Init PROVE StallInv
    OBVIOUS
  <2>2. DOMAIN sentAt = {} /\ count = 0
    BY <2>1 DEF Init
  <2>3. QED
    BY <2>2, BoundTypes DEF StallInv, StalledSince, TcpStalls
<1>2. SourceInv /\ SourceInv' /\ PacingInv /\ StallInv /\ [Next]_vars => StallInv'
  <2>1. SUFFICES ASSUME SourceInv, SourceInv', PacingInv, StallInv, [Next]_vars
                 PROVE  StallInv'
    OBVIOUS
  <2>2. clock' \in Nat /\ clock \in Nat /\ sentAt \in Seq(Nat) /\ 2 * SECOND \in Nat
    BY <2>1, SecondType DEF SourceInv, GatewayTypes
  <2>3. CASE FakeTcp
    BY <2>1, <2>2, <2>3, SendUdpStalls DEF PacingInv
  <2>4. CASE CallSend /\ UNCHANGED constVars
    BY <2>4 DEF CallSend, StallInv, StalledSince, TcpStalls, constVars
  <2>5. CASE ~ FakeTcp /\ ~ (CallSend /\ UNCHANGED constVars)
    <3>1. UNCHANGED <<transport, count, sentAt>>
      BY <2>1, <2>5
         DEF Next, SourceStep, Read, SendAndWait, Signalled, TimesOut,
             SourceEnds, Deliver, Recv, vars, sourceVars, constVars
    <3>2. clock' >= clock
      BY <2>1, StepsOfTheSource, ReadWaits DEF PacingInv, Hands, Passes
    <3>3. \A k \in DOMAIN sentAt :
            clock - sentAt[k] >= 2 * SECOND => clock' - sentAt[k] >= 2 * SECOND
      BY <2>2, <3>2, ElementType
    <3>4. StalledSince'
      BY <2>1, <3>1, <3>3 DEF StallInv, StalledSince
    <3>5. TcpStalls'
      BY <2>1, <3>1 DEF StallInv, TcpStalls
    <3>6. QED
      BY <3>4, <3>5 DEF StallInv
  <2>6. QED
    BY <2>3, <2>4, <2>5
<1>3. QED
  BY SourceInductive, PacingInductive, <1>1, <1>2, PTL DEF Spec

\* In the plain mode any PERIOD + 2 packets in a row take two seconds at least
\* (gateway.c: count++ == 600 and sleep(2) in file_to_faketcp).
THEOREM PlainModeStalls == Spec => []TcpStalls
BY StallInductive, PTL DEF StallInv

(***************************************************************************)
(* The end of the file.                                                    *)
(***************************************************************************)
\* Each message that was read has a result, but for the call under way.
OneResultPerCall ==
    transport = "mictcp" =>
      /\ src \in {"read", "closed"} => Len(results) = nb
      /\ src \in {"send", "try", "wait"} => Len(results) = nb - 1

InOrder ==
    /\ transport = "mictcp" => \A i \in DOMAIN delivered : delivered[i] <= nb
    /\ \A i \in DOMAIN delivered : delivered[i] > 0
    /\ \A i, j \in DOMAIN delivered : i < j => delivered[i] <= delivered[j]

\* The player is sent what was delivered, up to the first message of no bytes.
PlayedAsDelivered ==
    transport = "mictcp" =>
      /\ nread <= Len(delivered) /\ Len(udp) <= nread
      /\ sink = "recv" => Len(udp) = nread
      /\ \A i \in DOMAIN udp : udp[i] = delivered[i] /\ ~ Ends(udp[i])
      /\ sink = "closed" => nread > 0 /\ Ends(delivered[nread])

SinkInv == OneResultPerCall /\ InOrder /\ PlayedAsDelivered

LEMMA ReturnCounts ==
    ASSUME SourceInv, NEW end \in {"acked", "lost", "error"}, Return(end)
    PROVE  Len(results') = Len(results) + 1 /\ src' = "read"
BY ReturnTypes DEF SourceInv, Return

LEMMA SourceKeepsSink ==
    ASSUME SourceInv, SinkInv, SourceStep
    PROVE  SinkInv'
<1>1. UNCHANGED <<transport, filefd, delivered, nread, sink, udp>>
  BY DEF SourceStep, constVars
<1>2. nb \in Nat /\ delivered \in Seq(Nat) /\ nb' \in {nb, nb + 1}
  BY DEF SourceInv, GatewayTypes, SourceStep, Read, CallSend, SendAndWait,
      Signalled, TimesOut, SourceEnds
<1>3. OneResultPerCall'
  <2>1. CASE Read
    BY <1>1, <1>2, <2>1 DEF Read, SinkInv, OneResultPerCall
  <2>2. CASE \E end \in {"acked", "lost", "error"} :
               Return(end) /\ nb' = nb /\ src \in {"send", "try", "wait"}
    <3>1. Len(results') = Len(results) + 1 /\ src' = "read"
      BY <2>2, ReturnCounts
    <3>2. QED
      BY <1>1, <1>2, <2>2, <3>1 DEF SinkInv, OneResultPerCall
  <2>3. CASE /\ results' = results /\ nb' = nb
             /\ \/ src \in {"send", "try", "wait"} /\ src' \in {"try", "wait"}
                \/ src = "read" /\ src' = "closed"
    BY <1>1, <2>3 DEF SinkInv, OneResultPerCall
  <2>4. QED
    BY <2>1, <2>2, <2>3
       DEF SourceStep, CallSend, SendAndWait, Try, Signalled, TimesOut,
           SourceEnds
<1>4. InOrder'
  <2>1. \A i \in DOMAIN delivered : delivered[i] \in Nat
    BY <1>2, ElementType
  <2>2. QED
    BY <1>1, <1>2, <2>1 DEF SinkInv, InOrder
<1>5. PlayedAsDelivered'
  BY <1>1 DEF SinkInv, PlayedAsDelivered, Ends, read_rtp_packet, EndRead
<1>6. QED
  BY <1>3, <1>4, <1>5 DEF SinkInv

LEMMA FakeTcpKeepsSink ==
    ASSUME SinkInv, FakeTcp
    PROVE  SinkInv'
BY DEF SinkInv, FakeTcp, SendUdp, OneResultPerCall, InOrder, PlayedAsDelivered,
       Ends, read_rtp_packet, EndRead, constVars

LEMMA DeliverKeepsSink ==
    ASSUME SourceInv, SinkInv, Deliver
    PROVE  SinkInv'
<1> DEFINE n == Len(delivered)
<1>1. PICK m \in Nat : /\ delivered' = Append(delivered, m)
                       /\ m <= Sent
                       /\ delivered = <<>> => m > 0
                       /\ delivered # <<>> => delivered[Len(delivered)] <= m
  BY DeliverEffect DEF SourceInv
<1>2. UNCHANGED <<transport, filefd, src, nb, results, nread, sink, udp>>
  BY DEF Deliver, constVars, Service!Deliver
<1>3. delivered \in Seq(Nat) /\ n \in Nat /\ nb \in Nat /\ nread \in Nat
      /\ DOMAIN delivered = 1 .. n /\ udp \in Seq(Nat)
  BY DEF SourceInv, GatewayTypes
<1>4. /\ DOMAIN delivered' = 1 .. n + 1 /\ Len(delivered') = n + 1
      /\ \A i \in 1 .. n : delivered'[i] = delivered[i] /\ delivered[i] \in Nat
      /\ delivered'[n + 1] = m
  <2>1. delivered' \in Seq(Nat) /\ Len(delivered') = n + 1
    BY <1>1, <1>3, AppendProperties
  <2>2. QED
    BY <1>1, <1>3, <2>1, AppendProperties
<1>5. n > 0 => delivered # <<>> /\ delivered[n] <= m
  BY <1>1
<1> HIDE DEF n
<1>6. OneResultPerCall'
  BY <1>2 DEF SinkInv, OneResultPerCall
<1>7. transport = "mictcp" => m <= nb
  <2>1. transport = "mictcp" => Sent <= nb
    BY <1>3 DEF SinkInv, OneResultPerCall, Sent, SourceInv, GatewayTypes
  <2>2. Sent \in Nat
    BY DEF SourceInv, GatewayTypes, Sent
  <2>3. QED
    BY <1>1, <1>3, <2>1, <2>2
<1>8. InOrder'
  <2>0. /\ \A i, j \in 1 .. n : i < j => delivered[i] <= delivered[j]
        /\ \A i \in 1 .. n : delivered[i] > 0
        /\ transport = "mictcp" => \A i \in 1 .. n : delivered[i] <= nb
    BY <1>3 DEF SinkInv, InOrder
  <2>1. ASSUME NEW i \in 1 .. n + 1, NEW j \in 1 .. n + 1, i < j
        PROVE  delivered'[i] <= delivered'[j]
    <3>1. i \in 1 .. n /\ n \in 1 .. n
      BY <1>3, <2>1
    <3>2. CASE j = n + 1
      <4>1. delivered[i] \in Nat /\ delivered[n] \in Nat /\ delivered[n] <= m
        BY <1>3, <1>4, <1>5, <3>1
      <4>2. delivered[i] <= delivered[n]
        BY <1>3, <2>0, <3>1, <4>1
      <4>3. QED
        BY <1>4, <3>1, <3>2, <4>1, <4>2
    <3>3. CASE j # n + 1
      BY <1>3, <1>4, <2>0, <2>1, <3>1, <3>3
    <3>4. QED
      BY <3>2, <3>3
  <2>2. transport = "mictcp" => \A i \in 1 .. n + 1 : delivered'[i] <= nb
    <3>1. SUFFICES ASSUME transport = "mictcp", NEW i \in 1 .. n + 1
                   PROVE  delivered'[i] <= nb
      OBVIOUS
    <3>2. CASE i = n + 1
      BY <1>4, <1>7, <3>1, <3>2
    <3>3. CASE i # n + 1
      BY <1>3, <1>4, <2>0, <3>1, <3>3
    <3>4. QED
      BY <3>2, <3>3
  <2>3. \A i \in 1 .. n + 1 : delivered'[i] > 0
    <3>1. m > 0
      <4>1. CASE delivered = <<>>
        BY <1>1, <4>1
      <4>2. CASE delivered # <<>>
        <5>1. n \in 1 .. n /\ delivered[n] <= m
          BY <1>1, <1>3, <4>2 DEF n
        <5>2. delivered[n] \in Nat /\ delivered[n] > 0
          BY <1>4, <2>0, <5>1
        <5>3. QED
          BY <5>1, <5>2
      <4>3. QED
        BY <4>1, <4>2
    <3>2. QED
      BY <1>3, <1>4, <2>0, <3>1
  <2>4. QED
    BY <1>2, <1>4, <2>1, <2>2, <2>3 DEF InOrder
<1>9. PlayedAsDelivered'
  <2>1. SUFFICES ASSUME transport = "mictcp"
                 PROVE  PlayedAsDelivered'
    BY <1>2 DEF PlayedAsDelivered
  <2>2. /\ nread <= n /\ Len(udp) <= nread
        /\ sink = "recv" => Len(udp) = nread
        /\ \A i \in DOMAIN udp : udp[i] = delivered[i] /\ ~ Ends(udp[i])
        /\ sink = "closed" => nread > 0 /\ Ends(delivered[nread])
    BY <2>1 DEF SinkInv, PlayedAsDelivered, n
  <2>3. \A i \in DOMAIN udp : i \in 1 .. n
    BY <1>3, <2>2
  <2>4. sink = "closed" => nread \in 1 .. n
    BY <1>3, <2>2
  <2>5. \A k : Ends(k)' <=> Ends(k)
    BY <1>2 DEF Ends, read_rtp_packet, EndRead
  <2>6. QED
    BY <1>2, <1>3, <1>4, <2>2, <2>3, <2>4, <2>5 DEF PlayedAsDelivered
<1>10. QED
  BY <1>6, <1>8, <1>9 DEF SinkInv

LEMMA RecvKeepsSink ==
    ASSUME SourceInv, SinkInv, Recv
    PROVE  SinkInv'
<1> DEFINE m == delivered[nread + 1]
<1>1. /\ UNCHANGED <<transport, filefd, src, nb, results, delivered>>
      /\ sink = "recv" /\ nread < Len(delivered) /\ nread' = nread + 1
      /\ Ends(m) => sink' = "closed" /\ udp' = udp
      /\ ~ Ends(m) => sink' = sink /\ udp' = Append(udp, m)
  BY DEF Recv, sourceVars, constVars
<1>2. delivered \in Seq(Nat) /\ nread \in Nat /\ udp \in Seq(Nat)
  BY DEF SourceInv, GatewayTypes
<1>3. nread + 1 \in DOMAIN delivered /\ m \in Nat
  BY <1>1, <1>2
<1>4. OneResultPerCall' /\ InOrder'
  BY <1>1 DEF SinkInv, OneResultPerCall, InOrder
<1>5. PlayedAsDelivered'
  <2>1. SUFFICES ASSUME transport = "mictcp"
                 PROVE  PlayedAsDelivered'
    BY <1>1 DEF PlayedAsDelivered
  <2>2. /\ Len(udp) = nread
        /\ \A i \in DOMAIN udp : udp[i] = delivered[i] /\ ~ Ends(udp[i])
    BY <1>1, <2>1 DEF SinkInv, PlayedAsDelivered
  <2>3. \A k : Ends(k)' <=> Ends(k)
    BY <1>1 DEF Ends, read_rtp_packet, EndRead
  <2>4. CASE Ends(m)
    BY <1>1, <1>2, <2>2, <2>3, <2>4 DEF PlayedAsDelivered
  <2>5. CASE ~ Ends(m)
    <3>1. m \in Nat /\ udp' = Append(udp, m) /\ sink' = "recv"
      BY <1>1, <1>3, <2>5
    <3> HIDE DEF m
    <3>2. /\ Len(udp') = nread + 1 /\ DOMAIN udp' = 1 .. nread + 1
          /\ DOMAIN udp = 1 .. nread
          /\ \A i \in 1 .. nread : udp'[i] = udp[i]
          /\ udp'[nread + 1] = m
      <4>1. udp' \in Seq(Nat) /\ Len(udp') = nread + 1
        BY <1>2, <2>2, <3>1, AppendProperties
      <4>2. QED
        BY <1>2, <2>2, <3>1, <4>1, AppendProperties
    <3>3. m = delivered[nread + 1]
      BY DEF m
    <3>4. \A i \in 1 .. nread + 1 : udp'[i] = delivered[i] /\ ~ Ends(udp'[i])
      <4>1. SUFFICES ASSUME NEW i \in 1 .. nread + 1
                     PROVE  udp'[i] = delivered[i] /\ ~ Ends(udp'[i])
        OBVIOUS
      <4>2. CASE i = nread + 1
        BY <2>5, <3>2, <3>3, <4>2
      <4>3. CASE i # nread + 1
        <5>1. i \in 1 .. nread
          BY <1>2, <4>3
        <5>2. QED
          BY <2>2, <3>2, <5>1
      <4>4. QED
        BY <4>2, <4>3
    <3>5. QED
      BY <1>1, <1>2, <2>3, <3>1, <3>2, <3>4 DEF PlayedAsDelivered
  <2>6. QED
    BY <2>4, <2>5
<1>6. QED
  BY <1>4, <1>5 DEF SinkInv

LEMMA SinkInductive == Spec => []SinkInv
<1>1. Init => SinkInv
  BY DEF Init, SinkInv, OneResultPerCall, InOrder, PlayedAsDelivered
<1>2. SinkInv /\ UNCHANGED vars => SinkInv'
  BY DEF SinkInv, OneResultPerCall, InOrder, PlayedAsDelivered, Ends,
         read_rtp_packet, EndRead, vars, sourceVars, constVars
<1>3. SourceInv /\ SinkInv /\ [Next]_vars => SinkInv'
  BY <1>2, SourceKeepsSink, FakeTcpKeepsSink, DeliverKeepsSink, RecvKeepsSink
     DEF Next
<1>4. QED
  BY SourceInductive, <1>1, <1>3, PTL DEF Spec

\* For every file, with records of size 0 or without: the sink stops on a message
\* of no bytes that the source has read, and all the player was sent comes before
\* it in the file and has bytes; where no record has size 0 the source was at the
\* end of its file (gateway.c: mictcp_to_udp and its nb_read <= 0).
THEOREM SinkEndsWithAnEmptyPacket == Spec => []EndsWithAnEmptyPacket
<1>1. ASSUME SourceInv, SinkInv, transport = "mictcp"
      PROVE  EndsWithAnEmptyPacket
  <2>1. /\ delivered \in Seq(Nat) /\ nread \in Nat /\ udp \in Seq(Nat)
        /\ filefd \in Seq(Records) /\ nb \in Nat
        /\ LastRead \in Nat /\ EndRead \in Nat /\ EndRead = Len(filefd) + 1
        /\ LastRead <= EndRead /\ nb <= LastRead
    BY <1>1, LastReadType DEF SourceInv, GatewayTypes, ReadsToTheEnd
  <2>2. /\ nread <= Len(delivered) /\ Len(udp) <= nread
        /\ sink = "recv" => Len(udp) = nread
        /\ \A i \in DOMAIN udp : udp[i] = delivered[i] /\ ~ Ends(udp[i])
        /\ sink = "closed" => nread > 0 /\ Ends(delivered[nread])
    BY <1>1 DEF SinkInv, PlayedAsDelivered
  <2>3. /\ \A i \in DOMAIN delivered : delivered[i] <= nb /\ delivered[i] > 0
        /\ \A i, j \in DOMAIN delivered : i < j => delivered[i] <= delivered[j]
    BY <1>1 DEF SinkInv, InOrder
  <2>4. \A i \in DOMAIN udp : i \in DOMAIN delivered /\ i <= nread
    BY <2>1, <2>2
  <2>5. ASSUME NEW i \in DOMAIN udp
        PROVE  /\ udp[i] <= nb /\ udp[i] < EndRead
               /\ filefd[udp[i]].size > 0
    <3>1. udp[i] \in Nat /\ udp[i] > 0 /\ udp[i] <= nb
      BY <2>1, <2>2, <2>3, <2>4, <2>5
    <3>2. udp[i] < EndRead /\ filefd[udp[i]].size # 0
      BY <2>2, <2>5, <3>1 DEF Ends, read_rtp_packet
    <3>3. filefd[udp[i]] \in Records
      BY <2>1, <3>1, <3>2, ElementType
    <3>4. QED
      BY <3>1, <3>2, <3>3 DEF Records
  <2>6. \A i, j \in DOMAIN udp : i < j => udp[i] <= udp[j]
    BY <2>2, <2>3, <2>4
  <2>7. ASSUME sink = "closed"
        PROVE  /\ \E m \in 1 .. nb : /\ read_rtp_packet(m).size = 0
                                     /\ \A i \in DOMAIN udp : udp[i] < m
               /\ (\A n \in DOMAIN filefd : filefd[n].size > 0) =>
                    eof /\ nb = EndRead
    <3> DEFINE m == delivered[nread]
    <3>1. nread \in DOMAIN delivered /\ m \in Nat /\ m \in 1 .. nb /\ Ends(m)
      BY <2>1, <2>2, <2>3, <2>7
    <3>2. ASSUME NEW i \in DOMAIN udp
          PROVE  udp[i] < m
      <4>1. i \in DOMAIN delivered /\ i <= nread
        BY <2>4
      <4>2. delivered[i] <= m /\ delivered[i] \in Nat
        BY <2>1, <2>3, <3>1, <4>1
      <4>3. udp[i] = delivered[i] /\ udp[i] # m
        BY <2>2, <3>1
      <4>4. QED
        BY <3>1, <4>2, <4>3
    <3>3. ASSUME \A n \in DOMAIN filefd : filefd[n].size > 0
          PROVE  eof /\ nb = EndRead
      <4>1. ~ m < EndRead
        BY <2>1, <3>1, <3>3 DEF Ends, read_rtp_packet
      <4>2. nb = EndRead /\ nb = LastRead
        BY <2>1, <3>1, <4>1
      <4>3. QED
        BY <1>1, <4>2 DEF SourceInv, ReadsToTheEnd
    <3>4. QED
      BY <3>1, <3>2, <3>3 DEF Ends
  <2>8. QED
    BY <2>5, <2>6, <2>7 DEF EndsWithAnEmptyPacket
<1>2. SourceInv /\ SinkInv => EndsWithAnEmptyPacket
  BY <1>1 DEF EndsWithAnEmptyPacket
<1>3. QED
  BY SourceInductive, SinkInductive, <1>2, PTL
=============================================================================
