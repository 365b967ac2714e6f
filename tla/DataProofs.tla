----------------------------- MODULE DataProofs -----------------------------
(***************************************************************************)
(* What a connection does with the messages, for every value of the        *)
(* constants: the sends implement the policy of partial reliability, and   *)
(* the two ends implement the service of Transfer.                         *)
(***************************************************************************)
EXTENDS MeasureProofs

(***************************************************************************)
(* Partial reliability.                                                    *)
(***************************************************************************)
\* One more result moves the earlier ones by a position, unless it is -1.
LEMMA ResultShifts ==
    ASSUME results \in Seq(SendEnds), NEW end \in SendEnds,
           results' = Append(results, end), NEW n, n = message
    PROVE  /\ \A m \in DOMAIN results :
                /\ ShiftsSince(m) \in Nat
                /\ ShiftsSince(m)'
                     = ShiftsSince(m) + (IF end = "error" THEN 0 ELSE 1)
           /\ ShiftsSince(n)' = 0
           /\ Ended({"lost"})'
                = Ended({"lost"}) \cup (IF end = "lost" THEN {n} ELSE {})
           /\ n \notin DOMAIN results
<1> DEFINE r == Append(results, end)
<1>1. /\ n \in Nat /\ n - 1 \in Nat /\ DOMAIN results = 1 .. n - 1
      /\ DOMAIN r = 1 .. n /\ r[n] = end
      /\ \A i \in 1 .. n - 1 : r[i] = results[i]
  BY LenProperties, AppendProperties DEF message
<1>3. ASSUME NEW m \in DOMAIN results
      PROVE  /\ ShiftsSince(m) \in Nat
             /\ ShiftsSince(m)'
                  = ShiftsSince(m) + (IF end = "error" THEN 0 ELSE 1)
  <2> DEFINE old == { k \in DOMAIN results : k > m /\ results[k] # "error" }
             new == { k \in DOMAIN r : k > m /\ r[k] # "error" }
  <2>1. IsFiniteSet(old) /\ Cardinality(old) \in Nat
    <3>1. IsFiniteSet(1 .. n - 1)
      BY <1>1, FS_Interval
    <3>2. old \subseteq 1 .. n - 1
      BY <1>1
    <3> HIDE DEF old
    <3>3. QED
      BY <3>1, <3>2, FS_Subset, FS_CardinalityType
  <2>2. /\ ShiftsSince(m) = Cardinality(old)
        /\ ShiftsSince(m)' = Cardinality(new)
    BY DEF ShiftsSince
  <2>3. new = IF end = "error" THEN old ELSE old \cup {n}
    BY <1>1 DEF r
  <2>4. n \notin old
    BY <1>1
  <2> HIDE DEF old, new
  <2>5. Cardinality(old \cup {n}) = Cardinality(old) + 1
    BY <2>1, <2>4, FS_AddElement
  <2>6. QED
    BY <2>1, <2>2, <2>3, <2>5
<1>4. ShiftsSince(n)' = 0
  <2>1. { k \in DOMAIN r : k > n /\ r[k] # "error" } = {}
    BY <1>1
  <2>2. QED
    BY <2>1, FS_EmptySet DEF ShiftsSince
<1>5. Ended({"lost"})'
        = Ended({"lost"}) \cup (IF end = "lost" THEN {n} ELSE {})
  BY <1>1 DEF Ended
<1>6. QED
  BY <1>1, <1>3, <1>4, <1>5
\* What a call of mic_tcp_send that ends does to the sends the window stands for.
LEMMA LostPositionsShift ==
    ASSUME TypeInv, NEW end \in SendEnds, results' = Append(results, end)
    PROVE  LostPositions' =
             IF end = "error" THEN LostPositions
             ELSE Shift(LostPositions, sliding_window_size)
                    \cup (IF end = "lost" THEN {0} \cap Positions(sliding_window_size)
                          ELSE {})
<1> SUFFICES ASSUME NEW n, n = message
             PROVE  LostPositions' =
                      IF end = "error" THEN LostPositions
                      ELSE Shift(LostPositions, sliding_window_size)
                             \cup (IF end = "lost"
                                   THEN {0} \cap Positions(sliding_window_size)
                                   ELSE {})
  OBVIOUS
<1>0. sliding_window_size \in Nat
  BY ClientAssumption
<1>1. results \in Seq(SendEnds) /\ Ended({"lost"}) \subseteq DOMAIN results
  BY DEF TypeInv, ClientTypeOK, Ended
<1>2. /\ \A m \in DOMAIN results :
           /\ ShiftsSince(m) \in Nat
           /\ ShiftsSince(m)' = ShiftsSince(m) + (IF end = "error" THEN 0 ELSE 1)
      /\ ShiftsSince(n)' = 0
      /\ Ended({"lost"})'
           = Ended({"lost"}) \cup (IF end = "lost" THEN {n} ELSE {})
      /\ n \notin DOMAIN results
  BY <1>1, ResultShifts
<1>3. LostPositions'
        = { ShiftsSince(m)' : m \in Ended({"lost"})' } \cap Positions(sliding_window_size)
  BY DEF LostPositions
<1>4. CASE end = "error"
  BY <1>1, <1>2, <1>3, <1>4 DEF LostPositions
<1>5. CASE end # "error"
  <2>1. { ShiftsSince(m) + 1 : m \in Ended({"lost"}) } \cap Positions(sliding_window_size)
          = Shift(LostPositions, sliding_window_size)
    BY <1>0, <1>1, <1>2 DEF LostPositions, Shift, Positions
  <2>2. { ShiftsSince(m)' : m \in Ended({"lost"}) }
          = { ShiftsSince(m) + 1 : m \in Ended({"lost"}) }
    BY <1>1, <1>2, <1>5
  <2>3. CASE end = "lost"
    <3>1. { ShiftsSince(m)' : m \in Ended({"lost"})' }
            = { ShiftsSince(m)' : m \in Ended({"lost"}) } \cup { ShiftsSince(n)' }
      BY <1>2, <2>3
    <3>2. QED
      BY <1>2, <1>3, <1>5, <2>1, <2>2, <2>3, <3>1
  <2>4. CASE end # "lost"
    BY <1>2, <1>3, <1>5, <2>1, <2>2, <2>4
  <2>5. QED
    BY <2>3, <2>4
<1>6. QED
  BY <1>4, <1>5

\* mic_tcp_connect is over and measures no more.
AfterConnect == MeasuringInProbe /\ pc["client"] \notin Connecting

LEMMA StaysAfterConnect ==
    /\ InitConnected => AfterConnect
    /\ TypeInv /\ AfterConnect /\ [Next]_vars => AfterConnect'
<1>1. InitConnected => AfterConnect
  BY DEF InitConnected, AfterConnect, MeasuringInProbe, Connecting, Both, Ends
<1>2. ASSUME TypeInv, AfterConnect, ClientStep \/ Call
      PROVE  AfterConnect'
  BY <1>2, TheEnds, ClientMeasures DEF AfterConnect
<1>3. ASSUME TypeInv, AfterConnect, ServerStep
      PROVE  AfterConnect'
  BY <1>3, TheEnds, ServerApart DEF TypeInv, AfterConnect, MeasuringInProbe,
      Untouched
<1>4. AfterConnect /\ UNCHANGED vars => AfterConnect'
  BY DEF AfterConnect, MeasuringInProbe, vars, endVars
<1>5. QED
  BY <1>1, <1>2, <1>3, <1>4 DEF Next

\* A call of mic_tcp_send returns, and what it has then done to the window.
CallEnds(end) ==
    /\ pc["client"] \in {"idle", "send", "sendlock", "sendwait"}
    /\ results' = Append(results, end)
    /\ end = "error" => UNCHANGED sliding_window
    /\ end = "acked" =>
         /\ pc["client"] = "sendwait" /\ seq["client"] = packet.expected_ack_num
         /\ sliding_window' =
              update_sliding_window(sliding_window, sliding_window_size, TRUE)
    /\ end = "lost" =>
         /\ verify_acceptable_loss(sliding_window, sliding_window_size, tolerance)
         /\ sliding_window' =
              update_sliding_window(sliding_window, sliding_window_size, FALSE)

\* Nothing else touches the results or the window.
LEMMA ClientEndsCalls ==
    ASSUME TypeInv, AfterConnect, ClientStep \/ Call
    PROVE  /\ tolerance' = tolerance
           /\ \/ UNCHANGED <<sliding_window, results>>
              \/ \E end \in SendEnds : CallEnds(end)
<1> USE TheEnds DEF CallEnds
<1>1. CASE Connect
  BY <1>1
  DEF Connect, SendSyn, RecvWhileConnecting, SynTimesOut, Acknowledge, Spawn,
      SpawnFails, StartMeasuring, SendProbe, AcceptChannel, RefuseChannel,
      Measured, Connecting, AfterConnect
<1>2. CASE CallSend \/ SendPacket \/ SendWaitFails
  <2>1. UNCHANGED <<tolerance, sliding_window>>
    BY <1>2 DEF CallSend, SendPacket, SendWaitFails
  <2>2. UNCHANGED results \/ CallEnds("error")
    BY <1>2, <2>1 DEF CallSend, SendPacket, SendWaitFails, Return
  <2>3. QED
    BY <2>1, <2>2 DEF SendEnds
<1>3. CASE SendWakes
  <2>1. tolerance' = tolerance
    BY <1>3 DEF SendWakes
  <2>2. UNCHANGED <<sliding_window, results>> \/ CallEnds("acked")
    BY <1>3 DEF SendWakes, Windowed, Retry, Return
  <2>3. QED
    BY <2>1, <2>2 DEF SendEnds
<1>4. CASE SendTimesOut
  <2>1. tolerance' = tolerance
    BY <1>4 DEF SendTimesOut
  <2>2. UNCHANGED <<sliding_window, results>> \/ CallEnds("lost")
    BY <1>4 DEF SendTimesOut, Windowed, Retry, Return
  <2>3. QED
    BY <2>1, <2>2 DEF SendEnds
<1>5. CASE BuildPacket \/ SendWaitStarts \/ CallClose \/ ClientNet
           \/ (Close(me) /\ UNCHANGED clientVars)
  BY <1>5
  DEF BuildPacket, SendWaitStarts, CallClose, ClientNet, ProbeAcknowledged,
      clientVars
<1>6. QED
  BY <1>1, <1>2, <1>3, <1>4, <1>5
  DEF ClientStep, Call, ClientMain, Send, ClientApplication

\* The library's Cardinality, seen through the instance.
LEMMA PolicyCounts == \A S : Policy!Cardinality(S) = Cardinality(S)
BY DEF Policy!Cardinality, Cardinality

LEMMA PolicyStep ==
    ASSUME TypeInv, AfterConnect, [Next]_vars
    PROVE  [Policy!Next]_(Policy!policyVars)
<1>1. CASE ClientStep \/ Call
  <2>1. UNCHANGED tolerance
    BY <1>1, ClientEndsCalls
  <2>2. CASE UNCHANGED <<sliding_window, results>>
    <3>1. LostPositions' = LostPositions
      BY <2>2 DEF LostPositions, ShiftsSince, Ended
    <3>2. QED
      BY <2>1, <2>2, <3>1 DEF Policy!policyVars
  <2>3. CASE ~ UNCHANGED <<sliding_window, results>>
    <3>1. PICK end \in SendEnds : CallEnds(end)
      BY <1>1, <2>3, ClientEndsCalls
    <3>2. LostPositions' =
            IF end = "error" THEN LostPositions
            ELSE Shift(LostPositions, sliding_window_size)
                   \cup (IF end = "lost" THEN {0} \cap Positions(sliding_window_size)
                         ELSE {})
      BY <3>1, LostPositionsShift DEF CallEnds
    <3>3. CASE end = "error"
      BY <2>1, <3>1, <3>2, <3>3 DEF CallEnds, Policy!policyVars
    <3>4. CASE end = "acked"
      <4>1. Policy!Acknowledged
        BY <2>1, <3>1, <3>2, <3>4
        DEF CallEnds, Policy!Acknowledged, update_sliding_window, Shift,
            Positions, Policy!update_sliding_window, Policy!Shift,
            Policy!Positions
      <4>2. QED
        BY <4>1 DEF Policy!Next
    <3>5. CASE end = "lost"
      <4>1. Policy!AcceptLoss
        BY <2>1, <3>1, <3>2, <3>5, PolicyCounts
        DEF CallEnds, Policy!AcceptLoss, update_sliding_window, Shift,
            Positions, verify_acceptable_loss, Policy!update_sliding_window,
            Policy!Shift, Policy!Positions, Policy!verify_acceptable_loss
      <4>2. QED
        BY <4>1 DEF Policy!Next
    <3>6. QED
      BY <3>3, <3>4, <3>5 DEF SendEnds
  <2>4. QED
    BY <2>2, <2>3
<1>2. CASE ServerStep \/ UNCHANGED vars
  <2>1. UNCHANGED <<results, sliding_window, tolerance>>
    BY <1>2 DEF ServerStep, clientVars, vars
  <2>2. LostPositions' = LostPositions
    BY <2>1 DEF LostPositions, ShiftsSince, Ended
  <2>3. QED
    BY <2>1, <2>2 DEF Policy!policyVars
<1>3. QED
  BY <1>1, <1>2 DEF Next

LEMMA PolicyStarts == InitConnected => Policy!Init
<1> SUFFICES ASSUME InitConnected
             PROVE  Policy!Init
  OBVIOUS
<1>1. sliding_window = {} /\ tolerance \in 0 .. 3 /\ results = <<>>
  BY DEF InitConnected, InitShared, ConsecutiveLoss
<1>2. LostPositions = {}
  BY <1>1 DEF LostPositions, Ended
<1>3. QED
  BY <1>1, <1>2 DEF Policy!Init

\* Partial reliability on the wire: what the calls of mic_tcp_send of a connection
\* do to the window and give up as lost is what LossPolicy allows, with the
\* tolerance mic_tcp_connect chose, whatever the channel and the threads do.
THEOREM SendsFollowTheLossPolicy == SpecConnected => ImplementsLossPolicy
<1>1. InitConnected => TypeInv /\ AfterConnect /\ Policy!Init
  BY InitialTypes, StaysAfterConnect, PolicyStarts
<1>2. TypeInv /\ AfterConnect /\ [Next]_vars => (TypeInv /\ AfterConnect)'
  BY StepsKeepTypes, StaysAfterConnect
<1>3. TypeInv /\ AfterConnect /\ [Next]_vars => [Policy!Next]_(Policy!policyVars)
  BY PolicyStep
<1>4. QED
  BY <1>1, <1>2, <1>3, PTL DEF SpecConnected, ImplementsLossPolicy, Policy!Spec

\* What the module of the policy proves of it.
Bounds == INSTANCE LossPolicyProofs WITH
              lost <- LostPositions,
              sliding_window_consecutive_loss <- tolerance,
              Tolerances <- 0 .. 3

\* Of the last sliding_window_size sends of a connection that shifted the window, no
\* more were given up as lost than the tolerance mic_tcp_connect chose.
THEOREM LossesInTheWindow ==
    SpecConnected => [](Cardinality(LostPositions) <= tolerance)
<1>1. Policy!Init => Bounds!Init
  BY DEF Policy!Init, Bounds!Init
<1>2. [Policy!Next]_(Policy!policyVars) => [Bounds!Next]_(Bounds!policyVars)
  <2>1. Policy!policyVars = Bounds!policyVars
    BY DEF Policy!policyVars, Bounds!policyVars
  <2>2. Policy!Acknowledged => Bounds!Acknowledged
    BY DEF Policy!Acknowledged, Policy!update_sliding_window, Policy!Shift,
           Policy!Positions, Bounds!Acknowledged, Bounds!update_sliding_window,
           Bounds!Shift, Bounds!Positions
  <2>3. \A S : Policy!Cardinality(S) = Bounds!Cardinality(S)
    BY DEF Policy!Cardinality, Bounds!Cardinality
  <2>4. Policy!AcceptLoss => Bounds!AcceptLoss
    BY <2>3
    DEF Policy!AcceptLoss, Policy!update_sliding_window, Policy!Shift,
        Policy!Positions, Policy!verify_acceptable_loss, Bounds!AcceptLoss,
        Bounds!update_sliding_window, Bounds!Shift, Bounds!Positions,
        Bounds!verify_acceptable_loss
  <2>5. QED
    BY <2>1, <2>2, <2>4
    DEF Policy!Next, Bounds!Next, Policy!policyVars, Bounds!policyVars
\* The assumption of that module, for these constants, and its theorem.
<1>0. sliding_window_size \in Nat /\ 0 .. 3 \subseteq Nat
  BY ClientAssumption
<1>3. Bounds!Spec => []Bounds!LossBound
  BY <1>0, Bounds!LossesAreBounded
<1>4. Bounds!LossBound => Cardinality(LostPositions) <= tolerance
  BY DEF Bounds!LossBound, Bounds!Cardinality, Cardinality
<1>5. QED
  BY <1>1, <1>2, <1>3, <1>4, SendsFollowTheLossPolicy, PTL
  DEF ImplementsLossPolicy, Policy!Spec, Bounds!Spec
(***************************************************************************)
(* The PDUs under way to an end, in the order they will be dealt with: the *)
(* one its network thread works on, and its queue.                         *)
(***************************************************************************)
Line(first, q, good) == first \in good /\ \A i \in DOMAIN q : q[i] \in good

InOrder(first, q, order) ==
    /\ \A i \in DOMAIN q : <<first, q[i]>> \in order
    /\ \A i, j \in DOMAIN q : i < j => <<q[i], q[j]>> \in order

LEMMA ReadLine ==
    ASSUME NEW S, NEW q \in Seq(S), q # <<>>, NEW first, NEW good, NEW order
    PROVE  /\ Head(q) \in S
           /\ Line(first, q, good) => Line(Head(q), Tail(q), good)
           /\ InOrder(first, q, order) => InOrder(Head(q), Tail(q), order)
<1> DEFINE r == Tail(q)
<1>1. /\ Len(q) \in Nat /\ DOMAIN q = 1 .. Len(q) /\ Len(q) > 0
      /\ r \in Seq(S) /\ DOMAIN r = 1 .. Len(q) - 1
      /\ \A i \in 1 .. Len(q) - 1 : r[i] = q[i + 1]
      /\ Head(q) = q[1] /\ q[1] \in S
  BY LenProperties, HeadTailProperties, EmptySeq
<1> HIDE DEF r
<1>2. Line(first, q, good) => Line(Head(q), r, good)
  BY <1>1 DEF Line
<1>3. InOrder(first, q, order) => InOrder(Head(q), r, order)
  <2> SUFFICES ASSUME InOrder(first, q, order)
               PROVE  InOrder(Head(q), r, order)
    OBVIOUS
  <2>1. ASSUME NEW i \in DOMAIN r
        PROVE  <<q[1], q[i + 1]>> \in order
    <3>1. 1 \in DOMAIN q /\ i + 1 \in DOMAIN q /\ 1 < i + 1
      BY <1>1
    <3>2. QED
      BY <3>1 DEF InOrder
  <2>2. ASSUME NEW i \in DOMAIN r, NEW j \in DOMAIN r, i < j
        PROVE  <<q[i + 1], q[j + 1]>> \in order
    <3>1. i + 1 \in DOMAIN q /\ j + 1 \in DOMAIN q /\ i + 1 < j + 1
      BY <1>1, <2>2
    <3>2. QED
      BY <3>1 DEF InOrder
  <2>3. QED
    BY <1>1, <2>1, <2>2 DEF InOrder
<1>4. QED
  BY <1>1, <1>2, <1>3 DEF r

LEMMA PutLine ==
    ASSUME NEW S, NEW q \in Seq(S), NEW x \in S, NEW first, NEW good, NEW order
    PROVE  /\ Line(first, q, good) /\ x \in good => Line(first, Append(q, x), good)
           /\ InOrder(first, q, order) /\ Line(first, q, { y \in S : <<y, x>> \in order })
                => InOrder(first, Append(q, x), order)
<1> DEFINE r == Append(q, x)
<1>1. /\ Len(q) \in Nat /\ DOMAIN q = 1 .. Len(q)
      /\ DOMAIN r = 1 .. Len(q) + 1 /\ r[Len(q) + 1] = x
      /\ \A i \in 1 .. Len(q) : r[i] = q[i]
  BY LenProperties, AppendProperties
<1> HIDE DEF r
<1>2. Line(first, q, good) /\ x \in good => Line(first, r, good)
  BY <1>1 DEF Line
<1>3. ASSUME InOrder(first, q, order), Line(first, q, { y \in S : <<y, x>> \in order })
      PROVE  InOrder(first, r, order)
  <2>1. ASSUME NEW i \in DOMAIN r
        PROVE  <<first, r[i]>> \in order
    <3>1. CASE i = Len(q) + 1
      BY <1>1, <1>3, <3>1 DEF Line
    <3>2. CASE i # Len(q) + 1
      BY <1>1, <1>3, <3>2 DEF InOrder
    <3>3. QED
      BY <3>1, <3>2
  <2>2. ASSUME NEW i \in DOMAIN r, NEW j \in DOMAIN r, i < j
        PROVE  <<r[i], r[j]>> \in order
    <3>1. i \in DOMAIN q
      BY <1>1, <2>2
    <3>2. CASE j = Len(q) + 1
      BY <1>1, <1>3, <3>1, <3>2 DEF Line
    <3>3. CASE j # Len(q) + 1
      BY <1>1, <1>3, <2>2, <3>1, <3>3 DEF InOrder
    <3>4. QED
      BY <3>2, <3>3
  <2>3. QED
    BY <2>1, <2>2 DEF InOrder
<1>4. QED
  BY <1>2, <1>3 DEF r

\* How a step moves the line of an end: the thread is done with its PDU, takes
\* the next one, or another PDU joins the queue.
LineMoves(e, pdu) ==
    \/ QueueKept(e) /\ net'[e].pdu \in {net[e].pdu, NoPdu}
    \/ QueueRead(e) /\ net'[e].pdu \in {Head(inbox[e]), NoPdu}
    \/ inbox'[e] = Append(inbox[e], pdu) /\ net'[e] = net[e]

LEMMA MovedLine ==
    ASSUME EndTypeOK, NEW e \in Ends, NEW pdu \in Pdus, LineMoves(e, pdu),
           NEW good, Line(net[e].pdu, inbox[e], good), pdu \in good, NoPdu \in good
    PROVE  Line(net'[e].pdu, inbox'[e], good)
<1>1. inbox[e] \in Seq(Pdus)
  BY DEF EndTypeOK
<1>2. CASE QueueKept(e) /\ net'[e].pdu \in {net[e].pdu, NoPdu}
  BY <1>2 DEF QueueKept, Line
<1>3. CASE QueueRead(e) /\ net'[e].pdu \in {Head(inbox[e]), NoPdu}
  <2>1. Line(Head(inbox[e]), Tail(inbox[e]), good)
    BY <1>1, <1>3, ReadLine DEF QueueRead
  <2>2. QED
    BY <1>3, <2>1 DEF QueueRead, Line
<1>4. CASE inbox'[e] = Append(inbox[e], pdu) /\ net'[e] = net[e]
  BY <1>1, <1>4, PutLine
<1>5. QED
  BY <1>2, <1>3, <1>4 DEF LineMoves

LEMMA MovedOrder ==
    ASSUME EndTypeOK, NEW e \in Ends, NEW pdu \in Pdus, LineMoves(e, pdu),
           NEW order, InOrder(net[e].pdu, inbox[e], order),
           \A y \in Pdus : <<NoPdu, y>> \in order,
           Line(net[e].pdu, inbox[e], { y \in Pdus : <<y, pdu>> \in order })
    PROVE  InOrder(net'[e].pdu, inbox'[e], order)
<1>1. inbox[e] \in Seq(Pdus)
  BY DEF EndTypeOK
<1>2. CASE QueueKept(e) /\ net'[e].pdu \in {net[e].pdu, NoPdu}
  <2>1. \A i \in DOMAIN inbox[e] : inbox[e][i] \in Pdus
    BY <1>1
  <2>2. QED
    BY <1>2, <2>1 DEF QueueKept, InOrder
<1>3. CASE QueueRead(e) /\ net'[e].pdu \in {Head(inbox[e]), NoPdu}
  <2>1. InOrder(Head(inbox[e]), Tail(inbox[e]), order)
    BY <1>1, <1>3, ReadLine DEF QueueRead
  <2>2. Tail(inbox[e]) \in Seq(Pdus)
    BY <1>1, <1>3, HeadTailProperties DEF QueueRead
  <2>3. \A i \in DOMAIN Tail(inbox[e]) : Tail(inbox[e])[i] \in Pdus
    BY <2>2
  <2>4. QED
    BY <1>3, <2>1, <2>3 DEF QueueRead, InOrder
<1>4. CASE inbox'[e] = Append(inbox[e], pdu) /\ net'[e] = net[e]
  BY <1>1, <1>4, PutLine
<1>5. QED
  BY <1>2, <1>3, <1>4 DEF LineMoves

(***************************************************************************)
(* Once connected, the client sends messages and the server acknowledges   *)
(* them, until the client closes. This is so when no message is the empty  *)
(* one, which makes the gateway close, or has the text of a probe, which   *)
(* the server answers and does not deliver.                                *)
(***************************************************************************)
PlainMessages ==
    EndOfStream \notin 1 .. NMessages /\ LikeProbe \cap (1 .. NMessages) = {}

Sending == {"build", "send", "sendlock", "sendwait"}

Messages == { pdu \in Pdus : pdu.flags = {} /\ pdu.data # NoPayload }
Plain    == { pdu \in Pdus : pdu \in Messages => pdu.data \in 1 .. NMessages }
NoSynAck == { pdu \in Pdus : pdu.flags # {"SYN", "ACK"} }

ClientShape ==
    /\ AfterConnect
    /\ pc["client"] \in Sending => message <= NMessages
    /\ net["client"].at # "reack"
    /\ net["client"].at = "dataack" => net["client"].pdu \in Acks
    /\ Line(net["client"].pdu, inbox["client"], NoSynAck)

ServerShape ==
    /\ pc["server"] = "recv"
    /\ state["server"] \in Down \cup {"ESTABLISHED"}
    /\ net["server"].at \notin {"syn", "synaddr", "connack", "probe"}
    /\ net["server"].at = "data" => net["server"].pdu \in Messages
    /\ \A i \in DOMAIN inbox["server"] :
         inbox["server"][i].flags = {} => inbox["server"][i] \in Messages
    /\ Line(net["server"].pdu, inbox["server"], Plain)
    /\ \A i \in DOMAIN delivered : delivered[i] \in 1 .. NMessages

TransferShape == ClientShape /\ ServerShape

LEMMA MessagesApart ==
    /\ NoPdu \in Pdus /\ NoPdu \notin Messages /\ NoPdu \notin Acks
    /\ NoPdu \in Plain /\ NoPdu \in NoSynAck
    /\ \A pdu \in {Syn, Ack(0), Fin, FinAck} : pdu.flags # {}
    /\ NoPdu.flags = {} /\ FinAck.flags = {"FIN", "ACK"}
    /\ \A n : Ack(n).flags = {"ACK"} /\ Ack(n).ack_num = n
    /\ \A n \in Nat : Ack(n) \in Pdus
    /\ FinAck \in Pdus
BY DEF NoPdu, Pdus, mic_tcp_pdu, Flags, Payloads, Messages, Acks, Plain,
    NoSynAck, Syn, Ack, Fin, FinAck, create_nopayload_pdu, create_pdu,
    NoPayload

\* What the client does to the two lines: it takes what is for itself, and of
\* what carries no flag it only sends the message of the call under way.
DataPdu == create_pdu({}, packet.seq_num, 0, message)

ServerGetsData(pdu) ==
    /\ QueuePut("server", pdu) /\ net'["server"] = net["server"]
    /\ pdu.flags = {} => SendPacket /\ pdu = DataPdu /\ pdu \in Messages

LEMMA ClientLines ==
    ASSUME TypeInv, ClientShape, ClientStep \/ Call
    PROVE  /\ LineMoves(me, NoPdu)
           /\ \E pdu \in Pdus : ServerGetsData(pdu)
<1> USE TheEnds DEF TypeInv
<1>1. LineMoves(me, NoPdu)
  <2>1. ~ RecvWhileConnecting
    BY DEF RecvWhileConnecting, ClientShape, AfterConnect, Connecting
  <2>2. CASE ClientReceive
    BY <2>2
    DEF ClientReceive, NetReceive, NetAt, LineMoves, QueueRead, EndTypeOK
  <2>3. CASE ~ ClientReceive
    BY <2>1, <2>3, ClientKeepsPdu DEF LineMoves
  <2>4. QED
    BY <2>2, <2>3
<1>2. Untouched(self) /\ ServerMayGet
  BY ClientApart
<1>3. PICK pdu \in Pdus :
        /\ QueuePut(self, pdu)
        /\ \/ pdu \in {Syn, Ack(0), Fin, FinAck}
           \/ SendProbe /\ pdu = create_pdu({}, 0, 0, MESURING_PAYLOAD)
           \/ SendPacket /\ pdu = create_pdu({}, packet.seq_num, 0, message)
  BY <1>2 DEF ServerMayGet
<1>4. ~ SendProbe
  BY DEF SendProbe, ClientShape, AfterConnect, Connecting
<1>5. pdu.flags = {} => SendPacket /\ pdu = DataPdu
  BY <1>3, <1>4, MessagesApart DEF DataPdu
<1>6. pdu = DataPdu => pdu.data # NoPayload
  BY LenProperties DEF DataPdu, create_pdu, message, ClientTypeOK, NoPayload
<1>7. pdu.flags = {} => pdu \in Messages
  BY <1>5, <1>6 DEF Messages
<1>8. QED
  BY <1>1, <1>2, <1>3, <1>5, <1>7 DEF ServerGetsData, Untouched

\* What the client does to its numbers.
ClientNumbers ==
    /\ \/ seq'["client"] = seq["client"]
       \/ /\ net["client"].at = "dataack" /\ net'["client"].pdu = NoPdu
          /\ seq'["client"] = net["client"].pdu.ack_num
          /\ UNCHANGED <<inbox, pc, packet, results>>
    /\ \/ packet' = packet
       \/ /\ packet'.seq_num = seq["client"]
          /\ pc'["client"] = "send"
       \/ /\ SendPacket /\ packet'.seq_num = packet.seq_num
          /\ packet'.expected_ack_num = seq["client"] + 1
          /\ seq'["client"] = seq["client"]
    /\ pc'["client"] \in {"sendlock", "sendwait"} =>
         /\ results' = results
         /\ \/ pc["client"] \in {"sendlock", "sendwait"} /\ packet' = packet
            \/ SendPacket
    /\ pc'["client"] \in Sending =>
         results' = results /\ (pc["client"] \in Sending \/ message <= NMessages)

LEMMA ClientCountsOn ==
    ASSUME TypeInv, ClientShape, ClientStep \/ Call
    PROVE  ClientNumbers
<1> USE TheEnds DEF TypeInv, ClientNumbers, Sending
<1>1. ASSUME NEW label, Goto(me, label)
      PROVE  pc'[me] = label
  BY <1>1 DEF Goto, EndTypeOK
<1>2. ~ Connect
  BY DEF Connect, SendSyn, RecvWhileConnecting, SynTimesOut, Acknowledge, Spawn,
         SpawnFails, StartMeasuring, SendProbe, AcceptChannel, RefuseChannel,
         Measured, ClientShape, AfterConnect, Connecting
<1>3. CASE Send
  <2>1. seq' = seq
    BY <1>3
    DEF Send, BuildPacket, SendPacket, SendWaitStarts, SendWaitFails, SendWakes,
        SendTimesOut
  <2>2. CASE BuildPacket
    BY <1>1, <2>1, <2>2 DEF BuildPacket, ClientTypeOK
  <2>3. CASE SendPacket
    <3>1. packet' = [packet EXCEPT !.expected_ack_num = seq[me] + 1]
      BY <2>3 DEF SendPacket
    <3>2. /\ packet'.seq_num = packet.seq_num
          /\ packet'.expected_ack_num = seq[me] + 1
      BY <3>1 DEF ClientTypeOK
    <3>3. /\ pc[me] = "send"
          /\ pc'[me] = "idle" \/ (pc'[me] = "sendlock" /\ results' = results)
      BY <1>1, <2>3 DEF SendPacket, Return
    <3>4. QED
      BY <2>1, <2>3, <3>2, <3>3
  <2>4. CASE SendWaitStarts
    BY <1>1, <2>1, <2>4 DEF SendWaitStarts, clientVars
  <2>5. CASE SendWaitFails \/ SendWakes \/ SendTimesOut
    <3>1. /\ packet' = packet
          /\ pc[me] \in {"sendlock", "sendwait"}
          /\ pc'[me] = "idle" \/ (pc'[me] = "build" /\ results' = results)
      BY <1>1, <2>5
      DEF SendWaitFails, SendWakes, SendTimesOut, Windowed, Retry, Return
    <3>2. QED
      BY <2>1, <3>1
  <2>6. QED
    BY <1>3, <2>2, <2>3, <2>4, <2>5 DEF Send
<1>4. CASE ClientApplication
  <2>1. seq' = seq /\ packet' = packet
    BY <1>4 DEF ClientApplication, CallSend, CallClose, clientVars
  <2>2. \/ pc'[me] \in {"idle", "fin"}
        \/ pc'[me] = "build" /\ results' = results /\ message <= NMessages
    BY <1>1, <1>4 DEF ClientApplication, CallSend, CallClose, Return,
        mic_tcp_close
  <2>3. QED
    BY <2>1, <2>2
<1>5. CASE Close(me) /\ UNCHANGED clientVars
  <2>1. pc'[me] \in ClosingLabels /\ seq' = seq
    BY <1>1, <1>5
    DEF Close, SendFin, FinWaitStarts, FinWaitFails, FinAcknowledged,
        FinTimesOut, SendFinalAck, Cleanup, ProcessExits, SpendAttempt,
        ClosingLabels
  <2>2. QED
    BY <1>5, <2>1 DEF ClosingLabels, clientVars
<1>6. CASE ClientNet
  <2>1. UNCHANGED <<pc, packet, results>>
    BY <1>6
    DEF ClientNet, ProbeAcknowledged, ClientReceive, NetReceive,
        DataAcknowledged, NetClosing, NetFin, NetFinAgain, NetCleanup,
        NetFinalAck, NetShut, NetDestroy, NetSignal, Reacknowledge,
        ListenerExits, NetExits, ListenerBlocks, NetBlocks, clientVars
  <2>2. CASE DataAcknowledged
    <3>1. /\ net[me].at = "dataack" /\ net'[me].pdu = NoPdu
          /\ seq'[me] = net[me].pdu.ack_num /\ inbox' = inbox
      BY <2>2 DEF DataAcknowledged, NetDone, NetAt, EndTypeOK
    <3>2. QED
      BY <2>1, <3>1
  <2>3. CASE ~ DataAcknowledged
    <3>1. \A outcome : ~ Reacknowledge(outcome)
      BY DEF Reacknowledge, ClientShape
    <3>2. seq' = seq
      BY <1>6, <2>3, <3>1
      DEF ClientNet, ProbeAcknowledged, ClientReceive, NetReceive, NetClosing,
          NetFin, NetFinAgain, NetCleanup, NetFinalAck, NetShut, NetDestroy,
          NetSignal, ListenerExits, NetExits, ListenerBlocks, NetBlocks
    <3>3. QED
      BY <2>1, <3>2
  <2>4. QED
    BY <2>2, <2>3
<1>7. QED
  BY <1>2, <1>3, <1>4, <1>5, <1>6 DEF ClientStep, Call, ClientMain

LEMMA ClientKeepsShape ==
    ASSUME TypeInv, TransferShape, ClientStep \/ Call
    PROVE  TransferShape'
<1> USE TheEnds DEF TransferShape
<1>0. EndTypeOK /\ ClientTypeOK /\ inbox[self] \in Seq(Pdus)
  BY DEF TypeInv, EndTypeOK
<1>1. ClientNumbers /\ LineMoves(me, NoPdu) /\ Untouched(self) /\ UNCHANGED serverVars
  BY <1>0, ClientCountsOn, ClientLines, ClientApart
<1>2. ClientShape'
  <2>1. AfterConnect'
    BY StaysAfterConnect DEF ClientShape, Next
  <2>2. pc'[me] \in Sending => message' <= NMessages
    BY <1>1 DEF ClientNumbers, ClientShape, message
  <2>3. /\ net'[me].at # "reack"
        /\ net'[me].at = "dataack" => net'[me].pdu \in Acks
    <3>1. CASE ClientReceive
      <4> DEFINE pdu == Head(inbox[me])
      <4>1. /\ net'[me].at = ClientEffect(pdu)
            /\ ClientEffect(pdu) = "dataack" => net'[me].pdu = pdu
        BY <1>0, <3>1 DEF ClientReceive, NetReceive, NetAt, EndTypeOK
      <4>2. pdu \in NoSynAck /\ pdu \in Pdus
        <5>1. inbox[me] \in Seq(Pdus) /\ inbox[me] # <<>>
          BY <1>0, <3>1 DEF ClientReceive, EndTypeOK
        <5>2. Line(Head(inbox[me]), Tail(inbox[me]), NoSynAck) /\ Head(inbox[me]) \in Pdus
          BY <5>1, ReadLine DEF ClientShape
        <5>3. QED
          BY <5>2 DEF Line
      <4> HIDE DEF pdu
      <4>3. ~ Carries(pdu, {"SYN", "ACK"})
        BY <4>2 DEF NoSynAck, Carries, verify_pdu
      <4>4. ClientEffect(pdu) # "reack"
        BY <4>3 DEF ClientEffect, AwaitingClosingEffect, ClosingEffect
      <4>5. ClientEffect(pdu) = "dataack" => Carries(pdu, {"ACK"})
        BY DEF ClientEffect, AwaitingClosingEffect, ClosingEffect
      <4>6. QED
        BY <4>1, <4>2, <4>4, <4>5, KindsApart
    <3>2. CASE ~ ClientReceive
      <4>1. \/ net'[me] = net[me]
            \/ net'[me].at \in {"top", "blocked", "exited", "shut", "destroy"}
        <5>1. CASE ClientNet
          BY <1>0, <3>2, <5>1
          DEF ClientNet, ProbeAcknowledged, DataAcknowledged, NetClosing,
              NetFin, NetFinAgain, NetCleanup, NetFinalAck, NetShut,
              NetDestroy, NetSignal, Reacknowledge, ListenerExits, NetExits,
              ListenerBlocks, NetBlocks, NetDone, NetAt, EndTypeOK
        <5>2. CASE Connect
          BY <5>2
          DEF Connect, SendSyn, RecvWhileConnecting, SynTimesOut, Acknowledge,
              Spawn, SpawnFails, StartMeasuring, SendProbe, AcceptChannel,
              RefuseChannel, Measured, ClientShape, AfterConnect, Connecting
        <5>3. CASE Send \/ ClientApplication
          BY <5>3
          DEF Send, BuildPacket, SendPacket, SendWaitStarts, SendWaitFails,
              SendWakes, SendTimesOut, ClientApplication, CallSend, CallClose
        <5>4. CASE Close(me)
          BY <1>0, <5>4
          DEF Close, SendFin, FinWaitStarts, FinWaitFails, FinAcknowledged,
              FinTimesOut, SendFinalAck, Cleanup, ProcessExits, NetAt, EndTypeOK
        <5>5. QED
          BY <5>1, <5>2, <5>3, <5>4 DEF ClientStep, Call, ClientMain
      <4>2. QED
        BY <4>1 DEF ClientShape
    <3>3. QED
      BY <3>1, <3>2
  <2>4. Line(net'[me].pdu, inbox'[me], NoSynAck)
    BY <1>0, <1>1, MovedLine, MessagesApart DEF ClientShape
  <2>5. QED
    BY <2>1, <2>2, <2>3, <2>4 DEF ClientShape
<1>3. ServerShape'
  <2>1. PICK pdu \in Pdus : ServerGetsData(pdu)
    BY ClientLines
  <2> DEFINE q == inbox[self]
             r == inbox'[self]
  <2>2. pdu \in Plain
    <3>1. pdu \in Messages => SendPacket /\ pdu = DataPdu
      BY <2>1 DEF ServerGetsData, Messages
    <3>2. SendPacket => message \in 1 .. NMessages
      BY <1>0, LenProperties, ClientAssumption
      DEF SendPacket, ClientShape, Sending, message, ClientTypeOK
    <3>3. DataPdu.data = message
      BY DEF DataPdu, create_pdu
    <3>4. QED
      BY <3>1, <3>2, <3>3 DEF Plain
  <2>3. Line(net'[self].pdu, r, Plain)
    <3>1. LineMoves(self, pdu)
      BY <2>1 DEF ServerGetsData, LineMoves, QueuePut, QueueKept
    <3>2. QED
      BY <1>0, <2>2, <3>1, MovedLine, MessagesApart DEF ServerShape
  <2>4. q \in Seq(Pdus) /\ r \in {q, Append(q, pdu)}
    BY <1>0, <2>1 DEF ServerGetsData, QueuePut
  <2>5. \A i \in DOMAIN q : q[i].flags = {} => q[i] \in Messages
    BY DEF ServerShape
  <2>6. pdu.flags = {} => pdu \in Messages
    BY <2>1 DEF ServerGetsData
  <2> HIDE DEF q, r
  <2>7. \A i \in DOMAIN r : r[i] = pdu \/ \E j \in DOMAIN q : r[i] = q[j]
    BY <2>4, NewInQueue
  <2>8. \A i \in DOMAIN r : r[i].flags = {} => r[i] \in Messages
    BY <2>5, <2>6, <2>7
  <2>9. QED
    BY <1>1, <2>3, <2>8 DEF ServerShape, Untouched, serverVars, r
<1>4. QED
  BY <1>2, <1>3

LEMMA ServerOnlyTransfers ==
    ASSUME TypeInv, ServerShape, ServerStep
    PROVE  \/ mic_tcp_recv \/ ServerReceive \/ TakeData
           \/ /\ NetClosing(self) \/ NetBlocks(self) \/ ListeningReturns
              /\ UNCHANGED serverVars
<1> USE TheEnds
<1>1. ~ Accept /\ ~ ServerCloses /\ ~ Close(self)
  BY DEF ServerShape, Accept, mic_tcp_bind, mic_tcp_accept, AcceptWaitStarts,
      AcceptWakes, SendSynAck, AcceptCrashes, SynAckWaitStarts,
      SynAckWaitFails, SynAckWakes, SynAckTimesOut, ServerCloses, Close,
      SendFin, FinWaitStarts, FinWaitFails, FinAcknowledged, FinTimesOut,
      SendFinalAck, Cleanup, ProcessExits
<1>2. ~ SynReceived /\ ~ AddressKnown /\ ~ ConnectionAcknowledged /\ ~ AnswerProbe
  BY DEF ServerShape, SynReceived, AddressKnown, ConnectionAcknowledged,
      AnswerProbe
<1>3. QED
  BY <1>1, <1>2 DEF ServerStep, ServerMain, ServerNet

\* What the server does to its number, its messages and the two lines.
Takes ==
    /\ net["server"].pdu \in Messages
    /\ net["server"].pdu.seq_num = seq["server"]
    /\ seq'["server"] = seq["server"] + 1
    /\ delivered' = Append(delivered, net["server"].pdu.data)
    /\ QueueKept("server") /\ net'["server"].pdu = NoPdu

ServerNumbers ==
    Takes \/ (seq'["server"] = seq["server"] /\ delivered' = delivered)

ClientGetsAck(pdu) ==
    /\ QueuePut("client", pdu) /\ net'["client"] = net["client"]
    /\ pdu \in NoSynAck
    /\ pdu \in Acks => pdu.ack_num = seq'["server"]

LEMMA ServerCountsOn ==
    ASSUME TypeInv, ServerShape, ServerEstablished, ServerStep
    PROVE  /\ ServerNumbers
           /\ LineMoves(self, NoPdu)
           /\ \E pdu \in Pdus : ClientGetsAck(pdu)
<1> USE TheEnds DEF TypeInv
<1>1. Untouched(me)
  BY ServerApart
<1>2. LineMoves(self, NoPdu)
  <2>1. CASE ServerReceive
    BY <2>1
    DEF ServerReceive, NetReceive, NetAt, LineMoves, QueueRead, EndTypeOK
  <2>2. CASE ~ ServerReceive
    BY <2>2, ServerKeepsPdu DEF LineMoves
  <2>3. QED
    BY <2>1, <2>2
<1>3. NoPdu \in NoSynAck /\ FinAck \in NoSynAck /\ FinAck \notin Acks
  BY MessagesApart DEF NoSynAck, Acks
<1>4. ASSUME QueueKept(me)
      PROVE  \E pdu \in Pdus : ClientGetsAck(pdu)
  BY <1>1, <1>3, <1>4, MessagesApart
  DEF ClientGetsAck, QueuePut, QueueKept, Untouched
<1>5. CASE mic_tcp_recv \/ ServerReceive
  <2>1. ServerNumbers /\ QueueKept(me)
    BY <1>5
    DEF mic_tcp_recv, ServerReceive, NetReceive, ServerNumbers, QueueKept,
        EndTypeOK
  <2>2. QED
    BY <1>2, <1>4, <2>1
<1>6. CASE TakeData
  <2> DEFINE pdu      == net[self].pdu
             accepted == verify_pdu(pdu, {}, seq[self], 0)
             next     == IF accepted THEN seq[self] + 1 ELSE seq[self]
  <2>1. /\ net[self].at = "data" /\ pdu \in Messages
        /\ seq[self] \in Nat /\ seq[self] > 0
    BY <1>6 DEF TakeData, ServerShape, EndTypeOK, ServerEstablished
  <2>2. seq'[self] = next /\ next \in Nat
    BY <1>6, <2>1 DEF TakeData, EndTypeOK
  <2>3. ServerNumbers
    <3>1. CASE accepted
      <4>1. delivered' = Append(delivered, pdu.data)
        BY <1>6, <3>1 DEF TakeData
      <4>2. pdu.seq_num = seq[self]
        BY <2>1, <3>1 DEF verify_pdu
      <4>3. QueueKept(self) /\ net'[self].pdu = NoPdu
        <5>1. QueueKept(self)
          BY <1>6, SendReaches DEF TakeData, QueueKept
        <5>2. QED
          BY <1>6, <5>1 DEF TakeData, NetDone, NetAt, EndTypeOK
      <4>4. QED
        BY <2>1, <2>2, <3>1, <4>1, <4>2, <4>3 DEF ServerNumbers, Takes
    <3>2. CASE ~ accepted
      <4>1. delivered' = delivered
        BY <1>6, <3>2 DEF TakeData
      <4>2. QED
        BY <2>2, <3>2, <4>1 DEF ServerNumbers
    <3>3. QED
      BY <3>1, <3>2
  <2>4. QueuePut(me, Ack(next))
    BY <1>6, SendReaches DEF TakeData, QueuePut
  <2> HIDE DEF next
  <2>5. ClientGetsAck(Ack(next)) /\ Ack(next) \in Pdus
    <3>1. Ack(next) \in NoSynAck /\ Ack(next).ack_num = next /\ Ack(next) \in Pdus
      BY <2>2, MessagesApart DEF NoSynAck
    <3>2. QED
      BY <1>1, <2>2, <2>4, <3>1 DEF ClientGetsAck, Untouched
  <2>6. QED
    BY <1>2, <2>3, <2>5
<1>7. CASE /\ NetClosing(self) \/ NetBlocks(self) \/ ListeningReturns
           /\ UNCHANGED serverVars
  <2>1. QueuePut(me, FinAck)
    BY <1>7, NetApart DEF ListeningReturns
  <2>2. ClientGetsAck(FinAck)
    BY <1>1, <1>3, <2>1 DEF ClientGetsAck, Untouched
  <2>3. seq' = seq /\ delivered' = delivered
    BY <1>7
    DEF NetClosing, NetFin, NetFinAgain, NetCleanup, NetFinalAck, NetShut,
        NetDestroy, NetSignal, NetBlocks, ListeningReturns, NetExits,
        serverVars
  <2>4. QED
    BY <1>2, <2>2, <2>3, MessagesApart DEF ServerNumbers
<1>8. QED
  BY <1>5, <1>6, <1>7, ServerOnlyTransfers

LEMMA ServerKeepsShape ==
    ASSUME PlainMessages, TypeInv, TransferShape, ServerEstablished, ServerStep
    PROVE  TransferShape'
<1> USE TheEnds DEF TransferShape
<1>0. EndTypeOK /\ ServerTypeOK /\ inbox[self] \in Seq(Pdus)
  BY DEF TypeInv, EndTypeOK
<1>1. /\ Untouched(me) /\ UNCHANGED clientVars
      /\ ServerNumbers /\ LineMoves(self, NoPdu)
  BY <1>0, ServerApart, ServerCountsOn
<1>2. ClientShape'
  <2>1. PICK pdu \in Pdus : ClientGetsAck(pdu)
    BY ServerCountsOn
  <2>2. LineMoves(me, pdu)
    BY <2>1 DEF ClientGetsAck, LineMoves, QueuePut, QueueKept
  <2>3. Line(net'[me].pdu, inbox'[me], NoSynAck)
    BY <1>0, <2>1, <2>2, MovedLine, MessagesApart DEF ClientShape, ClientGetsAck
  <2>4. AfterConnect'
    BY StaysAfterConnect DEF ClientShape, Next
  <2>5. QED
    BY <1>1, <2>3, <2>4 DEF ClientShape, Untouched, clientVars, message
<1>3. Line(net'[self].pdu, inbox'[self], Plain)
  BY <1>0, <1>1, MovedLine, MessagesApart DEF ServerShape
<1>4. \A i \in DOMAIN inbox'[self] :
        inbox'[self][i].flags = {} => inbox'[self][i] \in Messages
  <2> DEFINE q == inbox[self]
             r == inbox'[self]
  <2>1. r = q \/ (q # <<>> /\ r = Tail(q))
    BY <1>0, ServerApart DEF QueueKept, QueueRead
  <2>2. q \in Seq(Pdus) /\ \A i \in DOMAIN q : q[i].flags = {} => q[i] \in Messages
    BY <1>0 DEF ServerShape
  <2> HIDE DEF q, r
  <2>3. \A i \in DOMAIN r : \E j \in DOMAIN q : r[i] = q[j]
    <3>1. CASE r = q
      BY <3>1
    <3>2. CASE q # <<>> /\ r = Tail(q)
      BY <2>2, <3>2, HeadTailProperties, LenProperties
    <3>3. QED
      BY <2>1, <3>1, <3>2
  <2>4. QED
    BY <2>2, <2>3 DEF r
<1>5. \A i \in DOMAIN delivered' : delivered'[i] \in 1 .. NMessages
  <2>1. CASE Takes
    <3>1. net[self].pdu.data \in 1 .. NMessages
      BY <2>1 DEF Takes, ServerShape, Line, Plain
    <3>2. delivered \in Seq(Payloads) /\ delivered' = Append(delivered, net[self].pdu.data)
      BY <1>0, <2>1 DEF ServerTypeOK, Takes
    <3>3. \A i \in DOMAIN delivered : delivered[i] \in 1 .. NMessages
      BY DEF ServerShape
    <3>4. net[self].pdu.data \in Payloads
      BY <3>1 DEF Payloads
    <3>5. \A i \in DOMAIN delivered' :
            delivered'[i] = net[self].pdu.data \/ (i \in DOMAIN delivered /\ delivered'[i] = delivered[i])
      BY <3>2, <3>4, AppendProperties, LenProperties
    <3>6. QED
      BY <3>1, <3>3, <3>5
  <2>2. CASE delivered' = delivered
    BY <2>2 DEF ServerShape
  <2>3. QED
    BY <1>1, <2>1, <2>2 DEF ServerNumbers
<1>6. /\ pc'[self] = "recv"
      /\ state'[self] \in Down \cup {"ESTABLISHED"}
      /\ net'[self].at \notin {"syn", "synaddr", "connack", "probe"}
      /\ net'[self].at = "data" => net'[self].pdu \in Messages
  <2>1. CASE mic_tcp_recv
    <3>1. nread + 1 \in DOMAIN delivered
      BY <1>0, <2>1, LenProperties DEF mic_tcp_recv, ServerTypeOK
    <3>2. delivered[nread + 1] # EndOfStream
      BY <3>1 DEF ServerShape, PlainMessages
    <3>3. pc'[self] = "recv"
      BY <1>0, <2>1, <3>2 DEF mic_tcp_recv, Goto, EndTypeOK
    <3>4. QED
      BY <2>1, <3>3 DEF mic_tcp_recv, ServerShape
  <2>2. CASE ServerReceive
    <3> DEFINE pdu == Head(inbox[self])
    <3>1. /\ UNCHANGED <<pc, state>> /\ net'[self].at = ServerEffect(pdu)
          /\ ServerEffect(pdu) # "top" => net'[self].pdu = pdu
      BY <1>0, <2>2 DEF ServerReceive, NetReceive, NetAt, EndTypeOK
    <3>2. pdu \in Plain /\ (pdu.flags = {} => pdu \in Messages)
      <4>1. inbox[self] # <<>>
        BY <2>2 DEF ServerReceive
      <4>2. Line(Head(inbox[self]), Tail(inbox[self]), Plain)
        BY <1>0, <4>1, ReadLine DEF ServerShape
      <4>3. Head(inbox[self]) = inbox[self][1] /\ 1 \in DOMAIN inbox[self]
        BY <1>0, <4>1, HeadTailProperties, LenProperties
      <4>4. QED
        BY <4>2, <4>3 DEF Line, ServerShape
    <3> HIDE DEF pdu
    <3>3. pdu \in Messages => ~ IsProbe(pdu)
      BY <3>2 DEF Plain, IsProbe, Text, NoPayload, MESURING_PAYLOAD,
          PlainMessages
    <3>4. ServerEffect(pdu) \in {"probe", "data"} => pdu.flags = {}
      BY DEF ServerEffect, AwaitingClosingEffect, ClosingEffect, Carries,
          verify_pdu
    <3>5. ServerEffect(pdu) = "probe" => IsProbe(pdu)
      BY DEF ServerEffect, AwaitingClosingEffect, ClosingEffect
    <3>6. ServerEffect(pdu) \notin {"syn", "synaddr", "connack"}
      BY EffectsByState DEF ServerShape, Down
    <3>7. QED
      BY <3>1, <3>2, <3>3, <3>4, <3>5, <3>6 DEF ServerShape
  <2>3. CASE TakeData
    BY <1>0, <2>3 DEF TakeData, NetDone, NetAt, EndTypeOK, ServerShape
  <2>4. CASE NetClosing(self) \/ NetBlocks(self) \/ ListeningReturns
    <3>1. /\ pc' = pc
          /\ net'[self].at \in {"top", "blocked", "exited", "shut", "destroy"}
      BY <1>0, <2>4
      DEF NetClosing, NetFin, NetFinAgain, NetCleanup, NetFinalAck, NetShut,
          NetDestroy, NetSignal, NetBlocks, ListeningReturns, NetExits,
          NetDone, NetAt, EndTypeOK
    <3>2. state'[self] \in {state[self], "AWAITING_CLOSING", "CLOSED"}
      BY <1>0, <2>4
      DEF NetClosing, NetFin, NetFinAgain, NetCleanup, NetFinalAck, NetShut,
          NetDestroy, NetSignal, NetBlocks, ListeningReturns, NetExits,
          socket_set_state, EndTypeOK
    <3>3. QED
      BY <3>1, <3>2 DEF ServerShape, Down
  <2>5. QED
    BY <2>1, <2>2, <2>3, <2>4, ServerOnlyTransfers
<1>7. QED
  BY <1>2, <1>3, <1>4, <1>5, <1>6 DEF ServerShape

(***************************************************************************)
(* The numbers: stop and wait.                                             *)
(***************************************************************************)
\* No message under way has a later number than the one being sent, and every
\* acknowledgement asks for a number between those of the two ends.
Numbered == { pdu \in Pdus : pdu \in Messages => pdu.seq_num <= packet.seq_num }
Asked    == { pdu \in Pdus :
                pdu \in Acks => pdu.ack_num \in seq["client"] .. seq["server"] }

\* No acknowledgement asks for less than one that is dealt with before it.
AcksRise == { pair \in Pdus \X Pdus :
                pair[1] \in Acks /\ pair[2] \in Acks
                  => pair[1].ack_num <= pair[2].ack_num }

NumberInv ==
    /\ ServerEstablished
    /\ ServerAtMostOneAhead
    /\ packet.seq_num <= seq["client"] /\ seq["server"] <= packet.seq_num + 1
    /\ pc["client"] \in {"sendlock", "sendwait"} =>
         packet.seq_num < packet.expected_ack_num
    /\ Line(net["server"].pdu, inbox["server"], Numbered)
    /\ Line(net["client"].pdu, inbox["client"], Asked)
    /\ InOrder(net["client"].pdu, inbox["client"], AcksRise)

LEMMA NumberSets ==
    /\ NoPdu \in Numbered /\ NoPdu \in Asked
    /\ \A pdu \in Pdus : <<NoPdu, pdu>> \in AcksRise
BY MessagesApart DEF Numbered, Asked, AcksRise

LEMMA NumberTypes ==
    ASSUME TypeInv
    PROVE  /\ seq["client"] \in Nat /\ seq["server"] \in Nat
           /\ packet.seq_num \in Nat /\ packet.expected_ack_num \in Nat
           /\ \A pdu \in Pdus : pdu.ack_num \in Nat /\ pdu.seq_num \in Nat
BY DEF TypeInv, EndTypeOK, ClientTypeOK, Ends, Pdus, mic_tcp_pdu

LEMMA ClientKeepsNumbers ==
    ASSUME TypeInv, TransferShape, NumberInv, ClientStep \/ Call
    PROVE  NumberInv'
<1> USE TheEnds, NumberTypes DEF ServerAtMostOneAhead, ServerEstablished
<1>0. /\ EndTypeOK /\ inbox[me] \in Seq(Pdus) /\ net[me].pdu \in Pdus
      /\ \A i \in DOMAIN inbox[me] : inbox[me][i] \in Pdus
  <2>1. EndTypeOK /\ inbox[me] \in Seq(Pdus) /\ net[me].pdu \in Pdus
    BY DEF TypeInv, EndTypeOK
  <2>2. QED
    BY <2>1
<1>1. /\ ClientNumbers /\ LineMoves(me, NoPdu) /\ Untouched(self)
      /\ seq'[self] = seq[self]
  <2>1. Untouched(self)
    BY ClientApart DEF TypeInv
  <2>2. QED
    BY <2>1, ClientCountsOn, ClientLines DEF TransferShape, Untouched
<1>2. PICK pdu \in Pdus : ServerGetsData(pdu)
  BY ClientLines DEF TransferShape
\* The number of the client, and what is under way to it.
<1>3. /\ seq'[me] \in Nat /\ seq[me] <= seq'[me] /\ seq'[me] <= seq[self]
      /\ Line(net'[me].pdu, inbox'[me], Asked')
      /\ InOrder(net'[me].pdu, inbox'[me], AcksRise)
  <2>1. CASE seq'[me] = seq[me]
    <3>1. Asked' = Asked
      BY <1>1, <2>1 DEF Asked
    <3>2. Line(net'[me].pdu, inbox'[me], Asked)
      BY <1>0, <1>1, MovedLine, MessagesApart, NumberSets DEF NumberInv
    <3>3. Line(net[me].pdu, inbox[me], { y \in Pdus : <<y, NoPdu>> \in AcksRise })
      BY <1>0, MessagesApart DEF Line, AcksRise
    <3>4. InOrder(net'[me].pdu, inbox'[me], AcksRise)
      BY <1>0, <1>1, <3>3, MovedOrder, MessagesApart, NumberSets DEF NumberInv
    <3>5. QED
      BY <2>1, <3>1, <3>2, <3>4 DEF NumberInv
  <2>2. CASE /\ net[me].at = "dataack" /\ net'[me].pdu = NoPdu
             /\ seq'[me] = net[me].pdu.ack_num
             /\ UNCHANGED <<inbox, pc, packet, results>>
    <3>1. net[me].pdu \in Acks
      BY <2>2 DEF TransferShape, ClientShape
    <3>2. net[me].pdu.ack_num \in seq[me] .. seq[self]
      BY <1>0, <3>1 DEF NumberInv, Line, Asked
    <3>3. ASSUME NEW i \in DOMAIN inbox[me]
          PROVE  inbox[me][i] \in Asked'
      <4>1. inbox[me][i] \in Pdus /\ inbox[me][i] \in Asked
        BY <1>0 DEF NumberInv, Line
      <4>2. <<net[me].pdu, inbox[me][i]>> \in AcksRise
        BY DEF NumberInv, InOrder
      <4>3. inbox[me][i] \in Acks => inbox[me][i].ack_num \in seq'[me] .. seq'[self]
        BY <1>0, <1>1, <2>2, <3>1, <4>1, <4>2 DEF Asked, AcksRise
      <4>4. QED
        BY <4>1, <4>3 DEF Asked
    <3>4. Line(net'[me].pdu, inbox'[me], Asked')
      BY <2>2, <3>3, MessagesApart DEF Line, Asked
    <3>5. InOrder(net'[me].pdu, inbox'[me], AcksRise)
      BY <1>0, <2>2, NumberSets DEF NumberInv, InOrder
    <3>6. QED
      BY <1>0, <2>2, <3>2, <3>4, <3>5
  <2>3. QED
    BY <1>1, <2>1, <2>2 DEF ClientNumbers
\* The packet, and what is under way to the server.
<1>4. /\ packet'.seq_num \in Nat /\ packet.seq_num <= packet'.seq_num
      /\ packet'.seq_num <= seq'[me]
      /\ SendPacket => packet'.seq_num = packet.seq_num
  <2>1. packet.seq_num <= seq[me]
    BY DEF NumberInv
  <2>2. SendPacket => packet'.seq_num = packet.seq_num
    BY DEF SendPacket, TypeInv, ClientTypeOK
  <2>3. QED
    BY <1>1, <1>3, <2>1, <2>2 DEF ClientNumbers
<1>5. pc'[me] \in {"sendlock", "sendwait"} =>
        packet'.seq_num < packet'.expected_ack_num
  <2>1. SendPacket => packet'.expected_ack_num = seq[me] + 1
    BY DEF SendPacket, TypeInv, ClientTypeOK
  <2>2. packet.seq_num <= seq[me]
    BY DEF NumberInv
  <2>3. QED
    BY <1>1, <1>4, <2>1, <2>2 DEF ClientNumbers, NumberInv
<1>6. Line(net'[self].pdu, inbox'[self], Numbered')
  <2>1. Numbered \subseteq Numbered'
    BY <1>4 DEF Numbered
  <2>2. pdu \in Numbered
    BY <1>2 DEF Numbered, ServerGetsData, Messages, DataPdu, create_pdu
  <2>3. LineMoves(self, pdu)
    BY <1>2 DEF ServerGetsData, LineMoves, QueuePut, QueueKept
  <2>4. Line(net'[self].pdu, inbox'[self], Numbered)
    BY <1>0, <2>2, <2>3, MovedLine, NumberSets DEF NumberInv
  <2>5. QED
    BY <2>1, <2>4 DEF Line
<1>7. /\ seq[self] > 0 /\ seq[self] <= seq[me] + 1
      /\ seq[self] <= packet.seq_num + 1
  BY DEF NumberInv
<1>8. AcksRise' = AcksRise
  BY DEF AcksRise
<1>9. QED
  BY <1>1, <1>3, <1>4, <1>5, <1>6, <1>7, <1>8 DEF NumberInv

LEMMA ServerKeepsNumbers ==
    ASSUME TypeInv, TransferShape, NumberInv, ServerStep
    PROVE  NumberInv'
<1> USE TheEnds, NumberTypes DEF ServerAtMostOneAhead, ServerEstablished
<1>0. /\ EndTypeOK /\ inbox[me] \in Seq(Pdus) /\ net[me].pdu \in Pdus
      /\ \A i \in DOMAIN inbox[me] : inbox[me][i] \in Pdus
  <2>1. EndTypeOK /\ inbox[me] \in Seq(Pdus) /\ net[me].pdu \in Pdus
    BY DEF TypeInv, EndTypeOK
  <2>2. QED
    BY <2>1
<1>1. Untouched(me) /\ UNCHANGED clientVars
  BY <1>0, ServerApart
<1>2. ServerNumbers /\ LineMoves(self, NoPdu)
  BY ServerCountsOn DEF TransferShape, NumberInv
<1>3. PICK pdu \in Pdus : ClientGetsAck(pdu)
  BY ServerCountsOn DEF TransferShape, NumberInv
<1>4. /\ seq'[self] \in Nat /\ seq[self] <= seq'[self]
      /\ seq'[self] <= seq[me] + 1 /\ seq'[self] <= packet.seq_num + 1
  <2>1. CASE Takes
    <3>1. seq[self] <= packet.seq_num /\ seq'[self] = seq[self] + 1
      BY <2>1 DEF Takes, NumberInv, Line, Numbered
    <3>2. QED
      BY <3>1 DEF NumberInv
  <2>2. CASE seq'[self] = seq[self]
    BY <2>2 DEF NumberInv
  <2>3. QED
    BY <1>2, <2>1, <2>2 DEF ServerNumbers
<1>5. Line(net'[self].pdu, inbox'[self], Numbered')
  <2>1. Numbered' = Numbered
    BY <1>1 DEF Numbered, clientVars
  <2>2. Line(net'[self].pdu, inbox'[self], Numbered)
    BY <1>0, <1>2, MovedLine, MessagesApart, NumberSets DEF NumberInv
  <2>3. QED
    BY <2>1, <2>2
<1>6. LineMoves(me, pdu)
  BY <1>3 DEF ClientGetsAck, LineMoves, QueuePut, QueueKept
<1>7. Line(net'[me].pdu, inbox'[me], Asked')
  <2>1. Asked \subseteq Asked' /\ pdu \in Asked' /\ NoPdu \in Asked'
    BY <1>1, <1>3, <1>4, MessagesApart
    DEF Asked, ClientGetsAck, Untouched, NumberInv
  <2>2. Line(net[me].pdu, inbox[me], Asked')
    BY <2>1 DEF NumberInv, Line
  <2> DEFINE good == Asked'
  <2> HIDE DEF good
  <2>3. Line(net'[me].pdu, inbox'[me], good)
    BY <1>0, <1>6, <2>1, <2>2, MovedLine DEF good
  <2>4. QED
    BY <2>3 DEF good
<1>8. InOrder(net'[me].pdu, inbox'[me], AcksRise)
  <2>1. ASSUME NEW y \in Pdus, y \in Asked
        PROVE  <<y, pdu>> \in AcksRise
    BY <1>3, <1>4, <2>1 DEF Asked, AcksRise, ClientGetsAck
  <2>2. Line(net[me].pdu, inbox[me], { y \in Pdus : <<y, pdu>> \in AcksRise })
    BY <1>0, <2>1 DEF NumberInv, Line
  <2>3. QED
    BY <1>0, <1>6, <2>2, MovedOrder, NumberSets DEF NumberInv
<1>9. AcksRise' = AcksRise
  BY DEF AcksRise
<1>10. QED
  BY <1>1, <1>4, <1>5, <1>7, <1>8, <1>9 DEF NumberInv, Untouched, clientVars

LEMMA TransferStarts == InitConnected => TransferShape /\ NumberInv
<1> SUFFICES ASSUME InitConnected
             PROVE  TransferShape /\ NumberInv
  OBVIOUS
<1>1. /\ inbox["client"] = <<>> /\ inbox["server"] = <<>>
      /\ net["client"] = NetAt("blocked", NoPdu) /\ net["server"] = NetAt("blocked", NoPdu)
      /\ state["server"] = "ESTABLISHED" /\ seq["client"] = 1 /\ seq["server"] = 1
      /\ pc["client"] = "idle" /\ pc["server"] = "recv" /\ delivered = <<>>
      /\ packet = [seq_num |-> 0, expected_ack_num |-> 0]
  BY DEF InitConnected, InitShared, Both, Ends
<1>2. TransferShape
  BY <1>1, StaysAfterConnect, MessagesApart
  DEF TransferShape, ClientShape, ServerShape, Sending, NetAt, Line
<1>3. NumberInv
  BY <1>1, NumberSets
  DEF NumberInv, ServerEstablished, ServerAtMostOneAhead, NetAt, Line, InOrder
<1>4. QED
  BY <1>2, <1>3

LEMMA NumbersAreKept ==
    ASSUME PlainMessages, TypeInv, TransferShape, NumberInv, [Next]_vars
    PROVE  TransferShape' /\ NumberInv'
<1>1. CASE ClientStep \/ Call
  BY <1>1, ClientKeepsShape, ClientKeepsNumbers
<1>2. CASE ServerStep
  <2>1. ServerEstablished
    BY DEF NumberInv
  <2>2. QED
    BY <1>2, <2>1, ServerKeepsShape, ServerKeepsNumbers
<1>3. CASE UNCHANGED vars
  <2>1. UNCHANGED <<endVars, clientVars, serverVars>>
    BY <1>3 DEF vars
  <2>2. QED
    BY <2>1
    DEF endVars, clientVars, serverVars, TransferShape, ClientShape,
        ServerShape, AfterConnect, MeasuringInProbe, message, NumberInv,
        ServerEstablished, ServerAtMostOneAhead, Numbered, Asked, AcksRise
<1>4. QED
  BY <1>1, <1>2, <1>3 DEF Next

\* Stop and wait, over a channel that loses what it wants, with late packets and
\* acknowledgements, and waits that return without a signal: the server is at the
\* number of the client or one ahead of it.
THEOREM StopAndWait ==
    ASSUME PlainMessages
    PROVE  SpecConnected => []ServerAtMostOneAhead
<1>1. InitConnected => TypeInv /\ TransferShape /\ NumberInv
  BY InitialTypes, TransferStarts
<1>2. TypeInv /\ TransferShape /\ NumberInv /\ [Next]_vars
        => (TypeInv /\ TransferShape /\ NumberInv)'
  BY StepsKeepTypes, NumbersAreKept
<1>3. NumberInv => ServerAtMostOneAhead
  BY DEF NumberInv
<1>4. QED
  BY <1>1, <1>2, <1>3, PTL DEF SpecConnected

(***************************************************************************)
(* The order of the messages, whatever they are and from a fresh start     *)
(* too: the numbers play no part in it, nor does what a late answer to a   *)
(* probe or the end of the stream does to them.                            *)
(***************************************************************************)
LastDelivered == IF delivered = <<>> THEN 1 ELSE delivered[Len(delivered)]

\* What the server may deliver; the rest of Messages are the probes.
Sends == { pdu \in Messages : pdu.data # MESURING_PAYLOAD }

OnlySends ==
    /\ net["server"].at = "data" => net["server"].pdu \in Sends
    /\ \A i \in DOMAIN inbox["server"] :
         inbox["server"][i].flags = {} => inbox["server"][i] \in Messages

\* What is under way to the server comes after what was delivered, in the order of
\* the calls.
Ordered == { pdu \in Pdus : pdu \in Sends => pdu.data \in LastDelivered .. message }
SendsRise == { pair \in Pdus \X Pdus :
                 pair[1] \in Sends /\ pair[2] \in Sends => pair[1].data <= pair[2].data }

OrderInv ==
    /\ OnlySends
    /\ LastDelivered \in 1 .. message
    /\ Line(net["server"].pdu, inbox["server"], Ordered)
    /\ InOrder(net["server"].pdu, inbox["server"], SendsRise)

LEMMA OrderSets ==
    /\ NoPdu \in Ordered /\ NoPdu \notin Sends
    /\ \A pdu \in Pdus : <<NoPdu, pdu>> \in SendsRise /\ <<pdu, NoPdu>> \in SendsRise
    /\ \A pdu \in Plain : pdu \in Messages => pdu \in Sends
<1>1. NoPdu \notin Sends
  BY MessagesApart DEF Sends
<1>2. \A pdu \in Plain : pdu \in Messages => pdu \in Sends
  BY ClientAssumption DEF Plain, Sends, MESURING_PAYLOAD
<1>3. QED
  BY <1>1, <1>2, MessagesApart DEF Ordered, SendsRise

LEMMA OrderTypes ==
    ASSUME TypeInv
    PROVE  /\ message \in Nat /\ message > 0
           /\ DOMAIN results = 1 .. message - 1
           /\ results \in Seq(SendEnds) /\ delivered \in Seq(Payloads)
           /\ \A pdu \in Pdus : pdu.data \in Int
<1>1. results \in Seq(SendEnds) /\ delivered \in Seq(Payloads)
  BY DEF TypeInv, ClientTypeOK, ServerTypeOK
<1>2. message \in Nat /\ message > 0 /\ DOMAIN results = 1 .. message - 1
  BY <1>1, LenProperties DEF message
<1>3. \A pdu \in Pdus : pdu.data \in Int
  BY DEF Pdus, mic_tcp_pdu, Payloads, MESURING_PAYLOAD
<1>4. QED
  BY <1>1, <1>2, <1>3

\* The calls of mic_tcp_send end one after the other.
LEMMA ClientReturns ==
    ASSUME TypeInv, ClientStep \/ Call
    PROVE  /\ results' = results \/ \E end \in SendEnds : results' = Append(results, end)
           /\ message' \in Nat /\ message <= message'
<1>1. results' = results \/ \E end \in SendEnds : results' = Append(results, end)
  <2>1. CASE Connect
    BY <2>1
    DEF Connect, SendSyn, RecvWhileConnecting, SynTimesOut, Acknowledge, Spawn,
        SpawnFails, StartMeasuring, SendProbe, AcceptChannel, RefuseChannel,
        clientVars
  <2>2. CASE Send
    BY <2>2
    DEF Send, BuildPacket, SendPacket, SendWaitStarts, SendWaitFails, SendWakes,
        SendTimesOut, Windowed, Retry, Return, SendEnds, clientVars
  <2>3. CASE ClientApplication \/ (Close(me) /\ UNCHANGED clientVars)
    BY <2>3
    DEF ClientApplication, CallSend, CallClose, Return, SendEnds, clientVars
  <2>4. CASE ClientNet
    BY <2>4 DEF ClientNet, ProbeAcknowledged, clientVars
  <2>5. QED
    BY <2>1, <2>2, <2>3, <2>4 DEF ClientStep, Call, ClientMain
<1>2. \A end \in SendEnds : Len(Append(results, end)) = Len(results) + 1
  BY OrderTypes, AppendProperties
<1>3. QED
  BY <1>1, <1>2, OrderTypes DEF message

\* The client sends the message of the call under way, or a probe.
ServerGetsInTurn(pdu) ==
    /\ QueuePut("server", pdu) /\ net'["server"] = net["server"]
    /\ pdu.flags = {} => pdu \in Messages
    /\ pdu \in Sends => pdu.data = message

LEMMA ClientSendsInTurn ==
    ASSUME TypeInv, ClientStep \/ Call
    PROVE  \E pdu \in Pdus : ServerGetsInTurn(pdu)
<1>1. Untouched(self) /\ ServerMayGet
  BY ClientApart DEF TypeInv
<1>2. PICK pdu \in Pdus :
        /\ QueuePut(self, pdu)
        /\ \/ pdu \in {Syn, Ack(0), Fin, FinAck}
           \/ pdu = create_pdu({}, 0, 0, MESURING_PAYLOAD)
           \/ pdu = create_pdu({}, packet.seq_num, 0, message)
  BY <1>1, TheEnds DEF ServerMayGet
<1>3. CASE pdu \in {Syn, Ack(0), Fin, FinAck}
  BY <1>1, <1>2, <1>3, TheEnds, MessagesApart
  DEF ServerGetsInTurn, Untouched, Sends, Messages
<1>4. CASE pdu = create_pdu({}, 0, 0, MESURING_PAYLOAD)
  <2>1. pdu.flags = {} /\ pdu.data = MESURING_PAYLOAD
    BY <1>4 DEF create_pdu
  <2>2. pdu \in Messages /\ pdu \notin Sends
    BY <2>1 DEF Messages, Sends, MESURING_PAYLOAD, NoPayload
  <2>3. QED
    BY <1>1, <1>2, <2>2, TheEnds DEF ServerGetsInTurn, Untouched
<1>5. CASE pdu = create_pdu({}, packet.seq_num, 0, message)
  <2>1. pdu.flags = {} /\ pdu.data = message
    BY <1>5 DEF create_pdu
  <2>2. pdu \in Messages
    BY <2>1, OrderTypes DEF Messages, NoPayload
  <2>3. QED
    BY <1>1, <1>2, <2>1, <2>2, TheEnds DEF ServerGetsInTurn, Untouched
<1>6. QED
  BY <1>2, <1>3, <1>4, <1>5

\* What the server delivers is the packet its network thread works on.
Delivers ==
    /\ net["server"].pdu \in Sends
    /\ delivered' = Append(delivered, net["server"].pdu.data)
    /\ QueueKept("server") /\ net'["server"].pdu = NoPdu

LEMMA ServerDelivers ==
    ASSUME TypeInv, OnlySends, ServerStep
    PROVE  /\ delivered' = delivered \/ Delivers
           /\ LineMoves(self, NoPdu)
           /\ OnlySends'
<1> USE TheEnds DEF TypeInv
<1>0. inbox[self] \in Seq(Pdus) /\ EndTypeOK
  BY DEF EndTypeOK
<1>1. CASE ServerReceive
  <2> DEFINE pdu == Head(inbox[self])
  <2>1. /\ inbox[self] # <<>> /\ delivered' = delivered
        /\ QueueRead(self)
        /\ net'[self] = NetAt(ServerEffect(pdu),
                              IF ServerEffect(pdu) = "top" THEN NoPdu ELSE pdu)
    BY <1>1 DEF ServerReceive, NetReceive, QueueRead, EndTypeOK
  <2>2. LineMoves(self, NoPdu)
    BY <2>1 DEF LineMoves, NetAt
  <2>3. pdu \in Pdus /\ (pdu.flags = {} => pdu \in Messages)
    BY <1>0, <2>1, HeadTailProperties, LenProperties, EmptySeq DEF OnlySends
  <2>4. /\ net'[self].at = ServerEffect(pdu)
        /\ ServerEffect(pdu) = "data" => net'[self].pdu = pdu
    BY <2>1 DEF NetAt
  <2> HIDE DEF pdu
  <2>5. ServerEffect(pdu) = "data" => pdu \in Sends
    <3>1. ServerEffect(pdu) = "data" => Carries(pdu, {}) /\ ~ IsProbe(pdu)
      BY DEF ServerEffect, AwaitingClosingEffect, ClosingEffect
    <3>2. pdu.data = MESURING_PAYLOAD => IsProbe(pdu)
      BY ServerAssumption DEF IsProbe, Text, MESURING_PAYLOAD, NoPayload
    <3>3. QED
      BY <2>3, <3>1, <3>2 DEF Sends, Carries, verify_pdu
  <2>6. \A i \in DOMAIN inbox'[self] : \E j \in DOMAIN inbox[self] :
          inbox'[self][i] = inbox[self][j]
    <3>1. inbox'[self] = Tail(inbox[self])
      BY <2>1 DEF QueueRead
    <3>2. /\ DOMAIN Tail(inbox[self]) = 1 .. Len(inbox[self]) - 1
          /\ DOMAIN inbox[self] = 1 .. Len(inbox[self]) /\ Len(inbox[self]) \in Nat
          /\ \A i \in 1 .. Len(inbox[self]) - 1 :
               Tail(inbox[self])[i] = inbox[self][i + 1]
      BY <1>0, <2>1, HeadTailProperties, LenProperties, EmptySeq
    <3>3. \A i \in 1 .. Len(inbox[self]) - 1 : i + 1 \in 1 .. Len(inbox[self])
      BY <3>2
    <3>4. QED
      BY <3>1, <3>2, <3>3
  <2>7. OnlySends'
    BY <2>4, <2>5, <2>6 DEF OnlySends
  <2>8. QED
    BY <2>1, <2>2, <2>7
<1>2. CASE ~ ServerReceive
  <2>1. QueueKept(self) /\ net'[self].pdu \in {net[self].pdu, NoPdu}
    BY <1>2, ServerKeepsPdu
  <2>2. LineMoves(self, NoPdu)
    BY <2>1 DEF LineMoves
  <2>3. net'[self].at = "data" => net'[self] = net[self]
    <3>1. CASE ServerMain
      BY <3>1
      DEF ServerMain, Accept, mic_tcp_bind, mic_tcp_accept, AcceptWaitStarts,
          AcceptWakes, SendSynAck, AcceptCrashes, SynAckWaitStarts,
          SynAckWaitFails, SynAckWakes, SynAckTimesOut, mic_tcp_recv,
          ServerCloses, mic_tcp_close, Close, SendFin, FinWaitStarts,
          FinWaitFails, FinAcknowledged, FinTimesOut, SendFinalAck, Cleanup,
          ProcessExits, NetAt, EndTypeOK
    <3>2. CASE ServerNet
      BY <1>2, <3>2
      DEF ServerNet, TakeData, SynReceived, AddressKnown,
          ConnectionAcknowledged, AnswerProbe, NetClosing, NetFin, NetFinAgain,
          NetCleanup, NetFinalAck, NetShut, NetDestroy, NetSignal, NetBlocks,
          ListeningReturns, NetExits, NetDone, NetAt, EndTypeOK
    <3>3. QED
      BY <3>1, <3>2 DEF ServerStep
  <2>4. OnlySends'
    BY <2>1, <2>3 DEF OnlySends, QueueKept
  <2>5. CASE TakeData
    <3>1. net[self].at = "data"
      BY <2>5 DEF TakeData
    <3>2. net'[self].pdu = NoPdu
      BY <2>5 DEF TakeData, NetDone, NetAt, EndTypeOK
    <3>3. \/ delivered' = delivered
          \/ delivered' = Append(delivered, net[self].pdu.data)
      BY <2>5 DEF TakeData
    <3>4. QED
      BY <2>1, <2>2, <2>4, <3>1, <3>2, <3>3 DEF OnlySends, Delivers
  <2>6. CASE ~ TakeData
    <3>1. delivered' = delivered
      BY <1>2, <2>6
      DEF ServerStep, ServerMain, ServerNet, Accept, mic_tcp_bind,
          mic_tcp_accept, AcceptWaitStarts, AcceptWakes, SendSynAck,
          AcceptCrashes, SynAckWaitStarts, SynAckWaitFails, SynAckWakes,
          SynAckTimesOut, mic_tcp_recv, ServerCloses, serverVars
    <3>2. QED
      BY <2>2, <2>4, <3>1
  <2>7. QED
    BY <2>5, <2>6
<1>3. QED
  BY <1>1, <1>2

LEMMA ClientKeepsOrder ==
    ASSUME TypeInv, OrderInv, ClientStep \/ Call
    PROVE  OrderInv'
<1> USE TheEnds, OrderTypes
<1>0. /\ EndTypeOK /\ inbox[self] \in Seq(Pdus) /\ net[self].pdu \in Pdus
      /\ \A i \in DOMAIN inbox[self] : inbox[self][i] \in Pdus
  <2>1. EndTypeOK /\ inbox[self] \in Seq(Pdus) /\ net[self].pdu \in Pdus
    BY DEF TypeInv, EndTypeOK
  <2>2. QED
    BY <2>1
<1>1. UNCHANGED serverVars
  BY <1>0, ClientApart DEF TypeInv
<1>2. LastDelivered' = LastDelivered /\ message' \in Nat /\ message <= message'
  BY <1>1, ClientReturns DEF LastDelivered, serverVars
<1>3. PICK pdu \in Pdus : ServerGetsInTurn(pdu)
  BY ClientSendsInTurn
<1>4. LineMoves(self, pdu)
  BY <1>3 DEF ServerGetsInTurn, LineMoves, QueuePut, QueueKept
<1>5. pdu \in Sends => pdu.data = message
  BY <1>3 DEF ServerGetsInTurn
<1>6. Line(net'[self].pdu, inbox'[self], Ordered')
  <2>1. Ordered \subseteq Ordered'
    BY <1>2 DEF Ordered, OrderInv
  <2>2. pdu \in Ordered
    BY <1>5 DEF Ordered, OrderInv
  <2>3. Line(net'[self].pdu, inbox'[self], Ordered)
    BY <1>0, <1>4, <2>2, MovedLine, OrderSets DEF OrderInv
  <2>4. QED
    BY <2>1, <2>3 DEF Line
<1>7. InOrder(net'[self].pdu, inbox'[self], SendsRise)
  <2>1. ASSUME NEW y \in Pdus, y \in Ordered
        PROVE  <<y, pdu>> \in SendsRise
    BY <1>5, <2>1 DEF Ordered, SendsRise, OrderInv
  <2>2. Line(net[self].pdu, inbox[self], { y \in Pdus : <<y, pdu>> \in SendsRise })
    BY <1>0, <2>1 DEF OrderInv, Line
  <2>3. QED
    BY <1>0, <1>4, <2>2, MovedOrder, OrderSets DEF OrderInv
<1>8. OnlySends'
  <2> DEFINE q == inbox[self]
             r == inbox'[self]
  <2>1. q \in Seq(Pdus) /\ r \in {q, Append(q, pdu)}
    BY <1>0, <1>3 DEF ServerGetsInTurn, QueuePut
  <2>2. \A i \in DOMAIN q : q[i].flags = {} => q[i] \in Messages
    BY DEF OrderInv, OnlySends
  <2>3. pdu.flags = {} => pdu \in Messages
    BY <1>3 DEF ServerGetsInTurn
  <2> HIDE DEF q, r
  <2>4. \A i \in DOMAIN r : r[i] = pdu \/ \E j \in DOMAIN q : r[i] = q[j]
    BY <2>1, NewInQueue
  <2>5. \A i \in DOMAIN r : r[i].flags = {} => r[i] \in Messages
    BY <2>2, <2>3, <2>4
  <2>6. QED
    BY <1>3, <2>5 DEF OrderInv, OnlySends, ServerGetsInTurn, r
<1>9. SendsRise' = SendsRise
  BY DEF SendsRise
<1>10. QED
  BY <1>2, <1>6, <1>7, <1>8, <1>9 DEF OrderInv

LEMMA ServerKeepsOrder ==
    ASSUME TypeInv, OrderInv, ServerStep
    PROVE  /\ OrderInv'
           /\ Delivers => net[self].pdu.data \in LastDelivered .. message
<1> USE TheEnds, OrderTypes
<1>0. /\ EndTypeOK /\ inbox[self] \in Seq(Pdus) /\ net[self].pdu \in Pdus
      /\ \A i \in DOMAIN inbox[self] : inbox[self][i] \in Pdus
  <2>1. EndTypeOK /\ inbox[self] \in Seq(Pdus) /\ net[self].pdu \in Pdus
    BY DEF TypeInv, EndTypeOK
  <2>2. QED
    BY <2>1
<1>1. UNCHANGED clientVars /\ message' = message
  BY <1>0, ServerApart DEF clientVars, message
<1>2. /\ delivered' = delivered \/ Delivers
      /\ LineMoves(self, NoPdu) /\ OnlySends'
  BY ServerDelivers DEF OrderInv
<1>3. SendsRise' = SendsRise
  BY DEF SendsRise
<1>4. InOrder(net'[self].pdu, inbox'[self], SendsRise)
  <2>1. Line(net[self].pdu, inbox[self], { y \in Pdus : <<y, NoPdu>> \in SendsRise })
    BY <1>0, OrderSets DEF Line
  <2>2. QED
    BY <1>0, <1>2, <2>1, MovedOrder, MessagesApart, OrderSets DEF OrderInv
<1>5. CASE Delivers
  <2> DEFINE d == net[self].pdu.data
  <2>1. net[self].pdu \in Sends /\ d \in LastDelivered .. message /\ d \in Payloads
    BY <1>0, <1>5 DEF Delivers, OrderInv, Line, Ordered, Pdus, mic_tcp_pdu
  <2>2. LastDelivered' = d
    <3>1. delivered' = Append(delivered, d) /\ delivered \in Seq(Payloads)
      BY <1>5 DEF Delivers
    <3> HIDE DEF d
    <3>2. /\ Len(delivered') = Len(delivered) + 1 /\ Len(delivered) \in Nat
          /\ delivered'[Len(delivered')] = d
      BY <2>1, <3>1, AppendProperties, LenProperties
    <3>3. delivered' # <<>>
      BY <3>2, EmptySeq
    <3>4. QED
      BY <3>2, <3>3 DEF LastDelivered
  <2>3. ASSUME NEW i \in DOMAIN inbox[self]
        PROVE  inbox[self][i] \in Ordered'
    <3>1. inbox[self][i] \in Pdus /\ inbox[self][i] \in Ordered
      BY <1>0 DEF OrderInv, Line
    <3>2. <<net[self].pdu, inbox[self][i]>> \in SendsRise
      BY DEF OrderInv, InOrder
    <3>3. inbox[self][i] \in Sends => inbox[self][i].data \in d .. message
      BY <1>0, <2>1, <3>1, <3>2 DEF Ordered, SendsRise, OrderInv
    <3> HIDE DEF d
    <3>4. QED
      BY <1>1, <2>2, <3>1, <3>3 DEF Ordered
  <2>4. Line(net'[self].pdu, inbox'[self], Ordered')
    BY <1>5, <2>3, MessagesApart, OrderSets DEF Line, Ordered, Delivers,
        QueueKept
  <2>5. d \in 1 .. message
    BY <2>1 DEF OrderInv
  <2>6. QED
    BY <1>1, <1>2, <1>3, <1>4, <2>1, <2>2, <2>4, <2>5 DEF OrderInv
<1>6. CASE ~ Delivers
  <2>1. delivered' = delivered
    BY <1>2, <1>6
  <2>2. LastDelivered' = LastDelivered /\ Ordered' = Ordered
    BY <1>1, <2>1 DEF LastDelivered, Ordered
  <2>3. Line(net'[self].pdu, inbox'[self], Ordered)
    BY <1>0, <1>2, MovedLine, MessagesApart, OrderSets DEF OrderInv
  <2>4. QED
    BY <1>1, <1>2, <1>3, <1>4, <1>6, <2>2, <2>3 DEF OrderInv
<1>7. QED
  BY <1>5, <1>6

LEMMA OrderStarts == Init \/ InitConnected => OrderInv
<1> SUFFICES ASSUME Init \/ InitConnected
             PROVE  OrderInv
  OBVIOUS
<1>1. /\ inbox["server"] = <<>> /\ results = <<>> /\ delivered = <<>>
      /\ net["server"].pdu = NoPdu /\ net["server"].at # "data"
  BY DEF Init, InitConnected, InitShared, Both, Ends, NetAt
<1>2. LastDelivered = 1 /\ message = 1
  BY <1>1 DEF LastDelivered, message
<1>3. QED
  BY <1>1, <1>2, OrderSets DEF OrderInv, OnlySends, Line, InOrder

\* The library's operators, seen through the instance.
LEMMA ServiceReads ==
    /\ \A S : Service!Cardinality(S) = Cardinality(S)
    /\ \A s : Service!Last(s) = s[Len(s)]
BY DEF Service!Cardinality, Cardinality, Service!Last

LEMMA OrderIsKept ==
    ASSUME TypeInv, OrderInv, [Next]_vars
    PROVE  OrderInv' /\ [Service!Next]_(Service!transferVars)
<1> USE TheEnds
<1>1. CASE ClientStep \/ Call
  <2>1. UNCHANGED delivered
    BY <1>1, ClientApart DEF TypeInv, serverVars
  <2>2. results' = results \/ \E end \in SendEnds : results' = Append(results, end)
    BY <1>1, ClientReturns
  <2>3. (\E end \in SendEnds : results' = Append(results, end)) => Service!Next
    BY <2>1 DEF SendEnds, Service!Next, Service!Return, Service!SendEnds
  <2>4. OrderInv'
    BY <1>1, ClientKeepsOrder
  <2>5. QED
    BY <2>1, <2>2, <2>3, <2>4 DEF Service!transferVars
<1>2. CASE ServerStep
  <2>1. UNCHANGED results
    BY <1>2, ServerApart DEF TypeInv, clientVars
  <2>2. OrderInv' /\ (Delivers => net[self].pdu.data \in LastDelivered .. message)
    BY <1>2, ServerKeepsOrder
  <2>3. CASE Delivers
    <3>1. Service!LastDelivered = LastDelivered /\ Service!message = message
      BY ServiceReads
      DEF Service!LastDelivered, LastDelivered, Service!message, message
    <3>2. Service!Deliver
      BY <2>1, <2>2, <2>3, <3>1 DEF Delivers, Service!Deliver
    <3>3. QED
      BY <2>2, <3>2 DEF Service!Next
  <2>4. CASE delivered' = delivered
    BY <2>1, <2>2, <2>4 DEF Service!transferVars
  <2>5. QED
    BY <1>2, <2>3, <2>4, ServerDelivers DEF OrderInv
<1>3. CASE UNCHANGED vars
  <2>1. UNCHANGED <<endVars, clientVars, serverVars>>
    BY <1>3 DEF vars
  <2>2. OrderInv'
    BY <2>1
    DEF endVars, clientVars, serverVars, OrderInv, OnlySends, LastDelivered,
        Ordered, message, SendsRise
  <2>3. QED
    BY <2>1, <2>2 DEF clientVars, serverVars, Service!transferVars
<1>4. QED
  BY <1>1, <1>2, <1>3 DEF Next

\* Whatever the application sends and the channel loses, from a fresh start as from
\* a connection, messages come out in the order of the calls: none is invented, and
\* no retransmission, late packet or packet under an old number overtakes.
THEOREM MessagesStayInOrder == Spec \/ SpecConnected => DeliversInOrder
<1>1. Init \/ InitConnected => TypeInv /\ OrderInv /\ Service!Init
  BY InitialTypes, OrderStarts DEF Init, InitConnected, InitShared, Service!Init
<1>2. TypeInv /\ OrderInv /\ [Next]_vars => (TypeInv /\ OrderInv)'
  BY StepsKeepTypes, OrderIsKept
<1>3. TypeInv /\ OrderInv /\ [Next]_vars => [Service!Next]_(Service!transferVars)
  BY OrderIsKept
<1>4. QED
  BY <1>1, <1>2, <1>3, PTL
  DEF Spec, SpecConnected, DeliversInOrder, Service!Spec

(***************************************************************************)
(* The budget of losses.                                                   *)
(***************************************************************************)
\* The calls that did not return msg_size, over the messages that are lost.
Slack == Cardinality(Ended({"lost", "error"})) - Cardinality(Undelivered)

Delivered(m) == m \in Range(delivered)

\* The message of the call under way may be acknowledged.
Covered == Delivered(message) \/ Slack >= 1

\* A packet of an earlier call that the server would still accept, and so take
\* for the current one, was lost the first time, or another loss pays for it.
Harmless ==
    { pdu \in Pdus :
        pdu \in Messages /\ pdu.seq_num = seq["server"]
          /\ seq["server"] = seq["client"] /\ pdu.data < message
        => ~ Delivered(pdu.data) \/ Slack >= 1 }

BudgetInv ==
    /\ Slack >= 0
    /\ seq["server"] = seq["client"] + 1 => Covered
    /\ pc["client"] \in {"sendlock", "sendwait"}
         /\ seq["client"] = packet.expected_ack_num => Covered
    /\ Line(net["server"].pdu, inbox["server"], Harmless)

LEMMA SlackCounts ==
    ASSUME results \in Seq(SendEnds)
    PROVE  /\ IsFiniteSet(Ended({"lost", "error"})) /\ IsFiniteSet(Undelivered)
           /\ Cardinality(Ended({"lost", "error"})) \in Nat
           /\ Cardinality(Undelivered) \in Nat
           /\ Slack \in Int
<1>1. IsFiniteSet(DOMAIN results)
  BY LenProperties, FS_Interval
<1>2. Ended({"lost", "error"}) \subseteq DOMAIN results /\ Undelivered \subseteq DOMAIN results
  BY DEF Ended, Undelivered
<1>3. /\ IsFiniteSet(Ended({"lost", "error"})) /\ IsFiniteSet(Undelivered)
      /\ Cardinality(Ended({"lost", "error"})) \in Nat
      /\ Cardinality(Undelivered) \in Nat
  BY <1>1, <1>2, FS_Subset, FS_CardinalityType
<1>4. QED
  BY <1>3 DEF Slack

\* A call that ends.
LEMMA SlackOnReturn ==
    ASSUME results \in Seq(SendEnds), NEW end \in SendEnds,
           results' = Append(results, end), delivered' = delivered
    PROVE  Slack' = Slack + (IF end = "acked" THEN 0 ELSE 1)
                          - (IF Delivered(message) THEN 0 ELSE 1)
<1> DEFINE r == Append(results, end)
           n == message
           U == Undelivered
           E == Ended({"lost", "error"})
<1>1. /\ n \in Nat /\ DOMAIN results = 1 .. n - 1
      /\ DOMAIN r = 1 .. n /\ r[n] = end
      /\ \A i \in 1 .. n - 1 : r[i] = results[i]
  BY LenProperties, AppendProperties DEF message
<1>2. U' = IF Delivered(n) THEN U ELSE U \cup {n}
  BY <1>1 DEF Undelivered, Delivered
<1>3. E' = IF end = "acked" THEN E ELSE E \cup {n}
  BY <1>1 DEF Ended, SendEnds
<1>4. n \notin U /\ n \notin E
  BY <1>1 DEF Undelivered, Ended
<1>5. /\ IsFiniteSet(U) /\ IsFiniteSet(E)
      /\ Cardinality(U) \in Nat /\ Cardinality(E) \in Nat
  BY SlackCounts
<1> HIDE DEF n, U, E
<1>6. /\ Cardinality(U \cup {n}) = Cardinality(U) + 1
      /\ Cardinality(E \cup {n}) = Cardinality(E) + 1
  BY <1>4, <1>5, FS_AddElement
<1>7. /\ Cardinality(U') = Cardinality(U) + (IF Delivered(n) THEN 0 ELSE 1)
      /\ Cardinality(E') = Cardinality(E) + (IF end = "acked" THEN 0 ELSE 1)
  BY <1>2, <1>3, <1>5, <1>6
<1>8. Slack = Cardinality(E) - Cardinality(U) /\ Slack' = Cardinality(E') - Cardinality(U')
  BY DEF Slack, E, U
<1>9. Slack' = Slack + (IF end = "acked" THEN 0 ELSE 1)
                   - (IF Delivered(n) THEN 0 ELSE 1)
  <2>1. CASE Delivered(n)
    BY <1>5, <1>7, <1>8, <2>1
  <2>2. CASE ~ Delivered(n)
    BY <1>5, <1>7, <1>8, <2>2
  <2>3. QED
    BY <2>1, <2>2
<1>10. QED
  BY <1>9 DEF n

\* A message that is delivered.
LEMMA SlackOnDelivery ==
    ASSUME results \in Seq(SendEnds), delivered \in Seq(Payloads),
           NEW d \in Payloads, delivered' = Append(delivered, d), results' = results
    PROVE  /\ Range(delivered)' = Range(delivered) \cup {d}
           /\ Slack' = Slack + (IF d \in Undelivered THEN 1 ELSE 0)
<1> DEFINE U == Undelivered
           E == Ended({"lost", "error"})
<1>1. Range(delivered)' = Range(delivered) \cup {d}
  <2> DEFINE s == Append(delivered, d)
  <2>1. /\ Len(delivered) \in Nat /\ DOMAIN delivered = 1 .. Len(delivered)
        /\ DOMAIN s = 1 .. Len(delivered) + 1 /\ s[Len(delivered) + 1] = d
        /\ \A i \in 1 .. Len(delivered) : s[i] = delivered[i]
    BY LenProperties, AppendProperties
  <2> HIDE DEF s
  <2>2. Range(s) = Range(delivered) \cup {d}
    BY <2>1 DEF Range
  <2>3. QED
    BY <2>2 DEF s
<1>2. U' = U \ {d} /\ E' = E
  BY <1>1 DEF Undelivered, Ended
<1>3. /\ IsFiniteSet(U) /\ Cardinality(U) \in Nat /\ Cardinality(E) \in Nat
  BY SlackCounts
<1> HIDE DEF U, E
<1>4. Cardinality(U \ {d}) = IF d \in U THEN Cardinality(U) - 1 ELSE Cardinality(U)
  BY <1>3, FS_RemoveElement
<1>5. Slack = Cardinality(E) - Cardinality(U) /\ Slack' = Cardinality(E') - Cardinality(U')
  BY DEF Slack, E, U
<1>6. Slack' = Slack + (IF d \in U THEN 1 ELSE 0)
  BY <1>2, <1>3, <1>4, <1>5
<1>7. QED
  BY <1>1, <1>6 DEF U

\* The call under way, or the next one.
LEMMA ClientResults ==
    ASSUME TypeInv, TransferShape, ClientStep \/ Call
    PROVE  \/ results' = results /\ message' = message
           \/ /\ message' = message + 1 /\ results' # results
              /\ \E end \in SendEnds : CallEnds(end)
<1>1. results \in Seq(SendEnds)
  BY DEF TypeInv, ClientTypeOK
<1>2. results' = results \/ \E end \in SendEnds : CallEnds(end)
  BY ClientEndsCalls DEF TransferShape, ClientShape
<1>3. CASE results' = results
  BY <1>3 DEF message
<1>4. CASE \E end \in SendEnds : CallEnds(end)
  <2>1. PICK end \in SendEnds : CallEnds(end)
    BY <1>4
  <2>2. results' = Append(results, end)
    BY <2>1 DEF CallEnds
  <2>3. Len(results') = Len(results) + 1 /\ Len(results) \in Nat
    BY <1>1, <2>2, AppendProperties, LenProperties
  <2>4. results' # results /\ message' = message + 1
    BY <2>3 DEF message
  <2>5. QED
    BY <2>1, <2>4
<1>5. QED
  BY <1>2, <1>3, <1>4

LEMMA ClientKeepsBudget ==
    ASSUME TypeInv, TransferShape, NumberInv, BudgetInv, ClientStep \/ Call
    PROVE  BudgetInv'
<1> USE TheEnds, NumberTypes, OrderTypes
<1>0. /\ EndTypeOK /\ results \in Seq(SendEnds) /\ Slack \in Int
  BY SlackCounts DEF TypeInv, ClientTypeOK
<1>1. /\ Untouched(self) /\ seq'[self] = seq[self]
      /\ delivered' = delivered /\ Range(delivered)' = Range(delivered)
  <2>1. Untouched(self) /\ UNCHANGED serverVars
    BY ClientApart DEF TypeInv
  <2>2. QED
    BY <2>1 DEF Untouched, serverVars, Range
<1>2. ClientNumbers
  BY ClientCountsOn DEF TransferShape
<1>3. NumberInv'
  BY ClientKeepsNumbers
<1>4. /\ seq'[me] \in Nat /\ seq[me] <= seq'[me] /\ seq'[me] <= seq[self]
      /\ seq[self] <= seq[me] + 1
      /\ packet.seq_num <= seq[me] /\ seq[self] <= packet.seq_num + 1
  <2>1. seq'[me] \in Nat
    BY StepsKeepTypes DEF TypeInv, EndTypeOK, Next
  <2>2. seq'[me] <= seq'[self]
    BY <1>3 DEF NumberInv, ServerAtMostOneAhead
  <2>3. seq[me] <= seq'[me]
    BY <1>2, <2>1 DEF ClientNumbers, NumberInv, Line, Asked, TransferShape,
        ClientShape, Acks
  <2>4. QED
    BY <1>1, <2>1, <2>2, <2>3 DEF NumberInv, ServerAtMostOneAhead
<1>5. PICK pdu \in Pdus : ServerGetsData(pdu)
  BY ClientLines DEF TransferShape
<1>6. LineMoves(self, pdu)
  BY <1>5 DEF ServerGetsData, LineMoves, QueuePut, QueueKept
<1>7. /\ pdu \in Numbered
      /\ pdu \in Messages => pdu.data = message
  BY <1>5 DEF Numbered, ServerGetsData, Messages, DataPdu, create_pdu
\* What makes a late packet harmless, once all those under way are.
<1>8. ASSUME Numbered \cap Harmless \subseteq Harmless', pdu \in Harmless'
      PROVE  Line(net'[self].pdu, inbox'[self], Harmless')
  <2> DEFINE good == Harmless'
  <2>1. Line(net[self].pdu, inbox[self], good)
    BY <1>8 DEF NumberInv, BudgetInv, Line
  <2>2. NoPdu \in good
    BY MessagesApart DEF Harmless
  <2> HIDE DEF good
  <2>3. Line(net'[self].pdu, inbox'[self], good)
    BY <1>0, <1>6, <1>8, <2>1, <2>2, MovedLine DEF good
  <2>4. QED
    BY <2>3 DEF good
<1>9. CASE results' = results /\ message' = message
  <2>1. Slack' = Slack /\ Covered' = Covered
    BY <1>1, <1>9 DEF Slack, Covered, Delivered, Ended, Undelivered
  <2>2. seq'[self] = seq'[me] + 1 => Covered
    <3>1. seq'[self] = seq'[me] + 1 => seq[self] = seq[me] + 1
      BY <1>1, <1>4
    <3>2. QED
      BY <3>1 DEF BudgetInv
  <2>3. /\ pc'[me] \in {"sendlock", "sendwait"}
        /\ seq'[me] = packet'.expected_ack_num
        => Covered
    <3> SUFFICES ASSUME pc'[me] \in {"sendlock", "sendwait"},
                        seq'[me] = packet'.expected_ack_num
                 PROVE  Covered
      OBVIOUS
    <3>1. ~ SendPacket
      <4>1. SendPacket => packet'.expected_ack_num = seq[me] + 1 /\ seq' = seq
        BY DEF SendPacket, TypeInv, ClientTypeOK
      <4>2. QED
        BY <4>1
    <3>2. pc[me] \in {"sendlock", "sendwait"} /\ packet' = packet
      BY <1>2, <3>1 DEF ClientNumbers
    <3>3. CASE seq'[me] = seq[me]
      BY <3>2, <3>3 DEF BudgetInv
    <3>4. CASE seq'[me] # seq[me]
      BY <1>4, <3>4 DEF BudgetInv
    <3>5. QED
      BY <3>3, <3>4
  <2>4. Line(net'[self].pdu, inbox'[self], Harmless')
    <3>1. CASE seq'[me] = seq[me]
      <4>1. Harmless' = Harmless
        BY <1>1, <1>9, <2>1, <3>1 DEF Harmless, Delivered
      <4>2. pdu \in Harmless
        BY <1>7 DEF Harmless
      <4>3. QED
        BY <1>8, <4>1, <4>2
    <3>2. CASE seq'[me] # seq[me]
      <4>1. packet.seq_num < seq'[self]
        BY <1>1, <1>4, <3>2
      <4>2. Numbered \subseteq Harmless'
        BY <1>1, <4>1 DEF Numbered, Harmless
      <4>3. QED
        BY <1>7, <1>8, <4>2
    <3>3. QED
      BY <3>1, <3>2
  <2>5. QED
    BY <2>1, <2>2, <2>3, <2>4 DEF BudgetInv
<1>10. ASSUME message' = message + 1, results' # results,
              NEW end \in SendEnds, CallEnds(end)
       PROVE  BudgetInv'
  <2>1. /\ Slack' = Slack + (IF end = "acked" THEN 0 ELSE 1)
                          - (IF Delivered(message) THEN 0 ELSE 1)
        /\ Slack' \in Int
    <3>1. results' = Append(results, end)
      BY <1>10 DEF CallEnds
    <3>2. Slack' = Slack + (IF end = "acked" THEN 0 ELSE 1)
                         - (IF Delivered(message) THEN 0 ELSE 1)
      BY <1>0, <1>1, <3>1, SlackOnReturn
    <3>3. QED
      BY <1>0, <3>2
  <2>2. seq'[me] = seq[me] /\ pc'[me] \notin {"sendlock", "sendwait"}
    BY <1>2, <1>10 DEF ClientNumbers
  <2>3. \A m : Delivered(m)' <=> Delivered(m)
    BY <1>1 DEF Delivered
  <2>4. Slack >= 0
    BY DEF BudgetInv
  <2>5. CASE end = "acked"
    <3>1. Covered
      BY <1>10, <2>5 DEF CallEnds, BudgetInv
    <3>2. packet.seq_num < seq[me]
      BY <1>10, <2>5 DEF CallEnds, NumberInv
    <3>3. seq[self] = seq[me]
      BY <1>4, <3>2
    <3>4. Slack' >= 0
      BY <1>0, <2>1, <2>4, <2>5, <3>1 DEF Covered
    <3>5. Numbered \subseteq Harmless'
      BY <1>1, <3>2, <3>3 DEF Numbered, Harmless
    <3>6. Line(net'[self].pdu, inbox'[self], Harmless')
      BY <1>7, <1>8, <3>5
    <3>7. QED
      BY <1>1, <2>2, <3>3, <3>4, <3>6 DEF BudgetInv
  <2>6. CASE end # "acked"
    <3>1. /\ Slack' >= Slack
          /\ Delivered(message) => Slack' >= 1
      BY <1>0, <2>1, <2>4, <2>6
    <3>2. seq[self] = seq[me] + 1 => Slack' >= 1
      BY <1>0, <2>1, <3>1 DEF BudgetInv, Covered
    <3>3. ASSUME NEW y \in Pdus, y \in Harmless \/ y = pdu
          PROVE  y \in Harmless'
      <4> SUFFICES ASSUME y \in Messages, y.seq_num = seq[self],
                          seq[self] = seq[me], y.data < message + 1
                   PROVE  ~ Delivered(y.data) \/ Slack' >= 1
        BY <1>1, <1>10, <2>2, <2>3 DEF Harmless
      <4>1. CASE y.data = message
        BY <3>1, <4>1
      <4>2. CASE y.data # message
        <5>1. y.data < message /\ y \in Harmless
          BY <1>7, <3>3, <4>2
        <5>2. ~ Delivered(y.data) \/ Slack >= 1
          BY <5>1 DEF Harmless
        <5>3. QED
          BY <1>0, <2>1, <3>1, <5>2
      <4>3. QED
        BY <4>1, <4>2
    <3>4. Line(net'[self].pdu, inbox'[self], Harmless')
      <4>1. Harmless \subseteq Harmless' /\ pdu \in Harmless'
        BY <3>3 DEF Harmless
      <4>2. QED
        BY <1>8, <4>1
    <3>5. QED
      BY <1>0, <1>1, <2>1, <2>2, <2>4, <3>1, <3>2, <3>4 DEF BudgetInv, Covered
  <2>7. QED
    BY <2>5, <2>6
<1>11. QED
  BY <1>9, <1>10, ClientResults

LEMMA ServerKeepsBudget ==
    ASSUME TypeInv, TransferShape, NumberInv, OrderInv, BudgetInv, ServerStep
    PROVE  BudgetInv'
<1> USE TheEnds, NumberTypes, OrderTypes
<1>0. /\ EndTypeOK /\ results \in Seq(SendEnds) /\ Slack \in Int
      /\ inbox[self] \in Seq(Pdus) /\ net[self].pdu \in Pdus
      /\ \A i \in DOMAIN inbox[self] : inbox[self][i] \in Pdus
  <2>1. EndTypeOK /\ results \in Seq(SendEnds) /\ Slack \in Int
    BY SlackCounts DEF TypeInv, ClientTypeOK
  <2>2. inbox[self] \in Seq(Pdus) /\ net[self].pdu \in Pdus
    BY <2>1 DEF EndTypeOK
  <2>3. QED
    BY <2>1, <2>2
<1>1. /\ Untouched(me) /\ UNCHANGED clientVars /\ message' = message
      /\ seq'[me] = seq[me]
  BY <1>0, ServerApart DEF clientVars, message, Untouched
<1>2. ServerNumbers /\ LineMoves(self, NoPdu)
  BY ServerCountsOn DEF TransferShape, NumberInv
<1>3. CASE Takes
  <2> DEFINE d == net[self].pdu.data
  <2>1. d \in Payloads
    BY <1>0 DEF Pdus, mic_tcp_pdu
  <2>2. d \in 1 .. message
    <3>1. net[self].pdu \in Sends
      BY <1>3, OrderSets DEF TransferShape, ServerShape, Line, Takes
    <3>2. QED
      BY <3>1 DEF OrderInv, Line, Ordered
  <2>3. seq[self] = seq[me] /\ seq'[self] = seq[me] + 1
    <3>1. seq[self] <= packet.seq_num
      BY <1>0, <1>3 DEF Takes, NumberInv, Line, Numbered
    <3>2. QED
      BY <1>3, <3>1 DEF Takes, NumberInv, ServerAtMostOneAhead
  <2>4. /\ Range(delivered)' = Range(delivered) \cup {d}
        /\ Slack' = Slack + (IF d \in Undelivered THEN 1 ELSE 0)
    BY <1>0, <1>1, <1>3, <2>1, SlackOnDelivery DEF Takes, clientVars
  <2>5. Slack >= 0
    BY DEF BudgetInv
  <2>6. Covered'
    <3>1. CASE d = message
      BY <1>1, <2>4, <3>1 DEF Covered, Delivered
    <3>2. CASE d # message
      <4>1. ~ Delivered(d) \/ Slack >= 1
        <5>1. net[self].pdu \in Harmless
          BY DEF BudgetInv, Line
        <5>2. d < message
          BY <2>2, <3>2
        <5>3. QED
          BY <1>3, <2>3, <5>1, <5>2 DEF Harmless, Takes
      <4>2. ~ Delivered(d) => d \in Undelivered
        BY <2>2, <3>2 DEF Delivered, Undelivered
      <4>3. Slack' >= 1
        BY <1>0, <2>4, <2>5, <4>1, <4>2
      <4>4. QED
        BY <4>3 DEF Covered
    <3>3. QED
      BY <3>1, <3>2
  <2>7. Slack' >= 0
    BY <1>0, <2>4, <2>5
  <2>8. Pdus \subseteq Harmless'
    BY <1>1, <2>3 DEF Harmless
  <2>9. Line(net'[self].pdu, inbox'[self], Harmless')
    BY <1>0, <1>3, <2>8, MessagesApart DEF Line, Takes, QueueKept
  <2>10. QED
    BY <2>6, <2>7, <2>9 DEF BudgetInv
<1>4. CASE seq'[self] = seq[self] /\ delivered' = delivered
  <2>1. /\ Slack' = Slack /\ Covered' = Covered /\ Harmless' = Harmless
    BY <1>1, <1>4
    DEF Slack, Covered, Harmless, Delivered, Ended, Undelivered, Range,
        clientVars
  <2>2. Line(net'[self].pdu, inbox'[self], Harmless)
    <3>1. NoPdu \in Harmless
      BY MessagesApart DEF Harmless
    <3>2. QED
      BY <1>0, <1>2, <3>1, MovedLine, MessagesApart DEF BudgetInv
  <2>3. QED
    BY <1>1, <1>4, <2>1, <2>2 DEF BudgetInv, Untouched, clientVars
<1>5. QED
  BY <1>2, <1>3, <1>4 DEF ServerNumbers

LEMMA BudgetStarts == InitConnected => BudgetInv
<1> SUFFICES ASSUME InitConnected
             PROVE  BudgetInv
  OBVIOUS
<1>1. /\ inbox["server"] = <<>> /\ net["server"].pdu = NoPdu
      /\ results = <<>> /\ delivered = <<>> /\ pc["client"] = "idle"
      /\ seq["client"] = 1 /\ seq["server"] = 1
  BY DEF InitConnected, InitShared, Both, Ends, NetAt
<1>2. Slack = 0
  <2>1. Ended({"lost", "error"}) = {} /\ Undelivered = {}
    BY <1>1 DEF Ended, Undelivered
  <2>2. QED
    BY <2>1, FS_EmptySet DEF Slack
<1>3. NoPdu \in Harmless
  BY MessagesApart DEF Harmless
<1>4. QED
  BY <1>1, <1>2, <1>3 DEF BudgetInv, Line

LEMMA BudgetIsKept ==
    ASSUME TypeInv, TransferShape, NumberInv, OrderInv, BudgetInv, [Next]_vars
    PROVE  BudgetInv'
<1>1. CASE ClientStep \/ Call
  BY <1>1, ClientKeepsBudget
<1>2. CASE ServerStep
  BY <1>2, ServerKeepsBudget
<1>3. CASE UNCHANGED vars
  <2>1. UNCHANGED <<endVars, clientVars, serverVars>>
    BY <1>3 DEF vars
  <2>2. Slack' = Slack /\ \A m : Delivered(m)' = Delivered(m)
    BY <2>1
    DEF Slack, Ended, Undelivered, Delivered, Range, clientVars, serverVars
  <2>3. QED
    BY <2>1, <2>2
    DEF endVars, clientVars, serverVars, message, BudgetInv, Covered, Harmless
<1>4. QED
  BY <1>1, <1>2, <1>3 DEF Next

TransferInv == TypeInv /\ TransferShape /\ NumberInv /\ OrderInv /\ BudgetInv

LEMMA TransferInvIsInductive ==
    ASSUME PlainMessages
    PROVE  /\ InitConnected => TransferInv
           /\ TransferInv /\ [Next]_vars => TransferInv'
<1>1. InitConnected => TransferInv
  BY InitialTypes, TransferStarts, OrderStarts, BudgetStarts
  DEF TransferInv
<1>2. TransferInv /\ [Next]_vars => TransferInv'
  BY StepsKeepTypes, NumbersAreKept, OrderIsKept, BudgetIsKept DEF TransferInv
<1>3. QED
  BY <1>1, <1>2

\* Every message that is lost is paid for by a call of mic_tcp_send that did not
\* return msg_size, for any number of calls and whatever the channel loses: an
\* accepted loss may hit another message than its own, but never makes two.
THEOREM LossesStayWithinBudget ==
    ASSUME PlainMessages
    PROVE  SpecConnected => []LossBudget
<1>1. InitConnected => TransferInv
  BY TransferInvIsInductive
<1>2. TransferInv /\ [Next]_vars => TransferInv'
  BY TransferInvIsInductive
<1>3. TransferInv => LossBudget
  <2>1. TypeInv /\ BudgetInv => LossBudget
    BY SlackCounts DEF TypeInv, ClientTypeOK, BudgetInv, Slack, LossBudget
  <2>2. QED
    BY <2>1 DEF TransferInv
<1>4. QED
  BY <1>1, <1>2, <1>3, PTL DEF SpecConnected

(***************************************************************************)
(* The service, with its budget.                                           *)
(***************************************************************************)
LEMMA ServiceWithinBudget == TransferInv => Service!WithinBudget
<1> SUFFICES ASSUME TransferInv
             PROVE  Service!WithinBudget
  OBVIOUS
<1>1. results \in Seq(SendEnds)
  BY DEF TransferInv, TypeInv, ClientTypeOK
<1>2. Service!Unacknowledged = Ended({"lost", "error"})
  <2>1. \A m \in DOMAIN results : results[m] \in SendEnds
    BY <1>1
  <2>2. QED
    BY <2>1 DEF Service!Unacknowledged, Ended, SendEnds
<1>3. Service!Undelivered = Undelivered
  BY DEF Service!Undelivered, Undelivered, Range
<1>4. Cardinality(Undelivered) <= Cardinality(Ended({"lost", "error"}))
  BY <1>1, SlackCounts DEF TransferInv, BudgetInv, Slack
<1>5. QED
  BY <1>2, <1>3, <1>4, ServiceReads DEF Service!WithinBudget

\* The two ends together are the service of Transfer: messages come out in the
\* order of the calls, none is invented, no retransmission and no late packet
\* overtakes, and the losses are within the budget of the calls.
THEOREM EndsImplementTheService ==
    ASSUME PlainMessages
    PROVE  SpecConnected => ImplementsTransfer
<1>1. InitConnected => TransferInv /\ Service!Init
  BY TransferInvIsInductive DEF InitConnected, InitShared, Service!Init
<1>2. TransferInv /\ [Next]_vars => TransferInv'
  BY TransferInvIsInductive
<1>3. TransferInv /\ [Next]_vars => [Service!Next]_(Service!transferVars)
  BY OrderIsKept DEF TransferInv
<1>4. TransferInv => Service!WithinBudget
  BY ServiceWithinBudget
<1>5. QED
  BY <1>1, <1>2, <1>3, <1>4, PTL
  DEF SpecConnected, ImplementsTransfer, Service!BudgetedSpec, Service!Spec

=============================================================================
