------------------------------ MODULE Endpoint ------------------------------
(***************************************************************************)
(* What the two ends of a MIC-TCP connection share: the socket structure,  *)
(* the lossy UDP channel under IP_send and IP_recv, the condition variable *)
(* that joins the main thread to the network thread, mic_tcp_close, and    *)
(* the part of the PDU handlers that takes a connection down.              *)
(*                                                                         *)
(* Each end runs a main thread (pc) and a network thread (net). A step of  *)
(* a network thread is either the reception of a PDU, which chooses what   *)
(* to do with it by the protocol state read then, or the effect of that    *)
(* choice: the other thread may run, and change the state, in between.     *)
(***************************************************************************)
EXTENDS MicPdu, Sequences

CONSTANTS
    MAX_ATTEMPTS,    \* FINs sent by mic_tcp_close before it gives up
    Outcomes,        \* {"sent", "lost"}: set_loss_rate(LOSS_RATE); {"sent"}: 0
    Capacity,        \* bound: PDUs a UDP receive queue holds, later ones drop
    Rare,            \* the rare results below that this instance may produce
    PromptNetwork    \* TRUE: a wait only times out with nothing under way

\* A wait that returns without a signal, a timed wait refused because tv_nsec
\* is exactly 1e9, and a pthread_create that fails.
RareResults == {"spurious_wakeup", "bad_deadline", "no_thread"}

ASSUME EndpointAssumption ==
    /\ MAX_ATTEMPTS \in Nat
    /\ Outcomes \subseteq {"sent", "lost"}
    /\ Capacity \in Nat
    /\ Rare \subseteq RareResults
    /\ PromptNetwork \in BOOLEAN

Ends == {"client", "server"}
Peer(e) == CHOOSE p \in Ends : p # e

VARIABLES
    state,      \* protocol_state of the socket
    seq,        \* current_seq_num of the socket
    open,       \* sys_socket has not been closed
    lock,       \* lock and cond have not been destroyed
    pc,         \* where the main thread is
    woken,      \* the main thread waits on cond and was signalled
    attempts,   \* FINs mic_tcp_close has spent
    net,        \* where the network thread is, and the PDU it works on
    inbox       \* the UDP receive queue of sys_socket

endVars == <<state, seq, open, lock, pc, woken, attempts, net, inbox>>

NoPdu == create_nopayload_pdu({}, 0, 0)
NetAt(at, pdu) == [at |-> at, pdu |-> pdu]
Goto(e, label) == pc' = [pc EXCEPT ![e] = label]
socket_set_state(e, s) == state' = [state EXCEPT ![e] = s]

(***************************************************************************)
(* The channel. IP_send draws a random number to lose PDUs on purpose; it  *)
(* returns -1 only when sendto fails, on a socket that was closed. A       *)
(* thread already blocked in recvfrom still gets what arrives after close. *)
(***************************************************************************)
Receives(e) == open[e] \/ net[e].at = "blocked"

IP_send(e, pdu, outcome) ==
    LET p == Peer(e)
        arrives == /\ outcome = "sent"
                   /\ Receives(p)
                   /\ Len(inbox[p]) < Capacity
    IN  /\ outcome \in IF open[e] THEN Outcomes
                       ELSE {"error"} \cup (Outcomes \cap {"lost"})
        /\ inbox' = IF arrives THEN [inbox EXCEPT ![p] = Append(@, pdu)]
                    ELSE inbox

SendResults == {"sent", "lost", "error"}

(***************************************************************************)
(* The condition variable. A signal is lost unless the main thread already *)
(* waits; only `acceptwait' has no deadline.                               *)
(***************************************************************************)
Waiting == {"acceptwait", "synackwait", "sendwait", "finwait"}
Locking == {"acceptlock", "synacklock", "sendlock", "finlock"}

Signalled(e) == [woken EXCEPT ![e] = @ \/ pc[e] \in Waiting]

Wakes(e) ==
    /\ woken[e] \/ "spurious_wakeup" \in Rare
    /\ woken' = [woken EXCEPT ![e] = FALSE]

NothingUnderWay ==
    \A e \in Ends : \/ net[e].at = "exited"
                    \/ net[e].at \in {"none", "blocked"} /\ inbox[e] = <<>>

MayTimeOut(e) ==
    /\ ~ woken[e]
    /\ PromptNetwork => NothingUnderWay

\* pthread_cond_timedwait gives EINVAL at once: the deadline is not a valid one,
\* or the network thread has destroyed the lock.
WaitRefused(e) == ~ lock[e] \/ "bad_deadline" \in Rare
WaitStarts(e)  == lock[e]

(***************************************************************************)
(* mic_tcp_close, run by the main thread.                                  *)
(***************************************************************************)
mic_tcp_close(e) ==
    /\ socket_set_state(e, "CLOSING")
    /\ attempts' = [attempts EXCEPT ![e] = 0]
    /\ Goto(e, "fin")

\* Mutant: the attempt is not counted.
SpendNothing(e) ==
    /\ Goto(e, "fin")
    /\ UNCHANGED attempts

SpendAttempt(e) ==
    /\ attempts' = [attempts EXCEPT ![e] = @ + 1]
    /\ Goto(e, "fin")

\* Mutant: one attempt too many.
SendFinOnceMore(e) ==
    /\ pc[e] = "fin" /\ attempts[e] <= MAX_ATTEMPTS
    /\ \E outcome \in SendResults :
         /\ IP_send(e, Fin, outcome)
         /\ IF outcome = "error" THEN SpendAttempt(e)
            ELSE Goto(e, "finlock") /\ UNCHANGED attempts
    /\ UNCHANGED <<state, seq, open, lock, woken, net>>

SendFin(e) ==
    /\ pc[e] = "fin" /\ attempts[e] < MAX_ATTEMPTS
    /\ \E outcome \in SendResults :
         /\ IP_send(e, Fin, outcome)
         /\ IF outcome = "error" THEN SpendAttempt(e)
            ELSE Goto(e, "finlock") /\ UNCHANGED attempts
    /\ UNCHANGED <<state, seq, open, lock, woken, net>>

FinWaitStarts(e) ==
    /\ pc[e] = "finlock" /\ WaitStarts(e)
    /\ Goto(e, "finwait")
    /\ UNCHANGED <<state, seq, open, lock, woken, attempts, net, inbox>>

\* mic_tcp_close returns -1 and leaves the socket as it is.
FinWaitFails(e) ==
    /\ pc[e] = "finlock" /\ WaitRefused(e)
    /\ Goto(e, "failed")
    /\ UNCHANGED <<state, seq, open, lock, woken, attempts, net, inbox>>

\* Any wakeup is taken for the FIN+ACK.
FinAcknowledged(e) ==
    /\ pc[e] = "finwait" /\ Wakes(e)
    /\ Goto(e, "finalack")
    /\ UNCHANGED <<state, seq, open, lock, attempts, net, inbox>>

FinTimesOut(e) ==
    /\ pc[e] = "finwait" /\ MayTimeOut(e)
    /\ SpendAttempt(e)
    /\ UNCHANGED <<state, seq, open, lock, woken, net, inbox>>

\* The final ACK goes out once, whether or not the FIN+ACK came.
SendFinalAck(e) ==
    /\ pc[e] = "finalack" \/ (pc[e] = "fin" /\ attempts[e] >= MAX_ATTEMPTS)
    /\ \E outcome \in SendResults : IP_send(e, Ack(0), outcome)
    /\ socket_set_state(e, "CLOSED")
    /\ Goto(e, "join")
    /\ UNCHANGED <<seq, open, lock, woken, attempts, net>>

\* socket_cleanup. Only a client has a listen_thread to wait for: on a server
\* pthread_join gets the zero of a static structure and returns ESRCH.
Cleanup(e) ==
    /\ pc[e] = "join"
    /\ e = "client" => net[e].at = "exited"
    /\ open' = [open EXCEPT ![e] = FALSE]
    /\ lock' = [lock EXCEPT ![e] = FALSE]
    /\ Goto(e, "closed")
    /\ UNCHANGED <<state, seq, woken, attempts, net, inbox>>

\* A call that returned -1 ends the application, and its threads with it.
ProcessExits(e) ==
    /\ pc[e] = "failed"
    /\ open' = [open EXCEPT ![e] = FALSE]
    /\ net' = [net EXCEPT ![e] = NetAt("exited", NoPdu)]
    /\ Goto(e, "exited")
    /\ UNCHANGED <<state, seq, lock, woken, attempts, inbox>>

Close(e) ==
    \/ SendFin(e) \/ FinWaitStarts(e) \/ FinWaitFails(e)
    \/ FinAcknowledged(e) \/ FinTimesOut(e)
    \/ SendFinalAck(e) \/ Cleanup(e) \/ ProcessExits(e)

(***************************************************************************)
(* The network thread: receive a PDU, choose the effect, run it, start     *)
(* again. The choice is the operator given by the client or the server.    *)
(***************************************************************************)
NetReceive(e, effect) ==
    /\ net[e].at = "blocked" /\ inbox[e] # <<>>
    /\ net' = [net EXCEPT ![e] =
                 NetAt(effect, IF effect = "top" THEN NoPdu ELSE Head(inbox[e]))]
    /\ inbox' = [inbox EXCEPT ![e] = Tail(@)]
    /\ UNCHANGED <<state, seq, open, lock, pc, woken, attempts>>

NetDone(e) == net' = [net EXCEPT ![e] = NetAt("top", NoPdu)]

\* handle_awaiting_closing_state: any pure ACK is the final one.
AwaitingClosingEffect(pdu) ==
    IF Carries(pdu, {"ACK"}) THEN "cleanup"
    ELSE IF Carries(pdu, {"FIN"}) THEN "finack"
    ELSE "top"

ClosingEffect(pdu) ==
    IF Carries(pdu, {"FIN", "ACK"}) THEN "signal" ELSE "top"

\* A FIN: the peer closes. The state changes without a signal.
NetFin(e) ==
    /\ net[e].at = "fin"
    /\ socket_set_state(e, "AWAITING_CLOSING")
    /\ \E outcome \in SendResults : IP_send(e, FinAck, outcome)
    /\ NetDone(e)
    /\ UNCHANGED <<seq, open, lock, pc, woken, attempts>>

\* The FIN again: its FIN+ACK was lost.
NetFinAgain(e) ==
    /\ net[e].at = "finack"
    /\ \E outcome \in SendResults : IP_send(e, FinAck, outcome)
    /\ NetDone(e)
    /\ UNCHANGED <<state, seq, open, lock, pc, woken, attempts>>

\* The final ACK: CLOSED, then socket_cleanup in the network thread itself. Its
\* pthread_join fails at once (EDEADLK on a client, ESRCH on a server).
NetFinalAck(e) ==
    /\ net[e].at = "cleanup"
    /\ socket_set_state(e, "CLOSED")
    /\ net' = [net EXCEPT ![e] = NetAt("shut", NoPdu)]
    /\ UNCHANGED <<seq, open, lock, pc, woken, attempts, inbox>>

\* Mutant: nobody is told that the socket is closed.
NetShutInSilence(e) ==
    /\ net[e].at = "shut"
    /\ open' = [open EXCEPT ![e] = FALSE]
    /\ net' = [net EXCEPT ![e] = NetAt("destroy", NoPdu)]
    /\ UNCHANGED <<state, seq, lock, pc, woken, attempts, inbox>>

\* close and pthread_cond_signal, without the lock: the main thread may begin to
\* wait right after it.
NetShut(e) ==
    /\ net[e].at = "shut"
    /\ open' = [open EXCEPT ![e] = FALSE]
    /\ woken' = Signalled(e)
    /\ net' = [net EXCEPT ![e] = NetAt("destroy", NoPdu)]
    /\ UNCHANGED <<state, seq, lock, pc, attempts, inbox>>

\* What the GNU library makes of destroying cond and lock under a main thread
\* that uses them, which POSIX leaves undefined: pthread_cond_destroy lets those
\* who wait leave first, pthread_mutex_destroy fails (EBUSY) when the main thread
\* has the lock.
NetDestroy(e) ==
    /\ net[e].at = "destroy"
    /\ \/ pc[e] \notin Waiting /\ lock' = [lock EXCEPT ![e] = FALSE]
       \/ pc[e] \in Waiting \cup Locking /\ UNCHANGED lock
    /\ NetDone(e)
    /\ UNCHANGED <<state, seq, open, pc, woken, attempts, inbox>>

NetSignal(e) ==
    /\ net[e].at = "signal"
    /\ woken' = Signalled(e)
    /\ NetDone(e)
    /\ UNCHANGED <<state, seq, open, lock, pc, attempts, inbox>>

NetCleanup(e) == NetFinalAck(e) \/ NetShut(e) \/ NetDestroy(e)

NetClosing(e) == NetFin(e) \/ NetFinAgain(e) \/ NetCleanup(e) \/ NetSignal(e)

\* IP_recv on an open socket, with no timeout.
NetBlocks(e) ==
    /\ net[e].at = "top" /\ open[e]
    /\ net' = [net EXCEPT ![e] = NetAt("blocked", NoPdu)]
    /\ UNCHANGED <<state, seq, open, lock, pc, woken, attempts, inbox>>

NetExits(e) ==
    /\ net[e].at = "top"
    /\ net' = [net EXCEPT ![e] = NetAt("exited", NoPdu)]
    /\ UNCHANGED <<state, seq, open, lock, pc, woken, attempts, inbox>>
=============================================================================
