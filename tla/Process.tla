------------------------------ MODULE Process ------------------------------
(***************************************************************************)
(* One process that uses MIC-TCP: its sockets, the files it opens, the     *)
(* network thread `listening' and the threads of the application that read *)
(* the one buffer all sockets share. The other end of the connection is    *)
(* what makes a socket connected and data come (see MicTcp for both ends). *)
(***************************************************************************)
EXTENDS SockLookup, AppBuffer

vars == <<lookupVars, bufferVars>>

Init == LookupInit /\ BufferInit

\* initialize_components of a server ends with pthread_create(listening).
CreateServer == FirstCall("SERVER") /\ Spawn

\* The SYN has to come through the network thread on a server.
Connect ==
    /\ \E fd \in Slots :
         /\ sockets[fd].sys_socket = listener => at[Net] = "receive"
         /\ Connects(fd)
    /\ UNCHANGED bufferVars

\* process_server_PDU: data for an established connection is put in the buffer,
\* and a PDU for which there is no slot yet is dropped.
Receive ==
    /\ listener # None /\ kind[listener] = "socket"
    /\ \E fd \in get_socket_by_sys_fd(listener) : sockets[fd].connected
    /\ app_buffer_put
    /\ UNCHANGED lookupVars

\* recvfrom fails on a socket that was closed, and the thread ends.
ListeningReturns ==
    /\ listener # None /\ kind[listener] # "socket"
    /\ Move(Net, "receive", "exited")
    /\ UNCHANGED <<lookupVars, lock, entries, entry, notified, puts, taken>>

\* After an accept that returned. There is no check that the connection is still
\* up, nor that the socket is the one the data came for.
mic_tcp_recv(r) ==
    /\ \E fd \in Slots : get_socket_by_fd(fd) # {} /\ sockets[fd].connected
    /\ Listening
    /\ app_buffer_get(r)
    /\ UNCHANGED lookupVars

Threaded ==
    \/ ListenInit \/ Put
    \/ \E r \in Readers : Get(r) \/ GetWakesAlone(r)

Next ==
    \/ CreateServer \/ Connect \/ Receive \/ ListeningReturns
    \/ SocketCalls /\ UNCHANGED bufferVars
    \/ Threaded /\ UNCHANGED lookupVars
    \/ \E r \in Readers : mic_tcp_recv(r)

\* A thread that can run does. Nobody owes a call or a PDU, and no wait owes a
\* wakeup without a broadcast. The lock is asked for by a reader each time a
\* message comes, so that a reader is only ever passed over a bounded number of
\* times.
Fairness ==
    /\ WF_vars((ListenInit \/ Put) /\ UNCHANGED lookupVars)
    /\ \A r \in Readers : WF_vars(Get(r) /\ UNCHANGED lookupVars)

Spec == Init /\ [][Next]_vars /\ Fairness

------------------------------------------------------------------------------

ThreadLabels ==
    {"none", "start", "receive", "put", "insert", "unlock", "broadcast",
     "exited", "idle", "lock", "check", "wait", "remove"}

Kinds == {"standard", "socket", "file", "free"}

\* The values of every variable: the flag stays a flag, the table stays within
\* its slots, and what app_buffer_put was given is what is queued or taken.
TypeOK ==
    /\ initialized \in {None, 1}
    /\ next_fd \in 0 .. MAX_SOCKETS
    /\ \A fd \in Slots : sockets[fd].is_used <=> fd < next_fd
    /\ creating \in {None} \cup Descriptors
    /\ listener \in {None} \cup Descriptors
    /\ kind \in [Descriptors -> Kinds]
    /\ file \in {None} \cup Descriptors
    /\ lock \in Threads \cup {NoThread}
    /\ at \in [Threads -> ThreadLabels]
    /\ entry \in [Readers -> 0 .. NPuts]
    /\ notified \subseteq Readers
    /\ entries \in Seq(1 .. NPuts) /\ taken \in Seq(1 .. NPuts)

\* The system socket initialize_components opened, as opposed to the flag: only
\* the first socket of a process has one.
Real(fd) == sockets[fd].is_used /\ sockets[fd].sys_socket # initialized

\* While nobody has closed it the first socket keeps its system socket, whatever
\* the process does with other sockets and with its files: creating one too many,
\* closing another one twice, or a close that comes after the descriptor was given
\* to somebody else.
OpenUntilClosed ==
    \A fd \in Slots :
      Real(fd) /\ ~ sockets[fd].closed => kind[sockets[fd].sys_socket] = "socket"

\* However many sockets a process creates, only the first ever gets a connection:
\* the others share the flag of initialize_components as their system socket, on
\* which nothing comes. It is also the one the network thread finds.
OneConnection ==
    \A fd \in Slots : sockets[fd].connected =>
      /\ fd = 0
      /\ get_socket_by_sys_fd(sockets[fd].sys_socket) = {fd}
      /\ listener # None => listener = sockets[fd].sys_socket

InBuffer(t) == at[t] \in {"insert", "unlock", "check", "remove"}

\* The buffer and the entry a reader has picked are touched under the lock only,
\* although the lock is initialised while the process runs.
MutualExclusion ==
    \A t, u \in Threads : InBuffer(t) /\ InBuffer(u) => t = u

Queue == INSTANCE Fifo WITH queue <- entries, Messages <- 1 .. NPuts

\* The buffer is a queue: each message is handed out once, and in order.
ImplementsFifo == Queue!Spec

\* No wakeup is lost: while the queue holds an entry, a reader that waits was woken,
\* or the network thread is on its way from the insertion to the broadcast. Several
\* readers may have been woken for one entry, and wait again.
WakeupIsOwed ==
    \A r \in Readers :
      at[r] = "wait" /\ entries # <<>> =>
        r \in notified \/ at[Net] \in {"unlock", "broadcast"}

\* No reader sleeps on a message: the broadcast is made after the unlock, and
\* may come before, between or after the steps of a reader that found nothing.
NobodySleepsOnAnEntry ==
    \A r \in Readers :
      at[r] = "wait" /\ entries # <<>> ~> at[r] # "wait" \/ entries = <<>>
=============================================================================
