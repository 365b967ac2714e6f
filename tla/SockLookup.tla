----------------------------- MODULE SockLookup -----------------------------
(***************************************************************************)
(* The sockets of one process: mic_tcp_socket, initialize_components, the  *)
(* table of src/mictcp/mictcp_sock_lookup.c, and the descriptors of the    *)
(* operating system, which the files of the application share.             *)
(*                                                                         *)
(* The flag `initialized' makes initialize_components open a system socket *)
(* once. Later calls return the flag itself, and that is 1: the standard   *)
(* output of the process.                                                  *)
(***************************************************************************)
EXTENDS Integers

CONSTANTS
    MAX_SOCKETS,
    MaxDescriptor   \* bound: the descriptors the process can open

ASSUME LookupAssumption ==
    /\ MAX_SOCKETS \in Nat \ {0}
    /\ MaxDescriptor \in Nat /\ MaxDescriptor >= 2

VARIABLES
    initialized,    \* of initialize_components
    next_fd,
    sockets,        \* the table
    creating,       \* what initialize_components returned to mic_tcp_socket
    listener,       \* the system socket of the thread `listening'
    kind,           \* what each descriptor of the process is open for
    file            \* the descriptor of the file the gateway reads

lookupVars == <<initialized, next_fd, sockets, creating, listener, kind, file>>

None == -1
start_mode == {"CLIENT", "SERVER"}
Slots == 0 .. MAX_SOCKETS - 1
Descriptors == 0 .. MaxDescriptor

\* connected: remote_addr is set. closed is a history: socket_cleanup has run.
Slot(is_used, sys) ==
    [is_used |-> is_used, sys_socket |-> sys, connected |-> FALSE, closed |-> FALSE]

\* init_socket_array. 0, 1 and 2 are open when main starts.
LookupInit ==
    /\ initialized = None
    /\ next_fd = 0
    /\ sockets = [fd \in Slots |-> Slot(FALSE, 0)]
    /\ creating = None
    /\ listener = None
    /\ kind = [d \in Descriptors |-> IF d <= 2 THEN "standard" ELSE "free"]
    /\ file = None

get_socket_by_fd(fd) == { i \in Slots : i = fd /\ sockets[i].is_used }

\* The first slot with that system socket; no slot is the empty set.
get_socket_by_sys_fd(sys) ==
    LET found == { i \in Slots : sockets[i].is_used /\ sockets[i].sys_socket = sys }
    IN  { i \in found : \A j \in found : i <= j }

\* The system opens the lowest free descriptor, and closes what it is told to.
Free == { d \in Descriptors : kind[d] = "free" }
Lowest == { d \in Free : \A x \in Free : d <= x }
Opens(d, what) == d \in Lowest /\ kind' = [kind EXCEPT ![d] = what]
Closes(d) == kind' = [kind EXCEPT ![d] = "free"]

(***************************************************************************)
(* mic_tcp_socket: initialize_components, then allocate_new_socket. The    *)
(* network thread of a server is started by the first, before there is a   *)
(* slot for its socket.                                                    *)
(***************************************************************************)
\* A call that fails in socket(), or in the bind of a server, undoes itself and
\* takes no step. A client does not look at what its bind returned.
FirstCall(sm) ==
    /\ creating = None /\ initialized = None
    /\ initialized' = 1
    /\ \E d \in Descriptors :
         /\ Opens(d, "socket")
         /\ creating' = d
         /\ listener' = IF sm = "SERVER" THEN d ELSE None
    /\ UNCHANGED <<next_fd, sockets, file>>

\* Mutant: the system socket of the first call is kept and given again.
GiveTheFirstSocket ==
    /\ creating = None /\ initialized # None
    /\ creating' = IF next_fd = 0 THEN initialized ELSE sockets[0].sys_socket
    /\ UNCHANGED <<initialized, next_fd, sockets, listener, kind, file>>

LaterCall ==
    /\ creating = None /\ initialized # None
    /\ creating' = initialized
    /\ UNCHANGED <<initialized, next_fd, sockets, listener, kind, file>>

\* Mutant: the end of the table is not looked at.
AllocateUnchecked ==
    /\ creating # None
    /\ sockets' = [sockets EXCEPT ![next_fd] = Slot(TRUE, creating)]
    /\ next_fd' = next_fd + 1
    /\ creating' = None
    /\ UNCHANGED <<initialized, listener, kind, file>>

allocate_new_socket ==
    /\ creating # None /\ next_fd < MAX_SOCKETS
    /\ sockets' = [sockets EXCEPT ![next_fd] = Slot(TRUE, creating)]
    /\ next_fd' = next_fd + 1
    /\ creating' = None
    /\ UNCHANGED <<initialized, listener, kind, file>>

\* Slots are never given back. mic_tcp_socket closes what it had and returns -1.
AllocationFails ==
    /\ creating # None /\ next_fd = MAX_SOCKETS
    /\ Closes(creating)
    /\ creating' = None
    /\ UNCHANGED <<initialized, next_fd, sockets, listener, file>>

(***************************************************************************)
(* What becomes of a socket, and of the file of the gateway.               *)
(***************************************************************************)
\* The SYN of the peer, or mic_tcp_connect: remote_addr is set. On a descriptor
\* that is no socket nothing is ever received.
Connects(fd) ==
    /\ get_socket_by_fd(fd) # {} /\ ~ sockets[fd].connected
    /\ kind[sockets[fd].sys_socket] = "socket"
    /\ sockets' = [sockets EXCEPT ![fd].connected = TRUE]
    /\ UNCHANGED <<initialized, next_fd, creating, listener, kind, file>>

\* At the end of mic_tcp_close, or in the network thread, and again when both do
\* it. With no remote_addr mic_tcp_close does not get there: gethostbyname(NULL)
\* ends the process.
socket_cleanup(fd) ==
    /\ get_socket_by_fd(fd) # {} /\ sockets[fd].connected
    /\ Closes(sockets[fd].sys_socket)
    /\ sockets' = [sockets EXCEPT ![fd].closed = TRUE]
    /\ UNCHANGED <<initialized, next_fd, creating, listener, file>>

\* The gateway opens its file even when mic_tcp_connect has failed.
OpenFile ==
    /\ file = None
    /\ \E d \in Descriptors : Opens(d, "file") /\ file' = d
    /\ UNCHANGED <<initialized, next_fd, sockets, creating, listener>>

CloseFile ==
    /\ file # None
    /\ Closes(file)
    /\ file' = None
    /\ UNCHANGED <<initialized, next_fd, sockets, creating, listener>>

SocketCalls ==
    \/ FirstCall("CLIENT") \/ LaterCall \/ allocate_new_socket \/ AllocationFails
    \/ \E fd \in Slots : socket_cleanup(fd)
    \/ OpenFile \/ CloseFile
=============================================================================
