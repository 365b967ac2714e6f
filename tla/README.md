# MIC-TCP in TLA+

A verification development of MIC-TCP, a simplified transport protocol over a
lossy UDP channel: three-way handshake, measure of the reliability of the
channel, stop-and-wait data transfer with negotiated partial reliability, and a
closing exchange. Each end is a process with two threads that share a socket.

Paths are those of the repository (`src/mictcp/mictcp.c`,
`include/mictcp/mictcp.h`); `PROJECT.json` gives the lines each definition
models.

## 1. The system

### 1.1 Components

| component | code | state | operations |
|---|---|---|---|
| PDU construction and checks | `mictcp_pdu.c`, `mictcp.h` | none | `create_nopayload_pdu`, `verify_pdu` (0 is a wildcard) |
| Partial reliability | `sliding_window.c`, end of `mic_tcp_connect`, `mic_tcp_send` | `sliding_window`, its size, `sliding_window_consecutive_loss` | `update_sliding_window`, `verify_acceptable_loss`, the thresholds |
| Connection | `mictcp_socket.c` | `state`, `current_seq_num`, `received_packets`, `remote_addr` | `mic_tcp_socket`, `mic_tcp_bind`, `mic_tcp_accept`, `mic_tcp_connect`, `send_connection_acknowledgement` |
| Sending | `mictcp.c` | `current_seq_num`, window, `lock`, `cond` | `mic_tcp_send` |
| Closing | `mictcp.c` | `state`, `lock`, `cond`, `listen_thread` | `mic_tcp_close`, `socket_cleanup` |
| Network threads | `mictcp_asynchronism.c`, `mictcp_core.c` | the socket of the other thread | `process_client_PDU`, `process_server_PDU`, `listening_client`, `listening` |
| UDP channel | `mictcp_core.c` | the kernel's receive queues, `loss_rate`, a global `remote_addr` | `IP_send`, `IP_recv` |
| Application buffer | `mictcp_core.c` | a tail queue, a lock, a condition variable | `app_buffer_put`, `app_buffer_get` |
| Socket table | `mictcp_sock_lookup.c`, `initialize_components` | 20 static slots, `next_fd`, `initialized`, the descriptors of the process | `mic_tcp_socket`, `allocate_new_socket`, `get_socket_by_fd`, `get_socket_by_sys_fd` |
| Deadlines | `mictcp.c`, `mictcp_socket.c` | none | the `tv_nsec` arithmetic before each timed wait |
| Text applications | `apps/client.c`, `apps/server.c` | none | a line of text per message, read until the process is stopped |
| Gateway | `apps/gateway.c` | the file, `last_time`, a counter of packets | `read_rtp_packet`, `tsSubtract`, `file_to_mictcp`, `file_to_faketcp` (plain UDP), `mictcp_to_udp`; an empty packet at the end |

### 1.2 Interactions

* The **main thread** of a process runs the calls of the application and blocks
  in `pthread_cond_wait` or `pthread_cond_timedwait` on the socket's `cond`.
* The **network thread** receives PDUs, reads the socket's `state` *without* the
  lock to choose what to do, writes `state`, `current_seq_num`,
  `received_packets`, answers, and signals `cond`. On a server it starts with
  the socket; on a client in the middle of `mic_tcp_connect`, which until then
  receives by itself.
* The two processes interact by PDUs only. `IP_send` loses PDUs on purpose;
  the receive queue of UDP drops what does not fit.
* On the server the data goes from the network thread to the application through
  the application buffer. There is one buffer and one network thread per
  process, whatever the number of its sockets.
* The sockets and the files of a process share its table of descriptors, and two
  calls that close the same descriptor are not always the same call.

### 1.3 What is hard, and the properties that answer it

* No wait of the protocol has a predicate, and the state changes before the lock
  is taken: a signal may be lost, or wake a call it was not meant for.
* The same PDU, a pure ACK, ends the handshake, answers a probe, acknowledges data
  and ends the closing exchange; only the state tells which. A late one is
  applied to the wrong purpose.
* `current_seq_num` is the number of the next message *and* what a client
  compares to know that it was acknowledged, and both threads write it.
* A loss that was accepted may be no loss: the data came and the ACK did not.
* `socket_cleanup` destroys `lock` and `cond`, from either thread.
* The broadcast of the application buffer comes after the unlock, several
  threads may read, and the listening thread initialises the lock when it starts,
  after the socket was returned.
* Slots are never given back, the lookups take the first that fits, and a second
  call of `initialize_components` returns a flag where a descriptor is expected.
* Times are kept in seconds and a rest: a deadline is reduced without a carry, and
  the delay before the first packet of a file is negative.

The properties that make each component correct: for partial reliability, the
bound on the losses in any window; for the connection, that both ends agree on
it, that the measure counts each probe once, and that the handshake ends; for
sending, that the application loses no more than the calls admit and that the
two sequence numbers stay coupled; for closing, that nothing reopens the
server, that taking a socket down wakes every thread it finds waiting, and that
the exchange of FINs ends; for the application buffer, that it is a queue whose
messages come out once and in order and on which nobody sleeps for nothing; for
the sockets, that the first keeps its system socket whatever is done to the
others, and that none of those is ever taken for it; for the gateway, that the
packets are never sent faster than they were recorded and that the sink stops on
a message of no bytes only. The complete list of hazards, each at its line and
with the properties that cover it, is in `PROJECT.json`.

## 2. The modules

```
MicPdu          SlidingWindow
  |              |        |
Endpoint         |    LossPolicy  --  LossPolicyProofs
  |      \       |        |
  |      Client -+        |  (INSTANCE: refinement)
Server   /                |
   \    /                 |
   MicTcp ----------------+---- Transfer (INSTANCE: refinement)
     |   \                          |
  Claims  MicTcpProofs               |  (INSTANCE: the channel of the gateway)
            |                        |
          CleanupProofs   Timespec - Gateway - MCGateway
            |                        |
          HandshakeProofs      GatewayProofs
            |
          MeasureProofs
            |
          DataProofs - LossPolicyProofs (INSTANCE: what it proves of the policy)

SockLookup   AppBuffer
       \     /
       Process ---- Fifo (INSTANCE: refinement)
          |
    ProcessProofs
```

* **MicPdu** - a PDU is a record of the set of its flags, two numbers and a
  payload; `verify_pdu` has the wildcards of the code. Ports are left out
  because no handler reads them.
* **SlidingWindow** - the C window is an `int` of bits; here it is the set of the
  positions that are on, so `popcount` is `Cardinality` and `<<= 1` with the mask
  is `Shift`. The percentages of `mic_tcp_connect` are compared in integers.
* **LossPolicy** - the abstract specification of partial reliability: what any
  sequence of sends may do to the window. It has no threads and no network.
* **Endpoint** - what both ends have: the socket (`state`, `seq` for
  `current_seq_num`, `open`), whether `lock` and `cond` still exist (`lock`), the
  program counters of the two threads (`pc`, `net`), the condition variable
  (`woken`), the receive queue (`inbox`),
  `mic_tcp_close`, and the PDU handling that takes a connection down. Every
  variable is a function of the end.
* **Client** - `mic_tcp_connect`, `mic_tcp_send`, `listening_client` and
  `process_client_PDU`.
* **Server** - `mic_tcp_bind`, `mic_tcp_accept`, `mic_tcp_recv` and
  `process_server_PDU`.
* **MicTcp** - the two processes and the channel; the properties. `Init` is two
  fresh sockets; `InitConnected` is what a handshake and a measure leave behind
  when no PDU is under way, for the runs that are about data and closing.
* **Claims** - what the README and the comments say and the code does not do.
* **Transfer** - the abstract service of a connection: calls end one after the
  other, messages come out in the order of the calls, some not at all and some
  twice in a row. `BudgetedSpec` adds that each loss is paid for by a call that
  did not return `msg_size`. MicTcp implements it.
* **AppBuffer** - `app_buffer_put` and `app_buffer_get`, a step for each lock,
  look at the queue, removal, wait, unlock and broadcast. **Fifo** is the queue it
  has to be.
* **SockLookup** - `mic_tcp_socket`, `initialize_components`, the table and its
  lookups, and the descriptors of the process, which the system gives lowest
  first and which the gateway's file takes too.
* **Process** - the two together in one process: the first server socket starts
  the network thread, data for an established connection goes into the buffer,
  the threads of the application read after accept. The peer is what makes a
  socket connected and data come.
* **Timespec** - the arithmetic on `struct timespec`: the deadline of a timed wait
  and `tsSubtract`. A second has `SECOND` units.
* **Gateway** - `file_to_mictcp`, `file_to_faketcp` and `mictcp_to_udp`. Between
  the two ends is the service of Transfer, without its budget: the answer to a
  probe that is left behind by the measure breaks it (`acked_means_delivered`).
  That much of the service no message and no late PDU breaks
  (`DataProofs!MessagesStayInOrder`).

### 2.1 How a step corresponds to the code

A step of a main thread is the code between two points where another thread can
make a difference: a send, the lock before a wait (`...lock`), the wait
(`...wait`), a read of the state or of `current_seq_num`. So there is a step
between `IP_send` and the wait, in which a signal is lost, and `BuildPacket` and
`SendPacket` are two steps because `mic_tcp_send` reads `current_seq_num` twice.

A step of a network thread is either the reception of a PDU together with the
choice of what to do (`ClientEffect`, `ServerEffect`: the `if` and `switch` over
the state), or the effect that was chosen. Between the two the main thread may
change the state, as it may in the code. The final ACK takes three steps after its
reception: CLOSED (`NetFinalAck`), `close` and the signal of `socket_cleanup`
(`NetShut`), and the destruction of `cond` and `lock` (`NetDestroy`). The main
thread may send, lock and begin to wait between any two of them.

`woken[e]` is TRUE when the main thread waits on `cond` and was signalled; a
signal with no one waiting changes nothing (`Signalled`). A timed wait may also
end by its timeout (`MayTimeOut`), and, where `Rare` says so, by a spurious wakeup
or by being refused with `EINVAL`.

`results`, `delivered` and `probes` are histories that the properties are stated
over (`probes` is also the loop counter of the measure). The messages of the
application are numbered 1, 2, ... in the order of the calls.

In `Process` a step is the code between two points where another thread can run,
under the lock or out of it; `at[t]` is where a thread is. `pthread_cond_wait`
gives the lock back and waits in one step, and takes it again when it returns.
In `Gateway` time passes in the source only: `clock` advances with the delays it
asks for, with the waits of `mic_tcp_send` and with the stalls of the plain mode.

### 2.2 Abstractions

* Within one effect of a network thread the writes of the state, of the sequence
  number and the signal are one step. The SYN of a server is the exception: the
  state is written first (`SynReceived`), `remote_addr` and the signal after it
  (`AddressKnown`), and an accept that sends in between, which takes a wakeup
  without a signal, follows a null pointer in `gethostbyname` (`AcceptCrashes`).
  `process_server_PDU` reads the state at lines 46 and 62; both reads are the one
  of the reception. `app_buffer_put` (line 101) and the ACK that follows it (line
  110) are one step too (`TakeData`): a reader may be a little earlier in the code.
* In `socket_cleanup` `close` and the signal are one step. Destroying a condition
  variable or a lock that is in use is undefined in POSIX. `NetDestroy` has what
  the GNU library does: `pthread_cond_destroy` lets those who wait leave first, and
  `pthread_mutex_destroy` fails with `EBUSY` on a lock that is held. Once both are
  destroyed a timed wait is refused (`WaitRefused`).
* When the main thread runs `socket_cleanup` it is a single step (`Cleanup`): on a
  client the network thread has ended, and on a server the network thread waits
  for nothing.
* The wait after each probe has a deadline of *now* (`TIMEOUT / 1000` is 0 and
  nothing else is added), so it takes no step.
* `pthread_join` in `socket_cleanup` waits only when a client's main thread calls
  it; on a server it gets the zero of a static structure and fails with `ESRCH`,
  and the network thread of a client that joins itself gets `EDEADLK`.
* In `Server`, `app_buffer_put` and `app_buffer_get` are one step each, on the FIFO
  sequence of the messages delivered and not yet read. `Process` has their steps,
  and `BufferIsAFifo` is why one step is enough.
* An empty payload leaves the receive buffer as it was, so the code compares the
  *previous* text with "mesure": this is `scratch`.
* An application that gets -1 from `mic_tcp_accept` or `mic_tcp_connect`, or
  from `mic_tcp_close`, ends (`failed`, then `exited`), and its threads end with
  it. The gateway goes on after a failed connect: that is in `Gateway`
  (`connected` FALSE) and in `SockLookup`, where its file is opened after the
  socket was closed.
* A first `mic_tcp_socket` whose `socket()` or server `bind()` fails undoes itself
  and takes no step; a client does not look at what its bind returned.
* In `SockLookup` a socket becomes connected and is taken down by whoever takes it
  down, at any time: the protocol that decides when is `MicTcp`. A descriptor
  that is closed twice is closed the second time for whoever has it then.
* `InitConnected` has the number 1 on both sides and no PDU under way. A late
  SYN+ACK and then an answer to a probe may also leave the client with 0; the runs
  from `Init` have that, and `acked_means_delivered` what it does to the data.
* In `Gateway` a file is a sequence of records, each a time and the number of bytes
  the file has for it, which may be 0. A negative size, and one that does not fit
  the buffer, on which `ERROR_IF` ends the program, are left out. A file that is
  cut short (`whole` FALSE) is cut in the data of its last packet, which is still
  sent. How the send of a message ends is left open: a signal may come for it or
  for another message, a timeout may give the message up or repeat it, and once
  the sink has closed it may fail. The sink goes on after a failed accept too
  (`gateway.c:300-302`): it then reads from a buffer nothing is put into, and
  takes no step here.
* UDP neither reorders nor duplicates: the processes run on one machine. It may
  lose: on purpose (`Outcomes`), by a full queue (`Capacity`), or because
  the peer's socket is closed.

## 3. The runs

All runs but `loss_policy` say `CHECK_DEADLOCK FALSE`: the system stops when both
processes have ended, a server may wait for ever in `app_buffer_get` or for a
final ACK that never comes, and so may a reader or a sink.

### 3.1 What holds

| run | specification | what it shows |
|---|---|---|
| `loss_policy` | `LossPolicy!Spec` | `LossBound`: of any 10 consecutive sends no more are given up than the tolerance. `PolicyInv`: the inductive invariant that the proof uses |
| `handshake` | `FairSpec`, losses, early timeouts | `ConnectMeansEstablished`: connect returns 0 only on a connection the server has, because an unestablished server answers no probe. `AcceptOutcome`: accept returns 0 only on an established connection, or one the client already closes. `SynAckHasAddress`: the SYN+ACK is never sent before the address of the client is written. `EachProbeCountsOnce`: the reliability measured never exceeds 100%. `HandshakeCompletes`: a handshake that starts when accept already waits ends on both sides |
| `handshake_faults` | `Spec`, one message, spurious wakeups, refused waits, failed thread creation | `TypeInv`. `OnlyLateWaitersAreLeft`: `socket_cleanup` wakes the thread it finds waiting, whichever call that is; a thread is left only when its wait begins after the signal, and that wait has a deadline |
| `data` | `SpecConnected`, losses, early timeouts, tolerance 0 and 1 | `ImplementsTransfer`: messages come out in the order of the calls, and the application loses at most one message per call that did not return `msg_size`, although the loss may hit another message than the one given up. `ServerAtMostOneAhead`: the coupling of the two sequence numbers. `ImplementsLossPolicy`: refinement of LossPolicy |
| `data_faults` | `SpecConnected`, losses, rare results, a message that reads "mesure" | `LossBudget`, the budget of Transfer as an invariant, when waits are refused or end without a signal |
| `closing` | `ClosingSpec`, an empty message last, the server closes too | `DeliversInOrder`: up to the end of the stream the messages come out in the order of the calls and none is invented, though the final `ACK(0)` takes the number of the client back. `NoReopening`: nothing brings back a server socket that is being taken down. `CloseGivesUp`: `mic_tcp_close` gets past its FINs, answered or not |
| `process` | `Process!Spec`, one socket too many, spurious wakeups | `OpenUntilClosed`: the first socket keeps its system socket until somebody closes it. `OneConnection`: only the first socket ever gets a connection, and it is the one the network thread finds; the others share a flag. `MutualExclusion`, `ImplementsFifo`: each message leaves the buffer once and in order. `WakeupIsOwed`: no wakeup is lost, since a reader that waits in front of an entry was woken or is about to be. `NobodySleepsOnAnEntry`: it does wake |
| `gateway` | `Gateway!Spec`, both modes, every small file | `NeverAhead`: no two packets are sent closer to each other than they were recorded. `CallIsBounded`: a send lasts at most `TIMEOUT` per try, whatever the deadlines. `TcpStalls`: the plain mode stalls in any `PERIOD` + 2 packets in a row. `EndsWithAnEmptyPacket`: the sink stops on a message of no bytes that the source has read, the end of the file or a record of size 0, and on nothing else; the player gets the packets in order, and none from behind that one |

Notes.

* `ImplementsLossPolicy` is run with a window of one send; the theorem of section
  4.1 is for every size.
* `AcceptOutcome` is as much as can be said: when the ACK of the handshake is
  lost and the client gives the connection up, its FIN makes the server
  AWAITING_CLOSING, the loop of accept ends, and accept returns 0 on a
  connection that never was. With a spurious wakeup of the first wait accept even
  returns 0 in ACCEPTING, which is why `handshake` has no rare results.
* `ServerAtMostOneAhead` is a property of a server that does not close by
  itself: the final `ACK(0)` of a closing server is taken as a data
  acknowledgement by a client that is still ESTABLISHED, whose number goes back
  to 0. Nor does it hold with a message that reads "mesure", whose answer has the
  number 0 too. `LossBudget` is stated over what the application sees.
* `LossBudget` is stated for a connection on which no answer to a probe is left
  under way; `acked_means_delivered` shows what one does.
* A message that reads "mesure" (`data_faults`) is answered as a probe with
  `ack_num` 0: `mic_tcp_send` repeats it until a loss is acceptable, and for ever
  when none is. It is never reported as sent.
* `SynAckHasAddress` holds as long as no wait returns without a signal; with
  spurious wakeups (`handshake_faults`) accept may crash there.
* `MutualExclusion` rests on the applications: the lock of the buffer is a zeroed
  global, which works as a lock, and the listening thread initialises it again
  when it starts. A reader that held it then would lose it; no reader does,
  because an application receives after accept has returned, and accept takes a
  PDU that the listening thread handled.

### 3.2 What does not hold

Each of these runs checks one statement of the repository (`Claims`) and finds a
behaviour of the code that contradicts it. The shortest ways there:

* `accept_returns` - accept sets ACCEPTING; the SYN is handled, makes it
  SYN_RECEIVED and signals nobody; accept waits. Later SYNs are ignored in that
  state: neither accept nor connect ever returns.
* `acked_means_delivered` - the answer to the last probe is handled after the
  measure and taken for a data acknowledgement of number 0. The client sends
  message 1 with number 0; the server expects 1, drops it and asks for 1; that
  is the number expected, and `mic_tcp_send` returns `msg_size`.
* `delivered_once` - the acknowledgement is handled between `IP_send` and the
  wait. The signal is lost, `current_seq_num` is already the next one; after the
  timeout the message is built again under that number and accepted again.
* `close_returns` - the main thread joins a listening thread that is blocked in
  `IP_recv` without a timeout, and no PDU comes any more.

Other behaviours of the model have no run of their own: most contradict no
sentence of the repository, and those that do are marked with it. They follow from
a few lines of the code, or are what a property that holds has to allow for.

In the protocol:

* The SYN+ACK is sent twice because the ACK is late, not lost; the client handles
  the second one while it closes and is ESTABLISHED again.
* The network thread is about to handle a data acknowledgement when close sets
  CLOSING and waits; the signal of that acknowledgement ends the FIN exchange, and
  the server may not have seen a FIN. Without any answer the exchange ends after
  `MAX_ATTEMPTS` FINs, which the code logs (`mictcp.c:170`). Lines 55 and 84 of
  the repository's `README.md` say that the FIN is sent "jusqu'à réception d'un
  FIN+ACK": the code stops without one in both cases. `CloseGivesUp` is the
  property of a close that does stop.
* The network thread that takes a socket down signals before it destroys. A main
  thread that has sent a message or a FIN and begins to wait after that signal is
  woken by nobody and waits until its deadline; `pthread_cond_destroy` waits for it.
* The answers to the probes may all come after the measure, whose waits have a
  deadline of *now*, so a channel that loses nothing is refused.
* The final ACK is sent once, so a server whose copy is lost stays in
  AWAITING_CLOSING.

In one process:

* A second `mic_tcp_socket` gets the flag 1, the standard output, as its system
  socket. Nothing can be received there: a connect on it never returns. All the
  sockets after the first share it, and `get_socket_by_sys_fd` cannot tell them
  apart. Lines 92-94 of the repository's `README.md` say that each socket is
  associated with a system descriptor and that several sockets at a time are
  handled: they are not, and `OneConnection` is what there is instead.
* The call after the last slot fails, and closes the descriptor it got: the
  standard output.
* `mic_tcp_close` on a socket that was never connected crashes in
  `gethostbyname(NULL)`.
* After a refused channel the gateway opens its file on the descriptor of the
  socket that was closed, and its final `mic_tcp_close` closes that file.

In times and files:

* A deadline past the second is reduced without a carry and is in the past: the
  wait times out at once. A deadline of exactly 1e9 ns is refused with `EINVAL`.
  Line 80 of the repository's `README.md` gives a message the configured `TIMEOUT`
  before it is sent again or given up. `CallIsBounded` bounds a wait from above
  only.
* The delay before the first packet is a negative number of nanoseconds, which
  `nanosleep` refuses: the packet is sent at once.
* A file that is cut short ends with no empty message, and the empty message may
  be given up like any other: in both cases the sink never ends.
* A record of size 0 in the middle of a file is sent as an empty message and ends
  the sink, which closes; the source goes on, and its sends fail or are given up.

### 3.3 Bounds

* `Capacity` 2 to 6: the queue of a side. Two is enough for a PDU and the
  retransmission that crosses it, and makes overflow happen; the refutations
  that need several probe answers at once take more. A full queue is one more way
  to lose a PDU, so it removes no behaviour a lossy channel has.
* `MAX_ATTEMPTS` 1 or 2 (10 in `mictcp_config.h`): enough for a FIN that is
  repeated after the first was answered late.
* `MESURING_RELIABILITY_PACKET_NUMBER` 2 (5 in one run) where the handshake is
  run, 100 where it is only a number: the thresholds are those of the code. With
  2 probes a single loss refuses the channel; the tolerances 0 to 3 are run in
  `loss_policy`, and 0 and 1 in `data` (`Measures`).
* `sliding_window_size` 1 in the runs of MicTcp, 10 in `loss_policy`: with 1, one
  acknowledged message is enough for a loss to be acceptable, so that three
  messages reach every branch. The size is a parameter of the theorems.
* `NMessages` up to 3: one acknowledged, one given up though it arrived, one sent
  under its number. `MaxSeq` bounds the sequence numbers of a client that repeats
  a message under the next number without end (`delivered_once`); it is a guard
  of `BuildPacket`.
* `Process`: 4 calls of `mic_tcp_socket` on a table of 3 slots, 5 descriptors of
  which 2 are not standard (a socket and a file), 2 readers and 3 messages: one
  call too many, a descriptor that changes hands, two readers woken by one
  broadcast for one message.
* `Gateway`: a second of 4 units and a timeout of 2, so that a deadline falls in
  the second, on its end and past it; files of up to 2 packets with times 0, 1, 3
  and 6 in any order, which borrow and cross seconds, two files of 3, and five
  with a record of no bytes first, in the middle and last; a wait
  that ends up to 1 unit late (`Jitter`), 2 sends of one message (`MaxTries`), 3
  deliveries (`MaxDelivered`), a stall after every second packet (`PERIOD` 1).
* `PromptNetwork` TRUE keeps timeouts from coming while a PDU is under way. It is
  used only to sharpen a refutation: "nothing is lost or late, and yet".

### 3.4 Fairness

In `handshake` every thread is scheduled, and every timed wait ends: weak fairness
on the four threads (`ClientMain`, `ClientNet`, `ServerMain`, `ServerNet`). The
channel does
not lose each of infinitely many copies: strong fairness on `SendSyn`,
`SendSynAck` and `Reacknowledge` with outcome "sent" (`IP_send` draws a number for
each PDU). Nothing is owed by the application: `ClientApplication`, the choice to
send or to close, has no fairness. `HandshakeCompletes` assumes that accept waits
before the SYN comes; `accept_returns` shows what happens when it does not.
`CloseGivesUp` needs nothing of the peer or of the network: `ClosingSpec` has weak
fairness on the steps of `mic_tcp_close` alone, at each end (`Closers`).

In `Process` the network thread and each call of `app_buffer_get` are weakly fair:
a thread that can run does. Nobody owes a call of the application or a PDU, and a
wait owes no wakeup without a broadcast. The lock is held for a bounded number of
steps and asked for at most once per message and reader, so that weak fairness
suffices to get it.

## 4. What is proved

The proofs are for every value of the constants that the `ASSUME`s of the modules
admit: any window size and tolerance, any number of messages, probes, attempts
and sequence numbers, any queue length, with or without losses and rare
results, any file and any length of a second. Those assumptions say no more than
that the numbers are natural, that there is a probe (`mic_tcp_connect` divides by
their number), that `TIMEOUT` is less than a second, and that a connected run
starts from a measure `mic_tcp_connect` accepts. Five theorems have a hypothesis
of their own, given below with what happens without it.

### 4.1 Partial reliability

* **`LossPolicyProofs!LossesAreBounded`**: `Spec => []LossBound`. The bound is not
  inductive: a state with few successes and as many losses as tolerated satisfies
  it, and the next loss breaks it. `PolicyInv` adds that no send is both
  acknowledged and lost, and `LossesAreCovered`: once a loss is in the window the
  successes in it number at least its size less the tolerance. A loss is
  accepted only if there are strictly more, so that even when the shift drops a
  success enough are left; disjoint sets in `size` positions then leave room for
  at most `tolerance` losses. The lemmas say what a shift and the two updates do
  to the number of bits (`ShiftProperties`, `AcknowledgedUpdate`, `LossUpdate`).
* **`DataProofs!SendsFollowTheLossPolicy`**: `SpecConnected => ImplementsLossPolicy`,
  with no hypothesis. The lost positions are defined over the results of the calls:
  a call given up as lost is at the number of calls that shifted the window after
  it (`ShiftsSince`). `ResultShifts` says what one more result does to them, and
  that is what LossPolicy does to its `lost`; every step that ends no call of
  `mic_tcp_send` stutters.
* **`DataProofs!LossesInTheWindow`** carries `LossesAreBounded` over to the two ends:
  of the last `sliding_window_size` calls that shifted the window, no more were
  given up than the tolerance that was negotiated.

### 4.2 The two ends

* **`MicTcpProofs!TypeInvariant`** and `TypeInvariantConnected`: both
  specifications imply `[]TypeInv`. Beyond the ranges this is the bound on the
  attempts of `mic_tcp_close`: `AttemptsLeft` says that an attempt which is being
  waited for has not been counted, which makes `attempts <= MAX_ATTEMPTS`
  inductive over the three ways an attempt ends. One lemma per function of the
  code, one step per action.
* **`CleanupProofs!OnlyLateWaitersAreLeftBehind`**: `Spec => OnlyLateWaitersAreLeft`.
  That nobody is left waiting is false: between the signal and the destroy of
  `socket_cleanup`, and after a destroy that found the lock in use, a wait may
  begin. What holds is about the step: a thread that waits is signalled in the
  step that closes the socket (`NetKeepsWatch`), takes its signal away only when it
  stops waiting (`MainKeepsWatch`), and so is left only by the step that begins the
  wait. That this is never the wait of accept, the one without a deadline, needs
  `AcceptsAlone`: as long as accept was not
  woken the client has sent SYNs only, nothing is under way to it, and no PDU
  that could take the server's socket down exists.
* **`HandshakeProofs!ConnectOnlyToEstablished`**: `Spec => []ConnectMeansEstablished`.
  A connect that returns 0 has counted an acknowledgement (`MeasuredSomething`), and
  an acknowledgement means that the server is established from the moment it is
  sent until it is counted (`AcksComeFromEstablished`), because nothing that sends
  one happens before (`EstablishedFirst`).
* **`HandshakeProofs!NothingReopens`**: `NoReopening`, from a fresh start and from a
  connection. Once the server is established no thread is in the middle of the
  handshake (`HandshakeIsOver`), and only the handshake writes SYN_RECEIVED or
  ESTABLISHED.
* **`HandshakeProofs!AcceptReturnsConnected`** and **`SynIsAnsweredToAnAddress`**:
  `AcceptOutcome` and `SynAckHasAddress`, if no wait returns without a signal
  (`"spurious_wakeup" \notin Rare`). `SynHandledOnce` says that accept waits while the
  SYN is handled and is woken after it, once. With a spurious wakeup both are
  false: see the notes of section 3.1.
* **`MeasureProofs!ProbesAreCountedOnce`**: `EachProbeCountsOnce`, from a fresh start
  and from a connection. What is inductive counts in one sum the answers that were
  counted, those under way, and the probes that are not answered yet
  (`ProbesCover`): a step of either end moves a unit from one to the next or loses
  it. Until connect returns the server acknowledges nothing but probes
  (`OnlyProbes`); afterwards an answer left behind counts no more. The lemmas
  `CountAppend` and `CountTail` say what a queue does to the number of its PDUs of
  a kind.
* **`DataProofs!MessagesStayInOrder`**: `DeliversInOrder`, from a fresh start and from
  a connection, with no hypothesis. The sequence numbers are no part of the
  argument: the client sends the message of the call under way, the queue keeps
  the order, and the network thread handles one packet at a time. `OrderInv` says
  that what is under way to the server, the packet being handled first, was
  delivered last or comes later (`Ordered`) and is in the order of the calls
  (`SendsRise`), and that nothing but a message is ever handled as data
  (`OnlySends`). An accepted packet is then a `Deliver` of Transfer, the end of a
  call is its `Return`, and every other step stutters.
* **`DataProofs!StopAndWait`**: `SpecConnected => []ServerAtMostOneAhead`. The bound
  holds because no message under way has a later number than the one being sent
  (`Numbered`), every acknowledgement under way asks for a number between those of
  the two ends (`Asked`), and the acknowledgements come in the order of their
  numbers (`AcksRise`), so that a late one never takes the client back.
* **`DataProofs!LossesStayWithinBudget`**: `LossBudget`. The message a number stands
  for changes: after a loss that was accepted for a delivered message the next one
  goes out under the old number. `BudgetInv` therefore keeps an account (`Slack`):
  when the server is ahead the message of the call was delivered or a loss pays
  for it, and a packet of an earlier call that would still be accepted is one
  that was lost, or paid for (`Harmless`).
* **`DataProofs!EndsImplementTheService`**: `SpecConnected => ImplementsTransfer`:
  the steps by `OrderInv`, the budget by `BudgetInv`.

The last three suppose `PlainMessages`: no message is empty and none has the text of
a probe. Losses, queues that overflow, early timeouts, refused waits and wakeups
without a signal are all allowed. The hypothesis is not for the convenience of the
proof. A message like a probe, or an empty one after a probe, is answered `ACK(0)`,
which takes the number of the client back to 0; if it is the first message and its
wait is refused, the next one goes out as number 0, is dropped by the server that
expects 1 and asks for 1, and is reported as sent: two losses for one call that
failed. TLC finds that with `LikeProbe = {1}`, or with `EndOfStream = 1`, in
`DataFaults.cfg`. The empty message also makes the server of the gateway close,
whose final `ACK(0)` is taken for an acknowledgement (see the note on
`ServerAtMostOneAhead` in section 3.1).

### 4.3 One process

* **`ProcessProofs`**, for any number of slots, descriptors, readers and messages:
  `ProcessTypes`, `BufferIsExclusive` (`MutualExclusion`), `NoWakeupIsLost`, `BufferIsAFifo`
  (`ImplementsFifo`), `SocketsStayOpen` (`OpenUntilClosed`) and
  `OnlyTheFirstConnects` (`OneConnection`). Two invariants carry them. `BufferInv`: a thread that
  touches the buffer holds the lock (`UnderLock`); nobody holds it before the
  listening thread has initialised it (`QuietUntilListening`), which is what makes
  the late initialisation harmless; the entry a reader has picked is still the
  first of the queue (`PickedFirst`), and no two queued entries have the same
  number (`Numbered`), so that a removal by value is a removal of the head.
  `LookupInv`: the first slot has the one system socket the process opened, later
  slots have the flag (`FirstHasTheSocket`), and the flag is never the descriptor
  of a socket (`NeverASocket`), so that neither a refused call nor a second close
  touches the first; the listening thread listens to that one
  (`ListensToTheFirst`), and before the first call nothing is open
  (`BeforeTheFirst`). `NoWakeupIsLost`
  (`WakeupIsOwed`) needs no more than `BufferInv`: a reader starts to wait with the
  lock, on an empty queue. `ImplementsFifo` is a step
  simulation: `GetRemoves` is the `Get` of Fifo, `InsertTail` its `Put`, and every
  other step stutters.

### 4.4 Times and the gateway

`GatewayProofs`, for every file, in order or not, both modes, any length of a second
and any number of sends of a message. All rest on `SourceInv`: types, and how far
the source has read and sent (`ReadsToTheEnd`).

* **`GatewayTypeCorrect`**: `TypeOK`.
* **`PacketsAreNeverAhead`**: `NeverAhead`. `SubtractBorrows` proves `tsSubtract`: between
  two times of a file the delay is valid and at least the difference. The property
  relates pairs of packets that were sent; what is inductive, `WaitedSince`, relates
  each of them to the packet that was read last: since it was sent at least the
  time has passed that lies between the two in the file.
* **`CallsAreBounded`**: `CallIsBounded`. `DeadlineIsSoon`: a deadline computed without a
  carry may be in the past and is never more than `TIMEOUT` away. `WaitIsBounded`
  counts the tries before the one that waits.
* **`PlainModeStalls`**: `TcpStalls`. The counter of `file_to_faketcp` is the number of
  packets since the last stall, and those before it are two seconds old
  (`StalledSince`).
* **`SinkEndsWithAnEmptyPacket`**: `EndsWithAnEmptyPacket`, for records of any size.
  Each message has one result but the one under way (`OneResultPerCall`), so what is
  delivered was read (`InOrder`), and the player is sent what was delivered up to
  the first empty message (`PlayedAsDelivered`).

### 4.5 What is only model-checked

* The liveness properties, `HandshakeCompletes`, `CloseGivesUp` and
  `NobodySleepsOnAnEntry` (its safety part, `WakeupIsOwed`, is proved): fairness and
  `ENABLED` are outside the prover.
* `LossBudget` with a message like a probe that comes after a delivered one
  (`data_faults`).

## 5. What is not modelled

* Several connections in one process: `Process` has the sockets and the buffer they
  share, but `MicTcp` has one connection between two ends. The code cannot have a
  second one, since its sockets get no system socket of their own.
* Addresses, ports, and the race on the global `remote_addr` of `IP_send`: there is
  one peer, and both threads write the same value.
* The wrap of sequence numbers at 2^32, where the number 0 is a wildcard.
* The reading of standard input, of the command line and of the headers of the RTP
  packets, the errors of `fread`, the sockets of the plain UDP mode and of the
  player, logs, the clock helpers (`get_now_time_msec`, ...), scripts, build
  files and media: they keep no state of the protocol.

## 6. Plan

The core came first: partial reliability (`LossPolicy`), then the connection,
data and closing (`MicTcp`), then what the text of the repository claims, then the
rest of a process (`Process`), the abstract service (`Transfer`) and the gateway.
Then the safety properties of the runs were proved, the refinements with them. What
is left, in this order:

1. `PlainMessages` weakened to what the gateway sends, an empty message after all
   others: the theorems about the data then hold up to the call that sends it.
2. That the source and the sink of `Gateway` use the service as Transfer allows, and
   the monotony of `delivered` and `results` as action properties.
