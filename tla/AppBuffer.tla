----------------------------- MODULE AppBuffer -----------------------------
(***************************************************************************)
(* The application buffer of src/api/mictcp_core.c: a tail queue under a   *)
(* lock, filled by the network thread (app_buffer_put) and emptied by the  *)
(* threads of the application (app_buffer_get), which wait on              *)
(* buffer_empty_cond when there is nothing to take.                        *)
(*                                                                         *)
(* A step is what a thread does between two points where another one can   *)
(* run: lock, the work under it, unlock, broadcast. The lock is a zeroed   *)
(* global that the network thread initialises when it starts.              *)
(***************************************************************************)
EXTENDS Integers, SequencesExt

CONSTANTS
    Readers,    \* threads of the application in mic_tcp_recv
    NPuts,      \* bound: messages the network thread puts
    Spurious    \* TRUE: pthread_cond_wait may return without a broadcast

NoThread == "nobody"
Net == "net"
Threads == Readers \cup {Net}

ASSUME BufferAssumption ==
    /\ {NoThread, Net} \cap Readers = {}
    /\ NPuts \in Nat
    /\ Spurious \in BOOLEAN

VARIABLES
    lock,       \* who holds it, or NoThread
    entries,    \* app_buffer_head: the messages, numbered as they are put
    at,         \* where each thread is
    entry,      \* the entry a reader has picked
    notified,   \* the readers a broadcast has woken and that have not run yet
    puts,       \* calls of app_buffer_put
    taken       \* history: what app_buffer_get handed out

bufferVars == <<lock, entries, at, entry, notified, puts, taken>>

NoEntry == 0

BufferInit ==
    /\ lock = NoThread
    /\ entries = <<>>
    /\ at = [t \in Threads |-> IF t = Net THEN "none" ELSE "idle"]
    /\ entry = [r \in Readers |-> NoEntry]
    /\ notified = {}
    /\ puts = 0
    /\ taken = <<>>

Move(t, from, to) == at[t] = from /\ at' = [at EXCEPT ![t] = to]

Acquire(t, from, to) == lock = NoThread /\ lock' = t /\ Move(t, from, to)
Release(t, from, to) == lock' = NoThread /\ Move(t, from, to)

(***************************************************************************)
(* The network thread.                                                     *)
(***************************************************************************)
Spawn ==
    /\ Move(Net, "none", "start")
    /\ UNCHANGED <<lock, entries, entry, notified, puts, taken>>

\* pthread_mutex_init: the lock is nobody's, whoever held it.
ListenInit ==
    /\ Move(Net, "start", "receive")
    /\ lock' = NoThread
    /\ UNCHANGED <<entries, entry, notified, puts, taken>>

app_buffer_put ==
    /\ Move(Net, "receive", "put")
    /\ puts < NPuts /\ puts' = puts + 1
    /\ UNCHANGED <<lock, entries, entry, notified, taken>>

\* Mutant: the entry is inserted without the lock.
PutWithoutLock ==
    /\ Move(Net, "put", "insert")
    /\ UNCHANGED <<lock, entries, entry, notified, puts, taken>>

PutLock ==
    /\ Acquire(Net, "put", "insert")
    /\ UNCHANGED <<entries, entry, notified, puts, taken>>

\* Mutant: the entry goes to the head of the queue.
InsertHead ==
    /\ Move(Net, "insert", "unlock")
    /\ entries' = <<puts>> \o entries
    /\ UNCHANGED <<lock, entry, notified, puts, taken>>

InsertTail ==
    /\ Move(Net, "insert", "unlock")
    /\ entries' = Append(entries, puts)
    /\ UNCHANGED <<lock, entry, notified, puts, taken>>

PutUnlock ==
    /\ Release(Net, "unlock", "broadcast")
    /\ UNCHANGED <<entries, entry, notified, puts, taken>>

\* Mutant: nobody is told.
BroadcastNothing ==
    /\ Move(Net, "broadcast", "receive")
    /\ UNCHANGED <<lock, entries, entry, notified, puts, taken>>

\* After the unlock: a reader that does not wait yet has not seen the queue, and
\* will find the entry there.
Broadcast ==
    /\ Move(Net, "broadcast", "receive")
    /\ notified' = notified \cup { r \in Readers : at[r] = "wait" }
    /\ UNCHANGED <<lock, entries, entry, puts, taken>>

Put == PutLock \/ InsertTail \/ PutUnlock \/ Broadcast

(***************************************************************************)
(* A thread of the application.                                            *)
(***************************************************************************)
app_buffer_get(r) ==
    /\ Move(r, "idle", "lock")
    /\ UNCHANGED <<lock, entries, entry, notified, puts, taken>>

GetLock(r) ==
    /\ Acquire(r, "lock", "check")
    /\ UNCHANGED <<entries, entry, notified, puts, taken>>

\* Mutant: a reader waits once before it looks at the queue.
GetWaitsAnyway(r) ==
    /\ Release(r, "check", "wait")
    /\ UNCHANGED <<entries, entry, notified, puts, taken>>

\* pthread_cond_wait gives the lock back and waits, in one step.
GetWaits(r) ==
    /\ entries = <<>>
    /\ Release(r, "check", "wait")
    /\ UNCHANGED <<entries, entry, notified, puts, taken>>

\* It has the lock again when it returns, and the queue is looked at again.
WaitReturns(r) ==
    /\ Acquire(r, "wait", "check")
    /\ notified' = notified \ {r}
    /\ UNCHANGED <<entries, entry, puts, taken>>

GetWakes(r) == r \in notified /\ WaitReturns(r)

GetWakesAlone(r) == Spurious /\ r \notin notified /\ WaitReturns(r)

GetPicks(r) ==
    /\ entries # <<>>
    /\ Move(r, "check", "remove")
    /\ entry' = [entry EXCEPT ![r] = Head(entries)]
    /\ UNCHANGED <<lock, entries, notified, puts, taken>>

GetRemoves(r) ==
    /\ Move(r, "remove", "unlock")
    /\ \E i \in DOMAIN entries :
         entries[i] = entry[r] /\ entries' = RemoveAt(entries, i)
    /\ taken' = Append(taken, entry[r])
    /\ UNCHANGED <<lock, entry, notified, puts>>

\* The entry is freed and its size returned.
GetUnlock(r) ==
    /\ Release(r, "unlock", "idle")
    /\ entry' = [entry EXCEPT ![r] = NoEntry]
    /\ UNCHANGED <<entries, notified, puts, taken>>

Get(r) ==
    \/ GetLock(r) \/ GetWaits(r) \/ GetWakes(r)
    \/ GetPicks(r) \/ GetRemoves(r) \/ GetUnlock(r)

Listening == at[Net] \notin {"none", "start"}

BufferNext ==
    \/ Spawn \/ ListenInit \/ app_buffer_put \/ Put
    \/ \E r \in Readers :
         Get(r) \/ GetWakesAlone(r) \/ (Listening /\ app_buffer_get(r))

BufferSpec == BufferInit /\ [][BufferNext]_bufferVars
=============================================================================
