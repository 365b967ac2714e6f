--------------------------- MODULE ProcessProofs ---------------------------
(***************************************************************************)
(* One process, for any number of readers, sockets and descriptors: the    *)
(* application buffer is touched under its lock and is a queue, and no     *)
(* socket loses its system socket or is taken for another one.             *)
(*                                                                         *)
(* The buffer and the sockets share no variable: each has an invariant of  *)
(* its own, BufferInv and LookupInv.                                       *)
(***************************************************************************)
EXTENDS Process, SequenceTheorems, TLAPS

-----------------------------------------------------------------------------
(***************************************************************************)
(* The application buffer.                                                 *)
(***************************************************************************)
BufferTypes ==
    /\ lock \in Threads \cup {NoThread}
    /\ at \in [Threads -> ThreadLabels]
    /\ entry \in [Readers -> 0 .. NPuts]
    /\ notified \subseteq Readers
    /\ puts \in 0 .. NPuts
    /\ entries \in Seq(1 .. NPuts) /\ taken \in Seq(1 .. NPuts)

\* The listening thread gives the lock to nobody when it starts: no reader may
\* be in its call by then.
QuietUntilListening ==
    ~ Listening => \A r \in Readers : at[r] = "idle"

UnderLock == \A t \in Threads : InBuffer(t) => lock = t

\* A reader that has picked an entry has picked the first, and it is still there.
PickedFirst ==
    \A r \in Readers :
      at[r] = "remove" => entries # <<>> /\ entry[r] = entries[1]

\* The number of an entry is its own, so that what is removed is what was picked.
Numbered ==
    /\ \A i, j \in DOMAIN entries : entries[i] = entries[j] => i = j
    /\ at[Net] \in {"put", "insert"} =>
         puts > 0 /\ \A i \in DOMAIN entries : entries[i] < puts
    /\ \A i \in DOMAIN entries : entries[i] <= puts

BufferInv ==
    BufferTypes /\ QuietUntilListening /\ UnderLock /\ PickedFirst /\ Numbered

\* A process does to the buffer what BufferNext does, or ends its thread.
LEMMA BufferSteps ==
    ASSUME [Next]_vars
    PROVE  \/ BufferNext
           \/ /\ Move(Net, "receive", "exited")
              /\ UNCHANGED <<lock, entries, entry, notified, puts, taken>>
           \/ UNCHANGED bufferVars
<1>1. CASE CreateServer
  BY <1>1 DEF CreateServer, BufferNext
<1>2. CASE Connect
  BY <1>2 DEF Connect
<1>3. CASE Receive
  BY <1>3 DEF Receive, BufferNext
<1>4. CASE ListeningReturns
  BY <1>4 DEF ListeningReturns
<1>5. CASE Threaded
  BY <1>5 DEF Threaded, BufferNext
<1>6. ASSUME NEW r \in Readers, mic_tcp_recv(r)
      PROVE  BufferNext
  BY <1>6 DEF mic_tcp_recv, BufferNext
<1>7. QED
  BY <1>1, <1>2, <1>3, <1>4, <1>5, <1>6 DEF Next, vars

\* What the step of one thread can do to the lock.
LEMMA LockIsKept ==
    ASSUME BufferTypes, UnderLock, QuietUntilListening,
           NEW t \in Threads, NEW from, NEW to \in ThreadLabels,
           Move(t, from, to), lock' = lock \/ lock' = t \/ lock' = NoThread,
           lock' # lock => \/ lock = NoThread
                           \/ InBuffer(t)
                           \/ ~ Listening /\ t = Net,
           InBuffer(t)' => lock' = t
    PROVE  UnderLock' /\ at' \in [Threads -> ThreadLabels]
<1> SUFFICES ASSUME NEW u \in Threads, InBuffer(u)', u # t
             PROVE  lock' = u
  BY DEF UnderLock, Move, BufferTypes
<1>1. at'[u] = at[u] /\ InBuffer(u)
  BY DEF Move, BufferTypes, InBuffer
<1>2. lock = u
  BY <1>1 DEF UnderLock
<1>3. lock # NoThread
  BY <1>2, BufferAssumption DEF Threads, Net, NoThread
<1>4. ~ InBuffer(t)
  BY <1>2 DEF UnderLock
<1>5. ~ (~ Listening /\ t = Net)
  BY <1>1 DEF QuietUntilListening, InBuffer, Threads
<1>6. QED
  BY <1>2, <1>3, <1>4, <1>5

\* A reader moves: the network thread is left where it is, and so is what the
\* other readers have picked.
LEMMA ReaderMoves ==
    ASSUME BufferInv, NEW r \in Readers, NEW from, NEW to, Move(r, from, to),
           from # "idle" \/ Listening
    PROVE  /\ QuietUntilListening'
           /\ at'[Net] = at[Net]
           /\ \A u \in Readers : u # r => at'[u] = at[u]
           /\ to \in ThreadLabels => at'[r] = to
<1> USE DEF BufferInv, BufferTypes, Move, Threads
<1>1. r # Net /\ at'[Net] = at[Net]
  BY BufferAssumption
<1>2. Listening
  BY DEF QuietUntilListening
<1>3. QED
  BY <1>1, <1>2 DEF QuietUntilListening, Listening

\* The first of several entries, each with its own number, is removed.
LEMMA FirstIsRemoved ==
    ASSUME BufferTypes, Numbered, entries # <<>>,
           NEW i \in DOMAIN entries, entries[i] = entries[1]
    PROVE  RemoveAt(entries, i) = Tail(entries)
<1>1. Len(entries) \in Nat /\ Len(entries) > 0 /\ DOMAIN entries = 1 .. Len(entries)
  BY EmptySeq, LenProperties DEF BufferTypes
<1>2. i = 1
  BY <1>1 DEF Numbered
<1>3. SubSeq(entries, 1, 0) = <<>>
  BY SubSeqEmpty DEF BufferTypes
<1>4. Tail(entries) = SubSeq(entries, 2, Len(entries))
  BY TailIsSubSeq DEF BufferTypes
<1>5. Tail(entries) \in Seq(1 .. NPuts)
  BY HeadTailProperties DEF BufferTypes
<1>6. <<>> \o Tail(entries) = Tail(entries)
  BY <1>5, ConcatEmptySeq
<1>7. QED
  BY <1>2, <1>3, <1>4, <1>6 DEF RemoveAt

LEMMA ReaderKeepsBuffer ==
    ASSUME BufferInv, NEW r \in Readers,
           Get(r) \/ GetWakesAlone(r) \/ (Listening /\ app_buffer_get(r))
    PROVE  BufferInv' /\ [Queue!Next]_(Queue!fifoVars)
<1> USE DEF BufferInv, ThreadLabels
<1>0. r \in Threads /\ r # Net /\ r # NoThread
  BY BufferAssumption DEF Threads
<1>1. CASE Listening /\ app_buffer_get(r)
  <2>1. Move(r, "idle", "lock")
    BY <1>1 DEF app_buffer_get
  <2>2. UNCHANGED <<lock, entries, entry, notified, puts, taken>>
    BY <1>1 DEF app_buffer_get
  <2>3. at'[r] = "lock" /\ QuietUntilListening' /\ at'[Net] = at[Net]
        /\ \A u \in Readers : u # r => at'[u] = at[u]
    BY <1>1, <2>1, ReaderMoves
  <2>4. UnderLock' /\ at' \in [Threads -> ThreadLabels]
    BY <1>0, <2>1, <2>2, <2>3, LockIsKept DEF InBuffer
  <2>5. BufferTypes' /\ PickedFirst' /\ Numbered'
    BY <2>2, <2>3, <2>4 DEF BufferTypes, PickedFirst, Numbered
  <2>6. QED
    BY <2>2, <2>3, <2>4, <2>5 DEF Queue!fifoVars
<1>2. CASE GetLock(r)
  <2>1. Acquire(r, "lock", "check") /\ UNCHANGED <<entries, entry, notified, puts, taken>>
    BY <1>2 DEF GetLock
  <2>2. Move(r, "lock", "check") /\ lock = NoThread /\ lock' = r
    BY <2>1 DEF Acquire
  <2>3. at'[r] = "check" /\ QuietUntilListening' /\ at'[Net] = at[Net]
        /\ \A u \in Readers : u # r => at'[u] = at[u]
    BY <2>2, ReaderMoves
  <2>4. UnderLock' /\ at' \in [Threads -> ThreadLabels]
    BY <1>0, <2>2, <2>3, LockIsKept DEF InBuffer
  <2>5. BufferTypes' /\ PickedFirst' /\ Numbered'
    BY <1>0, <2>1, <2>2, <2>3, <2>4 DEF BufferTypes, PickedFirst, Numbered
  <2>6. QED
    BY <2>1, <2>3, <2>4, <2>5 DEF Queue!fifoVars
<1>3. CASE GetWaits(r)
  <2>1. Release(r, "check", "wait") /\ UNCHANGED <<entries, entry, notified, puts, taken>>
    BY <1>3 DEF GetWaits
  <2>2. Move(r, "check", "wait") /\ lock' = NoThread
    BY <2>1 DEF Release
  <2>3. at'[r] = "wait" /\ QuietUntilListening' /\ at'[Net] = at[Net]
        /\ \A u \in Readers : u # r => at'[u] = at[u]
    BY <2>2, ReaderMoves
  <2>4. UnderLock' /\ at' \in [Threads -> ThreadLabels]
    <3>1. InBuffer(r)
      BY <2>2 DEF Move, InBuffer
    <3>2. QED
      BY <1>0, <2>2, <2>3, <3>1, LockIsKept DEF InBuffer
  <2>5. BufferTypes' /\ PickedFirst' /\ Numbered'
    BY <1>0, <2>1, <2>2, <2>3, <2>4 DEF BufferTypes, PickedFirst, Numbered
  <2>6. QED
    BY <2>1, <2>3, <2>4, <2>5 DEF Queue!fifoVars
<1>4. CASE GetWakes(r) \/ GetWakesAlone(r)
  <2>1. WaitReturns(r)
    BY <1>4 DEF GetWakes, GetWakesAlone
  <2>2. /\ Move(r, "wait", "check") /\ lock = NoThread /\ lock' = r
        /\ notified' = notified \ {r}
        /\ UNCHANGED <<entries, entry, puts, taken>>
    BY <2>1 DEF WaitReturns, Acquire
  <2>3. at'[r] = "check" /\ QuietUntilListening' /\ at'[Net] = at[Net]
        /\ \A u \in Readers : u # r => at'[u] = at[u]
    BY <2>2, ReaderMoves
  <2>4. UnderLock' /\ at' \in [Threads -> ThreadLabels]
    BY <1>0, <2>2, <2>3, LockIsKept DEF InBuffer
  <2>5. BufferTypes' /\ PickedFirst' /\ Numbered'
    BY <1>0, <2>2, <2>3, <2>4 DEF BufferTypes, PickedFirst, Numbered
  <2>6. QED
    BY <2>2, <2>3, <2>4, <2>5 DEF Queue!fifoVars
<1>5. CASE GetPicks(r)
  <2>1. /\ Move(r, "check", "remove") /\ entries # <<>>
        /\ entry' = [entry EXCEPT ![r] = Head(entries)]
        /\ UNCHANGED <<lock, entries, notified, puts, taken>>
    BY <1>5 DEF GetPicks
  <2>2. at'[r] = "remove" /\ QuietUntilListening' /\ at'[Net] = at[Net]
        /\ \A u \in Readers : u # r => at'[u] = at[u]
    BY <2>1, ReaderMoves
  <2>3. InBuffer(r) /\ lock' = r
    BY <1>0, <2>1 DEF Move, InBuffer, UnderLock
  <2>4. UnderLock' /\ at' \in [Threads -> ThreadLabels]
    BY <1>0, <2>1, <2>2, <2>3, LockIsKept DEF InBuffer
  <2>5. Head(entries) = entries[1] /\ Head(entries) \in 0 .. NPuts
    BY <2>1, HeadTailProperties, BufferAssumption DEF BufferTypes
  <2>6. BufferTypes' /\ PickedFirst'
    BY <2>1, <2>2, <2>4, <2>5 DEF BufferTypes, PickedFirst
  <2>7. Numbered'
    BY <2>1, <2>2 DEF Numbered
  <2>8. QED
    BY <2>1, <2>2, <2>4, <2>6, <2>7 DEF Queue!fifoVars
<1>6. CASE GetRemoves(r)
  <2>1. /\ Move(r, "remove", "unlock")
        /\ taken' = Append(taken, entry[r])
        /\ UNCHANGED <<lock, entry, notified, puts>>
    BY <1>6 DEF GetRemoves
  <2>2. at'[r] = "unlock" /\ QuietUntilListening' /\ at'[Net] = at[Net]
        /\ \A u \in Readers : u # r => at'[u] = at[u]
    BY <2>1, ReaderMoves
  <2>3. at[r] = "remove" /\ InBuffer(r) /\ lock' = r
    BY <1>0, <2>1 DEF Move, InBuffer, UnderLock
  <2>4. UnderLock' /\ at' \in [Threads -> ThreadLabels]
    BY <1>0, <2>1, <2>2, <2>3, LockIsKept DEF InBuffer
  <2>5. entries # <<>> /\ entry[r] = entries[1] /\ entry[r] = Head(entries)
    BY <2>3, HeadTailProperties DEF PickedFirst, BufferTypes
  <2>6. entries' = Tail(entries)
    BY <1>6, <2>5, FirstIsRemoved DEF GetRemoves
  <2>7. /\ entries' \in Seq(1 .. NPuts) /\ Len(entries') = Len(entries) - 1
        /\ \A i \in 1 .. Len(entries') : entries'[i] = entries[i + 1]
    BY <2>5, <2>6, HeadTailProperties DEF BufferTypes
  <2>8. /\ DOMAIN entries' = 1 .. Len(entries') /\ DOMAIN entries = 1 .. Len(entries)
        /\ Len(entries) \in Nat /\ Len(entries') \in Nat
    BY <2>7, LenProperties DEF BufferTypes
  <2>9. Numbered'
    <3>1. \A i \in DOMAIN entries' :
            i + 1 \in DOMAIN entries /\ entries'[i] = entries[i + 1]
      BY <2>7, <2>8
    <3>2. QED
      BY <2>1, <2>2, <2>8, <3>1 DEF Numbered
  <2>10. Head(entries) \in 1 .. NPuts
    BY <2>5, HeadTailProperties DEF BufferTypes
  <2>11. taken' \in Seq(1 .. NPuts)
    BY <2>1, <2>5, <2>10, AppendProperties DEF BufferTypes
  <2>12. BufferTypes'
    BY <2>1, <2>4, <2>7, <2>11 DEF BufferTypes
  <2>13. PickedFirst'
    <3>1. \A u \in Readers : u # r => at[u] # "remove"
      BY <1>0, <2>3 DEF UnderLock, InBuffer, Threads
    <3>2. QED
      BY <2>2, <3>1 DEF PickedFirst
  <2>14. Queue!Get
    BY <2>1, <2>5, <2>6 DEF Queue!Get
  <2>15. QED
    BY <2>2, <2>4, <2>9, <2>12, <2>13, <2>14 DEF Queue!Next
<1>7. CASE GetUnlock(r)
  <2>1. /\ Move(r, "unlock", "idle") /\ lock' = NoThread
        /\ entry' = [entry EXCEPT ![r] = NoEntry]
        /\ UNCHANGED <<entries, notified, puts, taken>>
    BY <1>7 DEF GetUnlock, Release
  <2>2. at'[r] = "idle" /\ QuietUntilListening' /\ at'[Net] = at[Net]
        /\ \A u \in Readers : u # r => at'[u] = at[u]
    BY <2>1, ReaderMoves
  <2>3. InBuffer(r)
    BY <2>1 DEF Move, InBuffer
  <2>4. UnderLock' /\ at' \in [Threads -> ThreadLabels]
    BY <1>0, <2>1, <2>2, <2>3, LockIsKept DEF InBuffer
  <2>5. BufferTypes'
    BY <2>1, <2>4, BufferAssumption DEF BufferTypes, NoEntry
  <2>6. PickedFirst' /\ Numbered'
    BY <2>1, <2>2 DEF BufferTypes, PickedFirst, Numbered
  <2>7. QED
    BY <2>1, <2>2, <2>4, <2>5, <2>6 DEF Queue!fifoVars
<1>8. QED
  BY <1>1, <1>2, <1>3, <1>4, <1>5, <1>6, <1>7 DEF Get

\* The network thread fills the buffer, or starts, or ends.
LEMMA NetKeepsBuffer ==
    ASSUME BufferInv,
           \/ Spawn \/ ListenInit \/ app_buffer_put \/ Put
           \/ /\ Move(Net, "receive", "exited")
              /\ UNCHANGED <<lock, entries, entry, notified, puts, taken>>
    PROVE  BufferInv' /\ [Queue!Next]_(Queue!fifoVars)
<1> USE DEF BufferInv, ThreadLabels
<1>0. Net \in Threads /\ Net \notin Readers /\ Net # NoThread
  BY BufferAssumption DEF Threads, Net, NoThread
<1>a. ASSUME NEW from, NEW to \in ThreadLabels, Move(Net, from, to)
      PROVE  /\ at'[Net] = to /\ at[Net] = from
             /\ \A u \in Readers : at'[u] = at[u]
             /\ from = "none" \/ to \notin {"none", "start"} => QuietUntilListening'
             /\ entries' = entries /\ entry' = entry => PickedFirst'
  <2>1. at'[Net] = to /\ at[Net] = from
    BY <1>0, <1>a DEF Move, BufferTypes
  <2>2. \A u \in Readers : at'[u] = at[u]
    BY <1>0, <1>a DEF Move, BufferTypes, Threads
  <2>3. QED
    BY <2>1, <2>2 DEF QuietUntilListening, Listening, PickedFirst
<1>1. CASE \/ Spawn
           \/ /\ Move(Net, "receive", "exited")
              /\ UNCHANGED <<lock, entries, entry, notified, puts, taken>>
  <2>1. \E from \in {"none", "receive"}, to \in {"start", "exited"} :
          Move(Net, from, to) /\ (from = "none" \/ to = "exited")
    BY <1>1 DEF Spawn
  <2>2. UNCHANGED <<lock, entries, entry, notified, puts, taken>>
    BY <1>1 DEF Spawn
  <2>3. QuietUntilListening' /\ PickedFirst' /\ at'[Net] \in {"start", "exited"}
    BY <1>a, <2>1, <2>2
  <2>4. UnderLock' /\ at' \in [Threads -> ThreadLabels]
    BY <1>0, <2>1, <2>2, <2>3, LockIsKept DEF InBuffer
  <2>5. BufferTypes' /\ Numbered'
    BY <2>2, <2>3, <2>4 DEF BufferTypes, Numbered
  <2>6. QED
    BY <2>2, <2>3, <2>4, <2>5 DEF Queue!fifoVars
<1>2. CASE ListenInit
  <2>1. /\ Move(Net, "start", "receive") /\ lock' = NoThread
        /\ UNCHANGED <<entries, entry, notified, puts, taken>>
    BY <1>2 DEF ListenInit
  <2>2. /\ QuietUntilListening' /\ PickedFirst'
        /\ at'[Net] = "receive" /\ at[Net] = "start"
    BY <1>a, <2>1
  <2>3. ~ Listening
    BY <2>2 DEF Listening
  <2>4. UnderLock' /\ at' \in [Threads -> ThreadLabels]
    BY <1>0, <2>1, <2>2, <2>3, LockIsKept DEF InBuffer
  <2>5. BufferTypes' /\ Numbered'
    BY <2>1, <2>2, <2>4 DEF BufferTypes, Numbered
  <2>6. QED
    BY <2>1, <2>2, <2>4, <2>5 DEF Queue!fifoVars
<1>3. CASE app_buffer_put
  <2>1. /\ Move(Net, "receive", "put") /\ puts < NPuts /\ puts' = puts + 1
        /\ UNCHANGED <<lock, entries, entry, notified, taken>>
    BY <1>3 DEF app_buffer_put
  <2>2. QuietUntilListening' /\ PickedFirst' /\ at'[Net] = "put"
    BY <1>a, <2>1
  <2>3. UnderLock' /\ at' \in [Threads -> ThreadLabels]
    BY <1>0, <2>1, <2>2, LockIsKept DEF InBuffer
  <2>4. puts' \in 0 .. NPuts /\ puts' > 0
    BY <2>1, BufferAssumption DEF BufferTypes
  <2>5. BufferTypes'
    BY <2>1, <2>3, <2>4 DEF BufferTypes
  <2>6. \A i \in DOMAIN entries : entries[i] \in Nat /\ entries[i] < puts'
    <3>1. \A i \in DOMAIN entries : entries[i] \in 1 .. NPuts /\ entries[i] <= puts
      BY ElementOfSeq, LenProperties DEF BufferTypes, Numbered
    <3>2. QED
      BY <2>1, <3>1 DEF BufferTypes
  <2>7. Numbered'
    BY <2>1, <2>4, <2>6 DEF Numbered, BufferTypes
  <2>8. QED
    BY <2>1, <2>2, <2>3, <2>5, <2>7 DEF Queue!fifoVars
<1>4. CASE PutLock
  <2>1. /\ Move(Net, "put", "insert") /\ lock = NoThread /\ lock' = Net
        /\ UNCHANGED <<entries, entry, notified, puts, taken>>
    BY <1>4 DEF PutLock, Acquire
  <2>2. /\ QuietUntilListening' /\ PickedFirst'
        /\ at'[Net] = "insert" /\ at[Net] = "put"
    BY <1>a, <2>1
  <2>3. UnderLock' /\ at' \in [Threads -> ThreadLabels]
    BY <1>0, <2>1, <2>2, LockIsKept DEF InBuffer
  <2>4. BufferTypes' /\ Numbered'
    BY <1>0, <2>1, <2>2, <2>3 DEF BufferTypes, Numbered
  <2>5. QED
    BY <2>1, <2>2, <2>3, <2>4 DEF Queue!fifoVars
<1>5. CASE InsertTail
  <2>1. /\ Move(Net, "insert", "unlock") /\ entries' = Append(entries, puts)
        /\ UNCHANGED <<lock, entry, notified, puts, taken>>
    BY <1>5 DEF InsertTail
  <2>2. /\ QuietUntilListening' /\ at'[Net] = "unlock" /\ at[Net] = "insert"
        /\ \A u \in Readers : at'[u] = at[u]
    BY <1>a, <2>1
  <2>3. InBuffer(Net) /\ lock' = Net
    BY <1>0, <2>1, <2>2 DEF InBuffer, UnderLock
  <2>4. UnderLock' /\ at' \in [Threads -> ThreadLabels]
    BY <1>0, <2>1, <2>2, <2>3, LockIsKept DEF InBuffer
  <2>5. puts \in 1 .. NPuts /\ \A i \in DOMAIN entries : entries[i] < puts
    BY <2>2 DEF Numbered, BufferTypes
  <2>6. /\ entries' \in Seq(1 .. NPuts)
        /\ Len(entries') = Len(entries) + 1
        /\ \A i \in 1 .. Len(entries) : entries'[i] = entries[i]
        /\ entries'[Len(entries) + 1] = puts
    BY <2>1, <2>5, AppendProperties DEF BufferTypes
  <2>7. /\ DOMAIN entries' = 1 .. Len(entries') /\ DOMAIN entries = 1 .. Len(entries)
        /\ Len(entries) \in Nat
    BY <2>6, LenProperties DEF BufferTypes
  <2>8. Numbered'
    <3>1. \A i \in DOMAIN entries' :
            \/ i \in DOMAIN entries /\ entries'[i] = entries[i]
            \/ i = Len(entries) + 1 /\ entries'[i] = puts
      BY <2>6, <2>7
    <3>2. \A i \in DOMAIN entries' : entries'[i] <= puts'
      <4>1. puts' = puts /\ puts <= puts
        BY <2>1, <2>5
      <4>2. \A i \in DOMAIN entries : entries[i] <= puts
        BY DEF Numbered
      <4>3. QED
        BY <3>1, <4>1, <4>2
    <3>3. \A i, j \in DOMAIN entries' : entries'[i] = entries'[j] => i = j
      <4>1. \A i \in DOMAIN entries : entries[i] # puts
        BY <2>5
      <4>2. QED
        BY <3>1, <4>1 DEF Numbered
    <3>4. QED
      BY <2>2, <3>2, <3>3 DEF Numbered
  <2>9. BufferTypes'
    BY <2>1, <2>4, <2>6 DEF BufferTypes
  <2>10. PickedFirst'
    BY <1>0, <2>2, <2>3 DEF PickedFirst, UnderLock, InBuffer, Threads
  <2>11. Queue!Put(puts)
    BY <2>1 DEF Queue!Put
  <2>12. QED
    BY <2>2, <2>4, <2>5, <2>8, <2>9, <2>10, <2>11 DEF Queue!Next
<1>6. CASE PutUnlock
  <2>1. /\ Move(Net, "unlock", "broadcast") /\ lock' = NoThread
        /\ UNCHANGED <<entries, entry, notified, puts, taken>>
    BY <1>6 DEF PutUnlock, Release
  <2>2. /\ QuietUntilListening' /\ PickedFirst'
        /\ at'[Net] = "broadcast" /\ at[Net] = "unlock"
    BY <1>a, <2>1
  <2>3. UnderLock' /\ at' \in [Threads -> ThreadLabels]
    BY <1>0, <2>1, <2>2, LockIsKept DEF InBuffer
  <2>4. BufferTypes' /\ Numbered'
    BY <2>1, <2>2, <2>3 DEF BufferTypes, Numbered
  <2>5. QED
    BY <2>1, <2>2, <2>3, <2>4 DEF Queue!fifoVars
<1>7. CASE Broadcast
  <2>1. /\ Move(Net, "broadcast", "receive")
        /\ notified' = notified \cup { r \in Readers : at[r] = "wait" }
        /\ UNCHANGED <<lock, entries, entry, puts, taken>>
    BY <1>7 DEF Broadcast
  <2>2. QuietUntilListening' /\ PickedFirst' /\ at'[Net] = "receive"
    BY <1>a, <2>1
  <2>3. UnderLock' /\ at' \in [Threads -> ThreadLabels]
    BY <1>0, <2>1, <2>2, LockIsKept DEF InBuffer
  <2>4. BufferTypes' /\ Numbered'
    BY <2>1, <2>2, <2>3 DEF BufferTypes, Numbered
  <2>5. QED
    BY <2>1, <2>2, <2>3, <2>4 DEF Queue!fifoVars
<1>8. QED
  BY <1>1, <1>2, <1>3, <1>4, <1>5, <1>6, <1>7 DEF Put

LEMMA BufferInvIsInductive ==
    /\ Init => BufferInv /\ Queue!Init
    /\ BufferInv /\ [Next]_vars => BufferInv' /\ [Queue!Next]_(Queue!fifoVars)
<1>1. ASSUME Init
      PROVE  BufferInv /\ Queue!Init
  <2>1. Queue!Init
    BY <1>1 DEF Init, BufferInit, Queue!Init
  <2>2. BufferTypes
    BY <1>1, BufferAssumption, EmptySeq
    DEF Init, BufferInit, BufferTypes, ThreadLabels, NoEntry
  <2>3. at[Net] = "none" /\ \A r \in Readers : at[r] = "idle"
    BY <1>1, BufferAssumption DEF Init, BufferInit, Threads
  <2>4. QuietUntilListening /\ UnderLock /\ PickedFirst
    BY <2>3 DEF QuietUntilListening, UnderLock, PickedFirst, InBuffer, Threads
  <2>5. Numbered
    BY <1>1, <2>3 DEF Init, BufferInit, Numbered
  <2>6. QED
    BY <2>1, <2>2, <2>4, <2>5 DEF BufferInv
<1>2. ASSUME BufferInv, [Next]_vars
      PROVE  BufferInv' /\ [Queue!Next]_(Queue!fifoVars)
  <2>1. CASE UNCHANGED bufferVars
    BY <1>2, <2>1
    DEF bufferVars, BufferInv, BufferTypes, QuietUntilListening, Listening,
        UnderLock, InBuffer, PickedFirst, Numbered, Queue!fifoVars
  <2>2. CASE ~ UNCHANGED bufferVars
    BY <1>2, <2>2, BufferSteps, NetKeepsBuffer, ReaderKeepsBuffer DEF BufferNext
  <2>3. QED
    BY <2>1, <2>2
<1>3. QED
  BY <1>1, <1>2

\* The buffer and the entry a reader has picked are touched under the lock only,
\* although it is initialised by a thread that starts late (listening).
THEOREM BufferIsExclusive == Spec => []MutualExclusion
<1>1. BufferInv => MutualExclusion
  BY DEF BufferInv, UnderLock, MutualExclusion
<1>2. QED
  BY <1>1, BufferInvIsInductive, PTL DEF Spec

\* app_buffer_put and app_buffer_get implement a queue: each message is handed
\* out once and in order, to however many readers.
THEOREM BufferIsAFifo == Spec => ImplementsFifo
<1>1. QED
  BY BufferInvIsInductive, PTL DEF Spec, ImplementsFifo, Queue!Spec

\* A step of a reader: it starts to wait on an empty queue only, forgets its wakeup
\* when it returns, and adds nothing to the queue.
LEMMA ReaderOwes ==
    ASSUME BufferInv, WakeupIsOwed, NEW r \in Readers,
           Get(r) \/ GetWakesAlone(r) \/ (Listening /\ app_buffer_get(r))
    PROVE  WakeupIsOwed'
<1>1. r \in Threads /\ Net \in Threads /\ r # Net /\ Readers \subseteq Threads
  BY BufferAssumption DEF Threads
<1>2. /\ at'[Net] = at[Net]
      /\ \A u \in Readers : u # r => at'[u] = at[u]
  BY <1>1
  DEF BufferInv, BufferTypes, Get, GetLock, GetWaits, GetWakes, GetWakesAlone,
      GetPicks, GetRemoves, GetUnlock, WaitReturns, app_buffer_get, Acquire,
      Release, Move
<1>3. \A u \in Readers : u # r /\ u \in notified => u \in notified'
  BY DEF Get, GetLock, GetWaits, GetWakes, GetWakesAlone, GetPicks, GetRemoves,
         GetUnlock, WaitReturns, app_buffer_get
<1>4. entries' # <<>> => entries # <<>>
  <2>1. CASE GetRemoves(r)
    <3>1. PICK i \in DOMAIN entries : entries' = RemoveAt(entries, i)
      BY <2>1 DEF GetRemoves
    <3>2. entries \in Seq(1 .. NPuts)
      BY DEF BufferInv, BufferTypes
    <3>3. entries # <<>>
      BY <3>1, <3>2, EmptySeq
    <3>4. QED
      BY <3>3
  <2>2. CASE ~ GetRemoves(r)
    BY <2>2
    DEF Get, GetLock, GetWaits, GetWakes, GetWakesAlone, GetPicks, GetUnlock,
        WaitReturns, app_buffer_get
  <2>3. QED
    BY <2>1, <2>2
<1>5. at'[r] = "wait" => entries' = <<>>
  BY <1>1
  DEF BufferInv, BufferTypes, Get, GetLock, GetWaits, GetWakes, GetWakesAlone,
      GetPicks, GetRemoves, GetUnlock, WaitReturns, app_buffer_get, Acquire,
      Release, Move
<1>6. QED
  BY <1>2, <1>3, <1>4, <1>5 DEF WakeupIsOwed

\* A step of the network thread: from the insertion to the broadcast it owes one,
\* and the broadcast reaches everyone who waits.
LEMMA NetOwes ==
    ASSUME BufferInv, WakeupIsOwed,
           \/ Spawn \/ ListenInit \/ app_buffer_put \/ Put
           \/ /\ Move(Net, "receive", "exited")
              /\ UNCHANGED <<lock, entries, entry, notified, puts, taken>>
    PROVE  WakeupIsOwed'
<1>1. Net \in Threads /\ Net \notin Readers /\ Readers \subseteq Threads
  BY BufferAssumption DEF Threads
<1>2. \A u \in Readers : at'[u] = at[u]
  BY <1>1
  DEF BufferInv, BufferTypes, Spawn, ListenInit, app_buffer_put, Put, PutLock,
      InsertTail, PutUnlock, Broadcast, Acquire, Release, Move
<1>3. CASE InsertTail
  <2>1. at'[Net] = "unlock"
    BY <1>1, <1>3 DEF BufferInv, BufferTypes, InsertTail, Move
  <2>2. QED
    BY <2>1 DEF WakeupIsOwed
<1>4. CASE PutUnlock
  <2>1. at'[Net] = "broadcast"
    BY <1>1, <1>4 DEF BufferInv, BufferTypes, PutUnlock, Release, Move
  <2>2. QED
    BY <2>1 DEF WakeupIsOwed
<1>5. CASE Broadcast
  <2>1. \A u \in Readers : at[u] = "wait" => u \in notified'
    BY <1>5 DEF Broadcast
  <2>2. QED
    BY <1>2, <2>1 DEF WakeupIsOwed
<1>6. CASE \/ Spawn \/ ListenInit \/ app_buffer_put \/ PutLock
           \/ /\ Move(Net, "receive", "exited")
              /\ UNCHANGED <<lock, entries, entry, notified, puts, taken>>
  <2>1. at[Net] \notin {"unlock", "broadcast"}
    BY <1>6 DEF Spawn, ListenInit, app_buffer_put, PutLock, Acquire, Move
  <2>2. entries' = entries /\ notified' = notified
    BY <1>6 DEF Spawn, ListenInit, app_buffer_put, PutLock
  <2>3. QED
    BY <1>2, <2>1, <2>2 DEF WakeupIsOwed
<1>7. QED
  BY <1>3, <1>4, <1>5, <1>6 DEF Put

\* The broadcast of app_buffer_put comes after the unlock, and no wakeup is lost all
\* the same: a reader looks at the queue and starts to wait without giving the lock
\* back in between.
THEOREM NoWakeupIsLost == Spec => []WakeupIsOwed
<1>1. Init => WakeupIsOwed
  BY BufferAssumption DEF Init, BufferInit, WakeupIsOwed, Threads
<1>2. BufferInv /\ WakeupIsOwed /\ [Next]_vars => WakeupIsOwed'
  <2>1. SUFFICES ASSUME BufferInv, WakeupIsOwed, [Next]_vars
                 PROVE  WakeupIsOwed'
    OBVIOUS
  <2>2. CASE UNCHANGED bufferVars
    BY <2>1, <2>2 DEF bufferVars, WakeupIsOwed
  <2>3. CASE ~ UNCHANGED bufferVars
    BY <2>1, <2>3, BufferSteps, NetOwes, ReaderOwes DEF BufferNext
  <2>4. QED
    BY <2>2, <2>3
<1>3. QED
  BY BufferInvIsInductive, <1>1, <1>2, PTL DEF Spec

-----------------------------------------------------------------------------
(***************************************************************************)
(* The sockets. The flag 1 that later calls get for a system socket is the *)
(* standard output, which is open as long as the first call has not been   *)
(* made: the system never gives it for a socket.                           *)
(***************************************************************************)
LookupTypes ==
    /\ initialized \in {None, 1}
    /\ next_fd \in 0 .. MAX_SOCKETS
    /\ sockets \in [Slots -> [is_used : BOOLEAN, sys_socket : Descriptors,
                              connected : BOOLEAN, closed : BOOLEAN]]
    /\ creating \in {None} \cup Descriptors
    /\ listener \in {None} \cup Descriptors
    /\ kind \in [Descriptors -> Kinds]
    /\ file \in {None} \cup Descriptors

BeforeTheFirst ==
    initialized = None =>
      /\ next_fd = 0 /\ creating = None /\ listener = None
      /\ \A d \in 0 .. 2 : kind[d] = "standard"
      /\ file # None => kind[file] = "file"

\* The system socket of the first call is in slot 0, or on its way there; the
\* others have the flag.
FirstHasTheSocket ==
    /\ initialized # None => next_fd > 0 \/ creating # None
    /\ creating # None =>
         IF next_fd = 0 THEN creating # 1 /\ kind[creating] = "socket"
         ELSE creating = 1
    /\ \A fd \in Slots :
         /\ sockets[fd].is_used <=> fd < next_fd
         /\ sockets[fd].is_used => (sockets[fd].sys_socket = 1 <=> fd # 0)
         /\ sockets[fd].connected => fd = 0 /\ sockets[fd].is_used
         /\ sockets[fd].is_used /\ fd = 0 /\ ~ sockets[fd].closed =>
              kind[sockets[fd].sys_socket] = "socket"

NeverASocket ==
    /\ kind[1] # "socket"
    /\ file # None => kind[file] # "socket"

ListensToTheFirst ==
    listener # None =>
      IF next_fd = 0 THEN listener = creating
      ELSE listener = sockets[0].sys_socket

LookupInv ==
    /\ LookupTypes /\ BeforeTheFirst /\ FirstHasTheSocket /\ NeverASocket
    /\ ListensToTheFirst

LEMMA SlotsAndDescriptors ==
    /\ 0 \in Slots /\ Slots \subseteq Nat /\ Descriptors \subseteq Nat
    /\ \A fd \in Slots : fd < MAX_SOCKETS
    /\ {0, 1, 2} \subseteq Descriptors
    /\ None \notin Descriptors /\ None # 1
    /\ MAX_SOCKETS \in Nat /\ MAX_SOCKETS > 0
    /\ \A n \in Nat : n < MAX_SOCKETS => n \in Slots
BY LookupAssumption DEF Slots, Descriptors, None

LEMMA LookupInitially == Init => LookupInv
<1> SUFFICES ASSUME LookupInit
             PROVE  LookupInv
  BY DEF Init
<1> USE SlotsAndDescriptors, LookupAssumption
<1>1. LookupTypes
  BY DEF LookupInit, LookupTypes, Slot, Kinds, Descriptors
<1>2. BeforeTheFirst /\ NeverASocket /\ ListensToTheFirst
  BY DEF LookupInit, BeforeTheFirst, NeverASocket, ListensToTheFirst,
      Descriptors
<1>3. FirstHasTheSocket
  BY DEF LookupInit, FirstHasTheSocket, Slot, Slots
<1>4. QED
  BY <1>1, <1>2, <1>3 DEF LookupInv

\* What the process does to its sockets: the steps of SocketCalls, the first call
\* of a server, and a connection.
LEMMA LookupSteps ==
    ASSUME [Next]_vars
    PROVE  \/ \E sm \in start_mode : FirstCall(sm)
           \/ LaterCall \/ allocate_new_socket \/ AllocationFails
           \/ \E fd \in Slots : socket_cleanup(fd) \/ Connects(fd)
           \/ OpenFile \/ CloseFile
           \/ UNCHANGED lookupVars
<1>1. CASE CreateServer
  BY <1>1 DEF CreateServer, start_mode
<1>2. CASE Connect
  BY <1>2 DEF Connect
<1>3. CASE Receive \/ ListeningReturns \/ \E r \in Readers : mic_tcp_recv(r)
  BY <1>3 DEF Receive, ListeningReturns, mic_tcp_recv, lookupVars
<1>4. CASE SocketCalls
  BY <1>4 DEF SocketCalls, start_mode
<1>5. QED
  BY <1>1, <1>2, <1>3, <1>4 DEF Next, vars

LEMMA LookupInvIsKept == LookupInv /\ [Next]_vars => LookupInv'
<1> SUFFICES ASSUME LookupInv, [Next]_vars
             PROVE  LookupInv'
  OBVIOUS
<1> USE SlotsAndDescriptors, LookupAssumption
<1>1. ASSUME NEW sm, FirstCall(sm)
      PROVE  LookupInv'
  <2>1. PICK d \in Descriptors :
          /\ d \in Lowest /\ kind' = [kind EXCEPT ![d] = "socket"]
          /\ creating' = d /\ listener' \in {d, None}
    BY <1>1 DEF FirstCall, Opens
  <2>2. /\ initialized = None /\ initialized' = 1
        /\ UNCHANGED <<next_fd, sockets, file>>
    BY <1>1 DEF FirstCall
  <2>3. kind[d] = "free"
    BY <2>1 DEF Lowest, Free
  <2>4. next_fd = 0 /\ kind[1] = "standard" /\ (file # None => kind[file] = "file")
    BY <2>2 DEF LookupInv, BeforeTheFirst
  <2>5. d # 1 /\ d # file
    BY <2>1, <2>3, <2>4
  <2>6. LookupTypes'
    BY <2>1, <2>2 DEF LookupInv, LookupTypes, Kinds
  <2>7. kind'[d] = "socket" /\ \A x \in Descriptors : x # d => kind'[x] = kind[x]
    BY <2>1 DEF LookupInv, LookupTypes
  <2>8. BeforeTheFirst' /\ ListensToTheFirst'
    BY <2>1, <2>2, <2>4 DEF BeforeTheFirst, ListensToTheFirst
  <2>9. NeverASocket'
    BY <2>2, <2>4, <2>5, <2>7 DEF LookupInv, NeverASocket, LookupTypes
  <2>10. FirstHasTheSocket'
    BY <2>1, <2>2, <2>4, <2>5, <2>7 DEF LookupInv, FirstHasTheSocket
  <2>11. QED
    BY <2>6, <2>8, <2>9, <2>10 DEF LookupInv
<1>2. CASE LaterCall
  <2>1. /\ initialized # None /\ creating = None /\ creating' = initialized
        /\ UNCHANGED <<initialized, next_fd, sockets, listener, kind, file>>
    BY <1>2 DEF LaterCall
  <2>2. next_fd > 0 /\ creating' = 1
    BY <2>1 DEF LookupInv, FirstHasTheSocket, LookupTypes
  <2>3. QED
    BY <2>1, <2>2
    DEF LookupInv, LookupTypes, BeforeTheFirst, FirstHasTheSocket, NeverASocket,
        ListensToTheFirst
<1>3. CASE allocate_new_socket
  <2>1. /\ creating # None /\ next_fd < MAX_SOCKETS /\ next_fd' = next_fd + 1
        /\ creating' = None
        /\ sockets' = [sockets EXCEPT ![next_fd] =
                         [is_used |-> TRUE, sys_socket |-> creating,
                          connected |-> FALSE, closed |-> FALSE]]
        /\ UNCHANGED <<initialized, listener, kind, file>>
    BY <1>3 DEF allocate_new_socket, Slot
  <2>2. next_fd \in Slots /\ creating \in Descriptors /\ initialized # None
    BY <2>1 DEF LookupInv, LookupTypes, BeforeTheFirst
  <2>3. LookupTypes'
    BY <2>1, <2>2 DEF LookupInv, LookupTypes
  <2>4. BeforeTheFirst' /\ NeverASocket'
    BY <2>1, <2>2 DEF LookupInv, BeforeTheFirst, NeverASocket
  <2>5. /\ sockets'[next_fd].is_used /\ sockets'[next_fd].sys_socket = creating
        /\ ~ sockets'[next_fd].connected
        /\ \A fd \in Slots : fd # next_fd => sockets'[fd] = sockets[fd]
    BY <2>1, <2>2 DEF LookupInv, LookupTypes
  <2>6. FirstHasTheSocket'
    <3>1. \A fd \in Slots : fd < next_fd' <=> fd < next_fd \/ fd = next_fd
      BY <2>1, <2>2
    <3>2. creating = 1 <=> next_fd # 0
      BY <2>1 DEF LookupInv, FirstHasTheSocket
    <3>3. next_fd = 0 => kind'[creating] = "socket"
      BY <2>1 DEF LookupInv, FirstHasTheSocket
    <3>4. next_fd' > 0
      BY <2>1, <2>2
    <3>5. ASSUME NEW fd \in Slots
          PROVE  /\ sockets'[fd].is_used <=> fd < next_fd'
                 /\ sockets'[fd].is_used => (sockets'[fd].sys_socket = 1 <=> fd # 0)
                 /\ sockets'[fd].connected => fd = 0
                 /\ sockets'[fd].is_used /\ fd = 0 /\ ~ sockets'[fd].closed =>
                      kind'[sockets'[fd].sys_socket] = "socket"
      <4>1. CASE fd = next_fd
        BY <2>5, <3>1, <3>2, <3>3, <4>1
      <4>2. CASE fd # next_fd
        BY <2>1, <2>5, <3>1, <4>2 DEF LookupInv, FirstHasTheSocket
      <4>3. QED
        BY <4>1, <4>2
    <3>6. QED
      BY <2>1, <3>4, <3>5 DEF FirstHasTheSocket
  <2>7. ListensToTheFirst'
    <3>1. CASE next_fd = 0
      BY <2>1, <2>5, <3>1 DEF LookupInv, ListensToTheFirst
    <3>2. CASE next_fd # 0
      BY <2>1, <2>2, <2>5, <3>2 DEF LookupInv, ListensToTheFirst
    <3>3. QED
      BY <3>1, <3>2
  <2>8. QED
    BY <2>3, <2>4, <2>6, <2>7 DEF LookupInv
\* What closes a descriptor that is not the socket of the first call, or that one
\* with the slot 0, leaves the rest as it is.
<1>4. CASE AllocationFails
  <2>1. /\ creating # None /\ next_fd = MAX_SOCKETS /\ creating' = None
        /\ kind' = [kind EXCEPT ![creating] = "free"]
        /\ UNCHANGED <<initialized, next_fd, sockets, listener, file>>
    BY <1>4 DEF AllocationFails, Closes
  <2>2. creating = 1 /\ initialized # None /\ next_fd > 0
    BY <2>1 DEF LookupInv, FirstHasTheSocket, BeforeTheFirst
  <2>3. kind'[1] = "free" /\ \A x \in Descriptors : x # 1 => kind'[x] = kind[x]
    BY <2>1, <2>2 DEF LookupInv, LookupTypes
  <2>4. LookupTypes'
    BY <2>1 DEF LookupInv, LookupTypes, Kinds
  <2>5. BeforeTheFirst' /\ ListensToTheFirst'
    BY <2>1, <2>2 DEF LookupInv, BeforeTheFirst, ListensToTheFirst
  <2>6. NeverASocket'
    BY <2>1, <2>3 DEF LookupInv, NeverASocket, LookupTypes
  <2>7. FirstHasTheSocket'
    BY <2>1, <2>2, <2>3 DEF LookupInv, FirstHasTheSocket, LookupTypes
  <2>8. QED
    BY <2>4, <2>5, <2>6, <2>7 DEF LookupInv
<1>5. ASSUME NEW fd \in Slots, socket_cleanup(fd)
      PROVE  LookupInv'
  <2> DEFINE sys == sockets[fd].sys_socket
  <2>1. /\ sockets[fd].is_used /\ sockets[fd].connected
        /\ kind' = [kind EXCEPT ![sys] = "free"]
        /\ sockets' = [sockets EXCEPT ![fd].closed = TRUE]
        /\ UNCHANGED <<initialized, next_fd, creating, listener, file>>
    BY <1>5 DEF socket_cleanup, Closes, get_socket_by_fd
  <2>2. fd = 0 /\ sys \in Descriptors /\ next_fd > 0 /\ initialized # None
    BY <2>1 DEF LookupInv, LookupTypes, FirstHasTheSocket, BeforeTheFirst
  <2>3. kind'[sys] = "free" /\ \A x \in Descriptors : x # sys => kind'[x] = kind[x]
    BY <2>1, <2>2 DEF LookupInv, LookupTypes
  <2>4. LookupTypes'
    BY <2>1, <2>2 DEF LookupInv, LookupTypes, Kinds
  <2>5. /\ sockets'[fd].is_used /\ sockets'[fd].sys_socket = sys
        /\ sockets'[fd].connected /\ sockets'[fd].closed
        /\ \A x \in Slots : x # fd => sockets'[x] = sockets[x]
    BY <2>1 DEF LookupInv, LookupTypes
  <2>6. BeforeTheFirst' /\ ListensToTheFirst'
    BY <2>1, <2>2, <2>5 DEF LookupInv, BeforeTheFirst, ListensToTheFirst
  <2>7. NeverASocket'
    BY <2>1, <2>3 DEF LookupInv, NeverASocket, LookupTypes
  <2>8. FirstHasTheSocket'
    BY <2>1, <2>2, <2>5 DEF LookupInv, FirstHasTheSocket
  <2>9. QED
    BY <2>4, <2>6, <2>7, <2>8 DEF LookupInv
<1>6. ASSUME NEW fd \in Slots, Connects(fd)
      PROVE  LookupInv'
  <2>1. /\ sockets[fd].is_used /\ kind[sockets[fd].sys_socket] = "socket"
        /\ sockets' = [sockets EXCEPT ![fd].connected = TRUE]
        /\ UNCHANGED <<initialized, next_fd, creating, listener, kind, file>>
    BY <1>6 DEF Connects, get_socket_by_fd
  <2>2. fd = 0
    BY <2>1 DEF LookupInv, FirstHasTheSocket, NeverASocket
  <2>3. /\ sockets'[fd].is_used = sockets[fd].is_used
        /\ sockets'[fd].sys_socket = sockets[fd].sys_socket
        /\ sockets'[fd].closed = sockets[fd].closed
        /\ \A x \in Slots : x # fd => sockets'[x] = sockets[x]
    BY <2>1 DEF LookupInv, LookupTypes
  <2>4. LookupTypes'
    BY <2>1 DEF LookupInv, LookupTypes
  <2>5. FirstHasTheSocket'
    BY <2>1, <2>2, <2>3 DEF LookupInv, FirstHasTheSocket
  <2>6. BeforeTheFirst' /\ NeverASocket' /\ ListensToTheFirst'
    BY <2>1, <2>2, <2>3
    DEF LookupInv, BeforeTheFirst, NeverASocket, ListensToTheFirst
  <2>7. QED
    BY <2>4, <2>5, <2>6 DEF LookupInv
<1>7. CASE OpenFile
  <2>1. PICK d \in Descriptors :
          /\ d \in Lowest /\ kind' = [kind EXCEPT ![d] = "file"] /\ file' = d
    BY <1>7 DEF OpenFile, Opens
  <2>2. UNCHANGED <<initialized, next_fd, sockets, creating, listener>>
    BY <1>7 DEF OpenFile
  <2>3. kind[d] = "free"
    BY <2>1 DEF Lowest, Free
  <2>4. /\ kind'[d] = "file"
        /\ \A x \in Descriptors : x # d => kind'[x] = kind[x]
    BY <2>1 DEF LookupInv, LookupTypes
  <2>5. LookupTypes'
    BY <2>1, <2>2 DEF LookupInv, LookupTypes, Kinds
  <2>6. BeforeTheFirst' /\ ListensToTheFirst' /\ NeverASocket'
    BY <2>1, <2>2, <2>3, <2>4
    DEF LookupInv, BeforeTheFirst, ListensToTheFirst, NeverASocket
  <2>7. FirstHasTheSocket'
    <3>1. \A x \in Descriptors : kind[x] = "socket" => kind'[x] = "socket"
      BY <2>3, <2>4
    <3>2. QED
      BY <2>2, <3>1 DEF LookupInv, FirstHasTheSocket, LookupTypes
  <2>8. QED
    BY <2>5, <2>6, <2>7 DEF LookupInv
<1>8. CASE CloseFile
  <2>1. /\ file # None /\ file' = None /\ kind' = [kind EXCEPT ![file] = "free"]
        /\ UNCHANGED <<initialized, next_fd, sockets, creating, listener>>
    BY <1>8 DEF CloseFile, Closes
  <2>2. file \in Descriptors /\ kind[file] # "socket"
    BY <2>1 DEF LookupInv, LookupTypes, NeverASocket
  <2>3. /\ kind'[file] = "free"
        /\ \A x \in Descriptors : x # file => kind'[x] = kind[x]
    BY <2>1, <2>2 DEF LookupInv, LookupTypes
  <2>4. LookupTypes'
    BY <2>1 DEF LookupInv, LookupTypes, Kinds
  <2>5. BeforeTheFirst'
    BY <2>1, <2>2, <2>3 DEF LookupInv, BeforeTheFirst
  <2>6. ListensToTheFirst' /\ NeverASocket'
    BY <2>1, <2>3 DEF LookupInv, ListensToTheFirst, NeverASocket
  <2>7. FirstHasTheSocket'
    <3>1. \A x \in Descriptors : kind[x] = "socket" => kind'[x] = "socket"
      BY <2>2, <2>3
    <3>2. QED
      BY <2>1, <3>1 DEF LookupInv, FirstHasTheSocket, LookupTypes
  <2>8. QED
    BY <2>4, <2>5, <2>6, <2>7 DEF LookupInv
<1>9. CASE UNCHANGED lookupVars
  BY <1>9
  DEF lookupVars, LookupInv, LookupTypes, BeforeTheFirst, FirstHasTheSocket,
      NeverASocket, ListensToTheFirst
<1>10. QED
  BY <1>1, <1>2, <1>3, <1>4, <1>5, <1>6, <1>7, <1>8, <1>9, LookupSteps

LEMMA RealIsTheFirst ==
    ASSUME LookupInv, NEW fd \in Slots, Real(fd)
    PROVE  fd = 0 /\ sockets[0].is_used /\ sockets[0].sys_socket # 1
<1>1. sockets[fd].is_used /\ initialized # None
  BY DEF Real, LookupInv, FirstHasTheSocket, BeforeTheFirst, LookupTypes, Slots
<1>2. initialized = 1
  BY <1>1 DEF LookupInv, LookupTypes
<1>3. QED
  BY <1>1, <1>2 DEF Real, LookupInv, FirstHasTheSocket

\* A socket keeps its system socket until it is closed (mic_tcp_socket,
\* socket_cleanup), whatever is done with the other sockets and the file.
THEOREM SocketsStayOpen == Spec => []OpenUntilClosed
<1>1. LookupInv => OpenUntilClosed
  BY RealIsTheFirst DEF LookupInv, FirstHasTheSocket, OpenUntilClosed
<1>2. QED
  BY <1>1, LookupInitially, LookupInvIsKept, PTL DEF Spec

\* Of all the sockets of a process only the first is ever connected, and it is the
\* one get_socket_by_sys_fd finds for the network thread (initialize_components).
THEOREM OnlyTheFirstConnects == Spec => []OneConnection
<1> USE SlotsAndDescriptors
<1>1. ASSUME LookupInv
      PROVE  OneConnection
  <2>1. SUFFICES ASSUME NEW fd \in Slots, sockets[fd].connected
                 PROVE  /\ fd = 0
                        /\ get_socket_by_sys_fd(sockets[fd].sys_socket) = {fd}
                        /\ listener # None => listener = sockets[fd].sys_socket
    BY DEF OneConnection
  <2>2. fd = 0 /\ sockets[0].is_used /\ sockets[0].sys_socket # 1 /\ next_fd # 0
    BY <1>1, <2>1 DEF LookupInv, FirstHasTheSocket
  <2>3. get_socket_by_sys_fd(sockets[0].sys_socket) = {0}
    <3> DEFINE found ==
          { i \in Slots : /\ sockets[i].is_used
                         /\ sockets[i].sys_socket = sockets[0].sys_socket }
    <3>1. found = {0}
      BY <1>1, <2>2 DEF LookupInv, FirstHasTheSocket
    <3>2. { i \in found : \A j \in found : i <= j } = {0}
      <4> HIDE DEF found
      <4>1. QED
        BY <3>1
    <3>3. QED
      BY <3>2 DEF get_socket_by_sys_fd
  <2>4. listener # None => listener = sockets[0].sys_socket
    BY <1>1, <2>2 DEF LookupInv, ListensToTheFirst
  <2>5. QED
    BY <2>2, <2>3, <2>4
<1>2. QED
  BY <1>1, LookupInitially, LookupInvIsKept, PTL DEF Spec

\* The values of every variable, with the table that stays within its slots.
THEOREM ProcessTypes == Spec => []TypeOK
<1>1. BufferInv /\ LookupInv => TypeOK
  BY DEF BufferInv, BufferTypes, LookupInv, LookupTypes, FirstHasTheSocket,
      TypeOK
<1>2. QED
  BY <1>1, LookupInitially, LookupInvIsKept, BufferInvIsInductive, PTL DEF Spec
=============================================================================
