-------------------------------- MODULE Fifo --------------------------------
(***************************************************************************)
(* What the application buffer of src/api/mictcp_core.c promises: a queue  *)
(* from which each message comes out once, in the order it came in,        *)
(* however many threads of the application read it.                        *)
(***************************************************************************)
EXTENDS Naturals, Sequences

CONSTANT Messages

VARIABLES queue,    \* put and not taken yet
          taken     \* history: the messages handed out, in that order

fifoVars == <<queue, taken>>

Init == queue = <<>> /\ taken = <<>>

Put(m) == queue' = Append(queue, m) /\ UNCHANGED taken

Get ==
    /\ queue # <<>>
    /\ taken' = Append(taken, Head(queue))
    /\ queue' = Tail(queue)

Next == Get \/ \E m \in Messages : Put(m)

Spec == Init /\ [][Next]_fifoVars
=============================================================================
