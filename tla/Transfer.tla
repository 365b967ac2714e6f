------------------------------ MODULE Transfer ------------------------------
(***************************************************************************)
(* What a connected MIC-TCP gives to the two applications, with no thread, *)
(* no PDU and no window: the calls of mic_tcp_send end one after the other *)
(* and the messages come out in the order of the calls. Some do not come   *)
(* out, some come out twice in a row, and one may come out before its call *)
(* ends or long after.                                                     *)
(*                                                                         *)
(* The messages are numbered 1, 2, ... in the order of the calls.          *)
(***************************************************************************)
EXTENDS Integers, FiniteSets, SequencesExt

VARIABLES results,      \* what each call of mic_tcp_send ended in
          delivered     \* what was put in the application buffer

transferVars == <<results, delivered>>

\* msg_size, 0 for an accepted loss, and -1.
SendEnds == {"acked", "lost", "error"}

Init == results = <<>> /\ delivered = <<>>

\* The call under way, or the one to come.
message == Len(results) + 1

LastDelivered == IF delivered = <<>> THEN 1 ELSE Last(delivered)

Deliver ==
    /\ \E m \in LastDelivered .. message : delivered' = Append(delivered, m)
    /\ UNCHANGED results

Return(end) ==
    /\ results' = Append(results, end)
    /\ UNCHANGED delivered

Next == Deliver \/ \E end \in SendEnds : Return(end)

\* Every message that is lost is paid for by a call that did not return msg_size.
Undelivered == { m \in DOMAIN results : \A i \in DOMAIN delivered : delivered[i] # m }
Unacknowledged == { m \in DOMAIN results : results[m] # "acked" }
WithinBudget == Cardinality(Undelivered) <= Cardinality(Unacknowledged)

Spec == Init /\ [][Next]_transferVars

\* When nothing was under way as the connection started.
BudgetedSpec == Spec /\ [][WithinBudget']_transferVars
=============================================================================
