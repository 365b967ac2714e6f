----------------------------- MODULE LossPolicy -----------------------------
(***************************************************************************)
(* What the sender does with its sliding window over a sequence of calls   *)
(* of mic_tcp_send (src/mictcp/mictcp.c): an acknowledged send shifts a 1  *)
(* in, a timeout is taken as a loss only when verify_acceptable_loss says  *)
(* so and then shifts a 0 in, and otherwise the same message is sent       *)
(* again.                                                                  *)
(*                                                                         *)
(* `lost' is a history variable the program does not have: the positions   *)
(* of the window that stand for a send given up as lost. A position that   *)
(* is in neither set is one the connection has not used yet: the window    *)
(* of a fresh socket is all zeros although nothing was lost.               *)
(***************************************************************************)
EXTENDS SlidingWindow

CONSTANTS sliding_window_size,    \* 10 in mic_tcp_connect
          Tolerances              \* what mic_tcp_connect may negotiate: 0..3

ASSUME WindowAssumption ==
    /\ sliding_window_size \in Nat
    /\ Tolerances \subseteq Nat

VARIABLES sliding_window, sliding_window_consecutive_loss, lost

policyVars == <<sliding_window, sliding_window_consecutive_loss, lost>>

Init ==
    /\ sliding_window = {}
    /\ sliding_window_consecutive_loss \in Tolerances
    /\ lost = {}

\* The send was acknowledged: mic_tcp_send returns msg_size.
Acknowledged ==
    /\ sliding_window' =
         update_sliding_window(sliding_window, sliding_window_size, TRUE)
    /\ lost' = Shift(lost, sliding_window_size)
    /\ UNCHANGED sliding_window_consecutive_loss

\* The wait timed out and the loss is acceptable: mic_tcp_send returns 0.
AcceptLoss ==
    /\ verify_acceptable_loss(sliding_window, sliding_window_size,
                              sliding_window_consecutive_loss)
    /\ sliding_window' =
         update_sliding_window(sliding_window, sliding_window_size, FALSE)
    /\ lost' = Shift(lost, sliding_window_size)
                 \cup ({0} \cap Positions(sliding_window_size))
    /\ UNCHANGED sliding_window_consecutive_loss

Next == Acknowledged \/ AcceptLoss

Spec == Init /\ [][Next]_policyVars

------------------------------------------------------------------------------

\* Both sets are positions of the window, and no send is in both.
TypeOK ==
    /\ sliding_window \subseteq Positions(sliding_window_size)
    /\ sliding_window_consecutive_loss \in Tolerances
    /\ lost \subseteq Positions(sliding_window_size)

\* The table of sliding_window.c:7-15 ("Accepted Losses in Window"): among any
\* sliding_window_size consecutive sends, no more are given up as lost than the
\* tolerance negotiated for the connection. verify_acceptable_loss counts the
\* window BEFORE the shift, which drops its oldest bit: the comparison has to be
\* strict for this to hold.
LossBound == Cardinality(lost) <= sliding_window_consecutive_loss

\* A loss is only ever accepted on a window that was full of real sends up to
\* the tolerance, and later sends keep it that full: what makes LossBound
\* inductive.
LossesAreCovered ==
    lost # {} =>
      Cardinality(sliding_window) >=
        sliding_window_size - sliding_window_consecutive_loss

\* The inductive invariant.
PolicyInv ==
    /\ TypeOK
    /\ sliding_window \cap lost = {}
    /\ LossesAreCovered

=============================================================================
