---------------------------- MODULE SlidingWindow ----------------------------
(***************************************************************************)
(* The pure part of partial reliability: the window of the last sends      *)
(* (src/mictcp/sliding_window.c) and the number of losses the measured     *)
(* reliability of the channel allows (mic_tcp_connect in                   *)
(* src/mictcp/mictcp_socket.c).                                            *)
(*                                                                         *)
(* The C window is an int of which the low `size' bits are used. Here it   *)
(* is the set of the positions of its bits that are on: 0 is the newest    *)
(* send, size - 1 the oldest one remembered.                               *)
(***************************************************************************)
EXTENDS Integers, FiniteSets

Positions(size) == 0 .. size - 1

\* window <<= 1: what was at i is at i + 1, what leaves the mask is forgotten.
Shift(window, size) == { i \in Positions(size) : i - 1 \in window }

\* Mutant: the window is shifted and not masked.
update_without_mask(window, size, received) ==
    { i + 1 : i \in window } \cup (IF received THEN {0} ELSE {})

\* received is TRUE for an acknowledged send, FALSE for an accepted loss.
update_sliding_window(window, size, received) ==
    Shift(window, size) \cup (IF received THEN {0} \cap Positions(size) ELSE {})

\* Mutant: the comparison is not strict.
verify_one_loss_more(window, size, consecutive_loss) ==
    Cardinality(window) >= size - consecutive_loss

verify_acceptable_loss(window, size, consecutive_loss) ==
    Cardinality(window) > size - consecutive_loss

(***************************************************************************)
(* loss_rate is 100 - 100 * received / packets, in percent; the thresholds *)
(* are compared multiplied by `packets' to stay in the integers.           *)
(***************************************************************************)
LossBelow(received, packets, percent) ==
    100 * (packets - received) < percent * packets

\* Mutant: the success rate is compared in place of the loss rate.
TooManySuccesses(received, packets) ==
    100 * received > 20 * packets

TooUnreliable(received, packets) ==
    100 * (packets - received) > 20 * packets

ConsecutiveLoss(received, packets) ==
    IF LossBelow(received, packets, 2) THEN 0
    ELSE IF LossBelow(received, packets, 5) THEN 1
    ELSE IF LossBelow(received, packets, 12) THEN 2
    ELSE 3
=============================================================================
