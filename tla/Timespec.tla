------------------------------ MODULE Timespec ------------------------------
(***************************************************************************)
(* Times as the code keeps them, seconds and a rest: the deadline that     *)
(* mic_tcp_send, mic_tcp_accept and mic_tcp_close compute before a timed   *)
(* wait, and tsSubtract of the gateway.                                    *)
(*                                                                         *)
(* A second has SECOND units here, 1e9 in the code.                        *)
(***************************************************************************)
EXTENDS Integers

CONSTANTS SECOND,
          TIMEOUT   \* 30 ms in the code, less than a second

ASSUME TimespecAssumption ==
    /\ SECOND \in Nat
    /\ TIMEOUT \in 1 .. SECOND - 1

timespec(sec, nsec) == [tv_sec |-> sec, tv_nsec |-> nsec]

\* clock_gettime, when so many units have passed.
Clock(units) == timespec(units \div SECOND, units % SECOND)
Units(t) == t.tv_sec * SECOND + t.tv_nsec

\* What nanosleep and pthread_cond_timedwait ask of a time, or fail with EINVAL.
Valid(t) == t.tv_nsec \in 0 .. SECOND - 1

\* Mutant: the seconds of the timeout are rounded up.
DeadlineRoundedUp(now) == timespec(now.tv_sec + 1, now.tv_nsec)

\* TIMEOUT / 1000, and 5 * TIMEOUT / 1000, add no second. What is over a second
\* is taken off and not carried; exactly a second is left as it is.
Deadline(now) ==
    LET nsec == now.tv_nsec + TIMEOUT
    IN  timespec(now.tv_sec, IF nsec > SECOND THEN nsec % SECOND ELSE nsec)

\* Mutant: a second is borrowed and never added to the rest.
SubtractAndForget(time1, time2) ==
    IF Units(time1) <= Units(time2) THEN timespec(0, 0)
    ELSE timespec(time1.tv_sec - time2.tv_sec
                    - (IF time1.tv_nsec < time2.tv_nsec THEN 1 ELSE 0),
                  time1.tv_nsec - time2.tv_nsec)

tsSubtract(time1, time2) ==
    IF \/ time1.tv_sec < time2.tv_sec
       \/ time1.tv_sec = time2.tv_sec /\ time1.tv_nsec <= time2.tv_nsec
    THEN timespec(0, 0)
    ELSE IF time1.tv_nsec < time2.tv_nsec
    THEN timespec(time1.tv_sec - time2.tv_sec - 1,
                  time1.tv_nsec + SECOND - time2.tv_nsec)
    ELSE timespec(time1.tv_sec - time2.tv_sec, time1.tv_nsec - time2.tv_nsec)
=============================================================================
