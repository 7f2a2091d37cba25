------------------------------ MODULE Deadline ------------------------------
(***************************************************************************)
(* The timing of rpcc::call1: the final deadline, the deadlines of its     *)
(* waits, each twice as long as the one before, and the arithmetic on      *)
(* struct timespec.  The protocol that runs on top is in Rpc, whose bound  *)
(* Rounds stands for the number of waits.                                  *)
(*                                                                         *)
(* A second has MsPerSec milliseconds of NsPerMs nanoseconds, 1000 of      *)
(* 1000000 in the code; an int goes up to IntMax.                          *)
(***************************************************************************)
EXTENDS Integers, Sequences

CONSTANTS MsPerSec, NsPerMs, IntMax,
          Timeouts,  \* values of TO::to, in milliseconds
          Slack,     \* how long, in nanoseconds, a thread may be delayed
          Lengths    \* to_min, doubled as long as an int holds it

Second == MsPerSec * NsPerMs
to_min == MsPerSec

ASSUME DeadlineAssumption ==
    /\ {MsPerSec, NsPerMs, IntMax, Slack} \subseteq Nat
    /\ MsPerSec > 0 /\ NsPerMs > 0
    /\ Timeouts \subseteq 0..IntMax

(* The doubled value that is too large for an int is too large by more than *)
(* to_min: in the code 1000 * 2^21 is the last that is not, and             *)
(* 1000 * 2^22 > 2^31 - 1 + 1000.                                           *)
ASSUME LengthsAssumption ==
    /\ Lengths \in Seq(0..IntMax) /\ Len(Lengths) > 0 /\ Lengths[1] = to_min
    /\ \A k \in 1..(Len(Lengths) - 1) : Lengths[k + 1] = 2 * Lengths[k]
    /\ 2 * Lengths[Len(Lengths)] > IntMax + to_min

VARIABLES clock,          \* CLOCK_REALTIME
          start,          \* its value when call1 first reads it (history)
          to, curr_to,    \* the caller's timeout, and the current one
          finaldeadline, nextdeadline,
          waiting,        \* where call1 is: "begin", "loop", "wait", "returned"
          waits,          \* number of waits begun (history)
          done            \* ca.done

deadlineVars == <<clock, start, to, curr_to, finaldeadline, nextdeadline,
                  waiting, waits, done>>

(* The nanoseconds that a timespec stands for. *)
Ns(a) == a.tv_sec * Second + a.tv_nsec

(* Only the sign of the result is used. *)
cmp_timespec(a, b) ==
    IF a.tv_sec # b.tv_sec THEN a.tv_sec - b.tv_sec ELSE a.tv_nsec - b.tv_nsec

(* Mutant of add_timespec: the milliseconds are all added to tv_nsec. *)
add_timespecNoCarry(a, b) == [a EXCEPT !.tv_nsec = @ + b * NsPerMs]

(* The loop subtracts a second while tv_nsec > 1000000000. *)
add_timespec(a, b) ==
    LET sec   == a.tv_sec + b \div MsPerSec
        nsec  == a.tv_nsec + (b % MsPerSec) * NsPerMs
        carry == CHOOSE k \in 0..2 : /\ nsec - k * Second <= Second
                                     /\ k > 0 => nsec - (k - 1) * Second > Second
    IN  [tv_sec |-> sec + carry, tv_nsec |-> nsec - carry * Second]

(* Integer division of the code truncates, so it is done on positive numbers. *)
diff_timespec(end, begin) ==
    LET diff == (end.tv_sec - begin.tv_sec) * MsPerSec
    IN  IF end.tv_nsec > begin.tv_nsec
        THEN diff + (end.tv_nsec - begin.tv_nsec) \div NsPerMs
        ELSE diff - (begin.tv_nsec - end.tv_nsec) \div NsPerMs

(* What an int holds after it was shifted left by one. *)
Doubled(x) ==
    LET y == (2 * x) % (2 * (IntMax + 1))
    IN  IF y <= IntMax THEN y ELSE y - 2 * (IntMax + 1)

(* pthread_cond_timedwait fails with EINVAL, keeping the mutex, otherwise. *)
ValidDeadline(a) == a.tv_nsec < Second

NoTime == [tv_sec |-> 0, tv_nsec |-> 0]

DeadlineInit ==
    /\ clock \in [tv_sec : {1}, tv_nsec : 0..(Second - 1)]
    /\ start = clock /\ to \in Timeouts /\ curr_to = 0
    /\ finaldeadline = NoTime /\ nextdeadline = NoTime
    /\ waiting = "begin" /\ waits = 0 /\ done = FALSE

Tick ==
    /\ waiting \in {"loop", "wait"}
    /\ Ns(clock) < Ns(start) + to * NsPerMs + Slack
    /\ clock' = IF clock.tv_nsec + 1 < Second THEN [clock EXCEPT !.tv_nsec = @ + 1]
                ELSE [tv_sec |-> clock.tv_sec + 1, tv_nsec |-> 0]
    /\ UNCHANGED <<start, to, curr_to, finaldeadline, nextdeadline, waiting, waits, done>>

Begin ==
    /\ waiting = "begin" /\ waiting' = "loop"
    /\ finaldeadline' = add_timespec(clock, to)
    /\ curr_to' = to_min
    /\ UNCHANGED <<clock, start, to, nextdeadline, waits, done>>

(* Mutant of CallLoop: a later deadline does not replace the next one. *)
CallLoopPastFinal ==
    /\ waiting = "loop" /\ waiting' = "wait"
    /\ nextdeadline' = add_timespec(clock, curr_to)
    /\ finaldeadline' = finaldeadline /\ waits' = waits + 1
    /\ UNCHANGED <<clock, start, to, curr_to, done>>

(* The loop from its head to the wait; tv_sec = 0 marks the last wait. *)
CallLoop ==
    /\ waiting = "loop"
    /\ IF finaldeadline.tv_sec = 0
       THEN waiting' = "returned" /\ UNCHANGED <<finaldeadline, nextdeadline, waits>>
       ELSE LET next == add_timespec(clock, curr_to)
                last == cmp_timespec(next, finaldeadline) > 0
            IN  /\ nextdeadline' = IF last THEN finaldeadline ELSE next
                /\ finaldeadline' = IF last THEN [finaldeadline EXCEPT !.tv_sec = 0]
                                    ELSE finaldeadline
                /\ waiting' = "wait" /\ waits' = waits + 1
    /\ UNCHANGED <<clock, start, to, curr_to, done>>

(* ca.done, or ETIMEDOUT.  A deadline that is not valid makes the loop spin. *)
WaitOver ==
    /\ waiting = "wait"
    /\ \/ done
       \/ ValidDeadline(nextdeadline) /\ cmp_timespec(clock, nextdeadline) >= 0
    /\ waiting' = (IF done THEN "returned" ELSE "loop")
    /\ curr_to' = IF done THEN curr_to ELSE Doubled(curr_to)
    /\ UNCHANGED <<clock, start, to, finaldeadline, nextdeadline, waits, done>>

(* rpcc::got_pdu sets ca.done under ca.m, which a spinning caller holds. *)
GotReply ==
    /\ waiting \in {"loop", "wait"} /\ ~done
    /\ waiting = "wait" => ValidDeadline(nextdeadline)
    /\ done' = TRUE
    /\ UNCHANGED <<clock, start, to, curr_to, finaldeadline, nextdeadline, waiting, waits>>

DeadlineNext == Tick \/ Begin \/ CallLoop \/ WaitOver \/ GotReply

DeadlineSpec == DeadlineInit /\ [][DeadlineNext]_deadlineVars

-----------------------------------------------------------------------------
(***************************************************************************)
(* call1 returns timeout_failure only when the whole timeout has passed,   *)
(* also as diff_timespec measures it, and no wait in between is set to end *)
(* after it: the last wait is cut to the final deadline, and the flag      *)
(* tv_sec = 0 does not end the loop early.  The waits double, so that a    *)
(* timeout has only logarithmically many, and curr_to is used only before  *)
(* curr_to <<= 1 can exceed an int.                                        *)
(***************************************************************************)
TimeoutKept ==
    /\ waiting = "wait" =>
          /\ Ns(nextdeadline) <= Ns(start) + to * NsPerMs
          /\ waits \in 1..Len(Lengths) /\ curr_to = Lengths[waits] /\ curr_to - to_min <= to
    /\ waiting = "returned" /\ ~done =>
          /\ Ns(clock) >= Ns(start) + to * NsPerMs
          /\ diff_timespec(clock, start) >= to

(***************************************************************************)
(* With a timeout of whole seconds, as to_max and every timeout in the     *)
(* repository is, add_timespec gives call1 only deadlines that             *)
(* pthread_cond_timedwait accepts.  (With a fraction of a second tv_nsec   *)
(* can be 1000000000, and the caller then spins with ca.m held.)           *)
(***************************************************************************)
WholeSecondsAccepted ==
    waiting = "wait" /\ to % MsPerSec = 0 => ValidDeadline(nextdeadline)
=============================================================================
