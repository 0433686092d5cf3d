------------------------------- MODULE Clock -------------------------------
(***************************************************************************)
(* Times (the monotonic clock in three units) and the deadline that        *)
(* Condition::waitRelative and waitRelativeUs compute from it.  A timespec *)
(* is a record of seconds and nanoseconds.                                 *)
(***************************************************************************)
EXTENDS Utils

CONSTANT LONG_MAX   (* of the platform: 2^31 - 1 or 2^63 - 1               *)

INT64_MAX == 9223372036854775807
BILLION   == 1000000000

Timespec == {t \in [tv_sec : Nat, tv_nsec : Nat] :
               t.tv_sec <= LONG_MAX /\ t.tv_nsec < BILLION}
-----------------------------------------------------------------------------
(* What clock_gettime(CLOCK_MONOTONIC) has put into t, in each unit.       *)
getSystemTimeNs(t) == t.tv_sec * BILLION + t.tv_nsec
getSystemTimeUs(t) == Quotient(getSystemTimeNs(t), 1000)
getSystemTimeMs(t) == Quotient(getSystemTimeNs(t), 1000000)
-----------------------------------------------------------------------------
(* The deadline of a wait that begins at t, in two steps: the nanoseconds  *)
(* with their carry, then the seconds, which stop at the largest value.    *)
Carries(t, reltime_sec, nsec) ==
  reltime_sec < INT64_MAX /\ t.tv_nsec + nsec >= BILLION

Seconds(t, reltime_sec) ==
  LET time_sec == IF t.tv_sec > INT64_MAX - reltime_sec THEN INT64_MAX
                                                        ELSE t.tv_sec + reltime_sec
  IN IF time_sec > LONG_MAX THEN LONG_MAX ELSE time_sec

Deadline(t, reltime_sec, nsec) ==
  IF Carries(t, reltime_sec, nsec)
  THEN [tv_sec |-> Seconds(t, reltime_sec + 1), tv_nsec |-> t.tv_nsec + nsec - BILLION]
  ELSE [tv_sec |-> Seconds(t, reltime_sec), tv_nsec |-> t.tv_nsec + nsec]

(* reltime is in milliseconds here, whatever Condition.h:46 and 95 say ...  *)
waitRelative(t, reltime) ==
  Deadline(t, Quotient(reltime, 1000), Remainder(reltime * 1000 * 1000, BILLION))

(* ... and in microseconds here.                                           *)
waitRelativeUs(t, reltime) ==
  Deadline(t, Quotient(reltime, 1000000), Remainder(reltime * 1000, BILLION))
=============================================================================
