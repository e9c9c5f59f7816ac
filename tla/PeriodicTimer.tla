--------------------------- MODULE PeriodicTimer ---------------------------
(***************************************************************************)
(* Time in the simulation server: the release times of the periodic loop   *)
(* of vs_udp.c and vses_udp.c, kept as a struct timespec, and the cycle    *)
(* times it measures.  The clock advances while the server works, waits    *)
(* for the reply or sleeps; a reply may be late by many periods.  It is    *)
(* CLOCK_REALTIME, which may also be set forward or back at any moment.    *)
(***************************************************************************)
EXTENDS Integers

CONSTANTS
    NSEC_PER_SEC,   \* 1000000000 in the code
    NSEC_PER_USEC,  \* 1000 in the code
    Offset,         \* start_periodic_timer's offset, us
    Period,         \* and its period, us
    StartTimes,     \* clock values at which the server may start, ns
    ClockSteps,     \* by how much the clock may be set forward or back, ns
    Horizon,        \* bound: the clock stops here
    MaxActivations  \* bound: periods of one run

ASSUME UnitsAssumption ==
    /\ NSEC_PER_USEC \in Nat \ {0} /\ NSEC_PER_SEC \in Nat \ {0}
    /\ NSEC_PER_SEC % NSEC_PER_USEC = 0
ASSUME TimerAssumption == Offset \in Nat /\ Period \in Nat
ASSUME BoundsAssumption ==
    /\ Horizon \in Nat /\ StartTimes \subseteq 0 .. Horizon
    /\ ClockSteps \subseteq Int /\ MaxActivations \in Nat

VARIABLES
    now,          \* CLOCK_REALTIME
    phase,        \* what the server does next
    r,            \* the next release
    start, end,   \* the time stamps around the receive
    cycle_time,   \* the time measured last, in us as vses_udp.c files it
    activations,  \* periods waited for
    origin,       \* history: the first release, ns
    sentAt,       \* history: when the current sample was sent, ns
    steady        \* history: no step of the clock since the last wait ended

timerVars == <<now, phase, r, start, end, cycle_time, activations, origin, sentAt, steady>>

Timespec == [tv_sec : Nat, tv_nsec : 0 .. NSEC_PER_SEC - 1]

\* What clock_gettime returns at time t, and the time a timespec stands for.
ToTimespec(t) == [tv_sec |-> t \div NSEC_PER_SEC, tv_nsec |-> t % NSEC_PER_SEC]
Nanoseconds(t) == t.tv_sec * NSEC_PER_SEC + t.tv_nsec

AddWithoutCarry(t, d) == [t EXCEPT !.tv_nsec = @ + d * NSEC_PER_USEC]

timespec_add_us(t, d) ==
    LET nsec == t.tv_nsec + d * NSEC_PER_USEC
    IN  [tv_sec  |-> t.tv_sec + (nsec \div NSEC_PER_SEC),
         tv_nsec |-> nsec % NSEC_PER_SEC]

\* Division of C, which rounds towards zero.
Truncate(a, b) == IF a >= 0 THEN a \div b ELSE -((-a) \div b)

MicrosecondsWithoutSeconds(s, e) == Truncate(e.tv_nsec - s.tv_nsec, NSEC_PER_USEC)

\* The cycle time in microseconds, seconds and fractions apart.
Microseconds(s, e) ==
    (e.tv_sec - s.tv_sec) * (NSEC_PER_SEC \div NSEC_PER_USEC)
        + Truncate(e.tv_nsec - s.tv_nsec, NSEC_PER_USEC)

TimerInit ==
    /\ now \in StartTimes
    /\ phase = "start"
    /\ r = ToTimespec(0) /\ start = ToTimespec(0) /\ end = ToTimespec(0)
    /\ cycle_time = 0
    /\ activations = 0
    /\ origin = 0 /\ sentAt = 0 /\ steady = FALSE

start_periodic_timer ==
    /\ phase = "start"
    /\ r' = timespec_add_us(ToTimespec(now), Offset)
    /\ origin' = now + Offset * NSEC_PER_USEC
    /\ steady' = TRUE
    /\ phase' = "send"
    /\ UNCHANGED <<now, start, end, cycle_time, activations, sentAt>>

Send ==
    /\ phase = "send"
    /\ sentAt' = now
    /\ phase' = "stampStart"
    /\ UNCHANGED <<now, r, start, end, cycle_time, activations, origin, steady>>

\* The clock is read after sendto has returned.
StampStart ==
    /\ phase = "stampStart"
    /\ start' = ToTimespec(now)
    /\ phase' = "recv"
    /\ UNCHANGED <<now, r, end, cycle_time, activations, origin, sentAt, steady>>

Receive ==
    /\ phase = "recv"
    /\ phase' = "stampEnd"
    /\ UNCHANGED <<now, r, start, end, cycle_time, activations, origin, sentAt, steady>>

StampEnd ==
    /\ phase = "stampEnd"
    /\ end' = ToTimespec(now)
    /\ cycle_time' = Microseconds(start, ToTimespec(now))
    /\ phase' = "wait"
    /\ UNCHANGED <<now, r, start, activations, origin, sentAt, steady>>

\* Variations of the wait: counted from now, and without the sleep.
WaitFromNow ==
    /\ phase = "wait" /\ activations < MaxActivations
    /\ now >= Nanoseconds(r)
    /\ r' = timespec_add_us(ToTimespec(now), Period)
    /\ activations' = activations + 1
    /\ steady' = TRUE
    /\ phase' = "send"
    /\ UNCHANGED <<now, start, end, cycle_time, origin, sentAt>>

WaitWithoutSleep ==
    /\ phase = "wait" /\ activations < MaxActivations
    /\ r' = timespec_add_us(r, Period)
    /\ activations' = activations + 1
    /\ steady' = TRUE
    /\ phase' = "send"
    /\ UNCHANGED <<now, start, end, cycle_time, origin, sentAt>>

\* An absolute sleep: it returns at once when the release has passed.
wait_next_activation ==
    /\ phase = "wait" /\ activations < MaxActivations
    /\ now >= Nanoseconds(r)
    /\ r' = timespec_add_us(r, Period)
    /\ activations' = activations + 1
    /\ steady' = TRUE
    /\ phase' = "send"
    /\ UNCHANGED <<now, start, end, cycle_time, origin, sentAt>>

Tick ==
    /\ now < Horizon
    /\ now' = now + 1
    /\ UNCHANGED <<phase, r, start, end, cycle_time, activations, origin, sentAt, steady>>

\* Someone sets the time; an absolute sleep goes by the clock as it is then.
SetClock ==
    /\ \E s \in ClockSteps : now' = now + s
    /\ now' \in 0 .. Horizon
    /\ steady' = FALSE
    /\ UNCHANGED <<phase, r, start, end, cycle_time, activations, origin, sentAt>>

TimerNext ==
    \/ start_periodic_timer
    \/ Send \/ StampStart \/ Receive \/ StampEnd
    \/ wait_next_activation
    \/ Tick \/ SetClock

TimerSpec == TimerInit /\ [][TimerNext]_timerVars
-----------------------------------------------------------------------------
\* Every variable stays within its type; timespecs stay normalised.
TimerTypeOK ==
    /\ now \in 0 .. Horizon
    /\ phase \in {"start", "send", "stampStart", "recv", "stampEnd", "wait"}
    /\ r \in Timespec /\ start \in Timespec /\ end \in Timespec
    /\ cycle_time \in Int
    /\ activations \in 0 .. MaxActivations
    /\ origin \in Nat /\ sentAt \in 0 .. Horizon /\ steady \in BOOLEAN

Span(n) == n * Period * NSEC_PER_USEC

\* However late replies are and however the clock is set, the releases stay
\* on the grid the timer was started with: an overrun is caught up and never
\* shifts later periods.
ReleasesOnGrid == phase # "start" => Nanoseconds(r) = origin + Span(activations)

\* Unless the clock is set after the wait, no sample leaves before its
\* release by the clock.  The timer's first release is its
\* start, so samples 0 and 1 may leave back to back and sample n has period
\* n - 1 for its release.
NeverEarly ==
    phase \notin {"start", "send"} /\ activations > 0 /\ steady
        => sentAt >= origin + Span(activations - 1)

\* The time filed for a cycle is within a microsecond of the one between the
\* two stamps, on either side, also across the turn of a second and when the
\* clock has gone back between them.
MeasuredWithinOneMicrosecond ==
    phase = "wait" =>
        LET error == cycle_time * NSEC_PER_USEC - (Nanoseconds(end) - Nanoseconds(start))
        IN  -NSEC_PER_USEC < error /\ error < NSEC_PER_USEC
=============================================================================
