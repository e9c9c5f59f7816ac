---------------------------- MODULE ServerProofs ----------------------------
(***************************************************************************)
(* Proofs about the simulation servers around their replay loop, in two    *)
(* parts: Startup and the loaders it calls, for recordings of any length,  *)
(* rows of any width, arrays of any size and any list of files; and        *)
(* PeriodicTimer, for every unit, offset and period.                       *)
(***************************************************************************)
EXTENDS Startup, PeriodicTimer, WellFoundedInduction, TLAPS

(***************************************************************************)
(* The releases of the periodic loop and the times it measures.            *)
(***************************************************************************)
USE UnitsAssumption, TimerAssumption, BoundsAssumption

\* Splitting a time into seconds and the rest, and putting it together again.
LEMMA SecondsAndRest ==
    ASSUME NEW a \in Nat
    PROVE  /\ a \div NSEC_PER_SEC \in Nat
           /\ a % NSEC_PER_SEC \in 0 .. NSEC_PER_SEC - 1
           /\ (a \div NSEC_PER_SEC) * NSEC_PER_SEC + (a % NSEC_PER_SEC) = a
BY SMT

LEMMA ClockRoundTrip ==
    ASSUME NEW t \in Nat
    PROVE  ToTimespec(t) \in Timespec /\ Nanoseconds(ToTimespec(t)) = t
BY SecondsAndRest DEF ToTimespec, Timespec, Nanoseconds

\* Products of naturals are naturals.
LEMMA ProductType == ASSUME NEW a \in Nat, NEW b \in Nat PROVE a * b \in Nat
BY SMT

\* timespec_add_us adds exactly d microseconds and keeps tv_nsec below a
\* second, though the sum of the nanoseconds may span many seconds.
THEOREM AddMicroseconds ==
    ASSUME NEW t \in Timespec, NEW d \in Nat
    PROVE  /\ timespec_add_us(t, d) \in Timespec
           /\ Nanoseconds(timespec_add_us(t, d)) = Nanoseconds(t) + d * NSEC_PER_USEC
<1> DEFINE nsec == t.tv_nsec + d * NSEC_PER_USEC
           sec  == nsec \div NSEC_PER_SEC
           rest == nsec % NSEC_PER_SEC
<1>1. t.tv_sec \in Nat /\ t.tv_nsec \in 0 .. NSEC_PER_SEC - 1
  BY DEF Timespec
<1>2. d * NSEC_PER_USEC \in Nat
  BY ProductType
<1>3. nsec \in Nat
  BY <1>1, <1>2
<1>4. /\ sec \in Nat /\ rest \in 0 .. NSEC_PER_SEC - 1
      /\ sec * NSEC_PER_SEC + rest = nsec
  BY <1>3, SecondsAndRest
<1>5. timespec_add_us(t, d) = [tv_sec |-> t.tv_sec + sec, tv_nsec |-> rest]
  BY DEF timespec_add_us
<1>6. (t.tv_sec + sec) * NSEC_PER_SEC = t.tv_sec * NSEC_PER_SEC + sec * NSEC_PER_SEC
  BY <1>1, <1>4
<1>7. timespec_add_us(t, d) \in Timespec
  BY <1>1, <1>4, <1>5 DEF Timespec
<1>8. t.tv_sec * NSEC_PER_SEC \in Nat /\ sec * NSEC_PER_SEC \in Nat
  BY <1>1, <1>4, ProductType
<1>9. Nanoseconds(timespec_add_us(t, d)) = (t.tv_sec + sec) * NSEC_PER_SEC + rest
  BY <1>5 DEF Nanoseconds
<1> HIDE DEF nsec, sec, rest
<1>10. Nanoseconds(timespec_add_us(t, d)) = t.tv_sec * NSEC_PER_SEC + nsec
  BY <1>1, <1>4, <1>6, <1>8, <1>9
<1> QED
  BY <1>1, <1>2, <1>7, <1>8, <1>10 DEF Nanoseconds, nsec

\* The division of C is off by less than the divisor, on either side of zero.
LEMMA TruncateNear ==
    ASSUME NEW x \in Int, NEW b \in Nat \ {0}
    PROVE  /\ Truncate(x, b) \in Int
           /\ -b < Truncate(x, b) * b - x /\ Truncate(x, b) * b - x < b
<1>1. ASSUME NEW a \in Nat
      PROVE  a \div b \in Nat /\ a % b \in 0 .. b - 1 /\ (a \div b) * b + (a % b) = a
  BY SMT
<1>2. CASE x >= 0
  <2>1. Truncate(x, b) = x \div b
    BY <1>2 DEF Truncate
  <2> QED
    BY <1>1, <1>2, <2>1
<1>3. CASE x < 0
  <2> DEFINE q == (-x) \div b
  <2>1. Truncate(x, b) = -q
    BY <1>3 DEF Truncate
  <2>2. -x \in Nat
    BY <1>3
  <2>3. q \in Nat /\ (-x) % b \in 0 .. b - 1 /\ q * b + ((-x) % b) = -x
    BY <1>1, <2>2
  <2> HIDE DEF q
  <2>4. (-q) * b = -(q * b)
    BY <2>3
  <2>5. q * b \in Int
    BY <2>3, ProductType
  <2> QED
    BY <2>1, <2>2, <2>3, <2>4, <2>5
<1> QED
  BY <1>2, <1>3

\* Seconds and nanoseconds are subtracted apart, and it comes out right.
LEMMA MicrosecondsRight ==
    ASSUME NEW s \in Timespec, NEW e \in Timespec
    PROVE  LET error == Microseconds(s, e) * NSEC_PER_USEC - (Nanoseconds(e) - Nanoseconds(s))
           IN  /\ Microseconds(s, e) \in Int
               /\ -NSEC_PER_USEC < error /\ error < NSEC_PER_USEC
<1> DEFINE sec == e.tv_sec - s.tv_sec
           nsec == e.tv_nsec - s.tv_nsec
           usecs == NSEC_PER_SEC \div NSEC_PER_USEC
           T == Truncate(nsec, NSEC_PER_USEC)
<1>1. /\ s.tv_sec \in Nat /\ s.tv_nsec \in Nat
      /\ e.tv_sec \in Nat /\ e.tv_nsec \in Nat
  BY DEF Timespec
<1>2. sec \in Int /\ nsec \in Int
  BY <1>1
<1>3. usecs \in Nat /\ usecs * NSEC_PER_USEC = NSEC_PER_SEC
  BY SMT
<1>4. T \in Int /\ -NSEC_PER_USEC < T * NSEC_PER_USEC - nsec
               /\ T * NSEC_PER_USEC - nsec < NSEC_PER_USEC
  BY <1>2, TruncateNear
<1>5. Microseconds(s, e) = sec * usecs + T
  BY DEF Microseconds
<1>6. Nanoseconds(e) - Nanoseconds(s) = sec * NSEC_PER_SEC + nsec
  BY <1>1 DEF Nanoseconds
<1> HIDE DEF sec, nsec, usecs, T
<1>7. sec * usecs \in Int /\ sec * NSEC_PER_SEC \in Int /\ T * NSEC_PER_USEC \in Int
  BY <1>2, <1>3, <1>4
<1>8. (sec * usecs) * NSEC_PER_USEC = sec * NSEC_PER_SEC
  <2>1. (sec * usecs) * NSEC_PER_USEC = sec * (usecs * NSEC_PER_USEC)
    BY <1>2, <1>3
  <2> QED
    BY <1>3, <2>1
<1>9. (sec * usecs + T) * NSEC_PER_USEC = sec * NSEC_PER_SEC + T * NSEC_PER_USEC
  <2>1. (sec * usecs + T) * NSEC_PER_USEC
            = (sec * usecs) * NSEC_PER_USEC + T * NSEC_PER_USEC
    BY <1>4, <1>7
  <2> QED
    BY <1>8, <2>1
<1> QED
  BY <1>2, <1>4, <1>5, <1>6, <1>7, <1>9

\* Of two successive multiples of the period.
LEMMA SpanStep ==
    ASSUME NEW n \in Nat
    PROVE  /\ Span(n) \in Nat
           /\ Span(n + 1) = Span(n) + Period * NSEC_PER_USEC
<1>1. Period * NSEC_PER_USEC \in Nat
  BY ProductType
<1>2. n * Period * NSEC_PER_USEC = n * (Period * NSEC_PER_USEC)
  BY SMT
<1>3. (n + 1) * Period * NSEC_PER_USEC = (n + 1) * (Period * NSEC_PER_USEC)
  BY SMT
<1> DEFINE p == Period * NSEC_PER_USEC
<1>4. Span(n) = n * p /\ Span(n + 1) = (n + 1) * p
  BY <1>2, <1>3 DEF Span
<1> HIDE DEF p
<1>5. (n + 1) * p = n * p + p /\ n * p \in Nat
  BY <1>1, ProductType, SMT DEF p
<1> QED
  BY <1>4, <1>5 DEF p

(***************************************************************************)
(* The inductive invariant: a wait that ended did so at its release, and   *)
(* unless it is set the clock does not go back, so the send after it is no *)
(* earlier.                                                                *)
(***************************************************************************)
AfterRelease ==
    phase # "start" /\ activations > 0 /\ steady => now >= origin + Span(activations - 1)

GridInv ==
    /\ TimerTypeOK
    /\ phase = "start" => activations = 0
    /\ ReleasesOnGrid /\ AfterRelease /\ NeverEarly

LEMMA GridInit == TimerInit => GridInv
<1>1. ToTimespec(0) \in Timespec
  BY ClockRoundTrip
<1>2. TimerInit => TimerTypeOK
  <2> SUFFICES ASSUME TimerInit PROVE TimerTypeOK
    OBVIOUS
  <2>1. r \in Timespec /\ start \in Timespec /\ end \in Timespec
    BY <1>1 DEF TimerInit
  <2>2. now \in 0 .. Horizon /\ sentAt \in 0 .. Horizon
    BY DEF TimerInit
  <2>3. activations \in 0 .. MaxActivations /\ cycle_time \in Int /\ origin \in Nat
    BY DEF TimerInit
  <2>4. steady \in BOOLEAN
    BY DEF TimerInit
  <2> QED
    BY <2>1, <2>2, <2>3, <2>4 DEF TimerInit, TimerTypeOK
<1>3. TimerInit => phase = "start" /\ activations = 0
  BY DEF TimerInit
<1> QED
  BY <1>2, <1>3 DEF GridInv, ReleasesOnGrid, AfterRelease, NeverEarly

\* The clock's own steps disturb no release.
LEMMA ClockKeepsGrid == ASSUME GridInv, Tick \/ SetClock PROVE GridInv'
<1> USE DEF GridInv, TimerTypeOK, ReleasesOnGrid, AfterRelease, NeverEarly
<1>1. activations > 0 => Span(activations - 1) \in Nat
  BY SpanStep
<1>2. CASE Tick
  BY <1>1, <1>2 DEF Tick
<1>3. CASE SetClock
  BY <1>1, <1>3 DEF SetClock
<1> QED
  BY <1>2, <1>3

LEMMA GridStep == GridInv /\ [TimerNext]_timerVars => GridInv'
<1> SUFFICES ASSUME GridInv, [TimerNext]_timerVars PROVE GridInv'
  OBVIOUS
<1> USE DEF GridInv, TimerTypeOK, ReleasesOnGrid, AfterRelease, NeverEarly
<1>0. /\ now \in Nat /\ ToTimespec(now) \in Timespec
      /\ Nanoseconds(ToTimespec(now)) = now
  BY ClockRoundTrip
<1>1. CASE start_periodic_timer
  <2>1. r' \in Timespec /\ Nanoseconds(r') = now + Offset * NSEC_PER_USEC
    BY <1>0, <1>1, AddMicroseconds DEF start_periodic_timer
  <2>2. Span(0) = 0 /\ Offset * NSEC_PER_USEC \in Nat
    BY ProductType, SMT DEF Span
  <2>3. activations' = 0 /\ origin' = now + Offset * NSEC_PER_USEC
        /\ phase' = "send" /\ steady' = TRUE
        /\ UNCHANGED <<now, sentAt, start, end, cycle_time>>
    BY <1>1 DEF start_periodic_timer
  <2> QED
    BY <2>1, <2>2, <2>3
<1>2. CASE Send
  BY <1>2 DEF Send
<1>3. CASE StampStart \/ Receive
  BY <1>0, <1>3 DEF StampStart, Receive
<1>4. CASE StampEnd
  <2>1. Microseconds(start, ToTimespec(now)) \in Int
    BY <1>0, MicrosecondsRight
  <2> QED
    BY <1>0, <1>4, <2>1 DEF StampEnd
<1>5. CASE wait_next_activation
  <2>1. /\ phase = "wait" /\ phase' = "send" /\ activations' = activations + 1
        /\ activations < MaxActivations /\ now >= Nanoseconds(r) /\ steady' = TRUE
        /\ UNCHANGED <<now, origin, sentAt, start, end, cycle_time>>
    BY <1>5 DEF wait_next_activation
  <2>2. r' \in Timespec /\ Nanoseconds(r') = Nanoseconds(r) + Period * NSEC_PER_USEC
    BY <1>5, AddMicroseconds DEF wait_next_activation
  <2>3. Span(activations + 1) = Span(activations) + Period * NSEC_PER_USEC
        /\ Span(activations) \in Nat /\ Period * NSEC_PER_USEC \in Nat
    BY SpanStep, ProductType
  <2>4. Nanoseconds(r) = origin + Span(activations)
    BY <2>1
  <2>5. Nanoseconds(r') = origin + Span(activations')
    BY <2>1, <2>2, <2>3, <2>4
  <2>6. activations' - 1 = activations /\ activations' \in 0 .. MaxActivations
    BY <2>1
  <2> QED
    BY <2>1, <2>2, <2>4, <2>5, <2>6
<1>6. CASE Tick \/ SetClock
  BY <1>6, ClockKeepsGrid
<1>7. CASE UNCHANGED timerVars
  BY <1>7 DEF timerVars
<1> QED
  BY <1>1, <1>2, <1>3, <1>4, <1>5, <1>6, <1>7 DEF TimerNext

\* Timespecs stay normalised, whatever the units, the offset and the period.
THEOREM TypeCorrect == TimerSpec => []TimerTypeOK
<1>1. GridInv => TimerTypeOK
  BY DEF GridInv
<1> QED
  BY <1>1, GridInit, GridStep, PTL DEF TimerSpec

\* The releases never drift from the grid, whatever the replies take and
\* however the clock is set.
THEOREM NoDrift == TimerSpec => []ReleasesOnGrid
<1>1. GridInv => ReleasesOnGrid
  BY DEF GridInv
<1> QED
  BY <1>1, GridInit, GridStep, PTL DEF TimerSpec

\* By a clock that is not set, no sample leaves before its release.
THEOREM NoSampleEarly == TimerSpec => []NeverEarly
<1>1. GridInv => NeverEarly
  BY DEF GridInv
<1> QED
  BY <1>1, GridInit, GridStep, PTL DEF TimerSpec
-----------------------------------------------------------------------------
\* What is filed was computed from the two stamps.
FiledFromStamps == phase = "wait" => cycle_time = Microseconds(start, end)

LEMMA FiledStep == FiledFromStamps /\ [TimerNext]_timerVars => FiledFromStamps'
BY DEF FiledFromStamps, TimerNext, timerVars, start_periodic_timer, Send, StampStart,
       Receive, StampEnd, wait_next_activation, Tick, SetClock

\* The time filed for a cycle is within a microsecond of the one between its
\* stamps, for every pair of stamps, whether the clock was set or not.
THEOREM TimesAreRight == TimerSpec => []MeasuredWithinOneMicrosecond
<1>1. TimerInit => FiledFromStamps
  BY DEF TimerInit, FiledFromStamps
<1>2. TimerTypeOK /\ FiledFromStamps => MeasuredWithinOneMicrosecond
  BY MicrosecondsRight DEF TimerTypeOK, FiledFromStamps, MeasuredWithinOneMicrosecond
<1> QED
  BY <1>1, <1>2, FiledStep, TypeCorrect, PTL DEF TimerSpec
-----------------------------------------------------------------------------
(***************************************************************************)
(* The loaders and the start.                                              *)
(***************************************************************************)
USE LoaderAssumption, StartupAssumption

startVars == <<server, pc, loaded, count, sockets>>
-----------------------------------------------------------------------------
(***************************************************************************)
(* Arithmetic, and the largest element of a bounded set of numbers: what   *)
(* the reference definition of the loaders' result is made of.             *)
(***************************************************************************)
LEMMA Largest ==
    ASSUME NEW T, T \subseteq Nat, T # {}, NEW b \in Nat, \A x \in T : x <= b
    PROVE  Max(T) \in T /\ \A x \in T : x <= Max(T)
<1> DEFINE D == {b - x : x \in T}
<1>1. \A x \in T : b - x \in Nat
  OBVIOUS
<1>2. D \subseteq Nat /\ D # {}
  <2>1. PICK t \in T : TRUE
    OBVIOUS
  <2>2. b - t \in D
    OBVIOUS
  <2> QED
    BY <1>1, <2>2, Zenon
<1>3. PICK d \in D : \A y \in D : <<y, d>> \notin OpToRel(<, Nat)
  BY <1>2, NatLessThanWellFounded, WFMin
<1>4. PICK m \in T : d = b - m
  OBVIOUS
<1>5. \A x \in T : x <= m
  <2> SUFFICES ASSUME NEW x \in T PROVE x <= m
    OBVIOUS
  <2>1. b - x \in D /\ b - x \in Nat /\ d \in Nat
    BY <1>1, <1>2
  <2>2. ~(b - x < d)
    BY <1>3, <2>1 DEF OpToRel
  <2> QED
    BY <1>4, <2>2
<1>6. \E x \in T : \A y \in T : x >= y
  BY <1>5
<1> QED
  BY <1>6 DEF Max

\* Dividing by the width of a row.
LEMMA RowsOf ==
    ASSUME NEW n \in Nat, NEW m \in Nat, NEW w \in Nat \ {0}
    PROVE  /\ n >= m * w => n \div w >= m
           /\ n >= m * w /\ n < m * w + w => n \div w = m
<1> DEFINE q == n \div w
<1>1. q \in Nat /\ n >= w * q /\ n < w * q + w
  BY SMT
<1>2. ASSUME n >= m * w, q < m PROVE FALSE
  <2>1. m - (q + 1) \in Nat
    BY <1>1, <1>2
  <2>2. w * (m - (q + 1)) >= 0
    BY <2>1, SMT
  <2>3. w * m = w * q + w + w * (m - (q + 1))
    BY <1>1, SMT
  <2>4. w * m = m * w /\ w * q \in Nat /\ w * m \in Nat /\ w * (m - (q + 1)) \in Int
    BY <1>1, <2>1, SMT
  <2> HIDE DEF q
  <2> QED
    BY <1>1, <1>2, <2>2, <2>3, <2>4, SMT
<1>3. ASSUME n < m * w + w, q > m PROVE FALSE
  <2>1. q - (m + 1) \in Nat
    BY <1>1, <1>3
  <2>2. w * (q - (m + 1)) >= 0
    BY <2>1, SMT
  <2>3. w * q = w * m + w + w * (q - (m + 1))
    BY <1>1, SMT
  <2>4. w * m = m * w /\ w * q \in Nat /\ w * m \in Nat /\ w * (q - (m + 1)) \in Int
    BY <1>1, <2>1, SMT
  <2> HIDE DEF q
  <2> QED
    BY <1>1, <1>3, <2>2, <2>3, <2>4, SMT
<1> HIDE DEF q
<1>4. (n >= m * w => q >= m) /\ (n < m * w + w => q <= m)
  BY <1>1, <1>2, <1>3
<1> QED
  BY <1>1, <1>4 DEF q

LEMMA SmallerOf ==
    ASSUME NEW a \in Int, NEW b \in Int
    PROVE  Min({a, b}) = IF a <= b THEN a ELSE b
<1>1. \E x \in {a, b} : \A y \in {a, b} : x =< y
  OBVIOUS
<1> QED
  BY <1>1 DEF Min
-----------------------------------------------------------------------------
(***************************************************************************)
(* The loaders.  So far every number read is in its place; a row in which  *)
(* a call of fscanf has failed stays short, because the calls after it     *)
(* fail as well and the sum of their results is too small.                 *)
(***************************************************************************)
LoaderTypes ==
    /\ loader \in {"idle", "running", "returned"}
    /\ pos \in Nat /\ row \in 0 .. MAX_ELEMENTS /\ col \in Nat /\ items_read \in Int
    /\ loader = "idle" => pos = 0 /\ row = 0 /\ col = 0 /\ items_read = 0
    /\ loader # "idle" =>
         /\ cols \in Nat \ {0} /\ col <= cols
         /\ data \in [(0 .. MAX_ELEMENTS - 1) \X (0 .. cols - 1) -> Nat]
         /\ ~Missing => file \in Seq(Token) /\ pos <= Len(file)
         /\ Missing => pos = 0 /\ row = 0 /\ col = 0 /\ items_read = 0

NumbersSoFar == loader # "idle" /\ ~Missing => \A k \in 1 .. pos : file[k] = "number"

\* Every call of the running row has read a number.
WholeSoFar ==
    /\ items_read = col /\ pos = row * cols + col
    /\ row = MAX_ELEMENTS => col = 0
    /\ \A c \in 0 .. col - 1 : data[<<row, c>>] = row * cols + c + 1

\* One has failed.
Broken ==
    /\ items_read < col /\ row < MAX_ELEMENTS
    /\ row * cols <= pos /\ pos < row * cols + cols
    /\ NoNumberNext

RowInv == loader = "running" /\ ~Missing => WholeSoFar \/ Broken

LoaderInv == LoaderTypes /\ NumbersSoFar /\ RowInv /\ RowsInPlace /\ CountsCompleteRows

LEMMA CallKeeps ==
    ASSUME LoaderInv, NEW columns \in Nat \ {0}, Call(columns)
    PROVE  LoaderInv'
<1>1. loader = "idle" /\ pos = 0 /\ row = 0 /\ col = 0 /\ items_read = 0
  BY DEF LoaderInv, LoaderTypes, Call
<1>2. Missing' \/ file' \in Seq(Token)
  BY DEF Call, BoundedSeq, SeqOf, Missing
<1>3. ~Missing' => pos' <= Len(file')
  BY <1>1, <1>2 DEF Call
<1>4. data' \in [(0 .. MAX_ELEMENTS - 1) \X (0 .. cols' - 1) -> Nat]
  BY DEF Call
<1>5. LoaderTypes'
  BY <1>1, <1>2, <1>3, <1>4 DEF LoaderTypes, Call
<1>6. WholeSoFar'
  <2>1. row' * cols' = 0
    BY <1>1, SMT DEF Call
  <2> QED
    BY <1>1, <2>1 DEF WholeSoFar, Call
<1> QED
  BY <1>1, <1>5, <1>6
  DEF LoaderInv, NumbersSoFar, RowInv, RowsInPlace, CountsCompleteRows, Call

LEMMA ForgetKeeps == ASSUME LoaderInv, Forget PROVE LoaderInv'
BY DEF LoaderInv, LoaderTypes, NumbersSoFar, RowInv, RowsInPlace, CountsCompleteRows,
       Forget

\* The numbers at the head of the file: at least those read, and no more when
\* the next token is none.
LEMMA HeadOf ==
    ASSUME LoaderTypes, NumbersSoFar, loader = "running", ~Missing
    PROVE  /\ LeadingNumbers \in Nat /\ LeadingNumbers >= pos
           /\ NoNumberNext => LeadingNumbers = pos
<1> DEFINE T == {0} \cup {n \in DOMAIN file : \A k \in 1 .. n : file[k] = "number"}
<1>1. file \in Seq(Token) /\ pos \in Nat /\ pos <= Len(file)
  BY DEF LoaderTypes
<1>2. /\ T \subseteq Nat /\ T # {} /\ Len(file) \in Nat
      /\ \A x \in T : x <= Len(file)
  BY <1>1
<1>3. LeadingNumbers \in T /\ \A x \in T : x <= LeadingNumbers
  BY <1>2, Largest DEF LeadingNumbers
<1>4. pos \in T
  BY <1>1 DEF NumbersSoFar
<1>5. ASSUME NoNumberNext PROVE \A x \in T : x <= pos
  <2> SUFFICES ASSUME NEW x \in T, x > pos PROVE FALSE
    BY <1>1, <1>2
  <2>1. x \in DOMAIN file /\ file[pos + 1] = "number" /\ pos < Len(file)
    BY <1>1
  <2> QED
    BY <1>5, <2>1 DEF NoNumberNext
<1> QED
  BY <1>1, <1>2, <1>3, <1>4, <1>5

LEMMA LoaderKeeps == ASSUME LoaderInv, LoaderNext PROVE LoaderInv'
<1>1. loader = "running" /\ LoaderTypes /\ NumbersSoFar /\ RowInv /\ RowsInPlace
  BY DEF LoaderInv, LoaderNext, OpenFails, ArrayFull, BreakOff, KeepRow, ScanFails,
         ScanNumber, RowRead, InRow, Return
<1> USE <1>1
<1>2. cols \in Nat \ {0} /\ row \in Nat /\ row * cols \in Nat /\ pos \in Nat
  BY SMT DEF LoaderTypes
<1> USE <1>2
<1>3. CASE OpenFails
  BY <1>3
  DEF OpenFails, Return, Missing, LoaderInv, LoaderTypes, NumbersSoFar, RowInv,
      RowsInPlace, CountsCompleteRows
<1>4. CASE ScanNumber
  <2>1. /\ pos' = pos + 1 /\ col' = col + 1 /\ items_read' = items_read + 1
        /\ UNCHANGED <<file, cols, row, loader, result>>
        /\ ~Missing /\ row < MAX_ELEMENTS /\ col < cols
        /\ pos < Len(file) /\ file[pos + 1] = "number"
    BY <1>4 DEF ScanNumber, InRow, NoNumberNext
  <2>2. WholeSoFar
    BY <2>1 DEF RowInv, Broken, NoNumberNext
  <2>3. /\ <<row, col>> \in (0 .. MAX_ELEMENTS - 1) \X (0 .. cols - 1)
        /\ data' = [data EXCEPT ![<<row, col>>] = pos + 1]
    BY <1>4, <2>1 DEF ScanNumber, LoaderTypes
  <2>4. LoaderTypes'
    BY <2>1, <2>3 DEF LoaderTypes, Missing
  <2>5. NumbersSoFar'
    BY <2>1 DEF NumbersSoFar, Missing
  <2>6. RowsInPlace'
    <3> SUFFICES ASSUME NEW k \in 0 .. row' - 1, NEW c \in 0 .. cols' - 1
                 PROVE  data'[<<k, c>>] = k * cols' + c + 1
      BY Zenon DEF RowsInPlace
    <3>1. cols' = cols /\ k \in 0 .. row - 1 /\ c \in 0 .. cols - 1
      BY <2>1
    <3>2. data'[<<k, c>>] = data[<<k, c>>]
      BY <2>1, <2>3, <3>1 DEF LoaderTypes
    <3>3. data[<<k, c>>] = k * cols + c + 1
      BY <3>1, Zenon DEF RowsInPlace
    <3> QED
      BY <3>1, <3>2, <3>3, Zenon
  <2>7. WholeSoFar'
    <3>1. items_read' = col' /\ pos' = row' * cols' + col' /\ row' # MAX_ELEMENTS
      BY <2>1, <2>2 DEF WholeSoFar, LoaderTypes
    <3>2. ASSUME NEW c \in 0 .. col' - 1
          PROVE  data'[<<row', c>>] = row' * cols' + c + 1
      <4>1. CASE c = col
        <5>1. data'[<<row, col>>] = pos + 1
          BY <2>3 DEF LoaderTypes
        <5> QED
          BY <4>1, <5>1, <2>1, <2>2 DEF WholeSoFar, LoaderTypes
      <4>2. CASE c < col
        <5>1. <<row, c>> # <<row, col>> /\ <<row, c>> \in DOMAIN data
          BY <4>2, <2>1, <3>2 DEF LoaderTypes
        <5>2. data'[<<row, c>>] = data[<<row, c>>]
          BY <5>1, <2>3 DEF LoaderTypes
        <5>3. c \in 0 .. col - 1
          BY <4>2, <3>2, <2>1 DEF LoaderTypes
        <5> QED
          BY <5>2, <5>3, <2>1, <2>2 DEF WholeSoFar
      <4> QED
        BY <3>2, <4>1, <4>2, <2>1 DEF LoaderTypes
    <3> QED
      BY <3>1, <3>2 DEF WholeSoFar
  <2> QED
    BY <2>1, <2>4, <2>5, <2>6, <2>7 DEF LoaderInv, RowInv, CountsCompleteRows
<1>5. CASE ScanFails
  <2>1. /\ col' = col + 1 /\ items_read' <= items_read /\ items_read' \in Int
        /\ UNCHANGED <<file, cols, pos, row, data, loader, result>>
        /\ ~Missing /\ row < MAX_ELEMENTS /\ col < cols /\ NoNumberNext
    BY <1>5 DEF ScanFails, InRow, EOF, LoaderTypes
  <2>2. LoaderTypes' /\ NumbersSoFar' /\ RowsInPlace'
    BY <2>1 DEF LoaderTypes, NumbersSoFar, RowsInPlace, Missing
  <2>3. NoNumberNext'
    BY <2>1 DEF NoNumberNext
  <2>4. items_read <= col
    BY <2>1 DEF RowInv, WholeSoFar, Broken, LoaderTypes
  <2>5. row * cols <= pos /\ pos < row * cols + cols
    BY <2>1 DEF RowInv, WholeSoFar, Broken, LoaderTypes
  <2>6. Broken'
    BY <2>1, <2>3, <2>4, <2>5 DEF Broken, LoaderTypes
  <2> QED
    BY <2>1, <2>2, <2>6 DEF LoaderInv, RowInv, CountsCompleteRows
<1>6. CASE KeepRow
  <2>1. /\ row' = row + 1 /\ col' = 0 /\ items_read' = 0
        /\ UNCHANGED <<file, cols, pos, data, loader, result>>
        /\ ~Missing /\ row < MAX_ELEMENTS /\ col = cols /\ items_read = cols
    BY <1>6 DEF KeepRow, RowRead
  <2>2. WholeSoFar
    BY <2>1 DEF RowInv, Broken
  <2>3. LoaderTypes' /\ NumbersSoFar'
    BY <2>1 DEF LoaderTypes, NumbersSoFar, Missing
  <2>4. RowsInPlace'
    <3> SUFFICES ASSUME NEW k \in 0 .. row' - 1, NEW c \in 0 .. cols' - 1
                 PROVE  data'[<<k, c>>] = k * cols' + c + 1
      BY DEF RowsInPlace
    <3>1. CASE k = row
      <4>1. c \in 0 .. col - 1
        BY <2>1
      <4>2. data[<<row, c>>] = row * cols + c + 1
        BY <2>2, <4>1 DEF WholeSoFar
      <4> QED
        BY <2>1, <3>1, <4>2
    <3>2. CASE k # row
      <4>1. k \in 0 .. row - 1 /\ c \in 0 .. cols - 1
        BY <2>1, <3>2
      <4>2. data[<<k, c>>] = k * cols + c + 1
        BY <4>1 DEF RowsInPlace
      <4> QED
        BY <2>1, <4>2
    <3> QED
      BY <3>1, <3>2
  <2>5. row' * cols' = row * cols + cols
    BY <2>1, SMT
  <2>6. WholeSoFar'
    BY <2>1, <2>2, <2>5 DEF WholeSoFar
  <2> QED
    BY <2>1, <2>3, <2>4, <2>6 DEF LoaderInv, RowInv, CountsCompleteRows
<1>7. CASE BreakOff \/ ArrayFull
  <2>1. /\ ~Missing /\ result' = row /\ loader' = "returned"
        /\ UNCHANGED <<file, cols, pos, row, col, items_read, data>>
    BY <1>7 DEF BreakOff, ArrayFull, RowRead, Return
  <2>2. LoaderTypes' /\ NumbersSoFar' /\ RowsInPlace'
    BY <2>1 DEF LoaderTypes, NumbersSoFar, RowsInPlace, Missing
  <2>3. Min({MAX_ELEMENTS, LeadingNumbers \div cols}) = row
    <3> DEFINE L == LeadingNumbers
    <3>1. L \in Nat /\ L >= pos /\ (NoNumberNext => L = pos)
      BY <2>1, HeadOf
    <3> HIDE DEF L
    <3>2. L \div cols \in Int
      BY <3>1, SMT
    <3>3. CASE BreakOff
      <4>1. Broken
        BY <2>1, <3>3 DEF BreakOff, RowRead, RowInv, WholeSoFar
      <4>2. L \div cols = row
        BY <3>1, <4>1, RowsOf DEF Broken
      <4> QED
        BY <3>2, <4>1, <4>2, SmallerOf DEF L, Broken
    <3>4. CASE ArrayFull
      <4>1. row = MAX_ELEMENTS
        BY <3>4 DEF ArrayFull
      <4>2. pos >= row * cols
        BY <2>1, <4>1 DEF RowInv, WholeSoFar, Broken
      <4>3. L \div cols >= row
        BY <3>1, <4>2, RowsOf
      <4> QED
        BY <3>2, <4>1, <4>3, SmallerOf DEF L
    <3> QED
      BY <1>7, <3>3, <3>4
  <2>4. CountsCompleteRows'
    BY <2>1, <2>3 DEF CountsCompleteRows, Missing, LeadingNumbers
  <2> QED
    BY <2>1, <2>2, <2>4 DEF LoaderInv, RowInv
<1> QED
  BY <1>3, <1>4, <1>5, <1>6, <1>7 DEF LoaderNext

-----------------------------------------------------------------------------
(***************************************************************************)
(* The servers that call them.                                             *)
(***************************************************************************)
StartTypes ==
    /\ server \in Servers
    /\ loaded \in Nat
    /\ pc \in {"load", "sendSocket", "recvSocket", "bind", "loop", "failed", "done"}
    /\ sockets \in [Descriptors -> {"none", "open", "closed"}]

\* How far the start has come, by the state of the two descriptors.
SocketsMatch ==
    /\ pc \in {"load", "sendSocket"} => \A d \in Descriptors : sockets[d] = "none"
    /\ pc = "recvSocket" =>
         sockets["send_sockfd"] = "open" /\ sockets["recv_sockfd"] = "none"
    /\ pc \in {"bind", "loop"} => \A d \in Descriptors : sockets[d] = "open"
    /\ pc \in {"failed", "done"} => \A d \in Descriptors : sockets[d] # "open"

\* A loader is at work only as long as there are recordings to load.
LoadsWhileLoading == loader # "idle" => pc = "load" /\ loaded < Len(Files(server))

StartInv == LoaderInv /\ StartTypes /\ SocketsMatch /\ LoadsWhileLoading

LEMMA StartInit == Init => StartInv
BY DEF Init, LoaderIdle, StartInv, LoaderInv, LoaderTypes, NumbersSoFar, RowInv,
       RowsInPlace, CountsCompleteRows, StartTypes, SocketsMatch, LoadsWhileLoading, Descriptors

LEMMA LoaderStep == StartInv /\ [Next]_vars => LoaderInv'
<1> SUFFICES ASSUME StartInv, [Next]_vars PROVE LoaderInv'
  OBVIOUS
<1>1. LoaderInv /\ StartTypes
  BY DEF StartInv
<1>2. CASE LoadFile
  <2> DEFINE f == Files(server)[loaded + 1]
  <2>1. f \in ToSet(Files(server))
    BY <1>1, <1>2 DEF LoadFile, StartTypes, ToSet
  <2>2. Columns(f) \in Nat \ {0} /\ Call(Columns(f))
    BY <1>1, <1>2, <2>1 DEF LoadFile, StartTypes
  <2> QED
    BY <1>1, <2>2, CallKeeps
<1>3. CASE Load
  BY <1>1, <1>3, LoaderKeeps DEF Load
<1>4. CASE KeepCount
  BY <1>1, <1>4, ForgetKeeps DEF KeepCount
<1>5. CASE UNCHANGED loaderVars
  BY <1>1, <1>5
  DEF loaderVars, LoaderInv, LoaderTypes, NumbersSoFar, RowInv, RowsInPlace,
      CountsCompleteRows, WholeSoFar, Broken, NoNumberNext, Missing, LeadingNumbers
<1> QED
  BY <1>2, <1>3, <1>4, <1>5
  DEF Next, vars, CompareLengths, OpenSendSocket, SendSocketFails, OpenRecvSocket,
      RecvSocketFails, Bind, BindFails, Finish

LEMMA StartStep == StartInv /\ [Next]_vars => StartInv'
<1> SUFFICES ASSUME StartInv, [Next]_vars PROVE StartInv'
  OBVIOUS
<1>1. LoaderInv'
  BY LoaderStep
<1>2. StartTypes /\ SocketsMatch /\ LoadsWhileLoading
  BY DEF StartInv
<1> USE <1>2
<1>3. CASE LoadFile
  <2>1. loaded < Len(Files(server)) /\ pc = "load" /\ UNCHANGED startVars
    BY <1>3 DEF LoadFile, startVars
  <2> QED
    BY <1>1, <2>1
    DEF startVars, StartInv, StartTypes, SocketsMatch, LoadsWhileLoading
<1>4. CASE Load
  <2>1. loader # "idle" /\ UNCHANGED startVars
    BY <1>4
    DEF Load, startVars, LoaderNext, OpenFails, ScanNumber, ScanFails, KeepRow, BreakOff,
        ArrayFull, InRow, RowRead, Return
  <2> QED
    BY <1>1, <2>1
    DEF startVars, StartInv, StartTypes, SocketsMatch, LoadsWhileLoading
<1>5. CASE KeepCount
  <2>1. /\ pc = "load" /\ loader' = "idle" /\ loaded' = loaded + 1
        /\ UNCHANGED <<server, pc, sockets>>
    BY <1>5 DEF KeepCount, Forget, LoadsWhileLoading
  <2> QED
    BY <1>1, <2>1 DEF StartInv, StartTypes, SocketsMatch, LoadsWhileLoading
<1>6. CASE CompareLengths
  <2>1. /\ pc = "load" /\ loader = "idle" /\ loader' = "idle"
        /\ UNCHANGED <<server, loaded, count, sockets>>
        /\ pc' = IF LengthsDiffer THEN "failed" ELSE "sendSocket"
    BY <1>6 DEF CompareLengths, loaderVars, LoadsWhileLoading
  <2> QED
    BY <1>1, <2>1 DEF StartInv, StartTypes, SocketsMatch, LoadsWhileLoading
<1>7. CASE \/ OpenSendSocket \/ SendSocketFails \/ OpenRecvSocket \/ RecvSocketFails
           \/ Bind \/ BindFails \/ Finish
  <2>1. loader' = "idle"
    BY <1>7
    DEF OpenSendSocket, SendSocketFails, OpenRecvSocket, RecvSocketFails, Bind,
        BindFails, Finish, loaderVars, LoadsWhileLoading
  <2>2. StartTypes' /\ SocketsMatch'
    BY <1>7
    DEF OpenSendSocket, SendSocketFails, OpenRecvSocket, RecvSocketFails, Bind,
        BindFails, Finish, StartTypes, SocketsMatch, Descriptors
  <2> QED
    BY <1>1, <2>1, <2>2 DEF StartInv, LoadsWhileLoading
<1>8. CASE UNCHANGED vars
  BY <1>1, <1>8
  DEF vars, loaderVars, StartInv, StartTypes, SocketsMatch, LoadsWhileLoading
<1> QED
  BY <1>3, <1>4, <1>5, <1>6, <1>7, <1>8 DEF Next

LEMMA StartAlways == Spec => []StartInv
BY StartInit, StartStep, PTL DEF Spec
-----------------------------------------------------------------------------
\* A loader counts the complete rows of numbers at the head of a recording,
\* whatever it holds.
THEOREM CountsAreRight == Spec => []CountsCompleteRows
<1>1. StartInv => CountsCompleteRows
  BY DEF StartInv, LoaderInv
<1> QED
  BY <1>1, StartAlways, PTL

\* And it has put them into their places.
THEOREM RowsAreRight == Spec => []RowsInPlace
<1>1. StartInv => RowsInPlace
  BY DEF StartInv, LoaderInv
<1> QED
  BY <1>1, StartAlways, PTL

\* Whatever fails, no descriptor is left open.
THEOREM DescriptorsClosed == Spec => []NoDescriptorLeft
<1>1. StartInv => NoDescriptorLeft
  BY DEF StartInv, SocketsMatch, NoDescriptorLeft, Descriptors
<1> QED
  BY <1>1, StartAlways, PTL

\* No descriptor is closed twice or opened again.
THEOREM DescriptorsLive == Spec => DescriptorLifecycle
<1>1. StartInv /\ [Next]_vars =>
        [\A d \in Descriptors :
            sockets'[d] # sockets[d] =>
              <<sockets[d], sockets'[d]>> \in {<<"none", "open">>, <<"open", "closed">>}]_vars
  BY DEF StartInv, StartTypes, SocketsMatch, Descriptors, Next, LoadFile, Load, KeepCount,
         CompareLengths, OpenSendSocket, SendSocketFails, OpenRecvSocket,
         RecvSocketFails, Bind, BindFails, Finish
<1> QED
  BY <1>1, StartAlways, PTL DEF Spec, DescriptorLifecycle
=============================================================================
