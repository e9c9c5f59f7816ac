---------------------------- MODULE HwTestProofs ----------------------------
(***************************************************************************)
(* Proofs about HwTest for every number of lines, warm-up and number of    *)
(* signals, and every counter with more than two values.                   *)
(***************************************************************************)
EXTENDS HwTest, TLAPS

USE MaxCycleAssumption, HwTestAssumption

\* The counter of a check is neither the one before it nor, when that one is
\* 1, the 0 from which the FPGA started.
LEMMA NextByte ==
    ASSUME NEW a \in 0 .. W - 1, W > 2
    PROVE  /\ (a + 1) % W \in 0 .. W - 1
           /\ (a + 1) % W # a
           /\ a = 1 => (a + 1) % W = 2
<1>1. CASE a + 1 < W
  <2>1. (a + 1) % W = a + 1
    BY <1>1, SMT
  <2> QED
    BY <2>1, <1>1
<1>2. CASE a + 1 = W
  <2>1. (a + 1) % W = 0
    BY <1>2, SMT
  <2> QED
    BY <2>1, <1>2
<1> QED
  BY <1>1, <1>2

LEMMA OneIsAByte == W > 2 => 1 % W = 1
BY SMT

\* The state that has integrated nothing, and the next line.
LEMMA UptoZero == Upto(0) = << >>
BY DEF Upto

LEMMA UptoNext == ASSUME NEW n \in Nat PROVE Append(Upto(n), Whole(n + 1)) = Upto(n + 1)
BY DEF Upto

LEMMA WholeType == ASSUME NEW n \in Cycle PROVE Whole(n) \in Sample
BY DEF Whole, Sample
-----------------------------------------------------------------------------
(***************************************************************************)
(* Disabled at the end.                                                    *)
(***************************************************************************)
EndInv == (pc = "start" => ~handlers) /\ LeftDisabled

\* However the test ends, the FPGA is disabled, whatever interrupts it.
THEOREM DisabledAtExit == Spec => []LeftDisabled
<1>1. Init => EndInv
  BY DEF Init, EndInv, LeftDisabled
<1>2. EndInv /\ [Next]_vars => EndInv'
  <2> SUFFICES ASSUME EndInv, [Next]_vars PROVE EndInv'
    OBVIOUS
  <2> USE DEF EndInv, LeftDisabled, testVars, signalVars
  <2>1. CASE Test
    BY <2>1
    DEF Test, Register, Disable, Enable, StartExtremum, ScanLine, ReturnFromMain,
        WriteIvs3, WriteZdot, BumpCounter, ComputeResult, Spin, Mismatch,
        CheckAgain, NextLine, ExitHandler
  <2>2. CASE GiveUp
    BY <2>2 DEF GiveUp
  <2>3. CASE Signal
    <3>1. pc' # "start" /\ handlers' = handlers
      BY <2>3 DEF Signal
    <3>2. CASE pc = "start"
      BY <2>3, <3>1, <3>2 DEF Signal
    <3>3. CASE pc = "exit"
      <4>1. nested'
        BY <2>3, <3>3, Zenon DEF Signal
      <4> QED
        BY <3>1, <4>1
    <3>4. CASE pc \notin {"start", "exit"}
      BY <2>3, <3>1, <3>4 DEF Signal
    <3> QED
      BY <3>2, <3>3, <3>4
  <2>4. CASE FpgaWorks
    BY <2>4 DEF FpgaWorks, testSide
  <2>5. CASE UNCHANGED vars
    BY <2>5 DEF vars
  <2> QED
    BY <2>1, <2>2, <2>3, <2>4, <2>5 DEF Next
<1> QED
  BY <1>1, <1>2, PTL DEF Spec, EndInv
-----------------------------------------------------------------------------
(***************************************************************************)
(* No false alarm.  Between a bump of the counter and the end of its spin  *)
(* the FPGA is at work on that very check, from the state the test had; at *)
(* any other time it rests.  The first check is different: the FPGA may    *)
(* still serve what an earlier run has left, and all that is known of it   *)
(* is that its strategy clears the state.                                  *)
(***************************************************************************)
\* The parts of the type the argument needs.
CheckTypes ==
    /\ line \in 0 .. Lines /\ i \in Nat
    /\ ivs3 \in Cycle /\ zdot \in Cycle /\ u \in Sample
    /\ input_counter \in 0 .. W - 1 /\ inner_counter \in 0 .. W - 1
    /\ seen \in 0 .. W - 1

Preparing == {"start", "disable", "enable", "strategy"}

Between == {"scan", "ivs3", "zdot", "count"}

Checking == {"compute", "spin", "compare"}

\* The test's own computation is the law over the lines before this one,
\* however often the first line is checked.
OwnState ==
    /\ pc \in Preparing => line = 0 /\ i = 0
    /\ pc \in Between \cup Checking =>
         /\ marte_strategy = IF i >= WarmUp THEN 1 ELSE 0
         /\ pc = "scan" => (line = 0 /\ i = 0) \/ i > WarmUp
         /\ pc # "scan" => line > 0 /\ (i <= WarmUp => line = 1)
    /\ pc = "scan" => x_soft = Upto(line)
    /\ pc \in {"ivs3", "zdot", "count", "compute"} => x_soft = Upto(line - 1)
    /\ pc \in {"spin", "compare"} =>
         /\ computed = Recorded(line)
         /\ x_soft = IF i >= WarmUp THEN Upto(line) ELSE << >>

\* The page holds the line under test.
SampleStored ==
    /\ pc \in {"zdot", "count", "compute", "spin", "compare"} => ivs3 = line
    /\ pc \in {"count", "compute", "spin", "compare"} => zdot = line

Rests == fpga = "poll" /\ inner_counter = input_counter

\* The first check starts on an FPGA that may be behind by one counter.
FirstCheck ==
    i = 0 =>
      /\ pc \in Preparing \cup Between =>
           /\ input_counter \in {0, 1} /\ inner_counter \in {0, input_counter}
           /\ fpga # "poll" => inner_counter = 0 /\ input_counter = 1 /\ seen = 1
      /\ pc \in {"compute", "spin"} /\ fpga # "poll" => inner_counter # input_counter
      /\ pc = "compare" => Rests

\* Whoever serves the first check resets the state.
FirstReset ==
    i = 0 /\ pc \in Checking =>
      /\ fpga = "read" /\ seen = input_counter /\ "strategy" \in got => strategy = 0
      /\ fpga = "publish" /\ seen = input_counter => x_old = << >>
      /\ fpga = "poll" /\ inner_counter = input_counter => x_old = << >>

\* What the FPGA has read belongs to the check.
OnCheck ==
    /\ "ivs3" \in got => u.ivs3 = line
    /\ "zdot" \in got => u.zdot = line
    /\ "strategy" \in got => strategy = marte_strategy

Pending ==
    /\ inner_counter # input_counter
    /\ fpga = "poll" \/ (fpga = "read" /\ seen = input_counter /\ OnCheck)

Finished ==
    \/ fpga = "publish" /\ seen = input_counter /\ inner_counter # input_counter
    \/ Rests

\* result and state are the law's, from x on the line under test.
FromState(x, result, state) ==
    /\ result = ClassicOutput(x, Whole(line))
    /\ state = ClassicState(x, Whole(line), marte_strategy)

LaterChecks ==
    i > 0 =>
      /\ pc \notin Preparing
      /\ pc \in Between => Rests /\ x_old = x_soft
      /\ pc = "compute" =>
           \/ Pending /\ x_old = x_soft
           \/ Finished /\ FromState(x_soft, classic_output, x_old)
      /\ pc = "spin" =>
           \/ Pending /\ FromState(x_old, computed, x_soft)
           \/ Finished /\ Agrees
      /\ pc = "compare" => Rests /\ Agrees

CheckInv ==
    /\ CheckTypes /\ OwnState /\ SampleStored
    /\ FirstCheck /\ FirstReset /\ LaterChecks

LEMMA CheckInit == W > 2 /\ Init => CheckInv
BY OneIsAByte, WholeType
DEF Init, FpgaIdle, CheckInv, CheckTypes, OwnState, SampleStored, FirstCheck,
    FirstReset, LaterChecks, Preparing, Between, Checking, Cycle

\* The test's own computation, step by step.
LEMMA OwnStep == ASSUME CheckTypes, OwnState, Test PROVE OwnState'
<1> USE DEF CheckTypes, OwnState, Preparing, Between, Checking, testVars, signalVars,
        pageInputs
<1>1. CASE Register \/ Disable \/ Enable
  BY <1>1 DEF Register, Disable, Enable
<1>2. CASE StartExtremum
  BY <1>2, UptoZero DEF StartExtremum
<1>3. CASE ScanLine
  <2>1. line + 1 > 0 /\ (line + 1) - 1 = line
    OBVIOUS
  <2> QED
    BY <1>3, <2>1 DEF ScanLine
<1>4. CASE ReturnFromMain \/ Mismatch \/ ExitHandler
  BY <1>4 DEF ReturnFromMain, Mismatch, ExitHandler
<1>5. CASE WriteIvs3 \/ WriteZdot \/ BumpCounter \/ Spin
  BY <1>5 DEF WriteIvs3, WriteZdot, BumpCounter, Spin
<1>6. CASE ComputeResult
  <2>1. computed' = Recorded(line)
    BY <1>6 DEF ComputeResult, Recorded
  <2>2. Append(Upto(line - 1), Whole(line)) = Upto(line)
    <3>1. PICK n \in Nat : n + 1 = line /\ n = line - 1
      BY <1>6 DEF ComputeResult
    <3>2. Append(Upto(n), Whole(n + 1)) = Upto(n + 1)
      BY UptoNext
    <3> QED
      BY <3>1, <3>2
  <2>3. x_soft' = IF i >= WarmUp THEN Upto(line) ELSE << >>
    <3>1. /\ x_soft' = ClassicState(x_soft, Whole(line), marte_strategy)
          /\ x_soft = Upto(line - 1)
          /\ marte_strategy = IF i >= WarmUp THEN 1 ELSE 0
      BY <1>6 DEF ComputeResult
    <3>2. CASE i >= WarmUp
      BY <2>2, <3>1, <3>2 DEF ClassicState
    <3>3. CASE ~(i >= WarmUp)
      BY <3>1, <3>3 DEF ClassicState
    <3> QED
      BY <3>2, <3>3
  <2> QED
    BY <1>6, <2>1, <2>3 DEF ComputeResult
<1>7. CASE CheckAgain
  <2>1. x_soft = Upto(line - 1) /\ line = 1
    BY <1>7, UptoZero DEF CheckAgain
  <2> QED
    BY <1>7, <2>1 DEF CheckAgain
<1>8. CASE NextLine
  BY <1>8 DEF NextLine
<1> QED
  BY <1>1, <1>2, <1>3, <1>4, <1>5, <1>6, <1>7, <1>8 DEF Test

\* The test's own steps.
LEMMA CheckTest == ASSUME W > 2, CheckInv, Test PROVE CheckInv'
<1> USE DEF CheckInv, CheckTypes, Preparing, Between, testVars, signalVars,
        pageInputs, fpgaSide, fpgaVars
<1> USE DEF SampleStored, FirstCheck, FirstReset, Checking, LaterChecks, Rests
<1>0. OwnState'
  BY OwnStep
<1>1. CASE Register \/ Disable \/ Enable \/ StartExtremum
  BY <1>0, <1>1 DEF Register, Disable, Enable, StartExtremum
<1>2. CASE ScanLine
  <2>1. line + 1 \in 0 .. Lines
    BY <1>2 DEF ScanLine, Cycle
  <2> QED
    BY <1>0, <1>2, <2>1 DEF ScanLine
<1>3. CASE ReturnFromMain \/ Mismatch \/ ExitHandler
  BY <1>0, <1>3 DEF ReturnFromMain, Mismatch, ExitHandler
<1>4. CASE WriteIvs3
  BY <1>0, <1>4 DEF WriteIvs3, Cycle
<1>5. CASE WriteZdot
  BY <1>0, <1>5 DEF WriteZdot, Cycle
<1>6. CASE BumpCounter
  <2>1. /\ input_counter' \in 0 .. W - 1 /\ input_counter' # input_counter
        /\ input_counter = 1 => input_counter' = 2
    BY <1>6, NextByte DEF BumpCounter
  <2>2. i > 0 => Pending' /\ x_old' = x_soft'
    BY <1>6, <2>1 DEF BumpCounter, Pending
  <2>3. i = 0 /\ fpga # "poll" => inner_counter' # input_counter'
    BY <1>6, <2>1 DEF BumpCounter
  <2> QED
    BY <1>0, <1>6, <2>1, <2>2, <2>3 DEF BumpCounter
<1>7. CASE ComputeResult
  <2>1. i > 0 => \/ Pending' /\ FromState(x_old, computed, x_soft)'
                 \/ Finished' /\ Agrees'
    <3> SUFFICES ASSUME i > 0
                 PROVE  \/ Pending' /\ FromState(x_old, computed, x_soft)'
                        \/ Finished' /\ Agrees'
      OBVIOUS
    <3>1. CASE Pending /\ x_old = x_soft
      BY <1>7, <3>1 DEF ComputeResult, Pending, OnCheck, FromState
    <3>2. CASE Finished /\ FromState(x_soft, classic_output, x_old)
      BY <1>7, <3>2 DEF ComputeResult, Finished, FromState, Agrees
    <3> QED
      BY <1>7, <3>1, <3>2 DEF ComputeResult
  <2> QED
    BY <1>0, <1>7, <2>1 DEF ComputeResult
<1>8. CASE Spin
  <2>1. i > 0 => Rests /\ Agrees
    BY <1>8 DEF Spin, Pending, Finished
  <2>2. i = 0 => Rests
    BY <1>8 DEF Spin
  <2> QED
    BY <1>0, <1>8, <2>1, <2>2 DEF Spin, Agrees
<1>9. CASE CheckAgain \/ NextLine
  <2>1. Rests /\ x_old = x_soft
    BY <1>9 DEF CheckAgain, NextLine, Agrees, OwnState
  <2> QED
    BY <1>0, <1>9, <2>1 DEF CheckAgain, NextLine
<1> QED
  BY <1>1, <1>2, <1>3, <1>4, <1>5, <1>6, <1>7, <1>8, <1>9 DEF Test

\* The FPGA's steps.
LEMMA CheckFpga == ASSUME W > 2, CheckInv, FpgaWorks PROVE CheckInv'
<1> USE DEF CheckInv, CheckTypes, Preparing, Between, testVars, signalVars,
        pageInputs, testSide
<1> USE DEF SampleStored, FirstCheck, FirstReset, Checking, LaterChecks, Rests
<1>1. UNCHANGED testSide
  BY DEF FpgaWorks
<1>0. /\ OwnState'
      /\ i = 0 /\ pc \in Checking => marte_strategy = 0
  BY <1>1 DEF OwnState
<1>2. CASE Latch
  <2>1. fpga = "poll" /\ input_counter # inner_counter
    BY <1>2 DEF Latch
  <2>2. Pending => Pending'
    BY <1>1, <1>2 DEF Latch, Pending, OnCheck
  <2>3. ~Finished
    BY <2>1 DEF Finished
  <2> QED
    BY <1>0, <1>1, <1>2, <2>1, <2>2, <2>3 DEF Latch, FromState
<1>3. CASE ReadIvs3 \/ ReadZdot \/ ReadStrategy
  <2>1. u' \in Sample /\ fpga = "read"
    BY <1>3 DEF ReadIvs3, ReadZdot, ReadStrategy, Reading, Sample
  <2>2. UNCHANGED <<fpga, seen, x_old, inner_counter, output_counter, classic_output>>
    BY <1>3 DEF ReadIvs3, ReadZdot, ReadStrategy, Reading
  <2>3. pc \in {"compute", "spin"} /\ OnCheck => OnCheck'
    BY <1>1, <1>3
    DEF ReadIvs3, ReadZdot, ReadStrategy, Reading, Sample, OnCheck
  <2>4. /\ pc \in {"compute", "spin"} /\ Pending => Pending'
        /\ ~Finished
    BY <1>1, <2>1, <2>2, <2>3 DEF Pending, Finished
  <2>5. FirstReset'
    BY <1>0, <1>1, <1>3 DEF ReadIvs3, ReadZdot, ReadStrategy, Reading
  <2> QED
    BY <1>0, <1>1, <2>1, <2>2, <2>4, <2>5 DEF FromState
<1>4. CASE Compute
  <2>1. /\ fpga = "read" /\ got = PageFields /\ fpga' = "publish"
        /\ UNCHANGED <<seen, u, inner_counter>>
    BY <1>4 DEF Compute
  <2>2. Pending =>
          /\ Finished'
          /\ classic_output' = ClassicOutput(x_old, Whole(line))
          /\ x_old' = ClassicState(x_old, Whole(line), marte_strategy)
    <3> SUFFICES ASSUME Pending
                 PROVE  /\ Finished'
                        /\ classic_output' = ClassicOutput(x_old, Whole(line))
                        /\ x_old' = ClassicState(x_old, Whole(line), marte_strategy)
      OBVIOUS
    <3>1. OnCheck /\ seen = input_counter /\ inner_counter # input_counter
      BY <2>1 DEF Pending
    <3>2. u = Whole(line) /\ strategy = marte_strategy
      BY <3>1, <2>1 DEF OnCheck, PageFields, Whole, Sample
    <3> QED
      BY <1>1, <1>4, <2>1, <3>1, <3>2 DEF Compute, Finished
  <2>3. ~Finished
    BY <2>1 DEF Finished
  <2>4. FirstReset'
    BY <1>1, <1>4, <2>1 DEF Compute, ClassicState, PageFields
  <2> QED
    BY <1>0, <1>1, <2>1, <2>2, <2>3, <2>4 DEF FromState, Agrees
<1>5. CASE Publish
  <2>1. /\ fpga = "publish" /\ fpga' = "poll" /\ inner_counter' = seen
        /\ u' = Whole(0) /\ UNCHANGED <<seen, x_old, classic_output>>
    BY <1>5 DEF Publish
  <2>2. u' \in Sample
    BY <2>1, WholeType DEF Cycle
  <2>3. ~Pending /\ (Finished => Finished')
    BY <1>1, <2>1 DEF Pending, Finished
  <2> QED
    BY <1>0, <1>1, <2>1, <2>2, <2>3 DEF FromState, Agrees
<1> QED
  BY <1>2, <1>3, <1>4, <1>5 DEF FpgaWorks

LEMMA CheckStep == W > 2 /\ CheckInv /\ [Next]_vars => CheckInv'
<1> SUFFICES ASSUME W > 2, CheckInv, [Next]_vars PROVE CheckInv'
  OBVIOUS
<1> USE DEF CheckInv, CheckTypes, OwnState, SampleStored, FirstCheck, FirstReset,
        LaterChecks, Preparing, Between, Checking, Rests, Pending, Finished, OnCheck, FromState, Agrees,
        testVars, signalVars, pageInputs, fpgaSide, fpgaVars
<1>1. CASE GiveUp
  BY <1>1 DEF GiveUp
<1>2. CASE Signal
  BY <1>2 DEF Signal
<1>3. CASE UNCHANGED vars
  BY <1>3 DEF vars
<1> QED
  BY <1>1, <1>2, <1>3, CheckTest, CheckFpga DEF Next

\* An FPGA that computes the law is never accused after the first check,
\* whatever an earlier run has left in the page and in the FPGA, as long as
\* the counter has more than two values (it has 256).
THEOREM NoAlarm == ASSUME W > 2 PROVE Spec => []NoFalseAlarm
<1>1. CheckInv => NoFalseAlarm
  BY DEF CheckInv, OwnState, LaterChecks, NoFalseAlarm, Agrees, Equal
<1> QED
  BY <1>1, CheckInit, CheckStep, PTL DEF Spec
=============================================================================
