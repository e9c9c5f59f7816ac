------------------------------- MODULE HwTest -------------------------------
(***************************************************************************)
(* The test of the FPGA's classic controller, hw_test_new/hw_test.c.  It   *)
(* plays MARTe: it writes samples and the strategy into the shared page,   *)
(* bumps input_counter, computes the classic law itself, spins until the   *)
(* FPGA has served the counter, and compares.  It must leave the FPGA      *)
(* disabled, also when a signal or a mismatch ends it.                     *)
(***************************************************************************)
EXTENDS FpgaClassic

CONSTANTS
    W,            \* values of input_counter (0x100 in the code)
    Lines,        \* bound: lines of the values file
    WarmUp,       \* checks before the strategy becomes classic (10)
    MaxSignals    \* bound: SIGINT and SIGTERM the test receives

ASSUME HwTestAssumption ==
    /\ W \in Nat \ {0} /\ Lines \in Cycle /\ WarmUp \in Nat \ {0}
    /\ MaxSignals \in Nat

VARIABLES
    pc,           \* what the test does next
    enabled,      \* conf_port->enabled
    line,         \* lines read
    i,            \* checks done
    res,          \* the result the file gives for the line
    x_soft,       \* x_old of the test's own computation
    computed,     \* computed_res
    handlers,     \* the exit handler and the signal handlers are registered
    signals,      \* signals received
    nested        \* history: a signal hit while exit() was running

pageInputs == <<ivs3, zdot, input_counter, marte_strategy>>
fpgaSide == <<fpgaVars, classic_output, output_counter>>
testVars == <<line, i, res, x_soft, computed>>
signalVars == <<handlers, signals, nested>>
vars == <<pc, enabled, testVars, signalVars, pageInputs, fpgaSide>>

\* The page and the FPGA are as whoever used them last left them: enabled or
\* not, with a counter still to serve, a strategy, a state of the law.
Init ==
    /\ pc = "start" /\ enabled \in {0, 1}
    /\ line = 0 /\ i = 0 /\ res = NoValue /\ x_soft = << >> /\ computed = NoValue
    /\ handlers = FALSE /\ signals = 0 /\ nested = FALSE
    /\ ivs3 = 0 /\ zdot = 0 /\ marte_strategy \in {0, 1}
    /\ input_counter \in {0, 1 % W}
    /\ classic_output = NoValue /\ output_counter = 0
    /\ inner_counter = 0 /\ x_old \in {<< >>, <<Whole(0)>>} /\ FpgaIdle
-----------------------------------------------------------------------------
(***************************************************************************)
(* main.                                                                   *)
(***************************************************************************)
\* Arguments and file are in order, the memory is mapped, the exit handler
\* is registered and the module disabled; or the test gives up before.
GiveUp ==
    /\ pc = "start" /\ pc' = "gone"
    /\ UNCHANGED <<enabled, testVars, signalVars, pageInputs, fpgaSide>>

Register ==
    /\ pc = "start" /\ handlers' = TRUE /\ pc' = "disable"
    /\ UNCHANGED <<enabled, testVars, signals, nested, pageInputs, fpgaSide>>

Disable ==
    /\ pc = "disable" /\ enabled' = 0 /\ pc' = "enable"
    /\ UNCHANGED <<testVars, signalVars, pageInputs, fpgaSide>>

EnableForgotten ==
    /\ pc = "enable" /\ pc' = "strategy"
    /\ UNCHANGED <<enabled, testVars, signalVars, pageInputs, fpgaSide>>

\* After the constants and the offsets.
Enable ==
    /\ pc = "enable" /\ enabled' = 1 /\ pc' = "strategy"
    /\ UNCHANGED <<testVars, signalVars, pageInputs, fpgaSide>>

StartExtremum ==
    /\ pc = "strategy"
    /\ marte_strategy' = 0 /\ x_soft' = << >>
    /\ pc' = "scan"
    /\ UNCHANGED <<enabled, line, i, res, computed, signalVars, ivs3, zdot,
                   input_counter, fpgaSide>>

\* What the classic law gives for a line: its state has integrated the lines
\* before it.
Recorded(n) == ClassicOutput(Upto(n - 1), Whole(n))

\* fscanf: another line, with the result of the law or with another number;
\* or the end of the file and of main.
ScanLine ==
    /\ pc = "scan" /\ line < Lines
    /\ line' = line + 1 /\ res' \in {Recorded(line + 1), NoValue}
    /\ pc' = "ivs3"
    /\ UNCHANGED <<enabled, i, x_soft, computed, signalVars, pageInputs,
                   fpgaSide>>

ReturnFromMain ==
    /\ pc = "scan" /\ line = Lines
    /\ pc' = "exit"
    /\ UNCHANGED <<enabled, testVars, signalVars, pageInputs, fpgaSide>>

WriteIvs3 ==
    /\ pc = "ivs3" /\ ivs3' = line /\ pc' = "zdot"
    /\ UNCHANGED <<enabled, testVars, signalVars, zdot, input_counter,
                   marte_strategy, fpgaSide>>

WriteZdot ==
    /\ pc = "zdot" /\ zdot' = line /\ pc' = "count"
    /\ UNCHANGED <<enabled, testVars, signalVars, ivs3, input_counter,
                   marte_strategy, fpgaSide>>

BumpCounter ==
    /\ pc = "count"
    /\ input_counter' = (input_counter + 1) % W
    /\ pc' = "compute"
    /\ UNCHANGED <<enabled, testVars, signalVars, ivs3, zdot,
                   marte_strategy, fpgaSide>>

\* quick_check: its own computation, ...
ComputeResult ==
    /\ pc = "compute"
    /\ computed' = ClassicOutput(x_soft, Whole(line))
    /\ x_soft' = ClassicState(x_soft, Whole(line), marte_strategy)
    /\ pc' = "spin"
    /\ UNCHANGED <<enabled, line, i, res, signalVars, pageInputs, fpgaSide>>

SpinLeftOut ==
    /\ pc = "spin"
    /\ pc' = "compare"
    /\ UNCHANGED <<enabled, testVars, signalVars, pageInputs, fpgaSide>>

\* ... the spin on the FPGA's counter, ...
Spin ==
    /\ pc = "spin" /\ input_counter = inner_counter
    /\ pc' = "compare"
    /\ UNCHANGED <<enabled, testVars, signalVars, pageInputs, fpgaSide>>

\* The values of the FPGA are those of the test.
Agrees == classic_output = computed /\ x_old = x_soft

\* Every ratio is one: also the results of both to that of the file.
Equal == Agrees /\ computed = res /\ classic_output = res

\* ... and the comparison of results and state.  Equal numbers raise no alarm
\* (the ratio of two zeros is no number and compares as small, and the law
\* gives numbers); numbers that differ may also be within ten percent.
Mismatch ==
    /\ pc = "compare" /\ ~Equal
    /\ pc' = "exit"
    /\ UNCHANGED <<enabled, testVars, signalVars, pageInputs, fpgaSide>>

\* The first line is checked WarmUp times before and once after the switch.
CheckAgain ==
    /\ pc = "compare" /\ i < WarmUp
    /\ marte_strategy' = IF i = WarmUp - 1 THEN 1 ELSE 0
    /\ i' = i + 1
    /\ pc' = "count"
    /\ UNCHANGED <<enabled, line, res, x_soft, computed, signalVars, ivs3,
                   zdot, input_counter, fpgaSide>>

NextLine ==
    /\ pc = "compare" /\ i >= WarmUp
    /\ i' = i + 1
    /\ pc' = "scan"
    /\ UNCHANGED <<enabled, line, res, x_soft, computed, signalVars,
                   pageInputs, fpgaSide>>

\* exit_handler, called by exit() and at the end of main.
ExitHandler ==
    /\ pc = "exit"
    /\ enabled' = 0
    /\ pc' = "gone"
    /\ UNCHANGED <<testVars, signalVars, pageInputs, fpgaSide>>

Test ==
    \/ Register \/ Disable \/ Enable \/ StartExtremum
    \/ ScanLine \/ ReturnFromMain
    \/ WriteIvs3 \/ WriteZdot \/ BumpCounter
    \/ ComputeResult \/ Spin \/ Mismatch \/ CheckAgain \/ NextLine
    \/ ExitHandler

\* The handler as it would be with _exit, which calls no exit handler.
SignalSkipsHandlers ==
    /\ signals < MaxSignals /\ pc # "gone"
    /\ signals' = signals + 1
    /\ nested' = (nested \/ pc = "exit")
    /\ pc' = "gone"
    /\ UNCHANGED <<enabled, testVars, handlers, pageInputs, fpgaSide>>

\* A signal ends the test by exit().  Before the handlers are registered it
\* kills it; while exit() runs, the handler calls exit() again, which is
\* undefined: the exit handler may still run, or be skipped.
Signal ==
    /\ signals < MaxSignals /\ pc # "gone"
    /\ signals' = signals + 1
    /\ nested' = (nested \/ pc = "exit")
    /\ \/ pc = "start" /\ pc' = "gone"
       \/ pc # "start" /\ pc' = "exit"
       \/ pc = "exit" /\ pc' = "gone"
    /\ UNCHANGED <<enabled, testVars, handlers, pageInputs, fpgaSide>>
-----------------------------------------------------------------------------
testSide == <<pc, enabled, testVars, signalVars, pageInputs>>

\* Once disabled the FPGA starts nothing new.
FpgaWorks ==
    /\ \/ enabled = 1 /\ Latch
       \/ ReadIvs3 \/ ReadZdot \/ ReadStrategy
       \/ Compute \/ Publish
    /\ UNCHANGED testSide

Next == GiveUp \/ Test \/ Signal \/ FpgaWorks

Spec == Init /\ [][Next]_vars

FairSpec == Spec /\ WF_vars(Test) /\ WF_vars(FpgaWorks)
-----------------------------------------------------------------------------
\* Every variable stays within its type.
TypeOK ==
    /\ pc \in {"start", "disable", "enable", "strategy", "scan", "ivs3", "zdot",
               "count", "compute", "spin", "compare", "exit", "gone"}
    /\ enabled \in {0, 1}
    /\ line \in 0 .. Lines /\ i \in Nat /\ res \in Value
    /\ x_soft \in Seq(Sample) /\ computed \in Value
    /\ handlers \in BOOLEAN /\ signals \in 0 .. MaxSignals /\ nested \in BOOLEAN
    /\ ivs3 \in Cycle /\ zdot \in Cycle
    /\ input_counter \in 0 .. W - 1 /\ inner_counter \in 0 .. W - 1
    /\ marte_strategy \in {0, 1}

\* The test accuses no FPGA that computes the law: at every comparison but
\* the first the result and the state read from the port are those of the
\* same counter, sample and strategy as the test's own, also in the check in
\* which the strategy changes and after numbers that only passed as near; and
\* where the file gives the result of the law there is no alarm at all.  The
\* first one meets the state an earlier run has left, which the test assumes
\* to be zero and never clears.
NoFalseAlarm ==
    pc = "compare" /\ i > 0 => Agrees /\ (res = Recorded(line) => Equal)

\* However the test ends once its handlers are registered (end of file, a
\* mismatch, a signal at any point), the FPGA is left disabled; the exception
\* is a signal that arrives while exit() is already at work.
LeftDisabled == pc = "gone" /\ handlers /\ ~nested => enabled = 0

\* A test that has started ends: no spin waits for a counter the FPGA will
\* not serve (hw_test.c:77), and a mismatch or a signal ends it early.
TestEnds == (pc = "disable") ~> (pc = "gone")
=============================================================================
