---------------------------- MODULE ControlCycle ----------------------------
(***************************************************************************)
(* The control cycle of the swapping configuration (VSES-Control.cfg): one *)
(* MARTe real-time thread runs                                             *)
(*                                                                         *)
(*   GAMUDPReceiver GAMVSIncrement GAMVSExtremum GAMVSSwap GAMUDPSender    *)
(*                                                                         *)
(* on a page of memory it shares, without locks, with the classic          *)
(* controller in the FPGA and with the oracle.  Each access of a page      *)
(* field is a step of its own, so the three interleave as their bytes do.  *)
(*                                                                         *)
(* Page fields keep the names of shared_page.h.  The oracle runs in a cell *)
(* of its own and only ever writes oracle_decision.                        *)
(***************************************************************************)
EXTENDS FpgaClassic

CONSTANTS
    W,            \* values of a counter byte (256 in the code)
    MaxLag,       \* timing: cycles the FPGA may be behind the counter
    Oracle,       \* values the oracle writes (0, 1 or another byte)
    MaxRestarts   \* bound: restarts of MARTe

ASSUME WAssumption == W \in Nat \ {0}
ASSUME MaxLagAssumption == MaxLag \in Nat \ {0}
ASSUME OracleAssumption == Oracle \subseteq 0 .. 255
ASSUME MaxRestartsAssumption == MaxRestarts \in Nat

VARIABLES
    \* the shared page, besides the fields FpgaClassic declares
    oracle_decision, es_output, vs3_ref,
    \* the real-time thread
    marte,             \* what the thread does next
    counter,           \* VSGAMIncrement::counter, the number of the cycle
    es_state,          \* VSGAMExtremum::state
    left, restarts,    \* counter bytes MARTe has started on, and how often again
    \* history
    seenCycle,         \* the cycle whose counter is in seen
    doneCycle,         \* the cycle whose counter is in output_counter
    before,            \* marte_strategy when Increment started
    held,              \* oracle decisions held while Increment ran
    decided,           \* strategy of each cycle answered
    run,               \* samples of the FPGA's current run of classic cycles
    answered, reply    \* cycles answered, and the value sent last

sampleVars == <<ivs3, zdot>>
statusVars == <<input_counter, marte_strategy>>
marteVars  == <<marte, counter, es_state>>
workVars   == <<fpgaVars, output_counter, classic_output, seenCycle, doneCycle>>
decideVars == <<oracle_decision, before, held>>
sentVars   == <<decided, run, answered, reply>>
startVars  == <<left, restarts>>

vars == <<sampleVars, statusVars, marteVars, workVars, decideVars, es_output,
          vs3_ref, sentVars, startVars>>

Init ==
    /\ ivs3 = 0 /\ zdot = 0
    /\ oracle_decision \in Oracle
    /\ input_counter = 0 /\ marte_strategy = 0 /\ output_counter = 0
    /\ es_output = NoValue /\ classic_output = NoValue /\ vs3_ref = NoValue
    /\ marte = "ivs3" /\ counter = 0 /\ es_state = << >>
    /\ inner_counter = 0 /\ FpgaInit
    /\ seenCycle = 0 /\ doneCycle = 0
    /\ before = 0 /\ held = {}
    /\ decided = << >> /\ run = << >> /\ answered = 0 /\ reply = NoValue
    /\ left = {0} /\ restarts = 0
-----------------------------------------------------------------------------
(***************************************************************************)
(* The real-time thread.                                                   *)
(***************************************************************************)

\* The FPGA has nothing to do: it polls, and finds the byte it served last.
Idle == fpga = "poll" /\ input_counter = inner_counter

\* Timing assumption, not code: nothing makes the thread wait here.  The
\* server's period leaves the FPGA the time to have finished all but the
\* last MaxLag cycles, counting the one about to start; of a cycle that a
\* repeated datagram starts it is assumed just the same.
FpgaKeepsUp == Idle \/ (counter + 1) - doneCycle <= MaxLag

\* GAMUDPReceiver: a datagram is in, its signals are copied in their order.
\* An idle FPGA will not come back to the cycles so far, even to one whose
\* byte, left over from before a restart, it has taken for served.
LoadIvs3 ==
    /\ marte = "ivs3" /\ counter < MaxCycle /\ FpgaKeepsUp
    /\ ivs3' = counter + 1
    /\ marte' = "zdot"
    /\ seenCycle' = IF Idle THEN counter ELSE seenCycle
    /\ doneCycle' = IF Idle THEN counter ELSE doneCycle
    /\ UNCHANGED <<zdot, statusVars, counter, es_state, fpgaVars, output_counter,
                   classic_output, decideVars, es_output, vs3_ref, sentVars>>

LoadZdot ==
    /\ marte = "zdot"
    /\ zdot' = counter + 1
    /\ marte' = "increment"
    /\ UNCHANGED <<ivs3, statusVars, counter, es_state, workVars, decideVars,
                   es_output, vs3_ref, sentVars>>

\* Variations of IncrementCounter: without the truncation to a byte, and
\* without the write to the page.
IncrementUntruncated ==
    /\ marte = "increment"
    /\ counter' = counter + 1
    /\ input_counter' = counter + 1
    /\ marte' = "oracleIs1"
    /\ before' = marte_strategy
    /\ held' = {oracle_decision}
    /\ UNCHANGED <<sampleVars, marte_strategy, es_state, workVars,
                   oracle_decision, es_output, vs3_ref, sentVars>>

IncrementUnwritten ==
    /\ marte = "increment"
    /\ counter' = counter + 1
    /\ marte' = "oracleIs1"
    /\ before' = marte_strategy
    /\ held' = {oracle_decision}
    /\ UNCHANGED <<sampleVars, statusVars, es_state, workVars,
                   oracle_decision, es_output, vs3_ref, sentVars>>

\* GAMVSIncrement: the 32-bit counter is truncated into the page's byte.
IncrementCounter ==
    /\ marte = "increment"
    /\ counter' = counter + 1
    /\ input_counter' = (counter + 1) % W
    /\ marte' = "oracleIs1"
    /\ before' = marte_strategy
    /\ held' = {oracle_decision}
    /\ UNCHANGED <<sampleVars, marte_strategy, es_state, workVars,
                   oracle_decision, es_output, vs3_ref, sentVars>>

\* ... which then reads the decision, and if it is not 1 reads it again.
TestOracleForOne ==
    /\ marte = "oracleIs1"
    /\ IF oracle_decision = 1
       THEN marte_strategy' = 1 /\ marte' = "extremum"
       ELSE marte_strategy' = marte_strategy /\ marte' = "oracleIs0"
    /\ UNCHANGED <<sampleVars, input_counter, counter, es_state, workVars,
                   decideVars, es_output, vs3_ref, sentVars>>

OracleElseZero ==
    /\ marte = "oracleIs0"
    /\ marte_strategy' = 0
    /\ marte' = "extremum"
    /\ UNCHANGED <<sampleVars, input_counter, counter, es_state, workVars,
                   decideVars, es_output, vs3_ref, sentVars>>

TestOracleForZero ==
    /\ marte = "oracleIs0"
    /\ marte_strategy' = IF oracle_decision = 0 THEN 0 ELSE marte_strategy
    /\ marte' = "extremum"
    /\ UNCHANGED <<sampleVars, input_counter, counter, es_state, workVars,
                   decideVars, es_output, vs3_ref, sentVars>>

ExtremumWhenSelected ==
    /\ marte = "extremum"
    /\ IF marte_strategy = 1
       THEN UNCHANGED <<es_output, es_state>>
       ELSE LET now == [ivs3 |-> ivs3, zdot |-> zdot]
            IN  /\ es_output' = ExtremumOutput(es_state, now)
                /\ es_state' = Append(es_state, now)
    /\ marte' = "swap"
    /\ UNCHANGED <<sampleVars, statusVars, counter, workVars, decideVars,
                   vs3_ref, sentVars>>

\* GAMVSExtremum runs in every cycle, whatever the strategy.  Its inputs are
\* loaded in two groups, each named by one member: pf_voltages, vs3,
\* pf_currents and ivs3; then ip, zc, zdot and the rest.
ExecuteExtremum ==
    /\ marte = "extremum"
    /\ LET now == [ivs3 |-> ivs3, zdot |-> zdot]
       IN  /\ es_output' = ExtremumOutput(es_state, now)
           /\ es_state' = Append(es_state, now)
    /\ marte' = "swap"
    /\ UNCHANGED <<sampleVars, statusVars, counter, workVars, decideVars,
                   vs3_ref, sentVars>>

\* GAMVSSwap: extremum seeking's value at once, ...
SwapExtremum ==
    /\ marte = "swap" /\ marte_strategy # 1
    /\ vs3_ref' = es_output
    /\ marte' = "send"
    /\ UNCHANGED <<sampleVars, statusVars, counter, es_state, workVars,
                   decideVars, es_output, sentVars>>

\* Variations of the spin: left out, and content with the cycle before.
SwapWithoutSpin ==
    /\ marte = "swap" /\ marte_strategy = 1
    /\ marte' = "copy"
    /\ UNCHANGED <<sampleVars, statusVars, counter, es_state, workVars,
                   decideVars, es_output, vs3_ref, sentVars>>

SwapSpinOneBehind ==
    /\ marte = "swap" /\ marte_strategy = 1
    /\ input_counter \in {output_counter, (output_counter + 1) % W}
    /\ marte' = "copy"
    /\ UNCHANGED <<sampleVars, statusVars, counter, es_state, workVars,
                   decideVars, es_output, vs3_ref, sentVars>>

\* ... the classic one after a spin until the two counter bytes are equal.
SwapSpin ==
    /\ marte = "swap" /\ marte_strategy = 1
    /\ input_counter = output_counter
    /\ marte' = "copy"
    /\ UNCHANGED <<sampleVars, statusVars, counter, es_state, workVars,
                   decideVars, es_output, vs3_ref, sentVars>>

SwapClassic ==
    /\ marte = "copy"
    /\ vs3_ref' = classic_output
    /\ marte' = "send"
    /\ UNCHANGED <<sampleVars, statusVars, counter, es_state, workVars,
                   decideVars, es_output, sentVars>>

\* The strategy the FPGA computes this cycle with: the one it has read, or
\* else the one it will find, since the next cycle's is not yet decided.
Used ==
    IF seenCycle = counter /\ ("strategy" \in got \/ fpga # "read")
    THEN strategy ELSE marte_strategy

\* GAMUDPSender: the value goes out and the thread blocks for a datagram.
Send ==
    /\ marte = "send"
    /\ reply' = vs3_ref
    /\ answered' = answered + 1
    /\ decided' = Append(decided, marte_strategy)
    /\ run' = ClassicState(run, Whole(counter), Used)
    /\ before' = 0 /\ held' = {}
    /\ marte' = "ivs3"
    /\ UNCHANGED <<sampleVars, statusVars, counter, es_state, workVars,
                   oracle_decision, es_output, vs3_ref>>

Marte ==
    \/ LoadIvs3 \/ LoadZdot
    \/ IncrementCounter \/ TestOracleForOne \/ TestOracleForZero
    \/ ExecuteExtremum
    \/ SwapExtremum \/ SwapSpin \/ SwapClassic
    \/ Send
-----------------------------------------------------------------------------
(***************************************************************************)
(* The steps of the FPGA, which touch nothing the thread writes.           *)
(***************************************************************************)
marteSide == <<sampleVars, statusVars, marteVars, decideVars, es_output,
               vs3_ref, sentVars>>

FpgaLatch == Latch /\ seenCycle' = counter /\ UNCHANGED <<marteSide, doneCycle>>

FpgaReadSample ==
    (ReadIvs3 \/ ReadZdot) /\ UNCHANGED <<marteSide, seenCycle, doneCycle>>

\* Increment writes input_counter first and marte_strategy after it, in
\* another store: this read may come between the two.
FpgaReadStrategy == ReadStrategy /\ UNCHANGED <<marteSide, seenCycle, doneCycle>>

FpgaCompute == Compute /\ UNCHANGED <<marteSide, seenCycle, doneCycle>>

FpgaPublish == Publish /\ doneCycle' = seenCycle /\ UNCHANGED <<marteSide, seenCycle>>

Fpga == FpgaLatch \/ FpgaReadSample \/ FpgaReadStrategy \/ FpgaCompute \/ FpgaPublish
-----------------------------------------------------------------------------
\* The oracle changes its mind whenever it likes.
OracleDecides ==
    \E v \in Oracle \ {oracle_decision} :
        /\ oracle_decision' = v
        /\ held' = IF marte \in {"oracleIs1", "oracleIs0"}
                   THEN held \cup {v} ELSE held
        /\ UNCHANGED <<sampleVars, statusVars, marteVars, workVars, before,
                       es_output, vs3_ref, sentVars>>

\* The start of a run of MARTe on a page that is not new.
StartsOver ==
    /\ marte' = "ivs3" /\ counter' = 0 /\ es_state' = << >>
    /\ ivs3' = 0 /\ zdot' = 0 /\ u' = Whole(0)
    /\ es_output' = NoValue /\ classic_output' = NoValue /\ vs3_ref' = NoValue
    /\ x_old' = IF x_old = << >> THEN << >> ELSE <<Whole(0)>>
    /\ decided' = << >> /\ run' = x_old' /\ answered' = 0 /\ reply' = NoValue
    /\ seenCycle' = 0 /\ doneCycle' = 0 /\ before' = 0 /\ held' = {}

\* MARTe is killed, wherever its thread is, and started again.  It counts
\* from 0 again with a fresh law; the page and the FPGA keep what they have,
\* which by the names of the new run is of before its first sample.  The
\* FPGA may be in the middle of a cycle, and nothing tells the new run which
\* bytes it finds in the page and in the FPGA.
Restart ==
    /\ restarts < MaxRestarts /\ restarts' = restarts + 1
    /\ left' = {input_counter, seen, inner_counter}
    /\ StartsOver
    /\ UNCHANGED <<statusVars, fpga, seen, got, strategy, inner_counter,
                   output_counter, oracle_decision>>

Running == Marte \/ Fpga \/ OracleDecides

Next == (Running /\ UNCHANGED startVars) \/ Restart

Spec == Init /\ [][Next]_vars
-----------------------------------------------------------------------------
(***************************************************************************)
(* Properties.                                                             *)
(***************************************************************************)
MarteSteps == {"ivs3", "zdot", "increment", "oracleIs1", "oracleIs0",
               "extremum", "swap", "copy", "send"}

\* Every variable stays within its type.
TypeOK ==
    /\ ivs3 \in Cycle /\ zdot \in Cycle
    /\ oracle_decision \in Oracle /\ held \subseteq Oracle
    /\ input_counter \in 0 .. W - 1 /\ output_counter \in 0 .. W - 1
    /\ inner_counter \in 0 .. W - 1 /\ seen \in 0 .. W - 1
    /\ marte_strategy \in {0, 1} /\ strategy \in {0, 1} /\ before \in {0, 1}
    /\ es_output \in Value /\ classic_output \in Value
    /\ vs3_ref \in Value /\ reply \in Value
    /\ marte \in MarteSteps
    /\ counter \in Cycle /\ answered \in Cycle
    /\ seenCycle \in Cycle /\ doneCycle \in Cycle
    /\ es_state \in Seq(Sample) /\ x_old \in Seq(Sample) /\ run \in Seq(Sample)
    /\ fpga \in {"poll", "read", "publish"} /\ got \subseteq PageFields
    /\ u \in Sample
    /\ decided \in Seq({0, 1})
    /\ left \subseteq 0 .. W - 1 /\ restarts \in 0 .. MaxRestarts

\* One of the first cycles after a restart, its number a byte that the page
\* or the FPGA still had: the thread may take the byte for the answer, or the
\* FPGA may take it for served.
OnLeftover == counter \in left /\ counter <= MaxLag

\* The value about to be sent was computed, by the law the strategy of this
\* cycle selects, from this cycle's sample and from no half of another: the
\* spin of VSGAMSwap::Execute on two wrapping bytes is enough, except for a
\* classic cycle on a byte left over.
FreshReply ==
    marte = "send" /\ ~(marte_strategy = 1 /\ OnLeftover) =>
        /\ vs3_ref.u = Whole(counter)
        /\ vs3_ref.by = IF marte_strategy = 1 THEN "classic" ELSE "es"

\* The spin ends only when the FPGA has written output_counter for the value
\* this cycle's Increment wrote, whatever bytes there were to start with; a
\* byte left over is the one exception.
PublishedThisCycle == marte = "copy" => doneCycle = counter \/ OnLeftover

\* The same without the exception, as VSGAMIncrement.cpp:82 has it: the byte
\* the spin waits for is written "by the FPGA after inputer counter is
\* incremented".
WrittenAfterIncrement == marte = "copy" => doneCycle = counter

\* What a single read of decision v makes of the old strategy s.
Decide(v, s) == IF v \in {0, 1} THEN v ELSE s

\* Although VSGAMIncrement::Execute may read oracle_decision twice, it leaves
\* what one read, at some moment while it ran, would have left.
DecisionLinearizable ==
    marte \in {"extremum", "swap", "copy", "send"} =>
        \E v \in held : marte_strategy = Decide(v, before)

\* Between its last look at the counters and the copy of VSGAMSwap.cpp:87 the
\* value in the page is not replaced under the thread's feet.
NoOverwriteDuringCopy ==
    [][marte = "copy" /\ ~OnLeftover /\ UNCHANGED restarts
          => classic_output' = classic_output]_vars

\* The FPGA computes a cycle with the strategy that MARTe defines for that
\* cycle: the two status bytes act as one write (shm_interface.md:12).
StrategyAgreement ==
    marte \in {"extremum", "swap", "copy", "send"} =>
        (seenCycle = counter /\ "strategy" \in got => strategy = marte_strategy)

\* The strategy of cycle c; before the first it was extremum seeking.
StrategyOf(c) == IF c \in DOMAIN decided THEN decided[c] ELSE 0

\* The samples of cycles first to last, one after the other.
Stretch(first, last) == [k \in 1 .. last - first + 1 |-> Whole(first + k - 1)]

\* A state of the classic law that two byte stores allow: the FPGA may take
\* a cycle's strategy for the one before it.  The state has integrated whole
\* samples without a gap, each of a cycle that was classic or followed a
\* classic one, from a cycle before which extremum seeking was selected, at
\* most one cycle earlier.
Steady(x) ==
    \E first \in 1 .. answered + 1 :
        /\ x = Stretch(first, answered)
        /\ \A c \in first .. answered : 1 \in {StrategyOf(c), StrategyOf(c - 1)}
        /\ 0 \in {StrategyOf(first - 1), StrategyOf(first - 2)}

\* A classic value sent was computed from such a state: whenever the FPGA
\* reads the strategy, a switch is off by one sample at most, and no state
\* of the law outlives a switch by more.
SteadyClassic == marte = "send" /\ vs3_ref.by = "classic" => Steady(vs3_ref.x)

\* The cycles, in steps of a byte each, implement the indivisible ones.  The
\* strategy of a cycle under way is not theirs yet.
InCycle == marte \in {"oracleIs1", "oracleIs0", "extremum", "swap", "copy", "send"}

Promise == INSTANCE Controller
               WITH strategy <- IF InCycle THEN before ELSE marte_strategy
AnswersAsPromised == Promise!ControllerSpec

\* A view for checking the hand-over alone: states that differ in what the
\* laws have integrated, on which no guard depends, count as one.
Provenance(value) == <<value.by, value.u>>

HandOver ==
    <<sampleVars, statusVars, marte, counter, fpga, seen, got, u, strategy,
      inner_counter, output_counter, seenCycle, doneCycle, decideVars, startVars,
      Provenance(es_output), Provenance(classic_output), Provenance(vs3_ref)>>
-----------------------------------------------------------------------------
(***************************************************************************)
(* The inductive invariant behind FreshReply.                              *)
(***************************************************************************)
\* The bytes of a cycle's number; before the first they are those left over.
Bytes(cycle) == IF cycle = 0 THEN left ELSE {cycle % W}

\* The bytes in the page and in the FPGA are those of cycle numbers.
CountersMatch ==
    /\ input_counter \in Bytes(counter) /\ seen \in Bytes(seenCycle)
    /\ output_counter \in Bytes(doneCycle) /\ inner_counter = output_counter
    /\ fpga = "poll" => seen = inner_counter
    /\ restarts = 0 => left = {0}

\* The FPGA follows the thread, at most MaxLag cycles behind.  After a
\* restart it may be at work on a byte of before.
FpgaFollows ==
    /\ doneCycle <= seenCycle /\ seenCycle <= counter
    /\ counter - doneCycle <= MaxLag
    /\ marte \in {"zdot", "increment"} => (counter + 1) - doneCycle <= MaxLag
    /\ IF fpga = "poll" THEN doneCycle = seenCycle
       ELSE doneCycle < seenCycle \/ (seenCycle = 0 /\ restarts > 0)

\* In a cycle the page holds the whole sample of that cycle.
PageLoaded ==
    /\ marte = "zdot" => ivs3 = counter + 1
    /\ marte = "increment" => ivs3 = counter + 1 /\ zdot = counter + 1
    /\ InCycle => ivs3 = counter /\ zdot = counter

AnsweredBefore == answered = IF InCycle THEN counter - 1 ELSE counter

\* What the FPGA has done for a cycle still running is done on its sample.
FpgaOnSample ==
    InCycle /\ seenCycle = counter =>
        /\ "ivs3" \in got => u.ivs3 = counter
        /\ "zdot" \in got => u.zdot = counter
        /\ fpga # "read" =>
               classic_output.by = "classic" /\ classic_output.u = Whole(counter)

\* Extremum seeking's value, once computed, is of this cycle's sample.
ExtremumOnSample ==
    marte \in {"swap", "copy", "send"} =>
        es_output.by = "es" /\ es_output.u = Whole(counter)

ClassicChosen == marte = "copy" => marte_strategy = 1

FreshInv ==
    /\ CountersMatch /\ FpgaFollows
    /\ PageLoaded /\ FpgaOnSample /\ ExtremumOnSample
    /\ ClassicChosen /\ PublishedThisCycle /\ FreshReply

\* The decision invariant: what VSGAMIncrement knows between its two reads.
DecisionInv ==
    /\ marte \in {"oracleIs1", "oracleIs0"} =>
           oracle_decision \in held /\ marte_strategy = before
    /\ marte = "oracleIs0" => \E v \in held : v # 1
    /\ DecisionLinearizable
=============================================================================
