------------------------- MODULE ControlCycleProofs -------------------------
(***************************************************************************)
(* Proofs about ControlCycle for every counter width, bound, lag and set   *)
(* of oracle values, and for any number of restarts of MARTe.              *)
(***************************************************************************)
EXTENDS ControlCycle, TLAPS

USE MaxCycleAssumption, WAssumption, MaxLagAssumption, OracleAssumption,
    MaxRestartsAssumption

\* A multiple of w strictly below w is zero.
LEMMA NoSmallMultiple ==
    ASSUME NEW w \in Nat \ {0}, NEW k \in Int, w * k < w, w * k >= 0
    PROVE  k = 0
<1>1. CASE k >= 1
  <2>1. w * k = w + w * (k - 1)
    BY SMT
  <2>2. w * (k - 1) >= 0
    BY <1>1, SMT
  <2> QED
    BY <2>1, <2>2, <1>1
<1>2. CASE k <= -1
  <2>1. w * (-k - 1) >= 0
    BY <1>2, SMT
  <2> QED
    BY <2>1, <1>2
<1> QED
  BY <1>1, <1>2

\* Two cycle numbers less than a turn of the counter apart have the same byte
\* only when they are equal: why an equality of bytes can end the spin.
LEMMA SameByte ==
    ASSUME NEW w \in Nat \ {0}, NEW a \in Nat, NEW b \in Nat,
           b <= a, a - b < w, a % w = b % w
    PROVE  a = b
<1>1. a = w * (a \div w) + (a % w) /\ (a \div w) \in Int
  BY SMT
<1>2. b = w * (b \div w) + (b % w) /\ (b \div w) \in Int
  BY SMT
<1>3. a - b = w * ((a \div w) - (b \div w))
  BY <1>1, <1>2, SMT
<1>4. (a \div w) - (b \div w) = 0
  BY <1>1, <1>2, <1>3, NoSmallMultiple
<1> QED
  BY <1>3, <1>4, SMT

\* A cycle number truncated to a byte is a byte.
LEMMA ByteType == ASSUME NEW n \in Nat PROVE n % W \in 0 .. W - 1
BY SMT

\* The values of the control laws are values.
LEMMA LawTypes ==
    ASSUME NEW x \in Seq(Sample), NEW s \in Sample, NEW d \in {0, 1}
    PROVE  /\ ClassicOutput(x, s) \in Value
           /\ ExtremumOutput(x, s) \in Value
           /\ ClassicState(x, s, d) \in Seq(Sample)
BY DEF ClassicOutput, ExtremumOutput, ClassicState, Value, Source

LEMMA WholeType == ASSUME NEW n \in Cycle PROVE Whole(n) \in Sample
BY DEF Whole, Sample

LEMMA NoValueType == NoValue \in Value
BY WholeType DEF NoValue, Value, Source, Cycle
-----------------------------------------------------------------------------
(***************************************************************************)
(* Types.  The bounds of counter and answered need the control state: the  *)
(* thread receives no more than MaxCycle samples and answers each once.    *)
(***************************************************************************)
TypeInv ==
    /\ TypeOK
    /\ marte \in {"zdot", "increment"} => counter < MaxCycle
    /\ AnsweredBefore

LEMMA TypeInit == Init => TypeInv
<1> SUFFICES ASSUME Init PROVE TypeInv
  OBVIOUS
<1>1. 0 \in Cycle /\ 0 \in 0 .. W - 1
  BY DEF Cycle
<1>2. TypeOK
  BY <1>1, WholeType, NoValueType
  DEF Init, FpgaInit, FpgaIdle, TypeOK, MarteSteps, PageFields
<1> QED
  BY <1>2 DEF Init, TypeInv, AnsweredBefore, InCycle

\* A step of the thread, of the FPGA or of the oracle, or none.
LEMMA TypeRunning ==
    ASSUME TypeInv, Running \/ UNCHANGED vars, UNCHANGED <<left, restarts>>
    PROVE  TypeInv'
<1> USE DEF TypeInv, TypeOK, AnsweredBefore, InCycle, MarteSteps
<1>1. CASE LoadIvs3
  BY <1>1 DEF LoadIvs3, Cycle, statusVars, fpgaVars, decideVars, sentVars
<1>2. CASE LoadZdot
  BY <1>2 DEF LoadZdot, Cycle, statusVars, workVars, fpgaVars, decideVars, sentVars
<1>3. CASE IncrementCounter
  <2>1. counter < MaxCycle /\ counter + 1 \in Nat /\ answered = counter
    BY <1>3 DEF IncrementCounter, Cycle
  <2>2. counter' \in Cycle /\ input_counter' \in 0 .. W - 1
    BY <1>3, <2>1, ByteType DEF IncrementCounter, Cycle
  <2>3. held' \subseteq Oracle /\ before' \in {0, 1} /\ oracle_decision' \in Oracle
    BY <1>3 DEF IncrementCounter
  <2>4. marte' = "oracleIs1" /\ answered' = counter' - 1
    BY <1>3, <2>1 DEF IncrementCounter, Cycle, sentVars
  <2> QED
    BY <1>3, <2>2, <2>3, <2>4
    DEF IncrementCounter, sampleVars, workVars, fpgaVars, sentVars
<1>4. CASE TestOracleForOne
  BY <1>4 DEF TestOracleForOne, sampleVars, workVars, fpgaVars, decideVars, sentVars
<1>5. CASE TestOracleForZero
  BY <1>5 DEF TestOracleForZero, sampleVars, workVars, fpgaVars, decideVars, sentVars
<1>6. CASE ExecuteExtremum
  <2> DEFINE now == [ivs3 |-> ivs3, zdot |-> zdot]
  <2>1. now \in Sample
    BY DEF Sample
  <2>2. ExtremumOutput(es_state, now) \in Value /\ Append(es_state, now) \in Seq(Sample)
    BY <2>1, LawTypes
  <2> QED
    BY <1>6, <2>2
    DEF ExecuteExtremum, sampleVars, statusVars, workVars, fpgaVars, decideVars, sentVars
<1>7. CASE SwapExtremum
  BY <1>7 DEF SwapExtremum, sampleVars, statusVars, workVars, fpgaVars, decideVars, sentVars
<1>8. CASE SwapSpin
  BY <1>8 DEF SwapSpin, sampleVars, statusVars, workVars, fpgaVars, decideVars, sentVars
<1>9. CASE SwapClassic
  BY <1>9 DEF SwapClassic, sampleVars, statusVars, workVars, fpgaVars, decideVars, sentVars
<1>10. CASE Send
  <2>1. Used \in {0, 1}
    BY DEF Used
  <2>2. ClassicState(run, Whole(counter), Used) \in Seq(Sample)
    BY <2>1, WholeType, LawTypes
  <2>3. decided' \in Seq({0, 1})
    BY <1>10 DEF Send
  <2> QED
    BY <1>10, <2>2, <2>3
    DEF Send, Cycle, sampleVars, statusVars, workVars, fpgaVars
<1>11. CASE FpgaLatch
  BY <1>11 DEF FpgaLatch, Latch, marteSide, sampleVars, statusVars, marteVars, decideVars, sentVars
<1>12. CASE FpgaReadSample
  <2>1. /\ u' \in Sample /\ got' \subseteq PageFields
        /\ UNCHANGED <<fpga, seen, strategy, x_old, inner_counter, output_counter, classic_output>>
    <3>1. CASE ReadIvs3
      <4>1. [u EXCEPT !.ivs3 = ivs3] \in Sample
        BY DEF Sample
      <4> QED
        BY <3>1, <4>1 DEF ReadIvs3, Reading, PageFields
    <3>2. CASE ReadZdot
      <4>1. [u EXCEPT !.zdot = zdot] \in Sample
        BY DEF Sample
      <4> QED
        BY <3>2, <4>1 DEF ReadZdot, Reading, PageFields
    <3> QED
      BY <1>12, <3>1, <3>2 DEF FpgaReadSample
  <2> QED
    BY <1>12, <2>1
    DEF FpgaReadSample, marteSide, sampleVars, statusVars, marteVars, decideVars, sentVars
<1>13. CASE FpgaReadStrategy
  BY <1>13
  DEF FpgaReadStrategy, ReadStrategy, Reading, PageFields, marteSide, sampleVars, statusVars, marteVars, decideVars, sentVars
<1>14. CASE FpgaCompute
  <2>1. ClassicOutput(x_old, u) \in Value /\ ClassicState(x_old, u, strategy) \in Seq(Sample)
    BY LawTypes
  <2> QED
    BY <1>14, <2>1
    DEF FpgaCompute, Compute, marteSide, sampleVars, statusVars, marteVars, decideVars, sentVars
<1>15. CASE FpgaPublish
  <2>1. Whole(0) \in Sample
    BY WholeType DEF Cycle
  <2> QED
    BY <1>15, <2>1
    DEF FpgaPublish, Publish, marteSide, sampleVars, statusVars, marteVars, decideVars, sentVars
<1>16. CASE OracleDecides
  BY <1>16 DEF OracleDecides, sampleVars, statusVars, marteVars, workVars, fpgaVars, sentVars
<1>17. CASE UNCHANGED vars
  BY <1>17 DEF vars, sampleVars, statusVars, marteVars, workVars, fpgaVars, decideVars, sentVars
<1> QED
  BY <1>1, <1>2, <1>3, <1>4, <1>5, <1>6, <1>7, <1>8, <1>9, <1>10, <1>11,
     <1>12, <1>13, <1>14, <1>15, <1>16, <1>17
  DEF Running, Marte, Fpga

LEMMA TypeRestart == ASSUME TypeInv, Restart PROVE TypeInv'
<1>1. 0 \in Cycle /\ Whole(0) \in Sample /\ NoValue \in Value
  BY WholeType, NoValueType DEF Cycle
<1>2. << >> \in Seq(Sample) /\ <<Whole(0)>> \in Seq(Sample)
  BY <1>1
<1>3. x_old' \in Seq(Sample) /\ run' \in Seq(Sample)
  BY <1>2 DEF Restart, StartsOver
<1>4. restarts' \in 0 .. MaxRestarts /\ left' \subseteq 0 .. W - 1
  BY DEF Restart, TypeInv, TypeOK
<1> QED
  BY <1>1, <1>2, <1>3, <1>4
  DEF Restart, StartsOver, TypeInv, TypeOK, AnsweredBefore, InCycle, MarteSteps,
      statusVars

LEMMA TypeStep == TypeInv /\ [Next]_vars => TypeInv'
BY TypeRunning, TypeRestart DEF Next, startVars, vars

\* Every variable keeps its type, the counter bytes among them.
THEOREM TypeCorrect == Spec => []TypeOK
<1>1. TypeInv => TypeOK
  BY DEF TypeInv
<1> QED
  BY <1>1, TypeInit, TypeStep, PTL DEF Spec
-----------------------------------------------------------------------------
(***************************************************************************)
(* Freshness.  While the FPGA is less than a turn of the counter byte      *)
(* behind, equal bytes mean equal cycles, so the end of the spin means the *)
(* FPGA has finished this cycle.  It cannot then be computing (it only     *)
(* starts when the bytes differ), and it started after Increment, hence    *)
(* after the sample was loaded.                                            *)
(***************************************************************************)
LEMMA FreshInit == Init => FreshInv
BY DEF Init, FpgaInit, FpgaIdle, FreshInv, CountersMatch, Bytes, FpgaFollows, PageLoaded, FpgaOnSample,
    ExtremumOnSample, ClassicChosen, PublishedThisCycle, FreshReply, OnLeftover, InCycle

\* What the bytes need: a turn longer than the lag.
TurnExceedsLag == MaxLag < W

\* The bytes of the page are equal only when the FPGA has done the cycle, or
\* when one of them is left over.
LEMMA EqualBytes ==
    ASSUME TurnExceedsLag, TypeInv, FreshInv, counter >= 1,
           input_counter = output_counter
    PROVE  doneCycle = counter \/ OnLeftover
<1>1. /\ counter \in Nat /\ doneCycle \in Nat /\ counter >= 1
      /\ doneCycle <= counter /\ counter - doneCycle <= MaxLag
      /\ input_counter = counter % W /\ output_counter \in Bytes(doneCycle)
  BY DEF TypeInv, TypeOK, Cycle, FreshInv, CountersMatch, FpgaFollows, Bytes
<1>2. CASE doneCycle = 0
  <2>1. counter < W /\ counter <= MaxLag
    BY <1>1, <1>2 DEF TurnExceedsLag
  <2>2. counter % W = counter
    BY <1>1, <2>1, SMT
  <2> QED
    BY <1>1, <1>2, <2>1, <2>2 DEF Bytes, OnLeftover
<1>3. CASE doneCycle >= 1
  <2>1. counter % W = doneCycle % W /\ counter - doneCycle < W
    BY <1>1, <1>3 DEF Bytes, TurnExceedsLag
  <2> QED
    BY <1>1, <2>1, SameByte
<1> QED
  BY <1>1, <1>2, <1>3

\* An idle FPGA has served the byte of the cycle counted last.
LEMMA IdleBytes ==
    ASSUME FreshInv, Idle
    PROVE  /\ input_counter = seen /\ seen = output_counter
           /\ seen \in Bytes(counter)
BY DEF Idle, FreshInv, CountersMatch

LEMMA FreshRunning ==
    ASSUME TurnExceedsLag, TypeInv, FreshInv,
           Running \/ UNCHANGED vars, UNCHANGED <<left, restarts>>
    PROVE  FreshInv'
<1>0. /\ counter \in Nat /\ seenCycle \in Nat /\ doneCycle \in Nat
      /\ marte \in MarteSteps /\ fpga \in {"poll", "read", "publish"}
      /\ u \in [ivs3 : Cycle, zdot : Cycle] /\ got \subseteq PageFields
  BY DEF TypeInv, TypeOK, Cycle, Sample
<1> USE <1>0 DEF FreshInv, InCycle, PageFields, MarteSteps, Bytes
<1>1. CASE LoadIvs3
  <2>1. /\ marte = "ivs3" /\ marte' = "zdot" /\ ivs3' = counter + 1
        /\ FpgaKeepsUp
        /\ seenCycle' = IF Idle THEN counter ELSE seenCycle
        /\ doneCycle' = IF Idle THEN counter ELSE doneCycle
        /\ UNCHANGED <<counter, left, restarts, input_counter, output_counter,
                       inner_counter, seen, fpga>>
    BY <1>1 DEF LoadIvs3, statusVars, fpgaVars
  <2>2. CountersMatch'
    <3>1. CASE Idle
      BY <2>1, <3>1, IdleBytes DEF CountersMatch
    <3>2. CASE ~Idle
      BY <2>1, <3>2 DEF CountersMatch
    <3> QED
      BY <3>1, <3>2
  <2>3. FpgaFollows'
    <3>1. CASE Idle
      BY <2>1, <3>1 DEF FpgaFollows, Idle
    <3>2. CASE ~Idle
      BY <2>1, <3>2 DEF FpgaFollows, FpgaKeepsUp
    <3> QED
      BY <3>1, <3>2
  <2>4. PageLoaded'
    BY <2>1 DEF PageLoaded
  <2> QED
    BY <2>1, <2>2, <2>3, <2>4
    DEF FpgaOnSample, ExtremumOnSample, ClassicChosen, PublishedThisCycle, FreshReply, OnLeftover
<1>2. CASE LoadZdot
  <2>1. marte = "zdot" /\ marte' = "increment" /\ zdot' = counter + 1
        /\ UNCHANGED <<ivs3, counter, input_counter, output_counter, inner_counter,
                       left, restarts, seen, seenCycle, doneCycle, fpga>>
    BY <1>2 DEF LoadZdot, statusVars, workVars, fpgaVars
  <2>2. CountersMatch' /\ FpgaFollows' /\ PageLoaded'
    BY <2>1 DEF CountersMatch, FpgaFollows, PageLoaded
  <2> QED
    BY <2>1, <2>2
    DEF FpgaOnSample, ExtremumOnSample, ClassicChosen, PublishedThisCycle, FreshReply, OnLeftover
<1>3. CASE IncrementCounter
  <2>1. /\ marte = "increment" /\ marte' = "oracleIs1"
        /\ counter' = counter + 1 /\ input_counter' = (counter + 1) % W
        /\ counter + 1 - doneCycle <= MaxLag
        /\ UNCHANGED <<left, restarts, ivs3, zdot, output_counter, inner_counter, seen,
                       seenCycle, doneCycle, fpga>>
    BY <1>3 DEF IncrementCounter, FpgaFollows, sampleVars, workVars, fpgaVars
  <2>2. CountersMatch'
    BY <2>1 DEF CountersMatch
  <2>3. FpgaFollows'
    BY <2>1 DEF FpgaFollows
  <2>4. PageLoaded'
    BY <2>1 DEF PageLoaded
  <2>5. seenCycle' # counter'
    BY <2>1 DEF FpgaFollows
  <2> QED
    BY <2>1, <2>2, <2>3, <2>4, <2>5
    DEF FpgaOnSample, ExtremumOnSample, ClassicChosen, PublishedThisCycle, FreshReply, OnLeftover
<1>4. CASE TestOracleForOne
  BY <1>4
  DEF TestOracleForOne, CountersMatch, FpgaFollows, PageLoaded, FpgaOnSample,
      ExtremumOnSample, ClassicChosen, PublishedThisCycle, FreshReply, OnLeftover,
      sampleVars, statusVars, workVars, fpgaVars, decideVars, sentVars
<1>5. CASE TestOracleForZero
  BY <1>5
  DEF TestOracleForZero, CountersMatch, FpgaFollows, PageLoaded, FpgaOnSample,
      ExtremumOnSample, ClassicChosen, PublishedThisCycle, FreshReply, OnLeftover,
      sampleVars, statusVars, workVars, fpgaVars, decideVars, sentVars
<1>6. CASE ExecuteExtremum
  <2>1. marte = "extremum" /\ marte' = "swap"
        /\ es_output' = ExtremumOutput(es_state, [ivs3 |-> ivs3, zdot |-> zdot])
        /\ UNCHANGED <<sampleVars, counter, input_counter, workVars>>
    BY <1>6 DEF ExecuteExtremum, statusVars
  <2>2. es_output'.by = "es" /\ es_output'.u = [ivs3 |-> ivs3, zdot |-> zdot]
    BY <2>1 DEF ExtremumOutput
  <2>3. ExtremumOnSample'
    BY <2>1, <2>2 DEF ExtremumOnSample, PageLoaded, Whole
  <2>4. CountersMatch' /\ FpgaFollows' /\ PageLoaded' /\ FpgaOnSample'
    BY <2>1 DEF CountersMatch, FpgaFollows, PageLoaded, FpgaOnSample,
                sampleVars, workVars, fpgaVars
  <2> QED
    BY <2>1, <2>3, <2>4 DEF ClassicChosen, PublishedThisCycle, FreshReply, OnLeftover
<1>7. CASE SwapExtremum
  BY <1>7
  DEF SwapExtremum, CountersMatch, FpgaFollows, PageLoaded, FpgaOnSample,
      ExtremumOnSample, ClassicChosen, PublishedThisCycle, FreshReply, OnLeftover,
      sampleVars, statusVars, workVars, fpgaVars, decideVars, sentVars
<1>8. CASE SwapSpin
  <2>1. marte = "swap" /\ marte' = "copy" /\ marte_strategy = 1
        /\ input_counter = output_counter
        /\ UNCHANGED <<sampleVars, statusVars, counter, workVars, es_output, vs3_ref>>
    BY <1>8 DEF SwapSpin
  <2>2. doneCycle = counter \/ OnLeftover
    BY <2>1, EqualBytes DEF TypeInv, TypeOK, AnsweredBefore, Cycle
  <2> QED
    BY <2>1, <2>2
    DEF CountersMatch, FpgaFollows, PageLoaded, FpgaOnSample, ExtremumOnSample,
        ClassicChosen, PublishedThisCycle, FreshReply, OnLeftover,
        sampleVars, statusVars, workVars, fpgaVars
<1>9. CASE SwapClassic
  <2>1. /\ marte = "copy" /\ marte' = "send" /\ marte_strategy = 1
        /\ vs3_ref' = classic_output
        /\ UNCHANGED <<sampleVars, statusVars, counter, workVars, es_output>>
    BY <1>9 DEF SwapClassic, ClassicChosen
  <2>2. CountersMatch' /\ FpgaFollows'
    BY <2>1 DEF CountersMatch, FpgaFollows, statusVars, workVars, fpgaVars
  <2>3. PageLoaded' /\ FpgaOnSample' /\ ExtremumOnSample'
    BY <2>1
    DEF PageLoaded, FpgaOnSample, ExtremumOnSample, sampleVars, workVars, fpgaVars
  <2>4. FreshReply'
    <3>1. CASE doneCycle = counter
      <4>1. seenCycle = counter /\ fpga = "poll"
        BY <2>1, <3>1 DEF FpgaFollows, TypeInv, TypeOK, AnsweredBefore, Cycle
      <4> QED
        BY <2>1, <4>1 DEF FpgaOnSample, FreshReply, statusVars
    <3>2. CASE OnLeftover
      BY <2>1, <3>2 DEF FreshReply, OnLeftover, statusVars
    <3> QED
      BY <2>1, <3>1, <3>2 DEF PublishedThisCycle
  <2> QED
    BY <2>1, <2>2, <2>3, <2>4 DEF ClassicChosen, PublishedThisCycle
<1>10. CASE Send
  BY <1>10
  DEF Send, CountersMatch, FpgaFollows, PageLoaded, FpgaOnSample,
      ExtremumOnSample, ClassicChosen, PublishedThisCycle, FreshReply, OnLeftover,
      sampleVars, statusVars, workVars, fpgaVars, decideVars, sentVars
<1>11. CASE FpgaLatch
  <2>1. /\ fpga = "poll" /\ fpga' = "read" /\ got' = {}
        /\ seen' = input_counter /\ input_counter # inner_counter
        /\ seenCycle' = counter
        /\ UNCHANGED <<ivs3, zdot, input_counter, marte_strategy, marte, counter,
                       es_output, vs3_ref, output_counter, inner_counter, doneCycle>>
    BY <1>11
    DEF FpgaLatch, Latch, marteSide, sampleVars, statusVars, marteVars
  <2>2. CountersMatch'
    BY <2>1 DEF CountersMatch
  <2>3. doneCycle < counter \/ (counter = 0 /\ restarts > 0)
    <3>1. doneCycle = seenCycle /\ seenCycle <= counter /\ seen = inner_counter
          /\ seen \in Bytes(seenCycle) /\ input_counter \in Bytes(counter)
      BY <2>1 DEF CountersMatch, FpgaFollows
    <3>2. CASE seenCycle = counter /\ counter = 0
      <4>1. restarts # 0
        BY <2>1, <3>1, <3>2 DEF CountersMatch
      <4> QED
        BY <3>2, <4>1 DEF TypeInv, TypeOK
    <3>3. CASE seenCycle = counter /\ counter # 0
      BY <2>1, <3>1, <3>3
    <3> QED
      BY <3>1, <3>2, <3>3
  <2>4. FpgaFollows'
    BY <2>1, <2>3 DEF FpgaFollows
  <2>5. PageLoaded' /\ FpgaOnSample' /\ ExtremumOnSample'
    BY <2>1 DEF PageLoaded, FpgaOnSample, ExtremumOnSample
  <2> QED
    BY <2>1, <2>2, <2>4, <2>5
    DEF ClassicChosen, PublishedThisCycle, FreshReply, OnLeftover
<1>12. CASE FpgaReadSample
  BY <1>12
  DEF FpgaReadSample, ReadIvs3, ReadZdot, Reading, CountersMatch, FpgaFollows,
      PageLoaded, FpgaOnSample, ExtremumOnSample, ClassicChosen,
      PublishedThisCycle, FreshReply, OnLeftover, marteSide, sampleVars, statusVars, marteVars,
      decideVars, sentVars
<1>13. CASE FpgaReadStrategy
  BY <1>13
  DEF FpgaReadStrategy, ReadStrategy, Reading, CountersMatch, FpgaFollows, PageLoaded, FpgaOnSample,
      ExtremumOnSample, ClassicChosen, PublishedThisCycle, FreshReply, OnLeftover,
      marteSide, sampleVars, statusVars, marteVars, decideVars, sentVars
<1>14. CASE FpgaCompute
  <2>1. fpga = "read" /\ fpga' = "publish" /\ got = PageFields
        /\ classic_output' = ClassicOutput(x_old, u)
        /\ UNCHANGED <<marteSide, seen, got, u, inner_counter, output_counter,
                       seenCycle, doneCycle>>
    BY <1>14 DEF FpgaCompute, Compute
  <2>2. classic_output'.by = "classic" /\ classic_output'.u = u
    BY <2>1 DEF ClassicOutput
  <2>3. InCycle /\ seenCycle = counter => u = Whole(counter)
    BY <2>1 DEF FpgaOnSample, Whole
  <2>4. FpgaOnSample'
    BY <2>1, <2>2, <2>3
    DEF FpgaOnSample, marteSide, marteVars
  <2> QED
    BY <2>1, <2>4
    DEF CountersMatch, FpgaFollows, PageLoaded, ExtremumOnSample,
        ClassicChosen, PublishedThisCycle, FreshReply, OnLeftover,
        marteSide, sampleVars, statusVars, marteVars
<1>15. CASE FpgaPublish
  BY <1>15
  DEF FpgaPublish, Publish, CountersMatch, FpgaFollows, PageLoaded, FpgaOnSample,
      ExtremumOnSample, ClassicChosen, PublishedThisCycle, FreshReply, OnLeftover,
      marteSide, sampleVars, statusVars, marteVars, decideVars, sentVars
<1>16. CASE OracleDecides
  BY <1>16
  DEF OracleDecides, CountersMatch, FpgaFollows, PageLoaded, FpgaOnSample,
      ExtremumOnSample, ClassicChosen, PublishedThisCycle, FreshReply, OnLeftover,
      sampleVars, statusVars, marteVars, workVars, fpgaVars, sentVars
<1>17. CASE UNCHANGED vars
  BY <1>17
  DEF vars, CountersMatch, FpgaFollows, PageLoaded, FpgaOnSample,
      ExtremumOnSample, ClassicChosen, PublishedThisCycle, FreshReply, OnLeftover,
      sampleVars, statusVars, marteVars, workVars, fpgaVars, decideVars, sentVars
<1> QED
  BY <1>1, <1>2, <1>3, <1>4, <1>5, <1>6, <1>7, <1>8, <1>9, <1>10, <1>11,
     <1>12, <1>13, <1>14, <1>15, <1>16, <1>17
  DEF Running, Marte, Fpga

LEMMA FreshRestart == ASSUME TypeInv, FreshInv, Restart PROVE FreshInv'
<1>1. /\ {input_counter, seen, output_counter, inner_counter} \subseteq left'
      /\ UNCHANGED <<input_counter, seen, output_counter, inner_counter, fpga>>
      /\ restarts' > 0 /\ MaxLag >= 1
  BY DEF Restart, statusVars, TypeInv, TypeOK, FreshInv, CountersMatch
<1> QED
  BY <1>1
  DEF Restart, StartsOver, statusVars, TypeInv, TypeOK, FreshInv, CountersMatch, Bytes,
      FpgaFollows, PageLoaded, FpgaOnSample, ExtremumOnSample, ClassicChosen,
      PublishedThisCycle, FreshReply, InCycle

LEMMA FreshStep ==
    TurnExceedsLag /\ TypeInv /\ FreshInv /\ [Next]_vars => FreshInv'
BY FreshRunning, FreshRestart DEF Next, startVars, vars

LEMMA FreshAlways == TurnExceedsLag => (Spec => [](TypeInv /\ FreshInv))
<1> SUFFICES ASSUME TurnExceedsLag PROVE Spec => [](TypeInv /\ FreshInv)
  OBVIOUS
<1>1. Init => TypeInv /\ FreshInv
  BY TypeInit, FreshInit
<1>2. TypeInv /\ FreshInv /\ [Next]_vars => (TypeInv /\ FreshInv)'
  BY TypeStep, FreshStep
<1> QED
  BY <1>1, <1>2, PTL DEF Spec

\* When the FPGA is never a whole turn of the counter behind, the value sent
\* was computed from the sample of its own cycle: after any number of
\* restarts on any bytes, but for the cycles on a byte left over.
THEOREM Freshness == TurnExceedsLag => (Spec => []FreshReply)
<1>1. FreshInv => FreshReply
  BY DEF FreshInv
<1> QED
  BY <1>1, FreshAlways, PTL

\* The spin of VSGAMSwap has then waited for the FPGA's answer to this cycle,
\* again but for the cycles on a byte left over.
THEOREM SpinWaits == TurnExceedsLag => (Spec => []PublishedThisCycle)
<1>1. FreshInv => PublishedThisCycle
  BY DEF FreshInv
<1> QED
  BY <1>1, FreshAlways, PTL
-----------------------------------------------------------------------------
\* What the page holds is not replaced while the thread is about to copy it:
\* the FPGA has finished this cycle, and starts only on another byte.
THEOREM CopyUndisturbed == TurnExceedsLag => (Spec => NoOverwriteDuringCopy)
<1> SUFFICES ASSUME TurnExceedsLag PROVE Spec => NoOverwriteDuringCopy
  OBVIOUS
<1>1. TypeInv /\ FreshInv /\ [Next]_vars
        => [marte = "copy" /\ ~OnLeftover /\ UNCHANGED restarts
              => classic_output' = classic_output]_vars
  <2> SUFFICES ASSUME TypeInv, FreshInv, Running, marte = "copy", ~OnLeftover
               PROVE  classic_output' = classic_output
    BY DEF vars, workVars, Next, Restart, TypeInv, TypeOK
  <2>1. doneCycle = counter /\ fpga = "poll"
    BY DEF FreshInv, TypeInv, TypeOK, AnsweredBefore, InCycle, FpgaFollows,
           PublishedThisCycle, Cycle
  <2>2. CASE Marte
    BY <2>2 DEF Marte, LoadIvs3, LoadZdot, IncrementCounter, TestOracleForOne,
       TestOracleForZero, ExecuteExtremum, SwapExtremum, SwapSpin, SwapClassic,
       Send, workVars
  <2>3. CASE Fpga
    BY <2>1, <2>3 DEF Fpga, FpgaLatch, Latch, FpgaReadSample, ReadIvs3, ReadZdot,
       Reading, FpgaReadStrategy, ReadStrategy, FpgaCompute, Compute, FpgaPublish, Publish
  <2>4. CASE OracleDecides
    BY <2>4 DEF OracleDecides, workVars
  <2> QED
    BY <2>2, <2>3, <2>4 DEF Running
<1> QED
  BY <1>1, FreshAlways, PTL DEF Spec, NoOverwriteDuringCopy
-----------------------------------------------------------------------------
(***************************************************************************)
(* The oracle's decision.  If the first read is 1, that read decides.  If  *)
(* not, and the second is 0, the second decides.  If the second is neither *)
(* 0 nor 1 it decides to keep the strategy; and if it is 1, one of the two *)
(* reads agrees with the strategy that is kept.                            *)
(***************************************************************************)
LEMMA DecisionStep ==
    ASSUME TypeInv, DecisionInv, [Next]_vars PROVE DecisionInv'
<1>0. marte \in MarteSteps /\ before \in {0, 1} /\ marte_strategy \in {0, 1}
  BY DEF TypeInv, TypeOK
<1> USE <1>0 DEF DecisionInv, DecisionLinearizable, Decide, MarteSteps
<1>1. CASE LoadIvs3 \/ LoadZdot \/ Send
  BY <1>1 DEF LoadIvs3, LoadZdot, Send
<1>2. CASE IncrementCounter
  BY <1>2 DEF IncrementCounter
<1>3. CASE TestOracleForOne
  <2>1. oracle_decision \in held /\ UNCHANGED <<held, before, oracle_decision>>
    BY <1>3 DEF TestOracleForOne, decideVars
  <2>2. CASE oracle_decision = 1
    BY <1>3, <2>1, <2>2 DEF TestOracleForOne
  <2>3. CASE oracle_decision # 1
    BY <1>3, <2>1, <2>3 DEF TestOracleForOne
  <2> QED
    BY <2>2, <2>3
<1>4. CASE TestOracleForZero
  <2>1. /\ oracle_decision \in held /\ marte_strategy = before
        /\ marte' = "extremum" /\ UNCHANGED <<held, before>>
    BY <1>4 DEF TestOracleForZero, decideVars
  <2>2. PICK v \in held : v # 1
    BY <1>4 DEF TestOracleForZero
  <2>3. marte_strategy' = IF oracle_decision = 0 THEN 0 ELSE before
    BY <1>4, <2>1 DEF TestOracleForZero
  <2>4. \E w \in held : marte_strategy' = Decide(w, before)
    <3>1. CASE oracle_decision # 1 \/ before = 1
      BY <2>1, <2>3, <3>1
    <3>2. CASE oracle_decision = 1 /\ before = 0
      BY <2>2, <2>3, <3>2
    <3> QED
      BY <3>1, <3>2
  <2> QED
    BY <2>1, <2>4
<1>5. CASE ExecuteExtremum \/ SwapExtremum \/ SwapSpin \/ SwapClassic
  BY <1>5 DEF ExecuteExtremum, SwapExtremum, SwapSpin, SwapClassic, statusVars, decideVars
<1>6. CASE Fpga
  BY <1>6 DEF Fpga, FpgaLatch, FpgaReadSample, FpgaReadStrategy,
     FpgaCompute, FpgaPublish, marteSide, statusVars, marteVars, decideVars
<1>7. CASE OracleDecides
  BY <1>7 DEF OracleDecides, statusVars, marteVars
<1>8. CASE UNCHANGED vars
  BY <1>8 DEF vars, statusVars, marteVars, decideVars
<1>9. CASE Restart
  BY <1>9 DEF Restart, StartsOver
<1> QED
  BY <1>1, <1>2, <1>3, <1>4, <1>5, <1>6, <1>7, <1>8, <1>9 DEF Next, Running, Marte

\* The double read of oracle_decision in VSGAMIncrement::Execute acts as one,
\* whatever bytes the oracle writes and however often it changes its mind.
THEOREM DecisionIsOneRead == Spec => []DecisionLinearizable
<1>1. Init => TypeInv /\ DecisionInv
  BY TypeInit DEF Init, DecisionInv, DecisionLinearizable
<1>2. TypeInv /\ DecisionInv /\ [Next]_vars => (TypeInv /\ DecisionInv)'
  BY TypeStep, DecisionStep
<1>3. DecisionInv => DecisionLinearizable
  BY DEF DecisionInv
<1> QED
  BY <1>1, <1>2, <1>3, PTL DEF Spec
-----------------------------------------------------------------------------
(***************************************************************************)
(* ControlCycle implements Controller when the FPGA is done with a cycle   *)
(* before the next sample is loaded and MARTe is started once: every       *)
(* answer is what one indivisible step of the controller could have given, *)
(* wherever between the two stores of VSGAMIncrement, or after them, the   *)
(* FPGA reads the strategy.                                                *)
(***************************************************************************)
Punctual == MaxLag = 1 /\ TurnExceedsLag /\ MaxRestarts = 0

\* The FPGA has computed, if not yet published, the cycle counted last.
Computed == seenCycle = counter /\ fpga # "read"

\* Extremum seeking has integrated every sample, this cycle's once it ran.
ExtremumIntegrates ==
    /\ es_state = Upto(IF marte \in {"oracleIs1", "oracleIs0", "extremum"}
                       THEN counter - 1 ELSE counter)
    /\ marte \in {"swap", "copy", "send"} =>
           es_output = ExtremumOutput(Upto(counter - 1), Whole(counter))

\* Until the next sample is loaded the page holds the one counted last, and
\* what the FPGA has read is of it.
SampleStays ==
    marte = "ivs3" =>
        /\ ivs3 = counter /\ zdot = counter
        /\ seenCycle = counter =>
               /\ "ivs3" \in got => u.ivs3 = counter
               /\ "zdot" \in got => u.zdot = counter

\* In a cycle before is the strategy of the one before, and the FPGA has read
\* that strategy or the one the cycle has come to.
StrategyRead ==
    /\ fpga = "poll" => got = {}
    /\ marte \in {"oracleIs1", "oracleIs0"} => marte_strategy = before
    /\ InCycle /\ seenCycle = counter /\ ("strategy" \in got \/ fpga # "read") =>
           strategy \in {before, marte_strategy}

(***************************************************************************)
(* The law in the FPGA and the run of classic cycles.  In a cycle its      *)
(* state is the run, or one sample ahead; after the answer it is the run   *)
(* again, or behind by the sample that the FPGA is still to compute.       *)
(***************************************************************************)
ClassicIntegrates ==
    /\ InCycle /\ ~Computed => x_old = run
    /\ InCycle /\ Computed =>
           /\ x_old = ClassicState(run, Whole(counter), strategy)
           /\ classic_output = ClassicOutput(run, Whole(counter))
    /\ ~InCycle /\ Computed => x_old = run
    /\ ~InCycle /\ ~Computed =>
           /\ marte = "ivs3"
           /\ run = ClassicState(x_old, Whole(counter), Used)

SentValue ==
    marte = "send" =>
        /\ marte_strategy = 1 => doneCycle = counter
        /\ vs3_ref = IF marte_strategy = 1
                     THEN ClassicOutput(run, Whole(counter))
                     ELSE ExtremumOutput(Upto(counter - 1), Whole(counter))

PromiseInv ==
    /\ ExtremumIntegrates /\ SampleStays /\ StrategyRead
    /\ ClassicIntegrates /\ SentValue

AllInv == TypeInv /\ FreshInv /\ PromiseInv
-----------------------------------------------------------------------------
LEMMA UptoZero == Upto(0) = << >>
BY DEF Upto

LEMMA UptoNext == ASSUME NEW n \in Nat PROVE Append(Upto(n), Whole(n + 1)) = Upto(n + 1)
BY DEF Upto

LEMMA PromiseInit == Init => PromiseInv
BY UptoZero
DEF Init, FpgaInit, FpgaIdle, PromiseInv, ExtremumIntegrates, SampleStays,
    StrategyRead, ClassicIntegrates, SentValue, InCycle, Computed

\* The facts of the other invariants the steps below rest on; a board that
\* is started once finds no byte left over.
LEMMA Counting ==
    ASSUME Punctual, TypeInv, FreshInv
    PROVE  /\ counter \in Nat /\ seenCycle \in Nat /\ doneCycle \in Nat
           /\ marte \in MarteSteps /\ fpga \in {"poll", "read", "publish"}
           /\ marte_strategy \in {0, 1} /\ strategy \in {0, 1}
           /\ answered = IF InCycle THEN counter - 1 ELSE counter
           /\ InCycle => counter \in 1 .. MaxCycle
           /\ seenCycle <= counter /\ doneCycle <= seenCycle
           /\ counter - doneCycle <= 1
           /\ marte \in {"zdot", "increment"} => doneCycle = counter
           /\ fpga = "poll" <=> doneCycle = seenCycle
           /\ left = {0} /\ restarts = 0
<1>1. left = {0} /\ restarts = 0
  BY DEF Punctual, TypeInv, TypeOK, FreshInv, CountersMatch
<1> QED
  BY <1>1 DEF Punctual, TypeInv, TypeOK, AnsweredBefore, Cycle, FreshInv, FpgaFollows

\* Nor does an idle FPGA of such a board owe a cycle.
LEMMA IdleIsDone ==
    ASSUME Punctual, TypeInv, FreshInv, Idle
    PROVE  doneCycle = counter
<1>1. CASE counter = 0
  BY <1>1, Counting
<1>2. CASE counter # 0
  <2>1. input_counter = output_counter /\ counter >= 1
    BY <1>2, Counting, IdleBytes
  <2>2. ~OnLeftover
    BY <1>2, Counting DEF OnLeftover
  <2> QED
    BY <2>1, <2>2, EqualBytes DEF Punctual
<1> QED
  BY <1>1, <1>2

LEMMA PromiseRunning ==
    ASSUME Punctual, TypeInv, FreshInv, PromiseInv,
           Running \/ UNCHANGED vars, UNCHANGED <<left, restarts>>
    PROVE  PromiseInv'
<1> USE Counting DEF InCycle, Computed, MarteSteps, PromiseInv, ExtremumIntegrates,
                     SampleStays, StrategyRead, ClassicIntegrates, SentValue
<1>1. CASE LoadIvs3
  <2>1. /\ marte = "ivs3" /\ marte' = "zdot" /\ FpgaKeepsUp
        /\ seenCycle' = IF Idle THEN counter ELSE seenCycle
        /\ UNCHANGED <<counter, es_state, fpga, got, strategy, x_old, run, marte_strategy>>
    BY <1>1 DEF LoadIvs3, statusVars, fpgaVars, sentVars
  <2>2. doneCycle = counter
    BY <2>1, IdleIsDone DEF FpgaKeepsUp, Punctual
  <2>3. seenCycle = counter /\ fpga = "poll"
    BY <2>2
  <2> QED
    BY <2>1, <2>3
<1>2. CASE LoadZdot
  BY <1>2 DEF LoadZdot, statusVars, workVars, fpgaVars, sentVars
<1>3. CASE IncrementCounter
  <2>1. doneCycle = counter /\ fpga = "poll" /\ seenCycle = counter
    BY <1>3 DEF IncrementCounter
  <2> QED
    BY <1>3, <2>1 DEF IncrementCounter, workVars, fpgaVars, sentVars
<1>4. CASE TestOracleForOne
  BY <1>4 DEF TestOracleForOne, workVars, fpgaVars, decideVars, sentVars
<1>5. CASE TestOracleForZero
  BY <1>5 DEF TestOracleForZero, workVars, fpgaVars, decideVars, sentVars
<1>6. CASE ExecuteExtremum
  <2>1. ivs3 = counter /\ zdot = counter /\ counter - 1 \in Nat /\ marte = "extremum"
    BY <1>6 DEF ExecuteExtremum, FreshInv, PageLoaded
  <2>2. [ivs3 |-> ivs3, zdot |-> zdot] = Whole(counter)
    BY <2>1 DEF Whole
  <2>3. es_state' = Append(Upto(counter - 1), Whole(counter))
        /\ es_output' = ExtremumOutput(Upto(counter - 1), Whole(counter))
    BY <1>6, <2>1, <2>2 DEF ExecuteExtremum
  <2>4. es_state' = Upto(counter)
    <3>1. (counter - 1) + 1 = counter
      OBVIOUS
    <3> QED
      BY <2>1, <2>3, <3>1, UptoNext
  <2> QED
    BY <1>6, <2>3, <2>4
    DEF ExecuteExtremum, statusVars, workVars, fpgaVars, decideVars, sentVars
<1>7. CASE SwapExtremum
  BY <1>7 DEF SwapExtremum, statusVars, workVars, fpgaVars, decideVars, sentVars
<1>8. CASE SwapSpin
  BY <1>8 DEF SwapSpin, statusVars, workVars, fpgaVars, decideVars, sentVars
<1>9. CASE SwapClassic
  <2>1. marte = "copy" /\ marte_strategy = 1 /\ ~OnLeftover
    BY <1>9 DEF SwapClassic, FreshInv, ClassicChosen, OnLeftover
  <2>2. doneCycle = counter /\ fpga = "poll" /\ seenCycle = counter
    BY <2>1 DEF FreshInv, PublishedThisCycle
  <2> QED
    BY <1>9, <2>1, <2>2
    DEF SwapClassic, statusVars, workVars, fpgaVars, decideVars, sentVars
<1>10. CASE Send
  <2>1. /\ marte = "send" /\ marte' = "ivs3"
        /\ run' = ClassicState(run, Whole(counter), Used)
        /\ UNCHANGED <<sampleVars, statusVars, counter, es_state, workVars>>
    BY <1>10 DEF Send
  <2>2. ivs3 = counter /\ zdot = counter
    BY <2>1 DEF FreshInv, PageLoaded
  <2>3. SampleStays'
    BY <2>1, <2>2 DEF FreshInv, FpgaOnSample, sampleVars, workVars, fpgaVars
  <2>4. ClassicIntegrates'
    <3>1. CASE Computed
      <4>1. Used = strategy
        BY <3>1 DEF Used
      <4> QED
        BY <2>1, <3>1, <4>1 DEF workVars, fpgaVars
    <3>2. CASE ~Computed
      <4>1. Used' = Used
        BY <2>1 DEF Used, statusVars, workVars, fpgaVars
      <4> QED
        BY <2>1, <3>2, <4>1 DEF workVars, fpgaVars
    <3> QED
      BY <3>1, <3>2
  <2> QED
    BY <2>1, <2>3, <2>4 DEF workVars, fpgaVars
<1>11. CASE FpgaLatch
  <2>1. /\ fpga = "poll" /\ fpga' = "read" /\ got' = {} /\ seenCycle' = counter
        /\ UNCHANGED <<marte, counter, marte_strategy, strategy, x_old, run, before,
                       es_state, es_output, vs3_ref, ivs3, zdot, doneCycle>>
    BY <1>11 DEF FpgaLatch, Latch, marteSide, sampleVars, statusVars, marteVars,
                 decideVars, sentVars
  <2>2. /\ input_counter \in Bytes(counter) /\ inner_counter \in Bytes(seenCycle)
        /\ input_counter # inner_counter
    BY <1>11, <2>1 DEF FpgaLatch, Latch, FreshInv, CountersMatch
  <2>3. seenCycle # counter
    BY <2>2 DEF Bytes
  <2>4. ClassicIntegrates'
    BY <2>1, <2>3 DEF Used
  <2> QED
    BY <2>1, <2>3, <2>4
<1>12. CASE FpgaReadSample
  <2>1. /\ fpga = "read" /\ UNCHANGED <<marteSide, fpga, strategy, x_old, classic_output>>
        /\ UNCHANGED <<seenCycle, doneCycle>>
        /\ "strategy" \in got' <=> "strategy" \in got
    BY <1>12 DEF FpgaReadSample, ReadIvs3, ReadZdot, Reading
  <2>2. UNCHANGED <<marte, counter, marte_strategy, before, run, es_state, es_output,
                    vs3_ref, ivs3, zdot>>
    BY <2>1 DEF marteSide, sampleVars, statusVars, marteVars, decideVars, sentVars
  <2>3. Used' = Used
    BY <2>1, <2>2 DEF Used
  <2>4. SampleStays'
    <3>0. u \in Sample
      BY DEF TypeInv, TypeOK
    <3>1. CASE ReadIvs3
      <4>1. got' = got \cup {"ivs3"} /\ u'.ivs3 = ivs3 /\ u'.zdot = u.zdot
        BY <3>0, <3>1 DEF ReadIvs3, Reading, Sample
      <4> QED
        BY <2>1, <2>2, <4>1
    <3>2. CASE ReadZdot
      <4>1. got' = got \cup {"zdot"} /\ u'.zdot = zdot /\ u'.ivs3 = u.ivs3
        BY <3>0, <3>2 DEF ReadZdot, Reading, Sample
      <4> QED
        BY <2>1, <2>2, <4>1
    <3> QED
      BY <1>12, <3>1, <3>2 DEF FpgaReadSample
  <2> QED
    BY <2>1, <2>2, <2>3, <2>4
<1>13. CASE FpgaReadStrategy
  <2>1. /\ fpga = "read" /\ strategy' = marte_strategy /\ "strategy" \notin got
        /\ got' = got \cup {"strategy"}
        /\ UNCHANGED <<marteSide, fpga, u, x_old, classic_output, seenCycle, doneCycle>>
    BY <1>13 DEF FpgaReadStrategy, ReadStrategy, Reading
  <2>2. UNCHANGED <<marte, counter, marte_strategy, before, run, es_state, es_output,
                    vs3_ref, ivs3, zdot>>
    BY <2>1 DEF marteSide, sampleVars, statusVars, marteVars, decideVars, sentVars
  <2>3. Used' = Used
    BY <2>1, <2>2 DEF Used
  <2> QED
    BY <2>1, <2>2, <2>3
<1>14. CASE FpgaCompute
  <2>1. fpga = "read" /\ fpga' = "publish" /\ got = PageFields
        /\ classic_output' = ClassicOutput(x_old, u)
        /\ x_old' = ClassicState(x_old, u, strategy)
        /\ UNCHANGED <<marteSide, got, u, strategy, seenCycle, doneCycle>>
    BY <1>14 DEF FpgaCompute, Compute
  <2>2. UNCHANGED <<marte, counter, marte_strategy, before, run, es_state, es_output,
                    vs3_ref, ivs3, zdot>>
    BY <2>1 DEF marteSide, sampleVars, statusVars, marteVars, decideVars, sentVars
  <2>3. seenCycle = counter
    BY <2>1
  <2>4. Used = strategy
    BY <2>1, <2>3 DEF Used, PageFields
  <2>5. InCycle \/ marte = "ivs3"
    BY <2>1, <2>3
  <2>6. u = Whole(counter)
    BY <2>1, <2>3, <2>5 DEF FreshInv, FpgaOnSample, PageFields, Whole, TypeInv, TypeOK, Sample
  <2> QED
    BY <2>1, <2>2, <2>3, <2>4, <2>5, <2>6 DEF PageFields
<1>15. CASE FpgaPublish
  <2>1. fpga = "publish" /\ fpga' = "poll" /\ got' = {}
        /\ UNCHANGED <<marteSide, strategy, x_old, classic_output, seenCycle>>
    BY <1>15 DEF FpgaPublish, Publish
  <2>2. UNCHANGED <<marte, counter, marte_strategy, before, run, es_state, es_output,
                    vs3_ref, ivs3, zdot>>
    BY <2>1 DEF marteSide, sampleVars, statusVars, marteVars, decideVars, sentVars
  <2>3. seenCycle = counter /\ doneCycle' = counter
    BY <1>15, <2>1 DEF FpgaPublish
  <2> QED
    BY <2>1, <2>2, <2>3
<1>16. CASE OracleDecides
  BY <1>16 DEF OracleDecides, sampleVars, statusVars, marteVars, workVars, fpgaVars, sentVars, Used
<1>17. CASE UNCHANGED vars
  BY <1>17 DEF vars, sampleVars, statusVars, marteVars, workVars, fpgaVars, decideVars, sentVars, Used
<1> QED
  BY <1>1, <1>2, <1>3, <1>4, <1>5, <1>6, <1>7, <1>8, <1>9, <1>10, <1>11,
     <1>12, <1>13, <1>14, <1>15, <1>16, <1>17
  DEF Running, Marte, Fpga

\* There is no restart here.
LEMMA RunningOnly ==
    ASSUME Punctual, TypeInv, [Next]_vars
    PROVE  (Running \/ UNCHANGED vars) /\ UNCHANGED <<left, restarts>>
BY DEF Punctual, TypeInv, TypeOK, Next, Restart, startVars, vars

LEMMA PromiseStep == Punctual /\ AllInv /\ [Next]_vars => AllInv'
BY TypeStep, FreshStep, PromiseRunning, RunningOnly DEF AllInv, Punctual
-----------------------------------------------------------------------------
(***************************************************************************)
(* The run of classic cycles, in terms of what MARTe has decided.          *)
(***************************************************************************)
LEMMA StretchNext ==
    ASSUME NEW n \in Nat, NEW first \in 1 .. n + 1
    PROVE  Append(Stretch(first, n), Whole(n + 1)) = Stretch(first, n + 1)
BY DEF Stretch

LEMMA StretchEmpty == ASSUME NEW n \in Nat PROVE Stretch(n + 1, n) = << >>
BY DEF Stretch

\* What StrategyOf and Steady say, of any decisions and of any state.
StrategyIn(d, c) == IF c \in DOMAIN d THEN d[c] ELSE 0

SteadyIn(d, n, x) ==
    \E first \in 1 .. n + 1 :
        /\ x = Stretch(first, n)
        /\ \A c \in first .. n : 1 \in {StrategyIn(d, c), StrategyIn(d, c - 1)}
        /\ 0 \in {StrategyIn(d, first - 1), StrategyIn(d, first - 2)}

\* A cycle answered with strategy s, integrated with that or the last one's.
LEMMA SteadyStep ==
    ASSUME NEW n \in Nat, NEW d \in Seq({0, 1}), Len(d) = n,
           NEW x, SteadyIn(d, n, x),
           NEW s \in {0, 1}, NEW t \in {s, StrategyIn(d, n)}
    PROVE  SteadyIn(Append(d, s), n + 1, ClassicState(x, Whole(n + 1), t))
<1> DEFINE e == Append(d, s)
<1>1. /\ DOMAIN d = 1 .. n /\ DOMAIN e = 1 .. n + 1 /\ e[n + 1] = s
      /\ \A c \in 1 .. n : e[c] = d[c]
  OBVIOUS
<1> HIDE DEF e
<1>2. /\ StrategyIn(e, n + 1) = s
      /\ \A c \in Int : c <= n => StrategyIn(e, c) = StrategyIn(d, c)
  BY <1>1 DEF StrategyIn
<1>3. t \in {0, 1}
  BY <1>1 DEF StrategyIn
<1>4. CASE t = 0
  <2>1. ClassicState(x, Whole(n + 1), t) = Stretch(n + 2, n + 1)
    BY <1>4, StretchEmpty DEF ClassicState
  <2>2. 0 \in {StrategyIn(e, n + 1), StrategyIn(e, n)}
    BY <1>2, <1>4
  <2>3. SteadyIn(e, n + 1, ClassicState(x, Whole(n + 1), t))
    BY <2>1, <2>2 DEF SteadyIn
  <2> QED
    BY <2>3 DEF e
<1>5. CASE t = 1
  <2>1. PICK first \in 1 .. n + 1 :
            /\ x = Stretch(first, n)
            /\ \A c \in first .. n : 1 \in {StrategyIn(d, c), StrategyIn(d, c - 1)}
            /\ 0 \in {StrategyIn(d, first - 1), StrategyIn(d, first - 2)}
    BY DEF SteadyIn
  <2>2. ClassicState(x, Whole(n + 1), t) = Stretch(first, n + 1)
    <3>1. ClassicState(x, Whole(n + 1), t) = Append(Stretch(first, n), Whole(n + 1))
      BY <1>5, <2>1 DEF ClassicState
    <3>2. Append(Stretch(first, n), Whole(n + 1)) = Stretch(first, n + 1)
      BY StretchNext
    <3> QED
      BY <3>1, <3>2
  <2>3. ASSUME NEW c \in first .. n + 1
        PROVE  1 \in {StrategyIn(e, c), StrategyIn(e, c - 1)}
    <3>1. CASE c = n + 1
      BY <1>2, <1>5, <3>1
    <3>2. CASE c # n + 1
      BY <1>2, <2>1, <3>2
    <3> QED
      BY <3>1, <3>2
  <2>4. 0 \in {StrategyIn(e, first - 1), StrategyIn(e, first - 2)}
    BY <1>2, <2>1
  <2>5. SteadyIn(e, n + 1, ClassicState(x, Whole(n + 1), t))
    BY <2>1, <2>2, <2>3, <2>4 DEF SteadyIn
  <2> QED
    BY <2>5 DEF e
<1> QED
  BY <1>3, <1>4, <1>5

SteadyInv ==
    /\ Len(decided) = answered
    /\ StrategyIn(decided, answered) = IF InCycle THEN before ELSE marte_strategy
    /\ SteadyIn(decided, answered, run)

LEMMA SteadyInit == Init => SteadyInv
BY DEF Init, SteadyInv, SteadyIn, Stretch, StrategyIn, InCycle

\* Sending ends a cycle; the FPGA goes by this cycle's strategy or the last.
LEMMA AtSend ==
    ASSUME Punctual, AllInv, SteadyInv, Send
    PROVE  /\ answered \in Nat /\ counter = answered + 1 /\ counter <= MaxCycle
           /\ marte_strategy \in {0, 1} /\ Used \in {marte_strategy, before}
           /\ before = StrategyIn(decided, answered)
<1>1. marte = "send" /\ InCycle
  BY DEF Send, InCycle
<1>2. Used \in {marte_strategy, before}
  BY <1>1 DEF Used, AllInv, PromiseInv, StrategyRead
<1> QED
  BY <1>1, <1>2, Counting DEF AllInv, SteadyInv

LEMMA SteadyStays ==
    ASSUME Punctual, AllInv, SteadyInv, [Next]_vars
    PROVE  SteadyInv'
<1>1. CASE Send
  <2>1. /\ decided \in Seq({0, 1}) /\ Len(decided) = answered
        /\ SteadyIn(decided, answered, run)
    BY DEF AllInv, TypeInv, TypeOK, SteadyInv
  <2>2. /\ answered' = answered + 1 /\ decided' = Append(decided, marte_strategy)
        /\ run' = ClassicState(run, Whole(answered + 1), Used)
    BY <1>1, AtSend DEF Send
  <2>3. SteadyIn(decided', answered', run')
    BY <1>1, <2>1, <2>2, AtSend, SteadyStep
  <2>4. Len(decided') = answered' /\ StrategyIn(decided', answered') = marte_strategy
    BY <1>1, <2>1, <2>2, AtSend DEF StrategyIn
  <2>5. marte_strategy' = marte_strategy /\ ~InCycle'
    BY <1>1 DEF Send, InCycle, statusVars
  <2> QED
    BY <2>3, <2>4, <2>5 DEF SteadyInv
<1>2. CASE UNCHANGED <<decided, answered, run>>
           /\ (IF InCycle' THEN before' ELSE marte_strategy')
                = (IF InCycle THEN before ELSE marte_strategy)
  BY <1>2 DEF SteadyInv
<1>3. CASE LoadIvs3 \/ LoadZdot \/ ExecuteExtremum \/ SwapExtremum \/ SwapSpin \/ SwapClassic
  BY <1>2, <1>3 DEF LoadIvs3, LoadZdot, ExecuteExtremum, SwapExtremum, SwapSpin,
                    SwapClassic, InCycle, statusVars, decideVars, sentVars
<1>4. CASE IncrementCounter \/ TestOracleForOne \/ TestOracleForZero
  BY <1>2, <1>4 DEF IncrementCounter, TestOracleForOne, TestOracleForZero, InCycle,
                    decideVars, sentVars
<1>5. CASE Fpga
  BY <1>2, <1>5 DEF Fpga, FpgaLatch, FpgaReadSample, FpgaReadStrategy, FpgaCompute,
                    FpgaPublish, InCycle, marteSide, statusVars, marteVars, decideVars, sentVars
<1>6. CASE OracleDecides \/ UNCHANGED vars
  BY <1>2, <1>6 DEF OracleDecides, vars, InCycle, statusVars, marteVars, decideVars, sentVars
<1> QED
  BY <1>1, <1>3, <1>4, <1>5, <1>6, RunningOnly DEF Running, Marte, AllInv

LEMMA AllInit == Init => AllInv /\ SteadyInv
BY TypeInit, FreshInit, PromiseInit, SteadyInit DEF AllInv

\* Wherever the FPGA reads the strategy, a classic value is computed from the
\* samples of one stretch of cycles that a switch has shifted by one at most.
THEOREM StateIsSteady == Punctual => (Spec => []SteadyClassic)
<1> SUFFICES ASSUME Punctual PROVE Spec => []SteadyClassic
  OBVIOUS
<1>1. AllInv /\ SteadyInv => SteadyClassic
  BY DEF AllInv, PromiseInv, SentValue, SteadyInv, SteadyClassic, Steady,
         StrategyOf, SteadyIn, StrategyIn, ClassicOutput, ExtremumOutput
<1> QED
  BY <1>1, AllInit, PromiseStep, SteadyStays, PTL DEF Spec
-----------------------------------------------------------------------------
\* The values of the instance are those of this module.
LEMMA SameValues ==
    /\ Promise!NoValue = NoValue
    /\ \A n : Promise!Whole(n) = Whole(n) /\ Promise!Upto(n) = Upto(n)
    /\ \A x, s : /\ Promise!ClassicOutput(x, s) = ClassicOutput(x, s)
                 /\ Promise!ExtremumOutput(x, s) = ExtremumOutput(x, s)
    /\ \A x, s, d : Promise!ClassicState(x, s, d) = ClassicState(x, s, d)
BY DEF Promise!NoValue, Promise!Whole, Promise!Upto, Promise!ClassicOutput,
       Promise!ExtremumOutput, Promise!ClassicState, NoValue, Whole, Upto,
       ClassicOutput, ExtremumOutput, ClassicState

\* The cycles, byte by byte, implement the indivisible ones: sending is an
\* answer, and every other step is none of theirs.
THEOREM CyclesImplement == Punctual => (Spec => AnswersAsPromised)
<1> SUFFICES ASSUME Punctual PROVE Spec => AnswersAsPromised
  OBVIOUS
<1> DEFINE last == IF InCycle THEN before ELSE marte_strategy
<1>1. Init => Promise!ControllerInit
  BY SameValues DEF Init, InCycle, Promise!ControllerInit
<1>2. AllInv /\ SteadyInv /\ [Next]_vars => [Promise!Answer]_Promise!controllerVars
  <2> SUFFICES ASSUME AllInv, SteadyInv, [Next]_vars
               PROVE  Promise!Answer \/ (UNCHANGED <<answered, run, reply>> /\ last' = last)
    BY DEF Promise!controllerVars
  <2>1. CASE Send
    <3>1. /\ answered \in Nat /\ answered + 1 = counter /\ answered < MaxCycle
          /\ marte_strategy \in {0, 1} /\ Used \in {marte_strategy, before}
          /\ answered = counter - 1
      BY <2>1, AtSend, MaxCycleAssumption
    <3>2. last = before /\ last' = marte_strategy
      BY <2>1 DEF Send, InCycle, statusVars
    <3>3. reply' = Promise!Reply(marte_strategy)
      BY <2>1, <3>1, SameValues DEF Send, AllInv, PromiseInv, SentValue, Promise!Reply
    <3>4. /\ answered' = answered + 1
          /\ run' = Promise!ClassicState(run, Promise!Whole(answered + 1), Used)
      BY <2>1, <3>1, SameValues DEF Send
    <3> QED
      BY <3>1, <3>2, <3>3, <3>4 DEF Promise!Answer
  <2>2. CASE LoadIvs3 \/ LoadZdot \/ ExecuteExtremum \/ SwapExtremum \/ SwapSpin \/ SwapClassic
    BY <2>2 DEF LoadIvs3, LoadZdot, ExecuteExtremum, SwapExtremum, SwapSpin,
                SwapClassic, InCycle, statusVars, decideVars, sentVars
  <2>3. CASE IncrementCounter \/ TestOracleForOne \/ TestOracleForZero
    BY <2>3 DEF IncrementCounter, TestOracleForOne, TestOracleForZero, InCycle,
                decideVars, sentVars
  <2>4. CASE Fpga
    BY <2>4 DEF Fpga, FpgaLatch, FpgaReadSample, FpgaReadStrategy, FpgaCompute, FpgaPublish,
                InCycle, marteSide, statusVars, marteVars, decideVars, sentVars
  <2>5. CASE OracleDecides \/ UNCHANGED vars
    BY <2>5 DEF OracleDecides, vars, InCycle, statusVars, marteVars, decideVars, sentVars
  <2> QED
    BY <2>1, <2>2, <2>3, <2>4, <2>5, RunningOnly DEF Running, Marte, AllInv
<1> QED
  BY <1>1, <1>2, AllInit, PromiseStep, SteadyStays, PTL
  DEF Spec, AnswersAsPromised, Promise!ControllerSpec
=============================================================================
