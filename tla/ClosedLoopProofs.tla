-------------------------- MODULE ClosedLoopProofs --------------------------
(***************************************************************************)
(* What is proved of the control cycle alone holds of it in the closed     *)
(* loop, and what is proved of the lockstep holds of the closed loop.      *)
(***************************************************************************)
EXTENDS ClosedLoop, SequenceTheorems, TLAPS

USE CountAssumption, FaultsAssumption, MaxFaultsAssumption, BoardAssumption

\* The control cycle of this loop, with its theorems.
BoardProofs == INSTANCE ControlCycleProofs

LEMMA SameInit == Board!Init => BoardProofs!Init
BY DEF Board!Init, BoardProofs!Init, Board!FpgaInit, BoardProofs!FpgaInit,
       Board!FpgaIdle, BoardProofs!FpgaIdle, Board!Whole, BoardProofs!Whole,
       Board!NoValue, BoardProofs!NoValue

\* The steps of the control cycle are the same in both instances.
LEMMA SameThread ==
    /\ Board!LoadIvs3 => BoardProofs!LoadIvs3
    /\ Board!LoadZdot => BoardProofs!LoadZdot
    /\ Board!IncrementCounter => BoardProofs!IncrementCounter
    /\ Board!TestOracleForOne => BoardProofs!TestOracleForOne
    /\ Board!TestOracleForZero => BoardProofs!TestOracleForZero
    /\ Board!ExecuteExtremum => BoardProofs!ExecuteExtremum
    /\ Board!SwapExtremum => BoardProofs!SwapExtremum
    /\ Board!SwapSpin => BoardProofs!SwapSpin
    /\ Board!SwapClassic => BoardProofs!SwapClassic
    /\ Board!Send => BoardProofs!Send
BY DEF Board!LoadIvs3, Board!LoadZdot, Board!IncrementCounter,
       Board!TestOracleForOne, Board!TestOracleForZero, Board!ExecuteExtremum,
       Board!SwapExtremum, Board!SwapSpin, Board!SwapClassic, Board!Send,
       Board!FpgaKeepsUp, Board!Idle, Board!Used, Board!ExtremumOutput, Board!ClassicState, Board!Whole,
       Board!sampleVars, Board!statusVars, Board!workVars, Board!fpgaVars,
       Board!decideVars, Board!sentVars,
       BoardProofs!LoadIvs3, BoardProofs!LoadZdot, BoardProofs!IncrementCounter,
       BoardProofs!TestOracleForOne, BoardProofs!TestOracleForZero, BoardProofs!ExecuteExtremum,
       BoardProofs!SwapExtremum, BoardProofs!SwapSpin, BoardProofs!SwapClassic, BoardProofs!Send,
       BoardProofs!FpgaKeepsUp, BoardProofs!Idle, BoardProofs!Used,
       BoardProofs!ExtremumOutput, BoardProofs!ClassicState, BoardProofs!Whole,
       BoardProofs!sampleVars, BoardProofs!statusVars, BoardProofs!workVars, BoardProofs!fpgaVars,
       BoardProofs!decideVars, BoardProofs!sentVars

LEMMA SameOthers ==
    /\ Board!Fpga => BoardProofs!Fpga
    /\ Board!OracleDecides => BoardProofs!OracleDecides
BY DEF Board!Fpga, Board!FpgaLatch, Board!FpgaReadSample, Board!FpgaReadStrategy,
       Board!FpgaCompute, Board!FpgaPublish, Board!Latch, Board!Reading, Board!ReadIvs3,
       Board!ReadZdot, Board!ReadStrategy, Board!Compute, Board!Publish,
       Board!PageFields, Board!ClassicOutput, Board!ClassicState, Board!Whole,
       Board!OracleDecides, Board!marteSide, Board!marteVars,
       Board!sampleVars, Board!statusVars, Board!workVars, Board!fpgaVars,
       Board!decideVars, Board!sentVars,
       BoardProofs!Fpga, BoardProofs!FpgaLatch, BoardProofs!FpgaReadSample, BoardProofs!FpgaReadStrategy,
       BoardProofs!FpgaCompute, BoardProofs!FpgaPublish, BoardProofs!Latch, BoardProofs!Reading, BoardProofs!ReadIvs3,
       BoardProofs!ReadZdot, BoardProofs!ReadStrategy, BoardProofs!Compute, BoardProofs!Publish,
       BoardProofs!PageFields, BoardProofs!ClassicOutput, BoardProofs!ClassicState, BoardProofs!Whole,
       BoardProofs!OracleDecides, BoardProofs!marteSide, BoardProofs!marteVars,
       BoardProofs!sampleVars, BoardProofs!statusVars, BoardProofs!workVars, BoardProofs!fpgaVars,
       BoardProofs!decideVars, BoardProofs!sentVars

BoardRuns == BoardProofs!Running /\ UNCHANGED <<left, restarts>>

\* Every step of the loop is one of the board, or leaves the board alone.
LEMMA BoardStep ==
    ASSUME [ClosedNext]_closedVars
    PROVE  BoardRuns \/ UNCHANGED boardVars
<1>1. CASE BoardReceives
  BY <1>1, SameThread DEF BoardReceives, BoardRuns, BoardProofs!Running, BoardProofs!Marte
<1>2. CASE BoardComputes
  BY <1>2, SameThread DEF BoardComputes, BoardRuns, BoardProofs!Running, BoardProofs!Marte
<1>3. CASE BoardAnswers
  BY <1>3, SameThread DEF BoardAnswers, BoardRuns, BoardProofs!Running, BoardProofs!Marte
<1>4. CASE FpgaStep
  BY <1>4, SameOthers DEF FpgaStep, BoardRuns, BoardProofs!Running
<1>5. CASE OracleStep
  BY <1>5, SameOthers DEF OracleStep, BoardRuns, BoardProofs!Running
<1>6. CASE UNCHANGED boardVars
  BY <1>6
<1> QED
  BY <1>1, <1>2, <1>3, <1>4, <1>5, <1>6 DEF ClosedNext, Thread, closedVars

\* Whatever the server and the wire do, the control cycle runs as on its own.
LEMMA BoardMoves == [ClosedNext]_closedVars => [BoardProofs!Next]_BoardProofs!vars
BY BoardStep
DEF BoardRuns, boardVars, BoardProofs!Next, BoardProofs!startVars, BoardProofs!vars,
    BoardProofs!sampleVars, BoardProofs!statusVars, BoardProofs!marteVars,
    BoardProofs!workVars, BoardProofs!fpgaVars, BoardProofs!decideVars, BoardProofs!sentVars

LEMMA BoardBehaves == ClosedSpec => BoardProofs!Spec
<1>1. ClosedInit => BoardProofs!Init
  BY SameInit DEF ClosedInit
<1> QED
  BY <1>1, BoardMoves, PTL DEF ClosedSpec, BoardProofs!Spec
-----------------------------------------------------------------------------
\* In the closed loop, too, a classic value is computed from the samples of
\* one stretch of cycles that a switch has shifted by one at most.
THEOREM LoopSteady == BoardProofs!Punctual => (ClosedSpec => []SteadyClassic)
<1>1. BoardProofs!SteadyClassic => SteadyClassic
  BY DEF BoardProofs!SteadyClassic, BoardProofs!Steady, BoardProofs!Stretch,
         BoardProofs!StrategyOf, BoardProofs!Whole,
         SteadyClassic, Board!SteadyClassic, Board!Steady, Board!Stretch,
         Board!StrategyOf, Board!Whole
<1> QED
  BY <1>1, BoardBehaves, BoardProofs!StateIsSteady, PTL

\* Whatever the server and the wire do, the board's cycles, byte by byte,
\* implement the indivisible ones of Controller.
THEOREM LoopAnswers == BoardProofs!Punctual => (ClosedSpec => AnswersAsPromised)
<1>1. BoardProofs!Promise!ControllerInit => Board!Promise!ControllerInit
  BY DEF BoardProofs!Promise!ControllerInit, Board!Promise!ControllerInit,
         BoardProofs!InCycle, Board!InCycle,
         BoardProofs!Promise!NoValue, Board!Promise!NoValue,
         BoardProofs!Promise!Whole, Board!Promise!Whole
<1>2. [BoardProofs!Promise!Answer]_BoardProofs!Promise!controllerVars
        => [Board!Promise!Answer]_Board!Promise!controllerVars
  BY DEF BoardProofs!InCycle, Board!InCycle,
         BoardProofs!Promise!Answer, Board!Promise!Answer,
         BoardProofs!Promise!Reply, Board!Promise!Reply,
         BoardProofs!Promise!controllerVars, Board!Promise!controllerVars,
         BoardProofs!Promise!ClassicOutput, Board!Promise!ClassicOutput,
         BoardProofs!Promise!ClassicState, Board!Promise!ClassicState,
         BoardProofs!Promise!ExtremumOutput, Board!Promise!ExtremumOutput,
         BoardProofs!Promise!Upto, Board!Promise!Upto,
         BoardProofs!Promise!Whole, Board!Promise!Whole
<1>3. BoardProofs!AnswersAsPromised => AnswersAsPromised
  BY <1>1, <1>2, PTL
  DEF BoardProofs!AnswersAsPromised, AnswersAsPromised, Board!AnswersAsPromised,
      BoardProofs!Promise!ControllerSpec, Board!Promise!ControllerSpec
<1> QED
  BY <1>3, BoardBehaves, BoardProofs!CyclesImplement, PTL
-----------------------------------------------------------------------------
(***************************************************************************)
(* The closed loop is the loop of ServerLoop.  A datagram in work is put   *)
(* back in front of the queue; the lemmas say how the operations on the    *)
(* queue behave behind it.                                                 *)
(***************************************************************************)
LEMMA Behind ==
    ASSUME NEW x \in Int, NEW s \in Seq(Int)
    PROVE  /\ <<x>> \o s \in Seq(Int) /\ <<x>> \o s # << >>
           /\ Len(<<x>> \o s) = Len(s) + 1
           /\ Head(<<x>> \o s) = x /\ Tail(<<x>> \o s) = s
           /\ \A k \in 1 .. Len(s) : (<<x>> \o s)[k + 1] = s[k]
           /\ \A y \in Int : <<x>> \o Append(s, y) = Append(<<x>> \o s, y)
BY SMTT(20)

LEMMA FrontAgain ==
    ASSUME NEW s \in Seq(Int), s # << >>
    PROVE  <<Head(s)>> \o Tail(s) = s
OBVIOUS

LEMMA RemoveType ==
    ASSUME NEW s \in Seq(Int), NEW k \in 1 .. Len(s)
    PROVE  RemoveAt(s, k) \in Seq(Int)
BY DEF RemoveAt

LEMMA InsertType ==
    ASSUME NEW s \in Seq(Int), NEW k \in 1 .. Len(s)
    PROVE  InsertAt(s, k, s[k]) \in Seq(Int)
BY DEF InsertAt

\* Both are two stretches of the sequence with something in between.
LEMMA Stretches ==
    ASSUME NEW x \in Int, NEW s \in Seq(Int), NEW k \in 1 .. Len(s),
           NEW m \in {k, k + 1}
    PROVE  /\ SubSeq(<<x>> \o s, 1, k) = <<x>> \o SubSeq(s, 1, k - 1)
           /\ SubSeq(<<x>> \o s, m + 1, Len(s) + 1) = SubSeq(s, m, Len(s))
           /\ SubSeq(s, 1, k - 1) \in Seq(Int) /\ SubSeq(s, m, Len(s)) \in Seq(Int)
<1>1. <<x>> \in Seq(Int) /\ Len(<<x>>) = 1 /\ Len(s) \in Nat
  OBVIOUS
<1>2. SubSeq(s, 1, k - 1) \in Seq(Int) /\ SubSeq(s, m, Len(s)) \in Seq(Int)
  OBVIOUS
<1>3. SubSeq(<<x>> \o s, m + 1, Len(s) + 1) = SubSeq(s, m, Len(s))
  <2>1. CASE m <= Len(s)
    <3>1. m + 1 \in Len(<<x>>) + 1 .. Len(<<x>>) + Len(s)
      BY <1>1, <2>1
    <3>2. Len(s) + 1 \in Len(<<x>>) + 1 .. Len(<<x>>) + Len(s)
      BY <1>1
    <3>3. SubSeq(<<x>> \o s, m + 1, Len(s) + 1) = SubSeq(s, (m + 1) - Len(<<x>>), (Len(s) + 1) - Len(<<x>>))
      BY <1>1, <3>1, <3>2, SubSeqOfConcat2
    <3> QED
      BY <1>1, <3>3
  <2>2. CASE m > Len(s)
    BY <1>1, <2>2, SubSeqEmpty
  <2> QED
    BY <1>1, <2>1, <2>2
<1>4. SubSeq(<<x>> \o s, 1, k) = <<x>> \o SubSeq(s, 1, k - 1)
  <2>1. /\ Len(SubSeq(<<x>> \o s, 1, k)) = k
        /\ Len(<<x>> \o SubSeq(s, 1, k - 1)) = k
        /\ SubSeq(<<x>> \o s, 1, k) \in Seq(Int)
        /\ <<x>> \o SubSeq(s, 1, k - 1) \in Seq(Int)
    OBVIOUS
  <2>2. \A j \in 1 .. k : SubSeq(<<x>> \o s, 1, k)[j] = (<<x>> \o SubSeq(s, 1, k - 1))[j]
    OBVIOUS
  <2> QED
    BY <2>1, <2>2, SeqEqual
<1> QED
  BY <1>2, <1>3, <1>4

LEMMA Associative ==
    ASSUME NEW a \in Seq(Int), NEW b \in Seq(Int), NEW c \in Seq(Int)
    PROVE  (a \o b) \o c = a \o (b \o c)
BY ConcatAssociative

LEMMA RemoveBehind ==
    ASSUME NEW x \in Int, NEW s \in Seq(Int), NEW k \in 1 .. Len(s)
    PROVE  RemoveAt(<<x>> \o s, k + 1) = <<x>> \o RemoveAt(s, k)
<1>1. /\ SubSeq(<<x>> \o s, 1, k) = <<x>> \o SubSeq(s, 1, k - 1)
      /\ SubSeq(<<x>> \o s, (k + 1) + 1, Len(s) + 1) = SubSeq(s, k + 1, Len(s))
      /\ SubSeq(s, 1, k - 1) \in Seq(Int) /\ SubSeq(s, k + 1, Len(s)) \in Seq(Int)
  BY Stretches
<1>2. Len(<<x>> \o s) = Len(s) + 1 /\ (k + 1) - 1 = k /\ <<x>> \in Seq(Int)
  OBVIOUS
<1>3. (<<x>> \o SubSeq(s, 1, k - 1)) \o SubSeq(s, k + 1, Len(s))
        = <<x>> \o (SubSeq(s, 1, k - 1) \o SubSeq(s, k + 1, Len(s)))
  BY <1>1, <1>2, Associative
<1> QED
  BY <1>1, <1>2, <1>3, Zenon DEF RemoveAt

LEMMA InsertBehind ==
    ASSUME NEW x \in Int, NEW s \in Seq(Int), NEW k \in 1 .. Len(s)
    PROVE  InsertAt(<<x>> \o s, k + 1, (<<x>> \o s)[k + 1]) = <<x>> \o InsertAt(s, k, s[k])
<1>1. /\ SubSeq(<<x>> \o s, 1, k) = <<x>> \o SubSeq(s, 1, k - 1)
      /\ SubSeq(<<x>> \o s, k + 1, Len(s) + 1) = SubSeq(s, k, Len(s))
  BY Stretches
<1>2. /\ Len(<<x>> \o s) = Len(s) + 1 /\ (k + 1) - 1 = k
      /\ (<<x>> \o s)[k + 1] = s[k]
  OBVIOUS
<1>3. /\ <<x>> \in Seq(Int) /\ <<s[k]>> \in Seq(Int)
      /\ SubSeq(s, 1, k - 1) \in Seq(Int) /\ SubSeq(s, k, Len(s)) \in Seq(Int)
  OBVIOUS
<1>4. SubSeq(s, 1, k - 1) \o <<s[k]>> \in Seq(Int)
  BY <1>3
<1>5. (<<x>> \o SubSeq(s, 1, k - 1)) \o <<s[k]>> = <<x>> \o (SubSeq(s, 1, k - 1) \o <<s[k]>>)
  BY <1>3, Associative
<1>6. PICK front \in Seq(Int) : front = SubSeq(s, 1, k - 1) \o <<s[k]>>
  BY <1>4
<1>7. (<<x>> \o front) \o SubSeq(s, k, Len(s)) = <<x>> \o (front \o SubSeq(s, k, Len(s)))
  <2>1. front \in Seq(Int) /\ <<x>> \in Seq(Int) /\ SubSeq(s, k, Len(s)) \in Seq(Int)
    BY <1>3
  <2> QED
    BY <2>1, Associative, SMTT(20)
<1> QED
  BY <1>1, <1>2, <1>5, <1>6, <1>7, Zenon DEF InsertAt
-----------------------------------------------------------------------------
\* One index has been taken from the queue for every sample counted, on a
\* board that has not been restarted.
Taken ==
    /\ restarts = 0
    /\ i \in Int /\ toBoard \in Seq(Int) /\ received \in Seq(Int)
    /\ Len(received) = IF InWork THEN answered + 1 ELSE answered

LoopInv == BoardProofs!TypeInv /\ BoardProofs!FreshInv /\ Taken

LEMMA LoopInit == ClosedInit => LoopInv
<1> SUFFICES ASSUME ClosedInit PROVE LoopInv
  OBVIOUS
<1>1. BoardProofs!Init
  BY SameInit DEF ClosedInit
<1>2. BoardProofs!TypeInv /\ BoardProofs!FreshInv
  BY <1>1, BoardProofs!TypeInit, BoardProofs!FreshInit
<1> QED
  BY <1>2 DEF ClosedInit, Init, Board!Init, LoopInv, Taken, InWork

\* What the control cycle's own invariant says of the moment of sending.
LEMMA AtSend ==
    ASSUME BoardProofs!TypeInv, BoardProofs!FreshInv
    PROVE  /\ answered \in Nat /\ counter \in Nat
           /\ marte = "send" /\ restarts = 0 =>
                  answered + 1 = counter /\ vs3_ref.u.ivs3 = counter
<1>1. /\ answered \in Nat /\ counter \in Nat
      /\ marte = "send" => answered + 1 = counter
  BY DEF BoardProofs!TypeInv, BoardProofs!TypeOK, BoardProofs!Cycle,
         BoardProofs!AnsweredBefore, BoardProofs!InCycle
<1>2. ASSUME marte = "send", restarts = 0 PROVE vs3_ref.u.ivs3 = counter
  <2>1. ~BoardProofs!OnLeftover
    BY <1>1, <1>2 DEF BoardProofs!OnLeftover, BoardProofs!FreshInv, BoardProofs!CountersMatch
  <2> QED
    BY <1>2, <2>1 DEF BoardProofs!FreshInv, BoardProofs!FreshReply, BoardProofs!Whole
<1> QED
  BY <1>1, <1>2

\* A step of the thread between the two, or of the FPGA or the oracle, takes
\* nothing and answers nothing.
LEMMA BoardInside ==
    ASSUME BoardComputes \/ FpgaStep \/ OracleStep
    PROVE  InWork' = InWork /\ UNCHANGED <<answered, restarts, vars, received>>
<1>1. CASE BoardComputes
  BY <1>1
  DEF BoardComputes, InWork, Board!LoadZdot, Board!IncrementCounter, Board!TestOracleForOne,
      Board!TestOracleForZero, Board!ExecuteExtremum, Board!SwapExtremum, Board!SwapSpin,
      Board!SwapClassic, Board!sentVars
<1>2. CASE FpgaStep
  BY <1>2
  DEF FpgaStep, InWork, Board!Fpga, Board!FpgaLatch, Board!FpgaReadSample,
      Board!FpgaReadStrategy, Board!FpgaCompute, Board!FpgaPublish, Board!marteSide,
      Board!marteVars, Board!sentVars
<1>3. CASE OracleStep
  BY <1>3 DEF OracleStep, InWork, Board!OracleDecides, Board!marteVars, Board!sentVars
<1> QED
  BY <1>1, <1>2, <1>3

LEMMA TakenStep ==
    ASSUME BoardProofs!TypeInv, BoardProofs!FreshInv, Taken, [ClosedNext]_closedVars
    PROVE  Taken'
<1> USE AtSend DEF Taken, InWork
<1>1. CASE BoardReceives
  BY <1>1 DEF BoardReceives, Board!LoadIvs3, Board!sentVars, serverVars
<1>2. CASE BoardAnswers
  BY <1>2 DEF BoardAnswers, Board!Send, serverVars
<1>3. CASE BoardComputes \/ FpgaStep \/ OracleStep
  BY <1>3, BoardInside DEF vars, serverVars, wireVars
<1>4. CASE (Server \/ Kill \/ Wire) /\ UNCHANGED <<boardVars, received>>
  <2>1. UNCHANGED <<marte, answered, restarts, received>>
    BY <1>4 DEF boardVars
  <2>2. i' \in Int
    BY <1>4
    DEF Server, Sendto, SendtoFails, Recvfrom, RecvfromFails, NextActivation, SaveData,
        Kill, Wire, LoseSample, LoseReply, RepeatSample, RepeatReply, serverVars
  <2>3. toBoard' \in Seq(Int)
    <3>1. CASE Sendto
      BY <3>1 DEF Sendto
    <3>2. CASE LoseSample
      <4>1. PICK k \in DOMAIN toBoard : toBoard' = RemoveAt(toBoard, k)
        BY <3>2 DEF LoseSample
      <4>2. k \in 1 .. Len(toBoard)
        BY <4>1
      <4> QED
        BY <4>1, <4>2, RemoveType
    <3>3. CASE RepeatSample
      <4>1. PICK k \in DOMAIN toBoard : toBoard' = InsertAt(toBoard, k, toBoard[k])
        BY <3>3 DEF RepeatSample
      <4>2. k \in 1 .. Len(toBoard)
        BY <4>1
      <4> QED
        BY <4>1, <4>2, InsertType
    <3>4. CASE UNCHANGED toBoard
      BY <3>4
    <3> QED
      BY <1>4, <3>1, <3>2, <3>3, <3>4
      DEF Server, SendtoFails, Recvfrom, RecvfromFails, NextActivation, SaveData,
          Kill, Wire, LoseReply, RepeatReply, wireVars
  <2> QED
    BY <2>1, <2>2, <2>3
<1>5. CASE UNCHANGED closedVars
  BY <1>5 DEF closedVars, vars, serverVars, wireVars, boardVars
<1> QED
  BY <1>1, <1>2, <1>3, <1>4, <1>5 DEF ClosedNext, Thread

LEMMA LoopStep ==
    BoardProofs!TurnExceedsLag /\ LoopInv /\ [ClosedNext]_closedVars => LoopInv'
BY BoardMoves, TakenStep, BoardProofs!TypeStep, BoardProofs!FreshStep DEF LoopInv

\* The queue as the loop of ServerLoop has it.
Queue == IF InWork THEN <<received[Len(received)]>> \o toBoard ELSE toBoard

LEMMA QueueType ==
    ASSUME LoopInv
    PROVE  Queue \in Seq(Int) /\ (InWork => received[Len(received)] \in Int)
BY AtSend, Behind DEF LoopInv, Taken, Queue

\* The server and the wire change the queue behind the datagram in work.
LEMMA OutsideMaps ==
    ASSUME LoopInv, Server \/ Kill \/ Wire, UNCHANGED <<boardVars, received>>
    PROVE  Loop!Next
<1>1. InWork' = InWork /\ UNCHANGED <<answered, received>>
  BY DEF boardVars, InWork
<1>2. UNCHANGED toBoard => UNCHANGED Queue
  BY <1>1 DEF Queue
<1>3. i \in Int /\ toBoard \in Seq(Int)
  BY DEF LoopInv, Taken
<1> DEFINE first == received[Len(received)]
<1>4. InWork => first \in Int
  BY QueueType
<1>5. IF InWork THEN Queue = <<first>> \o toBoard ELSE Queue = toBoard
  BY DEF Queue
<1>6. IF InWork THEN Queue' = <<first>> \o toBoard' ELSE Queue' = toBoard'
  BY <1>1 DEF Queue
<1> HIDE DEF first
<1>7. CASE Sendto
  <2>1. Queue' = Append(Queue, i)
    <3>1. toBoard' = Append(toBoard, i)
      BY <1>7 DEF Sendto
    <3>2. CASE InWork
      <4>1. <<first>> \o Append(toBoard, i) = Append(<<first>> \o toBoard, i)
        BY <1>3, <1>4, <3>2, Behind
      <4> QED
        BY <1>5, <1>6, <3>1, <3>2, <4>1
    <3>3. CASE ~InWork
      BY <1>5, <1>6, <3>1, <3>3
    <3> QED
      BY <3>2, <3>3
  <2>2. Loop!Sendto
    BY <1>1, <1>7, <2>1 DEF Sendto, Loop!Sendto, Queue, faultVars, Loop!faultVars
  <2> QED
    BY <2>2 DEF Loop!Next, Loop!Server
<1>8. CASE LoseSample
  <2>1. PICK k \in DOMAIN toBoard : toBoard' = RemoveAt(toBoard, k)
    BY <1>8 DEF LoseSample
  <2>2. k \in 1 .. Len(toBoard) /\ k + 1 \in 1 .. Len(toBoard) + 1
    BY <1>3, <2>1
  <2>3. \E n \in DOMAIN Queue : Queue' = RemoveAt(Queue, n)
    <3>1. CASE InWork
      <4>1. k + 1 \in DOMAIN Queue
        BY <1>3, <1>4, <1>5, <2>2, <3>1, Behind
      <4>2. Queue' = RemoveAt(Queue, k + 1)
        BY <1>3, <1>4, <1>5, <1>6, <2>1, <2>2, <3>1, RemoveBehind
      <4> QED
        BY <4>1, <4>2
    <3>2. CASE ~InWork
      BY <1>5, <1>6, <2>1, <3>2
    <3> QED
      BY <3>1, <3>2
  <2>4. Loop!LoseSample
    BY <1>1, <1>8, <2>3
    DEF LoseSample, Loop!LoseSample, Queue, Fault, Loop!Fault, RemoveAt, Loop!RemoveAt,
        serverVars, Loop!serverVars
  <2> QED
    BY <2>4 DEF Loop!Next, Loop!Wire
<1>9. CASE RepeatSample
  <2>1. PICK k \in DOMAIN toBoard : toBoard' = InsertAt(toBoard, k, toBoard[k])
    BY <1>9 DEF RepeatSample
  <2>2. k \in 1 .. Len(toBoard) /\ k + 1 \in 1 .. Len(toBoard) + 1
    BY <1>3, <2>1
  <2>3. \E n \in DOMAIN Queue : Queue' = InsertAt(Queue, n, Queue[n])
    <3>1. CASE InWork
      <4>1. k + 1 \in DOMAIN Queue
        BY <1>3, <1>4, <1>5, <2>2, <3>1, Behind
      <4>2. Queue' = InsertAt(Queue, k + 1, Queue[k + 1])
        BY <1>3, <1>4, <1>5, <1>6, <2>1, <2>2, <3>1, InsertBehind
      <4> QED
        BY <4>1, <4>2
    <3>2. CASE ~InWork
      BY <1>5, <1>6, <2>1, <3>2
    <3> QED
      BY <3>1, <3>2
  <2>4. Loop!RepeatSample
    BY <1>1, <1>9, <2>3
    DEF RepeatSample, Loop!RepeatSample, Queue, Fault, Loop!Fault, InsertAt, Loop!InsertAt,
        serverVars, Loop!serverVars
  <2> QED
    BY <2>4 DEF Loop!Next, Loop!Wire
<1>10. CASE SendtoFails
  <2>1. Loop!SendtoFails
    BY <1>1, <1>2, <1>10
    DEF SendtoFails, Loop!SendtoFails, Queue, Fault, Loop!Fault, wireVars, Loop!wireVars
  <2> QED
    BY <2>1 DEF Loop!Next, Loop!Server
<1>11. CASE Recvfrom
  <2>1. Loop!Recvfrom
    BY <1>1, <1>2, <1>11 DEF Recvfrom, Loop!Recvfrom, Queue, faultVars, Loop!faultVars
  <2> QED
    BY <2>1 DEF Loop!Next, Loop!Server
<1>12. CASE RecvfromFails
  <2>1. Loop!RecvfromFails
    BY <1>1, <1>2, <1>12
    DEF RecvfromFails, Loop!RecvfromFails, Queue, Fault, Loop!Fault, wireVars, Loop!wireVars
  <2> QED
    BY <2>1 DEF Loop!Next, Loop!Server
<1>13. CASE NextActivation
  <2>1. Loop!NextActivation
    BY <1>1, <1>2, <1>13
    DEF NextActivation, Loop!NextActivation, Queue, faultVars, Loop!faultVars, wireVars, Loop!wireVars
  <2> QED
    BY <2>1 DEF Loop!Next, Loop!Server
<1>14. CASE SaveData
  <2>1. Loop!SaveData
    BY <1>1, <1>2, <1>14
    DEF SaveData, Loop!SaveData, Queue, faultVars, Loop!faultVars, wireVars, Loop!wireVars
  <2> QED
    BY <2>1 DEF Loop!Next, Loop!Server
<1>15. CASE Kill
  <2>1. Loop!Kill
    BY <1>1, <1>2, <1>15
    DEF Kill, Loop!Kill, Queue, faultVars, Loop!faultVars, wireVars, Loop!wireVars
  <2> QED
    BY <2>1 DEF Loop!Next
<1>16. CASE LoseReply
  <2>1. Loop!LoseReply
    BY <1>1, <1>2, <1>16
    DEF LoseReply, Loop!LoseReply, Queue, Fault, Loop!Fault, RemoveAt, Loop!RemoveAt,
        serverVars, Loop!serverVars
  <2> QED
    BY <2>1 DEF Loop!Next, Loop!Wire
<1>17. CASE RepeatReply
  <2>1. Loop!RepeatReply
    BY <1>1, <1>2, <1>17
    DEF RepeatReply, Loop!RepeatReply, Queue, Fault, Loop!Fault, InsertAt, Loop!InsertAt,
        serverVars, Loop!serverVars
  <2> QED
    BY <2>1 DEF Loop!Next, Loop!Wire
<1> QED
  BY <1>7, <1>8, <1>9, <1>10, <1>11, <1>12, <1>13, <1>14, <1>15, <1>16, <1>17
  DEF Server, Wire

\* The thread takes the datagram into work where nobody sees it, and answers
\* it by its own sample: the value's sample is that of the cycle's number.
LEMMA ThreadMaps ==
    ASSUME LoopInv, BoardReceives \/ BoardAnswers
    PROVE  Loop!BoardCycle \/ UNCHANGED Loop!vars
<1> USE QueueType, AtSend DEF LoopInv, Taken
<1>1. CASE BoardReceives
  <2>1. ~InWork /\ InWork' /\ UNCHANGED <<answered, serverVars, toServer, faultVars>>
    BY <1>1 DEF BoardReceives, Board!LoadIvs3, Board!sentVars, InWork
  <2>2. received'[Len(received')] = Head(toBoard)
    BY <1>1 DEF BoardReceives
  <2>3. UNCHANGED Queue
    BY <1>1, <2>1, <2>2, FrontAgain DEF BoardReceives, Queue
  <2> QED
    BY <2>1, <2>3
    DEF Queue, serverVars, faultVars, Loop!vars, Loop!serverVars, Loop!wireVars, Loop!faultVars
<1>2. CASE BoardAnswers
  <2>1. /\ InWork /\ ~InWork' /\ answered' = answered + 1
        /\ UNCHANGED <<serverVars, toBoard, faultVars, received>>
    BY <1>2 DEF BoardAnswers, Board!Send, InWork
  <2>2. Queue # << >> /\ Head(Queue) = received[Len(received)] /\ Queue' = Tail(Queue)
    BY <2>1, Behind DEF Queue
  <2>3. SampleOf(vs3_ref) = received[Len(received)]
    BY <1>2, <2>1 DEF SampleOf, BoardAnswers, Board!Send
  <2>4. toServer' = Append(toServer, [sample |-> Head(Queue), cycle |-> answered + 1])
    BY <1>2, <2>1, <2>2, <2>3 DEF BoardAnswers
  <2> QED
    BY <2>1, <2>2, <2>4
    DEF Queue, serverVars, faultVars, Loop!BoardCycle, Loop!serverVars, Loop!faultVars
<1> QED
  BY <1>1, <1>2

LEMMA LoopMaps ==
    LoopInv /\ [ClosedNext]_closedVars => [Loop!Next]_Loop!vars
<1> SUFFICES ASSUME LoopInv, [ClosedNext]_closedVars PROVE Loop!Next \/ UNCHANGED Loop!vars
  OBVIOUS
<1>1. CASE (Server \/ Kill \/ Wire) /\ UNCHANGED <<boardVars, received>>
  BY <1>1, OutsideMaps
<1>2. CASE BoardReceives \/ BoardAnswers
  BY <1>2, ThreadMaps DEF Loop!Next
<1>3. CASE BoardComputes \/ FpgaStep \/ OracleStep
  BY <1>3, BoardInside
  DEF InWork, vars, serverVars, wireVars, faultVars,
      Loop!vars, Loop!serverVars, Loop!wireVars, Loop!faultVars
<1>4. CASE UNCHANGED closedVars
  BY <1>4
  DEF InWork, closedVars, boardVars, vars, serverVars, wireVars, faultVars,
      Loop!vars, Loop!serverVars, Loop!wireVars, Loop!faultVars
<1> QED
  BY <1>1, <1>2, <1>3, <1>4 DEF ClosedNext, Thread

\* With the controller byte by byte in its place the loop is still the one of
\* ServerLoop: as long as the FPGA lags less than a turn of the counter, the
\* board answers one datagram at a time, in order, each by its own sample.
THEOREM LoopIsKept == BoardProofs!TurnExceedsLag => (ClosedSpec => LoopKept)
<1> SUFFICES ASSUME BoardProofs!TurnExceedsLag PROVE ClosedSpec => LoopKept
  OBVIOUS
<1>1. ClosedInit => Loop!Init
  BY DEF ClosedInit, Init, Board!Init, InWork, Loop!Init, Loop!Slots, Slots,
         Loop!Garbage, Garbage
<1> QED
  BY <1>1, LoopInit, LoopStep, LoopMaps, PTL DEF ClosedSpec, LoopKept, Loop!Spec
-----------------------------------------------------------------------------
LoopProofs == INSTANCE ServerLoopProofs
                  WITH toBoard <- IF InWork THEN <<received[Len(received)]>> \o toBoard
                                            ELSE toBoard,
                       cycles <- answered

LEMMA LoopProven == LoopKept => LoopProofs!Spec
<1>1. Loop!Init => LoopProofs!Init
  BY DEF Loop!Init, LoopProofs!Init, Loop!Slots, LoopProofs!Slots,
         Loop!Garbage, LoopProofs!Garbage
<1>2. UNCHANGED Loop!vars => UNCHANGED LoopProofs!vars
  BY DEF Loop!vars, LoopProofs!vars, Loop!serverVars, LoopProofs!serverVars,
         Loop!wireVars, LoopProofs!wireVars, Loop!faultVars, LoopProofs!faultVars
<1>3. Loop!Server => LoopProofs!Server
  BY DEF
    Loop!Server, LoopProofs!Server, Loop!Sendto, LoopProofs!Sendto,
    Loop!SendtoFails, LoopProofs!SendtoFails, Loop!Recvfrom,
    LoopProofs!Recvfrom, Loop!RecvfromFails, LoopProofs!RecvfromFails,
    Loop!NextActivation, LoopProofs!NextActivation, Loop!SaveData,
    LoopProofs!SaveData, Loop!Fault, LoopProofs!Fault, Loop!serverVars,
    LoopProofs!serverVars, Loop!wireVars, LoopProofs!wireVars, Loop!faultVars,
    LoopProofs!faultVars
<1>4. Loop!Kill \/ Loop!BoardCycle => LoopProofs!Kill \/ LoopProofs!BoardCycle
  BY DEF
    Loop!Kill, LoopProofs!Kill, Loop!BoardCycle, LoopProofs!BoardCycle,
    Loop!serverVars, LoopProofs!serverVars, Loop!wireVars,
    LoopProofs!wireVars, Loop!faultVars, LoopProofs!faultVars
<1>5. Loop!Wire => LoopProofs!Wire
  <2>1. Loop!LoseSample => LoopProofs!LoseSample
    BY DEF Loop!LoseSample, LoopProofs!LoseSample, Loop!Fault, LoopProofs!Fault,
           Loop!RemoveAt, LoopProofs!RemoveAt, Loop!serverVars, LoopProofs!serverVars
  <2>2. Loop!LoseReply => LoopProofs!LoseReply
    BY DEF Loop!LoseReply, LoopProofs!LoseReply, Loop!Fault, LoopProofs!Fault,
           Loop!RemoveAt, LoopProofs!RemoveAt, Loop!serverVars, LoopProofs!serverVars
  <2>3. Loop!RepeatSample => LoopProofs!RepeatSample
    BY DEF Loop!RepeatSample, LoopProofs!RepeatSample, Loop!Fault, LoopProofs!Fault,
           Loop!InsertAt, LoopProofs!InsertAt, Loop!serverVars, LoopProofs!serverVars
  <2>4. Loop!RepeatReply => LoopProofs!RepeatReply
    BY DEF Loop!RepeatReply, LoopProofs!RepeatReply, Loop!Fault, LoopProofs!Fault,
           Loop!InsertAt, LoopProofs!InsertAt, Loop!serverVars, LoopProofs!serverVars
  <2> QED
    BY <2>1, <2>2, <2>3, <2>4 DEF Loop!Wire, LoopProofs!Wire
<1>6. [Loop!Next]_Loop!vars => [LoopProofs!Next]_LoopProofs!vars
  BY <1>2, <1>3, <1>4, <1>5 DEF Loop!Next, LoopProofs!Next
<1> QED
  BY <1>1, <1>6, PTL DEF LoopKept, Loop!Spec, LoopProofs!Spec

\* So whatever is lost or not sent, every reply filed is the answer to the
\* sample of its own index: with the controller of the board in the loop, too.
THEOREM LoopPairs ==
    BoardProofs!TurnExceedsLag => (ClosedSpec => []PairedReplies)
<1>1. LoopProofs!PairedReplies => PairedReplies
  BY DEF LoopProofs!PairedReplies, PairedReplies, LoopProofs!LossOnly, LossOnly,
         LoopProofs!Index, Index
<1> QED
  BY <1>1, LoopProven, LoopIsKept, LoopProofs!LossKeepsPairing, PTL

\* The one datagram is counted where it is: on the wire either way, or in work.
OneAnywhere ==
    LossOnly => Len(toBoard) + (IF InWork THEN 1 ELSE 0) + Len(toServer) <= 1

\* The lockstep keeps the board's queue to one datagram, too: while one is in
\* work, the wire is empty and the server waits.
THEOREM LoopCarriesOne ==
    BoardProofs!TurnExceedsLag => (ClosedSpec => [](OneInFlight /\ OneAnywhere))
<1> SUFFICES ASSUME BoardProofs!TurnExceedsLag
             PROVE  ClosedSpec => [](OneInFlight /\ OneAnywhere)
  OBVIOUS
<1>1. ASSUME Taken, LoopProofs!TypeOK, LoopProofs!OneInFlight
      PROVE  OneInFlight /\ OneAnywhere
  <2>1. LossOnly => /\ Len(Queue) + Len(toServer) <= 1
                    /\ pc \in {"send", "wait", "save", "exit"} =>
                           Queue = << >> /\ toServer = << >>
    BY <1>1 DEF LoopProofs!OneInFlight, LoopProofs!LossOnly, LossOnly, Queue
  <2>2. Len(toBoard) \in Nat /\ Len(toServer) \in Nat
    BY <1>1 DEF Taken, LoopProofs!TypeOK
  <2>3. CASE ~InWork
    BY <2>1, <2>2, <2>3 DEF OneInFlight, OneAnywhere, Queue
  <2>4. CASE InWork
    <3>1. Len(Queue) = 1 + Len(toBoard) /\ Queue # << >>
      BY <1>1, <2>4 DEF Taken, Queue
    <3>2. Len(toBoard) = 0 => toBoard = << >>
      BY <1>1 DEF Taken
    <3> QED
      BY <2>1, <2>2, <2>4, <3>1, <3>2 DEF OneInFlight, OneAnywhere
  <2> QED
    BY <2>3, <2>4
<1>2. LoopInv => Taken
  BY DEF LoopInv
<1> QED
  BY <1>1, <1>2, LoopInit, LoopStep, LoopProven, LoopIsKept, LoopProofs!OneDatagram,
     LoopProofs!TypeCorrect, PTL DEF ClosedSpec

\* And whatever else goes wrong, it answers that sample or an earlier one.
THEOREM LoopLags ==
    BoardProofs!TurnExceedsLag => (ClosedSpec => []NeverAhead)
<1>1. LoopProofs!NeverAhead => NeverAhead
  BY DEF LoopProofs!NeverAhead, NeverAhead, LoopProofs!Garbage, Garbage
<1> QED
  BY <1>1, LoopProven, LoopIsKept, LoopProofs!RepliesLagAtMost, PTL
=============================================================================
