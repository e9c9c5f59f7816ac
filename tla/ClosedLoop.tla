----------------------------- MODULE ClosedLoop -----------------------------
(***************************************************************************)
(* The simulation server and the controller on the board, joined by the    *)
(* wire: ServerLoop, whose board answers a datagram in one step, with the  *)
(* control cycle of ControlCycle in that step's place.  A datagram that    *)
(* the receiver has taken is in work until the sender has sent its value.  *)
(* A value is worth the sample it was computed from, so a value computed   *)
(* from an earlier sample makes an answer to that one.                     *)
(***************************************************************************)
EXTENDS ServerLoop

\* Those of ControlCycle.
CONSTANTS MaxCycle, W, MaxLag, Oracle, MaxRestarts

\* The assumptions of ControlCycle.
ASSUME BoardAssumption ==
    /\ MaxCycle \in Nat /\ W \in Nat \ {0} /\ MaxLag \in Nat \ {0}
    /\ Oracle \subseteq 0 .. 255 /\ MaxRestarts \in Nat

\* The board has cycles enough for every datagram it can get.
ASSUME EnoughCycles == MaxCycle >= Count + MaxFaults

VARIABLES
    \* those of ControlCycle
    ivs3, zdot, input_counter, marte_strategy, classic_output, output_counter,
    fpga, seen, got, u, strategy, x_old, inner_counter,
    oracle_decision, es_output, vs3_ref, marte, counter, es_state,
    left, restarts, seenCycle, doneCycle, before, held, decided, run, answered,
    reply, received   \* history: the index the sample of each board cycle came with

boardVars == <<ivs3, zdot, input_counter, marte_strategy, classic_output,
               output_counter, fpga, seen, got, u, strategy, x_old, inner_counter,
               oracle_decision, es_output, vs3_ref, marte, counter, es_state,
               left, restarts, seenCycle, doneCycle, before, held, decided, run,
               answered, reply>>

closedVars == <<vars, boardVars, received>>

Board == INSTANCE ControlCycle

ClosedInit == Init /\ Board!Init /\ received = << >>

\* GAMUDPReceiver takes the first datagram of the socket ...
BoardReceives ==
    /\ toBoard # << >>
    /\ Board!LoadIvs3
    /\ toBoard' = Tail(toBoard)
    /\ received' = Append(received, Head(toBoard))
    /\ UNCHANGED <<left, restarts, serverVars, toServer, cycles, faultVars>>

\* The sample a value was computed from; none before the first.
SampleOf(value) ==
    IF value.u.ivs3 \in DOMAIN received THEN received[value.u.ivs3] ELSE -1

\* ... and GAMUDPSender sends what it has come to.
BoardAnswers ==
    /\ Board!Send
    /\ toServer' = Append(toServer, [sample |-> SampleOf(vs3_ref), cycle |-> answered'])
    /\ cycles' = cycles + 1
    /\ UNCHANGED <<left, restarts, serverVars, toBoard, faultVars, received>>

\* The steps of the thread in between.
BoardComputes ==
    /\ \/ Board!LoadZdot
       \/ Board!IncrementCounter \/ Board!TestOracleForOne \/ Board!TestOracleForZero
       \/ Board!ExecuteExtremum
       \/ Board!SwapExtremum \/ Board!SwapSpin \/ Board!SwapClassic
    /\ UNCHANGED <<left, restarts, vars, received>>

Thread == BoardReceives \/ BoardComputes \/ BoardAnswers

FpgaStep == Board!Fpga /\ UNCHANGED <<left, restarts, vars, received>>

OracleStep == Board!OracleDecides /\ UNCHANGED <<left, restarts, vars, received>>

ClosedNext ==
    \/ (Server \/ Kill \/ Wire) /\ UNCHANGED <<boardVars, received>>
    \/ Thread \/ FpgaStep \/ OracleStep

\* The server, the thread and the FPGA go on as long as they can, each at its
\* own pace: a process, a real-time thread and a circuit that nothing stops.
\* The oracle, the wire and the kill may stay idle for ever.
ClosedSpec ==
    /\ ClosedInit /\ [][ClosedNext]_closedVars
    /\ WF_closedVars(Server /\ UNCHANGED <<boardVars, received>>)
    /\ WF_closedVars(Thread) /\ WF_closedVars(FpgaStep)
-----------------------------------------------------------------------------
\* On the samples the wire lets through, too, a classic value is computed
\* from a state that has integrated those of its run of classic cycles.
SteadyClassic == Board!SteadyClassic

\* Whatever the server and the wire do, the board's cycles implement the
\* indivisible ones of Controller.
AnswersAsPromised == Board!AnswersAsPromised

InWork == marte # "ivs3"

\* Seen from the wire, a datagram in work is still the first in the queue.
Loop == INSTANCE ServerLoop
            WITH toBoard <- IF InWork THEN <<received[Len(received)]>> \o toBoard
                                      ELSE toBoard,
                 cycles <- answered

\* With the controller byte by byte in its place, the loop is still the one
\* of ServerLoop: whatever order the thread, the FPGA, the oracle, the server
\* and the wire take their steps in, the board answers one datagram at a
\* time, in order, each by its own sample.
LoopKept == Loop!Spec
=============================================================================
