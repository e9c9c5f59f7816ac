---------------------------- MODULE ControlData ----------------------------
(***************************************************************************)
(* The values that flow through the controller, abstracted to their        *)
(* provenance.  A sample is named by the cycle whose datagram carried it;  *)
(* the state of a control law is the sequence of samples it has            *)
(* integrated; a control value is the sample and the state it was computed *)
(* from.  Two computations of the code yield the same number when their    *)
(* provenance is the same, which is all the properties ask.                *)
(***************************************************************************)
EXTENDS Integers, Sequences

CONSTANT MaxCycle  \* bound: samples received in one run of the controller

ASSUME MaxCycleAssumption == MaxCycle \in Nat

\* 0 names what the page holds before the first sample.
Cycle == 0 .. MaxCycle

\* The two inputs of the classic law, loaded into the page one by one.
Sample == [ivs3 : Cycle, zdot : Cycle]

\* The sample of cycle n, its two halves from the same datagram.
Whole(n) == [ivs3 |-> n, zdot |-> n]

Source == {"none", "es", "classic"}

Value == [by : Source, u : Sample, x : Seq(Sample)]

NoValue == [by |-> "none", u |-> Whole(0), x |-> << >>]

\* The state of a law that has integrated every sample up to n.
Upto(n) == [k \in 1 .. n |-> Whole(k)]

(***************************************************************************)
(* The classic law with its reset: the output is computed from the state   *)
(* before the update, the state integrates the sample while the strategy   *)
(* is classic and is zero otherwise.                                       *)
(***************************************************************************)
ClassicOutput(x, u) == [by |-> "classic", u |-> u, x |-> x]

ClassicState(x, u, strategy) == IF strategy # 0 THEN Append(x, u) ELSE << >>

\* Extremum seeking has no reset: its state integrates every sample.
ExtremumOutput(x, u) == [by |-> "es", u |-> u, x |-> x]
=============================================================================
