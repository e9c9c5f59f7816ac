----------------------------- MODULE Controller -----------------------------
(***************************************************************************)
(* What the controller promises the server, one indivisible step a cycle:  *)
(* every sample is answered once and in order, by the control law the      *)
(* cycle's strategy selects.  The value is computed from that very sample; *)
(* extremum seeking has integrated all samples before it, the classic law  *)
(* those of an uninterrupted run of classic cycles before it.              *)
(*                                                                         *)
(* The classic law is told of a switch by a store of its own, so it may go *)
(* by the strategy of the cycle before when it integrates or clears.       *)
(***************************************************************************)
EXTENDS ControlData

VARIABLES answered,  \* cycles answered so far
          strategy,  \* the strategy of the last of them
          run,       \* samples of the current run of classic cycles
          reply      \* the value sent last

controllerVars == <<answered, strategy, run, reply>>

ControllerInit == answered = 0 /\ strategy = 0 /\ run = << >> /\ reply = NoValue

Reply(s) ==
    IF s = 1 THEN ClassicOutput(run, Whole(answered + 1))
             ELSE ExtremumOutput(Upto(answered), Whole(answered + 1))

Answer ==
    /\ answered < MaxCycle
    /\ answered' = answered + 1
    /\ strategy' \in {0, 1}
    /\ reply' = Reply(strategy')
    /\ \E s \in {strategy, strategy'} :
           run' = ClassicState(run, Whole(answered + 1), s)

ControllerSpec == ControllerInit /\ [][Answer]_controllerVars
=============================================================================
