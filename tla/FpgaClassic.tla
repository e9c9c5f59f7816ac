---------------------------- MODULE FpgaClassic ----------------------------
(***************************************************************************)
(* The classic controller in the FPGA.  It is delivered as a bitstream and *)
(* is modelled from what the C code relies on: it polls input_counter, and *)
(* when that differs from the value it last served it reads the sample and *)
(* the strategy, computes with the state of before, updates the state (or  *)
(* clears it), and publishes the counter it served.  conf_port.h gives it  *)
(* an address for every field, so each field is read by its own access.    *)
(*                                                                         *)
(* The actions leave the fields that others write to the module that       *)
(* composes the FPGA with its driver.                                      *)
(***************************************************************************)
EXTENDS ControlData

VARIABLES
    \* page fields the FPGA reads
    ivs3, zdot, input_counter, marte_strategy,
    \* page fields it writes
    classic_output, output_counter,
    \* its own state
    fpga,           \* what it does next
    seen,           \* the input_counter it is serving
    got,            \* fields read so far for it
    u, strategy,    \* the values read
    x_old,          \* the state of the law
    inner_counter   \* the input_counter it served last

fpgaVars == <<fpga, seen, got, u, strategy, x_old, inner_counter>>

PageFields == {"ivs3", "zdot", "strategy"}

FpgaIdle ==
    /\ fpga = "poll" /\ seen = inner_counter /\ got = {}
    /\ u = Whole(0) /\ strategy = 0

FpgaInit == FpgaIdle /\ x_old = << >>

Latch ==
    /\ fpga = "poll" /\ input_counter # inner_counter
    /\ seen' = input_counter
    /\ got' = {}
    /\ fpga' = "read"
    /\ UNCHANGED <<u, strategy, x_old, inner_counter, output_counter, classic_output>>

\* The fields are read in no particular order.
Reading(field) ==
    /\ fpga = "read" /\ field \notin got
    /\ got' = got \cup {field}
    /\ UNCHANGED <<fpga, seen, x_old, inner_counter, output_counter, classic_output>>

ReadIvs3 == Reading("ivs3") /\ u' = [u EXCEPT !.ivs3 = ivs3] /\ UNCHANGED strategy

ReadZdot == Reading("zdot") /\ u' = [u EXCEPT !.zdot = zdot] /\ UNCHANGED strategy

ReadStrategy == Reading("strategy") /\ strategy' = marte_strategy /\ UNCHANGED u

ComputeWithoutReset ==
    /\ fpga = "read" /\ got = PageFields
    /\ classic_output' = ClassicOutput(x_old, u)
    /\ x_old' = Append(x_old, u)
    /\ fpga' = "publish"
    /\ UNCHANGED <<seen, got, u, strategy, inner_counter, output_counter>>

Compute ==
    /\ fpga = "read" /\ got = PageFields
    /\ classic_output' = ClassicOutput(x_old, u)
    /\ x_old' = ClassicState(x_old, u, strategy)
    /\ fpga' = "publish"
    /\ UNCHANGED <<seen, got, u, strategy, inner_counter, output_counter>>

\* The sample that was read is of no use any more.
Publish ==
    /\ fpga = "publish"
    /\ output_counter' = seen /\ inner_counter' = seen
    /\ fpga' = "poll"
    /\ got' = {} /\ u' = Whole(0)
    /\ UNCHANGED <<seen, strategy, x_old, classic_output>>
=============================================================================
