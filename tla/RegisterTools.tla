--------------------------- MODULE RegisterTools ---------------------------
(***************************************************************************)
(* The tools that write the configuration port of the FPGA's controller:   *)
(* the two hardware tests and "conf_port reset".  Each is a sequence of    *)
(* stores; they are run one after another, in any order, and each may be   *)
(* killed between two stores.  The module must not be at work on half a    *)
(* configuration.                                                          *)
(*                                                                         *)
(* conf_port maps 0x80000000 instead of 0x88000000, where the controls of  *)
(* the FPGA's reconfigurable regions are (DFX_CONF_PORT.md): its stores    *)
(* land there.                                                             *)
(***************************************************************************)
EXTENDS PageLayout, SequencesExt

CONSTANT Tools   \* the tools at hand

ASSUME ToolsAssumption == Tools \subseteq {"hw_test_new", "hw_test", "conf_port"}

VARIABLES
    reg,      \* the configuration port, at 0x88000000
    regions,  \* what is at 0x80000000, by the name of the register above it
    tool,     \* the tool that runs, or "none"
    step      \* stores it has done

vars == <<reg, regions, tool, step>>

-----------------------------------------------------------------------------
\* The configuration port, a struct like the page.
classic_vs_pl_conf_port ==
    <<Member("enabled", 2, 1), Member("counter_offset", 2, 1),
      Member("ivs3_offset", 2, 1), Member("zdot_offset", 2, 1),
      Member("marte_strategy_offset", 2, 1),
      Member("safe_control_output_offset", 2, 1), Member("res_0_0", 4, 1),
      Member("shared_page_base", 8, 1), Member("Af_val", 8, 1),
      Member("Bf_val", 8, 1), Member("Cf_val", 8, 1), Member("Df_val", 8, 1),
      Member("gain_val", 8, 1)>>
-----------------------------------------------------------------------------
(***************************************************************************)
(* The tools' stores, in their order.  The law's constants are the same    *)
(* everywhere and stand for themselves.                                    *)
(***************************************************************************)
Registers == {m.name : m \in ToSet(classic_vs_pl_conf_port)}

\* 0x46d00000
SHARED_PAGE_ADDR == 1133 * 1048576

Law ==
    <<<<"Af_val", "Af">>, <<"Bf_val", "Bf">>, <<"Cf_val", "Cf">>, <<"Df_val", "Df">>,
      <<"gain_val", "gain">>>>

Base == <<"shared_page_base", SHARED_PAGE_ADDR>>

InPage(register, field) == <<register, Offset(shared_page, field)>>

TestedOffsets ==
    <<InPage("counter_offset", "input_counter"),
      InPage("ivs3_offset", "ivs3"), InPage("zdot_offset", "zdot"),
      InPage("safe_control_output_offset", "classic_output")>>

\* Variation: without the offset of the strategy, as in the older test.
HwTestNewNoStrategy ==
    <<<<"enabled", 0>>>> \o Law \o <<Base>> \o TestedOffsets \o <<<<"enabled", 1>>>>

HwTestNew ==
    <<<<"enabled", 0>>>> \o Law \o <<Base>> \o TestedOffsets \o
    <<InPage("marte_strategy_offset", "marte_strategy"), <<"enabled", 1>>>>

\* Offsets of an older page: 0x1D0 is oracle_decision now, and 0x1C8 the
\* second element of Xpoints.
OlderInputs ==
    <<<<"counter_offset", 464>>, <<"ivs3_offset", 184>>, <<"zdot_offset", 208>>>>

OlderOutput == <<"safe_control_output_offset", 456>>

\* Variation: the module is not disabled first.
HwTestOldStaysEnabled ==
    Law \o <<Base>> \o OlderInputs \o <<OlderOutput, <<"enabled", 1>>>>

HwTestOld ==
    <<<<"enabled", 0>>>> \o Law \o <<Base>> \o OlderInputs \o
    <<OlderOutput, <<"enabled", 1>>>>

\* Variation: with the offset of the strategy the new test writes.
ConfPortResetStrategy ==
    <<<<"enabled", 1>>>> \o OlderInputs \o
    <<InPage("marte_strategy_offset", "marte_strategy"), OlderOutput, Base>> \o Law

ConfPortReset ==
    <<<<"enabled", 1>>>> \o OlderInputs \o
    <<<<"marte_strategy_offset", 0>>, OlderOutput, Base>> \o Law

Stores(t) ==
    CASE t = "hw_test_new" -> HwTestNew
      [] t = "hw_test"     -> HwTestOld
      [] t = "conf_port"   -> ConfPortReset

Init ==
    /\ reg = [r \in Registers |-> 0] /\ regions = [r \in Registers |-> 0]
    /\ tool = "none" /\ step = 0

Run ==
    /\ tool = "none" /\ tool' \in Tools /\ step' = 0
    /\ UNCHANGED <<reg, regions>>

Done == step = Len(Stores(tool))

StoreTo(port, store) == [port EXCEPT ![store[1]] = store[2]]

Store ==
    /\ tool # "none" /\ ~Done
    /\ step' = step + 1
    /\ IF tool = "conf_port"
       THEN regions' = StoreTo(regions, Stores(tool)[step + 1]) /\ UNCHANGED reg
       ELSE reg' = StoreTo(reg, Stores(tool)[step + 1]) /\ UNCHANGED regions
    /\ UNCHANGED tool

\* The older tools end with their last store; the new test at any time after
\* its first one by its exit handler, which disables the module.
End ==
    /\ tool \in {"hw_test", "conf_port"} /\ Done
    /\ tool' = "none" /\ step' = 0
    /\ UNCHANGED <<reg, regions>>

ExitHandler ==
    /\ tool = "hw_test_new"
    /\ reg' = [reg EXCEPT !["enabled"] = 0]
    /\ tool' = "none" /\ step' = 0
    /\ UNCHANGED regions

\* SIGKILL, or SIGINT in a tool that does not handle it.
Kill ==
    /\ tool # "none"
    /\ tool' = "none" /\ step' = 0
    /\ UNCHANGED <<reg, regions>>

Next == Run \/ Store \/ End \/ ExitHandler \/ Kill

Spec == Init /\ [][Next]_vars
-----------------------------------------------------------------------------
Holds(store) == reg[store[1]] = store[2]

\* The module is never at work on half a configuration: whenever it is
\* enabled, some test has written all it writes and nobody has touched it
\* since, wherever the tools before were killed ("Finally, enable the
\* module", hw_test.c:152, hw_test_new/hw_test.c:260).
EnabledIsConfigured ==
    reg["enabled"] = 1 =>
        \E t \in {"hw_test", "hw_test_new"} :
            \A k \in 2 .. Len(Stores(t)) : Holds(Stores(t)[k])

\* While the new test has it enabled, the FPGA uses the addresses the comments
\* of shared_page.h give for the fields, whatever the tools run before, of
\* which some write other offsets and some not all, have left.
TestedAddresses ==
    tool = "hw_test_new" /\ reg["enabled"] = 1 /\ step > 1 =>
        /\ reg["ivs3_offset"] = 184                   \* 0x0B8
        /\ reg["zdot_offset"] = 208                   \* 0x0D0
        /\ reg["counter_offset"] = 465                \* 0x1D1
        /\ reg["marte_strategy_offset"] = 466         \* 0x1D2
        /\ reg["safe_control_output_offset"] = 480    \* 0x1E0

\* Bit 8 of a region's 32-bit word commands its shutdown.
Shutdown(value) == (value \div 256) % 2 = 1

\* The stores of conf_port reach three words of region control; none of the
\* values that fall on their lower halves has the bit set that shuts a region
\* down.
RegionsStayUp ==
    \A r \in Registers :
        Offset(classic_vs_pl_conf_port, r) \in {0, 4, 8} => ~Shutdown(regions[r])
=============================================================================
