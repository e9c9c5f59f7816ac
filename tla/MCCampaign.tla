----------------------------- MODULE MCCampaign -----------------------------
(* Campaign for the eight tests of all_vses_tests.sh. *)
EXTENDS Campaign

MCTest(interference, col, bwreg) ==
    [interference |-> interference, cachecol |-> col, bwreg |-> bwreg]

MCTests ==
    <<MCTest("solo", "off", "off"), MCTest("membomb", "off", "off"),
      MCTest("solo", "on", "off"), MCTest("membomb", "on", "off"),
      MCTest("solo", "off", "on"), MCTest("membomb", "off", "on"),
      MCTest("solo", "on", "on"), MCTest("membomb", "on", "on")>>
=============================================================================
