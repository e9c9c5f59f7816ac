----------------------------- MODULE MCStartup -----------------------------
(***************************************************************************)
(* Startup for the two servers.  vs_udp.c loads three recordings of one    *)
(* column and compares them all; vses_udp.c loads ten and leaves VS3.txt   *)
(* out of the comparison.  Of the ten, the first recording of each loader  *)
(* stands for the others of that loader, with narrower rows.               *)
(***************************************************************************)
EXTENDS Startup

MCFiles(s) ==
    CASE s = "vs"   -> <<"IVS3", "ZcDot", "VS3_ref">>
      [] s = "vses" -> <<"PF_Voltages", "VS3", "IVS3", "XPoints">>

MCCompared(s) ==
    CASE s = "vs"   -> {"ZcDot", "VS3_ref"}
      [] s = "vses" -> {"PF_Voltages", "XPoints"}

MCColumns(f) ==
    CASE f = "PF_Voltages" -> 3
      [] f = "XPoints"     -> 2
      [] OTHER             -> 1
=============================================================================
