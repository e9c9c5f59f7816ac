--------------------------- MODULE Configurations ---------------------------
(***************************************************************************)
(* The configurations MARTe is started with, as data: the GAMs a thread    *)
(* runs, in the order of its Functions line, each with the signals it      *)
(* reads and writes.  A signal the file gives no dimensions and elements   *)
(* has the ones MARTe gives it, 0 and 1.                                   *)
(***************************************************************************)
EXTENDS Integers, Sequences

Signal(name, type, dims, elements) ==
    [name |-> name, type |-> type, samples |-> 1, dims |-> dims, elements |-> elements]

Float64(name) == Signal(name, "float64", 0, 1)
Array(name, elements) == Signal(name, "float64", 1, elements)
Uint8(name) == Signal(name, "uint8", 0, 1)
Uint32(name) == Signal(name, "uint32", 0, 1)

\* A GAM, where its inputs come from and where its outputs go: "page" is the
\* GAMDataSourceNC that stands on the shared page.
Gam(class, source, inputs, target, outputs) ==
    [class |-> class, source |-> source, inputs |-> inputs,
     target |-> target, outputs |-> outputs]

\* The signals of a datagram of the swapping controller, as they are sent.
Datagram ==
    <<Array("PFvoltages", 11), Float64("VS3"), Array("PFcurrents", 11),
      Float64("IVS3"), Float64("Ip"), Float64("Zc"), Float64("ZcDot"),
      Array("Gaps", 29), Array("XPoint", 2)>>

GAMUDPReceiver(signals) == Gam("IOGAM", "UDPReceiver", signals, "page", signals)

\* Variation: the padding is not declared.
GAMVSIncrementUnpadded ==
    Gam("VSGAMIncrement", "page", <<Uint8("OracleDecision")>>, "page",
        <<Uint8("InputCounter"), Uint8("MarteStrategy"), Uint8("OutputCounter")>>)

GAMVSIncrement ==
    Gam("VSGAMIncrement", "page", <<Uint8("OracleDecision")>>, "page",
        <<Uint8("InputCounter"), Uint8("MarteStrategy"), Uint8("OutputCounter"),
          Uint32("Reserved")>>)

GAMVSExtremum(output) ==
    Gam("VSGAMExtremum", "page",
        <<Array("PFvoltages", 11), Float64("VS3"), Array("PFcurrents", 11),
          Float64("IVS3"), Float64("Ip"), Float64("Zc")>>,
        "page", <<Float64(output)>>)

GAMVSSwap ==
    Gam("VSGAMSwap", "page",
        <<Uint8("InputCounter"), Uint8("OutputCounter"), Uint8("MarteStrategy"),
          Float64("VS3ES_ref"), Float64("VS3FPGA_ref")>>,
        "page", <<Float64("VS3_ref")>>)

GAMUDPSender ==
    Gam("IOGAM", "page", <<Float64("VS3_ref")>>, "UDPSender", <<Float64("VS3_ref")>>)

\* The file gets VS3_req, a signal of the page that no GAM writes.
GAMWriteFile ==
    Gam("IOGAM", "page", <<Float64("VS3_req")>> \o Datagram,
        "FileWriter", <<Float64("VS3_req")>> \o Datagram)

GAMTimer ==
    Gam("IOGAM", "Timer", <<Uint32("Counter"), Uint32("Time")>>,
        "DDB1", <<Uint32("Counter"), Uint32("Time")>>)

GAMVSClassic ==
    Gam("VSGAMClassic", "page", <<Float64("IVS3"), Float64("ZDOT")>>,
        "page", <<Float64("VS3_ref")>>)

\* Variation: the GAMs of the laws exchanged.
VSES_Control_Exchanged ==
    <<GAMUDPReceiver(Datagram), GAMVSIncrement, GAMVSSwap,
      GAMVSExtremum("VS3ES_ref"), GAMUDPSender>>

\* VSES-Control.cfg and, the same text, VSES-Control_Swap.cfg
VSES_Control ==
    <<GAMUDPReceiver(Datagram), GAMVSIncrement, GAMVSExtremum("VS3ES_ref"),
      GAMVSSwap, GAMUDPSender>>

VSES_Control_Write == Append(VSES_Control, GAMWriteFile)

VSES_Control_noSwap ==
    <<GAMUDPReceiver(Datagram), GAMVSExtremum("VS3_ref"), GAMUDPSender>>

\* The receiver of the classic law alone.
ClassicReceiver == GAMUDPReceiver(<<Float64("IVS3"), Float64("ZDOT")>>)

VS_Control == <<ClassicReceiver, GAMVSClassic, GAMUDPSender>>

VS_Control_Print == <<GAMTimer>> \o VS_Control

Configuration ==
    [VSES_Control |-> VSES_Control, VSES_Control_Write |-> VSES_Control_Write,
     VSES_Control_noSwap |-> VSES_Control_noSwap,
     VS_Control |-> VS_Control, VS_Control_Print |-> VS_Control_Print]
=============================================================================
