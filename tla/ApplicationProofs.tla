------------------------- MODULE ApplicationProofs -------------------------
(***************************************************************************)
(* Proofs about Application: for any choice among the configurations, any  *)
(* datagrams, any matrices and any number of cycles.                       *)
(***************************************************************************)
EXTENDS Application, SequenceTheorems, WellFoundedInduction, TLAPS

-----------------------------------------------------------------------------
(***************************************************************************)
(* Declarations: what a configuration file can say of a signal and of a    *)
(* GAM, and that every file of the repository, with one thing changed in   *)
(* it or none, says that.                                                  *)
(***************************************************************************)
\* Signals and GAMs whose words (names, types, classes and data sources) are
\* among those of a set.
DeclaredIn(words) ==
    [name : words, type : words, samples : Nat \ {0}, dims : Nat, elements : Nat \ {0}]

GamsIn(words) ==
    [class : words, source : words, inputs : Seq(DeclaredIn(words)),
     target : words, outputs : Seq(DeclaredIn(words))]

\* The words of the repository's files.
Words ==
    {"float64", "uint8", "uint32", "PFvoltages", "VS3", "PFcurrents", "IVS3", "Ip", "Zc",
     "ZcDot", "Gaps", "XPoint", "OracleDecision", "InputCounter", "MarteStrategy",
     "OutputCounter", "Reserved", "VS3ES_ref", "VS3FPGA_ref", "VS3_ref", "VS3_req",
     "Counter", "Time", "ZDOT", "Extra", "IOGAM", "VSGAMIncrement", "VSGAMExtremum",
     "VSGAMExtremum_1khz", "VSGAMSwap", "VSGAMClassic", "UDPReceiver", "page",
     "UDPSender", "FileWriter", "Timer", "DDB1"}

Declared == DeclaredIn(Words)
SignalLists == Seq(Declared)
Gams == GamsIn(Words)

LEMMA WordsUsed ==
    /\ "IOGAM" \in Words /\ "VSGAMIncrement" \in Words /\ "VSGAMExtremum" \in Words
    /\ "VSGAMExtremum_1khz" \in Words /\ "VSGAMSwap" \in Words
    /\ "VSGAMClassic" \in Words /\ "UDPReceiver" \in Words /\ "page" \in Words
    /\ "UDPSender" \in Words /\ "FileWriter" \in Words /\ "Timer" \in Words
    /\ "DDB1" \in Words
BY DEF Words

LEMMA SignalDeclared ==
    ASSUME NEW name \in Words, NEW type \in Words, NEW dims \in Nat,
           NEW elements \in Nat \ {0}
    PROVE  Signal(name, type, dims, elements) \in Declared
BY DEF Signal, Declared, DeclaredIn

LEMMA KindsDeclared ==
    ASSUME NEW name \in Words
    PROVE  /\ Float64(name) \in Declared /\ Uint8(name) \in Declared
           /\ Uint32(name) \in Declared
           /\ \A elements \in Nat \ {0} : Array(name, elements) \in Declared
<1>1. "float64" \in Words /\ "uint8" \in Words /\ "uint32" \in Words
  BY DEF Words
<1> QED
  BY <1>1, SignalDeclared DEF Float64, Uint8, Uint32, Array

LEMMA GamType ==
    ASSUME NEW class \in Words, NEW source \in Words, NEW inputs \in SignalLists,
           NEW target \in Words, NEW outputs \in SignalLists
    PROVE  Gam(class, source, inputs, target, outputs) \in Gams
BY DEF Gam, Gams, GamsIn, Declared, SignalLists

LEMMA DatagramType == Datagram \in SignalLists
<1>1. /\ Array("PFvoltages", 11) \in Declared /\ Float64("VS3") \in Declared
      /\ Array("PFcurrents", 11) \in Declared /\ Float64("IVS3") \in Declared
      /\ Float64("Ip") \in Declared /\ Float64("Zc") \in Declared
      /\ Float64("ZcDot") \in Declared /\ Array("Gaps", 29) \in Declared
      /\ Array("XPoint", 2) \in Declared
  BY KindsDeclared DEF Words
<1> QED
  BY <1>1 DEF Datagram, SignalLists

LEMMA ReceiverType ==
    ASSUME NEW signals \in SignalLists
    PROVE  GAMUDPReceiver(signals) \in Gams
BY GamType, WordsUsed DEF GAMUDPReceiver

LEMMA IncrementType == GAMVSIncrement \in Gams
<1>1. /\ Uint8("OracleDecision") \in Declared /\ Uint8("InputCounter") \in Declared
      /\ Uint8("MarteStrategy") \in Declared /\ Uint8("OutputCounter") \in Declared
      /\ Uint32("Reserved") \in Declared
  BY KindsDeclared DEF Words
<1>2. <<Uint8("OracleDecision")>> \in SignalLists
  BY <1>1 DEF SignalLists
<1>3. <<Uint8("InputCounter"), Uint8("MarteStrategy"), Uint8("OutputCounter"),
        Uint32("Reserved")>> \in SignalLists
  BY <1>1 DEF SignalLists
<1> QED
  BY <1>2, <1>3, GamType, WordsUsed DEF GAMVSIncrement

LEMMA ExtremumType ==
    ASSUME NEW output \in Words
    PROVE  GAMVSExtremum(output) \in Gams
<1>1. /\ Array("PFvoltages", 11) \in Declared /\ Float64("VS3") \in Declared
      /\ Array("PFcurrents", 11) \in Declared /\ Float64("IVS3") \in Declared
      /\ Float64("Ip") \in Declared /\ Float64("Zc") \in Declared
      /\ Float64(output) \in Declared
  BY KindsDeclared DEF Words
<1>2. <<Array("PFvoltages", 11), Float64("VS3"), Array("PFcurrents", 11),
        Float64("IVS3"), Float64("Ip"), Float64("Zc")>> \in SignalLists
  BY <1>1 DEF SignalLists
<1>3. <<Float64(output)>> \in SignalLists
  BY <1>1 DEF SignalLists
<1> QED
  BY <1>2, <1>3, GamType, WordsUsed DEF GAMVSExtremum

LEMMA SwapType == GAMVSSwap \in Gams
<1>1. /\ Uint8("InputCounter") \in Declared /\ Uint8("OutputCounter") \in Declared
      /\ Uint8("MarteStrategy") \in Declared /\ Float64("VS3ES_ref") \in Declared
      /\ Float64("VS3FPGA_ref") \in Declared /\ Float64("VS3_ref") \in Declared
  BY KindsDeclared DEF Words
<1>2. <<Uint8("InputCounter"), Uint8("OutputCounter"), Uint8("MarteStrategy"),
        Float64("VS3ES_ref"), Float64("VS3FPGA_ref")>> \in SignalLists
  BY <1>1 DEF SignalLists
<1>3. <<Float64("VS3_ref")>> \in SignalLists
  BY <1>1 DEF SignalLists
<1> QED
  BY <1>2, <1>3, GamType, WordsUsed DEF GAMVSSwap

LEMMA SenderType == GAMUDPSender \in Gams
<1>1. <<Float64("VS3_ref")>> \in SignalLists
  BY KindsDeclared DEF Words, SignalLists
<1> QED
  BY <1>1, GamType, WordsUsed DEF GAMUDPSender

LEMMA WriteFileType == GAMWriteFile \in Gams
<1>1. <<Float64("VS3_req")>> \in SignalLists
  BY KindsDeclared DEF Words, SignalLists
<1>2. <<Float64("VS3_req")>> \o Datagram \in SignalLists
  BY <1>1, DatagramType, ConcatProperties DEF SignalLists
<1> QED
  BY <1>2, GamType, WordsUsed DEF GAMWriteFile

LEMMA TimerType == GAMTimer \in Gams
<1>1. <<Uint32("Counter"), Uint32("Time")>> \in SignalLists
  BY KindsDeclared DEF Words, SignalLists
<1> QED
  BY <1>1, GamType, WordsUsed DEF GAMTimer

LEMMA ClassicType == ClassicReceiver \in Gams /\ GAMVSClassic \in Gams
<1>1. Float64("IVS3") \in Declared /\ Float64("ZDOT") \in Declared
      /\ Float64("VS3_ref") \in Declared
  BY KindsDeclared DEF Words
<1>2. /\ <<Float64("IVS3"), Float64("ZDOT")>> \in SignalLists
      /\ <<Float64("VS3_ref")>> \in SignalLists
  BY <1>1 DEF SignalLists
<1>3. ClassicReceiver \in Gams
  BY <1>2, ReceiverType DEF ClassicReceiver
<1>4. GAMVSClassic \in Gams
  BY <1>2, GamType, WordsUsed DEF GAMVSClassic
<1> QED
  BY <1>3, <1>4

\* The lists of GAMs, the Functions lines.
GamLists == {functions \in Seq(Gams) : Len(functions) > 0}

LEMMA ListsGrow ==
    ASSUME NEW functions \in Seq(Gams), NEW gam \in Gams
    PROVE  /\ Append(functions, gam) \in GamLists
           /\ <<gam>> \o functions \in GamLists
BY DEF GamLists

LEMMA ConfigurationType ==
    ASSUME NEW f \in DOMAIN Configuration
    PROVE  Configuration[f] \in GamLists
<1>1. GAMUDPReceiver(Datagram) \in Gams
  BY DatagramType, ReceiverType
<1>2. GAMVSExtremum("VS3ES_ref") \in Gams /\ GAMVSExtremum("VS3_ref") \in Gams
  BY ExtremumType DEF Words
<1>3. VSES_Control \in Seq(Gams) /\ VSES_Control \in GamLists
  BY <1>1, <1>2, IncrementType, SwapType, SenderType DEF VSES_Control, GamLists
<1>4. VSES_Control_Write \in GamLists
  BY <1>3, WriteFileType, ListsGrow DEF VSES_Control_Write
<1>5. VSES_Control_noSwap \in GamLists
  BY <1>1, <1>2, SenderType DEF VSES_Control_noSwap, GamLists
<1>6. VS_Control \in Seq(Gams) /\ VS_Control \in GamLists
  BY ClassicType, SenderType DEF VS_Control, GamLists
<1>7. VS_Control_Print \in GamLists
  BY <1>6, TimerType, ListsGrow DEF VS_Control_Print
<1> QED
  BY <1>3, <1>4, <1>5, <1>6, <1>7 DEF Configuration

\* A list with one of its GAMs given other signals.
LEMMA OtherSignals ==
    ASSUME NEW functions \in GamLists, NEW g \in DOMAIN functions,
           NEW signals \in SignalLists
    PROVE  /\ [functions EXCEPT ![g].inputs = signals] \in GamLists
           /\ [functions EXCEPT ![g].outputs = signals] \in GamLists
<1>1. /\ DOMAIN functions = 1 .. Len(functions) /\ Len(functions) \in Nat \ {0}
      /\ functions[g] \in Gams
  BY DEF GamLists
<1>2. /\ [functions[g] EXCEPT !.inputs = signals] \in Gams
      /\ [functions[g] EXCEPT !.outputs = signals] \in Gams
  BY <1>1 DEF Gams, GamsIn, SignalLists, Declared
<1>3. ASSUME NEW gam \in Gams
      PROVE  [functions EXCEPT ![g] = gam] \in GamLists
  BY <1>1 DEF GamLists
<1> QED
  BY <1>2, <1>3

LEMMA AreSignals ==
    ASSUME NEW n \in Nat, NEW signals \in [1 .. n -> Declared]
    PROVE  signals \in SignalLists
BY DEF SignalLists

LEMMA AreGams ==
    ASSUME NEW n \in Nat \ {0}, NEW functions \in [1 .. n -> Gams]
    PROVE  functions \in GamLists
BY DEF GamLists

LEMMA RedeclaredType ==
    ASSUME NEW signals \in SignalLists, NEW name \in Words,
           NEW as \in {<<"uint32", 1, 0, 1>>, <<"float64", 2, 0, 1>>,
                       <<"float64", 1, 1, 1>>, <<"float64", 1, 0, 2>>}
    PROVE  Redeclared(signals, name, as) \in SignalLists
<1>1. as[1] \in Words /\ as[2] \in Nat \ {0} /\ as[3] \in Nat /\ as[4] \in Nat \ {0}
  <2>1. CASE as = <<"uint32", 1, 0, 1>>
    BY <2>1 DEF Words
  <2>2. CASE as = <<"float64", 2, 0, 1>>
    BY <2>2 DEF Words
  <2>3. CASE as = <<"float64", 1, 1, 1>>
    BY <2>3 DEF Words
  <2>4. CASE as = <<"float64", 1, 0, 2>>
    BY <2>4 DEF Words
  <2> QED
    BY <2>1, <2>2, <2>3, <2>4
<1>2. ASSUME NEW s \in DOMAIN signals
      PROVE  (IF signals[s].name # name THEN signals[s]
              ELSE [name |-> name, type |-> as[1], samples |-> as[2], dims |-> as[3],
                    elements |-> as[4]]) \in Declared
  <2>1. signals[s] \in Declared
    BY DEF SignalLists
  <2>2. [name |-> name, type |-> as[1], samples |-> as[2], dims |-> as[3],
         elements |-> as[4]] \in Declared
    BY <1>1 DEF Declared, DeclaredIn
  <2> QED
    BY <2>1, <2>2
<1>3. DOMAIN signals = 1 .. Len(signals) /\ Len(signals) \in Nat
  BY DEF SignalLists
<1>4. Redeclared(signals, name, as) \in [1 .. Len(signals) -> Declared]
  BY <1>2, <1>3 DEF Redeclared
<1> QED
  BY <1>3, <1>4, AreSignals

\* A changed list of GAMs is a list of GAMs.
LEMMA ApplyType ==
    ASSUME NEW functions \in GamLists, NEW change \in Edits(functions)
    PROVE  Apply(change, functions) \in GamLists
<1>1. /\ DOMAIN functions = 1 .. Len(functions) /\ Len(functions) \in Nat \ {0}
      /\ \A g \in DOMAIN functions : functions[g] \in Gams
  BY DEF GamLists
<1>2. CASE change = NoEdit
  BY <1>2 DEF NoEdit, Apply
<1>3. CASE change = Variant
  <2>1. ASSUME NEW g \in DOMAIN functions
        PROVE  (IF functions[g].class = "VSGAMExtremum"
                THEN [functions[g] EXCEPT !.class = "VSGAMExtremum_1khz"]
                ELSE functions[g]) \in Gams
    BY <1>1, WordsUsed DEF Gams, GamsIn
  <2> QED
    BY <1>1, <1>3, <2>1 DEF Variant, Apply, GamLists
<1>4. CASE \E g \in DOMAIN functions, side \in {"in", "out"} :
               change = [kind |-> "omit", gam |-> g, side |-> side]
  <2>1. PICK g \in DOMAIN functions, side \in {"in", "out"} :
            change = [kind |-> "omit", gam |-> g, side |-> side]
    BY <1>4
  <2>2. functions[g].inputs \in SignalLists /\ functions[g].outputs \in SignalLists
    BY <1>1 DEF Gams, GamsIn, SignalLists, Declared
  <2>3. ASSUME NEW signals \in SignalLists PROVE Front(signals) \in SignalLists
    BY DEF Front, SignalLists
  <2>4. /\ Front(functions[g].inputs) \in SignalLists
        /\ Front(functions[g].outputs) \in SignalLists
    BY <2>2, <2>3
  <2>5. CASE side = "in"
    BY <2>1, <2>4, <2>5, OtherSignals DEF Apply
  <2>6. CASE side = "out"
    BY <2>1, <2>4, <2>6, OtherSignals DEF Apply
  <2> QED
    BY <2>5, <2>6
<1>5. CASE \E g \in DOMAIN functions : change = [kind |-> "add", gam |-> g]
  <2>1. PICK g \in DOMAIN functions : change = [kind |-> "add", gam |-> g]
    BY <1>5
  <2>2. functions[g].inputs \in SignalLists
    BY <1>1 DEF Gams, GamsIn, SignalLists, Declared
  <2>3. Float64("Extra") \in Declared
    BY KindsDeclared DEF Words
  <2>4. Append(functions[g].inputs, Float64("Extra")) \in SignalLists
    BY <2>2, <2>3 DEF SignalLists
  <2> QED
    BY <2>1, <2>4, OtherSignals DEF Apply
<1>6. CASE \E name \in Words,
              as \in {<<"uint32", 1, 0, 1>>, <<"float64", 2, 0, 1>>,
                      <<"float64", 1, 1, 1>>, <<"float64", 1, 0, 2>>} :
               change = [kind |-> "declare", name |-> name, as |-> as]
  <2>1. PICK name \in Words,
             as \in {<<"uint32", 1, 0, 1>>, <<"float64", 2, 0, 1>>,
                     <<"float64", 1, 1, 1>>, <<"float64", 1, 0, 2>>} :
               change = [kind |-> "declare", name |-> name, as |-> as]
    BY <1>6
  <2> DEFINE other(g) == [functions[g] EXCEPT
                              !.inputs = Redeclared(@, change.name, change.as),
                              !.outputs = Redeclared(@, change.name, change.as)]
  <2>2. ASSUME NEW g \in DOMAIN functions
        PROVE  other(g) \in Gams
    <3>1. functions[g].inputs \in SignalLists /\ functions[g].outputs \in SignalLists
      BY <1>1 DEF Gams, GamsIn, SignalLists, Declared
    <3>2. /\ Redeclared(functions[g].inputs, change.name, change.as) \in SignalLists
          /\ Redeclared(functions[g].outputs, change.name, change.as) \in SignalLists
      BY <2>1, <3>1, RedeclaredType
    <3> QED
      BY <1>1, <3>2 DEF Gams, GamsIn, SignalLists, Declared
  <2>3. Apply(change, functions) = [g \in DOMAIN functions |-> other(g)]
    BY <2>1 DEF Apply
  <2> HIDE DEF other
  <2> QED
    BY <1>1, <2>2, <2>3, AreGams
<1>7. ASSUME NEW g \in DOMAIN functions,
             NEW n \in {s.name : s \in ToSet(functions[g].inputs \o functions[g].outputs)}
      PROVE  n \in Words
  <2>1. functions[g].inputs \in SignalLists /\ functions[g].outputs \in SignalLists
    BY <1>1 DEF Gams, GamsIn, SignalLists, Declared
  <2>2. ASSUME NEW x \in SignalLists, NEW y \in SignalLists
        PROVE  x \o y \in SignalLists
    BY DEF SignalLists
  <2>3. ASSUME NEW x \in SignalLists
        PROVE  \A s \in ToSet(x) : s \in Declared
    BY DEF SignalLists, ToSet
  <2>4. \A s \in ToSet(functions[g].inputs \o functions[g].outputs) : s \in Declared
    BY <2>1, <2>2, <2>3
  <2> QED
    BY <2>4 DEF Declared, DeclaredIn
<1> QED
  BY <1>2, <1>3, <1>4, <1>5, <1>6, <1>7 DEF Edits
-----------------------------------------------------------------------------
(***************************************************************************)
(* What Setup accepts.  While the GAMs are set up, those before the one in *)
(* turn have been accepted; when the thread runs, all have.                *)
(***************************************************************************)
SetupInv ==
    /\ at \in 1 .. Len(gams)
    /\ stage = "setup" => \A g \in 1 .. at - 1 : Accepts(gams[g])
    /\ stage \in {"run", "wild"} => \A g \in 1 .. Len(gams) : Accepts(gams[g])

\* What VSGAMClassic::Setup accepts fits the three pointers of its Execute:
\* with one element of float64, any number of samples is enough.
LEMMA AcceptedFits ==
    ASSUME NEW words, NEW gam \in GamsIn(words), gam.class = "VSGAMClassic", Accepts(gam)
    PROVE  \A m \in ToSet(Members("VSGAMClassic")) : Fits(gam, m)
<1>1. /\ Len(gam.inputs) = 2 /\ Len(gam.outputs) = 1
      /\ gam.outputs[1].type = "float64" /\ gam.outputs[1].elements = 1
      /\ gam.inputs[1].type = "float64" /\ gam.inputs[1].elements = 1
      /\ gam.inputs[2].type = "float64" /\ gam.inputs[2].elements = 1
  BY DEF Accepts, ClassicCounts, ClassicTypes, ClassicElements
<1>2. /\ gam.inputs \in Seq(DeclaredIn(words)) /\ gam.outputs \in Seq(DeclaredIn(words))
  BY DEF GamsIn
<1>3. DOMAIN gam.inputs = 1 .. 2 /\ DOMAIN gam.outputs = 1 .. 1
  BY <1>1, <1>2
<1>4. /\ gam.inputs[1] \in DeclaredIn(words) /\ gam.inputs[2] \in DeclaredIn(words)
      /\ gam.outputs[1] \in DeclaredIn(words)
  BY <1>1, <1>2
<1>5. ASSUME NEW signal \in DeclaredIn(words), signal.type = "float64", signal.elements = 1
      PROVE  Bytes(signal) >= 8
  <2>1. signal.samples \in Nat /\ signal.samples >= 1
    BY DEF DeclaredIn
  <2>2. Bytes(signal) = 8 * 1 * signal.samples
    BY <1>5 DEF Bytes, Size
  <2> QED
    BY <2>1, <2>2
<1>6. /\ Bytes(gam.inputs[1]) >= 8 /\ Bytes(gam.inputs[2]) >= 8
      /\ Bytes(gam.outputs[1]) >= 8
  BY <1>1, <1>4, <1>5
<1>7. ToSet(Members("VSGAMClassic")) = {ClassicMembers[p] : p \in 1 .. 3}
  BY DEF Members, ClassicMembers, ToSet
<1>8. /\ Fits(gam, ClassicMembers[1]) /\ Fits(gam, ClassicMembers[2])
      /\ Fits(gam, ClassicMembers[3])
  BY <1>1, <1>3, <1>6 DEF Fits, ClassicMembers, Member4, Side, Size
<1> QED
  BY <1>7, <1>8

LEMMA SetupInvNext ==
    ASSUME NEW words, gams \in Seq(GamsIn(words)), SetupInv, CheckedNeverStray, [Next]_vars
    PROVE  gams' = gams /\ SetupInv' /\ CheckedNeverStray'
<1>1. Len(gams) \in Nat /\ at \in 1 .. Len(gams)
  BY DEF SetupInv
<1>2. CASE Initialise
  BY <1>1, <1>2 DEF Initialise, setupVars, SetupInv, CheckedNeverStray
<1>3. CASE Setup
  <2>1. gams' = gams
    BY <1>3 DEF Setup, setupVars
  <2>2. CASE ~Accepts(gams[at])
    BY <1>3, <2>1, <2>2 DEF Setup, SetupInv, CheckedNeverStray
  <2>3. CASE Accepts(gams[at])
    <3>1. \A g \in 1 .. at : Accepts(gams[g])
      BY <1>1, <1>3, <2>3 DEF Setup, SetupInv
    <3>2. CASE at < Len(gams)
      BY <1>1, <1>3, <2>1, <2>3, <3>1, <3>2 DEF Setup, SetupInv, CheckedNeverStray
    <3>3. CASE at = Len(gams)
      BY <1>1, <1>3, <2>1, <2>3, <3>1, <3>3 DEF Setup, SetupInv, CheckedNeverStray
    <3> QED
      BY <1>1, <3>2, <3>3
  <2> QED
    BY <2>2, <2>3
<1>4. CASE Stray
  <2>1. gams' = gams /\ at' = at /\ stage = "run" /\ stage' = "wild"
    BY <1>4 DEF Stray, setupVars
  <2>2. gams[at].class # "VSGAMClassic"
    <3> SUFFICES ASSUME gams[at].class = "VSGAMClassic" PROVE FALSE
      OBVIOUS
    <3>1. Accepts(gams[at])
      BY <1>1, <2>1 DEF SetupInv
    <3>2. gams[at] \in GamsIn(words)
      BY <1>1
    <3> QED
      BY <1>4, <3>1, <3>2, AcceptedFits DEF Stray, Gam1
  <2> QED
    BY <2>1, <2>2 DEF SetupInv, CheckedNeverStray, Gam1
<1>5. ASSUME stage' = stage, gams' = gams, at' \in 1 .. Len(gams), stage = "run"
      PROVE  gams' = gams /\ SetupInv' /\ CheckedNeverStray'
  BY <1>5 DEF SetupInv, CheckedNeverStray
<1>6. ASSUME NextGam PROVE at' \in 1 .. Len(gams)
  BY <1>1, <1>6 DEF NextGam
<1>7. CASE Receive \/ WaitForTimer \/ CopyOut
  BY <1>5, <1>6, <1>7 DEF Receive, WaitForTimer, CopyOut, Turn, setupVars
<1>8. CASE ExecuteIncrement \/ ExecuteSwap \/ ExecuteClassicGam
  BY <1>5, <1>6, <1>8 DEF ExecuteIncrement, ExecuteSwap, ExecuteClassicGam, Turn, setupVars
<1>9. CASE ExecuteExtremumGam \/ ExecuteExtremum_1khzGam
  BY <1>5, <1>6, <1>9
     DEF ExecuteExtremumGam, ExecuteExtremum_1khzGam, ExecuteSeeking, Turn, setupVars
<1>10. CASE FpgaServes \/ OracleDecides
  BY <1>1, <1>5, <1>10 DEF FpgaServes, OracleDecides, setupVars
<1>11. CASE UNCHANGED vars
  BY <1>11 DEF vars, setupVars, SetupInv, CheckedNeverStray, Gam1
<1> QED
  BY <1>2, <1>3, <1>4, <1>7, <1>8, <1>9, <1>10, <1>11 DEF Next, Thread

\* An application before its GAMs are initialised, whatever they are.
Start(words) ==
    gams \in Seq(GamsIn(words)) /\ gams # << >> /\ stage = "initialise" /\ at = 1

\* Whatever GAMs a configuration lists, and whatever signals it gives them, a
\* GAM that goes astray is none that VSGAMClassic::Setup has accepted.
THEOREM AcceptedNeverStray ==
    ASSUME NEW words
    PROVE  Start(words) /\ [][Next]_vars => []CheckedNeverStray
<1> DEFINE Inv == gams \in Seq(GamsIn(words)) /\ SetupInv /\ CheckedNeverStray
<1>1. Start(words) => Inv
  BY DEF Start, SetupInv, CheckedNeverStray
<1>2. Inv /\ [Next]_vars => Inv'
  BY SetupInvNext
<1>3. Inv => CheckedNeverStray
  OBVIOUS
<1> QED
  BY <1>1, <1>2, <1>3, PTL

\* The configurations of the repository, and each with one signal of a GAM
\* left out, added or declared otherwise, are such lists.
THEOREM CheckedNeverAstray == Spec => []CheckedNeverStray
<1>1. Init => Start(Words)
  <2> SUFFICES ASSUME Init PROVE Start(Words)
    OBVIOUS
  <2>1. file \in DOMAIN Configuration /\ edit \in Edits(Configuration[file])
    BY FilesAssumption DEF Init
  <2>2. gams \in GamLists
    BY <2>1, ConfigurationType, ApplyType DEF Init
  <2> QED
    BY <2>2 DEF Init, Start, GamLists, Gams
<1>2. Start(Words) /\ [][Next]_vars => []CheckedNeverStray
  BY AcceptedNeverStray
<1> QED
  BY <1>1, <1>2, PTL DEF Spec
-----------------------------------------------------------------------------
(***************************************************************************)
(* Induction over the numbers, for sets, and functions built by recursion: *)
(* what a recursive definition of Application or Laws computes is what the *)
(* function built by the same steps holds.                                 *)
(***************************************************************************)
LEMMA Induction ==
    ASSUME NEW T, 0 \in T, \A n \in Nat : n \in T => n + 1 \in T
    PROVE  \A n \in Nat : n \in T
<1> SUFFICES ASSUME {n \in Nat : n \notin T} # {} PROVE FALSE
  OBVIOUS
<1> DEFINE Outside == {n \in Nat : n \notin T}
<1>1. PICK d \in Outside : \A y \in Outside : <<y, d>> \notin OpToRel(<, Nat)
  BY NatLessThanWellFounded, WFMin
<1>2. d \in Nat /\ d # 0
  BY <1>1
<1>3. d - 1 \in Nat /\ <<d - 1, d>> \in OpToRel(<, Nat)
  BY <1>2 DEF OpToRel
<1>4. d - 1 \in T
  BY <1>1, <1>3
<1>5. (d - 1) + 1 = d
  BY <1>2
<1> QED
  BY <1>1, <1>3, <1>4, <1>5

\* f is built from x by G.
Builds(f, x, G) == f[0] = x /\ \A n \in Nat : f[n + 1] = G[<<n, f[n]>>]

\* There is such a function.
LEMMA Recursion ==
    ASSUME NEW X, NEW x \in X, NEW G \in [Nat \X X -> X]
    PROVE  \E f \in [Nat -> X] : Builds(f, x, G)
<1> DEFINE Upto(n, g) == g[0] = x /\ \A m \in 0 .. n - 1 : g[m + 1] = G[<<m, g[m]>>]
           T == {n \in Nat : \E g \in [Nat -> X] : Upto(n, g)}
<1>1. 0 \in T
  <2>1. [m \in Nat |-> x] \in [Nat -> X] /\ Upto(0, [m \in Nat |-> x])
    OBVIOUS
  <2> QED
    BY <2>1
<1>2. ASSUME NEW n \in Nat, n \in T
      PROVE  n + 1 \in T
  <2>1. PICK g \in [Nat -> X] : Upto(n, g)
    BY <1>2
  <2> DEFINE h == [m \in Nat |-> IF m = n + 1 THEN G[<<n, g[n]>>] ELSE g[m]]
  <2>2. h \in [Nat -> X]
    OBVIOUS
  <2>3. h[0] = x
    BY <2>1
  <2>4. ASSUME NEW m \in 0 .. n PROVE h[m + 1] = G[<<m, h[m]>>]
    <3>1. CASE m = n
      BY <3>1
    <3>2. CASE m \in 0 .. n - 1
      BY <2>1, <3>2
    <3> QED
      BY <3>1, <3>2
  <2>5. (n + 1) - 1 = n
    OBVIOUS
  <2>6. Upto(n + 1, h)
    BY <2>3, <2>4, <2>5
  <2> HIDE DEF h
  <2> QED
    BY <2>2, <2>6
<1>3. \A n \in Nat : n \in T
  <2> HIDE DEF T
  <2> QED
    BY <1>1, <1>2, Induction
<1>4. PICK g \in [Nat -> [Nat -> X]] : \A n \in Nat : Upto(n, g[n])
  <2>1. \A n \in Nat : \E h \in [Nat -> X] : Upto(n, h)
    BY <1>3
  <2> DEFINE g == [n \in Nat |-> CHOOSE h \in [Nat -> X] : Upto(n, h)]
  <2>2. ASSUME NEW n \in Nat
        PROVE  g[n] \in [Nat -> X] /\ Upto(n, g[n])
    <3> HIDE DEF Upto
    <3> QED
      BY <2>1
  <2> HIDE DEF Upto
  <2>3. g \in [Nat -> [Nat -> X]]
    BY <2>2
  <2> QED
    BY <2>2, <2>3
<1>5. ASSUME NEW k \in Nat, NEW n \in Nat, k <= n
      PROVE  g[n][k] = g[k][k]
  <2> DEFINE S == {j \in Nat : j > k \/ g[n][j] = g[k][j]}
  <2>1. 0 \in S
    BY <1>4
  <2>2. ASSUME NEW j \in Nat, j \in S PROVE j + 1 \in S
    <3>1. CASE j + 1 > k
      BY <3>1
    <3>2. CASE j + 1 <= k
      <4>1. j \in 0 .. n - 1 /\ j \in 0 .. k - 1
        BY <1>5, <3>2
      <4>2. g[n][j + 1] = G[<<j, g[n][j]>>] /\ g[k][j + 1] = G[<<j, g[k][j]>>]
        BY <1>4, <4>1
      <4>3. g[n][j] = g[k][j]
        BY <2>2, <4>1
      <4> QED
        BY <4>2, <4>3
    <3> QED
      BY <3>1, <3>2
  <2>3. k \in S
    <3> HIDE DEF S
    <3> QED
      BY <2>1, <2>2, Induction
  <2> QED
    BY <2>3
<1> DEFINE f == [n \in Nat |-> g[n][n]]
<1>6. f \in [Nat -> X]
  BY <1>4
<1>7. f[0] = x
  BY <1>4
<1>8. ASSUME NEW n \in Nat PROVE f[n + 1] = G[<<n, f[n]>>]
  <2>1. n \in 0 .. (n + 1) - 1 /\ n + 1 \in Nat /\ n <= n + 1
    OBVIOUS
  <2>2. g[n + 1][n + 1] = G[<<n, g[n + 1][n]>>]
    BY <1>4, <2>1
  <2>3. g[n + 1][n] = g[n][n]
    BY <1>5, <2>1
  <2> QED
    BY <2>1, <2>2, <2>3
<1> HIDE DEF f
<1> QED
  BY <1>6, <1>7, <1>8 DEF Builds

-----------------------------------------------------------------------------
(***************************************************************************)
(* The page's signals in a configuration of the repository.                *)
(***************************************************************************)
\* The signals of one GAM that lie on the page.
Part(gam) ==
    (IF gam.source = "page" THEN gam.inputs ELSE << >>)
    \o (IF gam.target = "page" THEN gam.outputs ELSE << >>)

\* z is the lists x and y joined.
IsJoin(x, y, z) ==
    /\ z \in SignalLists
    /\ Len(z) = Len(x) + Len(y)
    /\ \A k \in 1 .. Len(x) : z[k] = x[k]
    /\ \A k \in 1 .. Len(y) : z[Len(x) + k] = y[k]

LEMMA JoinedSignals ==
    ASSUME NEW x \in SignalLists, NEW y \in SignalLists
    PROVE  x \o y \in SignalLists /\ IsJoin(x, y, x \o y)
<1>1. x \o y \in SignalLists /\ Len(x \o y) = Len(x) + Len(y)
  BY DEF SignalLists
<1>2. \A k \in 1 .. Len(x) : (x \o y)[k] = x[k]
  BY DEF SignalLists
<1>3. \A k \in 1 .. Len(y) : (x \o y)[Len(x) + k] = y[k]
  BY DEF SignalLists
<1> QED
  BY <1>1, <1>2, <1>3 DEF IsJoin

LEMMA PartType ==
    ASSUME NEW gam \in Gams
    PROVE  Part(gam) \in SignalLists
<1>1. gam.inputs \in SignalLists /\ gam.outputs \in SignalLists /\ << >> \in SignalLists
  BY DEF Gams, GamsIn, SignalLists, Declared
<1> QED
  BY <1>1, JoinedSignals DEF Part

\* FlattenSeq adds the lists one by one.
Flattens(seqs, f) ==
    f = [i \in 1 .. Len(seqs) |-> IF i = 1 THEN seqs[i] ELSE f[i - 1] \o seqs[i]]

FlattenedBy(seqs, f) ==
    f[1] = seqs[1] /\ \A i \in 2 .. Len(seqs) : f[i] = f[i - 1] \o seqs[i]

LEMMA FlattenSteps ==
    ASSUME NEW seqs, NEW f, Len(seqs) \in Nat \ {0}, Flattens(seqs, f)
    PROVE  FlattenedBy(seqs, f)
<1>1. f[1] = seqs[1]
  BY DEF Flattens
<1>2. ASSUME NEW i \in 2 .. Len(seqs) PROVE f[i] = f[i - 1] \o seqs[i]
  <2>1. i \in 1 .. Len(seqs) /\ i # 1
    OBVIOUS
  <2> QED
    BY <2>1 DEF Flattens
<1> QED
  BY <1>1, <1>2 DEF FlattenedBy

LEMMA FlattenSolves ==
    ASSUME NEW n \in Nat \ {0}, NEW seqs \in [1 .. n -> SignalLists]
    PROVE  \E f \in [1 .. n -> SignalLists] : Flattens(seqs, f) /\ FlattenSeq(seqs) = f[n]
<1>1. Len(seqs) = n
  OBVIOUS
<1> DEFINE G == [p \in Nat \X SignalLists |->
                    IF p[1] + 1 \in 1 .. n THEN p[2] \o seqs[p[1] + 1] ELSE p[2]]
<1>2. << >> \in SignalLists
  BY DEF SignalLists
<1>3. G \in [Nat \X SignalLists -> SignalLists]
  <2>1. ASSUME NEW p \in Nat \X SignalLists
        PROVE  (IF p[1] + 1 \in 1 .. n THEN p[2] \o seqs[p[1] + 1] ELSE p[2])
                   \in SignalLists
    <3>1. p[2] \in SignalLists
      OBVIOUS
    <3>2. CASE p[1] + 1 \in 1 .. n
      BY <3>1, <3>2, JoinedSignals
    <3> QED
      BY <3>1, <3>2
  <2> QED
    BY <2>1
<1>4. ASSUME NEW m \in 0 .. n - 1, NEW s \in SignalLists
      PROVE  G[<<m, s>>] = s \o seqs[m + 1]
  <2>1. m + 1 \in 1 .. n /\ <<m, s>> \in Nat \X SignalLists
    OBVIOUS
  <2> QED
    BY <2>1
<1> HIDE DEF G
<1>5. PICK b \in [Nat -> SignalLists] : Builds(b, << >>, G)
  BY <1>2, <1>3, Recursion
<1> DEFINE f == [i \in 1 .. n |-> b[i]]
<1>6. f \in [1 .. n -> SignalLists]
  OBVIOUS
<1>7. b[1] = seqs[1]
  <2>1. 0 \in 0 .. n - 1 /\ 0 + 1 = 1 /\ seqs[1] \in SignalLists
    OBVIOUS
  <2>2. b[0 + 1] = << >> \o seqs[0 + 1]
    BY <2>1, <1>2, <1>4, <1>5 DEF Builds
  <2> QED
    BY <2>1, <2>2, ConcatEmptySeq DEF SignalLists
<1>8. ASSUME NEW i \in 2 .. n PROVE b[i] = b[i - 1] \o seqs[i]
  <2>1. i - 1 \in Nat /\ i - 1 \in 0 .. n - 1 /\ (i - 1) + 1 = i
    OBVIOUS
  <2>2. b[(i - 1) + 1] = G[<<i - 1, b[i - 1]>>]
    BY <1>5, <2>1 DEF Builds
  <2>3. G[<<i - 1, b[i - 1]>>] = b[i - 1] \o seqs[(i - 1) + 1]
    BY <2>1, <1>4
  <2> QED
    BY <2>1, <2>2, <2>3
<1>9. Flattens(seqs, f)
  <2>1. ASSUME NEW i \in 1 .. n
        PROVE  b[i] = IF i = 1 THEN seqs[i] ELSE f[i - 1] \o seqs[i]
    <3>1. CASE i = 1
      BY <1>7, <3>1
    <3>2. CASE i \in 2 .. n
      <4>1. i - 1 \in 1 .. n /\ i # 1
        BY <3>2
      <4> QED
        BY <1>8, <3>2, <4>1
    <3> QED
      BY <3>1, <3>2
  <2> QED
    BY <1>1, <2>1 DEF Flattens
<1> DEFINE h == CHOOSE h : Flattens(seqs, h)
<1>10. Flattens(seqs, h)
  BY <1>9
<1>11. FlattenSeq(seqs) = h[n]
  BY <1>1 DEF FlattenSeq, Flattens
<1> HIDE DEF h, f
<1>12. FlattenedBy(seqs, h) /\ FlattenedBy(seqs, f)
  BY <1>1, <1>9, <1>10, FlattenSteps
<1>13. h = f
  <2> DEFINE S == {j \in Nat : j \in 1 .. n => h[j] = f[j]}
  <2>1. 0 \in S
    OBVIOUS
  <2>2. ASSUME NEW j \in Nat, j \in S PROVE j + 1 \in S
    <3>1. CASE j + 1 \notin 1 .. n
      BY <3>1
    <3>2. CASE j = 0
      BY <1>1, <1>12, <3>2 DEF FlattenedBy
    <3>3. CASE j \in 1 .. n - 1
      <4>1. (j + 1) - 1 = j /\ j + 1 \in 2 .. n
        BY <3>3
      <4>2. /\ h[j + 1] = h[(j + 1) - 1] \o seqs[j + 1]
            /\ f[j + 1] = f[(j + 1) - 1] \o seqs[j + 1]
        BY <1>1, <1>12, <4>1 DEF FlattenedBy
      <4>3. h[j] = f[j]
        BY <2>2, <3>3
      <4>4. h[j + 1] = h[j] \o seqs[j + 1] /\ f[j + 1] = f[j] \o seqs[j + 1]
        BY <4>1, <4>2
      <4>5. h[j + 1] = f[j + 1]
        BY <4>3, <4>4
      <4> QED
        BY <4>5
    <3> QED
      BY <3>1, <3>2, <3>3
  <2>3. \A j \in 1 .. n : h[j] = f[j]
    <3>1. \A j \in Nat : j \in S
      <4> HIDE DEF S
      <4> QED
        BY <2>1, <2>2, Induction
    <3> QED
      BY <3>1
  <2> QED
    BY <1>1, <1>9, <1>10, <2>3 DEF Flattens
<1> QED
  BY <1>6, <1>9, <1>11, <1>13
\* The page's signals are the parts joined, GAM by GAM.
LEMMA MetParts ==
    ASSUME NEW n \in Nat \ {0}, NEW functions \in [1 .. n -> Gams]
    PROVE  \E f \in [1 .. n -> SignalLists] :
               /\ f[1] = Part(functions[1])
               /\ \A g \in 2 .. n : IsJoin(f[g - 1], Part(functions[g]), f[g])
               /\ Met(functions) = f[n]
<1> DEFINE parts == [g \in 1 .. n |-> Part(functions[g])]
<1>1. parts \in [1 .. n -> SignalLists]
  BY PartType
<1>2. Met(functions) = FlattenSeq(parts)
  BY DEF Met, Part
<1>3. Len(parts) = n
  OBVIOUS
<1>4. \A g \in 1 .. n : parts[g] = Part(functions[g])
  OBVIOUS
<1>5. parts[1] = Part(functions[1])
  OBVIOUS
<1> HIDE DEF parts
<1>6. PICK f \in [1 .. n -> SignalLists] :
          Flattens(parts, f) /\ FlattenSeq(parts) = f[n]
  BY <1>1, FlattenSolves
<1>7. FlattenedBy(parts, f)
  BY <1>3, <1>6, FlattenSteps
<1>8. f[1] = Part(functions[1])
  BY <1>5, <1>7 DEF FlattenedBy
<1>9. ASSUME NEW g \in 2 .. n PROVE IsJoin(f[g - 1], Part(functions[g]), f[g])
  <2>1. g \in 2 .. Len(parts) /\ g \in 1 .. n /\ g - 1 \in 1 .. n
    BY <1>3
  <2>2. f[g] = f[g - 1] \o parts[g]
    BY <1>7, <2>1 DEF FlattenedBy
  <2>3. parts[g] = Part(functions[g]) /\ Part(functions[g]) \in SignalLists
    BY <1>4, <2>1, PartType
  <2>4. f[g - 1] \in SignalLists
    BY <2>1
  <2> QED
    BY <2>2, <2>3, <2>4, JoinedSignals
<1> QED
  BY <1>2, <1>6, <1>8, <1>9

LEMMA NothingJoined ==
    ASSUME NEW x \in SignalLists
    PROVE  << >> \o x = x /\ x \o << >> = x
BY ConcatEmptySeq DEF SignalLists

LEMMA PagePart ==
    ASSUME NEW class, NEW x \in SignalLists, NEW y \in SignalLists
    PROVE  IsJoin(x, y, Part(Gam(class, "page", x, "page", y)))
<1>1. Part(Gam(class, "page", x, "page", y)) = x \o y
  BY DEF Part, Gam
<1> QED
  BY <1>1, JoinedSignals

LEMMA HalfPart ==
    ASSUME NEW class, NEW x \in SignalLists, NEW y \in SignalLists, NEW other,
           other # "page"
    PROVE  /\ Part(Gam(class, other, x, "page", y)) = y
           /\ Part(Gam(class, "page", x, other, y)) = x
<1>1. Part(Gam(class, other, x, "page", y)) = << >> \o y
  BY DEF Part, Gam
<1>2. Part(Gam(class, "page", x, other, y)) = x \o << >>
  BY DEF Part, Gam
<1> QED
  BY <1>1, <1>2, NothingJoined

\* The signals of a list begin like a table of names and bytes from its place
\* o + 1 on.
Spells(part, table, o, n) ==
    /\ part \in SignalLists /\ Len(part) >= n
    /\ \A k \in 1 .. n :
           part[k].name = table[o + k][1] /\ Bytes(part[k]) = table[o + k][2]

LEMMA BytesOf ==
    /\ \A name : Float64(name).name = name /\ Bytes(Float64(name)) = 8
    /\ \A name : Uint8(name).name = name /\ Bytes(Uint8(name)) = 1
    /\ \A name : Uint32(name).name = name /\ Bytes(Uint32(name)) = 4
    /\ \A name : \A n \in Nat : Array(name, n).name = name /\ Bytes(Array(name, n)) = 8 * n
BY DEF Float64, Uint8, Uint32, Array, Signal, Bytes, Size

\* The page's signals as they are met in VSES-Control.cfg.
ControlTable ==
    <<<<"PFvoltages", 88>>, <<"VS3", 8>>, <<"PFcurrents", 88>>, <<"IVS3", 8>>,
      <<"Ip", 8>>, <<"Zc", 8>>, <<"ZcDot", 8>>, <<"Gaps", 232>>, <<"XPoint", 16>>,
      <<"OracleDecision", 1>>, <<"InputCounter", 1>>, <<"MarteStrategy", 1>>,
      <<"OutputCounter", 1>>, <<"Reserved", 4>>,
      <<"PFvoltages", 88>>, <<"VS3", 8>>, <<"PFcurrents", 88>>, <<"IVS3", 8>>,
      <<"Ip", 8>>, <<"Zc", 8>>, <<"VS3ES_ref", 8>>,
      <<"InputCounter", 1>>, <<"OutputCounter", 1>>, <<"MarteStrategy", 1>>,
      <<"VS3ES_ref", 8>>, <<"VS3FPGA_ref", 8>>, <<"VS3_ref", 8>>, <<"VS3_ref", 8>>>>

LEMMA DatagramSpells ==
    Len(Datagram) = 9 /\ Spells(Datagram, ControlTable, 0, 9)
<1>1. Len(Datagram) = 9
  BY DEF Datagram
<1>2. /\ Datagram[1] = Array("PFvoltages", 11) /\ Datagram[2] = Float64("VS3")
      /\ Datagram[3] = Array("PFcurrents", 11) /\ Datagram[4] = Float64("IVS3")
      /\ Datagram[5] = Float64("Ip") /\ Datagram[6] = Float64("Zc")
      /\ Datagram[7] = Float64("ZcDot") /\ Datagram[8] = Array("Gaps", 29)
      /\ Datagram[9] = Array("XPoint", 2)
  BY DEF Datagram
<1>3. ASSUME NEW k \in 1 .. 9
      PROVE  /\ Datagram[k].name = ControlTable[k][1]
             /\ Bytes(Datagram[k]) = ControlTable[k][2]
  <2>1. CASE k \in {1, 3, 8, 9}
    BY <1>2, <2>1, BytesOf DEF ControlTable
  <2>2. CASE k \in {2, 4, 5, 6, 7}
    BY <1>2, <2>2, BytesOf DEF ControlTable
  <2> QED
    BY <2>1, <2>2
<1> QED
  BY <1>1, <1>3, DatagramType DEF Spells

\* GAM by GAM: what each adds to the list, and where.
LEMMA IncrementSpells ==
    Len(Part(GAMVSIncrement)) = 5 /\ Spells(Part(GAMVSIncrement), ControlTable, 9, 5)
<1> DEFINE x == <<Uint8("OracleDecision")>>
           y == <<Uint8("InputCounter"), Uint8("MarteStrategy"),
                  Uint8("OutputCounter"), Uint32("Reserved")>>
           part == Part(GAMVSIncrement)
<1>1. x \in SignalLists /\ y \in SignalLists
  BY KindsDeclared DEF Words, SignalLists
<1>2. \A k \in 1 .. 1 : x[k].name = ControlTable[9 + k][1]
                        /\ Bytes(x[k]) = ControlTable[9 + k][2]
  BY BytesOf DEF ControlTable
<1>3. \A k \in 1 .. 4 : y[k].name = ControlTable[10 + k][1]
                        /\ Bytes(y[k]) = ControlTable[10 + k][2]
  BY BytesOf DEF ControlTable
<1>4. Len(x) = 1 /\ Len(y) = 4
  OBVIOUS
<1>5. IsJoin(x, y, part)
  BY <1>1, PagePart DEF GAMVSIncrement
<1> HIDE DEF x, y, part
<1>6. /\ Len(part) = 5 /\ part \in SignalLists
      /\ \A k \in 1 .. 1 : part[k] = x[k]
      /\ \A k \in 1 .. 4 : part[1 + k] = y[k]
  BY <1>4, <1>5 DEF IsJoin
<1>7. ASSUME NEW k \in 1 .. 5
      PROVE  /\ part[k].name = ControlTable[9 + k][1]
             /\ Bytes(part[k]) = ControlTable[9 + k][2]
  <2>1. CASE k \in 1 .. 1
    BY <1>2, <1>6, <2>1
  <2>2. CASE k - 1 \in 1 .. 4
    <3>1. 1 + (k - 1) = k /\ 10 + (k - 1) = 9 + k
      OBVIOUS
    <3>2. part[1 + (k - 1)] = y[k - 1]
      BY <1>6, <2>2
    <3> QED
      BY <1>3, <2>2, <3>1, <3>2
  <2> QED
    BY <2>1, <2>2
<1> QED
  BY <1>6, <1>7 DEF Spells, part

LEMMA ExtremumSpells ==
    ASSUME NEW output \in Words
    PROVE  LET part == Part(GAMVSExtremum(output))
           IN  /\ Len(part) = 7 /\ part[7] = Float64(output)
               /\ Spells(part, ControlTable, 0, 6) /\ Spells(part, ControlTable, 14, 6)
<1> DEFINE x == <<Array("PFvoltages", 11), Float64("VS3"), Array("PFcurrents", 11),
                  Float64("IVS3"), Float64("Ip"), Float64("Zc")>>
           y == <<Float64(output)>>
           part == Part(GAMVSExtremum(output))
<1>1. x \in SignalLists /\ y \in SignalLists
  BY KindsDeclared DEF Words, SignalLists
<1>2. Len(x) = 6 /\ Len(y) = 1 /\ y[1] = Float64(output)
  OBVIOUS
<1>3. /\ x[1] = Array("PFvoltages", 11) /\ x[2] = Float64("VS3")
      /\ x[3] = Array("PFcurrents", 11) /\ x[4] = Float64("IVS3")
      /\ x[5] = Float64("Ip") /\ x[6] = Float64("Zc")
  OBVIOUS
<1>4. IsJoin(x, y, part)
  BY <1>1, PagePart DEF GAMVSExtremum
<1> HIDE DEF x, y, part
<1>5. ASSUME NEW k \in 1 .. 6
      PROVE  /\ x[k].name = ControlTable[0 + k][1] /\ Bytes(x[k]) = ControlTable[0 + k][2]
             /\ x[k].name = ControlTable[14 + k][1] /\ Bytes(x[k]) = ControlTable[14 + k][2]
  <2>1. CASE k \in {1, 3}
    BY <1>3, <2>1, BytesOf DEF ControlTable
  <2>2. CASE k \in {2, 4, 5, 6}
    BY <1>3, <2>2, BytesOf DEF ControlTable
  <2> QED
    BY <2>1, <2>2
<1>6. \A k \in 1 .. 6 : part[k] = x[k]
  BY <1>2, <1>4 DEF IsJoin
<1>7. Len(part) = 7 /\ part \in SignalLists
  BY <1>2, <1>4 DEF IsJoin
<1>8. part[6 + 1] = y[1]
  BY <1>2, <1>4 DEF IsJoin
<1>9. Spells(part, ControlTable, 0, 6) /\ Spells(part, ControlTable, 14, 6)
  BY <1>5, <1>6, <1>7 DEF Spells
<1> QED
  BY <1>2, <1>7, <1>8, <1>9 DEF part

LEMMA SwapSpells ==
    Len(Part(GAMVSSwap)) = 6 /\ Spells(Part(GAMVSSwap), ControlTable, 21, 6)
<1> DEFINE x == <<Uint8("InputCounter"), Uint8("OutputCounter"), Uint8("MarteStrategy"),
                  Float64("VS3ES_ref"), Float64("VS3FPGA_ref")>>
           y == <<Float64("VS3_ref")>>
           part == Part(GAMVSSwap)
<1>1. x \in SignalLists /\ y \in SignalLists
  BY KindsDeclared DEF Words, SignalLists
<1>2. \A k \in 1 .. 5 : x[k].name = ControlTable[21 + k][1]
                        /\ Bytes(x[k]) = ControlTable[21 + k][2]
  BY BytesOf DEF ControlTable
<1>3. \A k \in 1 .. 1 : y[k].name = ControlTable[26 + k][1]
                        /\ Bytes(y[k]) = ControlTable[26 + k][2]
  BY BytesOf DEF ControlTable
<1>4. Len(x) = 5 /\ Len(y) = 1
  OBVIOUS
<1>5. IsJoin(x, y, part)
  BY <1>1, PagePart DEF GAMVSSwap
<1> HIDE DEF x, y, part
<1>6. /\ Len(part) = 6 /\ part \in SignalLists
      /\ \A k \in 1 .. 5 : part[k] = x[k]
      /\ \A k \in 1 .. 1 : part[5 + k] = y[k]
  BY <1>4, <1>5 DEF IsJoin
<1>7. ASSUME NEW k \in 1 .. 6
      PROVE  /\ part[k].name = ControlTable[21 + k][1]
             /\ Bytes(part[k]) = ControlTable[21 + k][2]
  <2>1. CASE k \in 1 .. 5
    BY <1>2, <1>6, <2>1
  <2>2. CASE k - 5 \in 1 .. 1
    <3>1. 5 + (k - 5) = k /\ 26 + (k - 5) = 21 + k
      OBVIOUS
    <3>2. part[5 + (k - 5)] = y[k - 5]
      BY <1>6, <2>2
    <3> QED
      BY <1>3, <2>2, <3>1, <3>2
  <2> QED
    BY <2>1, <2>2
<1> QED
  BY <1>6, <1>7 DEF Spells, part

LEMMA SenderPart == Part(GAMUDPSender) = <<Float64("VS3_ref")>>
<1>1. <<Float64("VS3_ref")>> \in SignalLists
  BY KindsDeclared DEF Words, SignalLists
<1> QED
  BY <1>1, HalfPart DEF GAMUDPSender

LEMMA ReceiverPart ==
    ASSUME NEW signals \in SignalLists
    PROVE  Part(GAMUDPReceiver(signals)) = signals
BY HalfPart DEF GAMUDPReceiver

\* The parts of the swapping controller's first five GAMs, joined.
LEMMA ControlJoined ==
    ASSUME NEW m1, NEW m2, NEW m3, NEW m4, NEW m5,
           m1 = Datagram, IsJoin(m1, Part(GAMVSIncrement), m2),
           IsJoin(m2, Part(GAMVSExtremum("VS3ES_ref")), m3),
           IsJoin(m3, Part(GAMVSSwap), m4), IsJoin(m4, Part(GAMUDPSender), m5)
    PROVE  Len(m5) = 28 /\ Spells(m5, ControlTable, 0, 28)
<1>1. Len(m1) = 9 /\ \A k \in 1 .. 9 : /\ m1[k].name = ControlTable[k][1]
                                       /\ Bytes(m1[k]) = ControlTable[k][2]
  BY DatagramSpells DEF Spells
<1>2. "VS3ES_ref" \in Words
  BY DEF Words
<1>3. ASSUME NEW k \in 1 .. 7
      PROVE  LET part == Part(GAMVSExtremum("VS3ES_ref"))
             IN  /\ part[k].name = ControlTable[14 + k][1]
                 /\ Bytes(part[k]) = ControlTable[14 + k][2]
  <2>1. CASE k \in 1 .. 6
    BY <1>2, <2>1, ExtremumSpells DEF Spells
  <2>2. CASE k = 7
    BY <1>2, <2>2, ExtremumSpells, BytesOf DEF ControlTable
  <2> QED
    BY <2>1, <2>2
<1>4. /\ Len(Part(GAMUDPSender)) = 1
      /\ \A k \in 1 .. 1 : /\ Part(GAMUDPSender)[k].name = ControlTable[27 + k][1]
                           /\ Bytes(Part(GAMUDPSender)[k]) = ControlTable[27 + k][2]
  BY SenderPart, BytesOf DEF ControlTable
<1>5. Len(m2) = 14 /\ \A k \in 1 .. 14 : /\ m2[k].name = ControlTable[k][1]
                                         /\ Bytes(m2[k]) = ControlTable[k][2]
  <2> DEFINE part == Part(GAMVSIncrement)
  <2>1. /\ Len(part) = 5
        /\ \A k \in 1 .. 5 : /\ part[k].name = ControlTable[9 + k][1]
                             /\ Bytes(part[k]) = ControlTable[9 + k][2]
    BY IncrementSpells DEF Spells
  <2> HIDE DEF part
  <2>2. IsJoin(m1, part, m2)
    BY DEF part
  <2>5. Len(m1) = 9 /\ Len(part) = 5
    BY <1>1, <2>1
  <2>6. /\ Len(m2) = Len(m1) + Len(part)
        /\ \A k \in 1 .. Len(m1) : m2[k] = m1[k]
        /\ \A k \in 1 .. Len(part) : m2[Len(m1) + k] = part[k]
    BY <2>2 DEF IsJoin
  <2>3. /\ Len(m2) = 14
        /\ \A k \in 1 .. 9 : m2[k] = m1[k]
        /\ \A k \in 1 .. 5 : m2[9 + k] = part[k]
    BY <2>5, <2>6
  <2>4. ASSUME NEW k \in 1 .. 14
        PROVE  m2[k].name = ControlTable[k][1] /\ Bytes(m2[k]) = ControlTable[k][2]
    <3>1. CASE k \in 1 .. 9
      BY <1>1, <2>3, <3>1
    <3>2. CASE k - 9 \in 1 .. 5
      <4>1. 9 + (k - 9) = k /\ m2[9 + (k - 9)] = part[k - 9]
        BY <2>3, <3>2
      <4>2. /\ part[k - 9].name = ControlTable[9 + (k - 9)][1]
            /\ Bytes(part[k - 9]) = ControlTable[9 + (k - 9)][2]
        BY <2>1, <3>2
      <4> QED
        BY <4>1, <4>2
    <3> QED
      BY <3>1, <3>2
  <2> QED
    BY <2>3, <2>4
<1>6. Len(m3) = 21 /\ \A k \in 1 .. 21 : /\ m3[k].name = ControlTable[k][1]
                                         /\ Bytes(m3[k]) = ControlTable[k][2]
  <2> DEFINE part == Part(GAMVSExtremum("VS3ES_ref"))
  <2>1. /\ Len(part) = 7
        /\ \A k \in 1 .. 7 : /\ part[k].name = ControlTable[14 + k][1]
                             /\ Bytes(part[k]) = ControlTable[14 + k][2]
    BY <1>2, <1>3, ExtremumSpells
  <2> HIDE DEF part
  <2>2. IsJoin(m2, part, m3)
    BY DEF part
  <2>5. Len(m2) = 14 /\ Len(part) = 7
    BY <1>5, <2>1
  <2>6. /\ Len(m3) = Len(m2) + Len(part)
        /\ \A k \in 1 .. Len(m2) : m3[k] = m2[k]
        /\ \A k \in 1 .. Len(part) : m3[Len(m2) + k] = part[k]
    BY <2>2 DEF IsJoin
  <2>3. /\ Len(m3) = 21
        /\ \A k \in 1 .. 14 : m3[k] = m2[k]
        /\ \A k \in 1 .. 7 : m3[14 + k] = part[k]
    BY <2>5, <2>6
  <2>4. ASSUME NEW k \in 1 .. 21
        PROVE  m3[k].name = ControlTable[k][1] /\ Bytes(m3[k]) = ControlTable[k][2]
    <3>1. CASE k \in 1 .. 14
      BY <1>5, <2>3, <3>1
    <3>2. CASE k - 14 \in 1 .. 7
      <4>1. 14 + (k - 14) = k /\ m3[14 + (k - 14)] = part[k - 14]
        BY <2>3, <3>2
      <4>2. /\ part[k - 14].name = ControlTable[14 + (k - 14)][1]
            /\ Bytes(part[k - 14]) = ControlTable[14 + (k - 14)][2]
        BY <2>1, <3>2
      <4> QED
        BY <4>1, <4>2
    <3> QED
      BY <3>1, <3>2
  <2> QED
    BY <2>3, <2>4
<1>7. Len(m4) = 27 /\ \A k \in 1 .. 27 : /\ m4[k].name = ControlTable[k][1]
                                         /\ Bytes(m4[k]) = ControlTable[k][2]
  <2> DEFINE part == Part(GAMVSSwap)
  <2>1. /\ Len(part) = 6
        /\ \A k \in 1 .. 6 : /\ part[k].name = ControlTable[21 + k][1]
                             /\ Bytes(part[k]) = ControlTable[21 + k][2]
    BY SwapSpells DEF Spells
  <2> HIDE DEF part
  <2>2. IsJoin(m3, part, m4)
    BY DEF part
  <2>5. Len(m3) = 21 /\ Len(part) = 6
    BY <1>6, <2>1
  <2>6. /\ Len(m4) = Len(m3) + Len(part)
        /\ \A k \in 1 .. Len(m3) : m4[k] = m3[k]
        /\ \A k \in 1 .. Len(part) : m4[Len(m3) + k] = part[k]
    BY <2>2 DEF IsJoin
  <2>3. /\ Len(m4) = 27
        /\ \A k \in 1 .. 21 : m4[k] = m3[k]
        /\ \A k \in 1 .. 6 : m4[21 + k] = part[k]
    BY <2>5, <2>6
  <2>4. ASSUME NEW k \in 1 .. 27
        PROVE  m4[k].name = ControlTable[k][1] /\ Bytes(m4[k]) = ControlTable[k][2]
    <3>1. CASE k \in 1 .. 21
      BY <1>6, <2>3, <3>1
    <3>2. CASE k - 21 \in 1 .. 6
      <4>1. 21 + (k - 21) = k /\ m4[21 + (k - 21)] = part[k - 21]
        BY <2>3, <3>2
      <4>2. /\ part[k - 21].name = ControlTable[21 + (k - 21)][1]
            /\ Bytes(part[k - 21]) = ControlTable[21 + (k - 21)][2]
        BY <2>1, <3>2
      <4> QED
        BY <4>1, <4>2
    <3> QED
      BY <3>1, <3>2
  <2> QED
    BY <2>3, <2>4
<1>8. Len(m5) = 28 /\ \A k \in 1 .. 28 : /\ m5[k].name = ControlTable[k][1]
                                         /\ Bytes(m5[k]) = ControlTable[k][2]
  <2> DEFINE part == Part(GAMUDPSender)
  <2>1. /\ Len(part) = 1
        /\ \A k \in 1 .. 1 : /\ part[k].name = ControlTable[27 + k][1]
                             /\ Bytes(part[k]) = ControlTable[27 + k][2]
    BY <1>4
  <2> HIDE DEF part
  <2>2. IsJoin(m4, part, m5)
    BY DEF part
  <2>5. Len(m4) = 27 /\ Len(part) = 1
    BY <1>7, <2>1
  <2>6. /\ Len(m5) = Len(m4) + Len(part)
        /\ \A k \in 1 .. Len(m4) : m5[k] = m4[k]
        /\ \A k \in 1 .. Len(part) : m5[Len(m4) + k] = part[k]
    BY <2>2 DEF IsJoin
  <2>3. /\ Len(m5) = 28
        /\ \A k \in 1 .. 27 : m5[k] = m4[k]
        /\ \A k \in 1 .. 1 : m5[27 + k] = part[k]
    BY <2>5, <2>6
  <2>4. ASSUME NEW k \in 1 .. 28
        PROVE  m5[k].name = ControlTable[k][1] /\ Bytes(m5[k]) = ControlTable[k][2]
    <3>1. CASE k \in 1 .. 27
      BY <1>7, <2>3, <3>1
    <3>2. CASE k - 27 \in 1 .. 1
      <4>1. 27 + (k - 27) = k /\ m5[27 + (k - 27)] = part[k - 27]
        BY <2>3, <3>2
      <4>2. /\ part[k - 27].name = ControlTable[27 + (k - 27)][1]
            /\ Bytes(part[k - 27]) = ControlTable[27 + (k - 27)][2]
        BY <2>1, <3>2
      <4> QED
        BY <4>1, <4>2
    <3> QED
      BY <3>1, <3>2
  <2> QED
    BY <2>3, <2>4
<1>9. m5 \in SignalLists
  BY DEF IsJoin
<1> QED
  BY <1>8, <1>9 DEF Spells
-----------------------------------------------------------------------------
(***************************************************************************)
(* The places of the page's signals: each where those met before it end.   *)
(***************************************************************************)
\* All signals of the list have a size.
Sized(list) == \A k \in 1 .. Len(list) : Bytes(list[k]) \in Nat

\* f gives the bytes taken by the first signals of the list.
TakenBy(met, f) ==
    f = [n \in 0 .. Len(met) |->
            IF n = 0 THEN 0
            ELSE f[n - 1] + IF n \in First(met) THEN Bytes(met[n]) ELSE 0]

LEMMA TakenExists ==
    ASSUME NEW met \in SignalLists, Sized(met)
    PROVE  \E f : TakenBy(met, f)
<1>1. Len(met) \in Nat
  BY DEF SignalLists
<1> DEFINE step(n) == IF n \in First(met) THEN Bytes(met[n]) ELSE 0
           G == [p \in Nat \X Nat |->
                    IF p[1] + 1 \in 1 .. Len(met) THEN p[2] + step(p[1] + 1) ELSE p[2]]
<1>2. \A n \in 1 .. Len(met) : step(n) \in Nat
  BY DEF Sized
<1> HIDE DEF step
<1>3. G \in [Nat \X Nat -> Nat]
  BY <1>1, <1>2
<1>4. ASSUME NEW m \in 0 .. Len(met) - 1, NEW s \in Nat
      PROVE  G[<<m, s>>] = s + step(m + 1)
  <2>1. m + 1 \in 1 .. Len(met) /\ <<m, s>> \in Nat \X Nat
    BY <1>1
  <2> QED
    BY <2>1
<1> HIDE DEF G
<1>5. PICK b \in [Nat -> Nat] : Builds(b, 0, G)
  BY <1>3, Recursion
<1> DEFINE f == [n \in 0 .. Len(met) |-> b[n]]
<1>6. ASSUME NEW n \in 0 .. Len(met)
      PROVE  b[n] = IF n = 0 THEN 0 ELSE f[n - 1] + step(n)
  <2>1. CASE n = 0
    BY <1>5, <2>1 DEF Builds
  <2>2. CASE n # 0
    <3>1. n - 1 \in 0 .. Len(met) - 1 /\ n - 1 \in Nat /\ (n - 1) + 1 = n
      BY <1>1, <2>2
    <3>2. b[(n - 1) + 1] = G[<<n - 1, b[n - 1]>>]
      BY <1>5, <3>1 DEF Builds
    <3>3. G[<<n - 1, b[n - 1]>>] = b[n - 1] + step((n - 1) + 1)
      BY <1>4, <3>1
    <3>4. f[n - 1] = b[n - 1]
      BY <1>1, <3>1
    <3> QED
      BY <2>2, <3>1, <3>2, <3>3, <3>4
  <2> QED
    BY <2>1, <2>2
<1>7. f = [n \in 0 .. Len(met) |-> IF n = 0 THEN 0 ELSE f[n - 1] + step(n)]
  BY <1>6
<1>8. TakenBy(met, f)
  BY <1>7 DEF TakenBy, step
<1> HIDE DEF f
<1> QED
  BY <1>8

LEMMA TakenSteps ==
    ASSUME NEW met \in SignalLists, Sized(met)
    PROVE  /\ Taken(met)[0] = 0
           /\ \A n \in 1 .. Len(met) :
                  Taken(met)[n] = Taken(met)[n - 1]
                                  + IF n \in First(met) THEN Bytes(met[n]) ELSE 0
<1>1. PICK f : TakenBy(met, f)
  BY TakenExists
<1> DEFINE b == Taken(met)
<1>2. TakenBy(met, b)
  BY <1>1 DEF Taken, TakenBy
<1> HIDE DEF b
<1>3. Len(met) \in Nat
  BY DEF SignalLists
<1>4. b[0] = 0
  BY <1>2, <1>3 DEF TakenBy
<1>5. ASSUME NEW n \in 1 .. Len(met)
      PROVE  b[n] = b[n - 1] + IF n \in First(met) THEN Bytes(met[n]) ELSE 0
  <2>1. n \in 0 .. Len(met) /\ n # 0
    BY <1>3
  <2> QED
    BY <1>2, <2>1 DEF TakenBy
<1> QED
  BY <1>4, <1>5 DEF b

\* A signal's place is taken where its name is met for the first time.
LEMMA LayoutPlaces ==
    ASSUME NEW functions, Met(functions) \in SignalLists,
           NEW n \in First(Met(functions))
    PROVE  /\ Met(functions)[n].name \in DOMAIN Layout(functions)
           /\ Layout(functions)[Met(functions)[n].name] = Taken(Met(functions))[n - 1]
<1> DEFINE met == Met(functions)
           m == CHOOSE k \in First(met) : met[k].name = met[n].name
<1>1. Layout(functions) =
          [name \in {met[k].name : k \in First(met)} |->
              Taken(met)[(CHOOSE k \in First(met) : met[k].name = name) - 1]]
  BY DEF Layout
<1>2. m \in First(met) /\ met[m].name = met[n].name
  OBVIOUS
<1>3. n \in 1 .. Len(met) /\ m \in 1 .. Len(met) /\ Len(met) \in Nat
  BY <1>2 DEF First, SignalLists
<1>4. m = n
  <2>1. CASE m < n
    <3>1. m \in 1 .. n - 1
      BY <1>3, <2>1
    <3> QED
      BY <1>2, <3>1 DEF First
  <2>2. CASE n < m
    <3>1. n \in 1 .. m - 1
      BY <1>3, <2>2
    <3> QED
      BY <1>2, <3>1 DEF First
  <2> QED
    BY <1>3, <2>1, <2>2
<1>5. Layout(functions)[met[n].name] = Taken(met)[m - 1]
  BY <1>1
<1> QED
  BY <1>1, <1>4, <1>5

\* A name is met first where the table has it first.
LEMMA FirstInTable ==
    ASSUME NEW met \in SignalLists, NEW table, NEW k \in 1 .. Len(met),
           \A j \in 1 .. k : met[j].name = table[j][1]
    PROVE  k \in First(met) <=> \A j \in 1 .. k - 1 : table[j][1] # table[k][1]
<1>1. k \in DOMAIN met /\ k \in 1 .. k /\ \A j \in 1 .. k - 1 : j \in 1 .. k
  BY DEF SignalLists
<1> QED
  BY <1>1 DEF First

\* Which rows of ControlTable name a signal for the first time.
LEMMA ControlFirsts ==
    /\ \A k \in (1 .. 14) \cup {21, 26, 27} :
           \A j \in 1 .. k - 1 : ControlTable[j][1] # ControlTable[k][1]
    /\ \A k \in (15 .. 20) \cup (22 .. 25) :
           \E j \in 1 .. k - 1 : ControlTable[j][1] = ControlTable[k][1]
<1>1. ASSUME NEW k \in 1 .. 7, NEW j \in 1 .. k - 1
      PROVE  ControlTable[j][1] # ControlTable[k][1]
  BY DEF ControlTable
<1>2. ASSUME NEW k \in 8 .. 11, NEW j \in 1 .. k - 1
      PROVE  ControlTable[j][1] # ControlTable[k][1]
  <2>1. CASE k = 8
    BY <2>1 DEF ControlTable
  <2>2. CASE k = 9
    BY <2>2 DEF ControlTable
  <2>3. CASE k = 10
    BY <2>3 DEF ControlTable
  <2>4. CASE k = 11
    BY <2>4 DEF ControlTable
  <2> QED
    BY <2>1, <2>2, <2>3, <2>4
<1>3. ASSUME NEW k \in 12 .. 14, NEW j \in 1 .. k - 1
      PROVE  ControlTable[j][1] # ControlTable[k][1]
  <2>1. CASE k = 12
    BY <2>1 DEF ControlTable
  <2>2. CASE k = 13
    BY <2>2 DEF ControlTable
  <2>3. CASE k = 14
    BY <2>3 DEF ControlTable
  <2> QED
    BY <2>1, <2>2, <2>3
<1>4. ASSUME NEW j \in 1 .. 20 PROVE ControlTable[j][1] # ControlTable[21][1]
  BY DEF ControlTable
<1>5. ASSUME NEW j \in 1 .. 25 PROVE ControlTable[j][1] # ControlTable[26][1]
  BY DEF ControlTable
<1>6. ASSUME NEW j \in 1 .. 26 PROVE ControlTable[j][1] # ControlTable[27][1]
  BY DEF ControlTable
<1>7. ASSUME NEW k \in 15 .. 20
      PROVE  k - 14 \in 1 .. k - 1 /\ ControlTable[k - 14][1] = ControlTable[k][1]
  BY DEF ControlTable
<1>8. /\ ControlTable[11][1] = ControlTable[22][1] /\ ControlTable[13][1] = ControlTable[23][1]
      /\ ControlTable[12][1] = ControlTable[24][1] /\ ControlTable[21][1] = ControlTable[25][1]
  BY DEF ControlTable
<1>9. ASSUME NEW k \in 22 .. 25
      PROVE  \E j \in 1 .. k - 1 : ControlTable[j][1] = ControlTable[k][1]
  <2>1. /\ 11 \in 1 .. k - 1 /\ 12 \in 1 .. k - 1 /\ 13 \in 1 .. k - 1 /\ 21 \in 1 .. k - 1
    OBVIOUS
  <2>2. k \in {22, 23, 24, 25}
    OBVIOUS
  <2> HIDE DEF ControlTable
  <2> QED
    BY <1>8, <2>1, <2>2
<1>10. ASSUME NEW k \in (1 .. 14) \cup {21, 26, 27}, NEW j \in 1 .. k - 1
       PROVE  ControlTable[j][1] # ControlTable[k][1]
  <2>1. k \in 1 .. 7 \/ k \in 8 .. 11 \/ k \in 12 .. 14 \/ k = 21 \/ k = 26 \/ k = 27
    OBVIOUS
  <2>2. CASE k \in 1 .. 7
    BY <1>1, <2>2
  <2>3. CASE k \in 8 .. 11
    BY <1>2, <2>3
  <2>4. CASE k \in 12 .. 14
    BY <1>3, <2>4
  <2>5. CASE k = 21
    BY <1>4, <2>5
  <2>6. CASE k = 26
    BY <1>5, <2>6
  <2>7. CASE k = 27
    BY <1>6, <2>7
  <2> QED
    BY <2>1, <2>2, <2>3, <2>4, <2>5, <2>6, <2>7
<1> QED
  BY <1>7, <1>9, <1>10

\* A layout has the places of struct shared_page.
ControlPlaces(places) ==
    /\ places["PFvoltages"] = 0 /\ places["VS3"] = 88 /\ places["PFcurrents"] = 96
    /\ places["IVS3"] = 184 /\ places["Ip"] = 192 /\ places["Zc"] = 200
    /\ places["ZcDot"] = 208 /\ places["Gaps"] = 216 /\ places["XPoint"] = 448
    /\ places["OracleDecision"] = 464 /\ places["InputCounter"] = 465
    /\ places["MarteStrategy"] = 466 /\ places["OutputCounter"] = 467
    /\ places["Reserved"] = 468 /\ places["VS3ES_ref"] = 472
    /\ places["VS3FPGA_ref"] = 480 /\ places["VS3_ref"] = 488

\* Its names.
PageNames ==
    {"PFvoltages", "VS3", "PFcurrents", "IVS3", "Ip", "Zc", "ZcDot", "Gaps", "XPoint",
     "OracleDecision", "InputCounter", "MarteStrategy", "OutputCounter", "Reserved",
     "VS3ES_ref", "VS3FPGA_ref", "VS3_ref"}

LEMMA ControlLaid ==
    ASSUME NEW functions, Sized(Met(functions)), Len(Met(functions)) >= 28,
           Spells(Met(functions), ControlTable, 0, 28)
    PROVE  ControlPlaces(Layout(functions)) /\ PageNames \subseteq DOMAIN Layout(functions)
<1> DEFINE met == Met(functions)
           t == Taken(met)
           l == Layout(functions)
<1>1. met \in SignalLists /\ Len(met) \in Nat /\ Len(met) >= 28
  BY DEF Spells, SignalLists
<1>2. ASSUME NEW k \in 1 .. 28
      PROVE  met[k].name = ControlTable[k][1] /\ Bytes(met[k]) = ControlTable[k][2]
  <2>1. 0 + k = k
    OBVIOUS
  <2> QED
    BY <2>1 DEF Spells
<1>3. ASSUME NEW k \in 1 .. 28
      PROVE  k \in First(met) <=>
                 \A j \in 1 .. k - 1 : ControlTable[j][1] # ControlTable[k][1]
  <2>1. k \in 1 .. Len(met) /\ \A j \in 1 .. k : j \in 1 .. 28
    BY <1>1
  <2>2. \A j \in 1 .. k : met[j].name = ControlTable[j][1]
    BY <1>2, <2>1
  <2> QED
    BY <1>1, <2>1, <2>2, FirstInTable
<1>4. \A k \in (1 .. 14) \cup {21, 26, 27} : k \in First(met)
  <2>1. \A k \in (1 .. 14) \cup {21, 26, 27} : k \in 1 .. 28
    OBVIOUS
  <2> QED
    BY <1>3, <2>1, ControlFirsts
<1>5. \A k \in (15 .. 20) \cup (22 .. 25) : k \notin First(met)
  <2>1. \A k \in (15 .. 20) \cup (22 .. 25) : k \in 1 .. 28
    OBVIOUS
  <2> QED
    BY <1>3, <2>1, ControlFirsts
<1>6. t[0] = 0 /\ \A k \in 1 .. 28 :
          t[k] = t[k - 1] + IF k \in First(met) THEN Bytes(met[k]) ELSE 0
  <2>1. \A k \in 1 .. 28 : k \in 1 .. Len(met)
    BY <1>1
  <2> QED
    BY <1>1, <2>1, TakenSteps
<1>7. \A k \in (1 .. 14) \cup {21, 26, 27} :
          ControlTable[k][1] \in DOMAIN l /\ l[ControlTable[k][1]] = t[k - 1]
  <2>1. ASSUME NEW k \in (1 .. 14) \cup {21, 26, 27}
        PROVE  ControlTable[k][1] \in DOMAIN l /\ l[ControlTable[k][1]] = t[k - 1]
    <3>1. k \in 1 .. 28
      OBVIOUS
    <3>2. met[k].name \in DOMAIN l /\ l[met[k].name] = t[k - 1]
      BY <1>1, <1>4, LayoutPlaces
    <3> QED
      BY <1>2, <3>1, <3>2
  <2> QED
    BY <2>1
<1> HIDE DEF t, l, met
<1>8. ASSUME NEW k \in (1 .. 14) \cup {21, 26, 27}
      PROVE  t[k] = t[k - 1] + ControlTable[k][2]
  <2>1. k \in 1 .. 28
    OBVIOUS
  <2>2. Bytes(met[k]) = ControlTable[k][2] /\ k \in First(met)
    BY <1>2, <1>4, <2>1
  <2> QED
    BY <1>6, <2>1, <2>2
<1>9. ASSUME NEW k \in (15 .. 20) \cup (22 .. 25)
      PROVE  t[k] = t[k - 1] + 0
  <2>1. k \in 1 .. 28 /\ k \notin First(met)
    BY <1>5
  <2> QED
    BY <1>6, <2>1
<1>22. /\ t[1] = t[0] + 88 /\ t[2] = t[1] + 8 /\ t[3] = t[2] + 88 /\ t[4] = t[3] + 8
       /\ t[5] = t[4] + 8 /\ t[6] = t[5] + 8 /\ t[7] = t[6] + 8 /\ t[8] = t[7] + 232
       /\ t[9] = t[8] + 16
  <2>1. ASSUME NEW k \in 1 .. 9 PROVE t[k] = t[k - 1] + ControlTable[k][2]
    <3>1. k \in (1 .. 14) \cup {21, 26, 27}
      OBVIOUS
    <3> QED
      BY <1>8, <3>1
  <2> QED
    BY <2>1 DEF ControlTable
<1>23. /\ t[10] = t[9] + 1 /\ t[11] = t[10] + 1 /\ t[12] = t[11] + 1
       /\ t[13] = t[12] + 1 /\ t[14] = t[13] + 4
  <2>1. ASSUME NEW k \in 10 .. 14 PROVE t[k] = t[k - 1] + ControlTable[k][2]
    <3>1. k \in (1 .. 14) \cup {21, 26, 27}
      OBVIOUS
    <3> QED
      BY <1>8, <3>1
  <2>2. /\ ControlTable[10][2] = 1 /\ ControlTable[11][2] = 1 /\ ControlTable[12][2] = 1
        /\ ControlTable[13][2] = 1 /\ ControlTable[14][2] = 4
    BY DEF ControlTable
  <2> QED
    BY <2>1, <2>2
<1>24. t[21] = t[20] + 8 /\ t[26] = t[25] + 8
  <2>1. ASSUME NEW k \in {21, 26} PROVE t[k] = t[k - 1] + ControlTable[k][2]
    <3>1. k \in (1 .. 14) \cup {21, 26, 27}
      OBVIOUS
    <3> QED
      BY <1>8, <3>1
  <2>2. ControlTable[21][2] = 8 /\ ControlTable[26][2] = 8
    BY DEF ControlTable
  <2> QED
    BY <2>1, <2>2
<1>10. t[1] = 88 /\ t[2] = 96 /\ t[3] = 184 /\ t[4] = 192 /\ t[5] = 200
  <2>1. t[0] = 0
    BY <1>6
  <2> QED
    BY <1>22, <2>1
<1>11. t[6] = 208 /\ t[7] = 216 /\ t[8] = 448 /\ t[9] = 464 /\ t[10] = 465
  <2>1. t[6] = t[5] + 8 /\ t[7] = t[6] + 8 /\ t[8] = t[7] + 232 /\ t[9] = t[8] + 16
    BY <1>22
  <2>2. t[5] = 200 /\ t[10] = t[9] + 1
    BY <1>10, <1>23
  <2> QED
    BY ONLY <2>1, <2>2
<1>12. t[11] = 466 /\ t[12] = 467 /\ t[13] = 468 /\ t[14] = 472
  BY <1>11, <1>23
<1>13. t[15] = 472 /\ t[16] = 472 /\ t[17] = 472 /\ t[18] = 472
       /\ t[19] = 472 /\ t[20] = 472
  <2>1. \A k \in 15 .. 20 : t[k] = t[k - 1] + 0
    BY <1>9
  <2>2. /\ t[15] = t[14] + 0 /\ t[16] = t[15] + 0 /\ t[17] = t[16] + 0
        /\ t[18] = t[17] + 0 /\ t[19] = t[18] + 0 /\ t[20] = t[19] + 0
    BY <2>1
  <2> QED
    BY <1>12, <2>2
<1>14. t[21] = 480 /\ t[22] = 480 /\ t[23] = 480 /\ t[24] = 480 /\ t[25] = 480
  <2>1. \A k \in 22 .. 25 : t[k] = t[k - 1] + 0
    BY <1>9
  <2>2. /\ t[22] = t[21] + 0 /\ t[23] = t[22] + 0 /\ t[24] = t[23] + 0
        /\ t[25] = t[24] + 0
    BY <2>1
  <2> QED
    BY <1>13, <1>24, <2>2
<1>15. t[26] = 488
  BY <1>14, <1>24
<1>16. /\ l["PFvoltages"] = t[0] /\ l["VS3"] = t[1] /\ l["PFcurrents"] = t[2]
       /\ l["IVS3"] = t[3] /\ l["Ip"] = t[4] /\ l["Zc"] = t[5] /\ l["ZcDot"] = t[6]
       /\ l["Gaps"] = t[7] /\ l["XPoint"] = t[8]
  BY <1>7 DEF ControlTable
<1>17. /\ l["OracleDecision"] = t[9] /\ l["InputCounter"] = t[10]
       /\ l["MarteStrategy"] = t[11] /\ l["OutputCounter"] = t[12]
       /\ l["Reserved"] = t[13] /\ l["VS3ES_ref"] = t[20]
       /\ l["VS3FPGA_ref"] = t[25] /\ l["VS3_ref"] = t[26]
  BY <1>7 DEF ControlTable
<1>18. ControlPlaces(l)
  BY <1>6, <1>10, <1>11, <1>12, <1>13, <1>14, <1>15, <1>16, <1>17 DEF ControlPlaces
<1>19. /\ "PFvoltages" \in DOMAIN l /\ "VS3" \in DOMAIN l /\ "PFcurrents" \in DOMAIN l
       /\ "IVS3" \in DOMAIN l /\ "Ip" \in DOMAIN l /\ "Zc" \in DOMAIN l
       /\ "ZcDot" \in DOMAIN l /\ "Gaps" \in DOMAIN l /\ "XPoint" \in DOMAIN l
  BY <1>7 DEF ControlTable
<1>20. /\ "OracleDecision" \in DOMAIN l /\ "InputCounter" \in DOMAIN l
       /\ "MarteStrategy" \in DOMAIN l /\ "OutputCounter" \in DOMAIN l
       /\ "Reserved" \in DOMAIN l /\ "VS3ES_ref" \in DOMAIN l
       /\ "VS3FPGA_ref" \in DOMAIN l /\ "VS3_ref" \in DOMAIN l
  BY <1>7 DEF ControlTable
<1>21. PageNames \subseteq DOMAIN l
  BY <1>19, <1>20 DEF PageNames
<1> QED
  BY <1>18, <1>21 DEF l

LEMMA ControlFive ==
    ASSUME NEW f, f[1] = Datagram, IsJoin(f[1], Part(GAMVSIncrement), f[2]),
           IsJoin(f[2], Part(GAMVSExtremum("VS3ES_ref")), f[3]),
           IsJoin(f[3], Part(GAMVSSwap), f[4]), IsJoin(f[4], Part(GAMUDPSender), f[5])
    PROVE  Len(f[5]) = 28 /\ Spells(f[5], ControlTable, 0, 28)
<1> DEFINE m1 == f[1]
           m2 == f[2]
           m3 == f[3]
           m4 == f[4]
           m5 == f[5]
<1>1. m1 = Datagram /\ IsJoin(m1, Part(GAMVSIncrement), m2)
  OBVIOUS
<1>2. IsJoin(m2, Part(GAMVSExtremum("VS3ES_ref")), m3)
  OBVIOUS
<1>3. IsJoin(m3, Part(GAMVSSwap), m4) /\ IsJoin(m4, Part(GAMUDPSender), m5)
  OBVIOUS
<1> HIDE DEF m1, m2, m3, m4, m5
<1>4. Len(m5) = 28 /\ Spells(m5, ControlTable, 0, 28)
  BY <1>1, <1>2, <1>3, ControlJoined
<1> QED
  BY <1>4 DEF m5

LEMMA DatagramSized == Len(Datagram) = 9 /\ Sized(Datagram)
<1>1. \A k \in 1 .. 9 : Bytes(Datagram[k]) = ControlTable[k][2]
  BY DatagramSpells DEF Spells
<1>2. ASSUME NEW k \in 1 .. 9 PROVE ControlTable[k][2] \in Nat
  BY DEF ControlTable
<1>3. Len(Datagram) = 9
  BY DatagramSpells
<1> QED
  BY <1>1, <1>2, <1>3 DEF Sized

\* The parts of a controller that swaps, joined; what comes after its first
\* five GAMs is sized as well.
LEMMA ControlMet ==
    ASSUME NEW functions \in {VSES_Control, VSES_Control_Write}
    PROVE  /\ Len(Met(functions)) >= 28 /\ Sized(Met(functions))
           /\ Spells(Met(functions), ControlTable, 0, 28)
<1>1. /\ GAMUDPReceiver(Datagram) \in Gams /\ GAMVSIncrement \in Gams
      /\ GAMVSExtremum("VS3ES_ref") \in Gams /\ GAMVSSwap \in Gams
      /\ GAMUDPSender \in Gams /\ GAMWriteFile \in Gams
  BY DatagramType, ReceiverType, IncrementType, ExtremumType, SwapType, SenderType,
     WriteFileType DEF Words
<1>2. Part(GAMUDPReceiver(Datagram)) = Datagram
  BY DatagramType, ReceiverPart
<1>3. ASSUME NEW m, Len(m) = 28, Spells(m, ControlTable, 0, 28)
      PROVE  Sized(m)
  <2>1. ASSUME NEW k \in 1 .. 28 PROVE Bytes(m[k]) \in Nat
    <3>1. 0 + k = k
      OBVIOUS
    <3>2. Bytes(m[k]) = ControlTable[k][2]
      BY <1>3, <3>1 DEF Spells
    <3>3. CASE k \in 1 .. 14
      BY <3>2, <3>3 DEF ControlTable
    <3>4. CASE k \in 15 .. 28
      BY <3>2, <3>4 DEF ControlTable
    <3> QED
      BY <3>3, <3>4
  <2> QED
    BY <1>3, <2>1 DEF Sized
<1>4. CASE functions = VSES_Control
  <2> DEFINE F == VSES_Control
  <2>1. /\ F[1] = GAMUDPReceiver(Datagram) /\ F[2] = GAMVSIncrement
        /\ F[3] = GAMVSExtremum("VS3ES_ref") /\ F[4] = GAMVSSwap /\ F[5] = GAMUDPSender
    BY DEF VSES_Control
  <2>2. DOMAIN F = 1 .. 5 /\ F = [g \in DOMAIN F |-> F[g]]
    BY DEF VSES_Control
  <2> HIDE DEF F
  <2>3. F \in [1 .. 5 -> Gams]
    <3>1. ASSUME NEW g \in 1 .. 5 PROVE F[g] \in Gams
      BY <1>1, <2>1
    <3> QED
      BY <2>2, <3>1
  <2> DEFINE n == 5
  <2>4. n \in Nat \ {0} /\ n = 5
    OBVIOUS
  <2> HIDE DEF n
  <2>5. PICK f \in [1 .. n -> SignalLists] :
            /\ f[1] = Part(F[1])
            /\ \A g \in 2 .. n : IsJoin(f[g - 1], Part(F[g]), f[g])
            /\ Met(F) = f[n]
    BY <2>3, <2>4, MetParts
  <2>6. /\ IsJoin(f[1], Part(F[2]), f[2]) /\ IsJoin(f[2], Part(F[3]), f[3])
        /\ IsJoin(f[3], Part(F[4]), f[4]) /\ IsJoin(f[4], Part(F[5]), f[5])
    <3>1. /\ 2 \in 2 .. n /\ 3 \in 2 .. n /\ 4 \in 2 .. n /\ 5 \in 2 .. n
          /\ 2 - 1 = 1 /\ 3 - 1 = 2 /\ 4 - 1 = 3 /\ 5 - 1 = 4
      BY <2>4
    <3> QED
      BY <2>5, <3>1
  <2>7. Len(f[5]) = 28 /\ Spells(f[5], ControlTable, 0, 28)
    <3>1. f[1] = Datagram
      BY <1>2, <2>1, <2>5
    <3>2. /\ IsJoin(f[1], Part(GAMVSIncrement), f[2])
          /\ IsJoin(f[2], Part(GAMVSExtremum("VS3ES_ref")), f[3])
          /\ IsJoin(f[3], Part(GAMVSSwap), f[4]) /\ IsJoin(f[4], Part(GAMUDPSender), f[5])
      BY <2>1, <2>6
    <3> QED
      BY <3>1, <3>2, ControlFive
  <2>8. Met(functions) = f[5]
    BY <1>4, <2>4, <2>5 DEF F
  <2>9. Sized(f[5])
    BY <1>3, <2>7
  <2>10. Len(Met(functions)) = 28
    BY <2>7, <2>8
  <2>11. Spells(Met(functions), ControlTable, 0, 28)
    BY <2>7, <2>8, Zenon
  <2> QED
    BY <2>8, <2>9, <2>10, <2>11
<1>5. CASE functions = VSES_Control_Write
  <2> DEFINE F == VSES_Control_Write
  <2>1. /\ F[1] = GAMUDPReceiver(Datagram) /\ F[2] = GAMVSIncrement
        /\ F[3] = GAMVSExtremum("VS3ES_ref") /\ F[4] = GAMVSSwap /\ F[5] = GAMUDPSender
        /\ F[6] = GAMWriteFile
    BY DEF VSES_Control, VSES_Control_Write
  <2>2. DOMAIN F = 1 .. 6 /\ F = [g \in DOMAIN F |-> F[g]]
    BY DEF VSES_Control, VSES_Control_Write
  <2> HIDE DEF F
  <2>3. F \in [1 .. 6 -> Gams]
    <3>1. ASSUME NEW g \in 1 .. 6 PROVE F[g] \in Gams
      BY <1>1, <2>1
    <3> QED
      BY <2>2, <3>1
  <2> DEFINE n == 6
  <2>4. n \in Nat \ {0} /\ n = 6
    OBVIOUS
  <2> HIDE DEF n
  <2>5. PICK f \in [1 .. n -> SignalLists] :
            /\ f[1] = Part(F[1])
            /\ \A g \in 2 .. n : IsJoin(f[g - 1], Part(F[g]), f[g])
            /\ Met(F) = f[n]
    BY <2>3, <2>4, MetParts
  <2>6. /\ IsJoin(f[1], Part(F[2]), f[2]) /\ IsJoin(f[2], Part(F[3]), f[3])
        /\ IsJoin(f[3], Part(F[4]), f[4]) /\ IsJoin(f[4], Part(F[5]), f[5])
        /\ IsJoin(f[5], Part(F[6]), f[6])
    <3>1. /\ 2 \in 2 .. n /\ 3 \in 2 .. n /\ 4 \in 2 .. n /\ 5 \in 2 .. n /\ 6 \in 2 .. n
          /\ 2 - 1 = 1 /\ 3 - 1 = 2 /\ 4 - 1 = 3 /\ 5 - 1 = 4 /\ 6 - 1 = 5
      BY <2>4
    <3> QED
      BY <2>5, <3>1
  <2>7. Len(f[5]) = 28 /\ Spells(f[5], ControlTable, 0, 28)
    <3>1. f[1] = Datagram
      BY <1>2, <2>1, <2>5
    <3>2. /\ IsJoin(f[1], Part(GAMVSIncrement), f[2])
          /\ IsJoin(f[2], Part(GAMVSExtremum("VS3ES_ref")), f[3])
          /\ IsJoin(f[3], Part(GAMVSSwap), f[4]) /\ IsJoin(f[4], Part(GAMUDPSender), f[5])
      BY <2>1, <2>6
    <3> QED
      BY <3>1, <3>2, ControlFive
  <2>8. Met(functions) = f[6]
    BY <1>5, <2>4, <2>5 DEF F
  <2> DEFINE x == <<Float64("VS3_req")>>
             w == Part(F[6])
  <2>9. x \in SignalLists /\ Len(x) = 1 /\ Bytes(x[1]) = 8
    BY KindsDeclared, BytesOf DEF Words, SignalLists
  <2>10. IsJoin(x, Datagram, w)
    <3>1. x \o Datagram \in SignalLists /\ IsJoin(x, Datagram, x \o Datagram)
      BY <2>9, DatagramType, JoinedSignals
    <3>2. ASSUME NEW z \in SignalLists
          PROVE  Part(Gam("IOGAM", "page", z, "FileWriter", z)) = z
      BY HalfPart
    <3>3. F[6] = Gam("IOGAM", "page", x \o Datagram, "FileWriter", x \o Datagram)
      BY <2>1 DEF GAMWriteFile
    <3>4. w = x \o Datagram
      BY <3>1, <3>2, <3>3
    <3> QED
      BY <3>1, <3>4
  <2> HIDE DEF x, w
  <2>12. ASSUME NEW y, NEW z, NEW r, IsJoin(y, z, r), Sized(y), Sized(z),
                Len(y) \in Nat, Len(z) \in Nat
         PROVE  Sized(r)
    <3>1. ASSUME NEW k \in 1 .. Len(r) PROVE Bytes(r[k]) \in Nat
      <4>1. CASE k \in 1 .. Len(y)
        BY <2>12, <4>1 DEF IsJoin, Sized
      <4>2. CASE k - Len(y) \in 1 .. Len(z)
        <5>1. Len(y) + (k - Len(y)) = k
          BY <2>12
        <5>2. r[Len(y) + (k - Len(y))] = z[k - Len(y)]
          BY <2>12, <4>2 DEF IsJoin
        <5>3. Bytes(z[k - Len(y)]) \in Nat
          BY <2>12, <4>2 DEF Sized
        <5> QED
          BY <5>1, <5>2, <5>3
      <4>3. Len(r) = Len(y) + Len(z)
        BY <2>12 DEF IsJoin
      <4> QED
        BY <2>12, <4>1, <4>2, <4>3
    <3> QED
      BY <3>1 DEF Sized
  <2>13. Sized(x)
    BY <2>9 DEF Sized
  <2>14. Sized(w) /\ Len(w) = 10
    <3>1. Len(w) = 10
      BY <2>9, <2>10, DatagramSized DEF IsJoin
    <3> QED
      BY <2>9, <2>10, <2>12, <2>13, <3>1, DatagramSized
  <2>15. Sized(f[5])
    BY <1>3, <2>7
  <2>16. IsJoin(f[5], w, f[6])
    BY <2>6 DEF w
  <2>17. Sized(f[6])
    BY <2>7, <2>12, <2>14, <2>15, <2>16
  <2>18. Len(f[6]) = 38 /\ f[6] \in SignalLists /\ \A k \in 1 .. 28 : f[6][k] = f[5][k]
    BY <2>7, <2>14, <2>16 DEF IsJoin
  <2>19. Spells(f[6], ControlTable, 0, 28)
    <3>1. \A k \in 1 .. 28 : /\ f[5][k].name = ControlTable[0 + k][1]
                             /\ Bytes(f[5][k]) = ControlTable[0 + k][2]
      BY <2>7 DEF Spells
    <3>2. \A k \in 1 .. 28 : /\ f[6][k].name = ControlTable[0 + k][1]
                             /\ Bytes(f[6][k]) = ControlTable[0 + k][2]
      BY <2>18, <3>1
    <3>3. Len(f[6]) >= 28
      BY <2>18
    <3> QED
      BY <2>18, <3>2, <3>3 DEF Spells
  <2> QED
    BY <2>8, <2>17, <2>18, <2>19
<1> QED
  BY <1>4, <1>5

\* The variant class has the signals of the class it stands for.
LEMMA MetUnspoilt ==
    ASSUME NEW functions \in GamLists, NEW change \in {NoEdit, Variant}
    PROVE  /\ Met(Apply(change, functions)) = Met(functions)
           /\ DOMAIN Apply(change, functions) = DOMAIN functions
           /\ \A g \in DOMAIN functions :
                  /\ Apply(change, functions)[g].source = functions[g].source
                  /\ Apply(change, functions)[g].target = functions[g].target
                  /\ Apply(change, functions)[g].inputs = functions[g].inputs
                  /\ Apply(change, functions)[g].outputs = functions[g].outputs
<1> DEFINE F == Apply(change, functions)
<1>1. /\ DOMAIN F = DOMAIN functions
      /\ \A g \in DOMAIN functions :
             /\ F[g].source = functions[g].source
             /\ F[g].target = functions[g].target
             /\ F[g].inputs = functions[g].inputs
             /\ F[g].outputs = functions[g].outputs
  <2>1. CASE change = NoEdit
    BY <2>1 DEF NoEdit, Apply
  <2>2. CASE change = Variant
    <3>1. F = [g \in DOMAIN functions |->
                  IF functions[g].class = "VSGAMExtremum"
                  THEN [functions[g] EXCEPT !.class = "VSGAMExtremum_1khz"]
                  ELSE functions[g]]
      BY <2>2 DEF Variant, Apply
    <3>2. \A g \in DOMAIN functions : functions[g] \in Gams
      BY DEF GamLists
    <3> QED
      BY <3>1, <3>2 DEF Gams, GamsIn
  <2> QED
    BY <2>1, <2>2
<1> HIDE DEF F
<1>2. [g \in DOMAIN F |->
          (IF F[g].source = "page" THEN F[g].inputs ELSE << >>)
          \o (IF F[g].target = "page" THEN F[g].outputs ELSE << >>)]
      = [g \in DOMAIN functions |->
          (IF functions[g].source = "page" THEN functions[g].inputs ELSE << >>)
          \o (IF functions[g].target = "page" THEN functions[g].outputs ELSE << >>)]
  BY <1>1
<1>3. Met(F) = Met(functions)
  BY <1>2 DEF Met
<1> QED
  BY <1>1, <1>3 DEF F
-----------------------------------------------------------------------------
(***************************************************************************)
(* Where the C compiler puts the members of struct shared_page.  A table   *)
(* that satisfies the equation Placed is defined by is given, and what     *)
(* Placed returns satisfies it, too.                                       *)
(***************************************************************************)
PlacedBy(struct, f) ==
    f = [k \in DOMAIN struct |->
            IF k = 1 THEN 0
            ELSE Align(f[k - 1] + struct[k - 1].size * struct[k - 1].count,
                       struct[k].size)]

LEMMA PlacedSolves ==
    ASSUME NEW struct, NEW f, PlacedBy(struct, f)
    PROVE  PlacedBy(struct, Placed(struct))
BY DEF PlacedBy, Placed

\* The places the comments of shared_page.h give, member by member.
PagePlaces ==
    [k \in 1 .. 17 |->
        <<0, 88, 96, 184, 192, 200, 208, 216, 448, 464, 465, 466, 467, 468, 472,
          480, 488>>[k]]

LEMMA PageTable == PlacedBy(shared_page, PagePlaces)
<1>1. DOMAIN shared_page = 1 .. 17
  BY DEF shared_page
<1>2. ASSUME NEW k \in 2 .. 17
      PROVE  PagePlaces[k] = Align(PagePlaces[k - 1]
                                   + shared_page[k - 1].size * shared_page[k - 1].count,
                                   shared_page[k].size)
  <2>1. CASE k \in 2 .. 9
    BY <2>1 DEF shared_page, Member, PagePlaces, Align
  <2>2. CASE k \in 10 .. 17
    BY <2>2 DEF shared_page, Member, PagePlaces, Align
  <2> QED
    BY <2>1, <2>2
<1>3. PagePlaces[1] = 0
  BY DEF PagePlaces
<1> QED
  BY <1>1, <1>2, <1>3 DEF PlacedBy, PagePlaces

\* Each member of the page is where the table has it: 0x000, 0x058, ...
LEMMA PagePlaced == \A k \in 1 .. 17 : Placed(shared_page)[k] = PagePlaces[k]
<1> DEFINE p == Placed(shared_page)
<1>1. PlacedBy(shared_page, p)
  BY PageTable, PlacedSolves
<1>2. DOMAIN shared_page = 1 .. 17
  BY DEF shared_page
<1> HIDE DEF p
<1>3. p[1] = 0
  BY <1>1, <1>2 DEF PlacedBy
<1>4. \A k \in 2 .. 17 :
          p[k] = Align(p[k - 1] + shared_page[k - 1].size * shared_page[k - 1].count,
                       shared_page[k].size)
  BY <1>1, <1>2 DEF PlacedBy
<1>5. p[2] = 88 /\ p[3] = 96 /\ p[4] = 184 /\ p[5] = 192
  BY <1>3, <1>4 DEF shared_page, Member, Align
<1>6. p[6] = 200 /\ p[7] = 208 /\ p[8] = 216 /\ p[9] = 448
  BY <1>5, <1>4 DEF shared_page, Member, Align
<1>7. p[10] = 464 /\ p[11] = 465 /\ p[12] = 466 /\ p[13] = 467
  BY <1>6, <1>4 DEF shared_page, Member, Align
<1>8. p[14] = 468 /\ p[15] = 472 /\ p[16] = 480 /\ p[17] = 488
  BY <1>7, <1>4 DEF shared_page, Member, Align
<1> QED
  BY <1>3, <1>5, <1>6, <1>7, <1>8 DEF PagePlaces, p

\* A member is found by its name, which no other member has.
LEMMA OffsetOf ==
    ASSUME NEW struct, NEW k \in DOMAIN struct,
           \A j \in DOMAIN struct : struct[j].name = struct[k].name => j = k
    PROVE  Offset(struct, struct[k].name) = Placed(struct)[k]
BY DEF Offset

LEMMA FieldOffset ==
    ASSUME NEW name, NEW k \in 1 .. 17,
           \A j \in 1 .. 17 : shared_page[j].name = name <=> j = k
    PROVE  Field(name) = PagePlaces[k]
<1>1. DOMAIN shared_page = 1 .. 17
  BY DEF shared_page
<1>2. shared_page[k].name = name
  OBVIOUS
<1> QED
  BY <1>1, <1>2, OffsetOf, PagePlaced DEF Field

\* The fields the FPGA and the oracle use.
LEMMA Fields ==
    /\ Field("oracle_decision") = 464 /\ Field("input_counter") = 465
    /\ Field("marte_strategy") = 466 /\ Field("output_counter") = 467
    /\ Field("ivs3") = 184 /\ Field("zdot") = 208 /\ Field("classic_output") = 480
<1>1. \A j \in 1 .. 17 : shared_page[j].name = "oracle_decision" <=> j = 10
  BY DEF shared_page, Member
<1>2. \A j \in 1 .. 17 : shared_page[j].name = "input_counter" <=> j = 11
  BY DEF shared_page, Member
<1>3. \A j \in 1 .. 17 : shared_page[j].name = "marte_strategy" <=> j = 12
  BY DEF shared_page, Member
<1>4. \A j \in 1 .. 17 : shared_page[j].name = "output_counter" <=> j = 13
  BY DEF shared_page, Member
<1>5. \A j \in 1 .. 17 : shared_page[j].name = "ivs3" <=> j = 4
  BY DEF shared_page, Member
<1>6. \A j \in 1 .. 17 : shared_page[j].name = "zdot" <=> j = 7
  BY DEF shared_page, Member
<1>7. \A j \in 1 .. 17 : shared_page[j].name = "classic_output" <=> j = 16
  BY DEF shared_page, Member
<1>8. Field("oracle_decision") = PagePlaces[10]
  BY <1>1, FieldOffset
<1>9. Field("input_counter") = PagePlaces[11]
  BY <1>2, FieldOffset
<1>10. Field("marte_strategy") = PagePlaces[12]
  BY <1>3, FieldOffset
<1>11. Field("output_counter") = PagePlaces[13]
  BY <1>4, FieldOffset
<1>12. Field("ivs3") = PagePlaces[4]
  BY <1>5, FieldOffset
<1>13. Field("zdot") = PagePlaces[7]
  BY <1>6, FieldOffset
<1>14. Field("classic_output") = PagePlaces[16]
  BY <1>7, FieldOffset
<1> QED
  BY <1>8, <1>9, <1>10, <1>11, <1>12, <1>13, <1>14 DEF PagePlaces
-----------------------------------------------------------------------------
(***************************************************************************)
(* The page of a configuration of the repository.                          *)
(***************************************************************************)
\* What the run is of, which no step changes.
Chosen ==
    /\ file \in Files /\ edit \in Edits(Configuration[file])
    /\ gams = Apply(edit, Configuration[file]) /\ layout = Layout(gams)

LEMMA ChosenNext == Chosen /\ [Next]_vars => Chosen'
<1> SUFFICES ASSUME Chosen, [Next]_vars PROVE Chosen'
  OBVIOUS
<1>1. UNCHANGED setupVars
  BY DEF Next, Thread, Initialise, Setup, Stray, Receive, WaitForTimer, ExecuteIncrement,
         ExecuteExtremumGam, ExecuteExtremum_1khzGam, ExecuteSeeking, ExecuteClassicGam,
         ExecuteSwap, CopyOut, FpgaServes, OracleDecides, vars
<1> QED
  BY <1>1 DEF Chosen, setupVars

\* The files that have a swapping GAM are those of the controller on the page.
LEMMA SharedFiles ==
    ASSUME Chosen, Unspoilt, Shared
    PROVE  Configuration[file] \in {VSES_Control, VSES_Control_Write}
<1>1. file \in DOMAIN Configuration
  BY FilesAssumption DEF Chosen
<1>2. Configuration[file] \in GamLists
  BY <1>1, ConfigurationType
<1>3. PICK g \in DOMAIN gams : gams[g].class = "VSGAMSwap"
  BY DEF Shared
<1>4. /\ g \in DOMAIN Configuration[file]
      /\ Configuration[file][g].class = "VSGAMSwap"
  <2>1. CASE edit = NoEdit
    BY <1>3, <2>1 DEF Chosen, NoEdit, Apply
  <2>2. CASE edit = Variant
    <3>1. gams = [h \in DOMAIN Configuration[file] |->
                     IF Configuration[file][h].class = "VSGAMExtremum"
                     THEN [Configuration[file][h] EXCEPT !.class = "VSGAMExtremum_1khz"]
                     ELSE Configuration[file][h]]
      BY <2>2 DEF Chosen, Variant, Apply
    <3>2. Configuration[file][g] \in Gams
      BY <1>2, <1>3, <3>1 DEF GamLists
    <3> QED
      BY <1>3, <3>1, <3>2 DEF Gams, GamsIn
  <2> QED
    BY <2>1, <2>2 DEF Unspoilt
<1>5. CASE Configuration[file] = VSES_Control_noSwap
  BY <1>4, <1>5 DEF VSES_Control_noSwap, GAMUDPReceiver, GAMVSExtremum, GAMUDPSender, Gam
<1>6. CASE Configuration[file] = VS_Control
  BY <1>4, <1>6 DEF VS_Control, ClassicReceiver, GAMUDPReceiver, GAMVSClassic,
                    GAMUDPSender, Gam
<1>7. CASE Configuration[file] = VS_Control_Print
  BY <1>4, <1>7 DEF VS_Control_Print, VS_Control, GAMTimer, ClassicReceiver,
                    GAMUDPReceiver, GAMVSClassic, GAMUDPSender, Gam
<1> QED
  BY <1>1, <1>5, <1>6, <1>7 DEF Configuration

LEMMA SharedPlaces ==
    ASSUME Chosen, Unspoilt, Shared
    PROVE  ControlPlaces(layout) /\ PageNames \subseteq DOMAIN layout
<1>1. Configuration[file] \in GamLists
  BY FilesAssumption, ConfigurationType DEF Chosen
<1>2. Met(gams) = Met(Configuration[file])
  BY <1>1, MetUnspoilt DEF Chosen, Unspoilt
<1>3. /\ Len(Met(gams)) >= 28 /\ Sized(Met(gams))
      /\ Spells(Met(gams), ControlTable, 0, 28)
  BY <1>2, SharedFiles, ControlMet
<1> QED
  BY <1>3, ControlLaid DEF Chosen

\* In every swapping configuration of the repository, the data source puts
\* each signal where struct shared_page has its member.
THEOREM PageDeclared == Spec => []PageAsDeclared
<1>1. Init => Chosen
  BY DEF Init, Chosen
<1>2. Chosen => PageAsDeclared
  <2> SUFFICES ASSUME Chosen, Unspoilt, Shared PROVE PageAsDeclared
    BY DEF PageAsDeclared
  <2>1. ControlPlaces(layout)
    BY SharedPlaces
  <2>2. \A p \in 1 .. 17 : Placed(shared_page)[p] = PagePlaces[p]
    BY PagePlaced
  <2> DEFINE names ==
        <<"PFvoltages", "VS3", "PFcurrents", "IVS3", "Ip", "Zc", "ZcDot", "Gaps",
          "XPoint", "OracleDecision", "InputCounter", "MarteStrategy",
          "OutputCounter", "Reserved", "VS3ES_ref", "VS3FPGA_ref", "VS3_ref">>
  <2>3. ASSUME NEW p \in 1 .. 9 PROVE layout[names[p]] = PagePlaces[p]
    BY <2>1 DEF ControlPlaces, PagePlaces
  <2>4. ASSUME NEW p \in 10 .. 17 PROVE layout[names[p]] = PagePlaces[p]
    BY <2>1 DEF ControlPlaces, PagePlaces
  <2>5. DOMAIN names = 1 .. 17
    OBVIOUS
  <2> QED
    BY <2>2, <2>3, <2>4, <2>5 DEF PageAsDeclared
<1> QED
  BY <1>1, <1>2, ChosenNext, PTL DEF Spec
-----------------------------------------------------------------------------
(***************************************************************************)
(* The pages of the configurations that do not swap.                       *)
(***************************************************************************)
NoSwapTable ==
    <<<<"PFvoltages", 88>>, <<"VS3", 8>>, <<"PFcurrents", 88>>, <<"IVS3", 8>>,
      <<"Ip", 8>>, <<"Zc", 8>>, <<"ZcDot", 8>>, <<"Gaps", 232>>, <<"XPoint", 16>>,
      <<"PFvoltages", 88>>, <<"VS3", 8>>, <<"PFcurrents", 88>>, <<"IVS3", 8>>,
      <<"Ip", 8>>, <<"Zc", 8>>, <<"VS3_ref", 8>>, <<"VS3_ref", 8>>>>

ClassicTable ==
    <<<<"IVS3", 8>>, <<"ZDOT", 8>>, <<"IVS3", 8>>, <<"ZDOT", 8>>, <<"VS3_ref", 8>>,
      <<"VS3_ref", 8>>>>

LEMMA NoSwapJoined ==
    ASSUME NEW m1, NEW m2, NEW m3, m1 = Datagram,
           IsJoin(m1, Part(GAMVSExtremum("VS3_ref")), m2),
           IsJoin(m2, Part(GAMUDPSender), m3)
    PROVE  Len(m3) = 17 /\ Spells(m3, NoSwapTable, 0, 17)
<1>1. Len(m1) = 9 /\ \A k \in 1 .. 9 : /\ m1[k].name = NoSwapTable[k][1]
                                       /\ Bytes(m1[k]) = NoSwapTable[k][2]
  <2>1. Len(m1) = 9 /\ \A k \in 1 .. 9 : /\ m1[k].name = ControlTable[k][1]
                                         /\ Bytes(m1[k]) = ControlTable[k][2]
    BY DatagramSpells DEF Spells
  <2>2. ASSUME NEW k \in 1 .. 9
        PROVE  /\ ControlTable[k][1] = NoSwapTable[k][1]
               /\ ControlTable[k][2] = NoSwapTable[k][2]
    BY DEF ControlTable, NoSwapTable
  <2> QED
    BY <2>1, <2>2
<1>2. Len(m2) = 16 /\ \A k \in 1 .. 16 : /\ m2[k].name = NoSwapTable[k][1]
                                         /\ Bytes(m2[k]) = NoSwapTable[k][2]
  <2> DEFINE part == Part(GAMVSExtremum("VS3_ref"))
  <2>1. "VS3_ref" \in Words
    BY DEF Words
  <2>2. Len(part) = 7 /\ part[7] = Float64("VS3_ref") /\ Spells(part, ControlTable, 0, 6)
    BY <2>1, ExtremumSpells
  <2> HIDE DEF part
  <2>3. ASSUME NEW k \in 1 .. 6
        PROVE  part[k].name = ControlTable[k][1] /\ Bytes(part[k]) = ControlTable[k][2]
    <3>1. 0 + k = k
      OBVIOUS
    <3> QED
      BY <2>2, <3>1 DEF Spells
  <2>4. ASSUME NEW k \in 1 .. 6
        PROVE  /\ ControlTable[k][1] = NoSwapTable[9 + k][1]
               /\ ControlTable[k][2] = NoSwapTable[9 + k][2]
    BY DEF ControlTable, NoSwapTable
  <2>5. ASSUME NEW k \in 1 .. 7
        PROVE  /\ part[k].name = NoSwapTable[9 + k][1]
               /\ Bytes(part[k]) = NoSwapTable[9 + k][2]
    <3>1. CASE k \in 1 .. 6
      BY <2>3, <2>4, <3>1
    <3>2. CASE k = 7
      BY <2>2, <3>2, BytesOf DEF NoSwapTable
    <3> QED
      BY <3>1, <3>2
  <2>6. IsJoin(m1, part, m2)
    BY DEF part
  <2>7. Len(m1) = 9 /\ Len(part) = 7
    BY <1>1, <2>2
  <2>8. /\ Len(m2) = Len(m1) + Len(part)
        /\ \A k \in 1 .. Len(m1) : m2[k] = m1[k]
        /\ \A k \in 1 .. Len(part) : m2[Len(m1) + k] = part[k]
    BY <2>6 DEF IsJoin
  <2>9. /\ Len(m2) = 16 /\ \A k \in 1 .. 9 : m2[k] = m1[k]
        /\ \A k \in 1 .. 7 : m2[9 + k] = part[k]
    BY <2>7, <2>8
  <2>10. ASSUME NEW k \in 1 .. 16
         PROVE  m2[k].name = NoSwapTable[k][1] /\ Bytes(m2[k]) = NoSwapTable[k][2]
    <3>1. CASE k \in 1 .. 9
      BY <1>1, <2>9, <3>1
    <3>2. CASE k - 9 \in 1 .. 7
      <4>1. 9 + (k - 9) = k /\ m2[9 + (k - 9)] = part[k - 9]
        BY <2>9, <3>2
      <4>2. /\ part[k - 9].name = NoSwapTable[9 + (k - 9)][1]
            /\ Bytes(part[k - 9]) = NoSwapTable[9 + (k - 9)][2]
        BY <2>5, <3>2
      <4> QED
        BY <4>1, <4>2
    <3> QED
      BY <3>1, <3>2
  <2> QED
    BY <2>9, <2>10
<1>3. Len(m3) = 17 /\ \A k \in 1 .. 17 : /\ m3[k].name = NoSwapTable[k][1]
                                         /\ Bytes(m3[k]) = NoSwapTable[k][2]
  <2> DEFINE part == Part(GAMUDPSender)
  <2>1. Len(part) = 1 /\ part[1] = Float64("VS3_ref")
    BY SenderPart
  <2> HIDE DEF part
  <2>2. IsJoin(m2, part, m3)
    BY DEF part
  <2>3. /\ Len(m3) = Len(m2) + Len(part)
        /\ \A k \in 1 .. Len(m2) : m3[k] = m2[k]
        /\ \A k \in 1 .. Len(part) : m3[Len(m2) + k] = part[k]
    BY <2>2 DEF IsJoin
  <2>4. Len(m2) = 16
    BY <1>2
  <2>5. Len(m3) = 17 /\ \A k \in 1 .. 16 : m3[k] = m2[k]
    BY <2>1, <2>3, <2>4
  <2>6. m3[17] = Float64("VS3_ref")
    <3>1. 1 \in 1 .. Len(part) /\ Len(m2) + 1 = 17
      BY <2>1, <2>4
    <3> QED
      BY <2>1, <2>3, <3>1
  <2>7. ASSUME NEW k \in 1 .. 17
        PROVE  m3[k].name = NoSwapTable[k][1] /\ Bytes(m3[k]) = NoSwapTable[k][2]
    <3>1. CASE k \in 1 .. 16
      BY <1>2, <2>5, <3>1
    <3>2. CASE k = 17
      BY <2>6, <3>2, BytesOf DEF NoSwapTable
    <3> QED
      BY <3>1, <3>2
  <2> QED
    BY <2>5, <2>7
<1>4. m3 \in SignalLists
  BY DEF IsJoin
<1> QED
  BY <1>3, <1>4 DEF Spells

LEMMA NoSwapMet ==
    /\ Len(Met(VSES_Control_noSwap)) = 17 /\ Spells(Met(VSES_Control_noSwap), NoSwapTable, 0, 17)
<1> DEFINE F == VSES_Control_noSwap
           n == 3
<1>1. /\ F[1] = GAMUDPReceiver(Datagram) /\ F[2] = GAMVSExtremum("VS3_ref")
      /\ F[3] = GAMUDPSender
  BY DEF VSES_Control_noSwap
<1>2. DOMAIN F = 1 .. 3 /\ F = [g \in DOMAIN F |-> F[g]]
  BY DEF VSES_Control_noSwap
<1>3. n \in Nat \ {0} /\ n = 3
  OBVIOUS
<1> HIDE DEF F, n
<1>4. F \in [1 .. n -> Gams]
  <2>1. /\ GAMUDPReceiver(Datagram) \in Gams /\ GAMVSExtremum("VS3_ref") \in Gams
        /\ GAMUDPSender \in Gams
    BY DatagramType, ReceiverType, ExtremumType, SenderType DEF Words
  <2>2. ASSUME NEW g \in 1 .. 3 PROVE F[g] \in Gams
    BY <1>1, <2>1
  <2> QED
    BY <1>2, <1>3, <2>2
<1>5. PICK f \in [1 .. n -> SignalLists] :
          /\ f[1] = Part(F[1])
          /\ \A g \in 2 .. n : IsJoin(f[g - 1], Part(F[g]), f[g])
          /\ Met(F) = f[n]
  BY <1>3, <1>4, MetParts
<1> DEFINE m1 == f[1]
           m2 == f[2]
           m3 == f[3]
<1>6. m1 = Datagram
  BY <1>1, <1>5, DatagramType, ReceiverPart
<1>7. IsJoin(m1, Part(F[2]), m2) /\ IsJoin(m2, Part(F[3]), m3)
  <2>1. 2 \in 2 .. n /\ 3 \in 2 .. n /\ 2 - 1 = 1 /\ 3 - 1 = 2
    BY <1>3
  <2> QED
    BY <1>5, <2>1
<1>8. Met(F) = m3
  BY <1>3, <1>5
<1> HIDE DEF m1, m2, m3
<1>9. Len(m3) = 17 /\ Spells(m3, NoSwapTable, 0, 17)
  BY <1>1, <1>6, <1>7, NoSwapJoined
<1>10. Len(Met(F)) = 17
  BY <1>8, <1>9
<1>11. Spells(Met(F), NoSwapTable, 0, 17)
  BY <1>8, <1>9, Zenon
<1> QED
  BY <1>10, <1>11 DEF F

\* A table names a signal in this row and in none before it.
NamesFirst(table, k) == \A j \in 1 .. k - 1 : table[j][1] # table[k][1]

\* Where the signals of a table lie, by the bytes taken before them.
LEMMA TableLaid ==
    ASSUME NEW functions, Sized(Met(functions)), NEW n \in Nat,
           Len(Met(functions)) = n, NEW table, Spells(Met(functions), table, 0, n)
    PROVE  LET t == Taken(Met(functions))
               l == Layout(functions)
           IN  /\ t[0] = 0
               /\ \A k \in 1 .. n :
                      t[k] = t[k - 1] + IF NamesFirst(table, k) THEN table[k][2] ELSE 0
               /\ \A k \in 1 .. n : NamesFirst(table, k) =>
                      table[k][1] \in DOMAIN l /\ l[table[k][1]] = t[k - 1]
<1> DEFINE met == Met(functions)
           t == Taken(met)
           l == Layout(functions)
<1>1. met \in SignalLists /\ Len(met) = n
  BY DEF Spells
<1>2. ASSUME NEW k \in 1 .. n
      PROVE  met[k].name = table[k][1] /\ Bytes(met[k]) = table[k][2]
  <2>1. 0 + k = k
    OBVIOUS
  <2> QED
    BY <2>1 DEF Spells
<1>3. ASSUME NEW k \in 1 .. n PROVE k \in First(met) <=> NamesFirst(table, k)
  <2>1. k \in 1 .. Len(met) /\ \A j \in 1 .. k : j \in 1 .. n
    BY <1>1
  <2>2. \A j \in 1 .. k : met[j].name = table[j][1]
    BY <1>2, <2>1
  <2> QED
    BY <1>1, <2>1, <2>2, FirstInTable DEF NamesFirst
<1>4. t[0] = 0
  BY <1>1, TakenSteps
<1>5. \A k \in 1 .. n : t[k] = t[k - 1] + IF k \in First(met) THEN Bytes(met[k]) ELSE 0
  BY <1>1, TakenSteps
<1>6. \A k \in 1 .. n :
          t[k] = t[k - 1] + IF NamesFirst(table, k) THEN table[k][2] ELSE 0
  BY <1>2, <1>3, <1>5
<1>7. ASSUME NEW k \in 1 .. n, NamesFirst(table, k)
      PROVE  table[k][1] \in DOMAIN l /\ l[table[k][1]] = t[k - 1]
  <2>1. met[k].name \in DOMAIN l /\ l[met[k].name] = t[k - 1]
    BY <1>1, <1>3, <1>7, LayoutPlaces
  <2> QED
    BY <1>2, <2>1
<1> QED
  BY <1>4, <1>6, <1>7

\* The datagram's signals lie as in struct shared_page.
DatagramPlaces(places) ==
    /\ places["PFvoltages"] = 0 /\ places["VS3"] = 88 /\ places["PFcurrents"] = 96
    /\ places["IVS3"] = 184 /\ places["Ip"] = 192 /\ places["Zc"] = 200
    /\ places["ZcDot"] = 208 /\ places["Gaps"] = 216 /\ places["XPoint"] = 448

DatagramNames ==
    {"PFvoltages", "VS3", "PFcurrents", "IVS3", "Ip", "Zc", "ZcDot", "Gaps", "XPoint"}

NoSwapPlaces(places) == DatagramPlaces(places) /\ places["VS3_ref"] = 464

ClassicPlaces(places) ==
    places["IVS3"] = 0 /\ places["ZDOT"] = 8 /\ places["VS3_ref"] = 16

LEMMA NoSwapFirsts ==
    /\ \A k \in 1 .. 9 : NamesFirst(NoSwapTable, k)
    /\ \A k \in 10 .. 15 : ~NamesFirst(NoSwapTable, k)
    /\ NamesFirst(NoSwapTable, 16) /\ ~NamesFirst(NoSwapTable, 17)
<1>1. ASSUME NEW k \in 1 .. 9, NEW j \in 1 .. k - 1
      PROVE  NoSwapTable[j][1] # NoSwapTable[k][1]
  BY DEF NoSwapTable
<1>2. ASSUME NEW k \in 10 .. 15
      PROVE  k - 9 \in 1 .. k - 1 /\ NoSwapTable[k - 9][1] = NoSwapTable[k][1]
  BY DEF NoSwapTable
<1>3. ASSUME NEW j \in 1 .. 15 PROVE NoSwapTable[j][1] # NoSwapTable[16][1]
  BY DEF NoSwapTable
<1>4. NoSwapTable[16][1] = NoSwapTable[17][1]
  BY DEF NoSwapTable
<1>5. 16 - 1 = 15 /\ 16 \in 1 .. 17 - 1
  OBVIOUS
<1> QED
  BY <1>1, <1>2, <1>3, <1>4, <1>5 DEF NamesFirst

LEMMA NoSwapSized ==
    ASSUME NEW m, Len(m) = 17, Spells(m, NoSwapTable, 0, 17)
    PROVE  Sized(m)
<1>1. ASSUME NEW k \in 1 .. 17 PROVE Bytes(m[k]) \in Nat
  <2>1. 0 + k = k
    OBVIOUS
  <2>2. Bytes(m[k]) = NoSwapTable[k][2]
    BY <2>1 DEF Spells
  <2> QED
    BY <2>2 DEF NoSwapTable
<1> QED
  BY <1>1 DEF Sized

LEMMA NoSwapLaid ==
    ASSUME NEW functions, Met(functions) = Met(VSES_Control_noSwap)
    PROVE  /\ NoSwapPlaces(Layout(functions))
           /\ DatagramNames \cup {"VS3_ref"} \subseteq DOMAIN Layout(functions)
<1> DEFINE t == Taken(Met(functions))
           l == Layout(functions)
           n == 17
           table == NoSwapTable
<1>1. Len(Met(functions)) = n /\ Spells(Met(functions), table, 0, n)
  BY NoSwapMet
<1>2. Sized(Met(functions))
  BY <1>1, NoSwapSized
<1>3. n \in Nat /\ n = 17 /\ table = NoSwapTable
  OBVIOUS
<1> HIDE DEF n, table
<1>4. /\ t[0] = 0
      /\ \A k \in 1 .. n :
             t[k] = t[k - 1] + IF NamesFirst(table, k) THEN table[k][2] ELSE 0
      /\ \A k \in 1 .. n : NamesFirst(table, k) =>
             table[k][1] \in DOMAIN l /\ l[table[k][1]] = t[k - 1]
  BY <1>1, <1>2, <1>3, TableLaid
<1> HIDE DEF t, l
<1>5. ASSUME NEW k \in 1 .. 9
      PROVE  /\ t[k] = t[k - 1] + NoSwapTable[k][2]
             /\ NoSwapTable[k][1] \in DOMAIN l /\ l[NoSwapTable[k][1]] = t[k - 1]
  <2>1. k \in 1 .. n /\ NamesFirst(table, k)
    BY <1>3, NoSwapFirsts
  <2> QED
    BY <1>3, <1>4, <2>1
<1>6. ASSUME NEW k \in 10 .. 15 PROVE t[k] = t[k - 1] + 0
  <2>1. k \in 1 .. n /\ ~NamesFirst(table, k)
    BY <1>3, NoSwapFirsts
  <2> QED
    BY <1>4, <2>1
<1>7. NoSwapTable[16][1] \in DOMAIN l /\ l[NoSwapTable[16][1]] = t[15]
  <2>1. 16 \in 1 .. n /\ NamesFirst(table, 16) /\ 16 - 1 = 15
    BY <1>3, NoSwapFirsts
  <2> QED
    BY <1>3, <1>4, <2>1
<1>8. /\ t[1] = t[0] + 88 /\ t[2] = t[1] + 8 /\ t[3] = t[2] + 88 /\ t[4] = t[3] + 8
      /\ t[5] = t[4] + 8 /\ t[6] = t[5] + 8 /\ t[7] = t[6] + 8 /\ t[8] = t[7] + 232
      /\ t[9] = t[8] + 16
  BY <1>5 DEF NoSwapTable
<1>9. t[1] = 88 /\ t[2] = 96 /\ t[3] = 184 /\ t[4] = 192 /\ t[5] = 200
  BY <1>4, <1>8
<1>10. t[6] = 208 /\ t[7] = 216 /\ t[8] = 448 /\ t[9] = 464
  BY <1>8, <1>9
<1>11. t[15] = 464
  BY <1>6, <1>10
<1>12. /\ l["PFvoltages"] = t[0] /\ l["VS3"] = t[1] /\ l["PFcurrents"] = t[2]
       /\ l["IVS3"] = t[3] /\ l["Ip"] = t[4] /\ l["Zc"] = t[5] /\ l["ZcDot"] = t[6]
       /\ l["Gaps"] = t[7] /\ l["XPoint"] = t[8]
  BY <1>5 DEF NoSwapTable
<1>13. l["VS3_ref"] = t[15] /\ "VS3_ref" \in DOMAIN l
  BY <1>7 DEF NoSwapTable
<1>14. DatagramNames \subseteq DOMAIN l
  BY <1>5 DEF NoSwapTable, DatagramNames
<1>15. NoSwapPlaces(l)
  BY <1>4, <1>9, <1>10, <1>11, <1>12, <1>13 DEF NoSwapPlaces, DatagramPlaces
<1> QED
  BY <1>13, <1>14, <1>15 DEF l

\* A list of just a pair of signals, or those joined to nothing.
LEMMA ClassicJoined ==
    ASSUME NEW m1, NEW m2, NEW m3, m1 \in SignalLists, Len(m1) = 2,
           m1[1] = Float64("IVS3"), m1[2] = Float64("ZDOT"),
           IsJoin(m1, Part(GAMVSClassic), m2), IsJoin(m2, Part(GAMUDPSender), m3)
    PROVE  Len(m3) = 6 /\ Spells(m3, ClassicTable, 0, 6)
<1> DEFINE x == <<Float64("IVS3"), Float64("ZDOT")>>
           y == <<Float64("VS3_ref")>>
           p == Part(GAMVSClassic)
           q == Part(GAMUDPSender)
<1>1. x \in SignalLists /\ y \in SignalLists
  BY KindsDeclared DEF Words, SignalLists
<1>2. /\ Len(x) = 2 /\ x[1] = Float64("IVS3") /\ x[2] = Float64("ZDOT")
      /\ Len(y) = 1 /\ y[1] = Float64("VS3_ref")
  OBVIOUS
<1>3. IsJoin(x, y, p)
  BY <1>1, PagePart DEF GAMVSClassic
<1>4. q = y
  BY SenderPart
<1>5. IsJoin(m1, p, m2) /\ IsJoin(m2, q, m3)
  OBVIOUS
<1> HIDE DEF x, y, p, q
<1>6. Len(p) = 3 /\ p[1] = x[1] /\ p[2] = x[2] /\ p[3] = y[1]
  <2>1. /\ Len(p) = Len(x) + Len(y)
        /\ \A k \in 1 .. Len(x) : p[k] = x[k]
        /\ \A k \in 1 .. Len(y) : p[Len(x) + k] = y[k]
    BY <1>3 DEF IsJoin
  <2>2. Len(p) = 3 /\ (\A k \in 1 .. 2 : p[k] = x[k]) /\ \A k \in 1 .. 1 : p[2 + k] = y[k]
    BY <1>2, <2>1
  <2>3. 1 \in 1 .. 2 /\ 2 \in 1 .. 2 /\ 1 \in 1 .. 1 /\ 2 + 1 = 3
    OBVIOUS
  <2> QED
    BY <2>2, <2>3
<1>7. /\ Len(m2) = 5 /\ m2[1] = m1[1] /\ m2[2] = m1[2] /\ m2[3] = p[1]
      /\ m2[4] = p[2] /\ m2[5] = p[3]
  <2>1. /\ Len(m2) = Len(m1) + Len(p)
        /\ \A k \in 1 .. Len(m1) : m2[k] = m1[k]
        /\ \A k \in 1 .. Len(p) : m2[Len(m1) + k] = p[k]
    BY <1>5 DEF IsJoin
  <2>2. Len(m2) = 5 /\ (\A k \in 1 .. 2 : m2[k] = m1[k]) /\ \A k \in 1 .. 3 : m2[2 + k] = p[k]
    BY <1>6, <2>1
  <2>3. /\ 1 \in 1 .. 2 /\ 2 \in 1 .. 2 /\ 1 \in 1 .. 3 /\ 2 \in 1 .. 3 /\ 3 \in 1 .. 3
        /\ 2 + 1 = 3 /\ 2 + 2 = 4 /\ 2 + 3 = 5
    OBVIOUS
  <2> QED
    BY <2>2, <2>3
<1>8. Len(m3) = 6 /\ (\A k \in 1 .. 5 : m3[k] = m2[k]) /\ m3[6] = y[1]
  <2>1. /\ Len(m3) = Len(m2) + Len(q)
        /\ \A k \in 1 .. Len(m2) : m3[k] = m2[k]
        /\ \A k \in 1 .. Len(q) : m3[Len(m2) + k] = q[k]
    BY <1>5 DEF IsJoin
  <2>2. Len(q) = 1 /\ q[1] = y[1]
    BY <1>2, <1>4
  <2>3. Len(m3) = 6 /\ (\A k \in 1 .. 5 : m3[k] = m2[k]) /\ \A k \in 1 .. 1 : m3[5 + k] = q[k]
    BY <1>7, <2>1, <2>2
  <2>4. 1 \in 1 .. 1 /\ 5 + 1 = 6
    OBVIOUS
  <2> QED
    BY <2>2, <2>3, <2>4
<1>9. /\ m3[1] = Float64("IVS3") /\ m3[2] = Float64("ZDOT") /\ m3[3] = Float64("IVS3")
      /\ m3[4] = Float64("ZDOT") /\ m3[5] = Float64("VS3_ref") /\ m3[6] = Float64("VS3_ref")
  <2>1. m3[1] = m2[1] /\ m3[2] = m2[2] /\ m3[3] = m2[3] /\ m3[4] = m2[4] /\ m3[5] = m2[5]
    BY <1>8
  <2> QED
    BY <1>2, <1>6, <1>7, <1>8, <2>1
<1>10. ASSUME NEW k \in 1 .. 6
       PROVE  m3[k].name = ClassicTable[k][1] /\ Bytes(m3[k]) = ClassicTable[k][2]
  BY <1>9, BytesOf DEF ClassicTable
<1>11. m3 \in SignalLists
  BY <1>5 DEF IsJoin
<1> QED
  BY <1>8, <1>10, <1>11 DEF Spells

LEMMA ClassicMet ==
    ASSUME NEW functions \in {VS_Control, VS_Control_Print}
    PROVE  Len(Met(functions)) = 6 /\ Spells(Met(functions), ClassicTable, 0, 6)
<1> DEFINE x == <<Float64("IVS3"), Float64("ZDOT")>>
<1>1. x \in SignalLists /\ Len(x) = 2 /\ x[1] = Float64("IVS3") /\ x[2] = Float64("ZDOT")
  BY KindsDeclared DEF Words, SignalLists
<1>2. Part(ClassicReceiver) = x
  BY <1>1, ReceiverPart DEF ClassicReceiver
<1>3. Part(GAMTimer) = << >>
  <2>1. Part(GAMTimer) = << >> \o << >>
    BY DEF Part, GAMTimer, Gam
  <2> QED
    BY <2>1
<1> HIDE DEF x
<1>4. /\ GAMTimer \in Gams /\ ClassicReceiver \in Gams /\ GAMVSClassic \in Gams
      /\ GAMUDPSender \in Gams
  BY TimerType, ClassicType, SenderType
<1>5. CASE functions = VS_Control
  <2> DEFINE F == VS_Control
             n == 3
  <2>1. F[1] = ClassicReceiver /\ F[2] = GAMVSClassic /\ F[3] = GAMUDPSender
    BY DEF VS_Control
  <2>2. DOMAIN F = 1 .. 3 /\ F = [g \in DOMAIN F |-> F[g]]
    BY DEF VS_Control
  <2>3. n \in Nat \ {0} /\ n = 3
    OBVIOUS
  <2> HIDE DEF F, n
  <2>4. F \in [1 .. n -> Gams]
    <3>1. ASSUME NEW g \in 1 .. 3 PROVE F[g] \in Gams
      BY <1>4, <2>1
    <3> QED
      BY <2>2, <2>3, <3>1
  <2>5. PICK f \in [1 .. n -> SignalLists] :
            /\ f[1] = Part(F[1])
            /\ \A g \in 2 .. n : IsJoin(f[g - 1], Part(F[g]), f[g])
            /\ Met(F) = f[n]
    BY <2>3, <2>4, MetParts
  <2> DEFINE m1 == f[1]
             m2 == f[2]
             m3 == f[3]
  <2>6. IsJoin(m1, Part(F[2]), m2) /\ IsJoin(m2, Part(F[3]), m3)
    <3>1. 2 \in 2 .. n /\ 3 \in 2 .. n /\ 2 - 1 = 1 /\ 3 - 1 = 2
      BY <2>3
    <3> QED
      BY <2>5, <3>1
  <2>7. m1 = x /\ Met(functions) = m3
    BY <1>2, <1>5, <2>1, <2>3, <2>5 DEF F
  <2> HIDE DEF m1, m2, m3
  <2>8. Len(m3) = 6 /\ Spells(m3, ClassicTable, 0, 6)
    BY <1>1, <2>1, <2>6, <2>7, ClassicJoined
  <2>9. Len(Met(functions)) = 6
    BY <2>7, <2>8
  <2>10. Spells(Met(functions), ClassicTable, 0, 6)
    BY <2>7, <2>8, Zenon
  <2> QED
    BY <2>9, <2>10
<1>6. CASE functions = VS_Control_Print
  <2> DEFINE F == VS_Control_Print
             n == 4
  <2>1. /\ F[1] = GAMTimer /\ F[2] = ClassicReceiver /\ F[3] = GAMVSClassic
        /\ F[4] = GAMUDPSender
    BY DEF VS_Control_Print, VS_Control
  <2>2. DOMAIN F = 1 .. 4 /\ F = [g \in DOMAIN F |-> F[g]]
    BY DEF VS_Control_Print, VS_Control
  <2>3. n \in Nat \ {0} /\ n = 4
    OBVIOUS
  <2> HIDE DEF F, n
  <2>4. F \in [1 .. n -> Gams]
    <3>1. ASSUME NEW g \in 1 .. 4 PROVE F[g] \in Gams
      BY <1>4, <2>1
    <3> QED
      BY <2>2, <2>3, <3>1
  <2>5. PICK f \in [1 .. n -> SignalLists] :
            /\ f[1] = Part(F[1])
            /\ \A g \in 2 .. n : IsJoin(f[g - 1], Part(F[g]), f[g])
            /\ Met(F) = f[n]
    BY <2>3, <2>4, MetParts
  <2> DEFINE m0 == f[1]
             m1 == f[2]
             m2 == f[3]
             m3 == f[4]
  <2>6. /\ IsJoin(m0, Part(F[2]), m1) /\ IsJoin(m1, Part(F[3]), m2)
        /\ IsJoin(m2, Part(F[4]), m3)
    <3>1. /\ 2 \in 2 .. n /\ 3 \in 2 .. n /\ 4 \in 2 .. n
          /\ 2 - 1 = 1 /\ 3 - 1 = 2 /\ 4 - 1 = 3
      BY <2>3
    <3> QED
      BY <2>5, <3>1
  <2>7. m0 = << >> /\ Met(functions) = m3
    BY <1>3, <1>6, <2>1, <2>3, <2>5 DEF F
  <2> HIDE DEF m0, m1, m2, m3
  <2>8. m1 \in SignalLists /\ Len(m1) = 2 /\ m1[1] = x[1] /\ m1[2] = x[2]
    <3>1. IsJoin(m0, x, m1)
      BY <1>2, <2>1, <2>6
    <3>2. /\ m1 \in SignalLists /\ Len(m1) = Len(m0) + Len(x)
          /\ \A k \in 1 .. Len(x) : m1[Len(m0) + k] = x[k]
      BY <3>1 DEF IsJoin
    <3>3. Len(m0) = 0
      BY <2>7
    <3>4. Len(m1) = 2 /\ Len(m0) + 1 = 1 /\ Len(m0) + 2 = 2
      BY <1>1, <3>2, <3>3
    <3>5. m1[Len(m0) + 1] = x[1] /\ m1[Len(m0) + 2] = x[2]
      <4>1. 1 \in 1 .. Len(x) /\ 2 \in 1 .. Len(x)
        BY <1>1
      <4> QED
        BY <3>2, <4>1
    <3> QED
      BY <3>2, <3>4, <3>5
  <2>9. Len(m3) = 6 /\ Spells(m3, ClassicTable, 0, 6)
    BY <1>1, <2>1, <2>6, <2>8, ClassicJoined
  <2>10. Len(Met(functions)) = 6
    BY <2>7, <2>9
  <2>11. Spells(Met(functions), ClassicTable, 0, 6)
    BY <2>7, <2>9, Zenon
  <2> QED
    BY <2>10, <2>11
<1> QED
  BY <1>5, <1>6

LEMMA ClassicFirsts ==
    /\ NamesFirst(ClassicTable, 1) /\ NamesFirst(ClassicTable, 2)
    /\ ~NamesFirst(ClassicTable, 3) /\ ~NamesFirst(ClassicTable, 4)
    /\ NamesFirst(ClassicTable, 5)
<1>1. ASSUME NEW k \in {1, 2, 5}, NEW j \in 1 .. k - 1
      PROVE  ClassicTable[j][1] # ClassicTable[k][1]
  BY DEF ClassicTable
<1>2. ClassicTable[1][1] = ClassicTable[3][1] /\ ClassicTable[2][1] = ClassicTable[4][1]
  BY DEF ClassicTable
<1>3. 1 \in 1 .. 3 - 1 /\ 2 \in 1 .. 4 - 1
  OBVIOUS
<1> QED
  BY <1>1, <1>2, <1>3 DEF NamesFirst

LEMMA ClassicLaid ==
    ASSUME NEW functions, NEW base \in {VS_Control, VS_Control_Print},
           Met(functions) = Met(base)
    PROVE  /\ ClassicPlaces(Layout(functions))
           /\ {"IVS3", "ZDOT", "VS3_ref"} \subseteq DOMAIN Layout(functions)
<1> DEFINE t == Taken(Met(functions))
           l == Layout(functions)
           n == 6
           table == ClassicTable
<1>1. Len(Met(functions)) = n
  BY ClassicMet
<1>2. Spells(Met(functions), table, 0, n)
  BY ClassicMet, Zenon
<1>3. Sized(Met(functions))
  <2>1. ASSUME NEW k \in 1 .. 6 PROVE Bytes(Met(functions)[k]) \in Nat
    <3>1. 0 + k = k
      OBVIOUS
    <3>2. Bytes(Met(functions)[k]) = ClassicTable[k][2]
      BY <1>2, <3>1 DEF Spells
    <3> QED
      BY <3>2 DEF ClassicTable
  <2> QED
    BY <1>1, <2>1 DEF Sized
<1>4. n \in Nat /\ n = 6 /\ table = ClassicTable
  OBVIOUS
<1> HIDE DEF n, table
<1>5. /\ t[0] = 0
      /\ \A k \in 1 .. n :
             t[k] = t[k - 1] + IF NamesFirst(table, k) THEN table[k][2] ELSE 0
      /\ \A k \in 1 .. n : NamesFirst(table, k) =>
             table[k][1] \in DOMAIN l /\ l[table[k][1]] = t[k - 1]
  BY <1>1, <1>2, <1>3, <1>4, TableLaid
<1> HIDE DEF t, l
<1>6. /\ NamesFirst(table, 1) /\ NamesFirst(table, 2) /\ ~NamesFirst(table, 3)
      /\ ~NamesFirst(table, 4) /\ NamesFirst(table, 5)
  BY <1>4, ClassicFirsts
<1>7. /\ 1 \in 1 .. n /\ 2 \in 1 .. n /\ 3 \in 1 .. n /\ 4 \in 1 .. n /\ 5 \in 1 .. n
      /\ 1 - 1 = 0 /\ 2 - 1 = 1 /\ 3 - 1 = 2 /\ 4 - 1 = 3 /\ 5 - 1 = 4
  BY <1>4
<1>8. /\ t[1] = t[0] + table[1][2] /\ t[2] = t[1] + table[2][2] /\ t[3] = t[2] + 0
      /\ t[4] = t[3] + 0
  BY <1>5, <1>6, <1>7
<1>9. /\ table[1][1] \in DOMAIN l /\ l[table[1][1]] = t[0]
      /\ table[2][1] \in DOMAIN l /\ l[table[2][1]] = t[1]
      /\ table[5][1] \in DOMAIN l /\ l[table[5][1]] = t[4]
  BY <1>5, <1>6, <1>7
<1>10. /\ table[1][1] = "IVS3" /\ table[1][2] = 8 /\ table[2][1] = "ZDOT"
       /\ table[2][2] = 8 /\ table[5][1] = "VS3_ref"
  BY <1>4 DEF ClassicTable
<1>11. t[0] = 0 /\ t[1] = 8 /\ t[4] = 16
  BY <1>5, <1>8, <1>10
<1>12. ClassicPlaces(l) /\ {"IVS3", "ZDOT", "VS3_ref"} \subseteq DOMAIN l
  BY <1>9, <1>10, <1>11 DEF ClassicPlaces
<1> QED
  BY <1>12 DEF l
-----------------------------------------------------------------------------
(***************************************************************************)
(* The loops of the laws and what they sum.                                *)
(***************************************************************************)
\* f is built from x by G in n steps.
StepsOf(f, n, x, G) ==
    f = [j \in 0 .. n |-> IF j = 0 THEN x ELSE G[<<j, f[j - 1]>>]]

LEMMA Stepwise ==
    ASSUME NEW n \in Nat, NEW X, NEW x \in X, NEW G \in [(1 .. n) \X X -> X]
    PROVE  \E f \in [0 .. n -> X] : StepsOf(f, n, x, G)
<1> DEFINE H == [p \in Nat \X X |->
                    IF p[1] + 1 \in 1 .. n THEN G[<<p[1] + 1, p[2]>>] ELSE p[2]]
<1>1. H \in [Nat \X X -> X]
  <2>1. ASSUME NEW p \in Nat \X X
        PROVE  (IF p[1] + 1 \in 1 .. n THEN G[<<p[1] + 1, p[2]>>] ELSE p[2]) \in X
    OBVIOUS
  <2> QED
    BY <2>1
<1>2. ASSUME NEW j \in 1 .. n, NEW y \in X PROVE H[<<j - 1, y>>] = G[<<j, y>>]
  <2>1. j - 1 \in Nat /\ (j - 1) + 1 = j /\ <<j - 1, y>> \in Nat \X X
    OBVIOUS
  <2> QED
    BY <2>1
<1> HIDE DEF H
<1>3. PICK b \in [Nat -> X] : Builds(b, x, H)
  BY <1>1, Recursion
<1> DEFINE f == [j \in 0 .. n |-> b[j]]
<1>4. f \in [0 .. n -> X]
  OBVIOUS
<1>5. ASSUME NEW j \in 0 .. n
      PROVE  b[j] = IF j = 0 THEN x ELSE G[<<j, f[j - 1]>>]
  <2>1. CASE j = 0
    BY <1>3, <2>1 DEF Builds
  <2>2. CASE j # 0
    <3>1. j \in 1 .. n /\ j - 1 \in Nat /\ (j - 1) + 1 = j /\ j - 1 \in 0 .. n
      BY <2>2
    <3>2. b[(j - 1) + 1] = H[<<j - 1, b[j - 1]>>]
      BY <1>3, <3>1 DEF Builds
    <3>3. H[<<j - 1, b[j - 1]>>] = G[<<j, b[j - 1]>>]
      BY <1>2, <3>1
    <3> QED
      BY <2>2, <3>1, <3>2, <3>3
  <2> QED
    BY <2>1, <2>2
<1>6. StepsOf(f, n, x, G)
  BY <1>5 DEF StepsOf
<1> HIDE DEF f
<1> QED
  BY <1>4, <1>6

\* Two functions that start alike and go on alike are alike.
GoAlike(f, g, n) ==
    f[0] = g[0] /\ \A j \in 1 .. n : f[j - 1] = g[j - 1] => f[j] = g[j]

LEMMA Alike ==
    ASSUME NEW n \in Nat, NEW f, NEW g, GoAlike(f, g, n)
    PROVE  \A j \in 0 .. n : f[j] = g[j]
<1> USE DEF GoAlike
<1> DEFINE S == {j \in Nat : j \in 0 .. n => f[j] = g[j]}
<1>1. 0 \in S
  OBVIOUS
<1>2. ASSUME NEW j \in Nat, j \in S PROVE j + 1 \in S
  <2>1. CASE j + 1 \in 1 .. n
    <3>1. j \in 0 .. n /\ (j + 1) - 1 = j
      BY <2>1
    <3> QED
      BY <1>2, <2>1, <3>1
  <2>2. CASE j + 1 \notin 1 .. n
    BY <2>2
  <2> QED
    BY <2>1, <2>2
<1>3. \A j \in Nat : j \in S
  <2> HIDE DEF S
  <2> QED
    BY <1>1, <1>2, Induction
<1> QED
  BY <1>3

\* s holds the sums of a loop of n steps, started from a number.
Sums(s, from, row, vector, n) ==
    s[0] = from /\ \A j \in 1 .. n : s[j] = s[j - 1] + row[j - 1] * vector[j - 1]

LEMMA AccumulateSums ==
    ASSUME NEW n \in Nat, NEW from \in Int, NEW row \in [0 .. n - 1 -> Int],
           NEW vector \in [0 .. n - 1 -> Int]
    PROVE  \E s \in [0 .. n -> Int] :
               /\ Sums(s, from, row, vector, n)
               /\ Accumulate(from, row, vector, n) = s[n]
<1> DEFINE IsSum(s) ==
        s = [j \in 0 .. n |->
                IF j = 0 THEN from ELSE s[j - 1] + row[j - 1] * vector[j - 1]]
           G == [p \in (1 .. n) \X Int |-> p[2] + row[p[1] - 1] * vector[p[1] - 1]]
           c == CHOOSE s : IsSum(s)
<1>1. ASSUME NEW j \in 1 .. n PROVE row[j - 1] * vector[j - 1] \in Int
  <2>1. j - 1 \in 0 .. n - 1
    OBVIOUS
  <2>2. row[j - 1] \in Int /\ vector[j - 1] \in Int
    BY <2>1
  <2> QED
    BY <2>2
<1>2. G \in [(1 .. n) \X Int -> Int]
  <2>1. ASSUME NEW p \in (1 .. n) \X Int
        PROVE  p[2] + row[p[1] - 1] * vector[p[1] - 1] \in Int
    <3>1. p[1] \in 1 .. n /\ p[2] \in Int
      OBVIOUS
    <3>2. row[p[1] - 1] * vector[p[1] - 1] \in Int
      BY <1>1, <3>1
    <3> QED
      BY <3>1, <3>2
  <2> QED
    BY <2>1
<1>3. PICK f \in [0 .. n -> Int] : StepsOf(f, n, from, G)
  <2> HIDE DEF G
  <2> QED
    BY <1>2, Stepwise
<1>4. IsSum(f)
  <2>1. ASSUME NEW j \in 0 .. n
        PROVE  (IF j = 0 THEN from ELSE G[<<j, f[j - 1]>>])
               = IF j = 0 THEN from ELSE f[j - 1] + row[j - 1] * vector[j - 1]
    <3>1. CASE j # 0
      <4>1. j \in 1 .. n /\ f[j - 1] \in Int
        BY <3>1
      <4> QED
        BY <4>1
    <3> QED
      BY <3>1
  <2> HIDE DEF G
  <2> QED
    BY <1>3, <2>1 DEF StepsOf
<1>5. IsSum(c) /\ Accumulate(from, row, vector, n) = c[n]
  BY <1>4 DEF Accumulate
<1> HIDE DEF c
<1>6. ASSUME NEW s, IsSum(s) PROVE Sums(s, from, row, vector, n)
  BY <1>6 DEF Sums
<1>7. Sums(f, from, row, vector, n) /\ Sums(c, from, row, vector, n)
  <2> HIDE DEF IsSum
  <2> QED
    BY <1>4, <1>5, <1>6
<1>8. c[n] = f[n]
  <2>1. \A j \in 0 .. n : c[j] = f[j]
    <3>1. GoAlike(c, f, n)
      BY <1>7 DEF Sums, GoAlike
    <3> QED
      BY <3>1, Alike
  <2> QED
    BY <2>1
<1> QED
  BY <1>5, <1>7, <1>8

LEMMA AccumulateIs ==
    ASSUME NEW n \in Nat, NEW from \in Int, NEW row \in [0 .. n - 1 -> Int],
           NEW vector \in [0 .. n - 1 -> Int], NEW s,
           Sums(s, from, row, vector, n)
    PROVE  Accumulate(from, row, vector, n) = s[n]
<1>1. PICK t \in [0 .. n -> Int] :
          Sums(t, from, row, vector, n) /\ Accumulate(from, row, vector, n) = t[n]
  BY AccumulateSums
<1>2. GoAlike(s, t, n)
  BY <1>1 DEF Sums, GoAlike
<1>3. \A j \in 0 .. n : s[j] = t[j]
  BY <1>2, Alike
<1> QED
  BY <1>1, <1>3

LEMMA AccumulateType ==
    ASSUME NEW n \in Nat, NEW from \in Int, NEW row \in [0 .. n - 1 -> Int],
           NEW vector \in [0 .. n - 1 -> Int]
    PROVE  Accumulate(from, row, vector, n) \in Int
<1>1. PICK s \in [0 .. n -> Int] : Accumulate(from, row, vector, n) = s[n]
  BY AccumulateSums
<1> QED
  BY <1>1

\* A loop that goes on from a sum adds to it.
LEMMA AccumulateFrom ==
    ASSUME NEW n \in Nat, NEW from \in Int, NEW row \in [0 .. n - 1 -> Int],
           NEW vector \in [0 .. n - 1 -> Int]
    PROVE  Accumulate(from, row, vector, n) = from + Accumulate(0, row, vector, n)
<1>4. 0 \in Int
  OBVIOUS
<1>1. PICK s \in [0 .. n -> Int] :
          Sums(s, 0, row, vector, n) /\ Accumulate(0, row, vector, n) = s[n]
  BY <1>4, AccumulateSums, Zenon
<1> DEFINE t == [j \in 0 .. n |-> from + s[j]]
<1>2. Sums(t, from, row, vector, n)
  <2>1. t[0] = from
    BY <1>1 DEF Sums
  <2>2. ASSUME NEW j \in 1 .. n PROVE t[j] = t[j - 1] + row[j - 1] * vector[j - 1]
    <3>1. j - 1 \in 0 .. n /\ j \in 0 .. n /\ j - 1 \in 0 .. n - 1
      OBVIOUS
    <3>2. s[j] = s[j - 1] + row[j - 1] * vector[j - 1]
      BY <1>1 DEF Sums
    <3>3. row[j - 1] \in Int /\ vector[j - 1] \in Int /\ s[j - 1] \in Int
      BY <3>1
    <3>4. row[j - 1] * vector[j - 1] \in Int
      BY <3>3
    <3> QED
      BY <3>1, <3>2, <3>3, <3>4
  <2> QED
    BY <2>1, <2>2 DEF Sums
<1> HIDE DEF t
<1>3. Accumulate(from, row, vector, n) = t[n]
  BY <1>2, AccumulateIs
<1> QED
  BY <1>1, <1>3 DEF t

\* The sum of products is linear in the vector.
LEMMA AccumulateLinear ==
    ASSUME NEW n \in Nat, NEW row \in [0 .. n - 1 -> Int],
           NEW x \in [0 .. n - 1 -> Int], NEW y \in [0 .. n - 1 -> Int]
    PROVE  Accumulate(0, row, [j \in 0 .. n - 1 |-> x[j] + y[j]], n)
           = Accumulate(0, row, x, n) + Accumulate(0, row, y, n)
<1> DEFINE z == [j \in 0 .. n - 1 |-> x[j] + y[j]]
<1>6. 0 \in Int
  OBVIOUS
<1>1. PICK s \in [0 .. n -> Int] : Sums(s, 0, row, x, n) /\ Accumulate(0, row, x, n) = s[n]
  BY <1>6, AccumulateSums, Zenon
<1>2. PICK t \in [0 .. n -> Int] : Sums(t, 0, row, y, n) /\ Accumulate(0, row, y, n) = t[n]
  BY <1>6, AccumulateSums, Zenon
<1> DEFINE r == [j \in 0 .. n |-> s[j] + t[j]]
<1>3. z \in [0 .. n - 1 -> Int]
  OBVIOUS
<1>4. Sums(r, 0, row, z, n)
  <2>1. r[0] = 0
    BY <1>1, <1>2 DEF Sums
  <2>2. ASSUME NEW j \in 1 .. n PROVE r[j] = r[j - 1] + row[j - 1] * z[j - 1]
    <3>1. j - 1 \in 0 .. n /\ j \in 0 .. n /\ j - 1 \in 0 .. n - 1
      OBVIOUS
    <3>2. /\ s[j] = s[j - 1] + row[j - 1] * x[j - 1]
          /\ t[j] = t[j - 1] + row[j - 1] * y[j - 1]
      BY <1>1, <1>2 DEF Sums
    <3>3. /\ row[j - 1] \in Int /\ x[j - 1] \in Int /\ y[j - 1] \in Int
          /\ s[j - 1] \in Int /\ t[j - 1] \in Int
      BY <3>1
    <3>4. ASSUME NEW a \in Int, NEW b \in Int, NEW c \in Int
          PROVE  a * (b + c) = a * b + a * c /\ a * b \in Int /\ a * c \in Int
      OBVIOUS
    <3>5. /\ row[j - 1] * (x[j - 1] + y[j - 1])
             = row[j - 1] * x[j - 1] + row[j - 1] * y[j - 1]
          /\ row[j - 1] * x[j - 1] \in Int /\ row[j - 1] * y[j - 1] \in Int
      BY <3>3, <3>4
    <3>6. z[j - 1] = x[j - 1] + y[j - 1]
      BY <3>1
    <3>7. r[j] = s[j] + t[j] /\ r[j - 1] = s[j - 1] + t[j - 1]
      BY <3>1
    <3>8. row[j - 1] * z[j - 1] = row[j - 1] * x[j - 1] + row[j - 1] * y[j - 1]
      BY <3>5, <3>6
    <3>9. ASSUME NEW a \in Int, NEW b \in Int, NEW c \in Int, NEW d \in Int
          PROVE  (a + b) + (c + d) = (a + c) + (b + d)
      OBVIOUS
    <3>10. r[j] = (s[j - 1] + row[j - 1] * x[j - 1]) + (t[j - 1] + row[j - 1] * y[j - 1])
      BY <3>2, <3>7
    <3> HIDE DEF z, r
    <3>11. r[j - 1] + row[j - 1] * z[j - 1]
           = (s[j - 1] + t[j - 1]) + (row[j - 1] * x[j - 1] + row[j - 1] * y[j - 1])
      BY <3>7, <3>8
    <3>12. (s[j - 1] + row[j - 1] * x[j - 1]) + (t[j - 1] + row[j - 1] * y[j - 1])
           = (s[j - 1] + t[j - 1]) + (row[j - 1] * x[j - 1] + row[j - 1] * y[j - 1])
      <4> DEFINE a == s[j - 1]
                 b == row[j - 1] * x[j - 1]
                 c == t[j - 1]
                 d == row[j - 1] * y[j - 1]
      <4>1. a \in Int /\ b \in Int /\ c \in Int /\ d \in Int
        BY <3>3, <3>5
      <4> HIDE DEF a, b, c, d
      <4>2. (a + b) + (c + d) = (a + c) + (b + d)
        BY <4>1, <3>9
      <4> QED
        BY <4>2 DEF a, b, c, d
    <3> QED
      BY <3>10, <3>11, <3>12
  <2> QED
    BY <2>1, <2>2 DEF Sums
<1> HIDE DEF r, z
<1>5. Accumulate(0, row, z, n) = r[n]
  BY <1>3, <1>4, <1>6, AccumulateIs, Zenon
<1> QED
  BY <1>1, <1>2, <1>5 DEF r, z

LEMMA AccumulateZeros ==
    ASSUME NEW n \in Nat, NEW row \in [0 .. n - 1 -> Int]
    PROVE  Accumulate(0, row, [j \in 0 .. n - 1 |-> 0], n) = 0
<1> DEFINE z == [j \in 0 .. n - 1 |-> 0]
           s == [j \in 0 .. n |-> 0]
<1>1. z \in [0 .. n - 1 -> Int]
  OBVIOUS
<1>2. Sums(s, 0, row, z, n)
  <2>1. ASSUME NEW j \in 1 .. n PROVE s[j] = s[j - 1] + row[j - 1] * z[j - 1]
    <3>1. j - 1 \in 0 .. n /\ j \in 0 .. n /\ j - 1 \in 0 .. n - 1
      OBVIOUS
    <3>2. row[j - 1] \in Int
      BY <3>1
    <3>3. ASSUME NEW a \in Int PROVE a * 0 = 0
      OBVIOUS
    <3>4. row[j - 1] * z[j - 1] = 0
      BY <3>1, <3>2, <3>3
    <3> QED
      BY <3>1, <3>4
  <2> QED
    BY <2>1 DEF Sums
<1>3. s[n] = 0
  OBVIOUS
<1> HIDE DEF s, z
<1>4. Accumulate(0, row, z, n) = s[n]
  BY <1>1, <1>2, AccumulateIs
<1> QED
  BY <1>3, <1>4 DEF z

\* The sum over indices 0 .. n - 1 is what a loop of n steps gives.
LEMMA DotIs ==
    ASSUME NEW n \in Nat, n <= N + 26, NEW v \in [0 .. n - 1 -> Int],
           NEW w \in [0 .. n - 1 -> Int]
    PROVE  Dot(v, w, 0 .. n - 1) = Accumulate(0, v, w, n)
<1> USE NAssumption
<1> DEFINE IsDot(f) ==
        f = [m \in -1 .. N + 25 |->
                IF m = -1 THEN 0
                ELSE f[m - 1] + IF m \in 0 .. n - 1 THEN v[m] * w[m] ELSE 0]
           c == CHOOSE f : IsDot(f)
<1>1. 0 \in Int
  OBVIOUS
<1>2. PICK s \in [0 .. n -> Int] : Sums(s, 0, v, w, n) /\ Accumulate(0, v, w, n) = s[n]
  BY <1>1, AccumulateSums, Zenon
<1> DEFINE d == [m \in -1 .. N + 25 |-> IF m < n THEN s[m + 1] ELSE s[n]]
<1>3. IsDot(d)
  <2>1. ASSUME NEW m \in -1 .. N + 25
        PROVE  d[m] = IF m = -1 THEN 0
                      ELSE d[m - 1] + IF m \in 0 .. n - 1 THEN v[m] * w[m] ELSE 0
    <3>1. CASE m = -1
      BY <1>2, <3>1 DEF Sums
    <3>2. CASE m \in 0 .. n - 1
      <4>1. /\ m + 1 \in 1 .. n /\ (m + 1) - 1 = m /\ m - 1 \in -1 .. N + 25
            /\ (m - 1) + 1 = m
        BY <3>2
      <4>2. s[m + 1] = s[(m + 1) - 1] + v[(m + 1) - 1] * w[(m + 1) - 1]
        BY <1>2, <4>1 DEF Sums
      <4>3. d[m] = s[m + 1] /\ d[m - 1] = s[m]
        BY <3>2, <4>1
      <4> QED
        BY <3>2, <4>1, <4>2, <4>3
    <3>3. CASE m >= n /\ m # -1
      <4>1. d[m] = s[n] /\ s[n] \in Int
        BY <3>3
      <4>2. m - 1 \in -1 .. N + 25 /\ m \notin 0 .. n - 1
        BY <3>3
      <4>3. d[m - 1] = s[n]
        <5>1. CASE m - 1 < n
          <6>1. (m - 1) + 1 = n
            BY <3>3, <5>1
          <6> QED
            BY <4>2, <5>1, <6>1
        <5>2. CASE m - 1 >= n
          BY <4>2, <5>2
        <5> QED
          BY <5>1, <5>2
      <4> QED
        BY <3>3, <4>1, <4>2, <4>3
    <3> QED
      BY <3>1, <3>2, <3>3
  <2>2. d = [m \in -1 .. N + 25 |-> d[m]]
    OBVIOUS
  <2> QED
    BY <2>1, <2>2
<1>4. IsDot(c) /\ Dot(v, w, 0 .. n - 1) = c[N + 25]
  BY <1>3 DEF Dot
<1> HIDE DEF c
<1>5. ASSUME NEW f, IsDot(f)
      PROVE  /\ f[-1] = 0
             /\ \A m \in 0 .. N + 25 :
                    f[m] = f[m - 1] + IF m \in 0 .. n - 1 THEN v[m] * w[m] ELSE 0
  BY <1>5
<1>6. /\ c[-1] = 0 /\ d[-1] = 0
      /\ \A m \in 0 .. N + 25 :
             c[m] = c[m - 1] + IF m \in 0 .. n - 1 THEN v[m] * w[m] ELSE 0
      /\ \A m \in 0 .. N + 25 :
             d[m] = d[m - 1] + IF m \in 0 .. n - 1 THEN v[m] * w[m] ELSE 0
  <2> HIDE DEF IsDot, d
  <2> QED
    BY <1>3, <1>4, <1>5
<1>7. c[N + 25] = d[N + 25]
  <2> DEFINE f == [j \in 0 .. N + 26 |-> c[j - 1]]
             g == [j \in 0 .. N + 26 |-> d[j - 1]]
  <2> HIDE DEF d
  <2>1. GoAlike(f, g, N + 26)
    <3>1. f[0] = g[0]
      BY <1>6
    <3>2. ASSUME NEW j \in 1 .. N + 26, f[j - 1] = g[j - 1] PROVE f[j] = g[j]
      <4>1. j - 1 \in 0 .. N + 25 /\ j - 1 \in 0 .. N + 26 /\ j \in 0 .. N + 26
        OBVIOUS
      <4>2. f[j] = c[j - 1] /\ g[j] = d[j - 1]
        BY <4>1
      <4>3. f[j - 1] = c[(j - 1) - 1] /\ g[j - 1] = d[(j - 1) - 1]
        BY <4>1
      <4>4. c[(j - 1) - 1] = d[(j - 1) - 1]
        BY <3>2, <4>3
      <4> QED
        BY <1>6, <4>1, <4>2, <4>4
    <3> QED
      BY <3>1, <3>2 DEF GoAlike
  <2>2. N + 26 \in Nat /\ N + 26 \in 0 .. N + 26 /\ (N + 26) - 1 = N + 25
    OBVIOUS
  <2>3. f[N + 26] = g[N + 26]
    <3> HIDE DEF f, g
    <3> QED
      BY <2>1, <2>2, Alike
  <2> QED
    BY <2>2, <2>3
<1>8. d[N + 25] = s[n]
  <2>1. CASE N + 25 < n
    <3>1. (N + 25) + 1 = n /\ N + 25 \in -1 .. N + 25
      BY <2>1
    <3> QED
      BY <2>1, <3>1
  <2>2. CASE N + 25 >= n
    BY <2>2
  <2> QED
    BY <2>1, <2>2
<1> QED
  BY <1>2, <1>4, <1>7, <1>8

\* Vectors of the laws; a matrix times a vector, and two vectors added.
StateVectors == [States -> Int]
InputVectors == [Inputs -> Int]

Times(a, x) == [i \in States |-> Dot(a[i], x, States)]
Plus(x, y) == [i \in States |-> x[i] + y[i]]

LEMMA StateDot ==
    ASSUME NEW x \in StateVectors, NEW y \in StateVectors
    PROVE  Dot(x, y, States) = Accumulate(0, x, y, N) /\ Dot(x, y, States) \in Int
<1>1. N \in Nat /\ N <= N + 26
  BY NAssumption
<1>2. Dot(x, y, States) = Accumulate(0, x, y, N)
  BY <1>1, DotIs DEF States, StateVectors
<1>3. 0 \in Int
  OBVIOUS
<1>4. Accumulate(0, x, y, N) \in Int
  BY <1>1, <1>3, AccumulateType, Zenon DEF States, StateVectors
<1> QED
  BY <1>2, <1>4

LEMMA InputDot ==
    ASSUME NEW x \in InputVectors, NEW y \in InputVectors
    PROVE  Dot(x, y, Inputs) = Accumulate(0, x, y, 26) /\ Dot(x, y, Inputs) \in Int
<1> DEFINE n == 26
<1>1. n \in Nat /\ n <= N + 26 /\ 0 .. n - 1 = 0 .. 25
  BY NAssumption
<1>2. x \in [0 .. n - 1 -> Int] /\ y \in [0 .. n - 1 -> Int]
  BY DEF InputVectors, Inputs
<1>3. 0 \in Int
  OBVIOUS
<1>4. Inputs = 0 .. n - 1 /\ n = 26
  BY DEF Inputs
<1> HIDE DEF n
<1>5. Dot(x, y, 0 .. n - 1) = Accumulate(0, x, y, n)
  BY <1>1, <1>2, DotIs
<1>6. Accumulate(0, x, y, n) \in Int
  BY <1>1, <1>2, <1>3, AccumulateType, Zenon
<1> QED
  BY <1>4, <1>5, <1>6

LEMMA TimesType ==
    ASSUME NEW a \in [States -> StateVectors], NEW x \in StateVectors
    PROVE  Times(a, x) \in StateVectors
<1>1. ASSUME NEW i \in States PROVE Dot(a[i], x, States) \in Int
  BY StateDot
<1> QED
  BY <1>1 DEF Times, StateVectors

LEMMA TimesPlus ==
    ASSUME NEW a \in [States -> StateVectors], NEW x \in StateVectors, NEW y \in StateVectors
    PROVE  /\ Plus(x, y) \in StateVectors
           /\ Times(a, Plus(x, y)) = Plus(Times(a, x), Times(a, y))
<1>1. Plus(x, y) \in StateVectors
  BY DEF Plus, StateVectors
<1>2. ASSUME NEW i \in States
      PROVE  Dot(a[i], Plus(x, y), States) = Dot(a[i], x, States) + Dot(a[i], y, States)
  <2>1. a[i] \in StateVectors
    OBVIOUS
  <2>2. /\ Dot(a[i], Plus(x, y), States) = Accumulate(0, a[i], Plus(x, y), N)
        /\ Dot(a[i], x, States) = Accumulate(0, a[i], x, N)
        /\ Dot(a[i], y, States) = Accumulate(0, a[i], y, N)
    BY <1>1, <2>1, StateDot
  <2>3. /\ N \in Nat /\ a[i] \in [0 .. N - 1 -> Int] /\ x \in [0 .. N - 1 -> Int]
        /\ y \in [0 .. N - 1 -> Int]
    BY <2>1, NAssumption DEF StateVectors, States
  <2>4. Accumulate(0, a[i], [j \in 0 .. N - 1 |-> x[j] + y[j]], N)
        = Accumulate(0, a[i], x, N) + Accumulate(0, a[i], y, N)
    BY <2>3, AccumulateLinear
  <2>5. Plus(x, y) = [j \in 0 .. N - 1 |-> x[j] + y[j]]
    BY DEF Plus, States
  <2> QED
    BY <2>2, <2>4, <2>5
<1>3. Times(a, Plus(x, y)) = [i \in States |-> Dot(a[i], x, States) + Dot(a[i], y, States)]
  BY <1>2 DEF Times
<1>4. Plus(Times(a, x), Times(a, y))
      = [i \in States |-> Dot(a[i], x, States) + Dot(a[i], y, States)]
  BY DEF Plus, Times
<1> QED
  BY <1>1, <1>3, <1>4

LEMMA TimesZeros ==
    ASSUME NEW a \in [States -> StateVectors]
    PROVE  Times(a, [i \in States |-> 0]) = [i \in States |-> 0]
<1> DEFINE z == [i \in States |-> 0]
<1>1. z \in StateVectors
  BY DEF StateVectors
<1>2. ASSUME NEW i \in States PROVE Dot(a[i], z, States) = 0
  <2>1. N \in Nat /\ a[i] \in [0 .. N - 1 -> Int]
    BY NAssumption DEF StateVectors, States
  <2>2. Accumulate(0, a[i], [j \in 0 .. N - 1 |-> 0], N) = 0
    BY <2>1, AccumulateZeros
  <2>3. z = [j \in 0 .. N - 1 |-> 0]
    BY DEF States
  <2>4. Dot(a[i], z, States) = Accumulate(0, a[i], z, N)
    <3> HIDE DEF z
    <3> QED
      BY <1>1, StateDot
  <2> QED
    BY <2>2, <2>3, <2>4
<1>3. Times(a, z) = [i \in States |-> 0]
  <2> HIDE DEF z
  <2> QED
    BY <1>2 DEF Times
<1> QED
  BY <1>3

\* f holds the powers of a, applied to v.
Powers(f, a, n, v) == f[0] = v /\ \A m \in 1 .. n : f[m] = Times(a, f[m - 1])

LEMMA PowerSteps ==
    ASSUME NEW a \in [States -> StateVectors], NEW n \in Nat, NEW v \in StateVectors
    PROVE  \E f \in [0 .. n -> StateVectors] : Powers(f, a, n, v) /\ Power(a, n, v) = f[n]
<1> DEFINE IsPower(f) ==
        f = [m \in 0 .. n |->
                IF m = 0 THEN v ELSE [i \in States |-> Dot(a[i], f[m - 1], States)]]
           G == [p \in (1 .. n) \X StateVectors |-> Times(a, p[2])]
           c == CHOOSE f : IsPower(f)
<1>1. G \in [(1 .. n) \X StateVectors -> StateVectors]
  BY TimesType
<1>2. PICK f \in [0 .. n -> StateVectors] : StepsOf(f, n, v, G)
  <2> HIDE DEF G
  <2> QED
    BY <1>1, Stepwise
<1>3. IsPower(f)
  <2>1. ASSUME NEW m \in 0 .. n
        PROVE  (IF m = 0 THEN v ELSE G[<<m, f[m - 1]>>])
               = IF m = 0 THEN v ELSE [i \in States |-> Dot(a[i], f[m - 1], States)]
    <3>1. CASE m # 0
      <4>1. m \in 1 .. n /\ m - 1 \in 0 .. n
        BY <3>1
      <4>2. <<m, f[m - 1]>> \in (1 .. n) \X StateVectors
        BY <4>1
      <4>3. G[<<m, f[m - 1]>>] = Times(a, f[m - 1])
        BY <4>2
      <4> QED
        BY <3>1, <4>3 DEF Times
    <3> QED
      BY <3>1
  <2> HIDE DEF G
  <2> QED
    BY <1>2, <2>1 DEF StepsOf
<1>4. IsPower(c) /\ Power(a, n, v) = c[n]
  BY <1>3 DEF Power
<1> HIDE DEF c
<1>5. ASSUME NEW g, IsPower(g) PROVE Powers(g, a, n, v)
  <2>1. g[0] = v
    BY <1>5
  <2>2. ASSUME NEW m \in 1 .. n PROVE g[m] = Times(a, g[m - 1])
    <3>1. m \in 0 .. n /\ m # 0
      OBVIOUS
    <3>2. g[m] = [i \in States |-> Dot(a[i], g[m - 1], States)]
      BY <1>5, <3>1
    <3> QED
      BY <3>2 DEF Times
  <2> QED
    BY <2>1, <2>2 DEF Powers
<1>6. Powers(f, a, n, v) /\ Powers(c, a, n, v)
  <2> HIDE DEF IsPower
  <2> QED
    BY <1>3, <1>4, <1>5
<1>7. c[n] = f[n]
  <2>1. GoAlike(c, f, n)
    BY <1>6 DEF Powers, GoAlike
  <2> QED
    BY <2>1, Alike
<1> QED
  BY <1>4, <1>6, <1>7

LEMMA PowerIs ==
    ASSUME NEW a \in [States -> StateVectors], NEW n \in Nat, NEW v \in StateVectors,
           NEW f, Powers(f, a, n, v)
    PROVE  Power(a, n, v) = f[n]
<1>1. PICK g \in [0 .. n -> StateVectors] : Powers(g, a, n, v) /\ Power(a, n, v) = g[n]
  BY PowerSteps
<1>2. GoAlike(f, g, n)
  BY <1>1 DEF Powers, GoAlike
<1>3. f[n] = g[n]
  BY <1>2, Alike
<1> QED
  BY <1>1, <1>3

\* The next power is the matrix applied once more.
LEMMA PowerNext ==
    ASSUME NEW a \in [States -> StateVectors], NEW n \in Nat, NEW v \in StateVectors
    PROVE  /\ Power(a, n, v) \in StateVectors
           /\ Power(a, n + 1, v) = Times(a, Power(a, n, v))
<1> DEFINE k == n + 1
<1>1. k \in Nat /\ k = n + 1
  OBVIOUS
<1> HIDE DEF k
<1>2. PICK f \in [0 .. k -> StateVectors] : Powers(f, a, k, v) /\ Power(a, k, v) = f[k]
  BY <1>1, PowerSteps
<1>3. Powers(f, a, n, v)
  BY <1>1, <1>2 DEF Powers
<1>4. Power(a, n, v) = f[n]
  BY <1>3, PowerIs
<1>5. f[k] = Times(a, f[k - 1]) /\ k - 1 = n /\ n \in 0 .. k
  BY <1>1, <1>2 DEF Powers
<1> QED
  BY <1>1, <1>2, <1>4, <1>5

LEMMA PowerNone ==
    ASSUME NEW a \in [States -> StateVectors], NEW v \in StateVectors
    PROVE  Power(a, 0, v) = v
<1> DEFINE z == 0
<1>1. z \in Nat /\ z = 0
  OBVIOUS
<1> HIDE DEF z
<1>2. PICK f \in [0 .. z -> StateVectors] : Powers(f, a, z, v) /\ Power(a, z, v) = f[z]
  BY <1>1, PowerSteps
<1> QED
  BY <1>1, <1>2 DEF Powers

\* A law: its four matrices.
IsLaw(law) ==
    /\ law.A \in [States -> StateVectors] /\ law.B \in [States -> InputVectors]
    /\ law.C \in StateVectors /\ law.D \in InputVectors

LEMMA LawsAre == IsLaw(VSGAMExtremum) /\ IsLaw(VSGAMExtremum_1khz)
BY MatricesAssumption
   DEF IsLaw, VSGAMExtremum, VSGAMExtremum_1khz, StateVectors, InputVectors

\* What an input adds to the state.
Driven(law, u) == [i \in States |-> Dot(law.B[i], u, Inputs)]

LEMMA DrivenType ==
    ASSUME NEW law, IsLaw(law), NEW u \in InputVectors
    PROVE  Driven(law, u) \in StateVectors
<1>1. ASSUME NEW i \in States PROVE Dot(law.B[i], u, Inputs) \in Int
  BY InputDot DEF IsLaw
<1> QED
  BY <1>1 DEF Driven, StateVectors

\* Each row of the loop that computes the next state.
LEMMA NextStateIs ==
    ASSUME NEW law, IsLaw(law), NEW state \in StateVectors, NEW u \in InputVectors
    PROVE  /\ NextState(law, state, u) = Plus(Times(law.A, state), Driven(law, u))
           /\ NextState(law, state, u) \in StateVectors
<1>1. ASSUME NEW i \in States
      PROVE  Accumulate(Accumulate(0, law.A[i], state, N), law.B[i], u, 26)
             = Dot(law.A[i], state, States) + Dot(law.B[i], u, Inputs)
  <2>1. law.A[i] \in StateVectors /\ law.B[i] \in InputVectors
    BY DEF IsLaw
  <2> DEFINE x == Accumulate(0, law.A[i], state, N)
             n == 26
  <2>2. Dot(law.A[i], state, States) = x /\ x \in Int
    BY <2>1, StateDot
  <2>3. Dot(law.B[i], u, Inputs) = Accumulate(0, law.B[i], u, 26)
    BY <2>1, InputDot
  <2>4. n \in Nat /\ n = 26 /\ law.B[i] \in [0 .. n - 1 -> Int] /\ u \in [0 .. n - 1 -> Int]
    BY <2>1 DEF InputVectors, Inputs
  <2> HIDE DEF n, x
  <2>5. Accumulate(x, law.B[i], u, n) = x + Accumulate(0, law.B[i], u, n)
    BY <2>2, <2>4, AccumulateFrom
  <2> QED
    BY <2>2, <2>3, <2>4, <2>5 DEF x
<1>2. NextState(law, state, u)
      = [i \in States |-> Dot(law.A[i], state, States) + Dot(law.B[i], u, Inputs)]
  BY <1>1 DEF NextState
<1>3. Plus(Times(law.A, state), Driven(law, u))
      = [i \in States |-> Dot(law.A[i], state, States) + Dot(law.B[i], u, Inputs)]
  BY DEF Plus, Times, Driven
<1>4. Times(law.A, state) \in StateVectors /\ Driven(law, u) \in StateVectors
  BY TimesType, DrivenType DEF IsLaw
<1> QED
  BY <1>2, <1>3, <1>4, TimesPlus DEF IsLaw

LEMMA EstimateIs ==
    ASSUME NEW law, IsLaw(law), NEW state \in StateVectors, NEW u \in InputVectors
    PROVE  Estimate(law, state, u) = Dot(law.C, state, States) + Dot(law.D, u, Inputs)
<1> DEFINE x == Accumulate(0, law.C, state, N)
           n == 26
<1>1. law.C \in StateVectors /\ law.D \in InputVectors
  BY DEF IsLaw
<1>2. Dot(law.C, state, States) = x /\ x \in Int
  BY <1>1, StateDot
<1>3. Dot(law.D, u, Inputs) = Accumulate(0, law.D, u, 26)
  BY <1>1, InputDot
<1>4. n \in Nat /\ n = 26 /\ law.D \in [0 .. n - 1 -> Int] /\ u \in [0 .. n - 1 -> Int]
  BY <1>1 DEF InputVectors, Inputs
<1> HIDE DEF n, x
<1>5. Accumulate(x, law.D, u, n) = x + Accumulate(0, law.D, u, n)
  BY <1>2, <1>4, AccumulateFrom
<1>6. Estimate(law, state, u) = Accumulate(x, law.D, u, n)
  BY <1>4 DEF Estimate, x
<1> QED
  BY <1>2, <1>3, <1>4, <1>5, <1>6

\* f holds the sums of the inputs us, the m-th carried on to the l-th sample.
Carried(law, us, l, m) == Power(law.A, l - m, Driven(law, us[m]))

Totals(f, law, us, l, n) ==
    /\ f[0] = [i \in States |-> 0]
    /\ \A m \in 1 .. n : f[m] = Plus(f[m - 1], Carried(law, us, l, m))

LEMMA CarriedType ==
    ASSUME NEW law, IsLaw(law), NEW l \in Nat, NEW us \in [1 .. l -> InputVectors],
           NEW m \in 1 .. l
    PROVE  Carried(law, us, l, m) \in StateVectors
<1>1. l - m \in Nat /\ us[m] \in InputVectors
  OBVIOUS
<1>2. Driven(law, us[m]) \in StateVectors
  BY <1>1, DrivenType
<1>3. law.A \in [States -> StateVectors]
  BY DEF IsLaw
<1> DEFINE k == l - m
           v == Driven(law, us[m])
<1>4. k \in Nat /\ v \in StateVectors
  BY <1>1, <1>2
<1> HIDE DEF k, v
<1>5. Power(law.A, k, v) \in StateVectors
  BY <1>3, <1>4, PowerNext
<1> QED
  BY <1>5 DEF Carried, k, v

LEMMA StateTotals ==
    ASSUME NEW law, IsLaw(law), NEW l \in Nat, NEW us \in [1 .. l -> InputVectors]
    PROVE  \E f \in [0 .. l -> StateVectors] :
               Totals(f, law, us, l, l) /\ StateAfter(law, us) = f[l]
<1> DEFINE IsTotal(f) ==
        f = [m \in 0 .. Len(us) |->
                IF m = 0 THEN [i \in States |-> 0]
                ELSE [i \in States |->
                        f[m - 1][i]
                        + Power(law.A, Len(us) - m,
                                [k \in States |-> Dot(law.B[k], us[m], Inputs)])[i]]]
           zeros == [i \in States |-> 0]
           G == [p \in (1 .. l) \X StateVectors |-> Plus(p[2], Carried(law, us, l, p[1]))]
           c == CHOOSE f : IsTotal(f)
<1>1. Len(us) = l
  OBVIOUS
<1>2. zeros \in StateVectors
  BY DEF StateVectors
<1>3. G \in [(1 .. l) \X StateVectors -> StateVectors]
  BY CarriedType, TimesPlus DEF Plus, StateVectors
<1>4. PICK f \in [0 .. l -> StateVectors] : StepsOf(f, l, zeros, G)
  <2> HIDE DEF G, zeros
  <2> QED
    BY <1>2, <1>3, Stepwise
<1>5. ASSUME NEW g, NEW m \in 1 .. l
      PROVE  [i \in States |->
                g[m - 1][i]
                + Power(law.A, Len(us) - m,
                        [k \in States |-> Dot(law.B[k], us[m], Inputs)])[i]]
             = Plus(g[m - 1], Carried(law, us, l, m))
  BY <1>1 DEF Plus, Carried, Driven
<1>6. IsTotal(f)
  <2>1. ASSUME NEW m \in 0 .. l
        PROVE  (IF m = 0 THEN zeros ELSE G[<<m, f[m - 1]>>])
               = IF m = 0 THEN zeros ELSE Plus(f[m - 1], Carried(law, us, l, m))
    <3>1. CASE m # 0
      <4>1. m \in 1 .. l /\ m - 1 \in 0 .. l
        BY <3>1
      <4>2. <<m, f[m - 1]>> \in (1 .. l) \X StateVectors
        BY <4>1
      <4> QED
        BY <3>1, <4>2
    <3> QED
      BY <3>1
  <2>2. f = [m \in 0 .. l |->
                IF m = 0 THEN zeros ELSE Plus(f[m - 1], Carried(law, us, l, m))]
    <3> HIDE DEF G, zeros
    <3> QED
      BY <1>4, <2>1 DEF StepsOf
  <2>3. ASSUME NEW m \in 0 .. l
        PROVE  (IF m = 0 THEN zeros ELSE Plus(f[m - 1], Carried(law, us, l, m)))
               = IF m = 0 THEN zeros
                 ELSE [i \in States |->
                        f[m - 1][i]
                        + Power(law.A, Len(us) - m,
                                [k \in States |-> Dot(law.B[k], us[m], Inputs)])[i]]
    <3>1. CASE m # 0
      <4>1. m \in 1 .. l
        BY <3>1
      <4> QED
        BY <1>5, <3>1, <4>1
    <3> QED
      BY <3>1
  <2> QED
    BY <1>1, <2>2, <2>3
<1>7. IsTotal(c) /\ StateAfter(law, us) = c[l]
  BY <1>1, <1>6 DEF StateAfter
<1> HIDE DEF c
<1>8. ASSUME NEW g, IsTotal(g) PROVE Totals(g, law, us, l, l)
  <2>1. g[0] = zeros
    BY <1>1, <1>8
  <2>2. ASSUME NEW m \in 1 .. l PROVE g[m] = Plus(g[m - 1], Carried(law, us, l, m))
    <3>1. m \in 0 .. Len(us) /\ m # 0
      BY <1>1
    <3>2. g[m] = [i \in States |->
                    g[m - 1][i]
                    + Power(law.A, Len(us) - m,
                            [k \in States |-> Dot(law.B[k], us[m], Inputs)])[i]]
      BY <1>8, <3>1
    <3> QED
      BY <1>5, <3>2
  <2> QED
    BY <2>1, <2>2 DEF Totals
<1>9. Totals(f, law, us, l, l) /\ Totals(c, law, us, l, l)
  <2> HIDE DEF IsTotal
  <2> QED
    BY <1>6, <1>7, <1>8
<1>10. c[l] = f[l]
  <2>1. GoAlike(c, f, l)
    BY <1>9 DEF Totals, GoAlike
  <2> QED
    BY <2>1, Alike
<1> QED
  BY <1>7, <1>9, <1>10

LEMMA StateAfterIs ==
    ASSUME NEW law, IsLaw(law), NEW l \in Nat, NEW us \in [1 .. l -> InputVectors],
           NEW f, Totals(f, law, us, l, l)
    PROVE  StateAfter(law, us) = f[l]
<1>1. PICK g \in [0 .. l -> StateVectors] :
          Totals(g, law, us, l, l) /\ StateAfter(law, us) = g[l]
  BY StateTotals
<1>2. GoAlike(f, g, l)
  BY <1>1 DEF Totals, GoAlike
<1>3. f[l] = g[l]
  BY <1>2, Alike
<1> QED
  BY <1>1, <1>3

\* Two running totals, one of them of the other's terms multiplied.
GoTimes(a, f, g, l) ==
    /\ f[0] = [i \in States |-> 0] /\ g[0] = [i \in States |-> 0]
    /\ \A m \in 1 .. l :
           \E c \in StateVectors : /\ f[m] = Plus(f[m - 1], c)
                                   /\ g[m] = Plus(g[m - 1], Times(a, c))

LEMMA TimesTotals ==
    ASSUME NEW a \in [States -> StateVectors], NEW l \in Nat,
           NEW f \in [0 .. l -> StateVectors], NEW g, GoTimes(a, f, g, l)
    PROVE  g[l] = Times(a, f[l])
<1> DEFINE h == [m \in 0 .. l |-> Times(a, f[m])]
<1>1. g[0] = h[0]
  <2>1. Times(a, f[0]) = [i \in States |-> 0]
    BY TimesZeros DEF GoTimes
  <2> QED
    BY <2>1 DEF GoTimes
<1>2. ASSUME NEW m \in 1 .. l, g[m - 1] = h[m - 1] PROVE g[m] = h[m]
  <2>1. m - 1 \in 0 .. l /\ m \in 0 .. l
    OBVIOUS
  <2>2. PICK c \in StateVectors : /\ f[m] = Plus(f[m - 1], c)
                                  /\ g[m] = Plus(g[m - 1], Times(a, c))
    BY DEF GoTimes
  <2>3. f[m - 1] \in StateVectors
    BY <2>1
  <2>4. Times(a, Plus(f[m - 1], c)) = Plus(Times(a, f[m - 1]), Times(a, c))
    BY <2>3, TimesPlus
  <2>5. h[m - 1] = Times(a, f[m - 1]) /\ h[m] = Times(a, f[m])
    BY <2>1
  <2> QED
    BY <1>2, <2>2, <2>4, <2>5
<1>3. h[l] = Times(a, f[l])
  OBVIOUS
<1> HIDE DEF h
<1>4. GoAlike(g, h, l)
  BY <1>1, <1>2 DEF GoAlike
<1>5. \A j \in 0 .. l : g[j] = h[j]
  BY <1>4, Alike
<1> QED
  BY <1>3, <1>5

\* What the loops compute is what the law is: the state after the inputs us
\* and one more, u, is NextState of the state after us.
THEOREM StateAfterNext ==
    ASSUME NEW law, IsLaw(law), NEW l \in Nat, NEW us \in [1 .. l -> InputVectors],
           NEW vs \in [1 .. l + 1 -> InputVectors], \A m \in 1 .. l : vs[m] = us[m]
    PROVE  /\ StateAfter(law, us) \in StateVectors
           /\ StateAfter(law, vs) = NextState(law, StateAfter(law, us), vs[l + 1])
<1> DEFINE k == l + 1
           x == StateAfter(law, us)
<1>1. k \in Nat /\ k = l + 1 /\ k - 1 = l /\ k \in 1 .. k
  OBVIOUS
<1>2. law.A \in [States -> StateVectors]
  BY DEF IsLaw
<1> HIDE DEF k
<1>3. vs \in [1 .. k -> InputVectors]
  BY <1>1
<1>4. PICK f \in [0 .. l -> StateVectors] :
          Totals(f, law, us, l, l) /\ StateAfter(law, us) = f[l]
  BY StateTotals
<1>5. x \in StateVectors
  BY <1>4
<1> HIDE DEF x
<1>6. PICK g \in [0 .. k -> StateVectors] :
          Totals(g, law, vs, k, k) /\ StateAfter(law, vs) = g[k]
  BY <1>1, <1>3, StateTotals
<1>7. ASSUME NEW m \in 1 .. l
      PROVE  /\ Carried(law, us, l, m) \in StateVectors
             /\ Carried(law, vs, k, m) = Times(law.A, Carried(law, us, l, m))
  <2>1. Carried(law, us, l, m) \in StateVectors
    BY CarriedType
  <2> DEFINE n == l - m
             v == Driven(law, us[m])
  <2>2. n \in Nat /\ n + 1 = k - m /\ us[m] \in InputVectors /\ vs[m] = us[m]
    BY <1>1
  <2>3. v \in StateVectors
    BY <2>2, DrivenType
  <2>4. Carried(law, us, l, m) = Power(law.A, n, v)
    BY DEF Carried
  <2>5. Carried(law, vs, k, m) = Power(law.A, n + 1, v)
    BY <2>2 DEF Carried
  <2> HIDE DEF n, v
  <2>6. Power(law.A, n + 1, v) = Times(law.A, Power(law.A, n, v))
    BY <1>2, <2>2, <2>3, PowerNext
  <2> QED
    BY <2>1, <2>4, <2>5, <2>6
<1>8. g[l] = Times(law.A, f[l])
  <2>1. f[0] = [i \in States |-> 0] /\ g[0] = [i \in States |-> 0]
    BY <1>4, <1>6 DEF Totals
  <2>2. ASSUME NEW m \in 1 .. l
        PROVE  \E c \in StateVectors : /\ f[m] = Plus(f[m - 1], c)
                                       /\ g[m] = Plus(g[m - 1], Times(law.A, c))
    <3>1. m \in 1 .. k
      BY <1>1
    <3>2. g[m] = Plus(g[m - 1], Carried(law, vs, k, m))
      BY <1>6, <3>1 DEF Totals
    <3>3. f[m] = Plus(f[m - 1], Carried(law, us, l, m))
      BY <1>4 DEF Totals
    <3> QED
      BY <1>7, <3>2, <3>3
  <2>3. law.A \in [States -> StateVectors] /\ l \in Nat /\ f \in [0 .. l -> StateVectors]
    BY <1>2
  <2>4. GoTimes(law.A, f, g, l)
    BY <2>1, <2>2 DEF GoTimes
  <2> QED
    BY ONLY <2>3, <2>4, TimesTotals
<1>9. g[k] = Plus(g[l], Driven(law, vs[k]))
  <2>1. g[k] = Plus(g[k - 1], Carried(law, vs, k, k))
    BY <1>1, <1>6 DEF Totals
  <2>2. vs[k] \in InputVectors
    BY <1>1, <1>3
  <2>3. Driven(law, vs[k]) \in StateVectors
    BY <2>2, DrivenType
  <2>4. Carried(law, vs, k, k) = Driven(law, vs[k])
    <3>1. k - k = 0
      BY <1>1
    <3>2. Power(law.A, 0, Driven(law, vs[k])) = Driven(law, vs[k])
      BY <1>2, <2>3, PowerNone
    <3> QED
      BY <3>1, <3>2 DEF Carried
  <2> QED
    BY <1>1, <2>1, <2>4
<1>10. vs[k] \in InputVectors
  BY <1>1, <1>3
<1>11. NextState(law, x, vs[k]) = Plus(Times(law.A, x), Driven(law, vs[k]))
  BY <1>5, <1>10, NextStateIs
<1>12. x = f[l]
  BY <1>4 DEF x
<1> QED
  BY <1>1, <1>5, <1>6, <1>8, <1>9, <1>11, <1>12 DEF x

LEMMA StateAfterNothing ==
    ASSUME NEW law, IsLaw(law), NEW us \in [1 .. 0 -> InputVectors]
    PROVE  StateAfter(law, us) = [i \in States |-> 0]
<1> DEFINE l == 0
<1>1. l \in Nat /\ l = 0 /\ us \in [1 .. l -> InputVectors]
  OBVIOUS
<1> HIDE DEF l
<1>2. PICK f \in [0 .. l -> StateVectors] :
          Totals(f, law, us, l, l) /\ StateAfter(law, us) = f[l]
  BY <1>1, StateTotals
<1> QED
  BY <1>1, <1>2 DEF Totals
-----------------------------------------------------------------------------
(***************************************************************************)
(* The classic law: its state after one more drive.                        *)
(***************************************************************************)
IsPowers(p) == p = [n \in Nat |-> IF n = 0 THEN 1 ELSE Af * p[n - 1]]

ClassicPower == CHOOSE p : IsPowers(p)

LEMMA ClassicPowers ==
    /\ IsPowers(ClassicPower) /\ ClassicPower \in [Nat -> Int] /\ ClassicPower[0] = 1
    /\ \A n \in Nat : ClassicPower[n + 1] = Af * ClassicPower[n]
<1> DEFINE G == [p \in Nat \X Int |-> Af * p[2]]
           c == ClassicPower
<1>1. G \in [Nat \X Int -> Int]
  BY GainsAssumption
<1>2. PICK f \in [Nat -> Int] : Builds(f, 1, G)
  <2>1. 1 \in Int
    OBVIOUS
  <2> HIDE DEF G
  <2> QED
    BY <1>1, <2>1, Recursion
<1>3. IsPowers(f)
  <2>1. ASSUME NEW n \in Nat PROVE f[n] = IF n = 0 THEN 1 ELSE Af * f[n - 1]
    <3>1. CASE n = 0
      BY <1>2, <3>1 DEF Builds
    <3>2. CASE n # 0
      <4>1. n - 1 \in Nat /\ (n - 1) + 1 = n
        BY <3>2
      <4>2. f[(n - 1) + 1] = G[<<n - 1, f[n - 1]>>]
        BY <1>2, <4>1 DEF Builds
      <4>3. <<n - 1, f[n - 1]>> \in Nat \X Int
        BY <4>1
      <4> QED
        BY <3>2, <4>1, <4>2, <4>3
    <3> QED
      BY <3>1, <3>2
  <2> QED
    BY <2>1 DEF IsPowers
<1>4. IsPowers(c)
  BY <1>3 DEF ClassicPower
<1> HIDE DEF c
<1>5. c[0] = 1 /\ DOMAIN c = Nat
  BY <1>4 DEF IsPowers
<1>6. ASSUME NEW n \in Nat PROVE c[n + 1] = Af * c[n]
  <2>1. n + 1 \in Nat /\ n + 1 # 0 /\ (n + 1) - 1 = n
    OBVIOUS
  <2> QED
    BY <1>4, <2>1 DEF IsPowers
<1>7. \A n \in Nat : c[n] \in Int
  <2> DEFINE S == {n \in Nat : c[n] \in Int}
  <2>1. 0 \in S
    BY <1>5
  <2>2. ASSUME NEW n \in Nat, n \in S PROVE n + 1 \in S
    BY <1>6, <2>2, GainsAssumption
  <2> HIDE DEF S
  <2>3. \A n \in Nat : n \in S
    BY <2>1, <2>2, Induction
  <2> QED
    BY <2>3 DEF S
<1>8. c \in [Nat -> Int]
  <2>1. c = [n \in Nat |-> c[n]]
    BY <1>4 DEF IsPowers
  <2> QED
    BY <1>7, <2>1
<1> QED
  BY <1>4, <1>5, <1>6, <1>8 DEF c

\* What the m-th of l drives has become.
ClassicTerm(ws, l, m) == ClassicPower[l - m] * Bf * ws[m]

ClassicTotals(f, ws, l) ==
    f[0] = 0 /\ \A m \in 1 .. l : f[m] = f[m - 1] + ClassicTerm(ws, l, m)

LEMMA ClassicTermType ==
    ASSUME NEW l \in Nat, NEW ws \in [1 .. l -> Int], NEW m \in 1 .. l
    PROVE  ClassicTerm(ws, l, m) \in Int
<1>1. l - m \in Nat /\ ws[m] \in Int
  OBVIOUS
<1>2. ClassicPower[l - m] \in Int
  BY <1>1, ClassicPowers
<1> QED
  BY <1>1, <1>2, GainsAssumption DEF ClassicTerm

LEMMA ClassicTotal ==
    ASSUME NEW l \in Nat, NEW ws \in [1 .. l -> Int]
    PROVE  \E f \in [0 .. l -> Int] : ClassicTotals(f, ws, l) /\ ClassicState(ws) = f[l]
<1> DEFINE IsTotal(f) ==
        f = [m \in 0 .. Len(ws) |->
                IF m = 0 THEN 0 ELSE f[m - 1] + ClassicPower[Len(ws) - m] * Bf * ws[m]]
           G == [p \in (1 .. l) \X Int |-> p[2] + ClassicTerm(ws, l, p[1])]
           c == CHOOSE f : IsTotal(f)
<1>1. Len(ws) = l
  OBVIOUS
<1>2. G \in [(1 .. l) \X Int -> Int]
  BY ClassicTermType
<1>3. PICK f \in [0 .. l -> Int] : StepsOf(f, l, 0, G)
  <2>1. 0 \in Int
    OBVIOUS
  <2> HIDE DEF G
  <2> QED
    BY <1>2, <2>1, Stepwise, Zenon
<1>4. IsTotal(f)
  <2>1. ASSUME NEW m \in 0 .. l
        PROVE  (IF m = 0 THEN 0 ELSE G[<<m, f[m - 1]>>])
               = IF m = 0 THEN 0 ELSE f[m - 1] + ClassicPower[Len(ws) - m] * Bf * ws[m]
    <3>1. CASE m # 0
      <4>1. m \in 1 .. l /\ m - 1 \in 0 .. l
        BY <3>1
      <4>2. <<m, f[m - 1]>> \in (1 .. l) \X Int
        BY <4>1
      <4>3. G[<<m, f[m - 1]>>] = f[m - 1] + ClassicTerm(ws, l, m)
        BY <4>2
      <4> QED
        BY <1>1, <3>1, <4>3 DEF ClassicTerm
    <3> QED
      BY <3>1
  <2> HIDE DEF G
  <2> QED
    BY <1>1, <1>3, <2>1 DEF StepsOf
<1>5. IsTotal(c) /\ ClassicState(ws) = c[l]
  BY <1>1, <1>4 DEF ClassicState, ClassicPower, IsPowers
<1> HIDE DEF c
<1>6. ASSUME NEW g, IsTotal(g) PROVE ClassicTotals(g, ws, l)
  <2>1. g[0] = 0
    BY <1>1, <1>6
  <2>2. ASSUME NEW m \in 1 .. l PROVE g[m] = g[m - 1] + ClassicTerm(ws, l, m)
    <3>1. m \in 0 .. Len(ws) /\ m # 0
      BY <1>1
    <3>2. g[m] = g[m - 1] + ClassicPower[Len(ws) - m] * Bf * ws[m]
      BY <1>6, <3>1
    <3> QED
      BY <1>1, <3>2 DEF ClassicTerm
  <2> QED
    BY <2>1, <2>2 DEF ClassicTotals
<1>7. ClassicTotals(f, ws, l) /\ ClassicTotals(c, ws, l)
  <2> HIDE DEF IsTotal
  <2> QED
    BY <1>4, <1>5, <1>6
<1>8. c[l] = f[l]
  <2>1. GoAlike(c, f, l)
    BY <1>7 DEF ClassicTotals, GoAlike
  <2> QED
    BY <2>1, Alike
<1> QED
  BY <1>5, <1>7, <1>8
\* Two running totals, one of them of the other's terms multiplied.
LEMMA ScaledTotals ==
    ASSUME NEW a \in Int, NEW l \in Nat, NEW f \in [0 .. l -> Int], NEW g,
           f[0] = 0, g[0] = 0,
           \A m \in 1 .. l :
               \E c \in Int : f[m] = f[m - 1] + c /\ g[m] = g[m - 1] + a * c
    PROVE  g[l] = a * f[l]
<1> DEFINE h == [m \in 0 .. l |-> a * f[m]]
<1>1. g[0] = h[0]
  OBVIOUS
<1>2. ASSUME NEW m \in 1 .. l, g[m - 1] = h[m - 1] PROVE g[m] = h[m]
  <2>1. m - 1 \in 0 .. l /\ m \in 0 .. l
    OBVIOUS
  <2>2. PICK c \in Int : f[m] = f[m - 1] + c /\ g[m] = g[m - 1] + a * c
    OBVIOUS
  <2>3. f[m - 1] \in Int
    BY <2>1
  <2>4. a * (f[m - 1] + c) = a * f[m - 1] + a * c
    BY <2>3
  <2>5. h[m - 1] = a * f[m - 1] /\ h[m] = a * f[m]
    BY <2>1
  <2> QED
    BY <1>2, <2>2, <2>4, <2>5
<1>3. h[l] = a * f[l]
  OBVIOUS
<1> HIDE DEF h
<1>4. GoAlike(g, h, l)
  BY <1>1, <1>2 DEF GoAlike
<1>5. \A j \in 0 .. l : g[j] = h[j]
  BY <1>4, Alike
<1> QED
  BY <1>3, <1>5

LEMMA Scaled ==
    ASSUME NEW a \in Int, NEW p \in Int, NEW b \in Int, NEW w \in Int
    PROVE  (a * p) * b * w = a * (p * b * w)
OBVIOUS

\* One more drive: what ExecuteClassic keeps as x_old.
THEOREM ClassicStateNext ==
    ASSUME NEW l \in Nat, NEW us \in [1 .. l -> Int], NEW vs \in [1 .. l + 1 -> Int],
           \A m \in 1 .. l : vs[m] = us[m]
    PROVE  /\ ClassicState(us) \in Int
           /\ ClassicState(vs) = Af * ClassicState(us) + Bf * vs[l + 1]
<1> DEFINE k == l + 1
           x == ClassicState(us)
<1>1. k \in Nat /\ k = l + 1 /\ k - 1 = l /\ k \in 1 .. k
  OBVIOUS
<1> HIDE DEF k
<1>2. vs \in [1 .. k -> Int]
  BY <1>1
<1>3. PICK f \in [0 .. l -> Int] : ClassicTotals(f, us, l) /\ ClassicState(us) = f[l]
  BY ClassicTotal
<1>4. x \in Int /\ x = f[l]
  BY <1>3
<1> HIDE DEF x
<1>5. PICK g \in [0 .. k -> Int] : ClassicTotals(g, vs, k) /\ ClassicState(vs) = g[k]
  BY <1>1, <1>2, ClassicTotal
<1>6. ASSUME NEW m \in 1 .. l
      PROVE  /\ ClassicTerm(us, l, m) \in Int
             /\ ClassicTerm(vs, k, m) = Af * ClassicTerm(us, l, m)
  <2>1. ClassicTerm(us, l, m) \in Int
    BY ClassicTermType
  <2> DEFINE n == l - m
             p == ClassicPower[n]
             w == us[m]
  <2>2. n \in Nat /\ n + 1 = k - m /\ w \in Int /\ vs[m] = w
    BY <1>1
  <2>3. p \in Int /\ ClassicPower[n + 1] = Af * p
    BY <2>2, ClassicPowers
  <2>4. ClassicTerm(us, l, m) = p * Bf * w
    BY DEF ClassicTerm
  <2>5. ClassicTerm(vs, k, m) = (Af * p) * Bf * w
    BY <2>2, <2>3 DEF ClassicTerm
  <2> HIDE DEF n, p, w
  <2>6. (Af * p) * Bf * w = Af * (p * Bf * w)
    BY <2>2, <2>3, GainsAssumption, Scaled
  <2> QED
    BY <2>1, <2>4, <2>5, <2>6
<1>7. g[l] = Af * f[l]
  <2>1. f[0] = 0 /\ g[0] = 0
    BY <1>3, <1>5 DEF ClassicTotals
  <2>2. ASSUME NEW m \in 1 .. l
        PROVE  \E c \in Int : f[m] = f[m - 1] + c /\ g[m] = g[m - 1] + Af * c
    <3>1. m \in 1 .. k
      BY <1>1
    <3>2. g[m] = g[m - 1] + ClassicTerm(vs, k, m)
      BY <1>5, <3>1 DEF ClassicTotals
    <3>3. f[m] = f[m - 1] + ClassicTerm(us, l, m)
      BY <1>3 DEF ClassicTotals
    <3> QED
      BY <1>6, <3>2, <3>3
  <2>3. Af \in Int /\ l \in Nat /\ f \in [0 .. l -> Int]
    BY GainsAssumption
  <2> QED
    BY ONLY <2>1, <2>2, <2>3, ScaledTotals
<1>8. g[k] = g[l] + ClassicTerm(vs, k, k)
  BY <1>1, <1>5 DEF ClassicTotals
<1>9. ClassicTerm(vs, k, k) = Bf * vs[k]
  <2>1. k - k = 0 /\ vs[k] \in Int
    BY <1>1, <1>2
  <2>2. ClassicTerm(vs, k, k) = ClassicPower[0] * Bf * vs[k]
    BY <2>1 DEF ClassicTerm
  <2>3. ClassicPower[0] = 1
    BY ClassicPowers
  <2>4. 1 * Bf * vs[k] = Bf * vs[k]
    BY <2>1, GainsAssumption
  <2> QED
    BY <2>2, <2>3, <2>4
<1> QED
  BY <1>1, <1>4, <1>5, <1>7, <1>8, <1>9 DEF x

LEMMA ClassicStateNothing ==
    ASSUME NEW us \in [1 .. 0 -> Int]
    PROVE  ClassicState(us) = 0
<1> DEFINE l == 0
<1>1. l \in Nat /\ l = 0 /\ us \in [1 .. l -> Int]
  OBVIOUS
<1> HIDE DEF l
<1>2. PICK f \in [0 .. l -> Int] : ClassicTotals(f, us, l) /\ ClassicState(us) = f[l]
  BY <1>1, ClassicTotal
<1> QED
  BY <1>1, <1>2 DEF ClassicTotals

\* The seeking law answers what it is, from the state its inputs have left.
LEMMA SeekingAnswers ==
    ASSUME NEW law, IsLaw(law), NEW l \in Nat, NEW us \in [1 .. l -> InputVectors],
           NEW u \in InputVectors
    PROVE  Dither(law.step * l, Estimate(law, StateAfter(law, us), u))
           = ExtremumReference(law, us, u)
<1> DEFINE x == StateAfter(law, us)
<1>1. x \in StateVectors
  BY StateTotals
<1>2. Len(us) = l
  OBVIOUS
<1> HIDE DEF x
<1>3. Estimate(law, x, u) = Dot(law.C, x, States) + Dot(law.D, u, Inputs)
  BY <1>1, EstimateIs
<1> QED
  BY <1>2, <1>3 DEF ExtremumReference, x
-----------------------------------------------------------------------------
(***************************************************************************)
(* What a run has received and decided, and the answer that is due.        *)
(***************************************************************************)
HistoryOf(rec, n) == [m \in 1 .. n |-> Seen(rec[m])]

\* What drives the classic law in a datagram of the swapping controller, and
\* in one of the classic controller.
DriveOf(d) == d[24] * gain + d[27]
PairDrive(d) == d[1] * gain + d[2]

PairsOf(rec, n) == [m \in 1 .. n |-> PairDrive(rec[m])]

\* The classic run that comes before n starts with m.
Leads(dec, n, m) == (\A j \in m .. n - 1 : dec[j] # 0) /\ (m > 1 => dec[m - 1] = 0)

FirstOf(dec, n) == CHOOSE m \in 1 .. n : Leads(dec, n, m)

DrivesFrom(rec, first, n) == [c \in 1 .. n - first |-> DriveOf(rec[first + c - 1])]
DrivesOf(rec, dec, n) == DrivesFrom(rec, FirstOf(dec, n), n)

\* The state of the FPGA's law that is to serve cycle n.
FpgaOf(rec, dec, n) == ClassicState(DrivesOf(rec, dec, n))

LEMMA FirstExists ==
    ASSUME NEW dec, NEW n \in Nat \ {0}
    PROVE  \E m \in 1 .. n : Leads(dec, n, m)
<1> DEFINE S == {k \in Nat : \E m \in 1 .. k + 1 : Leads(dec, k + 1, m)}
<1>1. 0 \in S
  <2>1. 1 \in 1 .. 0 + 1 /\ Leads(dec, 0 + 1, 1)
    BY DEF Leads
  <2> QED
    BY <2>1
<1>2. ASSUME NEW k \in Nat, k \in S PROVE k + 1 \in S
  <2>1. PICK m \in 1 .. k + 1 : Leads(dec, k + 1, m)
    BY <1>2
  <2>2. CASE dec[k + 1] = 0
    <3>1. k + 2 \in 1 .. (k + 1) + 1 /\ Leads(dec, (k + 1) + 1, k + 2)
      BY <2>2 DEF Leads
    <3> QED
      BY <3>1
  <2>3. CASE dec[k + 1] # 0
    <3>1. ASSUME NEW j \in m .. ((k + 1) + 1) - 1 PROVE dec[j] # 0
      <4>1. j = k + 1 \/ j \in m .. (k + 1) - 1
        OBVIOUS
      <4> QED
        BY <2>1, <2>3, <4>1 DEF Leads
    <3>2. m \in 1 .. (k + 1) + 1 /\ Leads(dec, (k + 1) + 1, m)
      BY <2>1, <3>1 DEF Leads
    <3> QED
      BY <3>2
  <2> QED
    BY <2>2, <2>3
<1>3. \A k \in Nat : k \in S
  <2> HIDE DEF S
  <2> QED
    BY <1>1, <1>2, Induction
<1>4. n - 1 \in Nat /\ (n - 1) + 1 = n
  OBVIOUS
<1> QED
  BY <1>3, <1>4

LEMMA FirstIs ==
    ASSUME NEW dec, NEW n \in Nat \ {0}, NEW m \in 1 .. n, Leads(dec, n, m)
    PROVE  FirstOf(dec, n) = m
<1>1. ASSUME NEW i \in 1 .. n, NEW j \in 1 .. n, Leads(dec, n, i), Leads(dec, n, j), i < j
      PROVE  FALSE
  <2>1. j > 1 /\ j - 1 \in i .. n - 1
    BY <1>1
  <2> QED
    BY <1>1, <2>1 DEF Leads
<1>2. FirstOf(dec, n) \in 1 .. n /\ Leads(dec, n, FirstOf(dec, n))
  BY DEF FirstOf
<1> DEFINE f == FirstOf(dec, n)
<1>3. f \in 1 .. n /\ Leads(dec, n, f)
  BY <1>2
<1> HIDE DEF f
<1>4. f = m \/ f < m \/ m < f
  BY <1>3
<1>5. f = m
  BY <1>1, <1>3, <1>4
<1> QED
  BY <1>5 DEF f

LEMMA FirstFound ==
    ASSUME NEW dec, NEW n \in Nat \ {0}
    PROVE  FirstOf(dec, n) \in 1 .. n /\ Leads(dec, n, FirstOf(dec, n))
BY FirstExists DEF FirstOf

\* What comes later does not matter.
LEMMA DrivesSame ==
    ASSUME NEW rec, NEW dec, NEW more, NEW choices, NEW n \in Nat \ {0},
           \A m \in 1 .. n - 1 : more[m] = rec[m] /\ choices[m] = dec[m]
    PROVE  DrivesOf(more, choices, n) = DrivesOf(rec, dec, n)
<1> DEFINE f == FirstOf(dec, n)
<1>1. f \in 1 .. n /\ Leads(dec, n, f)
  BY FirstFound
<1> HIDE DEF f
<1>2. Leads(choices, n, f)
  <2>1. ASSUME NEW j \in f .. n - 1 PROVE choices[j] # 0
    <3>1. j \in 1 .. n - 1
      BY <1>1
    <3> QED
      BY <1>1, <3>1 DEF Leads
  <2>2. ASSUME f > 1 PROVE choices[f - 1] = 0
    <3>1. f - 1 \in 1 .. n - 1
      BY <1>1, <2>2
    <3> QED
      BY <1>1, <2>2, <3>1 DEF Leads
  <2> QED
    BY <2>1, <2>2 DEF Leads
<1>3. FirstOf(choices, n) = f
  BY <1>1, <1>2, FirstIs
<1>4. ASSUME NEW c \in 1 .. n - f PROVE more[f + c - 1] = rec[f + c - 1]
  <2>1. f + c - 1 \in 1 .. n - 1
    BY <1>1
  <2> QED
    BY <2>1
<1>5. DrivesFrom(more, f, n) = DrivesFrom(rec, f, n)
  BY <1>4 DEF DrivesFrom
<1> QED
  BY <1>3, <1>5 DEF DrivesOf, f

LEMMA FpgaStart ==
    ASSUME NEW rec, NEW dec
    PROVE  FpgaOf(rec, dec, 1) = 0
<1>1. FirstOf(dec, 1) = 1
  BY FirstFound
<1> DEFINE ws == DrivesFrom(rec, 1, 1)
<1>2. ws \in [1 .. 0 -> Int]
  BY DEF DrivesFrom
<1> HIDE DEF ws
<1>3. ClassicState(ws) = 0
  BY <1>2, ClassicStateNothing
<1> QED
  BY <1>1, <1>3 DEF FpgaOf, DrivesOf, ws

\* The FPGA's state from cycle to cycle: carried on, or started anew after a
\* cycle that was not its own.
THEOREM FpgaNext ==
    ASSUME NEW rec, NEW dec, NEW n \in Nat \ {0}, \A m \in 1 .. n : DriveOf(rec[m]) \in Int
    PROVE  /\ FpgaOf(rec, dec, n) \in Int
           /\ dec[n] # 0 => FpgaOf(rec, dec, n + 1)
                            = Af * FpgaOf(rec, dec, n) + Bf * DriveOf(rec[n])
           /\ dec[n] = 0 => FpgaOf(rec, dec, n + 1) = 0
<1> DEFINE f == FirstOf(dec, n)
           k == n + 1
<1>1. f \in 1 .. n /\ Leads(dec, n, f)
  BY FirstFound
<1>2. k \in Nat \ {0} /\ k = n + 1 /\ k \in 1 .. k
  OBVIOUS
<1> HIDE DEF f, k
<1> DEFINE l == n - f
           us == DrivesFrom(rec, f, n)
           vs == DrivesFrom(rec, f, k)
<1>3. l \in Nat /\ us \in [1 .. l -> Int]
  <2>1. ASSUME NEW c \in 1 .. l PROVE DriveOf(rec[f + c - 1]) \in Int
    <3>1. f + c - 1 \in 1 .. n
      BY <1>1
    <3> QED
      BY <3>1
  <2> QED
    BY <1>1, <2>1 DEF DrivesFrom
<1>4. /\ vs \in [1 .. l + 1 -> Int] /\ \A m \in 1 .. l : vs[m] = us[m]
      /\ vs[l + 1] = DriveOf(rec[n])
  <2>1. ASSUME NEW c \in 1 .. l + 1 PROVE DriveOf(rec[f + c - 1]) \in Int
    <3>1. f + c - 1 \in 1 .. n
      BY <1>1
    <3> QED
      BY <3>1
  <2>2. k - f = l + 1 /\ f + (l + 1) - 1 = n /\ l + 1 \in 1 .. l + 1
    BY <1>1, <1>2
  <2> QED
    BY <1>3, <2>1, <2>2 DEF DrivesFrom
<1> HIDE DEF l, us, vs
<1>5. ClassicState(us) \in Int /\ ClassicState(vs) = Af * ClassicState(us) + Bf * vs[l + 1]
  BY <1>3, <1>4, ClassicStateNext
<1>6. FpgaOf(rec, dec, n) = ClassicState(us)
  BY DEF FpgaOf, DrivesOf, us, f
<1>7. ASSUME dec[n] # 0 PROVE FpgaOf(rec, dec, k) = ClassicState(vs)
  <2>1. ASSUME NEW j \in f .. k - 1 PROVE dec[j] # 0
    <3>1. j = n \/ j \in f .. n - 1
      BY <1>1, <1>2
    <3> QED
      BY <1>1, <1>7, <3>1 DEF Leads
  <2>2. f \in 1 .. k /\ Leads(dec, k, f)
    BY <1>1, <1>2, <2>1 DEF Leads
  <2>3. FirstOf(dec, k) = f
    BY <1>2, <2>2, FirstIs
  <2> QED
    BY <2>3 DEF FpgaOf, DrivesOf, vs
<1>8. ASSUME dec[n] = 0 PROVE FpgaOf(rec, dec, k) = 0
  <2>1. k - 1 = n /\ \A j \in k .. k - 1 : FALSE
    BY <1>2
  <2>2. Leads(dec, k, k)
    BY <1>8, <2>1 DEF Leads
  <2>3. FirstOf(dec, k) = k
    BY <1>2, <2>2, FirstIs
  <2> DEFINE ws == DrivesFrom(rec, k, k)
  <2>4. ws \in [1 .. 0 -> Int]
    BY <1>2 DEF DrivesFrom
  <2> HIDE DEF ws
  <2>5. ClassicState(ws) = 0
    BY <2>4, ClassicStateNothing
  <2> QED
    BY <2>3, <2>5 DEF FpgaOf, DrivesOf, ws
<1> QED
  BY <1>2, <1>4, <1>5, <1>6, <1>7, <1>8
\* The answers of the laws for cycle n, and what is due in a configuration.
Sought(law, rec, n) == ExtremumReference(law, HistoryOf(rec, n - 1), Seen(rec[n]))
Swapped(rec, dec, n) == Cf * FpgaOf(rec, dec, n) + Df * DriveOf(rec[n])
Paired(rec, n) == ClassicReference(PairsOf(rec, n - 1), PairDrive(rec[n]))

LawOf(change) == IF change = Variant THEN VSGAMExtremum_1khz ELSE VSGAMExtremum

Answer(name, law, rec, dec, n) ==
    CASE name \in {"VS_Control", "VS_Control_Print"} -> Paired(rec, n)
      [] name = "VSES_Control_noSwap" -> Sought(law, rec, n)
      [] OTHER -> IF dec[n] = 1 THEN Swapped(rec, dec, n) ELSE Sought(law, rec, n)

\* The run before n, and the drives received in it.
IsRun(cycles, dec, n) ==
    cycles = [c \in 1 .. n - FirstOf(dec, n) |-> FirstOf(dec, n) + c - 1]

DrivesBy(rec, cycles) ==
    [c \in DOMAIN cycles |-> rec[cycles[c]][24] * gain + rec[cycles[c]][27]]

LEMMA RunDrives ==
    ASSUME NEW rec, NEW dec, NEW n \in Nat \ {0}, NEW cycles, IsRun(cycles, dec, n)
    PROVE  DrivesBy(rec, cycles) = DrivesOf(rec, dec, n)
<1> DEFINE f == FirstOf(dec, n)
<1>1. cycles = [c \in 1 .. n - f |-> f + c - 1]
  BY DEF IsRun
<1> HIDE DEF f
<1>2. DrivesBy(rec, cycles) = DrivesFrom(rec, f, n)
  BY <1>1 DEF DrivesFrom, DriveOf, DrivesBy
<1> QED
  BY <1>2 DEF DrivesOf, f

LEMMA RunBeforeIs ==
    ASSUME NEW n
    PROVE  IsRun(RunBefore(n), decided, n) /\ IsRun(RunBefore(n)', decided', n)
BY DEF RunBefore, FirstOf, Leads, IsRun

LEMMA ExpectedIs ==
    ASSUME NEW n \in Nat \ {0}
    PROVE  /\ Expected(n) = Answer(file, LawOf(edit), received, decided, n)
           /\ Expected(n)' = Answer(file', LawOf(edit'), received', decided', n)
<1>1. /\ [c \in DOMAIN RunBefore(n) |-> received[RunBefore(n)[c]][24] * gain
                                        + received[RunBefore(n)[c]][27]]
         = DrivesOf(received, decided, n)
      /\ ([c \in DOMAIN RunBefore(n) |-> received[RunBefore(n)[c]][24] * gain
                                        + received[RunBefore(n)[c]][27]])'
         = DrivesOf(received', decided', n)
  <2> DEFINE a == RunBefore(n)
             b == RunBefore(n)'
  <2>1. IsRun(a, decided, n) /\ IsRun(b, decided', n)
    BY RunBeforeIs
  <2>2. DrivesBy(received, a) = DrivesOf(received, decided, n)
    BY <2>1, RunDrives
  <2>3. DrivesBy(received', b) = DrivesOf(received', decided', n)
    BY <2>1, RunDrives
  <2> QED
    BY <2>2, <2>3 DEF DrivesBy
<1>2. Expected(n) = Answer(file, LawOf(edit), received, decided, n)
  <2> DEFINE us == [m \in 1 .. n - 1 |-> Seen(received[m])]
             ps == [c \in DOMAIN [m \in 1 .. n - 1 |-> m] |->
                       received[[m \in 1 .. n - 1 |-> m][c]][1] * gain
                       + received[[m \in 1 .. n - 1 |-> m][c]][2]]
  <2>1. ExtremumReference(UsedLaw, us, Seen(received[n])) = Sought(LawOf(edit), received, n)
    BY DEF UsedLaw, LawOf, Sought, HistoryOf
  <2>2. ps = PairsOf(received, n - 1)
    BY DEF PairsOf, PairDrive
  <2>3. ClassicReference(ps, received[n][1] * gain + received[n][2]) = Paired(received, n)
    BY <2>2 DEF Paired, PairDrive
  <2>4. ClassicReference(DrivesOf(received, decided, n),
                         received[n][24] * gain + received[n][27])
        = Swapped(received, decided, n)
    BY DEF ClassicReference, Swapped, FpgaOf, DriveOf
  <2> QED
    BY <1>1, <2>1, <2>3, <2>4 DEF Expected, Answer
<1>3. Expected(n)' = Answer(file', LawOf(edit'), received', decided', n)
  <2> DEFINE us == [m \in 1 .. n - 1 |-> Seen(received'[m])]
             ps == [c \in DOMAIN [m \in 1 .. n - 1 |-> m] |->
                       received'[[m \in 1 .. n - 1 |-> m][c]][1] * gain
                       + received'[[m \in 1 .. n - 1 |-> m][c]][2]]
  <2>1. ExtremumReference(UsedLaw', us, Seen(received'[n]))
        = Sought(LawOf(edit'), received', n)
    BY DEF UsedLaw, LawOf, Sought, HistoryOf
  <2>2. ps = PairsOf(received', n - 1)
    BY DEF PairsOf, PairDrive
  <2>3. ClassicReference(ps, received'[n][1] * gain + received'[n][2])
        = Paired(received', n)
    BY <2>2 DEF Paired, PairDrive
  <2>4. ClassicReference(DrivesOf(received', decided', n),
                         received'[n][24] * gain + received'[n][27])
        = Swapped(received', decided', n)
    BY DEF ClassicReference, Swapped, FpgaOf, DriveOf
  <2> QED
    BY <1>1, <2>1, <2>3, <2>4 DEF Expected, Answer
<1> QED
  BY <1>2, <1>3
LEMMA DatagramValues ==
    ASSUME NEW d \in Datagrams
    PROVE  /\ Seen(d) \in InputVectors /\ DriveOf(d) \in Int /\ PairDrive(d) \in Int
           /\ \A p \in 1 .. 58 : d[p] \in Int
<1>1. \A p \in 1 .. 58 : d[p] \in Int
  BY DatagramsAssumption
<1>2. Seen(d) \in InputVectors
  BY <1>1 DEF Seen, InputVectors, Inputs
<1>3. DriveOf(d) \in Int /\ PairDrive(d) \in Int
  BY <1>1, GainsAssumption DEF DriveOf, PairDrive
<1> QED
  BY <1>1, <1>2, <1>3

LEMMA AnswerSame ==
    ASSUME NEW name, NEW law, NEW rec, NEW dec, NEW more, NEW choices, NEW n \in Nat \ {0},
           \A m \in 1 .. n : more[m] = rec[m] /\ choices[m] = dec[m]
    PROVE  Answer(name, law, more, choices, n) = Answer(name, law, rec, dec, n)
<1>1. HistoryOf(more, n - 1) = HistoryOf(rec, n - 1)
  BY DEF HistoryOf
<1>2. PairsOf(more, n - 1) = PairsOf(rec, n - 1)
  BY DEF PairsOf
<1>3. DrivesOf(more, choices, n) = DrivesOf(rec, dec, n)
  BY DrivesSame
<1>4. more[n] = rec[n] /\ choices[n] = dec[n]
  OBVIOUS
<1>5. Sought(law, more, n) = Sought(law, rec, n) /\ Paired(more, n) = Paired(rec, n)
  BY <1>1, <1>2, <1>4 DEF Sought, Paired
<1>6. Swapped(more, choices, n) = Swapped(rec, dec, n)
  BY <1>3, <1>4 DEF Swapped, FpgaOf
<1> QED
  BY <1>4, <1>5, <1>6 DEF Answer

\* Alone: the seeking configuration and the classic ones know no decisions.
LEMMA AnswerAlone ==
    ASSUME NEW law, NEW rec, NEW dec, NEW more, NEW choices, NEW n \in Nat \ {0},
           \A m \in 1 .. n : more[m] = rec[m]
    PROVE  /\ Sought(law, more, n) = Sought(law, rec, n) /\ Paired(more, n) = Paired(rec, n)
<1>1. HistoryOf(more, n - 1) = HistoryOf(rec, n - 1)
  BY DEF HistoryOf
<1>2. PairsOf(more, n - 1) = PairsOf(rec, n - 1)
  BY DEF PairsOf
<1> QED
  BY <1>1, <1>2 DEF Sought, Paired

\* The seeking GAM after n cycles.
SeekerAfter(law, rec, n) ==
    [state |-> StateAfter(law, HistoryOf(rec, n)), t |-> law.step * n]

LEMMA SeekerSame ==
    ASSUME NEW law, NEW rec, NEW more, NEW n \in Nat, \A m \in 1 .. n : more[m] = rec[m]
    PROVE  SeekerAfter(law, more, n) = SeekerAfter(law, rec, n)
<1>1. HistoryOf(more, n) = HistoryOf(rec, n)
  BY DEF HistoryOf
<1> QED
  BY <1>1 DEF SeekerAfter

LEMMA SeekerFresh ==
    ASSUME NEW law, IsLaw(law), law.step \in Int, NEW rec
    PROVE  SeekerAfter(law, rec, 0) = Fresh
<1> DEFINE us == HistoryOf(rec, 0)
<1>1. us \in [1 .. 0 -> InputVectors]
  BY DEF HistoryOf
<1> HIDE DEF us
<1>2. StateAfter(law, us) = [i \in States |-> 0]
  BY <1>1, StateAfterNothing
<1>3. law.step * 0 = 0
  OBVIOUS
<1> QED
  BY <1>2, <1>3 DEF SeekerAfter, Fresh, us

\* A cycle of the seeking GAM on the n-th datagram.
THEOREM Seeks ==
    ASSUME NEW law, IsLaw(law), law.step \in Int, NEW rec, NEW n \in Nat \ {0},
           \A m \in 1 .. n : rec[m] \in Datagrams, NEW in,
           FillInputs(in) = Seen(rec[n]), NEW e, e = SeekerAfter(law, rec, n - 1)
    PROVE  LET result == ExecuteLaw(law, e, in)
           IN  /\ result.vs3_ref = Sought(law, rec, n)
               /\ [state |-> result.state, t |-> result.t] = SeekerAfter(law, rec, n)
<1> DEFINE l == n - 1
           us == HistoryOf(rec, l)
           vs == HistoryOf(rec, n)
           u == Seen(rec[n])
           x == StateAfter(law, us)
<1>1. l \in Nat /\ l + 1 = n /\ n \in 1 .. n
  OBVIOUS
<1>2. \A m \in 1 .. n : Seen(rec[m]) \in InputVectors
  BY DatagramValues
<1>3. us \in [1 .. l -> InputVectors] /\ u \in InputVectors
  BY <1>1, <1>2 DEF HistoryOf
<1>4. /\ vs \in [1 .. l + 1 -> InputVectors] /\ \A m \in 1 .. l : vs[m] = us[m]
      /\ vs[l + 1] = u
  BY <1>1, <1>2 DEF HistoryOf
<1>5. e.state = x /\ e.t = law.step * l
  BY DEF SeekerAfter
<1>6. Sought(law, rec, n) = ExtremumReference(law, us, u)
  BY DEF Sought
<1>7. SeekerAfter(law, rec, n) = [state |-> StateAfter(law, vs), t |-> law.step * n]
  BY DEF SeekerAfter
<1>8. law.step * l + law.step = law.step * n
  BY <1>1
<1> HIDE DEF l, us, vs, u
<1>9. StateAfter(law, vs) = NextState(law, x, u)
  <2>1. StateAfter(law, vs) = NextState(law, x, vs[l + 1])
    BY <1>1, <1>3, <1>4, StateAfterNext
  <2> QED
    BY <1>4, <2>1
<1> HIDE DEF x
<1>10. Dither(law.step * l, Estimate(law, x, u)) = ExtremumReference(law, us, u)
  BY <1>1, <1>3, SeekingAnswers DEF x
<1> QED
  BY <1>5, <1>6, <1>7, <1>8, <1>9, <1>10 DEF ExecuteLaw, u

\* u is filled with the first values of the datagram when the pointers find
\* its signals.
Feeds(d, in) ==
    /\ in.pf_voltages = [j \in 0 .. 10 |-> d[j + 1]] /\ in.vs3 = d[12]
    /\ in.pf_currents = [j \in 0 .. 10 |-> d[j + 13]] /\ in.ivs3 = d[24]
    /\ in.ip = d[25] /\ in.zc = d[26]

LEMMA Filled ==
    ASSUME NEW d, NEW in, Feeds(d, in)
    PROVE  FillInputs(in) = Seen(d)
<1> DEFINE f == FillInputs(in)
<1>0. /\ in.pf_voltages = [j \in 0 .. 10 |-> d[j + 1]] /\ in.vs3 = d[12]
      /\ in.pf_currents = [j \in 0 .. 10 |-> d[j + 13]] /\ in.ivs3 = d[24]
      /\ in.ip = d[25] /\ in.zc = d[26]
  BY DEF Feeds
<1>1. ASSUME NEW j \in Inputs PROVE f[j] = d[j + 1]
  <2>1. CASE j < 11
    BY <1>0, <2>1 DEF Inputs, FillInputs
  <2>2. CASE j \in 12 .. 22
    <3>1. j - 12 \in 0 .. 10 /\ (j - 12) + 13 = j + 1
      BY <2>2
    <3>2. f[j] = in.pf_currents[j - 12]
      BY <2>2 DEF FillInputs
    <3> QED
      BY <1>0, <3>1, <3>2
  <2>3. CASE j \in {11, 23, 24, 25}
    BY <1>0, <2>3 DEF FillInputs
  <2> QED
    BY <2>1, <2>2, <2>3 DEF Inputs
<1>2. f = [j \in Inputs |-> f[j]]
  <2> DEFINE G(j) == CASE j < 11 -> in.pf_voltages[j]
                       [] j = 11 -> in.vs3
                       [] j \in 12 .. 22 -> in.pf_currents[j - 12]
                       [] j = 23 -> in.ivs3
                       [] j = 24 -> in.ip
                       [] j = 25 -> in.zc
  <2>1. f = [j \in Inputs |-> G(j)]
    BY Zenon DEF FillInputs
  <2> HIDE DEF f, G
  <2> QED
    BY <2>1
<1> HIDE DEF f
<1>3. f = Seen(d)
  BY <1>1, <1>2 DEF Seen
<1> QED
  BY <1>3 DEF f

\* A cycle of the classic GAM on the n-th pair.
LEMMA PairServed ==
    ASSUME NEW rec, NEW n \in Nat \ {0}, \A m \in 1 .. n : rec[m] \in Datagrams,
           NEW in, in.ivs3 = rec[n][1], in.zdot = rec[n][2],
           NEW x, x = ClassicState(PairsOf(rec, n - 1))
    PROVE  /\ ExecuteClassic(x, in).vs3_ref = Paired(rec, n)
           /\ ExecuteClassic(x, in).x_old = ClassicState(PairsOf(rec, n))
<1> DEFINE l == n - 1
           us == PairsOf(rec, l)
           vs == PairsOf(rec, n)
           w == PairDrive(rec[n])
<1>1. l \in Nat /\ l + 1 = n /\ n \in 1 .. n
  OBVIOUS
<1>2. \A m \in 1 .. n : PairDrive(rec[m]) \in Int
  BY DatagramValues
<1>3. /\ us \in [1 .. l -> Int] /\ vs \in [1 .. l + 1 -> Int]
      /\ \A m \in 1 .. l : vs[m] = us[m]
      /\ vs[l + 1] = w
  BY <1>1, <1>2 DEF PairsOf
<1>4. Drive(in) = w
  BY DEF Drive, PairDrive
<1>5. Paired(rec, n) = Cf * ClassicState(us) + Df * w
  BY DEF Paired, ClassicReference
<1> HIDE DEF l, us, vs, w
<1>6. ClassicState(vs) = Af * ClassicState(us) + Bf * vs[l + 1]
  BY <1>1, <1>3, ClassicStateNext
<1>7. x = ClassicState(us)
  BY DEF us, l
<1> QED
  BY <1>3, <1>4, <1>5, <1>6, <1>7 DEF ExecuteClassic, vs
-----------------------------------------------------------------------------
(***************************************************************************)
(* The pointers a GAM has once it is set up.                               *)
(***************************************************************************)
BindAt(places, gam, member) ==
    LET signals == Side(gam, member.side)
    IN  IF member.pos \in DOMAIN signals THEN places[signals[member.pos].name] ELSE -1

PointersOf(places, gam) ==
    [m \in {Members(gam.class)[p].name : p \in DOMAIN Members(gam.class)} |->
        BindAt(places, gam, CHOOSE member \in ToSet(Members(gam.class)) :
                                member.name = m)]

\* A member is named once.
NamesDiffer(members) ==
    \A p, q \in DOMAIN members : members[p].name = members[q].name => p = q

LEMMA PointersAt ==
    ASSUME NEW places, NEW gam, NamesDiffer(Members(gam.class))
    PROVE  \A p \in DOMAIN Members(gam.class) :
               PointersOf(places, gam)[Members(gam.class)[p].name]
               = BindAt(places, gam, Members(gam.class)[p])
<1> TAKE p \in DOMAIN Members(gam.class)
<1> DEFINE members == Members(gam.class)
           c == CHOOSE member \in ToSet(members) : member.name = members[p].name
<1>1. members[p] \in ToSet(members)
  BY DEF ToSet
<1>2. \A x \in ToSet(members) : x.name = members[p].name => x = members[p]
  BY DEF ToSet, NamesDiffer
<1>3. c = members[p]
  BY <1>1, <1>2
<1> HIDE DEF members
<1>4. PointersOf(places, gam)[members[p].name] = BindAt(places, gam, c)
  BY DEF PointersOf, members
<1> QED
  BY <1>3, <1>4 DEF members

LEMMA IncrementPointers ==
    ASSUME NEW places
    PROVE  LET pointers == PointersOf(places, GAMVSIncrement)
           IN  /\ pointers.oracleDecision = places["OracleDecision"]
               /\ pointers.inputCounter = places["InputCounter"]
               /\ pointers.marteStrategy = places["MarteStrategy"]
<1> DEFINE gam == GAMVSIncrement
           members == Members(gam.class)
<1>1. members = IncrementMembers
  BY DEF GAMVSIncrement, Gam, Members
<1>2. /\ DOMAIN members = 1 .. 4
      /\ members[1] = Member4("oracleDecision", "in", 1, "uint8", 1)
      /\ members[2] = Member4("inputCounter", "out", 1, "uint8", 1)
      /\ members[3] = Member4("marteStrategy", "out", 2, "uint8", 1)
      /\ members[4] = Member4("outputCounter", "out", 3, "uint8", 1)
  BY <1>1 DEF IncrementMembers
<1> HIDE DEF members
<1>3. \A p \in 1 .. 4 : \A q \in 1 .. 4 : members[p].name = members[q].name => p = q
  BY <1>2 DEF Member4
<1>4. \A p \in 1 .. 3 :
          PointersOf(places, gam)[members[p].name] = BindAt(places, gam, members[p])
  <2>1. NamesDiffer(Members(gam.class))
    BY <1>2, <1>3 DEF NamesDiffer, members
  <2> HIDE DEF gam
  <2>2. \A p \in DOMAIN Members(gam.class) :
            PointersOf(places, gam)[Members(gam.class)[p].name]
            = BindAt(places, gam, Members(gam.class)[p])
    BY ONLY <2>1, PointersAt
  <2>3. \A p \in DOMAIN members :
            PointersOf(places, gam)[members[p].name] = BindAt(places, gam, members[p])
    BY ONLY <2>2 DEF members
  <2> QED
    BY <1>2, <2>3
<1>5. /\ BindAt(places, gam, members[1]) = places["OracleDecision"]
      /\ BindAt(places, gam, members[2]) = places["InputCounter"]
      /\ BindAt(places, gam, members[3]) = places["MarteStrategy"]
  BY <1>2 DEF BindAt, Member4, Side, GAMVSIncrement, Gam, Uint8, Signal
<1>6. /\ members[1].name = "oracleDecision" /\ members[2].name = "inputCounter"
      /\ members[3].name = "marteStrategy"
  BY <1>2 DEF Member4
<1> QED
  BY <1>4, <1>5, <1>6

LEMMA SwapPointers ==
    ASSUME NEW places
    PROVE  LET pointers == PointersOf(places, GAMVSSwap)
           IN  /\ pointers.inputCounter = places["InputCounter"]
               /\ pointers.outputCounter = places["OutputCounter"]
               /\ pointers.marteStrategy = places["MarteStrategy"]
               /\ pointers.vs3es_ref = places["VS3ES_ref"]
               /\ pointers.vs3fpga_ref = places["VS3FPGA_ref"]
               /\ pointers.vs3_ref = places["VS3_ref"]
<1> DEFINE gam == GAMVSSwap
           members == Members(gam.class)
<1>1. members = SwapMembers
  BY DEF GAMVSSwap, Gam, Members
<1>2. /\ DOMAIN members = 1 .. 6
      /\ members[1] = Member4("inputCounter", "in", 1, "uint8", 1)
      /\ members[2] = Member4("outputCounter", "in", 2, "uint8", 1)
      /\ members[3] = Member4("marteStrategy", "in", 3, "uint8", 1)
      /\ members[4] = Member4("vs3es_ref", "in", 4, "float64", 1)
      /\ members[5] = Member4("vs3fpga_ref", "in", 5, "float64", 1)
      /\ members[6] = Member4("vs3_ref", "out", 1, "float64", 1)
  BY <1>1 DEF SwapMembers
<1> HIDE DEF members
<1>3. \A p \in 1 .. 6 : \A q \in 1 .. 6 : members[p].name = members[q].name => p = q
  BY <1>2 DEF Member4
<1>4. \A p \in 1 .. 6 :
          PointersOf(places, gam)[members[p].name] = BindAt(places, gam, members[p])
  <2>1. NamesDiffer(Members(gam.class))
    BY <1>2, <1>3 DEF NamesDiffer, members
  <2> HIDE DEF gam
  <2>2. \A p \in DOMAIN Members(gam.class) :
            PointersOf(places, gam)[Members(gam.class)[p].name]
            = BindAt(places, gam, Members(gam.class)[p])
    BY ONLY <2>1, PointersAt
  <2>3. \A p \in DOMAIN members :
            PointersOf(places, gam)[members[p].name] = BindAt(places, gam, members[p])
    BY ONLY <2>2 DEF members
  <2> QED
    BY <1>2, <2>3
<1>5. /\ BindAt(places, gam, members[1]) = places["InputCounter"]
      /\ BindAt(places, gam, members[2]) = places["OutputCounter"]
      /\ BindAt(places, gam, members[3]) = places["MarteStrategy"]
      /\ BindAt(places, gam, members[4]) = places["VS3ES_ref"]
      /\ BindAt(places, gam, members[5]) = places["VS3FPGA_ref"]
      /\ BindAt(places, gam, members[6]) = places["VS3_ref"]
  BY <1>2 DEF BindAt, Member4, Side, GAMVSSwap, Gam, Uint8, Float64, Signal
<1>6. /\ members[1].name = "inputCounter" /\ members[2].name = "outputCounter"
      /\ members[3].name = "marteStrategy" /\ members[4].name = "vs3es_ref"
      /\ members[5].name = "vs3fpga_ref" /\ members[6].name = "vs3_ref"
  BY <1>2 DEF Member4
<1> QED
  BY <1>4, <1>5, <1>6

LEMMA ClassicPointers ==
    ASSUME NEW places
    PROVE  LET pointers == PointersOf(places, GAMVSClassic)
           IN  /\ pointers.ivs3 = places["IVS3"] /\ pointers.zdot = places["ZDOT"]
               /\ pointers.vs3_ref = places["VS3_ref"]
<1> DEFINE gam == GAMVSClassic
           members == Members(gam.class)
<1>1. members = ClassicMembers
  BY DEF GAMVSClassic, Gam, Members
<1>2. /\ DOMAIN members = 1 .. 3
      /\ members[1] = Member4("ivs3", "in", 1, "float64", 1)
      /\ members[2] = Member4("zdot", "in", 2, "float64", 1)
      /\ members[3] = Member4("vs3_ref", "out", 1, "float64", 1)
  BY <1>1 DEF ClassicMembers
<1> HIDE DEF members
<1>3. \A p \in 1 .. 3 : \A q \in 1 .. 3 : members[p].name = members[q].name => p = q
  BY <1>2 DEF Member4
<1>4. \A p \in 1 .. 3 :
          PointersOf(places, gam)[members[p].name] = BindAt(places, gam, members[p])
  <2>1. NamesDiffer(Members(gam.class))
    BY <1>2, <1>3 DEF NamesDiffer, members
  <2> HIDE DEF gam
  <2>2. \A p \in DOMAIN Members(gam.class) :
            PointersOf(places, gam)[Members(gam.class)[p].name]
            = BindAt(places, gam, Members(gam.class)[p])
    BY ONLY <2>1, PointersAt
  <2>3. \A p \in DOMAIN members :
            PointersOf(places, gam)[members[p].name] = BindAt(places, gam, members[p])
    BY ONLY <2>2 DEF members
  <2> QED
    BY <1>2, <2>3
<1>5. /\ BindAt(places, gam, members[1]) = places["IVS3"]
      /\ BindAt(places, gam, members[2]) = places["ZDOT"]
      /\ BindAt(places, gam, members[3]) = places["VS3_ref"]
  BY <1>2 DEF BindAt, Member4, Side, GAMVSClassic, Gam, Float64, Signal
<1>6. /\ members[1].name = "ivs3" /\ members[2].name = "zdot"
      /\ members[3].name = "vs3_ref"
  BY <1>2 DEF Member4
<1> QED
  BY <1>4, <1>5, <1>6

\* A GAM of the seeking law, of either class.
Seeking(gam, output) ==
    /\ gam.class \in {"VSGAMExtremum", "VSGAMExtremum_1khz"}
    /\ gam.inputs = GAMVSExtremum(output).inputs
    /\ gam.outputs = GAMVSExtremum(output).outputs

LEMMA SeekingPointers ==
    ASSUME NEW places, NEW gam, NEW output, Seeking(gam, output)
    PROVE  LET pointers == PointersOf(places, gam)
           IN  /\ pointers.pf_voltages = places["PFvoltages"]
               /\ pointers.vs3 = places["VS3"]
               /\ pointers.pf_currents = places["PFcurrents"]
               /\ pointers.ivs3 = places["IVS3"] /\ pointers.ip = places["Ip"]
               /\ pointers.zc = places["Zc"] /\ pointers.vs3_ref = places[output]
<1> DEFINE members == Members(gam.class)
<1>1. members = ExtremumMembers
  BY DEF Seeking, Members
<1>2. /\ DOMAIN members = 1 .. 7
      /\ members[1] = Member4("pf_voltages", "in", 1, "float64", 11)
      /\ members[2] = Member4("vs3", "in", 2, "float64", 1)
      /\ members[3] = Member4("pf_currents", "in", 3, "float64", 11)
      /\ members[4] = Member4("ivs3", "in", 4, "float64", 1)
      /\ members[5] = Member4("ip", "in", 5, "float64", 1)
      /\ members[6] = Member4("zc", "in", 6, "float64", 1)
      /\ members[7] = Member4("vs3_ref", "out", 1, "float64", 1)
  BY <1>1 DEF ExtremumMembers
<1> HIDE DEF members
<1>3. \A p \in 1 .. 7 : \A q \in 1 .. 7 : members[p].name = members[q].name => p = q
  BY <1>2 DEF Member4
<1>4. \A p \in 1 .. 7 :
          PointersOf(places, gam)[members[p].name] = BindAt(places, gam, members[p])
  <2>1. NamesDiffer(Members(gam.class))
    BY <1>2, <1>3 DEF NamesDiffer, members
  <2>2. \A p \in DOMAIN Members(gam.class) :
            PointersOf(places, gam)[Members(gam.class)[p].name]
            = BindAt(places, gam, Members(gam.class)[p])
    BY ONLY <2>1, PointersAt
  <2>3. \A p \in DOMAIN members :
            PointersOf(places, gam)[members[p].name] = BindAt(places, gam, members[p])
    BY ONLY <2>2 DEF members
  <2> QED
    BY <1>2, <2>3
<1>5. /\ DOMAIN gam.inputs = 1 .. 6 /\ DOMAIN gam.outputs = 1 .. 1
      /\ gam.inputs[1].name = "PFvoltages" /\ gam.inputs[2].name = "VS3"
      /\ gam.inputs[3].name = "PFcurrents" /\ gam.inputs[4].name = "IVS3"
      /\ gam.inputs[5].name = "Ip" /\ gam.inputs[6].name = "Zc"
      /\ gam.outputs[1].name = output
  BY DEF Seeking, GAMVSExtremum, Gam, Array, Float64, Signal
<1>6. /\ BindAt(places, gam, members[1]) = places["PFvoltages"]
      /\ BindAt(places, gam, members[2]) = places["VS3"]
      /\ BindAt(places, gam, members[3]) = places["PFcurrents"]
      /\ BindAt(places, gam, members[4]) = places["IVS3"]
      /\ BindAt(places, gam, members[5]) = places["Ip"]
      /\ BindAt(places, gam, members[6]) = places["Zc"]
      /\ BindAt(places, gam, members[7]) = places[output]
  BY <1>2, <1>5 DEF BindAt, Member4, Side
<1>7. /\ members[1].name = "pf_voltages" /\ members[2].name = "vs3"
      /\ members[3].name = "pf_currents" /\ members[4].name = "ivs3"
      /\ members[5].name = "ip" /\ members[6].name = "zc" /\ members[7].name = "vs3_ref"
  BY <1>2 DEF Member4
<1> QED
  BY <1>4, <1>6, <1>7
-----------------------------------------------------------------------------
(***************************************************************************)
(* What a datagram puts into the page.                                     *)
(***************************************************************************)
BeforeBy(signals, f) ==
    f = [s \in DOMAIN signals |->
            IF s = 1 THEN 0 ELSE f[s - 1] + signals[s - 1].elements]

LEMMA BeforeSolves ==
    ASSUME NEW signals, NEW f, BeforeBy(signals, f)
    PROVE  BeforeBy(signals, Before(signals))
BY DEF BeforeBy, Before

\* The positions the signals of a datagram start after.
Positions == [s \in 1 .. 9 |-> <<0, 11, 12, 23, 24, 25, 26, 27, 56>>[s]]

Elements == [s \in 1 .. 9 |-> <<11, 1, 11, 1, 1, 1, 1, 29, 2>>[s]]

LEMMA DatagramElements ==
    /\ DOMAIN Datagram = 1 .. 9
    /\ \A s \in 1 .. 9 : Datagram[s].elements = Elements[s]
<1>1. DOMAIN Datagram = 1 .. 9
  BY DEF Datagram
<1>2. ASSUME NEW s \in 1 .. 9 PROVE Datagram[s].elements = Elements[s]
  BY DEF Datagram, Elements, Array, Float64, Signal
<1> QED
  BY <1>1, <1>2

LEMMA DatagramBefore == \A s \in 1 .. 9 : Before(Datagram)[s] = Positions[s]
<1> DEFINE b == Before(Datagram)
           d == Datagram
<1>1. DOMAIN d = 1 .. 9 /\ \A s \in 1 .. 9 : d[s].elements = Elements[s]
  BY DatagramElements
<1> HIDE DEF d
<1>2. ASSUME NEW s \in 2 .. 9
      PROVE  Positions[s] = Positions[s - 1] + Elements[s - 1]
  BY DEF Positions, Elements
<1>3. BeforeBy(d, Positions)
  <2>1. Positions[1] = 0 /\ Positions = [s \in 1 .. 9 |-> Positions[s]]
    BY DEF Positions
  <2>2. ASSUME NEW s \in 1 .. 9
        PROVE  Positions[s] = IF s = 1 THEN 0 ELSE Positions[s - 1] + d[s - 1].elements
    <3>1. CASE s # 1
      <4>1. s \in 2 .. 9 /\ s - 1 \in 1 .. 9
        BY <3>1
      <4> QED
        BY <1>1, <1>2, <3>1, <4>1
    <3> QED
      BY <2>1, <3>1
  <2> QED
    BY <1>1, <2>1, <2>2 DEF BeforeBy
<1>4. BeforeBy(d, b)
  BY <1>3, BeforeSolves DEF d
<1> HIDE DEF b
<1>5. b[1] = 0
  BY <1>1, <1>4 DEF BeforeBy
<1>6. ASSUME NEW s \in 2 .. 9 PROVE b[s] = b[s - 1] + Elements[s - 1]
  <2>1. s \in 1 .. 9 /\ s # 1 /\ s - 1 \in 1 .. 9
    OBVIOUS
  <2> QED
    BY <1>1, <1>4, <2>1 DEF BeforeBy
<1>7. b[2] = 11 /\ b[3] = 12 /\ b[4] = 23 /\ b[5] = 24
  BY <1>5, <1>6 DEF Elements
<1>8. b[6] = 25 /\ b[7] = 26 /\ b[8] = 27 /\ b[9] = 56
  BY <1>6, <1>7 DEF Elements
<1> QED
  BY <1>5, <1>7, <1>8 DEF Positions, b

PairSignals == <<Float64("IVS3"), Float64("ZDOT")>>

LEMMA PairBefore ==
    /\ DOMAIN PairSignals = 1 .. 2
    /\ PairSignals[1].elements = 1 /\ PairSignals[2].elements = 1
    /\ Before(PairSignals)[1] = 0 /\ Before(PairSignals)[2] = 1
<1> DEFINE b == Before(PairSignals)
           d == PairSignals
           f == [s \in 1 .. 2 |-> <<0, 1>>[s]]
<1>1. DOMAIN d = 1 .. 2 /\ d[1].elements = 1 /\ d[2].elements = 1
  BY DEF PairSignals, Float64, Signal
<1> HIDE DEF d
<1>2. BeforeBy(d, f)
  <2>1. ASSUME NEW s \in 1 .. 2
        PROVE  <<0, 1>>[s] = IF s = 1 THEN 0 ELSE f[s - 1] + d[s - 1].elements
    <3>1. CASE s = 2
      <4>1. s - 1 = 1
        BY <3>1
      <4> QED
        BY <1>1, <3>1, <4>1
    <3> QED
      BY <3>1
  <2> QED
    BY <1>1, <2>1 DEF BeforeBy
<1>3. BeforeBy(d, b)
  BY <1>2, BeforeSolves DEF d
<1> HIDE DEF b
<1>4. b[1] = 0
  BY <1>1, <1>3 DEF BeforeBy
<1>5. b[2] = b[1] + d[1].elements
  <2>1. 2 \in 1 .. 2 /\ 2 # 1 /\ 2 - 1 = 1
    OBVIOUS
  <2> QED
    BY <1>1, <1>3, <2>1 DEF BeforeBy
<1>6. b[1] = 0 /\ b[2] = 1
  BY <1>1, <1>4, <1>5
<1> QED
  BY <1>1, <1>6 DEF b, d

\* Each signal finds its elements, where no other signal is put there.
Apart(signals, places) ==
    \A s \in DOMAIN signals : \A t \in DOMAIN signals :
        places[signals[s].name] = places[signals[t].name] => s = t

\* The page with the signals of a datagram.
Filling(pages, places, signals, d) ==
    [a \in DOMAIN pages |->
        IF \E n \in {s.name : s \in ToSet(signals)} : places[n] = a
        THEN LET s == CHOOSE s \in DOMAIN signals : places[signals[s].name] = a
             IN  [j \in 0 .. signals[s].elements - 1 |-> d[Before(signals)[s] + j + 1]]
        ELSE pages[a]]

\* n values of a datagram.
Slice(d, before, n) == [j \in 0 .. n - 1 |-> d[before + j + 1]]

LEMMA FillingAt ==
    ASSUME NEW pages, NEW places, NEW signals, NEW d, Apart(signals, places),
           NEW s \in DOMAIN signals, places[signals[s].name] \in DOMAIN pages
    PROVE  Filling(pages, places, signals, d)[places[signals[s].name]]
           = Slice(d, Before(signals)[s], signals[s].elements)
<1> DEFINE a == places[signals[s].name]
           c == CHOOSE t \in DOMAIN signals : places[signals[t].name] = a
<1>1. c = s
  BY DEF Apart
<1>2. \E n \in {t.name : t \in ToSet(signals)} : places[n] = a
  BY DEF ToSet
<1>3. Filling(pages, places, signals, d)[a]
      = Slice(d, Before(signals)[c], signals[c].elements)
  BY <1>2 DEF Filling, Slice
<1> HIDE DEF c
<1> QED
  BY <1>1, <1>3

LEMMA FillingElsewhere ==
    ASSUME NEW pages, NEW places, NEW signals, NEW d, NEW a \in DOMAIN pages,
           \A s \in DOMAIN signals : places[signals[s].name] # a
    PROVE  Filling(pages, places, signals, d)[a] = pages[a]
BY DEF Filling, ToSet

\* The values of a datagram lie in the page as struct shared_page has them.
OnPage(pages, d) ==
    /\ pages[0] = [j \in 0 .. 10 |-> d[j + 1]] /\ pages[88][0] = d[12]
    /\ pages[96] = [j \in 0 .. 10 |-> d[j + 13]] /\ pages[184][0] = d[24]
    /\ pages[192][0] = d[25] /\ pages[200][0] = d[26] /\ pages[208][0] = d[27]

Addresses == [s \in 1 .. 9 |-> <<0, 88, 96, 184, 192, 200, 208, 216, 448>>[s]]
DatagramAddresses == {0, 88, 96, 184, 192, 200, 208, 216, 448}

LEMMA DatagramPlaced ==
    ASSUME NEW places, DatagramPlaces(places)
    PROVE  /\ \A s \in 1 .. 9 : places[Datagram[s].name] = Addresses[s]
           /\ Apart(Datagram, places)
<1>1. ASSUME NEW s \in 1 .. 9 PROVE places[Datagram[s].name] = Addresses[s]
  <2>1. CASE s \in 1 .. 5
    BY <2>1 DEF Datagram, Array, Float64, Signal, DatagramPlaces, Addresses
  <2>2. CASE s \in 6 .. 9
    BY <2>2 DEF Datagram, Array, Float64, Signal, DatagramPlaces, Addresses
  <2> QED
    BY <2>1, <2>2
<1>2. \A s \in 1 .. 9 : \A t \in 1 .. 9 : Addresses[s] = Addresses[t] => s = t
  BY DEF Addresses
<1>3. DOMAIN Datagram = 1 .. 9
  BY DatagramElements
<1> QED
  BY <1>1, <1>2, <1>3 DEF Apart

LEMMA AddressesAre == {Addresses[s] : s \in 1 .. 9} = DatagramAddresses
<1>1. /\ Addresses[1] = 0 /\ Addresses[2] = 88 /\ Addresses[3] = 96 /\ Addresses[4] = 184
      /\ Addresses[5] = 192 /\ Addresses[6] = 200 /\ Addresses[7] = 208
      /\ Addresses[8] = 216 /\ Addresses[9] = 448
  BY DEF Addresses
<1>2. ASSUME NEW s \in 1 .. 9 PROVE Addresses[s] \in DatagramAddresses
  BY DEF Addresses, DatagramAddresses
<1>3. ASSUME NEW a \in DatagramAddresses PROVE \E s \in 1 .. 9 : Addresses[s] = a
  <2>1. CASE a \in {0, 88, 96, 184, 192}
    BY <1>1, <2>1
  <2>2. CASE a \in {200, 208, 216, 448}
    BY <1>1, <2>2
  <2> QED
    BY <2>1, <2>2 DEF DatagramAddresses
<1> QED
  BY <1>2, <1>3

LEMMA DatagramFills ==
    ASSUME NEW pages, NEW places, NEW d, DatagramPlaces(places),
           DatagramAddresses \subseteq DOMAIN pages
    PROVE  /\ DOMAIN Filling(pages, places, Datagram, d) = DOMAIN pages
           /\ OnPage(Filling(pages, places, Datagram, d), d)
           /\ \A a \in DOMAIN pages : a \notin DatagramAddresses =>
                  Filling(pages, places, Datagram, d)[a] = pages[a]
<1> DEFINE p == Filling(pages, places, Datagram, d)
           e == Datagram
<1>1. DOMAIN p = DOMAIN pages
  BY DEF Filling
<1>2. /\ \A s \in 1 .. 9 : places[e[s].name] = Addresses[s]
      /\ Apart(e, places) /\ DOMAIN e = 1 .. 9
      /\ \A s \in 1 .. 9 : e[s].elements = Elements[s] /\ Before(e)[s] = Positions[s]
  BY DatagramPlaced, DatagramElements, DatagramBefore
<1>3. \A s \in 1 .. 9 : Addresses[s] \in DOMAIN pages
  BY AddressesAre
<1>4. ASSUME NEW s \in 1 .. 9
      PROVE  p[Addresses[s]] = Slice(d, Positions[s], Elements[s])
  <2> HIDE DEF e
  <2>1. s \in DOMAIN e /\ places[e[s].name] = Addresses[s] /\ Addresses[s] \in DOMAIN pages
    BY <1>2, <1>3
  <2>2. Filling(pages, places, e, d)[places[e[s].name]]
        = Slice(d, Before(e)[s], e[s].elements)
    BY <1>2, <2>1, FillingAt
  <2>3. e[s].elements = Elements[s] /\ Before(e)[s] = Positions[s]
    BY <1>2
  <2> QED
    BY <2>1, <2>2, <2>3 DEF e
<1>5. ASSUME NEW a \in DOMAIN pages, a \notin DatagramAddresses PROVE p[a] = pages[a]
  <2>1. \A s \in DOMAIN e : places[e[s].name] # a
    BY <1>2, <1>5, AddressesAre
  <2> QED
    BY <2>1, FillingElsewhere
<1> HIDE DEF p, e
<1>6. \A s \in 1 .. 7 : p[Addresses[s]] = Slice(d, Positions[s], Elements[s])
  BY <1>4
<1>7. /\ p[0] = Slice(d, 0, 11) /\ p[88] = Slice(d, 11, 1) /\ p[96] = Slice(d, 12, 11)
      /\ p[184] = Slice(d, 23, 1) /\ p[192] = Slice(d, 24, 1) /\ p[200] = Slice(d, 25, 1)
      /\ p[208] = Slice(d, 26, 1)
  <2>1. /\ Addresses[1] = 0 /\ Addresses[2] = 88 /\ Addresses[3] = 96
        /\ Addresses[4] = 184 /\ Addresses[5] = 192 /\ Addresses[6] = 200
        /\ Addresses[7] = 208
    BY DEF Addresses
  <2>2. /\ Positions[1] = 0 /\ Positions[2] = 11 /\ Positions[3] = 12
        /\ Positions[4] = 23 /\ Positions[5] = 24 /\ Positions[6] = 25
        /\ Positions[7] = 26
    BY DEF Positions
  <2>3. /\ Elements[1] = 11 /\ Elements[2] = 1 /\ Elements[3] = 11 /\ Elements[4] = 1
        /\ Elements[5] = 1 /\ Elements[6] = 1 /\ Elements[7] = 1
    BY DEF Elements
  <2>4. /\ p[Addresses[1]] = Slice(d, Positions[1], Elements[1])
        /\ p[Addresses[2]] = Slice(d, Positions[2], Elements[2])
        /\ p[Addresses[3]] = Slice(d, Positions[3], Elements[3])
        /\ p[Addresses[4]] = Slice(d, Positions[4], Elements[4])
        /\ p[Addresses[5]] = Slice(d, Positions[5], Elements[5])
        /\ p[Addresses[6]] = Slice(d, Positions[6], Elements[6])
        /\ p[Addresses[7]] = Slice(d, Positions[7], Elements[7])
    BY <1>6
  <2> QED
    BY <2>1, <2>2, <2>3, <2>4
<1>8. OnPage(p, d)
  <2>1. p[0] = [j \in 0 .. 10 |-> d[j + 1]]
    BY <1>7 DEF Slice
  <2>2. p[96] = [j \in 0 .. 10 |-> d[j + 13]]
    <3>1. \A j \in 0 .. 10 : 12 + j + 1 = j + 13
      OBVIOUS
    <3> QED
      BY <1>7, <3>1 DEF Slice
  <2>3. p[88][0] = d[12] /\ p[184][0] = d[24] /\ p[192][0] = d[25]
    BY <1>7 DEF Slice
  <2>4. p[200][0] = d[26] /\ p[208][0] = d[27]
    BY <1>7 DEF Slice
  <2> QED
    BY <2>1, <2>2, <2>3, <2>4 DEF OnPage
<1> QED
  BY <1>1, <1>5, <1>8 DEF p, e

\* A pair in the page of the classic controller.
LEMMA PairFills ==
    ASSUME NEW pages, NEW places, NEW d, ClassicPlaces(places), {0, 8} \subseteq DOMAIN pages
    PROVE  /\ DOMAIN Filling(pages, places, PairSignals, d) = DOMAIN pages
           /\ Filling(pages, places, PairSignals, d)[0][0] = d[1]
           /\ Filling(pages, places, PairSignals, d)[8][0] = d[2]
<1> DEFINE p == Filling(pages, places, PairSignals, d)
           e == PairSignals
<1>1. DOMAIN p = DOMAIN pages
  BY DEF Filling
<1>2. e[1].name = "IVS3" /\ e[2].name = "ZDOT"
  BY DEF PairSignals, Float64, Signal
<1>3. /\ DOMAIN e = 1 .. 2 /\ e[1].elements = 1 /\ e[2].elements = 1
      /\ Before(e)[1] = 0 /\ Before(e)[2] = 1
  BY PairBefore
<1>4. places[e[1].name] = 0 /\ places[e[2].name] = 8
  BY <1>2 DEF ClassicPlaces
<1> HIDE DEF e
<1>5. Apart(e, places)
  BY <1>3, <1>4 DEF Apart
<1>6. ASSUME NEW s \in 1 .. 2
      PROVE  p[places[e[s].name]] = Slice(d, Before(e)[s], e[s].elements)
  <2>1. s \in DOMAIN e /\ places[e[s].name] \in DOMAIN pages
    BY <1>3, <1>4
  <2>2. Filling(pages, places, e, d)[places[e[s].name]]
        = Slice(d, Before(e)[s], e[s].elements)
    BY <1>5, <2>1, FillingAt
  <2> QED
    BY <2>2 DEF e
<1>7. p[0] = Slice(d, 0, 1) /\ p[8] = Slice(d, 1, 1)
  BY <1>3, <1>4, <1>6
<1> HIDE DEF p
<1>8. p[0][0] = d[1] /\ p[8][0] = d[2]
  BY <1>7 DEF Slice
<1> QED
  BY <1>1, <1>8 DEF p, e
-----------------------------------------------------------------------------
(***************************************************************************)
(* The GAMs of the configurations of the repository, in their order.       *)
(***************************************************************************)
LawClass(change) == IF change = Variant THEN "VSGAMExtremum_1khz" ELSE "VSGAMExtremum"

LEMMA ListedSame ==
    ASSUME NEW functions \in GamLists, NEW change \in {NoEdit, Variant}
    PROVE  LET F == Apply(change, functions)
           IN  /\ Len(F) = Len(functions) /\ DOMAIN F = 1 .. Len(functions)
               /\ \A g \in 1 .. Len(functions) :
                      /\ functions[g].class # "VSGAMExtremum" => F[g] = functions[g]
                      /\ functions[g].class = "VSGAMExtremum" =>
                             /\ F[g].class = LawClass(change)
                             /\ F[g].inputs = functions[g].inputs
                             /\ F[g].outputs = functions[g].outputs
<1> DEFINE F == Apply(change, functions)
           n == Len(functions)
<1>1. functions \in Seq(Gams) /\ n \in Nat /\ DOMAIN functions = 1 .. n
  BY DEF GamLists
<1>2. CASE change = NoEdit
  <2>1. F = functions
    BY <1>2 DEF NoEdit, Apply
  <2>2. LawClass(change) = "VSGAMExtremum"
    BY <1>2 DEF LawClass, NoEdit, Variant
  <2> QED
    BY <1>1, <2>1, <2>2
<1>3. CASE change = Variant
  <2>1. F = [g \in DOMAIN functions |->
                IF functions[g].class = "VSGAMExtremum"
                THEN [functions[g] EXCEPT !.class = "VSGAMExtremum_1khz"]
                ELSE functions[g]]
    BY <1>3 DEF Variant, Apply
  <2>2. LawClass(change) = "VSGAMExtremum_1khz"
    BY <1>3 DEF LawClass
  <2>3. Len(F) = n /\ DOMAIN F = 1 .. n
    BY <1>1, <2>1
  <2>4. ASSUME NEW g \in 1 .. n
        PROVE  /\ functions[g].class # "VSGAMExtremum" => F[g] = functions[g]
               /\ functions[g].class = "VSGAMExtremum" =>
                      /\ F[g].class = "VSGAMExtremum_1khz"
                      /\ F[g].inputs = functions[g].inputs
                      /\ F[g].outputs = functions[g].outputs
    <3>1. functions[g] \in Gams
      BY <1>1
    <3> QED
      BY <1>1, <2>1, <3>1 DEF Gams, GamsIn
  <2> QED
    BY <2>2, <2>3, <2>4
<1> QED
  BY <1>2, <1>3

\* The controllers that swap, the one that seeks alone, and the classic ones:
\* behind a timer, all follow one place later.
ControlGams(list, change) ==
    /\ Len(list) \in {5, 6} /\ DOMAIN list = 1 .. Len(list)
    /\ list[1] = GAMUDPReceiver(Datagram) /\ list[2] = GAMVSIncrement
    /\ Seeking(list[3], "VS3ES_ref") /\ list[3].class = LawClass(change)
    /\ list[4] = GAMVSSwap /\ list[5] = GAMUDPSender
    /\ Len(list) = 6 => list[6] = GAMWriteFile

NoSwapGams(list, change) ==
    /\ Len(list) = 3 /\ DOMAIN list = 1 .. 3
    /\ list[1] = GAMUDPReceiver(Datagram)
    /\ Seeking(list[2], "VS3_ref") /\ list[2].class = LawClass(change)
    /\ list[3] = GAMUDPSender

ClassicGams(list, o) ==
    /\ Len(list) = 3 + o /\ DOMAIN list = 1 .. 3 + o
    /\ o = 1 => list[1] = GAMTimer
    /\ list[1 + o] = ClassicReceiver /\ list[2 + o] = GAMVSClassic
    /\ list[3 + o] = GAMUDPSender

\* A list with one more at its end.
LEMMA Appended ==
    ASSUME NEW S, NEW s \in Seq(S), NEW e \in S
    PROVE  /\ Append(s, e) \in Seq(S) /\ Len(Append(s, e)) = Len(s) + 1
           /\ Append(s, e)[Len(s) + 1] = e
           /\ \A i \in 1 .. Len(s) : Append(s, e)[i] = s[i]
OBVIOUS

LEMMA ControlListed ==
    ASSUME NEW functions \in {VSES_Control, VSES_Control_Write},
           NEW change \in {NoEdit, Variant}
    PROVE  ControlGams(Apply(change, functions), change)
<1> DEFINE F == Apply(change, functions)
           n == Len(functions)
<1>1. functions \in GamLists
  BY ConfigurationType DEF Configuration
<1>2. /\ n \in {5, 6}
      /\ functions[1] = GAMUDPReceiver(Datagram) /\ functions[2] = GAMVSIncrement
      /\ functions[3] = GAMVSExtremum("VS3ES_ref") /\ functions[4] = GAMVSSwap
      /\ functions[5] = GAMUDPSender
      /\ n = 6 => functions[6] = GAMWriteFile
  <2>1. CASE functions = VSES_Control
    BY <2>1 DEF VSES_Control
  <2>2. CASE functions = VSES_Control_Write
    <3>1. VSES_Control \in Seq(Gams) /\ Len(VSES_Control) = 5
      BY ConfigurationType DEF Configuration, VSES_Control, GamLists
    <3>2. GAMWriteFile \in Gams
      BY WriteFileType
    <3>3. /\ Len(functions) = 6 /\ functions[6] = GAMWriteFile
          /\ \A g \in 1 .. 5 : functions[g] = VSES_Control[g]
      <4> DEFINE e == GAMWriteFile
                 f == VSES_Control
      <4>1. functions = Append(f, e) /\ f \in Seq(Gams) /\ e \in Gams /\ Len(f) = 5
        BY <2>2, <3>1, <3>2 DEF VSES_Control_Write
      <4> HIDE DEF e, f
      <4>2. /\ Len(functions) = 6 /\ functions[6] = e
            /\ \A g \in 1 .. 5 : functions[g] = f[g]
        <5>1. f \in Seq(Gams) /\ e \in Gams
          BY <4>1
        <5>2. /\ Len(Append(f, e)) = Len(f) + 1 /\ Append(f, e)[Len(f) + 1] = e
              /\ \A g \in 1 .. Len(f) : Append(f, e)[g] = f[g]
          BY <5>1, Appended
        <5> QED
          BY <4>1, <5>2
      <4> QED
        BY <4>2 DEF e, f
    <3>4. /\ VSES_Control[1] = GAMUDPReceiver(Datagram)
          /\ VSES_Control[2] = GAMVSIncrement
          /\ VSES_Control[3] = GAMVSExtremum("VS3ES_ref")
          /\ VSES_Control[4] = GAMVSSwap /\ VSES_Control[5] = GAMUDPSender
      BY DEF VSES_Control
    <3> QED
      BY <3>3, <3>4
  <2> QED
    BY <2>1, <2>2
<1>3. /\ Len(F) = n /\ DOMAIN F = 1 .. n
      /\ \A g \in 1 .. n :
             /\ functions[g].class # "VSGAMExtremum" => F[g] = functions[g]
             /\ functions[g].class = "VSGAMExtremum" =>
                    /\ F[g].class = LawClass(change)
                    /\ F[g].inputs = functions[g].inputs
                    /\ F[g].outputs = functions[g].outputs
  BY <1>1, ListedSame
<1> HIDE DEF F, n
<1>4. /\ GAMUDPReceiver(Datagram).class # "VSGAMExtremum"
      /\ GAMVSIncrement.class # "VSGAMExtremum"
      /\ GAMVSExtremum("VS3ES_ref").class = "VSGAMExtremum"
      /\ GAMVSSwap.class # "VSGAMExtremum" /\ GAMUDPSender.class # "VSGAMExtremum"
      /\ GAMWriteFile.class # "VSGAMExtremum"
  BY DEF GAMUDPReceiver, GAMVSIncrement, GAMVSExtremum, GAMVSSwap, GAMUDPSender,
         GAMWriteFile, Gam
<1>5. /\ F[1] = GAMUDPReceiver(Datagram) /\ F[2] = GAMVSIncrement /\ F[4] = GAMVSSwap
      /\ F[5] = GAMUDPSender /\ (n = 6 => F[6] = GAMWriteFile)
  BY <1>2, <1>3, <1>4
<1>6. /\ F[3].class = LawClass(change)
      /\ F[3].inputs = GAMVSExtremum("VS3ES_ref").inputs
      /\ F[3].outputs = GAMVSExtremum("VS3ES_ref").outputs
  BY <1>2, <1>3, <1>4
<1> QED
  BY <1>2, <1>3, <1>5, <1>6 DEF ControlGams, Seeking, LawClass, F

LEMMA NoSwapListed ==
    ASSUME NEW change \in {NoEdit, Variant}
    PROVE  NoSwapGams(Apply(change, VSES_Control_noSwap), change)
<1> DEFINE functions == VSES_Control_noSwap
           F == Apply(change, functions)
<1>1. functions \in GamLists
  BY ConfigurationType DEF Configuration
<1>2. /\ Len(functions) = 3
      /\ functions[1] = GAMUDPReceiver(Datagram)
      /\ functions[2] = GAMVSExtremum("VS3_ref") /\ functions[3] = GAMUDPSender
  BY DEF VSES_Control_noSwap
<1>3. /\ Len(F) = Len(functions) /\ DOMAIN F = 1 .. Len(functions)
      /\ \A g \in 1 .. Len(functions) :
             /\ functions[g].class # "VSGAMExtremum" => F[g] = functions[g]
             /\ functions[g].class = "VSGAMExtremum" =>
                    /\ F[g].class = LawClass(change)
                    /\ F[g].inputs = functions[g].inputs
                    /\ F[g].outputs = functions[g].outputs
  BY <1>1, ListedSame
<1> HIDE DEF F, functions
<1>4. /\ GAMUDPReceiver(Datagram).class # "VSGAMExtremum"
      /\ GAMVSExtremum("VS3_ref").class = "VSGAMExtremum"
      /\ GAMUDPSender.class # "VSGAMExtremum"
  BY DEF GAMUDPReceiver, GAMVSExtremum, GAMUDPSender, Gam
<1>5. F[1] = GAMUDPReceiver(Datagram) /\ F[3] = GAMUDPSender
  BY <1>2, <1>3, <1>4
<1>6. /\ F[2].class = LawClass(change)
      /\ F[2].inputs = GAMVSExtremum("VS3_ref").inputs
      /\ F[2].outputs = GAMVSExtremum("VS3_ref").outputs
  BY <1>2, <1>3, <1>4
<1> QED
  BY <1>2, <1>3, <1>5, <1>6 DEF NoSwapGams, Seeking, LawClass, F, functions

LEMMA ClassicListed ==
    ASSUME NEW change \in {NoEdit, Variant}
    PROVE  /\ ClassicGams(Apply(change, VS_Control), 0)
           /\ ClassicGams(Apply(change, VS_Control_Print), 1)
<1>1. VS_Control \in GamLists /\ VS_Control_Print \in GamLists
  BY ConfigurationType DEF Configuration
<1>2. /\ GAMTimer.class # "VSGAMExtremum" /\ ClassicReceiver.class # "VSGAMExtremum"
      /\ GAMVSClassic.class # "VSGAMExtremum" /\ GAMUDPSender.class # "VSGAMExtremum"
  BY DEF GAMTimer, ClassicReceiver, GAMUDPReceiver, GAMVSClassic, GAMUDPSender, Gam
<1>3. ClassicGams(Apply(change, VS_Control), 0)
  <2> DEFINE functions == VS_Control
             F == Apply(change, functions)
  <2>1. /\ Len(functions) = 3 /\ functions[1] = ClassicReceiver
        /\ functions[2] = GAMVSClassic /\ functions[3] = GAMUDPSender
    BY DEF VS_Control
  <2>2. /\ Len(F) = Len(functions) /\ DOMAIN F = 1 .. Len(functions)
        /\ \A g \in 1 .. Len(functions) :
               functions[g].class # "VSGAMExtremum" => F[g] = functions[g]
    BY <1>1, ListedSame
  <2> HIDE DEF F, functions
  <2>3. F[1] = ClassicReceiver /\ F[2] = GAMVSClassic /\ F[3] = GAMUDPSender
    BY <1>2, <2>1, <2>2
  <2> QED
    BY <2>1, <2>2, <2>3 DEF ClassicGams, F, functions
<1>4. ClassicGams(Apply(change, VS_Control_Print), 1)
  <2> DEFINE functions == VS_Control_Print
             F == Apply(change, functions)
  <2>1. /\ Len(functions) = 4 /\ functions[1] = GAMTimer /\ functions[2] = ClassicReceiver
        /\ functions[3] = GAMVSClassic /\ functions[4] = GAMUDPSender
    BY DEF VS_Control_Print, VS_Control
  <2>2. /\ Len(F) = Len(functions) /\ DOMAIN F = 1 .. Len(functions)
        /\ \A g \in 1 .. Len(functions) :
               functions[g].class # "VSGAMExtremum" => F[g] = functions[g]
    BY <1>1, ListedSame
  <2> HIDE DEF F, functions
  <2>3. /\ F[1] = GAMTimer /\ F[2] = ClassicReceiver /\ F[3] = GAMVSClassic
        /\ F[4] = GAMUDPSender
    BY <1>2, <2>1, <2>2
  <2> QED
    BY <2>1, <2>2, <2>3 DEF ClassicGams, F, functions
<1> QED
  BY <1>3, <1>4
-----------------------------------------------------------------------------
(***************************************************************************)
(* Configurations of the repository, set up: the pointers are bound, and   *)
(* nothing else has happened.                                              *)
(***************************************************************************)
Ready ==
    /\ Chosen /\ Unspoilt /\ at \in DOMAIN gams /\ DOMAIN bound = DOMAIN gams
    /\ \A g \in DOMAIN gams :
           stage = "run" \/ (stage = "setup" /\ g < at) =>
               bound[g] = PointersOf(layout, gams[g])

\* What a cycle works on.
cycleVars == <<page, counter, es, x_old, inner_counter, fpga_x, written, stale,
               received, decided, sent>>

\* The GAM in turn; the first one's turn comes when the thread starts.
Turned == IF stage = "run" THEN at ELSE 1

Going == stage \in {"initialise", "setup", "run"}

LEMMA ListOfGams ==
    ASSUME Chosen
    PROVE  gams \in GamLists /\ Len(gams) \in Nat \ {0} /\ DOMAIN gams = 1 .. Len(gams)
<1>1. Configuration[file] \in GamLists
  BY FilesAssumption, ConfigurationType DEF Chosen
<1>2. gams \in GamLists
  BY <1>1, ApplyType DEF Chosen
<1> QED
  BY <1>2 DEF GamLists

LEMMA SetupBinds ==
    ASSUME Setup, Accepts(gams[at])
    PROVE  bound' = [bound EXCEPT ![at] = PointersOf(layout, gams[at])]
<1>1. bound' = [bound EXCEPT ![at] =
                   [m \in {Members(gams[at].class)[p].name :
                               p \in DOMAIN Members(gams[at].class)} |->
                       Bind(gams[at], CHOOSE member \in ToSet(Members(gams[at].class)) :
                                          member.name = m)]]
  BY DEF Setup
<1>2. PointersOf(layout, gams[at])
      = [m \in {Members(gams[at].class)[p].name :
                    p \in DOMAIN Members(gams[at].class)} |->
            Bind(gams[at], CHOOSE member \in ToSet(Members(gams[at].class)) :
                               member.name = m)]
  BY Zenon DEF PointersOf, BindAt, Bind
<1> QED
  BY <1>1, <1>2, Zenon

LEMMA StageSteps ==
    ASSUME Ready, [Next]_vars
    PROVE  /\ UNCHANGED setupVars
           /\ stage = "run" /\ stage' = "run" => at' \in DOMAIN gams /\ bound' = bound
           /\ stage # "run" \/ stage' # "run" => UNCHANGED cycleVars
           /\ stage # "run" /\ stage' = "run" => at' = 1
           /\ stage \notin {"initialise", "setup", "run"} => stage' = stage
           /\ at' \in DOMAIN gams
<1>1. Len(gams) \in Nat \ {0} /\ DOMAIN gams = 1 .. Len(gams)
  BY ListOfGams DEF Ready
<1>2. at \in 1 .. Len(gams)
  BY <1>1 DEF Ready
<1>3. NextGam => at' \in DOMAIN gams
  BY <1>1, <1>2 DEF NextGam
<1>4. CASE Initialise
  <2>1. at' \in DOMAIN gams
    <3>1. at' = at \/ (at < Len(gams) /\ at' = at + 1) \/ at' = 1
      BY <1>4 DEF Initialise
    <3> QED
      BY <1>1, <1>2, <3>1
  <2>2. UNCHANGED setupVars /\ UNCHANGED cycleVars
    BY <1>4 DEF Initialise, lawVars, fpgaVars, cycleVars, setupVars
  <2>3. stage = "initialise" /\ stage' # "run"
    BY <1>4 DEF Initialise
  <2> QED
    BY <2>1, <2>2, <2>3
<1>5. CASE Setup
  BY <1>1, <1>2, <1>5 DEF Setup, lawVars, fpgaVars, cycleVars, setupVars
<1>6. CASE Stray
  BY <1>1, <1>2, <1>6 DEF Stray, lawVars, fpgaVars, cycleVars, setupVars
<1>7. CASE Receive \/ WaitForTimer \/ CopyOut
  BY <1>1, <1>2, <1>3, <1>7 DEF Receive, WaitForTimer, CopyOut, Turn, setupVars
<1>8. CASE ExecuteIncrement \/ ExecuteSwap \/ ExecuteClassicGam
  BY <1>1, <1>2, <1>3, <1>8
     DEF ExecuteIncrement, ExecuteSwap, ExecuteClassicGam, Turn, setupVars
<1>9. CASE ExecuteExtremumGam \/ ExecuteExtremum_1khzGam
  BY <1>1, <1>2, <1>3, <1>9
     DEF ExecuteExtremumGam, ExecuteExtremum_1khzGam, ExecuteSeeking, Turn, setupVars
<1>10. CASE FpgaServes \/ OracleDecides
  BY <1>1, <1>2, <1>10 DEF FpgaServes, OracleDecides, setupVars
<1>11. CASE UNCHANGED vars
  BY <1>1, <1>2, <1>11 DEF vars, setupVars, lawVars, fpgaVars, cycleVars
<1> QED
  BY <1>4, <1>5, <1>6, <1>7, <1>8, <1>9, <1>10, <1>11 DEF Next, Thread

LEMMA RunGoes ==
    ASSUME [Next]_vars, stage = "run"
    PROVE  stage' \in {"run", "wild"}
BY DEF Next, Thread, Initialise, Setup, Stray, Receive, WaitForTimer, ExecuteIncrement,
       ExecuteExtremumGam, ExecuteExtremum_1khzGam, ExecuteSeeking, ExecuteClassicGam,
       ExecuteSwap, CopyOut, FpgaServes, OracleDecides, vars

LEMMA ReadyNext ==
    ASSUME Ready, [Next]_vars
    PROVE  Ready'
<1>1. Len(gams) \in Nat \ {0} /\ DOMAIN gams = 1 .. Len(gams)
  BY ListOfGams DEF Ready
<1>2. UNCHANGED setupVars /\ at' \in DOMAIN gams
  BY StageSteps
<1>3. gams' = gams /\ layout' = layout /\ Chosen' /\ Unspoilt'
  BY <1>2, ChosenNext DEF Ready, setupVars, Unspoilt
<1> DEFINE Pointed(stages, turn, pointers) ==
        \A g \in DOMAIN gams :
            stages = "run" \/ (stages = "setup" /\ g < turn) =>
                pointers[g] = PointersOf(layout, gams[g])
<1>4. DOMAIN bound' = DOMAIN gams /\ Pointed(stage', at', bound')
  <2>1. DOMAIN bound = DOMAIN gams /\ Pointed(stage, at, bound) /\ at \in DOMAIN gams
    BY DEF Ready
  <2>2. CASE Initialise
    BY <1>1, <2>1, <2>2 DEF Initialise
  <2>3. CASE Setup
    <3>1. CASE Accepts(gams[at])
      <4>1. bound' = [bound EXCEPT ![at] = PointersOf(layout, gams[at])]
        BY <2>3, <3>1, SetupBinds
      <4>2. \/ at' = at + 1 /\ stage' = stage
            \/ at = Len(gams) /\ stage' = "run"
        BY <1>1, <2>1, <2>3, <3>1 DEF Setup
      <4>3. stage = "setup"
        BY <2>3 DEF Setup
      <4>4. DOMAIN bound' = DOMAIN gams /\ bound'[at] = PointersOf(layout, gams[at])
            /\ \A g \in DOMAIN gams : g # at => bound'[g] = bound[g]
        BY <2>1, <4>1
      <4> QED
        BY <1>1, <2>1, <4>2, <4>3, <4>4
    <3>2. CASE ~Accepts(gams[at])
      BY <2>1, <2>3, <3>2 DEF Setup
    <3> QED
      BY <3>1, <3>2
  <2>4. CASE Stray
    BY <2>1, <2>4 DEF Stray
  <2>5. CASE stage = "run" /\ stage' = "run"
    BY <2>1, <2>5, StageSteps
  <2>6. CASE UNCHANGED vars
    BY <2>1, <2>6 DEF vars
  <2>7. Next => Initialise \/ Setup \/ Stray \/ (stage = "run" /\ stage' = "run")
    BY DEF Next, Thread, Receive, WaitForTimer, CopyOut, ExecuteIncrement, ExecuteSwap,
           ExecuteClassicGam, ExecuteExtremumGam, ExecuteExtremum_1khzGam,
           ExecuteSeeking, FpgaServes, OracleDecides, Turn
  <2> QED
    BY <2>2, <2>3, <2>4, <2>5, <2>6, <2>7
<1> QED
  BY <1>2, <1>3, <1>4 DEF Ready
-----------------------------------------------------------------------------
(***************************************************************************)
(* The controllers that swap.                                              *)
(***************************************************************************)
ControlFiles == {"VSES_Control", "VSES_Control_Write"}

ControlAddresses == DatagramAddresses \cup {464, 465, 466, 467, 472, 480, 488}

IsList(s) == s \in Seq({s[k] : k \in 1 .. Len(s)})

ControlTypes ==
    /\ received \in Seq(Datagrams) /\ decided \in Seq({0, 1}) /\ IsList(sent)
    /\ ControlAddresses \subseteq DOMAIN page

\* How far the cycle in hand has come.
ControlLengths ==
    /\ Len(decided) = IF Turned = 2 THEN Len(received) - 1 ELSE Len(received)
    /\ Len(sent) = IF Turned \in 2 .. 5 THEN Len(received) - 1 ELSE Len(received)
    /\ Turned > 1 => Len(received) >= 1

\* The seeking GAM has had a turn in every cycle that is that far.
ControlSeeker ==
    es = SeekerAfter(LawOf(edit), received,
                     IF Turned \in {2, 3} THEN Len(received) - 1 ELSE Len(received))

ControlPage ==
    /\ Len(received) >= 1 => OnPage(page, received[Len(received)])
    /\ counter \in Nat /\ page[465][0] = counter % 256 /\ page[467][0] = inner_counter
    /\ page[464][0] \in {0, 1}
    /\ Len(decided) >= 1 => page[466][0] = decided[Len(decided)]

\* The FPGA has served the last cycle decided on, or is about to.
ControlServed ==
    /\ Turned = 2 \/ Len(decided) = 0 => inner_counter = page[465][0]
    /\ inner_counter # page[465][0] => fpga_x = FpgaOf(received, decided, Len(decided))
    /\ inner_counter = page[465][0] =>
           /\ fpga_x = FpgaOf(received, decided, Len(decided) + 1)
           /\ Len(decided) >= 1 => page[480][0] = Swapped(received, decided, Len(decided))

ControlResults ==
    /\ Turned = 4 => page[472][0] = Sought(LawOf(edit), received, Len(received))
    /\ Turned = 5 => page[488][0] = Answer(file, LawOf(edit), received, decided,
                                           Len(received))

ControlWritten ==
    /\ Turned >= 2 => DatagramAddresses \subseteq written
    /\ Turned >= 3 => {465, 466} \subseteq written
    /\ Turned = 4 => 472 \in written
    /\ Turned = 5 => 488 \in written
    /\ Turned \in {3, 4} /\ inner_counter = page[465][0] => {467, 480} \subseteq written

ControlRun ==
    /\ ControlTypes /\ ControlLengths /\ ControlSeeker /\ ControlPage
    /\ ControlServed /\ ControlResults /\ ControlWritten

\* The last reply is the one that was due.
Answered ==
    Len(sent) >= 1 => sent[Len(sent)] = Answer(file, LawOf(edit), received, decided,
                                               Len(sent))

OnlyRequested == stale \subseteq {"VS3_req"}

\* Where a controller that swaps has its signals, and its GAMs their pointers.
ControlSet ==
    /\ file \in ControlFiles /\ edit \in {NoEdit, Variant}
    /\ ControlGams(gams, edit) /\ at \in 1 .. Len(gams)
    /\ ControlPlaces(layout) /\ PageNames \subseteq DOMAIN layout /\ Shared
    /\ stage = "run" => \A g \in DOMAIN gams : bound[g] = PointersOf(layout, gams[g])

LEMMA ControlIsSet ==
    ASSUME Ready, file \in ControlFiles
    PROVE  ControlSet
<1>1. edit \in {NoEdit, Variant} /\ gams = Apply(edit, Configuration[file])
  BY DEF Ready, Unspoilt, Chosen
<1>2. Configuration[file] \in {VSES_Control, VSES_Control_Write}
  BY DEF ControlFiles, Configuration
<1>3. ControlGams(gams, edit)
  BY <1>1, <1>2, ControlListed
<1>4. Shared
  BY <1>3 DEF ControlGams, GAMVSSwap, Gam, Shared
<1>5. ControlPlaces(layout) /\ PageNames \subseteq DOMAIN layout
  BY <1>4, SharedPlaces DEF Ready
<1>6. at \in 1 .. Len(gams)
  BY <1>3 DEF Ready, ControlGams
<1>7. stage = "run" => \A g \in DOMAIN gams : bound[g] = PointersOf(layout, gams[g])
  BY DEF Ready
<1> QED
  BY <1>1, <1>3, <1>4, <1>5, <1>6, <1>7 DEF ControlSet

\* Whose turn it is, by class.
LEMMA ControlClasses ==
    ASSUME ControlGams(gams, edit)
    PROVE  /\ gams[1].class = "IOGAM" /\ gams[1].source = "UDPReceiver"
           /\ gams[2].class = "VSGAMIncrement" /\ gams[3].class = LawClass(edit)
           /\ gams[4].class = "VSGAMSwap"
           /\ gams[5].class = "IOGAM" /\ gams[5].source = "page"
           /\ gams[5].target = "UDPSender"
           /\ Len(gams) = 6 => /\ gams[6].class = "IOGAM" /\ gams[6].source = "page"
                               /\ gams[6].target = "FileWriter"
BY DEF ControlGams, GAMUDPReceiver, GAMVSIncrement, GAMVSSwap, GAMUDPSender,
       GAMWriteFile, Gam

LEMMA ControlTurns ==
    ASSUME ControlSet, stage = "run", stage' = "run", Next
    PROVE  \/ at = 1 /\ Receive
           \/ at = 2 /\ ExecuteIncrement
           \/ at = 3 /\ ExecuteSeeking(ExecuteLaw(LawOf(edit), es, ExtremumInputs))
           \/ at = 4 /\ ExecuteSwap
           \/ at \in {5, 6} /\ CopyOut
           \/ FpgaServes
           \/ OracleDecides
<1>1. /\ gams[1].class = "IOGAM" /\ gams[1].source = "UDPReceiver"
      /\ gams[2].class = "VSGAMIncrement" /\ gams[3].class = LawClass(edit)
      /\ gams[4].class = "VSGAMSwap"
      /\ gams[5].class = "IOGAM" /\ gams[5].source = "page"
      /\ Len(gams) = 6 => gams[6].class = "IOGAM" /\ gams[6].source = "page"
  BY ControlClasses DEF ControlSet
<1>2. at \in 1 .. 6 /\ (at = 6 => Len(gams) = 6)
  BY DEF ControlSet, ControlGams
<1>3. LawClass(edit) \in {"VSGAMExtremum", "VSGAMExtremum_1khz"}
  BY DEF LawClass
<1>4. CASE Receive
  <2>1. gams[at].class = "IOGAM" /\ gams[at].source = "UDPReceiver"
    BY <1>4 DEF Receive, Turn, Gam1
  <2>2. at = 1
    BY <1>1, <1>2, <1>3, <2>1
  <2> QED
    BY <1>4, <2>2
<1>5. CASE WaitForTimer
  <2>1. gams[at].class = "IOGAM" /\ gams[at].source = "Timer"
    BY <1>5 DEF WaitForTimer, Turn, Gam1
  <2> QED
    BY <1>1, <1>2, <1>3, <2>1
<1>6. CASE CopyOut
  <2>1. gams[at].class = "IOGAM" /\ gams[at].source = "page"
    BY <1>6 DEF CopyOut, Turn, Gam1
  <2>2. at \in {5, 6}
    BY <1>1, <1>2, <1>3, <2>1
  <2> QED
    BY <1>6, <2>2
<1>7. CASE ExecuteIncrement
  <2>1. gams[at].class = "VSGAMIncrement"
    BY <1>7 DEF ExecuteIncrement, Turn, Gam1
  <2>2. at = 2
    BY <1>1, <1>2, <1>3, <2>1
  <2> QED
    BY <1>7, <2>2
<1>8. CASE ExecuteSwap
  <2>1. gams[at].class = "VSGAMSwap"
    BY <1>8 DEF ExecuteSwap, Turn, Gam1
  <2>2. at = 4
    BY <1>1, <1>2, <1>3, <2>1
  <2> QED
    BY <1>8, <2>2
<1>9. CASE ExecuteClassicGam
  <2>1. gams[at].class = "VSGAMClassic"
    BY <1>9 DEF ExecuteClassicGam, Turn, Gam1
  <2> QED
    BY <1>1, <1>2, <1>3, <2>1
<1>10. CASE ExecuteExtremumGam
  <2>1. gams[at].class = "VSGAMExtremum"
    BY <1>10 DEF ExecuteExtremumGam, Turn, Gam1
  <2>2. at = 3
    BY <1>1, <1>2, <1>3, <2>1
  <2>3. LawOf(edit) = VSGAMExtremum
    BY <1>1, <2>1, <2>2 DEF LawOf, LawClass
  <2> QED
    BY <1>10, <2>2, <2>3 DEF ExecuteExtremumGam, ExecuteExtremum
<1>11. CASE ExecuteExtremum_1khzGam
  <2>1. gams[at].class = "VSGAMExtremum_1khz"
    BY <1>11 DEF ExecuteExtremum_1khzGam, Turn, Gam1
  <2>2. at = 3
    BY <1>1, <1>2, <1>3, <2>1
  <2>3. LawOf(edit) = VSGAMExtremum_1khz
    BY <1>1, <2>1, <2>2 DEF LawOf, LawClass
  <2> QED
    BY <1>11, <2>2, <2>3 DEF ExecuteExtremum_1khzGam, ExecuteExtremum_1khz
<1>12. ~Initialise /\ ~Setup /\ ~Stray
  BY DEF Initialise, Setup, Stray
<1> QED
  BY <1>4, <1>5, <1>6, <1>7, <1>8, <1>9, <1>10, <1>11, <1>12 DEF Next, Thread

\* The page, but for some places.
KeptBut(places) ==
    /\ DOMAIN page' = DOMAIN page
    /\ \A a \in DOMAIN page : a \notin places => page'[a] = page[a]

LEMMA KeptAt ==
    ASSUME NEW places, KeptBut(places), ControlAddresses \subseteq DOMAIN page,
           NEW kept, kept \subseteq ControlAddresses, \A a \in kept : a \notin places
    PROVE  DOMAIN page' = DOMAIN page /\ \A a \in kept : page'[a] = page[a]
BY DEF KeptBut

LEMMA ListGrown ==
    ASSUME NEW s, IsList(s), NEW e
    PROVE  /\ IsList(Append(s, e)) /\ Len(Append(s, e)) = Len(s) + 1
           /\ Append(s, e)[Len(s) + 1] = e
           /\ \A i \in 1 .. Len(s) : Append(s, e)[i] = s[i]
<1> DEFINE R == {s[k] : k \in 1 .. Len(s)}
           S == R \cup {e}
           t == Append(s, e)
<1>1. s \in Seq(R)
  BY DEF IsList
<1>2. R \subseteq S /\ e \in S
  OBVIOUS
<1> HIDE DEF S, R
<1>3. s \in Seq(S)
  BY <1>1, <1>2
<1>4. /\ t \in Seq(S) /\ Len(t) = Len(s) + 1 /\ t[Len(s) + 1] = e
      /\ \A i \in 1 .. Len(s) : t[i] = s[i]
  BY <1>2, <1>3, Appended
<1> HIDE DEF t
<1>5. t \in Seq({t[k] : k \in 1 .. Len(t)})
  <2>1. Len(t) \in Nat /\ DOMAIN t = 1 .. Len(t) /\ t = [k \in 1 .. Len(t) |-> t[k]]
    BY <1>4
  <2>2. t \in [1 .. Len(t) -> {t[k] : k \in 1 .. Len(t)}]
    BY <2>1
  <2> QED
    BY <2>1, <2>2
<1> QED
  BY <1>4, <1>5 DEF IsList, t

LEMMA OnPageSame ==
    ASSUME NEW pages, NEW more, NEW d, OnPage(pages, d),
           \A a \in {0, 88, 96, 184, 192, 200, 208} : more[a] = pages[a]
    PROVE  OnPage(more, d)
BY DEF OnPage

LEMMA OneOf == \A v : One(v)[0] = v
BY DEF One

\* A read of what this cycle has written.
LEMMA NothingStale ==
    ASSUME NEW names, ReadSignals(names), \A n \in names : layout[n] \in written
    PROVE  stale' = stale
<1>1. {n \in names : layout[n] \notin written} = {}
  OBVIOUS
<1>2. stale' = stale \cup {n \in names : layout[n] \notin written}
  BY DEF ReadSignals
<1> QED
  BY <1>1, <1>2

LEMMA OnPageFeeds ==
    ASSUME NEW d, OnPage(page, d), Ptr.pf_voltages = 0, Ptr.vs3 = 88, Ptr.pf_currents = 96,
           Ptr.ivs3 = 184, Ptr.ip = 192, Ptr.zc = 200
    PROVE  Feeds(d, ExtremumInputs)
<1> DEFINE in == ExtremumInputs
<1>1. in.pf_voltages = page[0]
  <2>1. in.pf_voltages = page[Ptr.pf_voltages]
    BY Zenon DEF ExtremumInputs
  <2> QED
    BY <2>1, Zenon
<1>2. in.vs3 = page[88][0]
  <2>1. in.vs3 = At(Ptr.vs3)
    BY Zenon DEF ExtremumInputs
  <2> QED
    BY <2>1, Zenon DEF At
<1>3. in.pf_currents = page[96]
  <2>1. in.pf_currents = page[Ptr.pf_currents]
    BY Zenon DEF ExtremumInputs
  <2> QED
    BY <2>1, Zenon
<1>4. in.ivs3 = page[184][0]
  <2>1. in.ivs3 = At(Ptr.ivs3)
    BY Zenon DEF ExtremumInputs
  <2> QED
    BY <2>1, Zenon DEF At
<1>5. in.ip = page[192][0]
  <2>1. in.ip = At(Ptr.ip)
    BY Zenon DEF ExtremumInputs
  <2> QED
    BY <2>1, Zenon DEF At
<1>6. in.zc = page[200][0]
  <2>1. in.zc = At(Ptr.zc)
    BY Zenon DEF ExtremumInputs
  <2> QED
    BY <2>1, Zenon DEF At
<1> HIDE DEF in
<1>7. Feeds(d, in)
  BY <1>1, <1>2, <1>3, <1>4, <1>5, <1>6 DEF OnPage, Feeds
<1> QED
  BY <1>7 DEF in

\* The sender reads what the cycle has computed.
LEMMA SenderCopies ==
    ASSUME NEW a, CopyOut, gams[at] = GAMUDPSender, layout["VS3_ref"] = a, a \in written
    PROVE  sent' = Append(sent, page[a][0]) /\ stale' = stale
<1>1. Gam1.target = "UDPSender" /\ Gam1.inputs = <<Float64("VS3_ref")>>
  BY DEF Gam1, GAMUDPSender, Gam
<1>2. {s.name : s \in ToSet(Gam1.inputs)} = {"VS3_ref"}
  BY <1>1 DEF ToSet, Float64, Signal
<1>3. stale' = stale
  <2>1. ReadSignals({"VS3_ref"})
    BY <1>2, Zenon DEF CopyOut
  <2>2. \A m \in {"VS3_ref"} : layout[m] \in written
    OBVIOUS
  <2> QED
    BY <2>1, <2>2, NothingStale
<1>4. sent' = Append(sent, page[a][0])
  <2>1. sent' = Append(sent, At(layout["VS3_ref"]))
    BY <1>1, Zenon DEF CopyOut
  <2>2. At(layout["VS3_ref"]) = page[a][0]
    BY DEF At
  <2> QED
    BY <2>1, <2>2, Zenon
<1> QED
  BY <1>3, <1>4

\* What the turns of a cycle do, by the addresses.
LEMMA ControlReceives ==
    ASSUME ControlSet, ControlRun, stage = "run", at = 1, Receive
    PROVE  \E d \in Datagrams :
               /\ KeptBut(DatagramAddresses) /\ OnPage(page', d)
               /\ written' = DatagramAddresses /\ received' = Append(received, d)
               /\ inner_counter = page[465][0] /\ at' = 2
               /\ UNCHANGED <<setupVars, stage, bound, counter, es, inner_counter, fpga_x,
                              stale, decided, sent>>
<1>1. Gam1.outputs = Datagram /\ Len(gams) \in {5, 6}
  BY DEF ControlSet, ControlGams, GAMUDPReceiver, Gam, Gam1
<1>2. PICK d \in Datagrams :
          /\ page' = Filling(page, layout, Gam1.outputs, d)
          /\ written' = {layout[n] : n \in {s.name : s \in ToSet(Gam1.outputs)}}
          /\ received' = Append(received, d)
  BY Zenon DEF Receive, Filling
<1>3. DatagramPlaces(layout)
  BY DEF ControlSet, ControlPlaces, DatagramPlaces
<1>4. DatagramAddresses \subseteq DOMAIN page
  BY DEF ControlRun, ControlTypes, ControlAddresses
<1>5. page' = Filling(page, layout, Datagram, d)
  BY <1>1, <1>2
<1>6. KeptBut(DatagramAddresses) /\ OnPage(page', d)
  <2>1. /\ DOMAIN Filling(page, layout, Datagram, d) = DOMAIN page
        /\ OnPage(Filling(page, layout, Datagram, d), d)
        /\ \A a \in DOMAIN page : a \notin DatagramAddresses =>
               Filling(page, layout, Datagram, d)[a] = page[a]
    BY <1>3, <1>4, DatagramFills
  <2> QED
    BY <1>5, <2>1 DEF KeptBut
<1>7. written' = DatagramAddresses
  <2>1. DOMAIN Datagram = 1 .. 9
    BY DatagramElements
  <2>2. \A s \in 1 .. 9 : layout[Datagram[s].name] = Addresses[s]
    BY <1>3, DatagramPlaced
  <2>3. {layout[n] : n \in {s.name : s \in ToSet(Datagram)}} = {Addresses[s] : s \in 1 .. 9}
    BY <2>1, <2>2 DEF ToSet
  <2>4. written' = {layout[n] : n \in {s.name : s \in ToSet(Datagram)}}
    BY <1>1, <1>2, Zenon
  <2> QED
    BY <2>3, <2>4, AddressesAre, Zenon
<1>8. inner_counter = page[465][0]
  BY Fields DEF Receive, ControlSet, At
<1>9. at' = 2
  BY <1>1 DEF Receive, NextGam
<1>10. UNCHANGED <<setupVars, stage, bound, counter, es, inner_counter, fpga_x,
                   stale, decided, sent>>
  BY DEF Receive, lawVars, fpgaVars
<1> QED
  BY <1>2, <1>6, <1>7, <1>8, <1>9, <1>10

LEMMA ControlIncrements ==
    ASSUME ControlSet, ControlRun, stage = "run", at = 2, ExecuteIncrement
    PROVE  /\ KeptBut({465, 466}) /\ page'[465][0] = (counter + 1) % 256
           /\ page'[466][0] = page[464][0]
           /\ decided' = Append(decided, page[464][0]) /\ counter' = counter + 1
           /\ written' = written \cup {465, 466} /\ at' = 3
           /\ UNCHANGED <<setupVars, stage, bound, es, inner_counter, fpga_x, stale,
                          received, sent>>
<1>1. Ptr = PointersOf(layout, GAMVSIncrement) /\ Len(gams) \in {5, 6}
  BY DEF ControlSet, ControlGams, Ptr
<1>2. Ptr.oracleDecision = 464 /\ Ptr.inputCounter = 465 /\ Ptr.marteStrategy = 466
  BY <1>1, IncrementPointers DEF ControlSet, ControlPlaces
<1>3. page[464][0] \in {0, 1} /\ 465 \in DOMAIN page /\ 466 \in DOMAIN page
  BY DEF ControlRun, ControlTypes, ControlPage, ControlAddresses
<1>4. /\ page' = [page EXCEPT ![465] = One((counter + 1) % 256), ![466] = One(page[464][0])]
      /\ decided' = Append(decided, page[464][0])
  BY <1>2, <1>3, Fields DEF ExecuteIncrement, At
<1>5. KeptBut({465, 466}) /\ page'[465][0] = (counter + 1) % 256
      /\ page'[466][0] = page[464][0]
  BY <1>3, <1>4, OneOf DEF KeptBut
<1>6. counter' = counter + 1 /\ written' = written \cup {465, 466} /\ at' = 3
  <2>1. NextGam
    BY DEF ExecuteIncrement
  <2>2. counter' = counter + 1
    BY DEF ExecuteIncrement
  <2>3. written' = written \cup {Ptr.inputCounter, Ptr.marteStrategy}
    BY Zenon DEF ExecuteIncrement
  <2>4. at' = 3
    <3>1. Len(gams) \in {5, 6}
      BY <1>1
    <3> QED
      BY <2>1, <3>1 DEF NextGam
  <2> QED
    BY <1>2, <2>2, <2>3, <2>4
<1> QED
  BY <1>4, <1>5, <1>6 DEF ExecuteIncrement, fpgaVars

LEMMA ControlSeeks ==
    ASSUME ControlSet, ControlRun, stage = "run", at = 3,
           ExecuteSeeking(ExecuteLaw(LawOf(edit), es, ExtremumInputs))
    PROVE  /\ KeptBut({472})
           /\ page'[472][0] = Sought(LawOf(edit), received, Len(received))
           /\ es' = SeekerAfter(LawOf(edit), received, Len(received))
           /\ written' = written \cup {472} /\ stale' = stale /\ at' = 4
           /\ UNCHANGED <<setupVars, stage, bound, counter, inner_counter, fpga_x,
                          received, decided, sent>>
<1> DEFINE result == ExecuteLaw(LawOf(edit), es, ExtremumInputs)
           n == Len(received)
<1>1. /\ Ptr = PointersOf(layout, gams[3]) /\ Len(gams) \in {5, 6}
      /\ Seeking(gams[3], "VS3ES_ref") /\ Gam1 = gams[3]
  BY DEF ControlSet, ControlGams, Ptr, Gam1
<1>2. /\ Ptr.pf_voltages = 0 /\ Ptr.vs3 = 88 /\ Ptr.pf_currents = 96 /\ Ptr.ivs3 = 184
      /\ Ptr.ip = 192 /\ Ptr.zc = 200 /\ Ptr.vs3_ref = 472
  <2>1. /\ Ptr.pf_voltages = layout["PFvoltages"] /\ Ptr.vs3 = layout["VS3"]
        /\ Ptr.pf_currents = layout["PFcurrents"] /\ Ptr.ivs3 = layout["IVS3"]
        /\ Ptr.ip = layout["Ip"] /\ Ptr.zc = layout["Zc"]
        /\ Ptr.vs3_ref = layout["VS3ES_ref"]
    BY <1>1, SeekingPointers
  <2> QED
    BY <2>1 DEF ControlSet, ControlPlaces
<1>3. n \in Nat \ {0} /\ \A m \in 1 .. n : received[m] \in Datagrams
  BY DEF ControlRun, ControlTypes, ControlLengths, Turned
<1>4. es = SeekerAfter(LawOf(edit), received, n - 1)
  BY DEF ControlRun, ControlSeeker, Turned
<1>5. FillInputs(ExtremumInputs) = Seen(received[n])
  <2>1. OnPage(page, received[n])
    BY <1>3 DEF ControlRun, ControlPage
  <2>2. Feeds(received[n], ExtremumInputs)
    BY <1>2, <2>1, OnPageFeeds
  <2> QED
    BY <2>2, Filled
<1>6. IsLaw(LawOf(edit)) /\ LawOf(edit).step \in Int
  BY LawsAre DEF LawOf, VSGAMExtremum, VSGAMExtremum_1khz
<1>7. /\ result.vs3_ref = Sought(LawOf(edit), received, n)
      /\ [state |-> result.state, t |-> result.t] = SeekerAfter(LawOf(edit), received, n)
  BY <1>3, <1>4, <1>5, <1>6, Seeks
<1> HIDE DEF result, n
<1>8. ExecuteSeeking(result)
  BY DEF result
<1>9. page' = [page EXCEPT ![472] = One(result.vs3_ref)]
  <2>1. page' = [page EXCEPT ![Ptr.vs3_ref] = One(result.vs3_ref)]
    BY <1>8, Zenon DEF ExecuteSeeking
  <2>2. Ptr.vs3_ref = 472
    BY <1>2
  <2> QED
    BY ONLY <2>1, <2>2, Zenon
<1>10. 472 \in DOMAIN page
  BY DEF ControlRun, ControlTypes, ControlAddresses
<1>11. KeptBut({472}) /\ page'[472][0] = result.vs3_ref
  BY <1>9, <1>10, OneOf DEF KeptBut
<1>12. es' = SeekerAfter(LawOf(edit), received, n)
  BY <1>7, <1>8 DEF ExecuteSeeking
<1>13. written' = written \cup {472}
  BY <1>2, <1>8 DEF ExecuteSeeking
<1>14. stale' = stale
  <2>1. stale' = stale \cup {m \in {s.name : s \in ToSet(gams[3].inputs)} :
                                 layout[m] \notin written}
    BY <1>1, <1>8, Zenon DEF ExecuteSeeking, ReadSignals
  <2>2. ASSUME NEW s \in ToSet(gams[3].inputs) PROVE layout[s.name] \in DatagramAddresses
    <3>1. gams[3].inputs = GAMVSExtremum("VS3ES_ref").inputs
      BY <1>1 DEF Seeking
    <3>2. s.name \in {"PFvoltages", "VS3", "PFcurrents", "IVS3", "Ip", "Zc"}
      BY <3>1 DEF GAMVSExtremum, Gam, ToSet, Array, Float64, Signal
    <3>3. /\ layout["PFvoltages"] = 0 /\ layout["VS3"] = 88 /\ layout["PFcurrents"] = 96
          /\ layout["IVS3"] = 184 /\ layout["Ip"] = 192 /\ layout["Zc"] = 200
      BY DEF ControlSet, ControlPlaces
    <3> QED
      BY <3>2, <3>3 DEF DatagramAddresses
  <2>3. DatagramAddresses \subseteq written
    BY DEF ControlRun, ControlWritten, Turned
  <2> QED
    BY <2>1, <2>2, <2>3
<1>15. at' = 4
  <2>1. NextGam
    BY <1>8 DEF ExecuteSeeking
  <2>2. 3 < Len(gams) /\ at = 3
    BY <1>1
  <2>3. at' = IF at < Len(gams) THEN at + 1 ELSE 1
    BY <2>1 DEF NextGam
  <2>4. at' = 3 + 1
    BY ONLY <2>2, <2>3, Zenon
  <2> QED
    BY ONLY <2>4
<1>16. UNCHANGED <<setupVars, stage, bound, counter, inner_counter, fpga_x,
                   received, decided, sent>>
  BY <1>8 DEF ExecuteSeeking, fpgaVars
<1> QED
  BY <1>7, <1>11, <1>12, <1>13, <1>14, <1>15, <1>16 DEF n

LEMMA ControlSwaps ==
    ASSUME ControlSet, ControlRun, stage = "run", at = 4, ExecuteSwap
    PROVE  /\ KeptBut({488})
           /\ page'[488][0] = Answer(file, LawOf(edit), received, decided, Len(received))
           /\ written' = written \cup {488} /\ stale' = stale /\ at' = 5
           /\ UNCHANGED <<setupVars, stage, bound, counter, es, inner_counter, fpga_x,
                          received, decided, sent>>
<1> DEFINE n == Len(received)
           answer == Answer(file, LawOf(edit), received, decided, n)
<1>1. Ptr = PointersOf(layout, GAMVSSwap) /\ Len(gams) \in {5, 6}
  BY DEF ControlSet, ControlGams, Ptr
<1>2. /\ Ptr.inputCounter = 465 /\ Ptr.outputCounter = 467 /\ Ptr.marteStrategy = 466
      /\ Ptr.vs3es_ref = 472 /\ Ptr.vs3fpga_ref = 480 /\ Ptr.vs3_ref = 488
  <2>1. /\ Ptr.inputCounter = layout["InputCounter"]
        /\ Ptr.outputCounter = layout["OutputCounter"]
        /\ Ptr.marteStrategy = layout["MarteStrategy"]
        /\ Ptr.vs3es_ref = layout["VS3ES_ref"] /\ Ptr.vs3fpga_ref = layout["VS3FPGA_ref"]
        /\ Ptr.vs3_ref = layout["VS3_ref"]
    BY <1>1, SwapPointers
  <2> QED
    BY <2>1 DEF ControlSet, ControlPlaces
<1>3. n \in Nat \ {0} /\ Len(decided) = n /\ decided[n] \in {0, 1}
  BY DEF ControlRun, ControlTypes, ControlLengths, Turned
<1>4. page[466][0] = decided[n] /\ page[467][0] = inner_counter
  BY <1>3 DEF ControlRun, ControlPage
<1>5. answer = IF decided[n] = 1 THEN Swapped(received, decided, n)
               ELSE Sought(LawOf(edit), received, n)
  BY DEF Answer, ControlSet, ControlFiles
<1>6. 488 \in DOMAIN page
  BY DEF ControlRun, ControlTypes, ControlAddresses
<1>7. /\ 465 \in written /\ 472 \in written
      /\ inner_counter = page[465][0] => 467 \in written /\ 480 \in written
  BY DEF ControlRun, ControlWritten, Turned
<1> HIDE DEF answer
<1>8. ASSUME decided[n] = 1
      PROVE  KeptBut({488}) /\ page'[488][0] = answer /\ stale' = stale
  <2>1. page[465][0] = inner_counter
    BY <1>2, <1>4, <1>8 DEF ExecuteSwap, At
  <2>2. page[480][0] = Swapped(received, decided, n)
    BY <1>3, <2>1 DEF ControlRun, ControlServed
  <2>3. /\ page' = [page EXCEPT ![488] = page[480]]
        /\ ReadSignals({"InputCounter", "OutputCounter", "VS3FPGA_ref"})
    BY <1>2, <1>4, <1>8 DEF ExecuteSwap, At
  <2>4. KeptBut({488}) /\ page'[488][0] = answer
    BY <1>5, <1>6, <1>8, <2>2, <2>3 DEF KeptBut
  <2>5. /\ layout["InputCounter"] \in written /\ layout["OutputCounter"] \in written
        /\ layout["VS3FPGA_ref"] \in written
    BY <1>7, <2>1 DEF ControlSet, ControlPlaces
  <2>6. stale' = stale
    <3>1. \A m \in {"InputCounter", "OutputCounter", "VS3FPGA_ref"} : layout[m] \in written
      BY <2>5
    <3> QED
      BY <2>3, <3>1, NothingStale
  <2> QED
    BY <2>4, <2>6
<1>9. ASSUME decided[n] = 0
      PROVE  KeptBut({488}) /\ page'[488][0] = answer /\ stale' = stale
  <2>1. page[472][0] = Sought(LawOf(edit), received, n)
    BY DEF ControlRun, ControlResults, Turned
  <2>2. page' = [page EXCEPT ![488] = page[472]] /\ ReadSignals({"VS3ES_ref"})
    BY <1>2, <1>4, <1>9 DEF ExecuteSwap, At
  <2>3. KeptBut({488}) /\ page'[488][0] = answer
    BY <1>5, <1>6, <1>9, <2>1, <2>2 DEF KeptBut
  <2>4. layout["VS3ES_ref"] \in written
    BY <1>7 DEF ControlSet, ControlPlaces
  <2>5. stale' = stale
    <3>1. \A m \in {"VS3ES_ref"} : layout[m] \in written
      BY <2>4
    <3> QED
      BY <2>2, <3>1, NothingStale
  <2> QED
    BY <2>3, <2>5
<1>10. KeptBut({488}) /\ page'[488][0] = answer /\ stale' = stale
  BY <1>3, <1>8, <1>9
<1>11. written' = written \cup {488}
  BY <1>2 DEF ExecuteSwap
<1>12. at' = 5
  <2>1. NextGam
    BY DEF ExecuteSwap
  <2> QED
    BY <1>1, <2>1 DEF NextGam
<1>13. UNCHANGED <<setupVars, stage, bound, counter, es, inner_counter, fpga_x,
                   received, decided, sent>>
  BY DEF ExecuteSwap, lawVars, fpgaVars
<1> QED
  BY <1>10, <1>11, <1>12, <1>13 DEF answer, n

LEMMA ControlCopies ==
    ASSUME ControlSet, ControlRun, stage = "run", at \in {5, 6}, CopyOut
    PROVE  /\ IF at = 5 THEN sent' = Append(sent, page[488][0]) /\ stale' = stale
              ELSE sent' = sent /\ stale' \subseteq stale \cup {"VS3_req"}
           /\ at' \in {1, 6} /\ at' # at
           /\ UNCHANGED <<setupVars, stage, bound, page, counter, es, inner_counter,
                          fpga_x, written, received, decided>>
<1>1. Len(gams) \in {5, 6} /\ gams[5] = GAMUDPSender /\ (Len(gams) = 6 => gams[6] = GAMWriteFile)
      /\ (at = 6 => Len(gams) = 6)
  BY DEF ControlSet, ControlGams
<1>2. ASSUME at = 5
      PROVE  sent' = Append(sent, page[488][0]) /\ stale' = stale
  <2>1. layout["VS3_ref"] = 488 /\ 488 \in written
    BY <1>2 DEF ControlSet, ControlPlaces, ControlRun, ControlWritten, Turned
  <2> QED
    BY <1>1, <1>2, <2>1, SenderCopies
<1>3. ASSUME at = 6
      PROVE  sent' = sent /\ stale' \subseteq stale \cup {"VS3_req"}
  <2>1. Gam1.target = "FileWriter" /\ Gam1.inputs = <<Float64("VS3_req")>> \o Datagram
    BY <1>1, <1>3 DEF Gam1, GAMWriteFile, Gam
  <2>2. sent' = sent
    BY <2>1 DEF CopyOut
  <2>3. ASSUME NEW s \in ToSet(Gam1.inputs)
        PROVE  s.name = "VS3_req" \/ layout[s.name] \in written
    <3> DEFINE p == <<Float64("VS3_req")>>
               e == Datagram
               S == Declared \cup {p[1]}
    <3>1. p \in Seq(S) /\ Len(p) = 1 /\ p[1].name = "VS3_req"
      BY DEF Float64, Signal
    <3>2. e \in Seq(S) /\ Len(e) = 9
      <4>1. Len(e) = 9 /\ e \in Seq(Declared)
        BY DatagramSized, DatagramType DEF SignalLists
      <4>2. Declared \subseteq S
        OBVIOUS
      <4> HIDE DEF e, S
      <4> QED
        BY <4>1, <4>2
    <3>3. \A k \in 1 .. 9 : layout[e[k].name] \in DatagramAddresses
      <4>1. DatagramPlaces(layout)
        BY DEF ControlSet, ControlPlaces, DatagramPlaces
      <4> QED
        BY <4>1, DatagramPlaced, AddressesAre
    <3>4. DatagramAddresses \subseteq written
      BY <1>3 DEF ControlRun, ControlWritten, Turned
    <3>5. s \in ToSet(p \o e)
      BY <2>1
    <3> HIDE DEF p, e, S
    <3>6. s = p[1] \/ \E j \in 1 .. 9 : s = e[j]
      <4>1. PICK k \in DOMAIN (p \o e) : s = (p \o e)[k]
        BY <3>5, Zenon DEF ToSet
      <4> DEFINE z == p \o e
      <4>2. /\ z \in Seq(S) /\ Len(z) = Len(p) + Len(e)
            /\ \A i \in 1 .. Len(p) + Len(e) :
                   z[i] = IF i <= Len(p) THEN p[i] ELSE e[i - Len(p)]
        BY <3>1, <3>2, ConcatProperties
      <4> HIDE DEF z
      <4>3. DOMAIN z = 1 .. 10
        BY <3>1, <3>2, <4>2
      <4>4. k \in 1 .. 10 /\ s = z[k]
        BY <4>1, <4>3 DEF z
      <4>5. z[k] = IF k <= 1 THEN p[k] ELSE e[k - 1]
        BY <3>1, <3>2, <4>2, <4>4
      <4>6. CASE k = 1
        BY <4>4, <4>5, <4>6
      <4>7. CASE k \in 2 .. 10
        <5>1. k - 1 \in 1 .. 9 /\ s = e[k - 1]
          BY <4>4, <4>5, <4>7
        <5> QED
          BY <5>1
      <4> QED
        BY <4>4, <4>6, <4>7
    <3> QED
      BY <3>1, <3>3, <3>4, <3>6
  <2> DEFINE names == {s.name : s \in ToSet(Gam1.inputs)}
  <2>4. stale' = stale \cup {n \in names : layout[n] \notin written}
    BY Zenon DEF CopyOut, ReadSignals
  <2>5. \A n \in names : n = "VS3_req" \/ layout[n] \in written
    BY <2>3
  <2> HIDE DEF names
  <2>6. stale' \subseteq stale \cup {"VS3_req"}
    BY <2>4, <2>5
  <2> QED
    BY <2>2, <2>6
<1>4. at' \in {1, 6} /\ at' # at
  <2>1. NextGam
    BY DEF CopyOut
  <2>2. CASE at = 5 /\ Len(gams) = 5
    BY <2>1, <2>2 DEF NextGam
  <2>3. CASE at = 5 /\ Len(gams) = 6
    BY <2>1, <2>3 DEF NextGam
  <2>4. CASE at = 6 /\ Len(gams) = 6
    BY <2>1, <2>4 DEF NextGam
  <2> QED
    BY <1>1, <2>2, <2>3, <2>4
<1>5. UNCHANGED <<setupVars, stage, bound, page, counter, es, inner_counter, fpga_x,
                  written, received, decided>>
  BY DEF CopyOut, lawVars, fpgaVars
<1>6. at = 5 \/ at = 6
  OBVIOUS
<1> QED
  BY <1>2, <1>3, <1>4, <1>5, <1>6

LEMMA ControlFpga ==
    ASSUME ControlSet, ControlRun, stage = "run", FpgaServes
    PROVE  /\ KeptBut({467, 480}) /\ inner_counter # page[465][0]
           /\ page'[467][0] = page[465][0] /\ inner_counter' = page[465][0]
           /\ Len(decided) = Len(received) /\ Len(received) >= 1 /\ at # 2
           /\ page'[480][0] = Swapped(received, decided, Len(decided))
           /\ fpga_x' = FpgaOf(received, decided, Len(decided) + 1)
           /\ written' = written \cup {467, 480}
           /\ UNCHANGED <<setupVars, stage, at, bound, counter, es, stale, received,
                          decided, sent>>
<1> DEFINE n == Len(received)
           x == FpgaOf(received, decided, n)
           w == DriveOf(received[n])
<1>1. inner_counter # page[465][0]
  BY Fields DEF FpgaServes, At
<1>2. at # 2 /\ Len(decided) # 0
  BY <1>1 DEF ControlRun, ControlServed, Turned
<1>3. Len(decided) = n /\ n \in Nat \ {0} /\ \A m \in 1 .. n : received[m] \in Datagrams
  BY <1>2 DEF ControlRun, ControlTypes, ControlLengths, Turned
<1>4. fpga_x = x /\ OnPage(page, received[n]) /\ page[466][0] = decided[n]
  BY <1>1, <1>3 DEF ControlRun, ControlServed, ControlPage
<1>5. \A m \in 1 .. n : DriveOf(received[m]) \in Int
  BY <1>3, DatagramValues
<1>6. /\ decided[n] # 0 => FpgaOf(received, decided, n + 1) = Af * x + Bf * w
      /\ decided[n] = 0 => FpgaOf(received, decided, n + 1) = 0
  BY <1>3, <1>5, FpgaNext
<1> DEFINE in == [ivs3 |-> At(Field("ivs3")), zdot |-> At(Field("zdot"))]
           result == ExecuteClassic(fpga_x, in)
<1>7. Drive(in) = w
  <2>1. in.ivs3 = page[184][0] /\ in.zdot = page[208][0]
    BY Fields DEF At
  <2>2. page[184][0] = received[n][24] /\ page[208][0] = received[n][27]
    BY <1>4 DEF OnPage
  <2> HIDE DEF in
  <2> QED
    BY <2>1, <2>2 DEF Drive, DriveOf
<1>8. /\ page' = [page EXCEPT ![480] = One(result.vs3_ref), ![467] = page[465]]
      /\ fpga_x' = IF page[466][0] # 0 THEN result.x_old ELSE 0
  <2>1. /\ page' = [page EXCEPT ![Field("classic_output")] = One(result.vs3_ref),
                                ![Field("output_counter")] = page[Field("input_counter")]]
        /\ fpga_x' = IF At(Field("marte_strategy")) # 0 THEN result.x_old ELSE 0
    BY Zenon DEF FpgaServes
  <2> HIDE DEF result, in
  <2>2. /\ Field("classic_output") = 480 /\ Field("output_counter") = 467
        /\ Field("input_counter") = 465 /\ At(Field("marte_strategy")) = page[466][0]
    BY Fields DEF At
  <2>3. page' = [page EXCEPT ![480] = One(result.vs3_ref), ![467] = page[465]]
    <3>1. Field("classic_output") = 480
      BY <2>2
    <3>2. Field("output_counter") = 467
      BY <2>2
    <3>3. Field("input_counter") = 465
      BY <2>2
    <3>4. page' = [page EXCEPT ![480] = One(result.vs3_ref),
                               ![Field("output_counter")] = page[Field("input_counter")]]
      BY ONLY <2>1, <3>1, Zenon
    <3>5. page' = [page EXCEPT ![480] = One(result.vs3_ref),
                               ![467] = page[Field("input_counter")]]
      BY ONLY <3>2, <3>4, Zenon
    <3>6. page[Field("input_counter")] = page[465]
      BY ONLY <3>3
    <3> QED
      BY ONLY <3>5, <3>6, Zenon
  <2>4. fpga_x' = IF page[466][0] # 0 THEN result.x_old ELSE 0
    <3>1. At(Field("marte_strategy")) = page[466][0]
      BY <2>2
    <3>2. fpga_x' = IF At(Field("marte_strategy")) # 0 THEN result.x_old ELSE 0
      BY <2>1
    <3> QED
      BY <3>1, <3>2, Zenon
  <2> QED
    BY <2>3, <2>4
<1> HIDE DEF in, x, w
<1>9. result.vs3_ref = Cf * x + Df * w /\ result.x_old = Af * x + Bf * w
  BY <1>4, <1>7 DEF ExecuteClassic
<1> HIDE DEF result
<1>10. 467 \in DOMAIN page /\ 480 \in DOMAIN page
  BY DEF ControlRun, ControlTypes, ControlAddresses
<1>11. /\ KeptBut({467, 480}) /\ page'[467][0] = page[465][0]
       /\ page'[480][0] = result.vs3_ref
  BY <1>8, <1>10, OneOf DEF KeptBut
<1>12. result.vs3_ref = Swapped(received, decided, n)
  BY <1>9 DEF Swapped, x, w
<1>13. fpga_x' = FpgaOf(received, decided, n + 1)
  BY <1>4, <1>6, <1>8, <1>9
<1>14. inner_counter' = page[465][0] /\ written' = written \cup {467, 480}
  BY Fields DEF FpgaServes, At
<1>15. UNCHANGED <<setupVars, stage, at, bound, counter, es, stale, received, decided,
                   sent>>
  BY DEF FpgaServes, lawVars
<1> HIDE DEF n
<1>16. Len(received) = n
  BY DEF n
<1> QED
  BY <1>1, <1>2, <1>3, <1>11, <1>12, <1>13, <1>14, <1>15, <1>16

LEMMA ControlDecides ==
    ASSUME ControlSet, ControlRun, stage = "run", OracleDecides
    PROVE  /\ KeptBut({464}) /\ page'[464][0] \in {0, 1} /\ at = 1
           /\ UNCHANGED <<setupVars, stage, at, bound, counter, es, inner_counter, fpga_x,
                          written, stale, received, decided, sent>>
<1>1. page' = [page EXCEPT ![464] = One(1 - page[464][0])]
  <2>1. page' = [page EXCEPT ![Field("oracle_decision")]
                                 = One(1 - page[Field("oracle_decision")][0])]
    BY Zenon DEF OracleDecides
  <2>2. Field("oracle_decision") = 464
    BY Fields
  <2> QED
    BY ONLY <2>1, <2>2, Zenon
<1>2. 464 \in DOMAIN page /\ page[464][0] \in {0, 1}
  BY DEF ControlRun, ControlTypes, ControlAddresses, ControlPage
<1>3. page'[464] = One(1 - page[464][0]) /\ KeptBut({464})
  BY <1>1, <1>2 DEF KeptBut
<1>4. page'[464][0] = 1 - page[464][0]
  BY <1>3, OneOf
<1> QED
  BY <1>2, <1>3, <1>4 DEF OracleDecides, lawVars, fpgaVars

LEMMA FpgaSame ==
    ASSUME NEW rec, NEW dec, NEW more, NEW choices, NEW n \in Nat \ {0},
           \A m \in 1 .. n - 1 : more[m] = rec[m] /\ choices[m] = dec[m]
    PROVE  /\ FpgaOf(more, choices, n) = FpgaOf(rec, dec, n)
           /\ more[n] = rec[n] => Swapped(more, choices, n) = Swapped(rec, dec, n)
<1>1. DrivesOf(more, choices, n) = DrivesOf(rec, dec, n)
  BY DrivesSame
<1> QED
  BY <1>1 DEF FpgaOf, Swapped

\* A reply stays the one that was due, whatever is received later.
LEMMA AnsweredStill ==
    ASSUME Answered, UNCHANGED <<setupVars, sent>>, IsList(sent),
           \A m \in 1 .. Len(sent) : received'[m] = received[m] /\ decided'[m] = decided[m]
    PROVE  Answered'
<1> SUFFICES ASSUME Len(sent) >= 1
             PROVE  sent[Len(sent)] = Answer(file, LawOf(edit), received', decided', Len(sent))
  BY DEF Answered, setupVars
<1> DEFINE n == Len(sent)
<1>1. n \in Nat \ {0}
  BY DEF IsList
<1>2. sent[n] = Answer(file, LawOf(edit), received, decided, n)
  BY DEF Answered
<1>3. \A m \in 1 .. n : received'[m] = received[m] /\ decided'[m] = decided[m]
  OBVIOUS
<1> HIDE DEF n
<1>4. Answer(file, LawOf(edit), received', decided', n)
      = Answer(file, LawOf(edit), received, decided, n)
  BY <1>1, <1>3, AnswerSame
<1> QED
  BY <1>2, <1>4 DEF n

\* Each turn leaves the cycle as described.
LEMMA ReceiveKeeps ==
    ASSUME ControlSet, ControlRun, Answered, OnlyRequested, stage = "run", at = 1, Receive
    PROVE  ControlRun' /\ Answered' /\ OnlyRequested'
<1> DEFINE n == Len(received)
           law == LawOf(edit)
<1>1. PICK d \in Datagrams :
          /\ KeptBut(DatagramAddresses) /\ OnPage(page', d)
          /\ written' = DatagramAddresses /\ received' = Append(received, d)
          /\ inner_counter = page[465][0] /\ at' = 2
          /\ UNCHANGED <<setupVars, stage, bound, counter, es, inner_counter, fpga_x,
                         stale, decided, sent>>
  BY ControlReceives
<1>2. Turned = 1 /\ Turned' = 2 /\ edit' = edit
  BY <1>1 DEF Turned, setupVars
<1>3. /\ n \in Nat /\ Len(decided) = n /\ Len(sent) = n
      /\ received \in Seq(Datagrams) /\ decided \in Seq({0, 1}) /\ IsList(sent)
      /\ ControlAddresses \subseteq DOMAIN page
  BY <1>2 DEF ControlRun, ControlTypes, ControlLengths
<1>4. /\ received' \in Seq(Datagrams) /\ Len(received') = n + 1 /\ received'[n + 1] = d
      /\ \A i \in 1 .. n : received'[i] = received[i]
  <2>1. received' = Append(received, d)
    BY <1>1
  <2> QED
    BY <1>3, <2>1, Appended
<1>5. /\ decided' = decided /\ sent' = sent /\ es' = es /\ counter' = counter
      /\ fpga_x' = fpga_x /\ inner_counter' = inner_counter /\ stale' = stale
      /\ UNCHANGED setupVars
  BY <1>1
<1>6. /\ DOMAIN page' = DOMAIN page
      /\ \A a \in {464, 465, 466, 467, 472, 480, 488} : page'[a] = page[a]
  <2> DEFINE kept == {464, 465, 466, 467, 472, 480, 488}
  <2>1. kept \subseteq ControlAddresses
    BY DEF ControlAddresses
  <2>2. \A a \in kept : a \notin DatagramAddresses
    BY DEF DatagramAddresses
  <2> HIDE DEF kept
  <2>3. DOMAIN page' = DOMAIN page /\ \A a \in kept : page'[a] = page[a]
    BY <1>1, <1>3, <2>1, <2>2, KeptAt
  <2> QED
    BY <2>3 DEF kept
<1> HIDE DEF n
<1>7. ControlTypes'
  BY <1>3, <1>4, <1>5, <1>6 DEF ControlTypes
<1>8. ControlLengths'
  BY <1>2, <1>3, <1>4, <1>5 DEF ControlLengths
<1>9. ControlSeeker'
  <2>1. es = SeekerAfter(law, received, n)
    BY <1>2 DEF ControlRun, ControlSeeker, n
  <2>2. SeekerAfter(law, received', n) = SeekerAfter(law, received, n)
    BY <1>3, <1>4, SeekerSame
  <2>3. Len(received') - 1 = n
    BY <1>3, <1>4
  <2> QED
    BY <1>2, <1>5, <2>1, <2>2, <2>3 DEF ControlSeeker
<1>10. ControlPage'
  <2>1. OnPage(page', received'[Len(received')])
    BY <1>1, <1>4
  <2>2. /\ counter \in Nat /\ page[465][0] = counter % 256 /\ page[467][0] = inner_counter
        /\ page[464][0] \in {0, 1}
        /\ Len(decided) >= 1 => page[466][0] = decided[Len(decided)]
    BY DEF ControlRun, ControlPage
  <2> QED
    BY <1>5, <1>6, <2>1, <2>2 DEF ControlPage
<1>11. ControlServed'
  <2>1. inner_counter = page[465][0]
    BY <1>1
  <2>2. /\ fpga_x = FpgaOf(received, decided, n + 1)
        /\ n >= 1 => page[480][0] = Swapped(received, decided, n)
    BY <1>3, <2>1 DEF ControlRun, ControlServed
  <2>3. FpgaOf(received', decided, n + 1) = FpgaOf(received, decided, n + 1)
    <3> DEFINE k == n + 1
    <3>1. k \in Nat \ {0} /\ \A m \in 1 .. k - 1 : received'[m] = received[m]
      BY <1>3, <1>4
    <3> HIDE DEF k
    <3>2. FpgaOf(received', decided, k) = FpgaOf(received, decided, k)
      BY <3>1, FpgaSame
    <3> QED
      BY <3>2 DEF k
  <2>4. n >= 1 => Swapped(received', decided, n) = Swapped(received, decided, n)
    <3> SUFFICES ASSUME n >= 1
                 PROVE  Swapped(received', decided, n) = Swapped(received, decided, n)
      OBVIOUS
    <3>1. n \in Nat \ {0} /\ received'[n] = received[n]
      BY <1>3, <1>4
    <3>2. \A m \in 1 .. n - 1 : received'[m] = received[m]
      BY <1>3, <1>4
    <3> QED
      BY <3>1, <3>2, FpgaSame
  <2>5. page'[465] = page[465] /\ page'[480] = page[480]
    BY <1>6
  <2>6. Len(decided') = n
    BY <1>3, <1>5
  <2> QED
    BY <1>5, <2>1, <2>2, <2>3, <2>4, <2>5, <2>6 DEF ControlServed
<1>12. ControlResults' /\ ControlWritten'
  BY <1>1, <1>2 DEF ControlResults, ControlWritten
<1>13. Answered'
  BY <1>3, <1>4, <1>5, AnsweredStill
<1> QED
  BY <1>5, <1>7, <1>8, <1>9, <1>10, <1>11, <1>12, <1>13 DEF ControlRun, OnlyRequested

LEMMA IncrementKeeps ==
    ASSUME ControlSet, ControlRun, Answered, OnlyRequested, stage = "run", at = 2,
           ExecuteIncrement
    PROVE  ControlRun' /\ Answered' /\ OnlyRequested'
<1> DEFINE n == Len(received)
           k == Len(decided)
           e == page[464][0]
           law == LawOf(edit)
<1>1. /\ KeptBut({465, 466}) /\ page'[465][0] = (counter + 1) % 256
      /\ page'[466][0] = e
      /\ decided' = Append(decided, e) /\ counter' = counter + 1
      /\ written' = written \cup {465, 466} /\ at' = 3
      /\ UNCHANGED <<setupVars, stage, bound, es, inner_counter, fpga_x, stale,
                     received, sent>>
  BY ControlIncrements
<1>2. Turned = 2 /\ Turned' = 3 /\ edit' = edit
  BY <1>1 DEF Turned, setupVars
<1>3. /\ n \in Nat /\ n >= 1 /\ k = n - 1 /\ k \in Nat /\ Len(sent) = n - 1
      /\ received \in Seq(Datagrams) /\ decided \in Seq({0, 1}) /\ IsList(sent)
      /\ ControlAddresses \subseteq DOMAIN page /\ e \in {0, 1}
  BY <1>2 DEF ControlRun, ControlTypes, ControlLengths, ControlPage
<1>4. /\ decided' \in Seq({0, 1}) /\ Len(decided') = k + 1 /\ decided'[k + 1] = e
      /\ \A i \in 1 .. k : decided'[i] = decided[i]
  <2>1. decided' = Append(decided, e)
    BY <1>1
  <2> QED
    BY <1>3, <2>1, Appended
<1>5. /\ received' = received /\ sent' = sent /\ es' = es /\ fpga_x' = fpga_x
      /\ inner_counter' = inner_counter /\ stale' = stale /\ UNCHANGED setupVars
  BY <1>1
<1>6. /\ DOMAIN page' = DOMAIN page
      /\ \A a \in DatagramAddresses \cup {464, 467, 472, 480, 488} : page'[a] = page[a]
  <2> DEFINE kept == DatagramAddresses \cup {464, 467, 472, 480, 488}
  <2>1. kept \subseteq ControlAddresses
    BY DEF ControlAddresses
  <2> DEFINE places == {465, 466}
  <2>2. KeptBut(places) /\ \A a \in kept : a \notin places
    BY <1>1 DEF DatagramAddresses
  <2>3. ControlAddresses \subseteq DOMAIN page
    BY <1>3
  <2> HIDE DEF kept, places
  <2>4. DOMAIN page' = DOMAIN page /\ \A a \in kept : page'[a] = page[a]
    BY <2>1, <2>2, <2>3, KeptAt
  <2> QED
    BY <2>4 DEF kept
<1>7. /\ OnPage(page, received[n]) /\ counter \in Nat /\ page[465][0] = counter % 256
      /\ page[467][0] = inner_counter /\ inner_counter = page[465][0]
      /\ fpga_x = FpgaOf(received, decided, k + 1)
  BY <1>2, <1>3 DEF ControlRun, ControlPage, ControlServed
<1>8. k + 1 = n /\ k + 1 \in Nat \ {0}
  BY <1>3
<1> HIDE DEF n, k, e
<1>9. ControlTypes'
  BY <1>3, <1>4, <1>5, <1>6 DEF ControlTypes
<1>10. ControlLengths'
  BY <1>2, <1>3, <1>4, <1>5, <1>8 DEF ControlLengths, n
<1>11. ControlSeeker'
  BY <1>2, <1>5 DEF ControlRun, ControlSeeker
<1>12. ControlPage'
  <2>1. OnPage(page', received[n])
    BY <1>6, <1>7, OnPageSame DEF DatagramAddresses
  <2>2. counter' \in Nat /\ page'[465][0] = counter' % 256
    BY <1>1, <1>7
  <2>3. page'[467][0] = inner_counter /\ page'[464][0] \in {0, 1}
    BY <1>3, <1>6, <1>7 DEF e
  <2>4. page'[466][0] = decided'[Len(decided')]
    BY <1>1, <1>4
  <2> QED
    BY <1>5, <2>1, <2>2, <2>3, <2>4 DEF ControlPage, n
<1>13. page'[465][0] # inner_counter
  BY <1>1, <1>7
<1>14. ControlServed'
  <2>1. \A m \in 1 .. (k + 1) - 1 : received[m] = received[m] /\ decided'[m] = decided[m]
    BY <1>3, <1>4
  <2>2. FpgaOf(received, decided', k + 1) = FpgaOf(received, decided, k + 1)
    <3> DEFINE j == k + 1
    <3>1. /\ j \in Nat \ {0}
          /\ \A m \in 1 .. j - 1 : received[m] = received[m] /\ decided'[m] = decided[m]
      BY <1>8, <2>1
    <3> HIDE DEF j
    <3>2. FpgaOf(received, decided', j) = FpgaOf(received, decided, j)
      BY <3>1, FpgaSame
    <3> QED
      BY <3>2 DEF j
  <2> QED
    BY <1>2, <1>3, <1>4, <1>5, <1>7, <1>13, <2>2 DEF ControlServed
<1>15. ControlResults'
  BY <1>2 DEF ControlResults
<1>16. ControlWritten'
  <2>1. DatagramAddresses \subseteq written
    BY <1>2 DEF ControlRun, ControlWritten
  <2> QED
    BY <1>1, <1>2, <1>5, <1>13, <2>1 DEF ControlWritten
<1>17. Answered'
  <2>1. \A m \in 1 .. Len(sent) : received'[m] = received[m] /\ decided'[m] = decided[m]
    BY <1>3, <1>4, <1>5
  <2> QED
    BY <1>3, <1>5, <2>1, AnsweredStill
<1> QED
  BY <1>5, <1>9, <1>10, <1>11, <1>12, <1>14, <1>15, <1>16, <1>17
     DEF ControlRun, OnlyRequested

LEMMA SeekingKeeps ==
    ASSUME ControlSet, ControlRun, Answered, OnlyRequested, stage = "run", at = 3,
           ExecuteSeeking(ExecuteLaw(LawOf(edit), es, ExtremumInputs))
    PROVE  ControlRun' /\ Answered' /\ OnlyRequested'
<1> DEFINE n == Len(received)
           law == LawOf(edit)
<1>1. /\ KeptBut({472}) /\ page'[472][0] = Sought(law, received, n)
      /\ es' = SeekerAfter(law, received, n)
      /\ written' = written \cup {472} /\ stale' = stale /\ at' = 4
      /\ UNCHANGED <<setupVars, stage, bound, counter, inner_counter, fpga_x,
                     received, decided, sent>>
  BY ControlSeeks
<1>2. Turned = 3 /\ Turned' = 4 /\ edit' = edit
  BY <1>1 DEF Turned, setupVars
<1>3. /\ n \in Nat /\ n >= 1 /\ Len(decided) = n /\ Len(sent) = n - 1
      /\ received \in Seq(Datagrams) /\ decided \in Seq({0, 1}) /\ IsList(sent)
      /\ ControlAddresses \subseteq DOMAIN page
  BY <1>2 DEF ControlRun, ControlTypes, ControlLengths
<1>4. /\ received' = received /\ decided' = decided /\ sent' = sent /\ fpga_x' = fpga_x
      /\ inner_counter' = inner_counter /\ counter' = counter /\ UNCHANGED setupVars
  BY <1>1
<1>5. /\ DOMAIN page' = DOMAIN page
      /\ \A a \in DatagramAddresses \cup {464, 465, 466, 467, 480, 488} : page'[a] = page[a]
  <2> DEFINE kept == DatagramAddresses \cup {464, 465, 466, 467, 480, 488}
  <2>1. kept \subseteq ControlAddresses
    BY DEF ControlAddresses
  <2>2. \A a \in kept : a \notin {472}
    BY DEF DatagramAddresses
  <2> HIDE DEF kept
  <2>3. DOMAIN page' = DOMAIN page /\ \A a \in kept : page'[a] = page[a]
    BY <1>1, <1>3, <2>1, <2>2, KeptAt
  <2> QED
    BY <2>3 DEF kept
<1>6. page'[465] = page[465] /\ page'[480] = page[480] /\ page'[464] = page[464]
      /\ page'[466] = page[466] /\ page'[467] = page[467]
  BY <1>5
<1>7. ControlTypes'
  BY <1>3, <1>4, <1>5 DEF ControlTypes
<1>8. ControlLengths'
  BY <1>2, <1>3, <1>4 DEF ControlLengths
<1>9. ControlSeeker'
  BY <1>1, <1>2, <1>4 DEF ControlSeeker
<1>10. ControlPage'
  <2>1. OnPage(page', received[n])
    <3>1. OnPage(page, received[n])
      BY <1>3 DEF ControlRun, ControlPage
    <3>2. \A a \in {0, 88, 96, 184, 192, 200, 208} : page'[a] = page[a]
      BY <1>5 DEF DatagramAddresses
    <3> QED
      BY <3>1, <3>2, OnPageSame
  <2> QED
    BY <1>4, <1>6, <2>1 DEF ControlRun, ControlPage
<1>11. ControlServed'
  BY <1>2, <1>3, <1>4, <1>6 DEF ControlRun, ControlServed
<1>12. ControlResults'
  BY <1>1, <1>2, <1>4 DEF ControlResults
<1>13. ControlWritten'
  BY <1>1, <1>2, <1>4, <1>6 DEF ControlRun, ControlWritten
<1>14. Answered'
  BY <1>3, <1>4, AnsweredStill
<1> QED
  BY <1>1, <1>7, <1>8, <1>9, <1>10, <1>11, <1>12, <1>13, <1>14
     DEF ControlRun, OnlyRequested

LEMMA SwapKeeps ==
    ASSUME ControlSet, ControlRun, Answered, OnlyRequested, stage = "run", at = 4,
           ExecuteSwap
    PROVE  ControlRun' /\ Answered' /\ OnlyRequested'
<1> DEFINE n == Len(received)
           law == LawOf(edit)
<1>1. /\ KeptBut({488})
      /\ page'[488][0] = Answer(file, law, received, decided, n)
      /\ written' = written \cup {488} /\ stale' = stale /\ at' = 5
      /\ UNCHANGED <<setupVars, stage, bound, counter, es, inner_counter, fpga_x,
                     received, decided, sent>>
  BY ControlSwaps
<1>2. Turned = 4 /\ Turned' = 5 /\ edit' = edit /\ file' = file
  BY <1>1 DEF Turned, setupVars
<1>3. /\ n \in Nat /\ n >= 1 /\ Len(decided) = n /\ Len(sent) = n - 1
      /\ received \in Seq(Datagrams) /\ decided \in Seq({0, 1}) /\ IsList(sent)
      /\ ControlAddresses \subseteq DOMAIN page
  BY <1>2 DEF ControlRun, ControlTypes, ControlLengths
<1>4. /\ received' = received /\ decided' = decided /\ sent' = sent /\ fpga_x' = fpga_x
      /\ inner_counter' = inner_counter /\ counter' = counter /\ es' = es
      /\ UNCHANGED setupVars
  BY <1>1
<1>5. /\ DOMAIN page' = DOMAIN page
      /\ \A a \in DatagramAddresses \cup {464, 465, 466, 467, 472, 480} : page'[a] = page[a]
  <2> DEFINE kept == DatagramAddresses \cup {464, 465, 466, 467, 472, 480}
  <2>1. kept \subseteq ControlAddresses
    BY DEF ControlAddresses
  <2>2. \A a \in kept : a \notin {488}
    BY DEF DatagramAddresses
  <2> HIDE DEF kept
  <2>3. DOMAIN page' = DOMAIN page /\ \A a \in kept : page'[a] = page[a]
    BY <1>1, <1>3, <2>1, <2>2, KeptAt
  <2> QED
    BY <2>3 DEF kept
<1>6. page'[465] = page[465] /\ page'[480] = page[480] /\ page'[464] = page[464]
      /\ page'[466] = page[466] /\ page'[467] = page[467]
  BY <1>5
<1>7. ControlTypes'
  BY <1>3, <1>4, <1>5 DEF ControlTypes
<1>8. ControlLengths'
  BY <1>2, <1>3, <1>4 DEF ControlLengths
<1>9. ControlSeeker'
  BY <1>2, <1>4 DEF ControlRun, ControlSeeker
<1>10. ControlPage'
  <2>1. OnPage(page', received[n])
    <3>1. OnPage(page, received[n])
      BY <1>3 DEF ControlRun, ControlPage
    <3>2. \A a \in {0, 88, 96, 184, 192, 200, 208} : page'[a] = page[a]
      BY <1>5 DEF DatagramAddresses
    <3> QED
      BY <3>1, <3>2, OnPageSame
  <2> QED
    BY <1>4, <1>6, <2>1 DEF ControlRun, ControlPage
<1>11. ControlServed'
  BY <1>2, <1>3, <1>4, <1>6 DEF ControlRun, ControlServed
<1>12. ControlResults'
  BY <1>1, <1>2, <1>4 DEF ControlResults
<1>13. ControlWritten'
  BY <1>1, <1>2, <1>4, <1>6 DEF ControlRun, ControlWritten
<1>14. Answered'
  BY <1>3, <1>4, AnsweredStill
<1> QED
  BY <1>1, <1>7, <1>8, <1>9, <1>10, <1>11, <1>12, <1>13, <1>14
     DEF ControlRun, OnlyRequested

LEMMA CopyKeeps ==
    ASSUME ControlSet, ControlRun, Answered, OnlyRequested, stage = "run", at \in {5, 6},
           CopyOut
    PROVE  ControlRun' /\ Answered' /\ OnlyRequested'
<1> DEFINE n == Len(received)
           reply == page[488][0]
<1>1. /\ IF at = 5 THEN sent' = Append(sent, reply) /\ stale' = stale
         ELSE sent' = sent /\ stale' \subseteq stale \cup {"VS3_req"}
      /\ at' \in {1, 6} /\ at' # at
      /\ UNCHANGED <<setupVars, stage, bound, page, counter, es, inner_counter,
                     fpga_x, written, received, decided>>
  BY ControlCopies
<1>2. Turned = at /\ Turned' = at' /\ edit' = edit /\ file' = file
  BY <1>1 DEF Turned, setupVars
<1>3. /\ n \in Nat /\ n >= 1 /\ Len(decided) = n
      /\ Len(sent) = IF at = 5 THEN n - 1 ELSE n
      /\ received \in Seq(Datagrams) /\ decided \in Seq({0, 1}) /\ IsList(sent)
  BY <1>2 DEF ControlRun, ControlTypes, ControlLengths
<1>4. /\ received' = received /\ decided' = decided /\ page' = page /\ fpga_x' = fpga_x
      /\ inner_counter' = inner_counter /\ counter' = counter /\ es' = es
      /\ written' = written /\ UNCHANGED setupVars
  BY <1>1
<1> HIDE DEF reply
<1>5. ASSUME at = 5
      PROVE  IsList(sent') /\ Len(sent') = n /\ sent'[n] = reply
  <2>1. sent' = Append(sent, reply) /\ Len(sent) + 1 = n
    BY <1>1, <1>3, <1>5
  <2>2. /\ IsList(Append(sent, reply)) /\ Len(Append(sent, reply)) = Len(sent) + 1
        /\ Append(sent, reply)[Len(sent) + 1] = reply
    BY <1>3, ListGrown
  <2> QED
    BY <2>1, <2>2
<1>6. IsList(sent') /\ Len(sent') = n
  BY <1>1, <1>3, <1>5
<1> HIDE DEF n
<1>7. ControlTypes'
  BY <1>4, <1>6 DEF ControlRun, ControlTypes
<1>8. ControlLengths'
  BY <1>1, <1>2, <1>3, <1>4, <1>6 DEF ControlLengths, n
<1>9. ControlSeeker'
  BY <1>1, <1>2, <1>4 DEF ControlRun, ControlSeeker
<1>10. ControlPage'
  BY <1>4 DEF ControlRun, ControlPage
<1>11. ControlServed'
  BY <1>1, <1>2, <1>4 DEF ControlRun, ControlServed
<1>12. ControlResults'
  BY <1>1, <1>2 DEF ControlResults
<1>13. ControlWritten'
  BY <1>1, <1>2, <1>4 DEF ControlRun, ControlWritten
<1>14. Answered'
  <2>1. CASE at = 5
    <3>1. reply = Answer(file, LawOf(edit), received, decided, n)
      BY <1>2, <2>1 DEF ControlRun, ControlResults, reply, n
    <3>2. sent'[Len(sent')] = reply /\ Len(sent') = n
      BY <1>5, <1>6, <2>1
    <3> QED
      BY <1>2, <1>4, <3>1, <3>2 DEF Answered
  <2>2. CASE at = 6
    BY <1>1, <1>2, <1>4, <2>2 DEF Answered
  <2> QED
    BY <2>1, <2>2
<1>15. OnlyRequested'
  BY <1>1 DEF OnlyRequested
<1> QED
  BY <1>7, <1>8, <1>9, <1>10, <1>11, <1>12, <1>13, <1>14, <1>15 DEF ControlRun

LEMMA FpgaKeeps ==
    ASSUME ControlSet, ControlRun, Answered, OnlyRequested, stage = "run", FpgaServes
    PROVE  ControlRun' /\ Answered' /\ OnlyRequested'
<1> DEFINE n == Len(received)
           v == page[465][0]
<1>1. /\ KeptBut({467, 480}) /\ inner_counter # v
      /\ page'[467][0] = v /\ inner_counter' = v
      /\ Len(decided) = n /\ n >= 1 /\ at # 2
      /\ page'[480][0] = Swapped(received, decided, Len(decided))
      /\ fpga_x' = FpgaOf(received, decided, Len(decided) + 1)
      /\ written' = written \cup {467, 480}
      /\ UNCHANGED <<setupVars, stage, at, bound, counter, es, stale, received,
                     decided, sent>>
  BY ControlFpga
<1>2. Turned = at /\ Turned' = at /\ edit' = edit /\ file' = file
  BY <1>1 DEF Turned, setupVars
<1>3. /\ n \in Nat /\ received \in Seq(Datagrams) /\ decided \in Seq({0, 1})
      /\ IsList(sent) /\ ControlAddresses \subseteq DOMAIN page
  BY DEF ControlRun, ControlTypes
<1>4. /\ received' = received /\ decided' = decided /\ sent' = sent /\ es' = es
      /\ counter' = counter /\ stale' = stale /\ UNCHANGED setupVars
  BY <1>1
<1>5. /\ DOMAIN page' = DOMAIN page
      /\ \A a \in DatagramAddresses \cup {464, 465, 466, 472, 488} : page'[a] = page[a]
  <2> DEFINE kept == DatagramAddresses \cup {464, 465, 466, 472, 488}
             places == {467, 480}
  <2>1. kept \subseteq ControlAddresses
    BY DEF ControlAddresses
  <2>2. KeptBut(places) /\ \A a \in kept : a \notin places
    BY <1>1 DEF DatagramAddresses
  <2> HIDE DEF kept, places
  <2>3. DOMAIN page' = DOMAIN page /\ \A a \in kept : page'[a] = page[a]
    BY <1>3, <2>1, <2>2, KeptAt
  <2> QED
    BY <2>3 DEF kept
<1>6. /\ page'[464] = page[464] /\ page'[465] = page[465] /\ page'[466] = page[466]
      /\ page'[472] = page[472] /\ page'[488] = page[488]
  BY <1>5
<1>7. ControlTypes'
  BY <1>3, <1>4, <1>5 DEF ControlTypes
<1>8. ControlLengths'
  BY <1>2, <1>4 DEF ControlRun, ControlLengths
<1>9. ControlSeeker'
  BY <1>2, <1>4 DEF ControlRun, ControlSeeker
<1>10. ControlPage'
  <2>1. OnPage(page', received[n])
    <3>1. OnPage(page, received[n])
      BY <1>1 DEF ControlRun, ControlPage
    <3>2. \A a \in {0, 88, 96, 184, 192, 200, 208} : page'[a] = page[a]
      BY <1>5 DEF DatagramAddresses
    <3> QED
      BY <3>1, <3>2, OnPageSame
  <2>2. page'[467][0] = inner_counter'
    BY <1>1
  <2> QED
    BY <1>4, <1>6, <2>1, <2>2 DEF ControlRun, ControlPage
<1>11. ControlServed'
  <2>1. inner_counter' = page'[465][0]
    BY <1>1, <1>6
  <2> QED
    BY <1>1, <1>4, <2>1 DEF ControlServed
<1>12. ControlResults'
  BY <1>2, <1>4, <1>6 DEF ControlRun, ControlResults
<1>13. ControlWritten'
  BY <1>1, <1>2 DEF ControlRun, ControlWritten
<1>14. Answered'
  BY <1>3, <1>4, AnsweredStill
<1> QED
  BY <1>4, <1>7, <1>8, <1>9, <1>10, <1>11, <1>12, <1>13, <1>14
     DEF ControlRun, OnlyRequested

LEMMA DecisionKeeps ==
    ASSUME ControlSet, ControlRun, Answered, OnlyRequested, stage = "run", OracleDecides
    PROVE  ControlRun' /\ Answered' /\ OnlyRequested'
<1> DEFINE n == Len(received)
<1>1. /\ KeptBut({464}) /\ page'[464][0] \in {0, 1} /\ at = 1
      /\ UNCHANGED <<setupVars, stage, at, bound, counter, es, inner_counter, fpga_x,
                     written, stale, received, decided, sent>>
  BY ControlDecides
<1>2. Turned = 1 /\ Turned' = 1 /\ edit' = edit /\ file' = file
  BY <1>1 DEF Turned, setupVars
<1>3. /\ n \in Nat /\ IsList(sent) /\ ControlAddresses \subseteq DOMAIN page
  BY DEF ControlRun, ControlTypes
<1>4. /\ received' = received /\ decided' = decided /\ sent' = sent /\ es' = es
      /\ counter' = counter /\ stale' = stale /\ written' = written /\ fpga_x' = fpga_x
      /\ inner_counter' = inner_counter /\ UNCHANGED setupVars
  BY <1>1
<1>5. /\ DOMAIN page' = DOMAIN page
      /\ \A a \in DatagramAddresses \cup {465, 466, 467, 472, 480, 488} : page'[a] = page[a]
  <2> DEFINE kept == DatagramAddresses \cup {465, 466, 467, 472, 480, 488}
             places == {464}
  <2>1. kept \subseteq ControlAddresses
    BY DEF ControlAddresses
  <2>2. KeptBut(places) /\ \A a \in kept : a \notin places
    BY <1>1 DEF DatagramAddresses
  <2> HIDE DEF kept, places
  <2>3. DOMAIN page' = DOMAIN page /\ \A a \in kept : page'[a] = page[a]
    BY <1>3, <2>1, <2>2, KeptAt
  <2> QED
    BY <2>3 DEF kept
<1>6. /\ page'[465] = page[465] /\ page'[466] = page[466] /\ page'[467] = page[467]
      /\ page'[472] = page[472] /\ page'[480] = page[480] /\ page'[488] = page[488]
  BY <1>5
<1>7. ControlTypes'
  BY <1>4, <1>5 DEF ControlRun, ControlTypes
<1>8. ControlLengths'
  BY <1>2, <1>4 DEF ControlRun, ControlLengths
<1>9. ControlSeeker'
  BY <1>2, <1>4 DEF ControlRun, ControlSeeker
<1>10. ControlPage'
  <2>1. ASSUME n >= 1 PROVE OnPage(page', received[n])
    <3>1. OnPage(page, received[n])
      BY <2>1 DEF ControlRun, ControlPage
    <3>2. \A a \in {0, 88, 96, 184, 192, 200, 208} : page'[a] = page[a]
      BY <1>5 DEF DatagramAddresses
    <3> QED
      BY <3>1, <3>2, OnPageSame
  <2> QED
    BY <1>1, <1>4, <1>6, <2>1 DEF ControlRun, ControlPage
<1>11. ControlServed'
  BY <1>2, <1>4, <1>6 DEF ControlRun, ControlServed
<1>12. ControlResults'
  BY <1>2 DEF ControlResults
<1>13. ControlWritten'
  BY <1>2 DEF ControlWritten
<1>14. Answered'
  BY <1>3, <1>4, AnsweredStill
<1> QED
  BY <1>4, <1>7, <1>8, <1>9, <1>10, <1>11, <1>12, <1>13, <1>14
     DEF ControlRun, OnlyRequested

\* What holds of a controller that swaps from its start, and in its cycles.
ControlInv ==
    /\ Going => ControlRun
    /\ Answered /\ OnlyRequested

LEMMA ControlNext ==
    ASSUME Ready, file \in ControlFiles, ControlInv, [Next]_vars
    PROVE  ControlInv'
<1>1. ControlSet
  BY ControlIsSet
<1>2. CASE stage = "run" /\ stage' = "run" /\ Next
  <2>1. ControlRun /\ Answered /\ OnlyRequested
    BY <1>2 DEF ControlInv, Going
  <2>2. \/ at = 1 /\ Receive
        \/ at = 2 /\ ExecuteIncrement
        \/ at = 3 /\ ExecuteSeeking(ExecuteLaw(LawOf(edit), es, ExtremumInputs))
        \/ at = 4 /\ ExecuteSwap
        \/ at \in {5, 6} /\ CopyOut
        \/ FpgaServes
        \/ OracleDecides
    BY <1>1, <1>2, ControlTurns
  <2>3. ControlRun' /\ Answered' /\ OnlyRequested'
    BY <1>1, <1>2, <2>1, <2>2, ReceiveKeeps, IncrementKeeps, SeekingKeeps, SwapKeeps,
       CopyKeeps, FpgaKeeps, DecisionKeeps
  <2> QED
    BY <2>3 DEF ControlInv
<1>3. CASE (stage # "run" \/ stage' # "run") /\ Going'
  <2>1. UNCHANGED cycleVars /\ UNCHANGED setupVars /\ Going
    BY <1>3, StageSteps DEF Going
  <2>2. Turned' = Turned
    BY <1>3, StageSteps, RunGoes DEF Going, Turned
  <2> QED
  BY <2>1, <2>2
     DEF ControlInv, ControlRun, ControlTypes, ControlLengths, ControlSeeker, ControlPage,
         ControlServed, ControlResults, ControlWritten, Answered, OnlyRequested,
         cycleVars, setupVars
<1>4. CASE (stage # "run" \/ stage' # "run") /\ ~Going'
  <2>1. UNCHANGED cycleVars /\ UNCHANGED setupVars
    BY <1>4, StageSteps
  <2> QED
    BY <1>4, <2>1 DEF ControlInv, Answered, OnlyRequested, cycleVars, setupVars
<1>5. CASE UNCHANGED vars
  BY <1>5
     DEF ControlInv, ControlRun, ControlTypes, ControlLengths, ControlSeeker, ControlPage,
         ControlServed, ControlResults, ControlWritten, Answered, OnlyRequested,
         cycleVars, setupVars, vars, Turned, Going, lawVars, fpgaVars
<1> QED
  BY <1>2, <1>3, <1>4, <1>5

LEMMA ReadyStarts == Init /\ Unspoilt => Ready
<1> SUFFICES ASSUME Init, Unspoilt PROVE Ready
  OBVIOUS
<1>1. Chosen
  BY DEF Init, Chosen
<1>2. at \in DOMAIN gams
  <2>1. Len(gams) \in Nat \ {0} /\ DOMAIN gams = 1 .. Len(gams)
    BY <1>1, ListOfGams
  <2>2. at = 1
    BY DEF Init
  <2> QED
    BY <2>1, <2>2
<1>3. DOMAIN bound = DOMAIN gams /\ stage = "initialise"
  BY DEF Init
<1> QED
  BY <1>1, <1>2, <1>3 DEF Ready

\* What a run starts from.
LEMMA Starting ==
    ASSUME Init
    PROVE  /\ received = << >> /\ decided = << >> /\ sent = << >> /\ Turned = 1
           /\ es = Fresh /\ x_old = 0 /\ counter = 0 /\ inner_counter = 0 /\ fpga_x = 0
           /\ stale = {} /\ {464, 465, 466, 467, 480, 184, 208} \subseteq DOMAIN page
           /\ \A n \in DOMAIN layout : layout[n] \in DOMAIN page
           /\ \A a \in DOMAIN page : page[a][0] = 0
<1>1. page = [a \in {Field(f) : f \in FieldsUsed} \cup {layout[n] : n \in DOMAIN layout} |->
                 Zeros(29)]
  BY DEF Init
<1>2. DOMAIN page = {Field(f) : f \in FieldsUsed} \cup {layout[n] : n \in DOMAIN layout}
  BY <1>1
<1>3. Zeros(29)[0] = 0
  BY DEF Zeros
<1>4. \A a \in DOMAIN page : page[a][0] = 0
  <2>1. \A a \in DOMAIN page : page[a] = Zeros(29)
    BY <1>1, <1>2
  <2> QED
    BY <1>3, <2>1
<1>5. {464, 465, 466, 467, 480, 184, 208} \subseteq DOMAIN page
  <2>1. \A f \in FieldsUsed : Field(f) \in DOMAIN page
    BY <1>2
  <2>2. /\ "oracle_decision" \in FieldsUsed /\ "input_counter" \in FieldsUsed
        /\ "marte_strategy" \in FieldsUsed /\ "output_counter" \in FieldsUsed
        /\ "ivs3" \in FieldsUsed /\ "zdot" \in FieldsUsed /\ "classic_output" \in FieldsUsed
    BY DEF FieldsUsed
  <2>3. /\ 464 \in DOMAIN page /\ 465 \in DOMAIN page /\ 466 \in DOMAIN page
        /\ 467 \in DOMAIN page /\ 480 \in DOMAIN page /\ 184 \in DOMAIN page
        /\ 208 \in DOMAIN page
    <3>1. Field("oracle_decision") \in DOMAIN page
      BY <2>1, <2>2
    <3>2. Field("input_counter") \in DOMAIN page
      BY <2>1, <2>2
    <3>3. Field("marte_strategy") \in DOMAIN page
      BY <2>1, <2>2
    <3>4. Field("output_counter") \in DOMAIN page
      BY <2>1, <2>2
    <3>5. Field("classic_output") \in DOMAIN page
      BY <2>1, <2>2
    <3>6. Field("ivs3") \in DOMAIN page
      BY <2>1, <2>2
    <3>7. Field("zdot") \in DOMAIN page
      BY <2>1, <2>2
    <3> QED
      BY <3>1, <3>2, <3>3, <3>4, <3>5, <3>6, <3>7, Fields
  <2> QED
    BY <2>3
<1>6. \A n \in DOMAIN layout : layout[n] \in DOMAIN page
  BY <1>2
<1>7. /\ received = << >> /\ decided = << >> /\ sent = << >>
      /\ stage = "initialise" /\ es = Fresh /\ x_old = 0 /\ counter = 0
      /\ inner_counter = 0 /\ fpga_x = 0 /\ stale = {}
  BY DEF Init
<1> QED
  BY <1>4, <1>5, <1>6, <1>7 DEF Turned

LEMMA EmptyList ==
    ASSUME NEW S
    PROVE  << >> \in Seq(S) /\ IsList(<< >>) /\ Len(<< >>) = 0
BY DEF IsList

LEMMA LawsUsed == \A change : IsLaw(LawOf(change)) /\ LawOf(change).step \in Int
BY LawsAre DEF LawOf, VSGAMExtremum, VSGAMExtremum_1khz

LEMMA ControlStarts ==
    ASSUME Init, Unspoilt, file \in ControlFiles
    PROVE  ControlInv
<1>1. ControlSet
  BY ReadyStarts, ControlIsSet
<1>2. /\ received = << >> /\ decided = << >> /\ sent = << >> /\ Turned = 1
      /\ es = Fresh /\ counter = 0 /\ inner_counter = 0 /\ fpga_x = 0 /\ stale = {}
      /\ \A a \in DOMAIN page : page[a][0] = 0
  BY Starting
<1>3. ControlAddresses \subseteq DOMAIN page
  <2>1. \A n \in PageNames : layout[n] \in DOMAIN page
    BY <1>1, Starting DEF ControlSet
  <2>2. /\ 0 \in DOMAIN page /\ 88 \in DOMAIN page /\ 96 \in DOMAIN page
        /\ 184 \in DOMAIN page /\ 192 \in DOMAIN page /\ 200 \in DOMAIN page
        /\ 208 \in DOMAIN page /\ 216 \in DOMAIN page /\ 448 \in DOMAIN page
    BY <1>1, <2>1 DEF ControlSet, ControlPlaces, PageNames
  <2>3. /\ 464 \in DOMAIN page /\ 465 \in DOMAIN page /\ 466 \in DOMAIN page
        /\ 467 \in DOMAIN page /\ 472 \in DOMAIN page /\ 480 \in DOMAIN page
        /\ 488 \in DOMAIN page
    BY <1>1, <2>1 DEF ControlSet, ControlPlaces, PageNames
  <2> QED
    BY <2>2, <2>3 DEF ControlAddresses, DatagramAddresses
<1>4. /\ received \in Seq(Datagrams) /\ decided \in Seq({0, 1}) /\ IsList(sent)
      /\ Len(received) = 0 /\ Len(decided) = 0 /\ Len(sent) = 0
  BY <1>2, EmptyList
<1>5. page[464][0] = 0 /\ page[465][0] = 0 /\ page[467][0] = 0
  BY <1>2, <1>3 DEF ControlAddresses
<1>6. ControlTypes /\ ControlLengths
  BY <1>2, <1>3, <1>4 DEF ControlTypes, ControlLengths
<1>7. ControlSeeker
  <2>1. SeekerAfter(LawOf(edit), received, 0) = Fresh
    BY LawsUsed, SeekerFresh
  <2> QED
    BY <1>2, <1>4, <2>1 DEF ControlSeeker
<1>8. ControlPage
  <2>1. 0 % 256 = 0
    OBVIOUS
  <2> QED
    BY <1>2, <1>4, <1>5, <2>1 DEF ControlPage
<1>9. ControlServed
  <2>1. FpgaOf(received, decided, 1) = 0
    BY FpgaStart
  <2>2. Len(decided) + 1 = 1
    BY <1>4
  <2> QED
    BY <1>2, <1>4, <1>5, <2>1, <2>2 DEF ControlServed
<1>10. ControlResults /\ ControlWritten
  BY <1>2 DEF ControlResults, ControlWritten
<1>11. Answered /\ OnlyRequested
  BY <1>2, <1>4 DEF Answered, OnlyRequested
<1> QED
  BY <1>6, <1>7, <1>8, <1>9, <1>10, <1>11 DEF ControlInv, ControlRun
-----------------------------------------------------------------------------
(***************************************************************************)
(* The controller that seeks alone.                                        *)
(***************************************************************************)
NoSwapTypes ==
    /\ received \in Seq(Datagrams) /\ IsList(sent)
    /\ DatagramAddresses \cup {464} \subseteq DOMAIN page

NoSwapLengths ==
    /\ Len(sent) = IF Turned = 1 THEN Len(received) ELSE Len(received) - 1
    /\ Turned > 1 => Len(received) >= 1

NoSwapSeeker ==
    es = SeekerAfter(LawOf(edit), received,
                     IF Turned = 2 THEN Len(received) - 1 ELSE Len(received))

NoSwapPage ==
    /\ Turned = 2 => OnPage(page, received[Len(received)])
    /\ Turned = 3 => page[464][0] = Sought(LawOf(edit), received, Len(received))

NoSwapWritten ==
    /\ Turned = 2 => DatagramAddresses \subseteq written
    /\ Turned = 3 => 464 \in written

NoSwapRun == NoSwapTypes /\ NoSwapLengths /\ NoSwapSeeker /\ NoSwapPage /\ NoSwapWritten

NoSwapSet ==
    /\ file = "VSES_Control_noSwap" /\ edit \in {NoEdit, Variant}
    /\ NoSwapGams(gams, edit) /\ at \in 1 .. 3
    /\ NoSwapPlaces(layout) /\ DatagramNames \cup {"VS3_ref"} \subseteq DOMAIN layout
    /\ ~Shared
    /\ stage = "run" => \A g \in DOMAIN gams : bound[g] = PointersOf(layout, gams[g])

LEMMA NoSwapClasses ==
    ASSUME NoSwapGams(gams, edit)
    PROVE  /\ gams[1].class = "IOGAM" /\ gams[1].source = "UDPReceiver"
           /\ gams[2].class = LawClass(edit)
           /\ gams[3].class = "IOGAM" /\ gams[3].source = "page"
           /\ gams[3].target = "UDPSender"
BY DEF NoSwapGams, GAMUDPReceiver, GAMUDPSender, Gam

LEMMA NoSwapIsSet ==
    ASSUME Ready, file = "VSES_Control_noSwap"
    PROVE  NoSwapSet
<1>1. /\ edit \in {NoEdit, Variant} /\ gams = Apply(edit, Configuration[file])
      /\ layout = Layout(gams)
  BY DEF Ready, Unspoilt, Chosen
<1>2. Configuration[file] = VSES_Control_noSwap
  BY DEF Configuration
<1>3. NoSwapGams(gams, edit)
  BY <1>1, <1>2, NoSwapListed
<1>4. NoSwapPlaces(layout) /\ DatagramNames \cup {"VS3_ref"} \subseteq DOMAIN layout
  <2>1. VSES_Control_noSwap \in GamLists
    BY ConfigurationType DEF Configuration
  <2>2. Met(gams) = Met(VSES_Control_noSwap)
    BY <1>1, <1>2, <2>1, MetUnspoilt
  <2> QED
    BY <1>1, <2>2, NoSwapLaid
<1>5. ~Shared
  <2>1. /\ gams[1].class = "IOGAM" /\ gams[2].class = LawClass(edit)
        /\ gams[3].class = "IOGAM"
    BY <1>3, NoSwapClasses
  <2>2. DOMAIN gams = 1 .. 3
    BY <1>3 DEF NoSwapGams
  <2>3. LawClass(edit) # "VSGAMSwap"
    BY DEF LawClass
  <2> QED
    BY <2>1, <2>2, <2>3 DEF Shared
<1>6. at \in 1 .. 3
  BY <1>3 DEF Ready, NoSwapGams
<1>7. stage = "run" => \A g \in DOMAIN gams : bound[g] = PointersOf(layout, gams[g])
  BY DEF Ready
<1> QED
  BY <1>1, <1>3, <1>4, <1>5, <1>6, <1>7 DEF NoSwapSet

LEMMA NoSwapTurns ==
    ASSUME NoSwapSet, stage = "run", stage' = "run", Next
    PROVE  \/ at = 1 /\ Receive
           \/ at = 2 /\ ExecuteSeeking(ExecuteLaw(LawOf(edit), es, ExtremumInputs))
           \/ at = 3 /\ CopyOut
<1>1. /\ gams[1].class = "IOGAM" /\ gams[1].source = "UDPReceiver"
      /\ gams[2].class = LawClass(edit)
      /\ gams[3].class = "IOGAM" /\ gams[3].source = "page"
  BY NoSwapClasses DEF NoSwapSet
<1>2. at \in 1 .. 3
  BY DEF NoSwapSet
<1>3. LawClass(edit) \in {"VSGAMExtremum", "VSGAMExtremum_1khz"}
  BY DEF LawClass
<1>4. CASE Receive
  <2>1. gams[at].class = "IOGAM" /\ gams[at].source = "UDPReceiver"
    BY <1>4 DEF Receive, Turn, Gam1
  <2>2. at = 1
    BY <1>1, <1>2, <1>3, <2>1
  <2> QED
    BY <1>4, <2>2
<1>5. CASE WaitForTimer
  <2>1. gams[at].class = "IOGAM" /\ gams[at].source = "Timer"
    BY <1>5 DEF WaitForTimer, Turn, Gam1
  <2> QED
    BY <1>1, <1>2, <1>3, <2>1
<1>6. CASE CopyOut
  <2>1. gams[at].class = "IOGAM" /\ gams[at].source = "page"
    BY <1>6 DEF CopyOut, Turn, Gam1
  <2>2. at = 3
    BY <1>1, <1>2, <1>3, <2>1
  <2> QED
    BY <1>6, <2>2
<1>7. CASE ExecuteIncrement \/ ExecuteSwap \/ ExecuteClassicGam
  <2>1. gams[at].class \in {"VSGAMIncrement", "VSGAMSwap", "VSGAMClassic"}
    BY <1>7 DEF ExecuteIncrement, ExecuteSwap, ExecuteClassicGam, Turn, Gam1
  <2> QED
    BY <1>1, <1>2, <1>3, <2>1
<1>8. CASE ExecuteExtremumGam
  <2>1. gams[at].class = "VSGAMExtremum"
    BY <1>8 DEF ExecuteExtremumGam, Turn, Gam1
  <2>2. at = 2
    BY <1>1, <1>2, <1>3, <2>1
  <2>3. LawOf(edit) = VSGAMExtremum
    BY <1>1, <2>1, <2>2 DEF LawOf, LawClass
  <2> QED
    BY <1>8, <2>2, <2>3 DEF ExecuteExtremumGam, ExecuteExtremum
<1>9. CASE ExecuteExtremum_1khzGam
  <2>1. gams[at].class = "VSGAMExtremum_1khz"
    BY <1>9 DEF ExecuteExtremum_1khzGam, Turn, Gam1
  <2>2. at = 2
    BY <1>1, <1>2, <1>3, <2>1
  <2>3. LawOf(edit) = VSGAMExtremum_1khz
    BY <1>1, <2>1, <2>2 DEF LawOf, LawClass
  <2> QED
    BY <1>9, <2>2, <2>3 DEF ExecuteExtremum_1khzGam, ExecuteExtremum_1khz
<1>10. ~FpgaServes /\ ~OracleDecides
  BY DEF NoSwapSet, FpgaServes, OracleDecides
<1>11. ~Initialise /\ ~Setup /\ ~Stray
  BY DEF Initialise, Setup, Stray
<1> QED
  BY <1>4, <1>5, <1>6, <1>7, <1>8, <1>9, <1>10, <1>11 DEF Next, Thread

LEMMA NoSwapReceives ==
    ASSUME NoSwapSet, NoSwapRun, Answered, OnlyRequested, stage = "run", at = 1, Receive
    PROVE  NoSwapRun' /\ Answered' /\ OnlyRequested'
<1> DEFINE n == Len(received)
           law == LawOf(edit)
<1>1. Gam1.outputs = Datagram /\ Len(gams) = 3
  BY DEF NoSwapSet, NoSwapGams, GAMUDPReceiver, Gam, Gam1
<1>2. PICK d \in Datagrams :
          /\ page' = Filling(page, layout, Gam1.outputs, d)
          /\ written' = {layout[m] : m \in {s.name : s \in ToSet(Gam1.outputs)}}
          /\ received' = Append(received, d)
  BY Zenon DEF Receive, Filling
<1>3. DatagramPlaces(layout)
  BY DEF NoSwapSet, NoSwapPlaces
<1>4. n \in Nat /\ Len(sent) = n /\ received \in Seq(Datagrams) /\ IsList(sent)
      /\ DatagramAddresses \cup {464} \subseteq DOMAIN page
  BY DEF NoSwapRun, NoSwapTypes, NoSwapLengths, Turned
<1>5. DOMAIN page' = DOMAIN page /\ OnPage(page', d)
  BY <1>1, <1>2, <1>3, <1>4, DatagramFills
<1>6. written' = DatagramAddresses
  <2>1. DOMAIN Datagram = 1 .. 9
    BY DatagramElements
  <2>2. \A s \in 1 .. 9 : layout[Datagram[s].name] = Addresses[s]
    BY <1>3, DatagramPlaced
  <2>3. {layout[m] : m \in {s.name : s \in ToSet(Datagram)}} = {Addresses[s] : s \in 1 .. 9}
    BY <2>1, <2>2 DEF ToSet
  <2> QED
    BY <1>1, <1>2, <2>3, AddressesAre
<1>7. at' = 2
  BY <1>1 DEF Receive, NextGam
<1>8. UNCHANGED setupVars /\ es' = es /\ sent' = sent /\ stale' = stale /\ stage' = stage
      /\ decided' = decided
  BY DEF Receive, lawVars
<1>9. Turned = 1 /\ Turned' = 2 /\ edit' = edit
  BY <1>7, <1>8 DEF Turned, setupVars
<1>10. /\ received' \in Seq(Datagrams) /\ Len(received') = n + 1 /\ received'[n + 1] = d
       /\ \A i \in 1 .. n : received'[i] = received[i]
  <2>1. received' = Append(received, d)
    BY <1>2
  <2> QED
    BY <1>4, <2>1, Appended
<1> HIDE DEF n
<1>11. NoSwapTypes'
  BY <1>4, <1>5, <1>8, <1>10 DEF NoSwapTypes
<1>12. NoSwapLengths'
  BY <1>4, <1>8, <1>9, <1>10 DEF NoSwapLengths
<1>13. NoSwapSeeker'
  <2>1. es = SeekerAfter(law, received, n)
    BY <1>9 DEF NoSwapRun, NoSwapSeeker, n
  <2>2. SeekerAfter(law, received', n) = SeekerAfter(law, received, n)
    BY <1>4, <1>10, SeekerSame
  <2>3. Len(received') - 1 = n
    BY <1>4, <1>10
  <2> QED
    BY <1>8, <1>9, <2>1, <2>2, <2>3 DEF NoSwapSeeker
<1>14. NoSwapPage'
  BY <1>5, <1>9, <1>10 DEF NoSwapPage
<1>15. NoSwapWritten'
  BY <1>6, <1>9 DEF NoSwapWritten
<1>16. Answered'
  <2>1. \A m \in 1 .. Len(sent) : received'[m] = received[m] /\ decided'[m] = decided[m]
    BY <1>4, <1>8, <1>10
  <2> QED
    BY <1>4, <1>8, <2>1, AnsweredStill
<1> QED
  BY <1>8, <1>11, <1>12, <1>13, <1>14, <1>15, <1>16 DEF NoSwapRun, OnlyRequested

LEMMA NoSwapSeeks ==
    ASSUME NoSwapSet, NoSwapRun, Answered, OnlyRequested, stage = "run", at = 2,
           ExecuteSeeking(ExecuteLaw(LawOf(edit), es, ExtremumInputs))
    PROVE  NoSwapRun' /\ Answered' /\ OnlyRequested'
<1> DEFINE result == ExecuteLaw(LawOf(edit), es, ExtremumInputs)
           n == Len(received)
           law == LawOf(edit)
<1>1. /\ Ptr = PointersOf(layout, gams[2]) /\ Len(gams) = 3
      /\ Seeking(gams[2], "VS3_ref") /\ Gam1 = gams[2]
  BY DEF NoSwapSet, NoSwapGams, Ptr, Gam1
<1>2. /\ Ptr.pf_voltages = 0 /\ Ptr.vs3 = 88 /\ Ptr.pf_currents = 96 /\ Ptr.ivs3 = 184
      /\ Ptr.ip = 192 /\ Ptr.zc = 200 /\ Ptr.vs3_ref = 464
  BY <1>1, SeekingPointers DEF NoSwapSet, NoSwapPlaces, DatagramPlaces
<1>3. Turned = 2
  BY DEF Turned
<1>4. /\ n \in Nat \ {0} /\ \A m \in 1 .. n : received[m] \in Datagrams
      /\ Len(sent) = n - 1 /\ IsList(sent) /\ DatagramAddresses \cup {464} \subseteq DOMAIN page
  BY <1>3 DEF NoSwapRun, NoSwapTypes, NoSwapLengths
<1>5. es = SeekerAfter(law, received, n - 1)
  BY <1>3 DEF NoSwapRun, NoSwapSeeker
<1>6. OnPage(page, received[n])
  BY <1>3 DEF NoSwapRun, NoSwapPage
<1>7. FillInputs(ExtremumInputs) = Seen(received[n])
  <2>1. Feeds(received[n], ExtremumInputs)
    BY <1>2, <1>6, OnPageFeeds
  <2> QED
    BY <2>1, Filled
<1>8. IsLaw(law) /\ law.step \in Int
  BY LawsUsed
<1>9. /\ result.vs3_ref = Sought(law, received, n)
      /\ [state |-> result.state, t |-> result.t] = SeekerAfter(law, received, n)
  BY <1>4, <1>5, <1>7, <1>8, Seeks
<1> HIDE DEF result, n
<1>10. ExecuteSeeking(result)
  BY DEF result
<1>11. page' = [page EXCEPT ![464] = One(result.vs3_ref)]
  <2>1. page' = [page EXCEPT ![Ptr.vs3_ref] = One(result.vs3_ref)]
    BY <1>10, Zenon DEF ExecuteSeeking
  <2>2. Ptr.vs3_ref = 464
    BY <1>2
  <2> QED
    BY ONLY <2>1, <2>2, Zenon
<1>12. 464 \in DOMAIN page
  BY <1>4
<1>13. DOMAIN page' = DOMAIN page /\ page'[464][0] = result.vs3_ref
  BY <1>11, <1>12, OneOf
<1>14. es' = SeekerAfter(law, received, n)
  BY <1>9, <1>10 DEF ExecuteSeeking
<1>15. written' = written \cup {464}
  BY <1>2, <1>10 DEF ExecuteSeeking
<1>16. stale' = stale
  <2> DEFINE names == {s.name : s \in ToSet(gams[2].inputs)}
  <2>1. ReadSignals(names)
    BY <1>1, <1>10, Zenon DEF ExecuteSeeking
  <2>2. ASSUME NEW s \in ToSet(gams[2].inputs) PROVE layout[s.name] \in DatagramAddresses
    <3>1. gams[2].inputs = GAMVSExtremum("VS3_ref").inputs
      BY <1>1 DEF Seeking
    <3>2. s.name \in {"PFvoltages", "VS3", "PFcurrents", "IVS3", "Ip", "Zc"}
      BY <3>1 DEF GAMVSExtremum, Gam, ToSet, Array, Float64, Signal
    <3> QED
      BY <3>2 DEF NoSwapSet, NoSwapPlaces, DatagramPlaces, DatagramAddresses
  <2>3. DatagramAddresses \subseteq written
    BY <1>3 DEF NoSwapRun, NoSwapWritten
  <2>4. \A m \in names : layout[m] \in written
    BY <2>2, <2>3
  <2> HIDE DEF names
  <2> QED
    BY <2>1, <2>4, NothingStale
<1>17. at' = 3
  <2>1. NextGam
    BY <1>10 DEF ExecuteSeeking
  <2>2. Len(gams) = 3
    BY <1>1
  <2> QED
    BY <2>1, <2>2 DEF NextGam
<1>18. /\ UNCHANGED setupVars /\ stage' = stage /\ received' = received
       /\ decided' = decided /\ sent' = sent
  BY <1>10 DEF ExecuteSeeking
<1>19. Turned' = 3 /\ edit' = edit
  BY <1>17, <1>18 DEF Turned, setupVars
<1>20. NoSwapTypes'
  BY <1>13, <1>18 DEF NoSwapRun, NoSwapTypes
<1>21. NoSwapLengths'
  BY <1>4, <1>18, <1>19 DEF NoSwapLengths, n
<1>22. NoSwapSeeker' /\ NoSwapPage' /\ NoSwapWritten'
  BY <1>9, <1>13, <1>14, <1>15, <1>18, <1>19 DEF NoSwapSeeker, NoSwapPage, NoSwapWritten, n
<1>23. Answered'
  BY <1>4, <1>18, AnsweredStill
<1> QED
  BY <1>16, <1>20, <1>21, <1>22, <1>23 DEF NoSwapRun, OnlyRequested

LEMMA NoSwapCopies ==
    ASSUME NoSwapSet, NoSwapRun, Answered, OnlyRequested, stage = "run", at = 3, CopyOut
    PROVE  NoSwapRun' /\ Answered' /\ OnlyRequested'
<1> DEFINE n == Len(received)
           reply == page[464][0]
<1>1. Len(gams) = 3 /\ gams[3] = GAMUDPSender
  BY DEF NoSwapSet, NoSwapGams
<1>2. Turned = 3
  BY DEF Turned
<1>3. /\ n \in Nat /\ n >= 1 /\ Len(sent) = n - 1 /\ IsList(sent)
  BY <1>2 DEF NoSwapRun, NoSwapTypes, NoSwapLengths
<1>4. layout["VS3_ref"] = 464 /\ 464 \in written
  BY <1>2 DEF NoSwapSet, NoSwapPlaces, NoSwapRun, NoSwapWritten
<1>5. sent' = Append(sent, reply) /\ stale' = stale
  BY <1>1, <1>4, SenderCopies
<1>6. at' = 1
  <2>1. NextGam
    BY DEF CopyOut
  <2>2. Len(gams) = 3
    BY <1>1
  <2> QED
    BY <2>1, <2>2 DEF NextGam
<1>7. /\ received' = received /\ page' = page /\ es' = es /\ stage' = stage
      /\ written' = written /\ decided' = decided /\ UNCHANGED setupVars
  BY DEF CopyOut, lawVars
<1>8. Turned' = 1 /\ edit' = edit /\ file' = file
  BY <1>6, <1>7 DEF Turned, setupVars
<1> HIDE DEF reply
<1>9. IsList(sent') /\ Len(sent') = n /\ sent'[n] = reply
  <2>1. sent' = Append(sent, reply) /\ Len(sent) + 1 = n
    BY <1>3, <1>5
  <2>2. /\ IsList(Append(sent, reply)) /\ Len(Append(sent, reply)) = Len(sent) + 1
        /\ Append(sent, reply)[Len(sent) + 1] = reply
    BY <1>3, ListGrown
  <2> QED
    BY <2>1, <2>2
<1>10. reply = Answer(file, LawOf(edit), received, decided, n)
  <2>1. reply = Sought(LawOf(edit), received, n)
    BY <1>2 DEF NoSwapRun, NoSwapPage, reply, n
  <2> QED
    BY <2>1 DEF Answer, NoSwapSet
<1> HIDE DEF n
<1>11. NoSwapTypes'
  BY <1>7, <1>9 DEF NoSwapRun, NoSwapTypes
<1>12. NoSwapLengths'
  BY <1>7, <1>8, <1>9 DEF NoSwapLengths, n
<1>13. NoSwapSeeker'
  BY <1>2, <1>7, <1>8 DEF NoSwapRun, NoSwapSeeker
<1>14. NoSwapPage' /\ NoSwapWritten'
  BY <1>8 DEF NoSwapPage, NoSwapWritten
<1>15. Answered'
  BY <1>7, <1>8, <1>9, <1>10 DEF Answered
<1> QED
  BY <1>5, <1>11, <1>12, <1>13, <1>14, <1>15 DEF NoSwapRun, OnlyRequested

NoSwapInv ==
    /\ Going => NoSwapRun
    /\ Answered /\ OnlyRequested

LEMMA NoSwapNext ==
    ASSUME Ready, file = "VSES_Control_noSwap", NoSwapInv, [Next]_vars
    PROVE  NoSwapInv'
<1>1. NoSwapSet
  BY NoSwapIsSet
<1>2. CASE stage = "run" /\ stage' = "run" /\ Next
  <2>1. NoSwapRun /\ Answered /\ OnlyRequested
    BY <1>2 DEF NoSwapInv, Going
  <2>2. \/ at = 1 /\ Receive
        \/ at = 2 /\ ExecuteSeeking(ExecuteLaw(LawOf(edit), es, ExtremumInputs))
        \/ at = 3 /\ CopyOut
    BY <1>1, <1>2, NoSwapTurns
  <2>3. NoSwapRun' /\ Answered' /\ OnlyRequested'
    BY <1>1, <1>2, <2>1, <2>2, NoSwapReceives, NoSwapSeeks, NoSwapCopies
  <2> QED
    BY <2>3 DEF NoSwapInv
<1>3. CASE (stage # "run" \/ stage' # "run") /\ Going'
  <2>1. UNCHANGED cycleVars /\ UNCHANGED setupVars /\ Going
    BY <1>3, StageSteps DEF Going
  <2>2. Turned' = Turned
    BY <1>3, StageSteps, RunGoes DEF Going, Turned
  <2> QED
    BY <2>1, <2>2
       DEF NoSwapInv, NoSwapRun, NoSwapTypes, NoSwapLengths, NoSwapSeeker, NoSwapPage,
           NoSwapWritten, Answered, OnlyRequested, cycleVars, setupVars
<1>4. CASE (stage # "run" \/ stage' # "run") /\ ~Going'
  <2>1. UNCHANGED cycleVars /\ UNCHANGED setupVars
    BY <1>4, StageSteps
  <2> QED
    BY <1>4, <2>1 DEF NoSwapInv, Answered, OnlyRequested, cycleVars, setupVars
<1>5. CASE UNCHANGED vars
  BY <1>5
     DEF NoSwapInv, NoSwapRun, NoSwapTypes, NoSwapLengths, NoSwapSeeker, NoSwapPage,
         NoSwapWritten, Answered, OnlyRequested, cycleVars, setupVars, vars, Turned,
         Going, lawVars, fpgaVars
<1> QED
  BY <1>2, <1>3, <1>4, <1>5

LEMMA NoSwapStarts ==
    ASSUME Init, Unspoilt, file = "VSES_Control_noSwap"
    PROVE  NoSwapInv
<1>1. NoSwapSet
  BY ReadyStarts, NoSwapIsSet
<1>2. received = << >> /\ sent = << >> /\ Turned = 1 /\ es = Fresh /\ stale = {}
  BY Starting
<1>3. DatagramAddresses \cup {464} \subseteq DOMAIN page
  <2>1. /\ \A n \in DatagramNames \cup {"VS3_ref"} : layout[n] \in DOMAIN page
        /\ DatagramPlaces(layout) /\ layout["VS3_ref"] = 464
    BY <1>1, Starting DEF NoSwapSet, NoSwapPlaces
  <2>2. /\ 0 \in DOMAIN page /\ 88 \in DOMAIN page /\ 96 \in DOMAIN page
        /\ 184 \in DOMAIN page /\ 192 \in DOMAIN page /\ 200 \in DOMAIN page
        /\ 208 \in DOMAIN page /\ 216 \in DOMAIN page /\ 448 \in DOMAIN page
    BY <2>1 DEF DatagramPlaces, DatagramNames
  <2>3. 464 \in DOMAIN page
    BY <2>1
  <2> QED
    BY <2>2, <2>3 DEF DatagramAddresses
<1>4. received \in Seq(Datagrams) /\ IsList(sent) /\ Len(received) = 0 /\ Len(sent) = 0
  BY <1>2, EmptyList
<1>5. NoSwapTypes /\ NoSwapLengths
  BY <1>2, <1>3, <1>4 DEF NoSwapTypes, NoSwapLengths
<1>6. NoSwapSeeker
  <2>1. SeekerAfter(LawOf(edit), received, 0) = Fresh
    BY LawsUsed, SeekerFresh
  <2> QED
    BY <1>2, <1>4, <2>1 DEF NoSwapSeeker
<1>7. NoSwapPage /\ NoSwapWritten
  BY <1>2 DEF NoSwapPage, NoSwapWritten
<1>8. Answered /\ OnlyRequested
  BY <1>2, <1>4 DEF Answered, OnlyRequested
<1> QED
  BY <1>5, <1>6, <1>7, <1>8 DEF NoSwapInv, NoSwapRun
-----------------------------------------------------------------------------
(***************************************************************************)
(* The classic controllers, with and without a timer ahead of the others.  *)
(***************************************************************************)
ClassicFiles == {"VS_Control", "VS_Control_Print"}

\* GAMs ahead of the receiver.
Ahead == IF file = "VS_Control_Print" THEN 1 ELSE 0

\* 0 while the timer has its turn.
ClassicTurn == Turned - Ahead

PairTypes == received \in Seq(Datagrams) /\ IsList(sent) /\ {0, 8, 16} \subseteq DOMAIN page

ClassicLengths ==
    /\ Len(sent) = IF ClassicTurn <= 1 THEN Len(received) ELSE Len(received) - 1
    /\ ClassicTurn > 1 => Len(received) >= 1

ClassicLaw ==
    x_old = ClassicState(PairsOf(received,
                IF ClassicTurn = 2 THEN Len(received) - 1 ELSE Len(received)))

ClassicPage ==
    /\ ClassicTurn = 2 => /\ page[0][0] = received[Len(received)][1]
                          /\ page[8][0] = received[Len(received)][2]
    /\ ClassicTurn = 3 => page[16][0] = Paired(received, Len(received))

ClassicWritten ==
    /\ ClassicTurn = 2 => 0 \in written /\ 8 \in written
    /\ ClassicTurn = 3 => 16 \in written

ClassicRun == PairTypes /\ ClassicLengths /\ ClassicLaw /\ ClassicPage /\ ClassicWritten

ClassicSet ==
    /\ file \in ClassicFiles /\ Ahead \in {0, 1}
    /\ ClassicGams(gams, Ahead) /\ at \in 1 .. 3 + Ahead
    /\ ClassicPlaces(layout) /\ {"IVS3", "ZDOT", "VS3_ref"} \subseteq DOMAIN layout
    /\ ~Shared
    /\ stage = "run" => \A g \in DOMAIN gams : bound[g] = PointersOf(layout, gams[g])

LEMMA ClassicClasses ==
    ASSUME NEW o \in {0, 1}, ClassicGams(gams, o)
    PROVE  /\ o = 1 => gams[1].class = "IOGAM" /\ gams[1].source = "Timer"
           /\ gams[1 + o].class = "IOGAM" /\ gams[1 + o].source = "UDPReceiver"
           /\ gams[2 + o].class = "VSGAMClassic"
           /\ gams[3 + o].class = "IOGAM" /\ gams[3 + o].source = "page"
           /\ gams[3 + o].target = "UDPSender"
BY DEF ClassicGams, GAMTimer, ClassicReceiver, GAMUDPReceiver, GAMVSClassic, GAMUDPSender,
       Gam

\* The GAMs from the first to the last.
LEMMA ClassicPlace ==
    ASSUME NEW o \in {0, 1}, NEW g \in 1 .. 3 + o
    PROVE  (g = 1 /\ o = 1) \/ g = 1 + o \/ g = 2 + o \/ g = 3 + o
<1>1. CASE o = 0
  BY <1>1
<1>2. CASE o = 1
  BY <1>2
<1> QED
  BY <1>1, <1>2

LEMMA ClassicIsSet ==
    ASSUME Ready, file \in ClassicFiles
    PROVE  ClassicSet
<1>1. /\ edit \in {NoEdit, Variant} /\ gams = Apply(edit, Configuration[file])
      /\ layout = Layout(gams)
  BY DEF Ready, Unspoilt, Chosen
<1>2. \/ file = "VS_Control" /\ Configuration[file] = VS_Control /\ Ahead = 0
      \/ file = "VS_Control_Print" /\ Configuration[file] = VS_Control_Print /\ Ahead = 1
  BY DEF ClassicFiles, Configuration, Ahead
<1>3. ClassicGams(gams, Ahead) /\ Ahead \in {0, 1}
  BY <1>1, <1>2, ClassicListed
<1>4. ClassicPlaces(layout) /\ {"IVS3", "ZDOT", "VS3_ref"} \subseteq DOMAIN layout
  <2> DEFINE base == Configuration[file]
  <2>1. base \in {VS_Control, VS_Control_Print} /\ base \in GamLists
    BY <1>2, ConfigurationType DEF ClassicFiles, Configuration
  <2> HIDE DEF base
  <2>2. Met(gams) = Met(base)
    BY <1>1, <2>1, MetUnspoilt DEF base
  <2> QED
    BY <1>1, <2>1, <2>2, ClassicLaid
<1> DEFINE o == Ahead
<1>5. o \in {0, 1} /\ ClassicGams(gams, o)
  BY <1>3
<1> HIDE DEF o
<1>6. DOMAIN gams = 1 .. 3 + o
  BY <1>5 DEF ClassicGams
<1>7. ~Shared
  <2>1. /\ o = 1 => gams[1].class = "IOGAM"
        /\ gams[1 + o].class = "IOGAM" /\ gams[2 + o].class = "VSGAMClassic"
        /\ gams[3 + o].class = "IOGAM"
    BY <1>5, ClassicClasses
  <2>2. ASSUME NEW g \in 1 .. 3 + o PROVE gams[g].class # "VSGAMSwap"
    <3>1. (g = 1 /\ o = 1) \/ g = 1 + o \/ g = 2 + o \/ g = 3 + o
      BY <1>5, ClassicPlace
    <3> QED
      BY <2>1, <3>1
  <2> QED
    BY <1>6, <2>2 DEF Shared
<1>8. at \in 1 .. 3 + o
  BY <1>6 DEF Ready
<1>9. stage = "run" => \A g \in DOMAIN gams : bound[g] = PointersOf(layout, gams[g])
  BY DEF Ready
<1> QED
  BY <1>3, <1>4, <1>7, <1>8, <1>9 DEF ClassicSet, o

LEMMA ClassicTurns ==
    ASSUME ClassicSet, stage = "run", stage' = "run", Next
    PROVE  \/ at = 1 /\ Ahead = 1 /\ WaitForTimer
           \/ at = 1 + Ahead /\ Receive
           \/ at = 2 + Ahead /\ ExecuteClassicGam
           \/ at = 3 + Ahead /\ CopyOut
<1> DEFINE o == Ahead
<1>1. o \in {0, 1} /\ ClassicGams(gams, o) /\ at \in 1 .. 3 + o
  BY DEF ClassicSet
<1> HIDE DEF o
<1>2. /\ o = 1 => gams[1].class = "IOGAM" /\ gams[1].source = "Timer"
      /\ gams[1 + o].class = "IOGAM" /\ gams[1 + o].source = "UDPReceiver"
      /\ gams[2 + o].class = "VSGAMClassic"
      /\ gams[3 + o].class = "IOGAM" /\ gams[3 + o].source = "page"
  BY <1>1, ClassicClasses
<1>3. (at = 1 /\ o = 1) \/ at = 1 + o \/ at = 2 + o \/ at = 3 + o
  BY <1>1, ClassicPlace
<1>4. CASE Receive
  <2>1. gams[at].class = "IOGAM" /\ gams[at].source = "UDPReceiver"
    BY <1>4 DEF Receive, Turn, Gam1
  <2>2. at = 1 + o
    BY <1>2, <1>3, <2>1
  <2> QED
    BY <1>4, <2>2 DEF o
<1>5. CASE WaitForTimer
  <2>1. gams[at].class = "IOGAM" /\ gams[at].source = "Timer"
    BY <1>5 DEF WaitForTimer, Turn, Gam1
  <2>2. at = 1 /\ o = 1
    BY <1>2, <1>3, <2>1
  <2> QED
    BY <1>5, <2>2 DEF o
<1>6. CASE CopyOut
  <2>1. gams[at].class = "IOGAM" /\ gams[at].source = "page"
    BY <1>6 DEF CopyOut, Turn, Gam1
  <2>2. at = 3 + o
    BY <1>2, <1>3, <2>1
  <2> QED
    BY <1>6, <2>2 DEF o
<1>7. CASE ExecuteIncrement \/ ExecuteSwap \/ ExecuteExtremumGam \/ ExecuteExtremum_1khzGam
  <2>1. gams[at].class \in {"VSGAMIncrement", "VSGAMSwap", "VSGAMExtremum",
                            "VSGAMExtremum_1khz"}
    BY <1>7 DEF ExecuteIncrement, ExecuteSwap, ExecuteExtremumGam,
                ExecuteExtremum_1khzGam, Turn, Gam1
  <2> QED
    BY <1>2, <1>3, <2>1
<1>8. CASE ExecuteClassicGam
  <2>1. gams[at].class = "VSGAMClassic"
    BY <1>8 DEF ExecuteClassicGam, Turn, Gam1
  <2>2. at = 2 + o
    BY <1>2, <1>3, <2>1
  <2> QED
    BY <1>8, <2>2 DEF o
<1>9. ~FpgaServes /\ ~OracleDecides
  BY DEF ClassicSet, FpgaServes, OracleDecides
<1>10. ~Initialise /\ ~Setup /\ ~Stray
  BY DEF Initialise, Setup, Stray
<1> QED
  BY <1>4, <1>5, <1>6, <1>7, <1>8, <1>9, <1>10 DEF Next, Thread

\* The turn after this one.
LEMMA ClassicGoesOn ==
    ASSUME ClassicSet, stage = "run", stage' = "run", NextGam, UNCHANGED setupVars
    PROVE  /\ ClassicTurn = at - Ahead /\ at \in Int /\ Ahead \in {0, 1}
           /\ edit' = edit /\ file' = file /\ Ahead' = Ahead
           /\ at < 3 + Ahead => ClassicTurn' = ClassicTurn + 1
           /\ at = 3 + Ahead => ClassicTurn' = 1 - Ahead
<1>1. at \in 1 .. 3 + Ahead /\ Ahead \in {0, 1} /\ Len(gams) = 3 + Ahead
  BY DEF ClassicSet, ClassicGams
<1>2. edit' = edit /\ file' = file /\ Ahead' = Ahead
  BY DEF setupVars, Ahead
<1> DEFINE o == Ahead
<1>3. at' = IF at < 3 + o THEN at + 1 ELSE 1
  BY <1>1 DEF NextGam
<1>4. ClassicTurn = at - o /\ ClassicTurn' = at' - o
  BY <1>2 DEF ClassicTurn, Turned
<1>5. o \in {0, 1} /\ at \in 1 .. 3 + o
  BY <1>1
<1> HIDE DEF o
<1>6. at < 3 + o => ClassicTurn' = ClassicTurn + 1
  BY <1>3, <1>4, <1>5
<1>7. at = 3 + o => ClassicTurn' = 1 - o
  BY <1>3, <1>4, <1>5
<1> QED
  BY <1>2, <1>4, <1>5, <1>6, <1>7 DEF o

LEMMA PairsSame ==
    ASSUME NEW rec, NEW more, NEW n \in Nat, \A m \in 1 .. n : more[m] = rec[m]
    PROVE  PairsOf(more, n) = PairsOf(rec, n)
BY DEF PairsOf

LEMMA ClassicWaits ==
    ASSUME ClassicSet, ClassicRun, Answered, OnlyRequested, stage = "run", at = 1,
           Ahead = 1, WaitForTimer
    PROVE  ClassicRun' /\ Answered' /\ OnlyRequested'
<1>1. /\ NextGam /\ UNCHANGED setupVars /\ stage' = "run"
      /\ received' = received /\ sent' = sent /\ decided' = decided /\ page' = page
      /\ x_old' = x_old /\ written' = written /\ stale' = stale
  BY DEF WaitForTimer, lawVars
<1>2. /\ ClassicTurn = 0 /\ ClassicTurn' = 1 /\ edit' = edit /\ file' = file
  BY <1>1, ClassicGoesOn
<1>3. PairTypes' /\ ClassicLengths' /\ ClassicLaw' /\ ClassicPage' /\ ClassicWritten'
  BY <1>1, <1>2 DEF ClassicRun, PairTypes, ClassicLengths, ClassicLaw, ClassicPage,
                    ClassicWritten
<1>4. Answered'
  BY <1>1, <1>2 DEF Answered
<1> QED
  BY <1>1, <1>3, <1>4 DEF ClassicRun, OnlyRequested

LEMMA ClassicReceives ==
    ASSUME ClassicSet, ClassicRun, Answered, OnlyRequested, stage = "run",
           at = 1 + Ahead, Receive
    PROVE  ClassicRun' /\ Answered' /\ OnlyRequested'
<1> DEFINE n == Len(received)
           o == Ahead
<1>1. Gam1.outputs = PairSignals
  BY DEF ClassicSet, ClassicGams, ClassicReceiver, GAMUDPReceiver, Gam, Gam1, PairSignals
<1>2. PICK d \in Datagrams :
          /\ page' = Filling(page, layout, Gam1.outputs, d)
          /\ written' = {layout[m] : m \in {s.name : s \in ToSet(Gam1.outputs)}}
          /\ received' = Append(received, d)
  BY Zenon DEF Receive, Filling
<1>3. /\ NextGam /\ UNCHANGED setupVars /\ stage' = "run" /\ x_old' = x_old /\ sent' = sent
      /\ decided' = decided /\ stale' = stale
  BY DEF Receive, lawVars
<1>4. ClassicTurn = 1 /\ ClassicTurn' = 2 /\ edit' = edit /\ file' = file
  <2>1. o \in {0, 1} /\ at < 3 + o /\ ClassicTurn = at - o /\ at = 1 + o
    BY <1>3, ClassicGoesOn
  <2>2. ClassicTurn = 1
    BY <2>1
  <2> QED
    BY <1>3, <2>1, <2>2, ClassicGoesOn
<1>5. n \in Nat /\ Len(sent) = n /\ received \in Seq(Datagrams) /\ IsList(sent)
      /\ {0, 8, 16} \subseteq DOMAIN page
  BY <1>4 DEF ClassicRun, PairTypes, ClassicLengths
<1>6. DOMAIN page' = DOMAIN page /\ page'[0][0] = d[1] /\ page'[8][0] = d[2]
  <2>1. {0, 8} \subseteq DOMAIN page /\ ClassicPlaces(layout)
    BY <1>5 DEF ClassicSet
  <2> QED
    BY <1>1, <1>2, <2>1, PairFills
<1>7. 0 \in written' /\ 8 \in written'
  <2>1. "IVS3" \in {s.name : s \in ToSet(PairSignals)}
        /\ "ZDOT" \in {s.name : s \in ToSet(PairSignals)}
    <3>1. /\ DOMAIN PairSignals = 1 .. 2 /\ PairSignals[1].name = "IVS3"
          /\ PairSignals[2].name = "ZDOT"
      BY DEF PairSignals, Float64, Signal
    <3> QED
      BY <3>1 DEF ToSet
  <2>2. layout["IVS3"] = 0 /\ layout["ZDOT"] = 8
    BY DEF ClassicSet, ClassicPlaces
  <2> QED
    BY <1>1, <1>2, <2>1, <2>2
<1>8. /\ received' \in Seq(Datagrams) /\ Len(received') = n + 1 /\ received'[n + 1] = d
      /\ \A i \in 1 .. n : received'[i] = received[i]
  <2>1. received' = Append(received, d)
    BY <1>2
  <2> QED
    BY <1>5, <2>1, Appended
<1> HIDE DEF n
<1>9. PairTypes'
  BY <1>3, <1>5, <1>6, <1>8 DEF PairTypes
<1>10. ClassicLengths'
  BY <1>3, <1>4, <1>5, <1>8 DEF ClassicLengths
<1>11. ClassicLaw'
  <2>1. x_old = ClassicState(PairsOf(received, n))
    BY <1>4 DEF ClassicRun, ClassicLaw, n
  <2>2. PairsOf(received', n) = PairsOf(received, n)
    BY <1>5, <1>8, PairsSame
  <2>3. Len(received') - 1 = n
    BY <1>5, <1>8
  <2> QED
    BY <1>3, <1>4, <2>1, <2>2, <2>3 DEF ClassicLaw
<1>12. ClassicPage'
  BY <1>4, <1>6, <1>8 DEF ClassicPage
<1>13. ClassicWritten'
  BY <1>4, <1>7 DEF ClassicWritten
<1>14. Answered'
  <2>1. \A m \in 1 .. Len(sent) : received'[m] = received[m] /\ decided'[m] = decided[m]
    BY <1>3, <1>5, <1>8
  <2> QED
    BY <1>3, <1>5, <2>1, AnsweredStill
<1> QED
  BY <1>3, <1>9, <1>10, <1>11, <1>12, <1>13, <1>14 DEF ClassicRun, OnlyRequested

LEMMA ClassicServes ==
    ASSUME ClassicSet, ClassicRun, Answered, OnlyRequested, stage = "run",
           at = 2 + Ahead, ExecuteClassicGam
    PROVE  ClassicRun' /\ Answered' /\ OnlyRequested'
<1> DEFINE in == [ivs3 |-> At(Ptr.ivs3), zdot |-> At(Ptr.zdot)]
           result == ExecuteClassic(x_old, in)
           n == Len(received)
           o == Ahead
<1>1. Gam1 = GAMVSClassic /\ Ptr = PointersOf(layout, GAMVSClassic)
  BY DEF ClassicSet, ClassicGams, Ptr, Gam1
<1>2. Ptr.ivs3 = 0 /\ Ptr.zdot = 8 /\ Ptr.vs3_ref = 16
  BY <1>1, ClassicPointers DEF ClassicSet, ClassicPlaces
<1>3. /\ page' = [page EXCEPT ![Ptr.vs3_ref] = One(result.vs3_ref)]
      /\ x_old' = result.x_old
  BY Zenon DEF ExecuteClassicGam
<1>4. /\ NextGam /\ UNCHANGED setupVars /\ stage' = "run" /\ received' = received
      /\ sent' = sent /\ decided' = decided
  BY DEF ExecuteClassicGam
<1>5. ClassicTurn = 2 /\ ClassicTurn' = 3 /\ edit' = edit /\ file' = file
  <2>1. o \in {0, 1} /\ at < 3 + o /\ ClassicTurn = at - o /\ at = 2 + o
    BY <1>4, ClassicGoesOn
  <2>2. ClassicTurn = 2
    BY <2>1
  <2> QED
    BY <1>4, <2>1, <2>2, ClassicGoesOn
<1>6. /\ n \in Nat \ {0} /\ \A m \in 1 .. n : received[m] \in Datagrams
      /\ Len(sent) = n - 1 /\ IsList(sent) /\ 16 \in DOMAIN page
  BY <1>5 DEF ClassicRun, PairTypes, ClassicLengths
<1>7. in.ivs3 = received[n][1] /\ in.zdot = received[n][2]
  <2>1. page[0][0] = received[n][1] /\ page[8][0] = received[n][2]
    BY <1>5 DEF ClassicRun, ClassicPage
  <2>2. in.ivs3 = page[0][0] /\ in.zdot = page[8][0]
    BY <1>2 DEF At
  <2> QED
    BY <2>1, <2>2
<1>8. x_old = ClassicState(PairsOf(received, n - 1))
  BY <1>5 DEF ClassicRun, ClassicLaw
<1> HIDE DEF in, n
<1>9. /\ result.vs3_ref = Paired(received, n)
      /\ result.x_old = ClassicState(PairsOf(received, n))
  BY <1>6, <1>7, <1>8, PairServed
<1> HIDE DEF result
<1>10. DOMAIN page' = DOMAIN page /\ page'[16][0] = result.vs3_ref
  <2>1. page' = [page EXCEPT ![16] = One(result.vs3_ref)]
    BY <1>2, <1>3
  <2> QED
    BY <1>6, <2>1, OneOf
<1>11. 16 \in written'
  <2>1. written' = written \cup {Ptr.vs3_ref}
    BY Zenon DEF ExecuteClassicGam
  <2> QED
    BY <1>2, <2>1
<1>12. stale' = stale
  <2> DEFINE names == {s.name : s \in ToSet(Gam1.inputs)}
  <2>1. ReadSignals(names)
    BY Zenon DEF ExecuteClassicGam
  <2>2. names = {"IVS3", "ZDOT"}
    BY <1>1 DEF GAMVSClassic, Gam, ToSet, Float64, Signal
  <2>3. \A m \in {"IVS3", "ZDOT"} : layout[m] \in written
    BY <1>5 DEF ClassicSet, ClassicPlaces, ClassicRun, ClassicWritten
  <2> HIDE DEF names
  <2> QED
    BY <2>1, <2>2, <2>3, NothingStale
<1>13. PairTypes'
  BY <1>4, <1>10 DEF ClassicRun, PairTypes
<1>14. ClassicLengths'
  BY <1>4, <1>5, <1>6 DEF ClassicLengths, n
<1>15. ClassicLaw' /\ ClassicPage' /\ ClassicWritten'
  BY <1>3, <1>4, <1>5, <1>9, <1>10, <1>11 DEF ClassicLaw, ClassicPage, ClassicWritten, n
<1>16. Answered'
  BY <1>4, <1>5 DEF Answered
<1> QED
  BY <1>12, <1>13, <1>14, <1>15, <1>16 DEF ClassicRun, OnlyRequested

LEMMA ClassicCopies ==
    ASSUME ClassicSet, ClassicRun, Answered, OnlyRequested, stage = "run",
           at = 3 + Ahead, CopyOut
    PROVE  ClassicRun' /\ Answered' /\ OnlyRequested'
<1> DEFINE n == Len(received)
           reply == page[16][0]
           o == Ahead
<1>1. gams[at] = GAMUDPSender
  BY DEF ClassicSet, ClassicGams
<1>2. /\ NextGam /\ UNCHANGED setupVars /\ stage' = "run" /\ received' = received
      /\ page' = page /\ x_old' = x_old /\ written' = written /\ decided' = decided
  BY DEF CopyOut, lawVars
<1>3. ClassicTurn = 3 /\ ClassicTurn' \in {0, 1} /\ edit' = edit /\ file' = file
  <2>1. o \in {0, 1} /\ ClassicTurn = at - o /\ at = 3 + o /\ ClassicTurn' = 1 - o
    BY <1>2, ClassicGoesOn
  <2>2. ClassicTurn = 3 /\ ClassicTurn' \in {0, 1}
    BY <2>1
  <2> QED
    BY <1>2, <2>2, ClassicGoesOn
<1>4. n \in Nat /\ n >= 1 /\ Len(sent) = n - 1 /\ IsList(sent)
  BY <1>3 DEF ClassicRun, PairTypes, ClassicLengths
<1>5. layout["VS3_ref"] = 16 /\ 16 \in written
  BY <1>3 DEF ClassicSet, ClassicPlaces, ClassicRun, ClassicWritten
<1>6. sent' = Append(sent, reply) /\ stale' = stale
  BY <1>1, <1>5, SenderCopies
<1>7. reply = Answer(file, LawOf(edit), received, decided, n)
  <2>1. reply = Paired(received, n)
    BY <1>3 DEF ClassicRun, ClassicPage
  <2> QED
    BY <2>1 DEF Answer, ClassicSet, ClassicFiles
<1> HIDE DEF reply
<1>8. IsList(sent') /\ Len(sent') = n /\ sent'[n] = reply
  <2>1. sent' = Append(sent, reply) /\ Len(sent) + 1 = n
    BY <1>4, <1>6
  <2>2. /\ IsList(Append(sent, reply)) /\ Len(Append(sent, reply)) = Len(sent) + 1
        /\ Append(sent, reply)[Len(sent) + 1] = reply
    BY <1>4, ListGrown
  <2> QED
    BY <2>1, <2>2
<1> HIDE DEF n
<1>9. PairTypes'
  BY <1>2, <1>8 DEF ClassicRun, PairTypes
<1>10. ClassicLengths'
  BY <1>2, <1>3, <1>8 DEF ClassicLengths, n
<1>11. ClassicLaw' /\ ClassicPage' /\ ClassicWritten'
  BY <1>2, <1>3 DEF ClassicRun, ClassicLaw, ClassicPage, ClassicWritten
<1>12. Answered'
  BY <1>2, <1>3, <1>7, <1>8 DEF Answered
<1> QED
  BY <1>6, <1>9, <1>10, <1>11, <1>12 DEF ClassicRun, OnlyRequested

ClassicInv ==
    /\ Going => ClassicRun
    /\ Answered /\ OnlyRequested

LEMMA ClassicNext ==
    ASSUME Ready, file \in ClassicFiles, ClassicInv, [Next]_vars
    PROVE  ClassicInv'
<1>1. ClassicSet
  BY ClassicIsSet
<1>2. CASE stage = "run" /\ stage' = "run" /\ Next
  <2>1. ClassicRun /\ Answered /\ OnlyRequested
    BY <1>2 DEF ClassicInv, Going
  <2>2. \/ at = 1 /\ Ahead = 1 /\ WaitForTimer
        \/ at = 1 + Ahead /\ Receive
        \/ at = 2 + Ahead /\ ExecuteClassicGam
        \/ at = 3 + Ahead /\ CopyOut
    BY <1>1, <1>2, ClassicTurns
  <2>3. ClassicRun' /\ Answered' /\ OnlyRequested'
    BY <1>1, <1>2, <2>1, <2>2, ClassicWaits, ClassicReceives, ClassicServes, ClassicCopies
  <2> QED
    BY <2>3 DEF ClassicInv
<1>3. CASE (stage # "run" \/ stage' # "run") /\ Going'
  <2>1. UNCHANGED cycleVars /\ UNCHANGED setupVars /\ Going
    BY <1>3, StageSteps DEF Going
  <2>2. Turned' = Turned
    BY <1>3, StageSteps, RunGoes DEF Going, Turned
  <2>3. ClassicTurn' = ClassicTurn
    BY <2>1, <2>2 DEF ClassicTurn, Ahead, setupVars
  <2> QED
    BY <2>1, <2>3
       DEF ClassicInv, ClassicRun, PairTypes, ClassicLengths, ClassicLaw, ClassicPage,
           ClassicWritten, Answered, OnlyRequested, cycleVars, setupVars
<1>4. CASE (stage # "run" \/ stage' # "run") /\ ~Going'
  <2>1. UNCHANGED cycleVars /\ UNCHANGED setupVars
    BY <1>4, StageSteps
  <2> QED
    BY <1>4, <2>1 DEF ClassicInv, Answered, OnlyRequested, cycleVars, setupVars
<1>5. CASE UNCHANGED vars
  BY <1>5
     DEF ClassicInv, ClassicRun, PairTypes, ClassicLengths, ClassicLaw, ClassicPage,
         ClassicWritten, Answered, OnlyRequested, cycleVars, setupVars, vars, Turned,
         ClassicTurn, Ahead, Going, lawVars, fpgaVars
<1> QED
  BY <1>2, <1>3, <1>4, <1>5

LEMMA ClassicStarts ==
    ASSUME Init, Unspoilt, file \in ClassicFiles
    PROVE  ClassicInv
<1>1. ClassicSet
  BY ReadyStarts, ClassicIsSet
<1>2. received = << >> /\ sent = << >> /\ Turned = 1 /\ x_old = 0 /\ stale = {}
  BY Starting
<1>3. ClassicTurn \in {0, 1}
  BY <1>1, <1>2 DEF ClassicSet, ClassicTurn
<1>4. {0, 8, 16} \subseteq DOMAIN page
  <2>1. /\ \A n \in {"IVS3", "ZDOT", "VS3_ref"} : layout[n] \in DOMAIN page
        /\ layout["IVS3"] = 0 /\ layout["ZDOT"] = 8 /\ layout["VS3_ref"] = 16
    BY <1>1, Starting DEF ClassicSet, ClassicPlaces
  <2> QED
    BY <2>1
<1>5. received \in Seq(Datagrams) /\ IsList(sent) /\ Len(received) = 0 /\ Len(sent) = 0
  BY <1>2, EmptyList
<1>6. PairTypes /\ ClassicLengths
  BY <1>2, <1>3, <1>4, <1>5 DEF PairTypes, ClassicLengths
<1>7. ClassicLaw
  <2> DEFINE ws == PairsOf(received, 0)
  <2>1. ws \in [1 .. 0 -> Int]
    BY DEF PairsOf
  <2> HIDE DEF ws
  <2>2. ClassicState(ws) = 0
    BY <2>1, ClassicStateNothing
  <2> QED
    BY <1>2, <1>3, <1>5, <2>2 DEF ClassicLaw, ws
<1>8. ClassicPage /\ ClassicWritten
  BY <1>3 DEF ClassicPage, ClassicWritten
<1>9. Answered /\ OnlyRequested
  BY <1>2, <1>5 DEF Answered, OnlyRequested
<1> QED
  BY <1>6, <1>7, <1>8, <1>9 DEF ClassicInv, ClassicRun
-----------------------------------------------------------------------------
(***************************************************************************)
(* All configurations together.                                            *)
(***************************************************************************)
ReplyInv ==
    Unspoilt => /\ Ready /\ IsList(sent)
                /\ file \in ControlFiles => ControlInv
                /\ file = "VSES_Control_noSwap" => NoSwapInv
                /\ file \in ClassicFiles => ClassicInv

LEMMA FileIsOne ==
    ASSUME Chosen
    PROVE  file \in ControlFiles \/ file = "VSES_Control_noSwap" \/ file \in ClassicFiles
BY FilesAssumption DEF Chosen, Configuration, ControlFiles, ClassicFiles

LEMMA ListKept ==
    ASSUME IsList(sent), [Next]_vars
    PROVE  IsList(sent')
<1> DEFINE reply == At(layout["VS3_ref"])
<1>1. UNCHANGED sent \/ sent' = Append(sent, reply)
  BY DEF Next, Thread, Initialise, Setup, Stray, Receive, WaitForTimer, ExecuteIncrement,
         ExecuteExtremumGam, ExecuteExtremum_1khzGam, ExecuteSeeking, ExecuteClassicGam,
         ExecuteSwap, CopyOut, FpgaServes, OracleDecides, vars
<1> HIDE DEF reply
<1>2. IsList(Append(sent, reply))
  BY ListGrown
<1> QED
  BY <1>1, <1>2

LEMMA ReplyInvStarts == Init => ReplyInv
<1> SUFFICES ASSUME Init, Unspoilt PROVE ReplyInv
  BY DEF ReplyInv
<1>1. IsList(sent)
  BY EmptyList DEF Init
<1> QED
  BY <1>1, ReadyStarts, ControlStarts, NoSwapStarts, ClassicStarts DEF ReplyInv

LEMMA ReplyInvNext == ReplyInv /\ [Next]_vars => ReplyInv'
<1> SUFFICES ASSUME ReplyInv, [Next]_vars, Unspoilt' PROVE ReplyInv'
  BY DEF ReplyInv
<1>1. UNCHANGED setupVars
  BY DEF Next, Thread, Initialise, Setup, Stray, Receive, WaitForTimer, ExecuteIncrement,
         ExecuteExtremumGam, ExecuteExtremum_1khzGam, ExecuteSeeking, ExecuteClassicGam,
         ExecuteSwap, CopyOut, FpgaServes, OracleDecides, vars
<1>2. Unspoilt /\ file' = file
  BY <1>1 DEF Unspoilt, setupVars
<1>3. Ready /\ Ready'
  BY <1>2, ReadyNext DEF ReplyInv
<1>4. /\ file \in ControlFiles => ControlInv'
      /\ file = "VSES_Control_noSwap" => NoSwapInv'
      /\ file \in ClassicFiles => ClassicInv'
  BY <1>2, <1>3, ControlNext, NoSwapNext, ClassicNext DEF ReplyInv
<1>5. IsList(sent')
  BY <1>2, ListKept DEF ReplyInv
<1> QED
  BY <1>2, <1>3, <1>4, <1>5 DEF ReplyInv

LEMMA ReplyInvMeans == ReplyInv => SentIsLaw /\ ReadsFresh
<1> SUFFICES ASSUME ReplyInv, Unspoilt PROVE SentIsLaw /\ ReadsFresh
  BY DEF SentIsLaw, ReadsFresh
<1>1. Chosen
  BY DEF ReplyInv, Ready
<1>2. Answered /\ OnlyRequested
  BY <1>1, FileIsOne DEF ReplyInv, ControlInv, NoSwapInv, ClassicInv
<1>3. ReadsFresh
  BY <1>2 DEF ReadsFresh, OnlyRequested
<1>4. ASSUME sent # << >> PROVE sent[Len(sent)] = Expected(Len(sent))
  <2> DEFINE n == Len(sent)
  <2>1. n \in Nat \ {0}
    <3>1. IsList(sent)
      BY DEF ReplyInv
    <3> QED
      BY <1>4, <3>1 DEF IsList
  <2>2. sent[n] = Answer(file, LawOf(edit), received, decided, n)
    BY <1>2, <2>1 DEF Answered
  <2> HIDE DEF n
  <2>3. Expected(n) = Answer(file, LawOf(edit), received, decided, n)
    BY <2>1, ExpectedIs
  <2> QED
    BY <2>2, <2>3 DEF n
<1> QED
  BY <1>3, <1>4 DEF SentIsLaw

\* In every configuration of the repository, with either class of the seeking
\* law, every reply the sender has sent last is what the law in charge gives
\* for the datagrams received and the decisions taken so far: whatever they
\* are, for every length of a run, all matrices and gains.
THEOREM EveryReplyIsLaw == Spec => []SentIsLaw
BY ReplyInvStarts, ReplyInvNext, ReplyInvMeans, PTL DEF Spec

\* And what the GAMs read has been written in the cycle that reads it, all but
\* the signal the file's GAM asks for and nobody writes.
THEOREM EveryReadIsFresh == Spec => []ReadsFresh
BY ReplyInvStarts, ReplyInvNext, ReplyInvMeans, PTL DEF Spec
=============================================================================
