---------------------------- MODULE Application ----------------------------
(***************************************************************************)
(* A MARTe application from its configuration to its replies.  The GAMs    *)
(* are initialised, then set up: each binds its pointers to signals by     *)
(* their position, and only the classic one checks what it is given.  Then *)
(* the thread executes them in turn, a cycle for every datagram.  Nothing  *)
(* but the configuration makes a pointer meet the signal of its name, the  *)
(* GAMs follow in an order in which every value is computed before it is   *)
(* used, or the signals lie where the FPGA and the oracle look for them:   *)
(* those two know the page as struct shared_page.                          *)
(*                                                                         *)
(* A GAM executes in one step here; ControlCycle has the interleaving.     *)
(***************************************************************************)
EXTENDS Configurations, Laws, PageLayout, SequencesExt

CONSTANTS
    Files,       \* the configurations looked at
    Edited,      \* the classes a configuration may get wrong
    Datagrams,   \* contents of a datagram, by position, and what comes after it
    MaxCycles    \* bound: cycles of a run; of an edited configuration, one

ASSUME FilesAssumption == Files \subseteq DOMAIN Configuration

\* The largest datagram has 58 values.
ASSUME DatagramsAssumption == \A d \in Datagrams : \A p \in 1 .. 58 : d[p] \in Int

VARIABLES
    file, edit,    \* the configuration, and what was changed in it
    gams,          \* the GAMs of the thread
    layout,        \* the page's signals, by name: where they are
    stage,         \* initialise, setup, run; refused; wild after a stray access
    at,            \* the GAM whose turn it is
    bound,         \* the GAMs' pointers: addresses
    page,          \* the page: the elements, from 0, by their first one's address
    counter, es, x_old,     \* state of VSGAMIncrement, VSGAMExtremum, VSGAMClassic
    inner_counter, fpga_x,  \* state of the FPGA
    \* history
    written,       \* addresses written in this cycle
    stale,         \* signals read in a cycle that had not written them
    received, decided, sent \* datagrams, oracle's decisions, replies, by cycle

setupVars == <<file, edit, gams, layout>>
lawVars == <<counter, es, x_old>>
fpgaVars == <<inner_counter, fpga_x>>
vars == <<setupVars, stage, at, bound, page, lawVars, fpgaVars, written, stale,
          received, decided, sent>>

Size == [float64 |-> 8, uint32 |-> 4, uint8 |-> 1]

Bytes(signal) == Size[signal.type] * signal.elements * signal.samples

Classes == {"VSGAMIncrement", "VSGAMExtremum", "VSGAMSwap", "VSGAMClassic"}
-----------------------------------------------------------------------------
(***************************************************************************)
(* What a class binds: member, side, position, and the type and number of  *)
(* elements its Execute takes to be there.                                 *)
(***************************************************************************)
Member4(name, side, pos, type, count) ==
    [name |-> name, side |-> side, pos |-> pos, type |-> type, count |-> count]

IncrementMembers ==
    <<Member4("oracleDecision", "in", 1, "uint8", 1),
      Member4("inputCounter", "out", 1, "uint8", 1),
      Member4("marteStrategy", "out", 2, "uint8", 1),
      Member4("outputCounter", "out", 3, "uint8", 1)>>

\* Variation: the output counter is looked for one position further.
SwapMembersShifted ==
    <<Member4("inputCounter", "in", 1, "uint8", 1),
      Member4("outputCounter", "in", 3, "uint8", 1),
      Member4("marteStrategy", "in", 3, "uint8", 1),
      Member4("vs3es_ref", "in", 4, "float64", 1),
      Member4("vs3fpga_ref", "in", 5, "float64", 1),
      Member4("vs3_ref", "out", 1, "float64", 1)>>

SwapMembers ==
    <<Member4("inputCounter", "in", 1, "uint8", 1),
      Member4("outputCounter", "in", 2, "uint8", 1),
      Member4("marteStrategy", "in", 3, "uint8", 1),
      Member4("vs3es_ref", "in", 4, "float64", 1),
      Member4("vs3fpga_ref", "in", 5, "float64", 1),
      Member4("vs3_ref", "out", 1, "float64", 1)>>

ExtremumMembers ==
    <<Member4("pf_voltages", "in", 1, "float64", 11),
      Member4("vs3", "in", 2, "float64", 1),
      Member4("pf_currents", "in", 3, "float64", 11),
      Member4("ivs3", "in", 4, "float64", 1),
      Member4("ip", "in", 5, "float64", 1),
      Member4("zc", "in", 6, "float64", 1),
      Member4("vs3_ref", "out", 1, "float64", 1)>>

ClassicMembers ==
    <<Member4("ivs3", "in", 1, "float64", 1),
      Member4("zdot", "in", 2, "float64", 1),
      Member4("vs3_ref", "out", 1, "float64", 1)>>

Members(class) ==
    CASE class = "VSGAMIncrement" -> IncrementMembers
      [] class = "VSGAMSwap" -> SwapMembers
      [] class \in {"VSGAMExtremum", "VSGAMExtremum_1khz"} -> ExtremumMembers
      [] class = "VSGAMClassic" -> ClassicMembers
      [] class = "IOGAM" -> << >>

Side(gam, side) == IF side = "in" THEN gam.inputs ELSE gam.outputs

\* NULL when there is no such signal.
Bind(gam, member) ==
    LET signals == Side(gam, member.side)
    IN  IF member.pos \in DOMAIN signals THEN layout[signals[member.pos].name] ELSE -1

\* The signal at the member's position is what Execute takes it to be.
Fits(gam, member) ==
    LET signals == Side(gam, member.side)
    IN  /\ member.pos \in DOMAIN signals
        /\ signals[member.pos].type = member.type
        /\ Bytes(signals[member.pos]) >= Size[member.type] * member.count
-----------------------------------------------------------------------------
(***************************************************************************)
(* The checks of VSGAMClassic::Setup.  The samples of the second input are *)
(* not looked at.                                                          *)
(***************************************************************************)
ClassicCounts(gam) == Len(gam.inputs) = 2 /\ Len(gam.outputs) = 1

\* Variation: the second input's type is not compared.
ClassicFirstTypeOnly(gam) ==
    gam.inputs[1].type = gam.outputs[1].type /\ gam.outputs[1].type = "float64"

ClassicTypes(gam) ==
    /\ gam.inputs[1].type = gam.outputs[1].type
    /\ gam.inputs[2].type = gam.outputs[1].type
    /\ gam.outputs[1].type = "float64"

ClassicSamples(gam) ==
    gam.inputs[1].samples = gam.outputs[1].samples /\ gam.inputs[1].samples = 1

ClassicDimensions(gam) ==
    /\ gam.inputs[1].dims = gam.outputs[1].dims
    /\ gam.inputs[2].dims = gam.outputs[1].dims
    /\ gam.outputs[1].dims = 0

ClassicElements(gam) ==
    /\ gam.inputs[1].elements = gam.outputs[1].elements
    /\ gam.inputs[2].elements = gam.outputs[1].elements
    /\ gam.outputs[1].elements = 1

Accepts(gam) ==
    gam.class = "VSGAMClassic" =>
        /\ ClassicCounts(gam) /\ ClassicTypes(gam) /\ ClassicSamples(gam)
        /\ ClassicDimensions(gam) /\ ClassicElements(gam)
-----------------------------------------------------------------------------
(***************************************************************************)
(* What may be wrong in a file, one thing at a time: a signal of a GAM     *)
(* left out or added, or one declared otherwise wherever it is named.      *)
(***************************************************************************)
NoEdit == [kind |-> "none"]

\* The class may also be exchanged for its variant, which is not wrong.
Variant == [kind |-> "1khz"]

Edits(functions) ==
    LET wrong == {g \in DOMAIN functions : functions[g].class \in Edited}
        named(g) == {s.name : s \in ToSet(functions[g].inputs \o functions[g].outputs)}
        omitted == {[kind |-> "omit", gam |-> g, side |-> side] :
                       g \in wrong, side \in {"in", "out"}}
        added == {[kind |-> "add", gam |-> g] : g \in wrong}
        declared == {[kind |-> "declare", name |-> n, as |-> as] :
                        n \in UNION {named(g) : g \in wrong},
                        as \in {<<"uint32", 1, 0, 1>>, <<"float64", 2, 0, 1>>,
                                <<"float64", 1, 1, 1>>, <<"float64", 1, 0, 2>>}}
    IN  {NoEdit, Variant} \cup omitted \cup added \cup declared

Redeclared(signals, name, as) ==
    [s \in DOMAIN signals |->
        IF signals[s].name # name THEN signals[s]
        ELSE [name |-> name, type |-> as[1], samples |-> as[2], dims |-> as[3],
              elements |-> as[4]]]

Apply(change, functions) ==
    CASE change.kind = "none" -> functions
      [] change.kind = "1khz" ->
            [g \in DOMAIN functions |->
                IF functions[g].class = "VSGAMExtremum"
                THEN [functions[g] EXCEPT !.class = "VSGAMExtremum_1khz"]
                ELSE functions[g]]
      [] change.kind = "omit" ->
            IF change.side = "in"
            THEN [functions EXCEPT ![change.gam].inputs = Front(@)]
            ELSE [functions EXCEPT ![change.gam].outputs = Front(@)]
      [] change.kind = "add" ->
            [functions EXCEPT ![change.gam].inputs = Append(@, Float64("Extra"))]
      [] change.kind = "declare" ->
            [g \in DOMAIN functions |->
                [functions[g] EXCEPT
                    !.inputs = Redeclared(@, change.name, change.as),
                    !.outputs = Redeclared(@, change.name, change.as)]]

\* The page's signals in the order in which the data source meets them.
Met(functions) ==
    FlattenSeq([g \in DOMAIN functions |->
        (IF functions[g].source = "page" THEN functions[g].inputs ELSE << >>)
        \o (IF functions[g].target = "page" THEN functions[g].outputs ELSE << >>)])

\* Where it meets one for the first time.
First(met) == {n \in DOMAIN met : \A j \in 1 .. n - 1 : met[j].name # met[n].name}

\* Bytes the first n of them take: it leaves no gaps.
Taken(met) ==
    LET bytes[n \in 0 .. Len(met)] ==
            IF n = 0 THEN 0
            ELSE bytes[n - 1] + IF n \in First(met) THEN Bytes(met[n]) ELSE 0
    IN  bytes

Layout(functions) ==
    LET met == Met(functions)
        place(name) == (CHOOSE n \in First(met) : met[n].name = name) - 1
    IN  [name \in {met[n].name : n \in First(met)} |-> Taken(met)[place(name)]]

\* The elements of a datagram that come before each of its signals.
Before(signals) ==
    LET elements[s \in DOMAIN signals] ==
            IF s = 1 THEN 0 ELSE elements[s - 1] + signals[s - 1].elements
    IN  elements

\* A page whose signals hold zeros.
Zeros(n) == [j \in 0 .. n - 1 |-> 0]
One(value) == [j \in 0 .. 0 |-> value]

\* The fields the FPGA and the oracle use, at their places in the struct.
Field(name) == Offset(shared_page, name)
FieldsUsed == {"oracle_decision", "input_counter", "marte_strategy", "output_counter",
               "ivs3", "zdot", "classic_output"}

\* The configuration is one of the repository, or has the variant class.
Unspoilt == edit \in {NoEdit, Variant}

CycleLeft == Len(received) < IF Unspoilt THEN MaxCycles ELSE 1

\* Only the swapping configurations share their page.
Shared == \E g \in DOMAIN gams : gams[g].class = "VSGAMSwap"

Init ==
    /\ file \in Files
    /\ edit \in Edits(Configuration[file])
    /\ gams = Apply(edit, Configuration[file])
    /\ layout = Layout(gams)
    /\ stage = "initialise" /\ at = 1
    /\ bound = [g \in DOMAIN gams |-> << >>]
    /\ page = [a \in {Field(f) : f \in FieldsUsed} \cup {layout[n] : n \in DOMAIN layout} |->
                  Zeros(29)]
    /\ counter = 0 /\ es = Fresh /\ x_old = 0
    /\ inner_counter = 0 /\ fpga_x = 0
    /\ written = {} /\ stale = {} /\ received = << >> /\ decided = << >> /\ sent = << >>
-----------------------------------------------------------------------------
\* GAM::Initialise of the GAM in turn, which MARTe may find wanting.
Initialise ==
    /\ stage = "initialise"
    /\ \/ stage' = "refused" /\ UNCHANGED at
       \/ at < Len(gams) /\ at' = at + 1 /\ UNCHANGED stage
       \/ at = Len(gams) /\ at' = 1 /\ stage' = "setup"
    /\ UNCHANGED <<setupVars, bound, page, lawVars, fpgaVars, written, stale,
                   received, decided, sent>>

\* Setup of the GAM in turn: its checks, and its pointers.
Setup ==
    /\ stage = "setup"
    /\ IF Accepts(gams[at])
       THEN LET members == Members(gams[at].class)
            IN  /\ bound' = [bound EXCEPT ![at] =
                                [m \in {members[p].name : p \in DOMAIN members} |->
                                    Bind(gams[at], CHOOSE member \in ToSet(members) :
                                                        member.name = m)]]
                /\ IF at < Len(gams) THEN at' = at + 1 /\ UNCHANGED stage
                   ELSE at' = 1 /\ stage' = "run"
       ELSE stage' = "refused" /\ UNCHANGED <<bound, at>>
    /\ UNCHANGED <<setupVars, page, lawVars, fpgaVars, written, stale,
                   received, decided, sent>>
-----------------------------------------------------------------------------
(***************************************************************************)
(* The thread.                                                             *)
(***************************************************************************)
Gam1 == gams[at]
Ptr == bound[at]

Turn(class) ==
    /\ stage = "run" /\ Gam1.class = class
    /\ \A m \in ToSet(Members(class)) : Fits(Gam1, m)

NextGam == at' = IF at < Len(gams) THEN at + 1 ELSE 1

\* An access through a pointer to nothing, or to another kind of signal.
Stray ==
    /\ stage = "run"
    /\ \E m \in ToSet(Members(Gam1.class)) : ~Fits(Gam1, m)
    /\ stage' = "wild"
    /\ UNCHANGED <<setupVars, at, bound, page, lawVars, fpgaVars, written, stale,
                   received, decided, sent>>

\* What a pointer to a single value finds.
At(a) == page[a][0]

\* Names of the page's signals, among those of the GAM, first written by now.
ReadSignals(names) ==
    stale' = stale \cup {n \in names : layout[n] \notin written}

\* An IOGAM fed by the receiver blocks for a datagram; the FPGA has had the
\* time of the period to finish the cycle before.
Receive ==
    /\ Turn("IOGAM") /\ Gam1.source = "UDPReceiver"
    /\ CycleLeft
    /\ Shared => inner_counter = At(Field("input_counter"))
    /\ \E d \in Datagrams :
           LET signals == Gam1.outputs
               names == {s.name : s \in ToSet(signals)}
               sent_as(a) == CHOOSE s \in DOMAIN signals : layout[signals[s].name] = a
           IN  /\ page' = [a \in DOMAIN page |->
                              IF \E n \in names : layout[n] = a
                              THEN LET s == sent_as(a)
                                   IN  [j \in 0 .. signals[s].elements - 1 |->
                                           d[Before(signals)[s] + j + 1]]
                              ELSE page[a]]
               /\ written' = {layout[n] : n \in names}
               /\ received' = Append(received, d)
    /\ NextGam
    /\ UNCHANGED <<setupVars, stage, bound, lawVars, fpgaVars, stale, decided, sent>>

\* GAMTimer waits for its timer; its signals are in a data source of its own.
WaitForTimer ==
    /\ Turn("IOGAM") /\ Gam1.source = "Timer"
    /\ CycleLeft
    /\ NextGam
    /\ UNCHANGED <<setupVars, stage, bound, page, lawVars, fpgaVars, written, stale,
                   received, decided, sent>>

ExecuteIncrement ==
    /\ Turn("VSGAMIncrement")
    /\ LET decision == At(Ptr.oracleDecision)
       IN  /\ page' = [page EXCEPT ![Ptr.inputCounter] = One((counter + 1) % 256),
                                   ![Ptr.marteStrategy] =
                                       IF decision \in {0, 1} THEN One(decision) ELSE @]
           /\ decided' = Append(decided, At(Field("oracle_decision")))
    /\ counter' = counter + 1
    /\ written' = written \cup {Ptr.inputCounter, Ptr.marteStrategy}
    /\ NextGam
    /\ UNCHANGED <<setupVars, stage, bound, es, x_old, fpgaVars, stale, received, sent>>

\* The inputs of the law, through the pointers.
ExtremumInputs ==
    [pf_voltages |-> page[Ptr.pf_voltages], vs3 |-> At(Ptr.vs3),
     pf_currents |-> page[Ptr.pf_currents], ivs3 |-> At(Ptr.ivs3),
     ip |-> At(Ptr.ip), zc |-> At(Ptr.zc)]

ExecuteSeeking(result) ==
    /\ page' = [page EXCEPT ![Ptr.vs3_ref] = One(result.vs3_ref)]
    /\ es' = [state |-> result.state, t |-> result.t]
    /\ written' = written \cup {Ptr.vs3_ref}
    /\ ReadSignals({s.name : s \in ToSet(Gam1.inputs)})
    /\ NextGam
    /\ UNCHANGED <<setupVars, stage, bound, counter, x_old, fpgaVars, received,
                   decided, sent>>

ExecuteExtremumGam ==
    Turn("VSGAMExtremum") /\ ExecuteSeeking(ExecuteExtremum(es, ExtremumInputs))

ExecuteExtremum_1khzGam ==
    Turn("VSGAMExtremum_1khz") /\ ExecuteSeeking(ExecuteExtremum_1khz(es, ExtremumInputs))

ExecuteClassicGam ==
    /\ Turn("VSGAMClassic")
    /\ LET result == ExecuteClassic(x_old, [ivs3 |-> At(Ptr.ivs3), zdot |-> At(Ptr.zdot)])
       IN  /\ page' = [page EXCEPT ![Ptr.vs3_ref] = One(result.vs3_ref)]
           /\ x_old' = result.x_old
    /\ written' = written \cup {Ptr.vs3_ref}
    /\ ReadSignals({s.name : s \in ToSet(Gam1.inputs)})
    /\ NextGam
    /\ UNCHANGED <<setupVars, stage, bound, counter, es, fpgaVars, received, decided, sent>>

\* With strategy 1 the thread spins until the counters agree.
ExecuteSwap ==
    /\ Turn("VSGAMSwap")
    /\ At(Ptr.marteStrategy) = 1 => At(Ptr.inputCounter) = At(Ptr.outputCounter)
    /\ IF At(Ptr.marteStrategy) = 1
       THEN /\ page' = [page EXCEPT ![Ptr.vs3_ref] = page[Ptr.vs3fpga_ref]]
            /\ ReadSignals({"InputCounter", "OutputCounter", "VS3FPGA_ref"})
       ELSE /\ page' = [page EXCEPT ![Ptr.vs3_ref] = page[Ptr.vs3es_ref]]
            /\ ReadSignals({"VS3ES_ref"})
    /\ written' = written \cup {Ptr.vs3_ref}
    /\ NextGam
    /\ UNCHANGED <<setupVars, stage, bound, lawVars, fpgaVars, received, decided, sent>>

\* An IOGAM that reads the page: the sender, and the writer of the file.
CopyOut ==
    /\ Turn("IOGAM") /\ Gam1.source = "page"
    /\ IF Gam1.target = "UDPSender"
       THEN sent' = Append(sent, At(layout["VS3_ref"]))
       ELSE UNCHANGED sent
    /\ ReadSignals({s.name : s \in ToSet(Gam1.inputs)})
    /\ NextGam
    /\ UNCHANGED <<setupVars, stage, bound, page, lawVars, fpgaVars, written,
                   received, decided>>

Thread ==
    \/ Initialise \/ Setup \/ Stray
    \/ Receive \/ WaitForTimer \/ ExecuteIncrement \/ ExecuteExtremumGam
    \/ ExecuteExtremum_1khzGam \/ ExecuteClassicGam \/ ExecuteSwap \/ CopyOut
-----------------------------------------------------------------------------
\* The FPGA serves a cycle that Increment has started, by the struct's offsets.
FpgaServes ==
    /\ stage = "run" /\ Shared
    /\ Field("input_counter") \in written
    /\ At(Field("input_counter")) # inner_counter
    /\ LET result == ExecuteClassic(fpga_x, [ivs3 |-> At(Field("ivs3")), zdot |-> At(Field("zdot"))])
       IN  /\ page' = [page EXCEPT ![Field("classic_output")] = One(result.vs3_ref),
                                   ![Field("output_counter")] = page[Field("input_counter")]]
           /\ fpga_x' = IF At(Field("marte_strategy")) # 0 THEN result.x_old ELSE 0
    /\ inner_counter' = At(Field("input_counter"))
    /\ written' = written \cup {Field("classic_output"), Field("output_counter")}
    /\ UNCHANGED <<setupVars, stage, at, bound, lawVars, stale, received, decided, sent>>

\* The oracle changes its mind, here between two cycles.
OracleDecides ==
    /\ stage = "run" /\ Shared /\ at = 1 /\ CycleLeft
    /\ page' = [page EXCEPT ![Field("oracle_decision")] = One(1 - @[0])]
    /\ UNCHANGED <<setupVars, stage, at, bound, lawVars, fpgaVars, written, stale,
                   received, decided, sent>>

Next == Thread \/ FpgaServes \/ OracleDecides

Spec == Init /\ [][Next]_vars

\* MARTe's start and its thread go on, and so does the FPGA.
FairSpec == Spec /\ WF_vars(Thread) /\ WF_vars(FpgaServes)
-----------------------------------------------------------------------------
\* The first 26 values of the datagram are the inputs of the seeking law.
Seen(d) == [j \in Inputs |-> d[j + 1]]

UsedLaw == IF edit = Variant THEN VSGAMExtremum_1khz ELSE VSGAMExtremum

\* Cycles before n, back to the last one that was not classic.
RunBefore(n) ==
    LET first == CHOOSE m \in 1 .. n :
                    /\ \A j \in m .. n - 1 : decided[j] # 0
                    /\ m > 1 => decided[m - 1] = 0
    IN  [c \in 1 .. n - first |-> first + c - 1]

\* What the law in charge gives for cycle n: the classic one by the values
\* at its positions in the datagram, the seeking one by the first 26.
Expected(n) ==
    LET seeking == ExtremumReference(UsedLaw, [m \in 1 .. n - 1 |-> Seen(received[m])],
                                     Seen(received[n]))
        classic(cycles, i, z) ==
            ClassicReference([c \in DOMAIN cycles |-> received[cycles[c]][i] * gain
                                                      + received[cycles[c]][z]],
                             received[n][i] * gain + received[n][z])
    IN  CASE file \in {"VS_Control", "VS_Control_Print"} ->
                 classic([m \in 1 .. n - 1 |-> m], 1, 2)
          [] file = "VSES_Control_noSwap" -> seeking
          [] OTHER -> IF decided[n] = 1 THEN classic(RunBefore(n), 24, 27) ELSE seeking

\* In every configuration of the repository, whatever the datagrams and the
\* oracle, each reply is the law in charge, applied to the values the server
\* put into the datagrams so far: pointers, places, order and loops agree.
SentIsLaw == Unspoilt /\ sent # << >> => sent[Len(sent)] = Expected(Len(sent))

\* What a GAM reads was written before, in the same cycle, by a GAM or by the
\* FPGA; all but VS3_req, which VSES-Control_Write.cfg:272 sends to its file
\* and nobody writes (its sender writes VS3_ref).
ReadsFresh == Unspoilt => stale \subseteq {"VS3_req"}

\* However a signal is declared, left out or added, a GAM that goes astray is
\* one whose Setup checks nothing: what VSGAMClassic::Setup accepts, its
\* Execute can use.
CheckedNeverStray == stage = "wild" => Gam1.class # "VSGAMClassic"

\* The swapping configurations put every signal where struct shared_page has
\* the member: the FPGA, the oracle and the tools know no configuration.
PageAsDeclared ==
    LET names ==
            <<"PFvoltages", "VS3", "PFcurrents", "IVS3", "Ip", "Zc", "ZcDot", "Gaps",
              "XPoint", "OracleDecision", "InputCounter", "MarteStrategy",
              "OutputCounter", "Reserved", "VS3ES_ref", "VS3FPGA_ref", "VS3_ref">>
    IN  Unspoilt /\ Shared /\ stage = "run" =>
            \A p \in DOMAIN names : names[p] \in DOMAIN layout =>
                layout[names[p]] = Placed(shared_page)[p]

\* Started on a configuration of the repository, the application refuses at
\* once or answers all its datagrams.
Answers ==
    Unspoilt => <>(stage = "refused" \/ (Len(sent) = MaxCycles /\ stage = "run"))
=============================================================================
