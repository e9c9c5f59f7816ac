--------------------------- MODULE CampaignProofs ---------------------------
(***************************************************************************)
(* Proofs about Campaign for every list of tests, every number of          *)
(* repetitions and any amount of trouble.                                  *)
(***************************************************************************)
EXTENDS Campaign, SequenceTheorems, TLAPS

USE CampaignAssumption

Commands ==
    {"root", "alive", "interf_test", "stop_tcp", "membw_stop", "disable", "reboot"}

Lines == [cmd : Commands, config : Config]

Things == {"vs", "oracle", "mempol", "qos", "bomb", "generators"}

TimesOf ==
    [run : Nat, with : SUBSET Things, hypervisor : {"none", "plain"}]

BoardTypeOK ==
    /\ state \in {"login", "shell", "alive", "setup", "marte", "hung", "booting"}
    /\ tty \in Seq(Lines)
    /\ args \in Config
    /\ step \in {"none", "jailhouse", "vs", "oracle", "mempol", "qos", "bomb",
                 "generators", "tcpdump", "marte"}
    /\ hypervisor \in {"none", "plain"}
    /\ running \subseteq Things
    /\ tcpdump \in BOOLEAN

HostTypeOK ==
    /\ host \in {"next", "login", "probe", "listen", "start", "settle",
                 "simulation", "stop", "trace", "collect", "reboot"}
    /\ test \in 0 .. Len(Tests)
    /\ host # "next" => test # 0 /\ i <= REPS
    /\ i \in 1 .. REPS + 1
    /\ runs \in Nat
    /\ answered \in BOOLEAN
    /\ cycle_times \in Seq(TimesOf)
    /\ results \in [Config -> Seq(TimesOf)]
    /\ trouble \in Nat

TypeOK == BoardTypeOK /\ HostTypeOK
-----------------------------------------------------------------------------
(***************************************************************************)
(* Where the board may be when the script is at a given step.  The script  *)
(* waits for a time and not for the board, so each step allows for several *)
(* places; what it does wait for is an answer of alive.sh, and that makes  *)
(* the difference between a board that has booted and one that has not.    *)
(***************************************************************************)
\* Nothing is at work but what the boot has started.
Clean == hypervisor = "none" /\ running = {} /\ ~tcpdump

Only(cmds, first, last) == \A k \in first .. last : tty[k].cmd \in cmds

\* On its way to answering, and nothing on the line would do more.
Waking ==
    /\ Clean /\ state \in {"booting", "login", "shell", "alive"}
    /\ Only({"root", "alive"}, 1, Len(tty))

\* Told to reboot, with the trace ended first: what was typed after that is lost.
GoingDown ==
    /\ state = "shell"
    /\ \E k \in DOMAIN tty :
           /\ tty[k].cmd = "reboot"
           /\ Only({"stop_tcp", "membw_stop", "disable"}, 1, k - 1)
           /\ tcpdump => \E j \in 1 .. k - 1 : tty[j].cmd = "stop_tcp"

Awake == Waking /\ state \in {"shell", "alive"}

\* Told to run the test, which is the last line typed.
Ordered ==
    /\ Clean /\ state \in {"shell", "alive"}
    /\ tty # << >> /\ tty[Len(tty)] = Line("interf_test")
    /\ Only({"root", "alive"}, 1, Len(tty) - 1)

\* What interf_test.sh has started before each of its commands.
Started(s) ==
    (IF s \in {"jailhouse", "vs"} THEN {} ELSE {"vs"})
    \cup (IF s \in {"jailhouse", "vs", "oracle"} THEN {} ELSE {"oracle"})
    \cup (IF s \in {"qos", "bomb", "generators", "tcpdump", "marte", "none"}
                /\ config.bwreg = "on" THEN {"mempol"} ELSE {})
    \cup (IF s \in {"bomb", "generators", "tcpdump", "marte", "none"}
                /\ config.bwreg = "on" THEN {"qos"} ELSE {})
    \cup (IF s \in {"generators", "tcpdump", "marte", "none"}
                /\ config.interference = "membomb" THEN {"bomb"} ELSE {})
    \cup (IF s \in {"tcpdump", "marte", "none"}
                /\ config.interference = "membomb" THEN {"generators"} ELSE {})

InTest ==
    /\ state \in {"setup", "marte"} /\ tty = << >> /\ args = config
    /\ step = "none" <=> state = "marte"
    /\ running = Started(step)
    /\ IF step = "jailhouse" THEN Clean ELSE hypervisor = "plain"

\* The test was interrupted; the trace goes on until it is told to stop.
Interrupted == state = "shell" /\ tty = << >>

Closing ==
    /\ state = "shell" /\ Only({"stop_tcp"}, 1, Len(tty))
    /\ tcpdump => tty # << >>

BoardInv ==
    \/ state = "hung"
    \/ host \in {"next", "login", "probe", "listen"} /\ (Waking \/ GoingDown)
    \/ host = "start" /\ Awake
    \/ host \in {"settle", "simulation"} /\ (Ordered \/ InTest)
    \/ host = "stop" /\ InTest /\ state = "marte"
    \/ host = "trace" /\ Interrupted
    \/ host \in {"collect", "reboot"} /\ Closing
-----------------------------------------------------------------------------
(***************************************************************************)
(* What is in the files.                                                   *)
(***************************************************************************)
\* The file of the simulation that has just ended.
FileInv ==
    host \in {"stop", "trace", "collect"} =>
        /\ Len(cycle_times) = 1 /\ cycle_times[1].run = runs
        /\ cycle_times[1].with = Wanted(config)
        /\ cycle_times[1].hypervisor = "plain"

\* The runs of a file of results are those of the campaign, in their order; the
\* one going on is in none of them.
ResultsInv ==
    /\ \A c \in Config : Over(c) =>
           \A t \in DOMAIN results[c] :
               /\ results[c][t].run \in 1 .. runs
               /\ results[c][t].with = Wanted(c)
               /\ results[c][t].hypervisor = "plain"
               /\ \A s \in 1 .. t - 1 : results[c][s].run < results[c][t].run
    /\ host \in {"simulation", "stop", "trace", "collect"} =>
           /\ runs > 0
           /\ \A t \in DOMAIN results[config] : results[config][t].run < runs
    /\ host \in {"login", "probe", "listen", "start", "settle", "simulation",
                 "stop", "trace", "collect"} =>
           Len(results[config]) = i - 1
    /\ host = "reboot" => Len(results[config]) = i
    /\ host = "next" /\ test > 0 => Len(results[config]) = REPS

CampaignInv == TypeOK /\ BoardInv /\ FileInv /\ ResultsInv
-----------------------------------------------------------------------------
LEMMA SeqFacts ==
    ASSUME NEW S
    PROVE  /\ << >> \in Seq(S)
           /\ \A x \in S : <<x>> \in Seq(S)
           /\ \A q \in Seq(S) : q # << >> =>
                  Head(q) \in S /\ Tail(q) \in Seq(S)
OBVIOUS

LEMMA DefaultType == Default \in Config
BY DEF Default, Config

LEMMA TypeInit == Init => TypeOK
<1> SUFFICES ASSUME Init PROVE TypeOK
  OBVIOUS
<1>1. BoardTypeOK
  BY DefaultType, SeqFacts DEF Init, BoardInit, BoardTypeOK
<1>2. OldTimes \in TimesOf
  BY DEF OldTimes, TimesOf
<1>3. cycle_times \in Seq(TimesOf) /\ results \in [Config -> Seq(TimesOf)]
  <2>1. << >> \in Seq(TimesOf) /\ <<OldTimes>> \in Seq(TimesOf)
    BY <1>2, SeqFacts
  <2> QED
    BY <2>1 DEF Init
<1>4. Len(Tests) \in Nat
  OBVIOUS
<1>5. /\ host = "next" /\ test = 0 /\ i = 1 /\ runs = 0
      /\ answered = FALSE /\ trouble = 0
  BY DEF Init
<1>6. HostTypeOK
  <2>1. test \in 0 .. Len(Tests) /\ i \in 1 .. REPS + 1
    BY <1>4, <1>5
  <2> QED
    BY <2>1, <1>3, <1>5, Zenon DEF HostTypeOK
<1> QED
  BY <1>1, <1>6 DEF TypeOK

LEMMA ConfigType ==
    ASSUME TypeOK, test # 0
    PROVE  config \in Config /\ \A cmd \in Commands : Line(cmd) \in Lines
BY DEF TypeOK, HostTypeOK, config, Line, Lines

\* What is typed is a sequence of lines.
LEMMA TypeType ==
    ASSUME TypeOK, NEW lines \in Seq(Lines), Type(lines)
    PROVE  BoardTypeOK'
BY DEF TypeOK, BoardTypeOK, Type, setUp

LEMMA BootType == Boot => BoardTypeOK'
BY DefaultType, SeqFacts DEF Boot, BoardTypeOK

LEMMA BoardType == TypeOK /\ Board => BoardTypeOK'
<1> SUFFICES ASSUME TypeOK, Board PROVE BoardTypeOK'
  OBVIOUS
<1> USE DEF TypeOK, BoardTypeOK, setUp
<1>r. tty # << >> => Head(tty) \in Lines /\ Tail(tty) \in Seq(Lines)
  BY SeqFacts
<1>1. CASE LoginPrompt \/ LogIn
  BY <1>1 DEF LoginPrompt, LogIn
<1>2. CASE Unknown \/ Alive
  BY <1>2, <1>r DEF Unknown, Alive, Command
<1>3. CASE InterfTest
  BY <1>3, <1>r DEF InterfTest, Command, Lines
<1>4. CASE StopTcpdump \/ StopRegulation \/ DisableJailhouse
  BY <1>4, <1>r DEF StopTcpdump, StopRegulation, DisableJailhouse, Command
<1>5. CASE Reboot
  BY <1>5, BootType DEF Reboot
<1>6. CASE LoadJailhouse
  <2>1. args.cachecol # "isolated"
    BY DEF Config
  <2> QED
    BY <1>6, <2>1 DEF LoadJailhouse, Setup
<1>7. CASE LoadController \/ LoadOracle \/ LoadMempol \/ SetQoS
  BY <1>7 DEF LoadController, LoadOracle, LoadMempol, SetQoS, Setup, Start, Things
<1>8. CASE LoadBomb \/ EnableGenerators \/ StartTcpdump \/ RunMarte
  BY <1>8 DEF LoadBomb, EnableGenerators, StartTcpdump, RunMarte, Setup, Start, Things
<1> QED
  BY <1>1, <1>2, <1>3, <1>4, <1>5, <1>6, <1>7, <1>8 DEF Board

LEMMA TypeStep == TypeOK /\ [Next]_vars => TypeOK'
<1> SUFFICES ASSUME TypeOK, [Next]_vars PROVE TypeOK'
  OBVIOUS
<1> USE DEF HostTypeOK
<1>u. UNCHANGED boardVars => BoardTypeOK'
  BY DEF TypeOK, BoardTypeOK, boardVars
<1>t. ASSUME NEW P, Usual(P) PROVE trouble' \in Nat
  BY <1>t DEF TypeOK, Usual, Trouble
<1>h. UNCHANGED hostVars => HostTypeOK'
  BY DEF TypeOK, hostVars
<1>1. CASE StartTest
  <2>1. Tests[test + 1] \in Config
    BY <1>1 DEF TypeOK, StartTest
  <2>2. results' \in [Config -> Seq(TimesOf)]
    BY <1>1, <2>1 DEF TypeOK, StartTest
  <2> QED
    BY <1>1, <2>2, <1>u DEF TypeOK, StartTest
<1>2. CASE TypeRoot
  <2>1. Line("root") \in Lines
    BY <1>2, ConfigType DEF TypeRoot, TypeOK, Commands
  <2>2. BoardTypeOK'
    BY <1>2, <2>1, TypeType, SeqFacts DEF TypeRoot
  <2>3. trouble' \in Nat
    BY <1>2, <1>t DEF TypeRoot
  <2> QED
    BY <1>2, <2>2, <2>3 DEF TypeOK, TypeRoot
<1>3. CASE TypeAlive
  <2>1. Line("alive") \in Lines
    BY <1>3, ConfigType DEF TypeAlive, TypeOK, Commands
  <2>2. BoardTypeOK'
    BY <1>3, <2>1, TypeType, SeqFacts DEF TypeAlive
  <2> QED
    BY <1>3, <2>2 DEF TypeOK, TypeAlive
<1>4. CASE HearAlive
  BY <1>4, <1>u DEF TypeOK, HearAlive
<1>5. CASE HearNothing
  <2>1. trouble' \in Nat
    BY <1>5, <1>t DEF HearNothing
  <2> QED
    BY <1>5, <2>1, BootType DEF TypeOK, HearNothing, ResetAndContinue
<1>6. CASE TypeTest
  <2>1. Line("interf_test") \in Lines
    BY <1>6, ConfigType DEF TypeTest, TypeOK, Commands
  <2>2. BoardTypeOK'
    BY <1>6, <2>1, TypeType, SeqFacts DEF TypeTest
  <2> QED
    BY <1>6, <2>2 DEF TypeOK, TypeTest
<1>7. CASE StartSimulation
  <2>1. trouble' \in Nat
    BY <1>7, <1>t DEF StartSimulation
  <2>2. answered' \in BOOLEAN
    BY <1>7, Zenon DEF StartSimulation
  <2> QED
    BY <1>7, <2>1, <2>2, <1>u DEF TypeOK, StartSimulation
<1>8. CASE SimulationEnds
  <2>1. Times(runs) \in TimesOf
    BY DEF TypeOK, BoardTypeOK, Times, TimesOf
  <2> QED
    BY <1>8, <2>1, <1>u DEF TypeOK, SimulationEnds
<1>9. CASE SimulationFails
  <2>1. trouble' \in Nat
    BY <1>9, <1>t DEF SimulationFails
  <2> QED
    BY <1>9, <2>1, BootType DEF TypeOK, SimulationFails, ResetAndContinue
<1>10. CASE StopMarte
  BY <1>10 DEF TypeOK, BoardTypeOK, StopMarte, Interrupt, setUp
<1>11. CASE TypeStopTcp
  <2>1. Line("stop_tcp") \in Lines
    BY <1>11, ConfigType DEF TypeStopTcp, TypeOK, Commands
  <2>2. BoardTypeOK'
    BY <1>11, <2>1, TypeType, SeqFacts DEF TypeStopTcp
  <2> QED
    BY <1>11, <2>2 DEF TypeOK, TypeStopTcp
<1>12. CASE Collect
  <2>1. config \in Config
    BY <1>12, ConfigType DEF Collect, TypeOK
  <2>2. results[config] \o cycle_times \in Seq(TimesOf)
    BY <2>1 DEF TypeOK
  <2> QED
    BY <1>12, <2>1, <2>2, <1>u DEF TypeOK, Collect
<1>13. CASE TypeReboot
  <2>1. /\ Line("membw_stop") \in Lines /\ Line("disable") \in Lines
        /\ Line("reboot") \in Lines
    BY <1>13, ConfigType DEF TypeReboot, NextRepetition, TypeOK, Commands
  <2>2. (IF config.bwreg = "on" THEN <<Line("membw_stop")>> ELSE << >>)
        \o <<Line("disable"), Line("reboot")>> \in Seq(Lines)
    BY <2>1
  <2>3. BoardTypeOK'
    BY <1>13, <2>2, TypeType DEF TypeReboot
  <2> QED
    BY <1>13, <2>3 DEF TypeOK, TypeReboot, NextRepetition
<1>14. CASE BoardSteps
  <2>1. CASE Board
    BY <1>14, <2>1, BoardType, <1>h DEF BoardSteps, TypeOK
  <2>2. CASE AliveEnds
    BY <1>14, <2>2, <1>h DEF BoardSteps, TypeOK, BoardTypeOK, AliveEnds, setUp
  <2> QED
    BY <1>14, <2>1, <2>2 DEF BoardSteps
<1>15. CASE BoardHangs
  BY <1>15 DEF TypeOK, BoardTypeOK, BoardHangs, Hang, Trouble, setUp
<1>16. CASE UNCHANGED vars
  BY <1>16, <1>u, <1>h DEF TypeOK, vars
<1> QED
  BY <1>1, <1>2, <1>3, <1>4, <1>5, <1>6, <1>7, <1>8, <1>9, <1>10, <1>11, <1>12,
     <1>13, <1>14, <1>15, <1>16 DEF Next, Host
-----------------------------------------------------------------------------
(***************************************************************************)
(* What the board does by itself, place by place.                          *)
(***************************************************************************)
ShellCommand ==
    \/ Unknown \/ Alive \/ InterfTest
    \/ StopTcpdump \/ StopRegulation \/ DisableJailhouse \/ Reboot

SetupCommand ==
    \/ LoadJailhouse \/ LoadController \/ LoadOracle
    \/ LoadMempol \/ SetQoS \/ LoadBomb \/ EnableGenerators
    \/ StartTcpdump \/ RunMarte

\* Each place of the console has its own steps.
LEMMA Consoles ==
    ASSUME Board
    PROVE  \/ state = "booting" /\ LoginPrompt
           \/ state = "login" /\ LogIn
           \/ state = "shell" /\ ShellCommand
           \/ state = "setup" /\ SetupCommand
<1>1. LoginPrompt => state = "booting"
  BY DEF LoginPrompt
<1>2. LogIn => state = "login"
  BY DEF LogIn
<1>3. ShellCommand => state = "shell"
  BY DEF ShellCommand, Unknown, Alive, InterfTest, StopTcpdump, StopRegulation,
         DisableJailhouse, Reboot, Command
<1>4. SetupCommand => state = "setup"
  BY DEF SetupCommand, LoadJailhouse, LoadController, LoadOracle, LoadMempol,
         SetQoS, LoadBomb, EnableGenerators, StartTcpdump, RunMarte, Setup
<1> QED
  BY <1>1, <1>2, <1>3, <1>4 DEF Board, ShellCommand, SetupCommand

LEMMA ReadLine ==
    ASSUME TypeOK, tty # << >>
    PROVE  /\ Head(tty) = tty[1] /\ Len(tty) \in Nat \ {0}
           /\ Len(Tail(tty)) = Len(tty) - 1
           /\ \A k \in 1 .. Len(tty) - 1 : Tail(tty)[k] = tty[k + 1]
BY DEF TypeOK, BoardTypeOK

LEMMA WakingStep ==
    ASSUME TypeOK, Waking, Board \/ AliveEnds
    PROVE  Waking' /\ (Awake => Awake')
<1> USE DEF Waking, Awake, Clean, setUp
<1>l. Len(tty) \in Nat
  BY DEF TypeOK, BoardTypeOK
<1>1. ASSUME tty # << >>, tty' = Tail(tty)
      PROVE  Only({"root", "alive"}, 1, Len(tty))'
  <2>1. /\ Len(tty') = Len(tty) - 1
        /\ \A k \in 1 .. Len(tty) - 1 : tty'[k] = tty[k + 1]
    BY <1>1, ReadLine
  <2> QED
    BY <1>l, <2>1 DEF Only
<1>2. ASSUME tty' = tty PROVE Only({"root", "alive"}, 1, Len(tty))'
  BY <1>2 DEF Only
<1>3. CASE state = "booting" /\ LoginPrompt
  BY <1>3, <1>2 DEF LoginPrompt
<1>4. CASE state = "login" /\ LogIn
  BY <1>4, <1>1 DEF LogIn
<1>5. CASE state = "shell" /\ ShellCommand
  <2>1. tty # << >> /\ Head(tty).cmd \in {"root", "alive"}
    <3>1. tty # << >>
      BY <1>5 DEF ShellCommand, Unknown, Alive, InterfTest, StopTcpdump,
                  StopRegulation, DisableJailhouse, Reboot, Command
    <3> QED
      BY <3>1, ReadLine DEF Only
  <2>2. Unknown \/ Alive
    BY <1>5, <2>1
    DEF ShellCommand, InterfTest, StopTcpdump, StopRegulation, DisableJailhouse,
        Reboot, Command
  <2> QED
    BY <1>1, <2>1, <2>2 DEF Unknown, Alive, Command
<1>6. CASE AliveEnds
  BY <1>6, <1>2 DEF AliveEnds
<1> QED
  BY <1>3, <1>4, <1>5, <1>6, Consoles

\* A board that is told to reboot does, with the trace complete.
LEMMA GoingDownStep ==
    ASSUME TypeOK, GoingDown, Board
    PROVE  GoingDown' \/ Waking'
<1> DEFINE stops == {"stop_tcp", "membw_stop", "disable"}
<1>l. Len(tty) \in Nat /\ DOMAIN tty = 1 .. Len(tty)
  BY DEF TypeOK, BoardTypeOK
<1>1. ShellCommand
  BY Consoles DEF GoingDown
<1>2. PICK k \in DOMAIN tty :
          /\ tty[k].cmd = "reboot"
          /\ Only(stops, 1, k - 1)
          /\ tcpdump => \E j \in 1 .. k - 1 : tty[j].cmd = "stop_tcp"
  BY DEF GoingDown
<1>3. tty # << >>
  BY <1>2, <1>l
<1>r. /\ Head(tty) = tty[1]
      /\ Len(Tail(tty)) = Len(tty) - 1
      /\ \A m \in 1 .. Len(tty) - 1 : Tail(tty)[m] = tty[m + 1]
      /\ Tail(tty) \in Seq(Lines)
  BY <1>3, ReadLine, SeqFacts DEF TypeOK, BoardTypeOK
<1>4. CASE k = 1
  <2>1. Reboot
    BY <1>1, <1>2, <1>4, <1>r
    DEF ShellCommand, Unknown, Alive, InterfTest, StopTcpdump, StopRegulation,
        DisableJailhouse, Command
  <2> QED
    BY <2>1 DEF Reboot, Boot, Waking, Clean, Only
<1>5. CASE k # 1
  <2>1. Head(tty).cmd \in stops
    BY <1>2, <1>5, <1>r, <1>l DEF Only
  <2>2. StopTcpdump \/ StopRegulation \/ DisableJailhouse
    BY <1>1, <2>1
    DEF ShellCommand, Unknown, Alive, InterfTest, Reboot, Command
  <2>3. tty' = Tail(tty) /\ state' = "shell"
    BY <2>2 DEF StopTcpdump, StopRegulation, DisableJailhouse, Command
  <2>4. DOMAIN tty' = 1 .. Len(tty) - 1
    BY <2>3, <1>r, <1>l
  <2>5. k - 1 \in DOMAIN tty' /\ tty'[k - 1].cmd = "reboot"
    BY <1>2, <1>5, <1>l, <1>r, <2>3, <2>4
  <2>6. \A m \in 1 .. k - 1 - 1 : tty'[m].cmd \in stops
    BY <1>2, <1>l, <1>r, <2>3 DEF Only
  <2>7. tcpdump' => \E j \in 1 .. k - 1 - 1 : tty'[j].cmd = "stop_tcp"
    <3>1. CASE Head(tty).cmd = "stop_tcp"
      <4>1. ~tcpdump'
        BY <2>2, <3>1 DEF StopTcpdump, StopRegulation, DisableJailhouse, Command
      <4> QED
        BY <4>1
    <3>2. CASE Head(tty).cmd # "stop_tcp"
      <4> SUFFICES ASSUME tcpdump' PROVE \E j \in 1 .. k - 1 - 1 : tty'[j].cmd = "stop_tcp"
        OBVIOUS
      <4>1. tcpdump
        BY <2>2, <3>2 DEF StopTcpdump, StopRegulation, DisableJailhouse, Command
      <4>2. PICK j \in 1 .. k - 1 : tty[j].cmd = "stop_tcp"
        BY <1>2, <4>1
      <4>3. j # 1
        BY <3>2, <4>2, <1>r
      <4>4. j - 1 \in 1 .. k - 1 - 1 /\ tty'[j - 1] = tty[j]
        BY <4>2, <4>3, <1>l, <1>r, <2>3
      <4> QED
        BY <4>2, <4>4
    <3> QED
      BY <3>1, <3>2
  <2>8. GoingDown'
    BY <2>3, <2>5, <2>6, <2>7 DEF GoingDown, Only
  <2> QED
    BY <2>8
<1> QED
  BY <1>4, <1>5

\* The lines before interf_test do not start anything.
LEMMA OrderedStep ==
    ASSUME TypeOK, test # 0, Ordered, Board \/ AliveEnds, test' = test
    PROVE  Ordered' \/ InTest'
<1> USE DEF Ordered, Clean, setUp
<1>l. Len(tty) \in Nat \ {0} /\ config' = config /\ Line("interf_test")' = Line("interf_test")
  BY ReadLine DEF config, Line
<1>r. /\ Head(tty) = tty[1]
      /\ Len(Tail(tty)) = Len(tty) - 1
      /\ \A m \in 1 .. Len(tty) - 1 : Tail(tty)[m] = tty[m + 1]
      /\ Tail(tty) \in Seq(Lines)
  BY ReadLine, SeqFacts DEF TypeOK, BoardTypeOK
<1>1. CASE AliveEnds
  BY <1>1, <1>l DEF AliveEnds, Only
<1>2. CASE Board
  <2>1. ShellCommand
    BY <1>2, Consoles
  <2>2. CASE Len(tty) = 1
    <3>1. Head(tty) = Line("interf_test")
      BY <2>2, <1>r
    <3>2. InterfTest
      BY <2>1, <3>1
      DEF ShellCommand, Unknown, Alive, StopTcpdump, StopRegulation,
          DisableJailhouse, Reboot, Command, Line
    <3>3. tty' = << >>
      BY <2>2, <3>2, <1>r DEF InterfTest, Command
    <3>4. /\ state' = "setup" /\ step' = "jailhouse" /\ args' = config'
          /\ UNCHANGED setUp
      BY <3>1, <3>2, <1>l DEF InterfTest, Line
    <3>5. Started(step)' = {} /\ running' = {}
      BY <3>4 DEF Started
    <3> QED
      BY <3>3, <3>4, <3>5 DEF InTest
  <2>3. CASE Len(tty) # 1
    <3>1. Head(tty).cmd \in {"root", "alive"}
      BY <2>3, <1>l, <1>r DEF Only
    <3>2. Unknown \/ Alive
      BY <2>1, <3>1
      DEF ShellCommand, InterfTest, StopTcpdump, StopRegulation,
          DisableJailhouse, Reboot, Command
    <3>3. /\ tty' = Tail(tty) /\ state' \in {"shell", "alive"}
          /\ UNCHANGED <<args, step, setUp>>
      BY <3>2 DEF Unknown, Alive, Command
    <3>4. /\ tty' # << >> /\ Len(tty') = Len(tty) - 1
          /\ tty'[Len(tty')] = Line("interf_test")
      <4>1. Len(tty) - 1 \in 1 .. Len(tty) - 1 /\ Len(tty') = Len(tty) - 1
        BY <2>3, <3>3, <1>l, <1>r
      <4>2. tty'[Len(tty) - 1] = tty[Len(tty)]
        BY <3>3, <4>1, <1>l, <1>r
      <4> QED
        BY <4>1, <4>2
    <3>5. Only({"root", "alive"}, 1, Len(tty) - 1)'
      BY <3>3, <3>4, <1>l, <1>r DEF Only
    <3> QED
      BY <3>3, <3>4, <3>5, <1>l
  <2> QED
    BY <2>2, <2>3
<1> QED
  BY <1>1, <1>2

\* interf_test.sh has started what its argument asks for, up to its next command.
LEMMA InTestStep ==
    ASSUME TypeOK, test # 0, InTest, Board \/ AliveEnds, test' = test
    PROVE  InTest'
<1> USE DEF InTest
<1>c. config' = config /\ \A s : Started(s)' = Started(s)
  BY DEF config, Started
<1>1. SetupCommand /\ ~AliveEnds
  BY Consoles DEF AliveEnds
<1> USE DEF SetupCommand, Setup, Start, Started
<1>2. CASE LoadJailhouse
  <2>1. args.cachecol # "isolated"
    BY DEF TypeOK, BoardTypeOK, Config
  <2> QED
    BY <1>2, <1>c, <2>1 DEF LoadJailhouse
<1>3. CASE LoadController \/ LoadOracle
  BY <1>3, <1>c DEF LoadController, LoadOracle
<1>4. CASE LoadMempol
  BY <1>4, <1>c DEF LoadMempol
<1>5. CASE SetQoS
  BY <1>5, <1>c DEF SetQoS
<1>6. CASE LoadBomb
  BY <1>6, <1>c DEF LoadBomb
<1>7. CASE EnableGenerators
  BY <1>7, <1>c DEF EnableGenerators
<1>8. CASE StartTcpdump \/ RunMarte
  BY <1>8, <1>c DEF StartTcpdump, RunMarte, setUp
<1> QED
  BY <1>1, <1>2, <1>3, <1>4, <1>5, <1>6, <1>7, <1>8

\* MARTe is the last thing to start.
LEMMA AllStarted == InTest /\ state = "marte" => running = Wanted(config)
BY DEF InTest, Started, Wanted

LEMMA ClosingStep ==
    ASSUME TypeOK, Closing, Board
    PROVE  Closing'
<1> USE DEF Closing
<1>1. ShellCommand
  BY Consoles
<1>2. tty # << >>
  BY <1>1 DEF ShellCommand, Unknown, Alive, InterfTest, StopTcpdump,
              StopRegulation, DisableJailhouse, Reboot, Command
<1>r. /\ Head(tty) = tty[1] /\ Len(tty) \in Nat \ {0}
      /\ Len(Tail(tty)) = Len(tty) - 1
      /\ \A m \in 1 .. Len(tty) - 1 : Tail(tty)[m] = tty[m + 1]
  BY <1>2, ReadLine
<1>3. Head(tty).cmd = "stop_tcp"
  BY <1>r DEF Only
<1>4. StopTcpdump
  BY <1>1, <1>3 DEF ShellCommand, Unknown, Alive, InterfTest,
                    StopRegulation, DisableJailhouse, Reboot, Command
<1> QED
  BY <1>4, <1>r DEF StopTcpdump, Command, Only

LEMMA InterruptedStep == Interrupted => ~Board /\ ~AliveEnds
<1> SUFFICES ASSUME Interrupted PROVE ~Board /\ ~AliveEnds
  OBVIOUS
<1>1. ~ShellCommand /\ ~AliveEnds
  BY DEF Interrupted, ShellCommand, Unknown, Alive, InterfTest, StopTcpdump,
         StopRegulation, DisableJailhouse, Reboot, Command, AliveEnds
<1> QED
  BY <1>1, Consoles DEF Interrupted
-----------------------------------------------------------------------------
(***************************************************************************)
(* The board is where the script's step allows it to be.                   *)
(***************************************************************************)
LEMMA BoardKeeps ==
    ASSUME TypeOK, BoardInv, BoardSteps
    PROVE  BoardInv'
<1>h. UNCHANGED <<host, test>> /\ (Board \/ AliveEnds)
  BY DEF BoardSteps, hostVars
<1>t. host # "next" => test # 0
  BY DEF TypeOK, HostTypeOK
<1> USE DEF BoardInv
<1>1. CASE state = "hung"
  <2>1. ~Board /\ ~AliveEnds
    BY <1>1, Consoles DEF AliveEnds
  <2> QED
    BY <1>h, <2>1
<1>2. CASE host \in {"next", "login", "probe", "listen"} /\ Waking
  BY <1>2, <1>h, WakingStep
<1>3. CASE host \in {"next", "login", "probe", "listen"} /\ GoingDown
  <2>1. Board
    BY <1>3, <1>h DEF GoingDown, AliveEnds
  <2> QED
    BY <1>3, <1>h, <2>1, GoingDownStep
<1>4. CASE host = "start" /\ Awake
  BY <1>4, <1>h, WakingStep DEF Awake
<1>5. CASE host \in {"settle", "simulation"} /\ Ordered
  BY <1>5, <1>h, <1>t, OrderedStep
<1>6. CASE host \in {"settle", "simulation", "stop"} /\ InTest
  <2>1. CASE host = "stop" /\ state = "marte"
    <3>1. ~Board /\ ~AliveEnds
      BY <2>1, Consoles DEF AliveEnds
    <3> QED
      BY <1>h, <3>1
  <2>2. CASE host # "stop"
    BY <1>6, <2>2, <1>h, <1>t, InTestStep
  <2>3. CASE state = "hung"
    BY <2>3, <1>1
  <2> QED
    BY <1>6, <2>1, <2>2, <2>3
<1>7. CASE host = "trace" /\ Interrupted
  BY <1>7, <1>h, InterruptedStep
<1>8. CASE host \in {"collect", "reboot"} /\ Closing
  <2>1. Board
    BY <1>8, <1>h DEF Closing, AliveEnds
  <2> QED
    BY <1>8, <1>h, <2>1, ClosingStep
<1> QED
  BY <1>1, <1>2, <1>3, <1>4, <1>5, <1>6, <1>7, <1>8

\* A board that boots has nothing at work and nothing to read.
LEMMA BootWakes == Boot => Waking'
BY DEF Boot, Waking, Clean, Only

\* Lines typed behind others leave these where they are.
LEMMA Appended ==
    ASSUME TypeOK, NEW lines \in Seq(Lines), Type(lines), ~Dead
    PROVE  /\ Len(tty') = Len(tty) + Len(lines)
           /\ Len(tty) \in Nat /\ Len(lines) \in Nat
           /\ \A k \in 1 .. Len(tty) : tty'[k] = tty[k]
           /\ \A k \in 1 .. Len(lines) : tty'[Len(tty) + k] = lines[k]
           /\ tty' \in Seq(Lines)
BY DEF TypeOK, BoardTypeOK, Type

LEMMA TypedWaking ==
    ASSUME TypeOK, Waking, NEW lines \in Seq(Lines), Type(lines),
           \A k \in 1 .. Len(lines) : lines[k].cmd \in {"root", "alive"}
    PROVE  Waking' /\ state' = state
<1>1. state' = state /\ Clean'
  BY DEF Type, Waking, Clean, setUp
<1>2. CASE Dead
  BY <1>1, <1>2 DEF Waking, Only, Type
<1>3. CASE ~Dead
  <2>1. Only({"root", "alive"}, 1, Len(tty))'
    <3> SUFFICES ASSUME NEW k \in 1 .. Len(tty') PROVE tty'[k].cmd \in {"root", "alive"}
      BY DEF Only
    <3>1. CASE k <= Len(tty)
      BY <1>3, <3>1, Appended DEF Waking, Only
    <3>2. CASE k > Len(tty)
      <4>1. k - Len(tty) \in 1 .. Len(lines) /\ k = Len(tty) + (k - Len(tty))
        BY <1>3, <3>2, Appended
      <4> QED
        BY <1>3, <4>1, Appended
    <3> QED
      BY <1>3, <3>1, <3>2, Appended
  <2> QED
    BY <1>1, <2>1 DEF Waking
<1> QED
  BY <1>2, <1>3

LEMMA TypedGoingDown ==
    ASSUME TypeOK, GoingDown, NEW lines \in Seq(Lines), Type(lines)
    PROVE  GoingDown'
<1>1. ~Dead /\ state' = "shell" /\ tcpdump' = tcpdump
  BY DEF GoingDown, Dead, Type, setUp
<1>2. DOMAIN tty = 1 .. Len(tty) /\ DOMAIN tty' = 1 .. Len(tty')
  BY <1>1, Appended DEF TypeOK, BoardTypeOK
<1>3. PICK k \in DOMAIN tty :
          /\ tty[k].cmd = "reboot"
          /\ Only({"stop_tcp", "membw_stop", "disable"}, 1, k - 1)
          /\ tcpdump => \E j \in 1 .. k - 1 : tty[j].cmd = "stop_tcp"
  BY DEF GoingDown
<1>4. k \in DOMAIN tty' /\ \A j \in 1 .. k : tty'[j] = tty[j]
  <2>1. /\ Len(tty') = Len(tty) + Len(lines)
        /\ Len(tty) \in Nat /\ Len(lines) \in Nat
        /\ \A j \in 1 .. Len(tty) : tty'[j] = tty[j]
    BY <1>1, Appended
  <2>2. k \in 1 .. Len(tty)
    BY <1>2
  <2> QED
    BY <1>2, <2>1, <2>2
<1>5. Only({"stop_tcp", "membw_stop", "disable"}, 1, k - 1)'
  BY <1>2, <1>3, <1>4 DEF Only
<1>6. tcpdump' => \E j \in 1 .. k - 1 : tty'[j].cmd = "stop_tcp"
  BY <1>1, <1>2, <1>3, <1>4
<1>7. tty'[k].cmd = "reboot"
  BY <1>2, <1>3, <1>4
<1> QED
  BY <1>1, <1>4, <1>5, <1>6, <1>7 DEF GoingDown, Only

\* The last lines of a repetition: the trace is told to stop before the board is
\* told to reboot.
LEMMA TypedClosing ==
    ASSUME TypeOK, Closing, NEW lines \in Seq(Lines), Type(lines),
           Len(lines) >= 2, lines[Len(lines)].cmd = "reboot",
           \A k \in 1 .. Len(lines) - 1 : lines[k].cmd \in {"membw_stop", "disable"}
    PROVE  GoingDown'
<1>1. ~Dead /\ state' = "shell" /\ tcpdump' = tcpdump
  BY DEF Closing, Dead, Type, setUp
<1>2. /\ Len(tty') = Len(tty) + Len(lines)
      /\ Len(tty) \in Nat /\ Len(lines) \in Nat
      /\ \A k \in 1 .. Len(tty) : tty'[k] = tty[k]
      /\ \A k \in 1 .. Len(lines) : tty'[Len(tty) + k] = lines[k]
      /\ tty' \in Seq(Lines)
  BY <1>1, Appended
<1> DEFINE last == Len(tty) + Len(lines)
<1>3. last \in DOMAIN tty' /\ tty'[last].cmd = "reboot"
  <2>1. Len(lines) \in 1 .. Len(lines)
    BY <1>2
  <2>2. tty'[Len(tty) + Len(lines)] = lines[Len(lines)]
    BY <1>2, <2>1
  <2>3. last \in 1 .. Len(tty')
    BY <1>2
  <2> QED
    BY <1>2, <2>2, <2>3
<1>4. \A k \in 1 .. last - 1 :
          tty'[k].cmd \in {"stop_tcp", "membw_stop", "disable"}
  <2> SUFFICES ASSUME NEW k \in 1 .. last - 1
               PROVE  tty'[k].cmd \in {"stop_tcp", "membw_stop", "disable"}
    OBVIOUS
  <2>1. CASE k <= Len(tty)
    BY <1>2, <2>1 DEF Closing, Only
  <2>2. CASE k > Len(tty)
    <3> DEFINE j == k - Len(tty)
    <3>1. j \in 1 .. Len(lines) - 1 /\ j \in 1 .. Len(lines) /\ k = Len(tty) + j
      BY <1>2, <2>2
    <3> HIDE DEF j
    <3>2. tty'[k] = lines[j]
      BY <1>2, <3>1
    <3> QED
      BY <3>1, <3>2
  <2> QED
    BY <1>2, <2>1, <2>2
<1>5. tcpdump' => 1 \in 1 .. last - 1 /\ tty'[1].cmd = "stop_tcp"
  <2> SUFFICES ASSUME tcpdump' PROVE 1 \in 1 .. last - 1 /\ tty'[1].cmd = "stop_tcp"
    OBVIOUS
  <2>1. 1 \in 1 .. Len(tty)
    BY <1>1, <1>2 DEF Closing, TypeOK, BoardTypeOK
  <2>2. tty[1].cmd = "stop_tcp"
    BY <2>1 DEF Closing, Only
  <2>3. tty'[1] = tty[1]
    BY <1>2, <2>1
  <2>4. 1 \in 1 .. last - 1
    BY <1>2, <2>1
  <2> QED
    BY <2>2, <2>3, <2>4
<1> HIDE DEF last
<1> QED
  BY <1>1, <1>3, <1>4, <1>5 DEF GoingDown, Only

LEMMA BoardStep ==
    ASSUME TypeOK, BoardInv, [Next]_vars
    PROVE  BoardInv'
<1> USE DEF BoardInv
<1>t. host # "next" => \A cmd \in Commands : Line(cmd) \in Lines
  BY ConfigType DEF TypeOK, HostTypeOK
<1>d. ASSUME NEW lines, Type(lines), state = "hung" PROVE state' = "hung"
  BY <1>d DEF Type
<1>1. CASE StartTest
  <2>1. UNCHANGED <<state, tty, hypervisor, running, tcpdump>> /\ host' = "login"
    BY <1>1 DEF StartTest, boardVars
  <2>2. host = "next"
    BY <1>1 DEF StartTest
  <2> QED
    BY <2>1, <2>2 DEF Waking, GoingDown, Clean, Only
<1>2. CASE TypeRoot
  <2> DEFINE lines == <<Line("root"), Line("root")>>
  <2>1. /\ lines \in Seq(Lines)
        /\ \A k \in 1 .. Len(lines) : lines[k].cmd \in {"root", "alive"}
    BY <1>2, <1>t DEF TypeRoot, Commands, Line
  <2>2. Type(lines) /\ host = "login" /\ host' = "probe"
    BY <1>2 DEF TypeRoot
  <2> HIDE DEF lines
  <2> QED
    BY <2>1, <2>2, <1>d, TypedWaking, TypedGoingDown
<1>3. CASE TypeAlive
  <2> DEFINE lines == <<Line("alive")>>
  <2>1. /\ lines \in Seq(Lines)
        /\ \A k \in 1 .. Len(lines) : lines[k].cmd \in {"root", "alive"}
    BY <1>3, <1>t DEF TypeAlive, Commands, Line
  <2>2. Type(lines) /\ host = "probe" /\ host' = "listen"
    BY <1>3 DEF TypeAlive
  <2> HIDE DEF lines
  <2> QED
    BY <2>1, <2>2, <1>d, TypedWaking, TypedGoingDown
<1>4. CASE HearAlive
  <2>1. /\ UNCHANGED <<state, tty, hypervisor, running, tcpdump>>
        /\ host = "listen" /\ state = "alive" /\ host' = "start"
    BY <1>4 DEF HearAlive, boardVars
  <2> QED
    BY <2>1 DEF Waking, GoingDown, Clean, Only, Awake
<1>5. CASE HearNothing
  BY <1>5, BootWakes DEF HearNothing, ResetAndContinue
<1>6. CASE TypeTest
  <2> DEFINE lines == <<Line("interf_test")>>
  <2>1. lines \in Seq(Lines) /\ Len(lines) = 1 /\ lines[1] = Line("interf_test")
    BY <1>6, <1>t DEF TypeTest, Commands
  <2>2. Type(lines) /\ host = "start" /\ host' = "settle" /\ test' = test
    BY <1>6 DEF TypeTest
  <2>3. CASE state = "hung"
    BY <1>d, <2>2, <2>3
  <2>4. CASE Awake
    <3>1. ~Dead /\ state' = state /\ Clean'
      BY <2>2, <2>4 DEF Awake, Dead, Type, Waking, Clean, setUp
    <3> HIDE DEF lines
    <3>2. /\ Len(tty') = Len(tty) + 1 /\ Len(tty) \in Nat
          /\ \A k \in 1 .. Len(tty) : tty'[k] = tty[k]
          /\ tty'[Len(tty) + 1] = Line("interf_test")
          /\ tty' \in Seq(Lines)
      <4>1. /\ Len(tty') = Len(tty) + Len(lines)
            /\ Len(tty) \in Nat
            /\ \A k \in 1 .. Len(tty) : tty'[k] = tty[k]
            /\ \A k \in 1 .. Len(lines) : tty'[Len(tty) + k] = lines[k]
            /\ tty' \in Seq(Lines)
        BY <2>1, <2>2, <3>1, Appended
      <4> QED
        BY <2>1, <4>1
    <3>3. tty' # << >> /\ Line("interf_test")' = Line("interf_test")
      BY <2>2, <3>2 DEF Line, config
    <3>4. Ordered'
      BY <2>4, <3>1, <3>2, <3>3 DEF Ordered, Only, Awake, Waking
    <3> QED
      BY <2>2, <3>4
  <2> QED
    BY <2>2, <2>3, <2>4
<1>7. CASE StartSimulation
  <2>1. UNCHANGED <<boardVars, test>> /\ host = "settle" /\ host' = "simulation"
    BY <1>7 DEF StartSimulation
  <2>2. Ordered' = Ordered /\ InTest' = InTest /\ state' = state
    BY <2>1 DEF boardVars, Ordered, InTest, Clean, Only, Started, Line, config
  <2> QED
    BY <2>1, <2>2
<1>8. CASE SimulationEnds
  <2>1. /\ UNCHANGED <<boardVars, test>>
        /\ host = "simulation" /\ host' = "stop" /\ state = "marte"
    BY <1>8 DEF SimulationEnds
  <2>2. InTest' = InTest /\ state' = state
    BY <2>1 DEF boardVars, InTest, Clean, Started, config
  <2> QED
    BY <2>1, <2>2 DEF Ordered
<1>9. CASE SimulationFails
  BY <1>9, BootWakes DEF SimulationFails, ResetAndContinue
<1>10. CASE StopMarte
  BY <1>10 DEF StopMarte, Interrupt, Interrupted, InTest, Dead
<1>11. CASE TypeStopTcp
  <2> DEFINE lines == <<Line("stop_tcp")>>
  <2>1. lines \in Seq(Lines) /\ Len(lines) = 1 /\ lines[1].cmd = "stop_tcp"
    BY <1>11, <1>t DEF TypeStopTcp, Commands, Line
  <2>2. Type(lines) /\ host = "trace" /\ host' = "collect"
    BY <1>11 DEF TypeStopTcp
  <2>3. CASE state = "hung"
    BY <1>d, <2>2, <2>3
  <2>4. CASE Interrupted
    <3>1. ~Dead /\ state' = "shell" /\ Len(tty) = 0
      BY <2>2, <2>4 DEF Interrupted, Dead, Type
    <3> HIDE DEF lines
    <3>2. /\ Len(tty') = 1 /\ tty'[1].cmd = "stop_tcp" /\ tty' \in Seq(Lines)
      <4>1. /\ Len(tty') = Len(tty) + Len(lines)
            /\ \A k \in 1 .. Len(lines) : tty'[Len(tty) + k] = lines[k]
            /\ tty' \in Seq(Lines)
        BY <2>1, <2>2, <3>1, Appended
      <4>2. tty'[Len(tty) + 1] = lines[1]
        BY <2>1, <4>1
      <4> QED
        BY <2>1, <3>1, <4>1, <4>2
    <3>3. Closing'
      <4>1. Only({"stop_tcp"}, 1, Len(tty))'
        BY <3>2 DEF Only
      <4>2. tty' # << >>
        <5>1. Len(<< >>) # 1
          OBVIOUS
        <5> QED
          BY <3>2, <5>1, Zenon
      <4> QED
        BY <3>1, <4>1, <4>2 DEF Closing
    <3> QED
      BY <2>2, <3>3
  <2> QED
    BY <2>2, <2>3, <2>4
<1>12. CASE Collect
  <2>1. /\ UNCHANGED <<state, tty, tcpdump>>
        /\ host = "collect" /\ host' = "reboot"
    BY <1>12 DEF Collect, boardVars
  <2> QED
    BY <2>1 DEF Closing, Only
<1>13. CASE TypeReboot
  <2> DEFINE stop == IF config.bwreg = "on" THEN <<Line("membw_stop")>> ELSE << >>
             lines == stop \o <<Line("disable"), Line("reboot")>>
  <2>1. Type(lines) /\ host = "reboot" /\ host' \in {"login", "next"}
    BY <1>13 DEF TypeReboot, NextRepetition
  <2>2. /\ lines \in Seq(Lines) /\ Len(lines) >= 2
        /\ lines[Len(lines)].cmd = "reboot"
        /\ \A k \in 1 .. Len(lines) - 1 : lines[k].cmd \in {"membw_stop", "disable"}
    <3>1. /\ Line("membw_stop") \in Lines /\ Line("disable") \in Lines
          /\ Line("reboot") \in Lines
      BY <2>1, <1>t DEF Commands
    <3>2. /\ Line("membw_stop").cmd = "membw_stop" /\ Line("disable").cmd = "disable"
          /\ Line("reboot").cmd = "reboot"
      BY DEF Line
    <3>3. CASE stop = << >>
      BY <3>1, <3>2, <3>3
    <3>4. CASE stop = <<Line("membw_stop")>>
      BY <3>1, <3>2, <3>4
    <3> QED
      BY <3>3, <3>4
  <2>3. CASE state = "hung"
    BY <1>d, <2>1, <2>3
  <2>4. CASE Closing
    <3> HIDE DEF lines
    <3>1. GoingDown'
      BY <2>1, <2>2, <2>4, TypedClosing
    <3> QED
      BY <2>1, <3>1
  <2> QED
    BY <2>1, <2>3, <2>4
<1>14. CASE BoardSteps
  BY <1>14, BoardKeeps
<1>15. CASE BoardHangs
  BY <1>15 DEF BoardHangs, Hang
<1>16. CASE UNCHANGED vars
  BY <1>16 DEF vars, boardVars, hostVars, Waking, GoingDown, Clean, Only, Awake,
               Ordered, InTest, Started, Line, config, Interrupted, Closing
<1> QED
  BY <1>1, <1>2, <1>3, <1>4, <1>5, <1>6, <1>7, <1>8, <1>9, <1>10, <1>11, <1>12,
     <1>13, <1>14, <1>15, <1>16 DEF Next, Host
-----------------------------------------------------------------------------
LEMMA FileStep ==
    ASSUME TypeOK, BoardInv, FileInv, [Next]_vars
    PROVE  FileInv'
<1> USE DEF FileInv
<1>1. CASE SimulationEnds
  <2>1. /\ state = "marte" /\ host = "simulation" /\ test' = test /\ runs' = runs
        /\ cycle_times' = <<Times(runs)>>
    BY <1>1 DEF SimulationEnds
  <2>2. running = Wanted(config) /\ hypervisor = "plain"
    BY <2>1, AllStarted DEF BoardInv, Ordered, Waking, InTest
  <2>3. cycle_times'[1] = Times(runs) /\ Len(cycle_times') = 1
    BY <2>1
  <2>4. Wanted(config)' = Wanted(config)
    BY <2>1 DEF Wanted, config
  <2> QED
    BY <2>1, <2>2, <2>3, <2>4 DEF Times
<1>2. CASE StopMarte \/ TypeStopTcp
  <2>1. /\ host \in {"stop", "trace"}
        /\ UNCHANGED <<test, runs, cycle_times>>
    BY <1>2 DEF StopMarte, TypeStopTcp
  <2> QED
    BY <2>1 DEF Wanted, config
<1>3. CASE UNCHANGED hostVars
  BY <1>3 DEF hostVars, Wanted, config
<1>4. CASE BoardHangs
  BY <1>4 DEF BoardHangs, Wanted, config
<1>5. CASE \/ StartTest \/ TypeRoot \/ TypeAlive \/ HearAlive \/ HearNothing
           \/ TypeTest \/ StartSimulation \/ SimulationFails \/ Collect \/ TypeReboot
  <2>1. host' \notin {"stop", "trace", "collect"}
    BY <1>5
    DEF StartTest, TypeRoot, TypeAlive, HearAlive, HearNothing, ResetAndContinue,
        TypeTest, StartSimulation, SimulationFails, Collect, TypeReboot, NextRepetition
  <2> QED
    BY <2>1
<1> QED
  BY <1>1, <1>2, <1>3, <1>4, <1>5 DEF Next, Host, BoardSteps, vars

LEMMA OneMore ==
    ASSUME NEW S, NEW old \in Seq(S), NEW one \in Seq(S), Len(one) = 1
    PROVE  /\ Len(old \o one) = Len(old) + 1 /\ Len(old) \in Nat
           /\ DOMAIN (old \o one) = 1 .. Len(old) + 1 /\ DOMAIN old = 1 .. Len(old)
           /\ \A k \in 1 .. Len(old) : (old \o one)[k] = old[k]
           /\ (old \o one)[Len(old) + 1] = one[1]
<1>1. Len(old) \in Nat /\ DOMAIN old = 1 .. Len(old)
  OBVIOUS
<1>2. old \o one \in Seq(S) /\ Len(old \o one) = Len(old) + 1
  BY ConcatProperties
<1>3. DOMAIN (old \o one) = 1 .. Len(old) + 1
  BY <1>1, <1>2
<1>4. \A k \in 1 .. Len(old) : (old \o one)[k] = old[k]
  BY <1>1
<1>5. (old \o one)[Len(old) + 1] = one[1]
  BY <1>1, ConcatProperties
<1> QED
  BY <1>1, <1>2, <1>3, <1>4, <1>5

\* The set of a repetition goes behind those of the repetitions before.
LEMMA CollectStep ==
    ASSUME TypeOK, FileInv, ResultsInv, Collect
    PROVE  ResultsInv'
<1>1. /\ host = "collect" /\ host' = "reboot" /\ test # 0
      /\ UNCHANGED <<test, i, runs>>
      /\ config' = config /\ config \in Config
  BY ConfigType DEF Collect, TypeOK, HostTypeOK, config
<1> DEFINE old == results[config]
           new == old \o cycle_times
<1>2. results' = [results EXCEPT ![config] = new]
  BY DEF Collect
<1>3. /\ old \in Seq(TimesOf) /\ cycle_times \in Seq(TimesOf)
      /\ results \in [Config -> Seq(TimesOf)] /\ Len(cycle_times) = 1
      /\ runs \in Nat /\ i \in Nat /\ test \in 0 .. Len(Tests)
  BY <1>1 DEF TypeOK, HostTypeOK, FileInv
<1>4. /\ Len(new) = Len(old) + 1 /\ Len(old) \in Nat
      /\ DOMAIN new = 1 .. Len(old) + 1 /\ DOMAIN old = 1 .. Len(old)
      /\ \A k \in 1 .. Len(old) : new[k] = old[k]
      /\ new[Len(old) + 1] = cycle_times[1]
  <2> HIDE DEF old
  <2> QED
    BY <1>3, OneMore
<1>5. /\ results'[config] = new
      /\ \A c \in Config : c # config => results'[c] = results[c]
  BY <1>1, <1>2, <1>3
<1>6. \A c : Over(c)' = Over(c) /\ Wanted(c)' = Wanted(c)
  BY <1>1 DEF Over, Wanted
<1>7. Over(config)
  BY <1>1, <1>3 DEF Over, config
<1>8. /\ runs > 0 /\ Len(old) = i - 1
      /\ \A t \in DOMAIN old :
            /\ old[t].run \in 1 .. runs /\ old[t].with = Wanted(config)
            /\ old[t].hypervisor = "plain"
            /\ \A s \in 1 .. t - 1 : old[s].run < old[t].run
            /\ old[t].run < runs
  BY <1>1, <1>7 DEF ResultsInv
<1>9. cycle_times[1].run = runs /\ cycle_times[1].with = Wanted(config)
      /\ cycle_times[1].hypervisor = "plain"
  BY <1>1 DEF FileInv
<1> HIDE DEF new, old
<1>10. ASSUME NEW t \in DOMAIN new
       PROVE  /\ new[t].run \in 1 .. runs /\ new[t].with = Wanted(config)
              /\ new[t].hypervisor = "plain"
              /\ \A s \in 1 .. t - 1 : new[s].run < new[t].run
  <2>1. CASE t \in 1 .. Len(old)
    <3>1. new[t] = old[t] /\ \A s \in 1 .. t - 1 : new[s] = old[s]
      BY <1>4, <2>1
    <3> QED
      BY <1>4, <1>8, <2>1, <3>1
  <2>2. CASE t = Len(old) + 1
    <3>1. new[t] = cycle_times[1]
      BY <1>4, <2>2
    <3>2. ASSUME NEW s \in 1 .. t - 1 PROVE new[s].run < new[t].run
      <4>1. s \in 1 .. Len(old) /\ s \in DOMAIN old
        BY <1>4, <2>2
      <4>2. new[s] = old[s] /\ old[s].run < runs
        BY <1>4, <1>8, <4>1
      <4> QED
        BY <1>9, <3>1, <4>2
    <3> QED
      BY <1>3, <1>8, <1>9, <3>1, <3>2
  <2> QED
    BY <1>4, <2>1, <2>2
<1>11. ASSUME NEW c \in Config, Over(c)', NEW t \in DOMAIN results'[c]
       PROVE  /\ results'[c][t].run \in 1 .. runs'
              /\ results'[c][t].with = Wanted(c)'
              /\ results'[c][t].hypervisor = "plain"
              /\ \A s \in 1 .. t - 1 : results'[c][s].run < results'[c][t].run
  <2>1. CASE c = config
    BY <2>1, <1>1, <1>5, <1>6, <1>10, <1>11
  <2>2. CASE c # config
    BY <2>2, <1>1, <1>5, <1>6, <1>11 DEF ResultsInv
  <2> QED
    BY <2>1, <2>2
<1>12. Len(results'[config']) = i'
  BY <1>1, <1>3, <1>4, <1>5, <1>8
<1> QED
  BY <1>1, <1>11, <1>12 DEF ResultsInv

LEMMA ResultsStep ==
    ASSUME TypeOK, FileInv, ResultsInv, [Next]_vars
    PROVE  ResultsInv'
<1>n. /\ runs \in Nat /\ i \in 1 .. REPS + 1 /\ test \in 0 .. Len(Tests)
      /\ results \in [Config -> Seq(TimesOf)] /\ REPS \in Nat \ {0}
      /\ host # "next" => test # 0 /\ i <= REPS
  BY DEF TypeOK, HostTypeOK
<1>1. CASE StartTest
  <2> DEFINE c0 == Tests[test + 1]
  <2>1. /\ host = "next" /\ host' = "login" /\ test' = test + 1 /\ i' = 1
        /\ results' = [results EXCEPT ![c0] = << >>] /\ runs' = runs
        /\ c0 \in Config /\ config' = c0
    BY <1>1, <1>n DEF StartTest, config
  <2>2. /\ results'[c0] = << >>
        /\ \A c \in Config : c # c0 => results'[c] = results[c]
    BY <2>1, <1>n
  <2>3. ASSUME NEW c, Over(c)', c # c0 PROVE Over(c)
    BY <2>1, <2>3, <1>n DEF Over
  <2>4. \A c : Wanted(c)' = Wanted(c)
    BY DEF Wanted
  <2> HIDE DEF c0
  <2>5. ASSUME NEW c \in Config, Over(c)', NEW t \in DOMAIN results'[c]
        PROVE  /\ results'[c][t].run \in 1 .. runs'
               /\ results'[c][t].with = Wanted(c)'
               /\ results'[c][t].hypervisor = "plain"
               /\ \A s \in 1 .. t - 1 : results'[c][s].run < results'[c][t].run
    <3>1. c # c0
      BY <2>2, <2>5
    <3> QED
      BY <2>1, <2>2, <2>3, <2>4, <2>5, <3>1 DEF ResultsInv
  <2>6. Len(results'[config']) = i' - 1
    BY <2>1, <2>2
  <2> QED
    BY <2>1, <2>5, <2>6 DEF ResultsInv
<1>2. CASE StartSimulation
  <2>1. /\ host = "settle" /\ host' = "simulation" /\ runs' = runs + 1
        /\ UNCHANGED <<test, i, results>> /\ config' = config
        /\ \A c : Over(c)' = Over(c) /\ Wanted(c)' = Wanted(c)
    BY <1>2 DEF StartSimulation, config, Over, Wanted
  <2>2. config \in Config /\ Over(config)
    BY <2>1, <1>n, ConfigType DEF Over, config
  <2>3. \A t \in DOMAIN results[config] : results[config][t].run \in 1 .. runs
    BY <2>2 DEF ResultsInv
  <2>4. \A c \in Config : Over(c)' =>
           \A t \in DOMAIN results'[c] :
               /\ results'[c][t].run \in 1 .. runs'
               /\ results'[c][t].with = Wanted(c)'
               /\ results'[c][t].hypervisor = "plain"
               /\ \A s \in 1 .. t - 1 : results'[c][s].run < results'[c][t].run
    BY <2>1, <1>n DEF ResultsInv
  <2>5. Len(results'[config']) = i' - 1
    BY <2>1 DEF ResultsInv
  <2> QED
    BY <2>1, <2>3, <2>4, <2>5, <1>n DEF ResultsInv
<1>3. CASE Collect
  BY <1>3, CollectStep
<1>4. ASSUME UNCHANGED <<test, runs, results>>
      PROVE  /\ config' = config
             /\ \A c \in Config : Over(c)' =>
                  \A t \in DOMAIN results'[c] :
                      /\ results'[c][t].run \in 1 .. runs'
                      /\ results'[c][t].with = Wanted(c)'
                      /\ results'[c][t].hypervisor = "plain"
                      /\ \A s \in 1 .. t - 1 : results'[c][s].run < results'[c][t].run
  <2>1. config' = config /\ \A c : Over(c)' = Over(c) /\ Wanted(c)' = Wanted(c)
    BY <1>4 DEF Over, Wanted, config
  <2> QED
    BY <1>4, <2>1 DEF ResultsInv
<1>5. CASE TypeReboot
  <2>1. /\ host = "reboot" /\ host' = (IF i + 1 <= REPS THEN "login" ELSE "next")
        /\ i' = i + 1 /\ UNCHANGED <<test, runs, results>>
    BY <1>5 DEF TypeReboot, NextRepetition
  <2>2. Len(results[config]) = i
    BY <2>1 DEF ResultsInv
  <2>3. host' = "login" => Len(results'[config']) = i' - 1
    BY <2>1, <2>2, <1>4, <1>n
  <2>4. host' = "next" => Len(results'[config']) = REPS
    BY <2>1, <2>2, <1>4, <1>n
  <2> QED
    BY <1>4, <2>1, <2>3, <2>4 DEF ResultsInv
<1>6. CASE \/ TypeRoot \/ TypeAlive \/ HearAlive \/ HearNothing \/ TypeTest
           \/ SimulationFails
  <2>1. /\ host \in {"login", "probe", "listen", "start", "simulation"}
        /\ host' \in {"login", "probe", "listen", "start", "settle"}
        /\ UNCHANGED <<test, i, runs, results>>
    BY <1>6
    DEF TypeRoot, TypeAlive, HearAlive, HearNothing, ResetAndContinue, TypeTest,
        SimulationFails
  <2> QED
    BY <1>4, <2>1 DEF ResultsInv
<1>7. CASE SimulationEnds \/ StopMarte \/ TypeStopTcp
  <2>1. /\ host \in {"simulation", "stop", "trace"}
        /\ host' \in {"stop", "trace", "collect"}
        /\ UNCHANGED <<test, i, runs, results>>
    BY <1>7 DEF SimulationEnds, StopMarte, TypeStopTcp
  <2> QED
    BY <1>4, <2>1 DEF ResultsInv
<1>8. CASE BoardSteps \/ BoardHangs \/ UNCHANGED vars
  <2>1. UNCHANGED <<host, test, i, runs, results>>
    BY <1>8 DEF BoardSteps, BoardHangs, vars, hostVars
  <2> QED
    BY <1>4, <2>1 DEF ResultsInv
<1> QED
  BY <1>1, <1>2, <1>3, <1>5, <1>6, <1>7, <1>8 DEF Next, Host
-----------------------------------------------------------------------------
LEMMA InvInit == Init => CampaignInv
<1> SUFFICES ASSUME Init PROVE CampaignInv
  OBVIOUS
<1>1. BoardInv
  BY DEF Init, BoardInit, BoardInv, Waking, Clean, Only
<1>2. host = "next" /\ test = 0
  BY DEF Init
<1>3. FileInv
  BY <1>2 DEF FileInv
<1>4. ResultsInv
  BY <1>2 DEF ResultsInv, Over
<1> QED
  BY <1>1, <1>3, <1>4, TypeInit DEF CampaignInv

LEMMA InvStep == CampaignInv /\ [Next]_vars => CampaignInv'
BY TypeStep, BoardStep, FileStep, ResultsStep DEF CampaignInv

\* The variables keep their types.
THEOREM TypeCorrect == Spec => []TypeOK
<1>1. CampaignInv => TypeOK
  BY DEF CampaignInv
<1> QED
  BY <1>1, InvInit, InvStep, PTL DEF Spec

\* No test starts on what another one has left, however often and wherever the
\* board hangs or the script is too early.
THEOREM NoRemains == Spec => []StartsClean
<1>1. CampaignInv => StartsClean
  BY DEF CampaignInv, BoardInv, StartsClean, Waking, GoingDown, Awake, Ordered,
         InTest, Interrupted, Closing, Clean
<1> QED
  BY <1>1, InvInit, InvStep, PTL DEF Spec

\* What a file of results holds was measured under the interference and the
\* regulation in its name.
THEOREM LabelsAreTrue == Spec => []LabelsTrue
<1>1. CampaignInv => LabelsTrue
  BY DEF CampaignInv, ResultsInv, LabelsTrue, Collected
<1> QED
  BY <1>1, InvInit, InvStep, PTL DEF Spec

\* One set of times for each repetition, of a simulation that ended, however
\* many repetitions had to be begun again.
THEOREM OneSetEach == Spec => []OneSetPerRepetition
<1>1. ASSUME CampaignInv PROVE OneSetPerRepetition
  <2>1. \A c \in Config : Over(c) =>
           \A t \in DOMAIN results[c] :
               /\ results[c][t].run > 0
               /\ \A s \in 1 .. t - 1 : results[c][s].run < results[c][t].run
    BY <1>1 DEF CampaignInv, ResultsInv, TypeOK, HostTypeOK
  <2> QED
    BY <1>1, <2>1 DEF CampaignInv, ResultsInv, OneSetPerRepetition
<1> QED
  BY <1>1, InvInit, InvStep, PTL DEF Spec

\* The board never reboots on a packet trace that is still being written.
THEOREM TracesComplete == Spec => TraceCompleted
<1>1. ASSUME CampaignInv, Reboot PROVE ~tcpdump
  <2>1. /\ state = "shell" /\ tty # << >> /\ Head(tty).cmd = "reboot"
    BY <1>1 DEF Reboot
  <2>2. Head(tty) = tty[1] /\ Len(tty) \in Nat \ {0} /\ DOMAIN tty = 1 .. Len(tty)
    BY <1>1, <2>1, ReadLine DEF CampaignInv, TypeOK, BoardTypeOK
  <2>3. ~Waking /\ ~Awake /\ ~Closing
    BY <2>1, <2>2 DEF Waking, Awake, Closing, Only
  <2>4. ~Ordered
    <3>1. CASE Len(tty) = 1
      BY <2>1, <2>2, <3>1 DEF Ordered, Line
    <3>2. CASE Len(tty) # 1
      BY <2>1, <2>2, <3>2 DEF Ordered, Only
    <3> QED
      BY <3>1, <3>2
  <2>5. GoingDown
    BY <1>1, <2>1, <2>3, <2>4 DEF CampaignInv, BoardInv, InTest, Interrupted
  <2>6. PICK k \in DOMAIN tty :
            /\ Only({"stop_tcp", "membw_stop", "disable"}, 1, k - 1)
            /\ tcpdump => \E j \in 1 .. k - 1 : tty[j].cmd = "stop_tcp"
    BY <2>5 DEF GoingDown
  <2>7. k = 1
    BY <2>1, <2>2, <2>6 DEF Only
  <2> QED
    BY <2>6, <2>7
<1>2. CampaignInv /\ [Next]_vars => [Reboot => ~tcpdump]_vars
  BY <1>1
<1> QED
  BY <1>2, InvInit, InvStep, PTL DEF Spec, TraceCompleted

\* No time in the files of results was measured with cache colouring.
NeverColoured ==
    \A c \in Config : Over(c) => \A t \in Collected(c) : t.hypervisor = "plain"

\* No campaign measures with cache colouring, whatever its files are called:
\* interf_test.sh compares with a word vses_test.sh never passes.
THEOREM AllPlain == Spec => []NeverColoured
<1>1. CampaignInv => NeverColoured
  BY DEF CampaignInv, ResultsInv, NeverColoured, Collected
<1> QED
  BY <1>1, InvInit, InvStep, PTL DEF Spec
=============================================================================
