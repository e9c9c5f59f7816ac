----------------------------- MODULE BoardSetup -----------------------------
(***************************************************************************)
(* The board as the measurement campaign sees it: a shell on a serial      *)
(* line, the script interf_test.sh with the cells and regulators it        *)
(* starts, and MARTe, which it runs last.  The script checks no result, so *)
(* its commands follow one another whatever they return.                   *)
(*                                                                         *)
(* The actions leave the host's variables to the module that composes the  *)
(* board with it.                                                          *)
(***************************************************************************)
EXTENDS Naturals, Sequences

VARIABLES
    state,       \* what the board's console is connected to
    tty,         \* lines typed and not read yet
    args,        \* arguments of the interf_test.sh started last
    step,        \* its next command
    hypervisor,  \* "none", or how Jailhouse was started
    running,     \* cells, regulators and generators at work
    tcpdump      \* the packet trace is being written

boardVars == <<state, tty, args, step, hypervisor, running, tcpdump>>
setUp == <<hypervisor, running, tcpdump>>

\* The choices of a test: interference, cache colouring, bandwidth regulation.
Config ==
    [interference : {"solo", "membomb"}, cachecol : {"on", "off"},
     bwreg : {"on", "off"}]

Default == [interference |-> "solo", cachecol |-> "off", bwreg |-> "off"]

Dead == state \in {"hung", "booting"}

\* A board that has lost its power, or been told to reboot.
Boot ==
    /\ state' = "booting" /\ tty' = << >>
    /\ args' = Default /\ step' = "none"
    /\ hypervisor' = "none" /\ running' = {} /\ tcpdump' = FALSE

BoardInit ==
    /\ state = "login" /\ tty = << >>
    /\ args = Default /\ step = "none"
    /\ hypervisor = "none" /\ running = {} /\ tcpdump = FALSE

LoginPrompt ==
    /\ state = "booting" /\ state' = "login"
    /\ UNCHANGED <<tty, args, step, setUp>>

\* A line read at the login prompt: anything but the user is refused.
LogIn ==
    /\ state = "login" /\ tty # << >>
    /\ tty' = Tail(tty)
    /\ state' = IF Head(tty).cmd = "root" THEN "shell" ELSE "login"
    /\ UNCHANGED <<args, step, setUp>>
-----------------------------------------------------------------------------
(***************************************************************************)
(* The shell's commands.                                                   *)
(***************************************************************************)
Command(cmd) ==
    /\ state = "shell" /\ tty # << >> /\ Head(tty).cmd = cmd
    /\ tty' = Tail(tty)

\* There is no command of that name.
Unknown == Command("root") /\ UNCHANGED <<state, args, step, setUp>>

Alive == Command("alive") /\ state' = "alive" /\ UNCHANGED <<args, step, setUp>>

AliveEnds ==
    /\ state = "alive" /\ state' = "shell"
    /\ UNCHANGED <<tty, args, step, setUp>>

InterfTest ==
    /\ Command("interf_test")
    /\ state' = "setup" /\ step' = "jailhouse" /\ args' = Head(tty).config
    /\ UNCHANGED setUp

StopTcpdump ==
    /\ Command("stop_tcp") /\ tcpdump' = FALSE
    /\ UNCHANGED <<state, args, step, hypervisor, running>>

StopRegulation ==
    /\ Command("membw_stop") /\ running' = running \ {"mempol"}
    /\ UNCHANGED <<state, args, step, hypervisor, tcpdump>>

Cells == {"vs", "oracle", "mempol", "bomb"}

DisableJailhouse ==
    /\ Command("disable") /\ hypervisor' = "none" /\ running' = running \ Cells
    /\ UNCHANGED <<state, args, step, tcpdump>>

Reboot ==
    /\ state = "shell" /\ tty # << >> /\ Head(tty).cmd = "reboot"
    /\ Boot
-----------------------------------------------------------------------------
(***************************************************************************)
(* interf_test.sh.                                                         *)
(***************************************************************************)
Setup(from, to) ==
    /\ state = "setup" /\ step = from /\ step' = to
    /\ UNCHANGED <<tty, args>>

Start(things) ==
    /\ running' = running \cup things
    /\ UNCHANGED <<state, hypervisor, tcpdump>>

\* Coloured only for --cachecol isolated.
LoadJailhouse ==
    /\ Setup("jailhouse", "vs")
    /\ hypervisor' = IF args.cachecol = "isolated" THEN "coloured" ELSE "plain"
    /\ UNCHANGED <<state, running, tcpdump>>

LoadController == Setup("vs", "oracle") /\ Start({"vs"})

LoadOracle == Setup("oracle", "mempol") /\ Start({"oracle"})

LoadMempol ==
    /\ Setup("mempol", "qos")
    /\ Start(IF args.bwreg = "on" THEN {"mempol"} ELSE {})

SetQoS ==
    /\ Setup("qos", "bomb")
    /\ Start(IF args.bwreg = "on" THEN {"qos"} ELSE {})

LoadBomb ==
    /\ Setup("bomb", "generators")
    /\ Start(IF args.interference = "membomb" THEN {"bomb"} ELSE {})

EnableGenerators ==
    /\ Setup("generators", "tcpdump")
    /\ Start(IF args.interference = "membomb" THEN {"generators"} ELSE {})

\* In the background: it outlives the script.
StartTcpdump ==
    /\ Setup("tcpdump", "marte")
    /\ tcpdump' = TRUE
    /\ UNCHANGED <<state, hypervisor, running>>

RunMarte ==
    /\ Setup("marte", "none") /\ state' = "marte"
    /\ UNCHANGED setUp

Board ==
    \/ LoginPrompt \/ LogIn
    \/ Unknown \/ Alive \/ InterfTest
    \/ StopTcpdump \/ StopRegulation \/ DisableJailhouse \/ Reboot
    \/ LoadJailhouse \/ LoadController \/ LoadOracle
    \/ LoadMempol \/ SetQoS \/ LoadBomb \/ EnableGenerators
    \/ StartTcpdump \/ RunMarte

\* Ctrl-C ends whatever runs in the foreground and drops the lines it had not
\* read.
Interrupt ==
    /\ tty' = IF Dead THEN tty ELSE << >>
    /\ state' = IF state \in {"alive", "setup", "marte"} THEN "shell" ELSE state
    /\ step' = "none"
    /\ UNCHANGED <<args, setUp>>

\* What is typed while nobody listens is lost.
Type(lines) ==
    /\ tty' = IF Dead THEN tty ELSE tty \o lines
    /\ UNCHANGED <<state, args, step, setUp>>

Hang ==
    /\ state # "hung" /\ state' = "hung" /\ tty' = << >>
    /\ UNCHANGED <<args, step, setUp>>
=============================================================================
