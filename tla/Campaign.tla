------------------------------ MODULE Campaign ------------------------------
(***************************************************************************)
(* A measurement campaign: all_vses_tests.sh runs vses_test.sh for each    *)
(* choice of interference, colouring and regulation.  The script drives    *)
(* the board over a serial line that only carries text, with sleeps where  *)
(* it would have to wait: it may be too early at every step.  A board that *)
(* does not answer is reset, a simulation that does not end is killed, and *)
(* either way the repetition starts again.  What ends up in the files of   *)
(* results must nevertheless be what their names say.                      *)
(***************************************************************************)
EXTENDS BoardSetup

CONSTANTS
    Tests,       \* the configurations, in the order they are run
    REPS,        \* repetitions of each
    MaxTrouble   \* bound: hangs, and times a wait was too short

ASSUME CampaignAssumption ==
    Tests \in Seq(Config) /\ REPS \in Nat \ {0} /\ MaxTrouble \in Nat

VARIABLES
    host,         \* what the script does next
    test,         \* the test of Tests it is at
    i,            \* its repetition
    runs,         \* simulations started so far
    answered,     \* MARTe was there when the simulation started
    cycle_times,  \* VS_Extremum_Track/cycle_times.txt
    results,      \* Results/cycle_times_..., one file per configuration
    trouble

hostVars == <<host, test, i, runs, answered, cycle_times, results, trouble>>
vars == <<boardVars, hostVars>>

config == Tests[test]

Line(cmd) == [cmd |-> cmd, config |-> config]

\* A file of times, by the run it was measured in and what was at work then.
Times(n) == [run |-> n, with |-> running, hypervisor |-> hypervisor]

\* Left over from another campaign.
OldTimes == [run |-> 0, with |-> {}, hypervisor |-> "none"]

Init ==
    /\ BoardInit
    /\ host = "next" /\ test = 0 /\ i = 1 /\ runs = 0 /\ answered = FALSE
    /\ cycle_times \in {<< >>, <<OldTimes>>}
    /\ \E old \in {<< >>, <<OldTimes>>} : results = [c \in Config |-> old]
    /\ trouble = 0

Trouble == trouble < MaxTrouble /\ trouble' = trouble + 1

\* Something usual if P, and trouble otherwise.
Usual(P) == IF P THEN UNCHANGED trouble ELSE Trouble
-----------------------------------------------------------------------------
(***************************************************************************)
(* vses_test.sh.                                                           *)
(***************************************************************************)
\* The file of an earlier campaign is removed.
StartTest ==
    /\ host = "next" /\ test < Len(Tests)
    /\ test' = test + 1 /\ i' = 1 /\ host' = "login"
    /\ results' = [results EXCEPT ![Tests[test + 1]] = << >>]
    /\ UNCHANGED <<boardVars, runs, answered, cycle_times, trouble>>

\* A minute after a reset the board is usually up.
TypeRoot ==
    /\ host = "login" /\ host' = "probe"
    /\ Usual(state # "booting")
    /\ Type(<<Line("root"), Line("root")>>)
    /\ UNCHANGED <<test, i, runs, answered, cycle_times, results>>

TypeAlive ==
    /\ host = "probe" /\ host' = "listen"
    /\ Type(<<Line("alive")>>)
    /\ UNCHANGED <<test, i, runs, answered, cycle_times, results, trouble>>

HearAlive ==
    /\ host = "listen" /\ state = "alive" /\ host' = "start"
    /\ UNCHANGED <<boardVars, test, i, runs, answered, cycle_times, results, trouble>>

\* taco target reset, and the repetition again.
ResetAndContinue ==
    /\ Boot /\ host' = "login"
    /\ UNCHANGED <<test, i, runs, answered, cycle_times, results>>

\* Variation: a board that says nothing is asked again.
HearNothingAskAgain ==
    /\ host = "listen" /\ host' = "login"
    /\ Usual(state # "alive" /\ (tty = << >> \/ state = "hung"))
    /\ UNCHANGED <<boardVars, test, i, runs, answered, cycle_times, results>>

HearNothing ==
    /\ host = "listen"
    /\ Usual(state # "alive" /\ (tty = << >> \/ state = "hung"))
    /\ ResetAndContinue

TypeTest ==
    /\ host = "start" /\ host' = "settle"
    /\ Type(<<Line("interf_test")>>)
    /\ UNCHANGED <<test, i, runs, answered, cycle_times, results, trouble>>

\* Ten seconds later; the setup is usually over.
StartSimulation ==
    /\ host = "settle" /\ host' = "simulation"
    /\ Usual(state \in {"marte", "hung"})
    /\ runs' = runs + 1 /\ answered' = (state = "marte")
    /\ UNCHANGED <<boardVars, test, i, cycle_times, results>>

\* vses_udp is answered from the first sample to the last, and saves its times.
SimulationEnds ==
    /\ host = "simulation" /\ answered /\ state = "marte"
    /\ cycle_times' = <<Times(runs)>>
    /\ host' = "stop"
    /\ UNCHANGED <<boardVars, test, i, runs, answered, results, trouble>>

\* Variations: the failed simulation is taken for one that ended, and the
\* board is not reset after it.
SimulationFailsUnnoticed ==
    /\ host = "simulation"
    /\ Usual(~answered \/ state # "marte")
    /\ host' = "stop"
    /\ UNCHANGED <<boardVars, test, i, runs, answered, cycle_times, results>>

SimulationFailsNoReset ==
    /\ host = "simulation"
    /\ Usual(~answered \/ state # "marte")
    /\ host' = "login"
    /\ Interrupt
    /\ UNCHANGED <<test, i, runs, answered, cycle_times, results>>

\* Two minutes, or any exit status but 0.
SimulationFails ==
    /\ host = "simulation"
    /\ Usual(~answered \/ state # "marte")
    /\ ResetAndContinue

StopMarte ==
    /\ host = "stop" /\ host' = "trace"
    /\ Interrupt
    /\ UNCHANGED <<test, i, runs, answered, cycle_times, results, trouble>>

\* Variation: the trace is not stopped.
ForgetStopTcp ==
    /\ host = "trace" /\ host' = "collect"
    /\ UNCHANGED <<boardVars, test, i, runs, answered, cycle_times, results, trouble>>

TypeStopTcp ==
    /\ host = "trace" /\ host' = "collect"
    /\ Type(<<Line("stop_tcp")>>)
    /\ UNCHANGED <<test, i, runs, answered, cycle_times, results, trouble>>

\* Appended if the file is there; else a copy of what is not there fails.
Collect ==
    /\ host = "collect" /\ host' = "reboot"
    /\ results' = [results EXCEPT ![config] = @ \o cycle_times]
    /\ UNCHANGED <<boardVars, test, i, runs, answered, cycle_times, trouble>>

NextRepetition ==
    /\ host = "reboot" /\ host' = IF i + 1 <= REPS THEN "login" ELSE "next"
    /\ i' = i + 1
    /\ UNCHANGED <<test, runs, answered, cycle_times, results, trouble>>

\* Variation: Jailhouse is left, and the board stays up.
TypeDisableOnly == NextRepetition /\ Type(<<Line("disable")>>)

\* The board is told to stop the regulation, to leave Jailhouse, to reboot.
TypeReboot ==
    /\ NextRepetition
    /\ Type((IF config.bwreg = "on" THEN <<Line("membw_stop")>> ELSE << >>)
            \o <<Line("disable"), Line("reboot")>>)

Host ==
    \/ StartTest \/ TypeRoot \/ TypeAlive \/ HearAlive \/ HearNothing
    \/ TypeTest \/ StartSimulation \/ SimulationEnds \/ SimulationFails
    \/ StopMarte \/ TypeStopTcp \/ Collect \/ TypeReboot

\* alive.sh talks for five seconds, as long as it is listened to.
BoardSteps ==
    /\ Board \/ (host # "listen" /\ AliveEnds)
    /\ UNCHANGED hostVars

BoardHangs ==
    /\ Hang /\ Trouble
    /\ UNCHANGED <<host, test, i, runs, answered, cycle_times, results>>

Next == Host \/ BoardSteps \/ BoardHangs

Spec == Init /\ [][Next]_vars

\* Host and board keep running; that the board hangs or a wait is too short
\* happens MaxTrouble times at most.
FairSpec == Spec /\ WF_vars(Host) /\ WF_vars(BoardSteps)
-----------------------------------------------------------------------------
\* What a configuration asks for, colouring apart.
Wanted(c) ==
    {"vs", "oracle"}
    \cup (IF c.interference = "membomb" THEN {"bomb", "generators"} ELSE {})
    \cup (IF c.bwreg = "on" THEN {"mempol", "qos"} ELSE {})

Collected(c) == {results[c][k] : k \in DOMAIN results[c]}

Over(c) == \E n \in 1 .. test : Tests[n] = c

\* Every time in a file of results was measured with exactly the interference
\* and the regulation the file is named after: MARTe starts last, so that a
\* simulation the setup has not been in time for gets no answers, and whatever
\* an earlier test has started is gone (interf_test.sh:139, vses_test.sh:109).
LabelsTrue ==
    \A c \in Config : Over(c) => \A t \in Collected(c) : t.with = Wanted(c)

\* A file of results holds one set of times for each repetition done, each of
\* a simulation of its own that ended in this campaign, however often boards
\* were reset and simulations killed on the way.
OneSetPerRepetition ==
    /\ \A c \in Config : Over(c) =>
           \A t \in DOMAIN results[c] :
               /\ results[c][t].run > 0
               /\ \A s \in 1 .. t - 1 : results[c][s].run < results[c][t].run
    /\ host \in {"login", "probe", "listen", "start", "settle", "simulation"} =>
           Len(results[config]) = i - 1
    /\ host = "next" /\ test > 0 => Len(results[config]) = REPS

\* No test starts on what another one has left: the board was booted between.
StartsClean ==
    state = "setup" /\ step = "jailhouse" =>
        hypervisor = "none" /\ running = {} /\ ~tcpdump

\* The packet trace is complete when the board is told to reboot.
TraceCompleted == [][Reboot => ~tcpdump]_vars

\* The campaign comes to its end, unless hangs and short waits never stop: no
\* reset, lost line or late answer leaves the script repeating itself.
CampaignEnds == <>(host = "next" /\ test = Len(Tests))

\* "./interf_test.sh --interference [solo|membomb] --cachecol [on|off]"
\* (interf_test.sh:4): times in a file named col_on were measured with cache
\* colouring.
ColouringAsLabelled ==
    \A c \in Config : Over(c) =>
        \A t \in Collected(c) : c.cachecol = "on" => t.hypervisor = "coloured"
=============================================================================
