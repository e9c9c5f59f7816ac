# Verification of the vertical-stabilisation controller test bench

This directory holds a TLA+ model of the program in this repository: a plasma
vertical-stabilisation controller that switches, under the orders of an oracle,
between an extremum-seeking law in software (MARTe2 GAMs on a Kria board) and a
classic law in the FPGA, and the servers, tools and scripts that exercise it.
TLC checks the modules on small instances; TLAPS proves the results that matter
most for every value of the constants.

## 1. Inventory

| Component | State | Operations | Interacts through |
| --- | --- | --- | --- |
| Control cycle: one MARTe thread running `GAMUDPReceiver GAMVSIncrement GAMVSExtremum GAMVSSwap GAMUDPSender` (`custom_GAMs/`, `target/Configuration/VSES-Control.cfg`) | `VSGAMIncrement::counter`, `VSGAMExtremum::state` and `t`, position in the cycle | receive, load the page, count, take the decision, extremum seeking, swap, send | the shared page; UDP |
| Classic controller in the FPGA (bitstream) | the law's `x_old`, `inner_counter` | poll the counter, read the sample and the strategy, compute, publish | the shared page; its configuration port |
| Oracle (a hypervisor cell, not in the repository) | none that matters | write `oracle_decision` | the shared page |
| Simulation servers `vs_udp.c`, `vses_udp.c` | recordings, replies, cycle times, next release `r` | load, compare lengths, open sockets, replay in lockstep, measure, wait, save | UDP to the board; files |
| Applications: the six configurations of `target/Configuration/`, and what MARTe does with one before its first cycle | signals and their addresses, the GAMs' pointers | `Initialise`, `Setup` of each GAM, the classic law as a GAM | the shared page, as its own struct says it is laid out |
| Hardware test `hw_test_new/hw_test.c` | its own copy of the law's state, the number of checks | configure, write samples, spin, compare, disable at exit | shared page and configuration port |
| Older tools `hw_test/hw_test.c`, `conf_port.c` | none | store to registers in an order, and end | configuration port, or what they take for it |
| Campaign `vses_test.sh`, `all_vses_tests.sh` | test, repetition, files of results | wake the board, start the test, run the server, reset and repeat, collect | serial line, files |
| Board setup `interf_test.sh`, `alive.sh`, `stop_tcp.sh` | hypervisor, cells, regulators, generators, packet trace | start cells, regulation, interference, trace, MARTe | serial line, hypervisor |
| Offline analysis (`pcap_to_timestamp...`, plots, matrices) | none | pair packets, plot | files |

What is hard in this code:

* three actors (thread, FPGA, oracle) share a page of memory with no lock, one
  byte-wide counter each way, and no timeout;
* the counter and the strategy that belongs to it are two stores;
* the decision is read twice;
* MARTe may be killed and started again: it counts from 0, on a page and an FPGA
  that still hold the counters and the state of before;
* GAMs find their signals by position, the FPGA finds them by the layout of a C
  struct, and only one `Setup` of four checks anything it is given;
* the thread does not wait for the FPGA in extremum-seeking cycles, so the FPGA
  may be late in the cycle in which the strategy turns to classic;
* replies carry no sequence number, and every system call that fails is
  reported and then ignored;
* releases are absolute times that must survive overruns and a clock that is set,
  and measured times must survive the turn of a second;
* row loaders add up `fscanf` results, of which one is -1;
* a signal may end the hardware test anywhere, and the FPGA has to be disabled;
* three tools leave registers behind for one another, in any order, killed or not;
* the campaign drives the board over a line of text without answers: sleeps stand
  for waits, a hung board is reset, a simulation that does not end is killed and
  repeated, and the results must still be what their file names say.

What makes each component correct is the list of properties in section 4; the
hazards, each at its line, are in `PROJECT.json`.

## 2. Modules

| Module | Models | State and actions |
| --- | --- | --- |
| `ControlData` | the values: a sample is named by its cycle, a law's state is the sequence of samples it has integrated, an output is the pair it was computed from | `ClassicOutput`, `ClassicState`, `ExtremumOutput` |
| `Controller` | the abstract specification: each sample answered once, in order, by the selected law from its state; the classic law may hear of a switch one cycle late | `Answer` |
| `FpgaClassic` | the FPGA (external): what the C code relies on | `Latch`, `ReadIvs3`, `ReadZdot`, `ReadStrategy`, `Compute`, `Publish` |
| `ControlCycle` | the thread, the FPGA and the oracle on the page, one access of a page field per step; restarts of MARTe | the thread's `marte` is its position; one action per access; `Restart` |
| `ControlCycleProofs` | theorems about it, with the refinement of `Controller` | |
| `PageLayout` | `struct shared_page`, and where C puts its members | `Offset` |
| `Laws` | the loops of the three `Execute` functions, with the matrices as constants and integers for doubles | `ExecuteExtremum`, `ExecuteExtremum_1khz`, `ExecuteClassic`, and references written as sums |
| `Configurations` | the text of the six configurations: GAMs, signals, data sources, order | `Configuration` |
| `Application`, `ApplicationProofs`, `MCApplication` | a configuration from its text to its replies | `Initialise`, `Setup`, `Stray`, one action per GAM a thread executes, `FpgaServes`, `OracleDecides` |
| `ServerLoop`, `ServerLoopProofs` | the replay loop, the wire and the board seen from it | `Sendto`, `Recvfrom`, their failures, `NextActivation`, `SaveData`, `Kill`, `BoardCycle`, loss and repetition of a datagram at any place in a queue |
| `ClosedLoop`, `ClosedLoopProofs` | `ServerLoop` with `ControlCycle` in the place of `BoardCycle` | `BoardReceives`, `BoardComputes`, `BoardAnswers`, and the steps of server, wire, FPGA and oracle |
| `PeriodicTimer`, `ServerProofs` | releases and stamps in `struct timespec`, a clock that advances between any two steps and may be set | one action per call that reads or waits for the clock; `SetClock` |
| `Loader` | the four loaders as one procedure, by the width of a row, one `fscanf` per step | `loader` is idle, running or returned; `Call`, `ScanNumber`, `ScanFails`, `KeepRow`, `BreakOff`, ..., `Forget` |
| `Startup`, `ServerProofs`, `MCStartup`, `MCServer` | extends `Loader`: the start and end of both servers | every recording loaded, its result kept as a `size_t`, lengths compared, sockets; one action per call and one for its failure. `MCServer` is a server from start to end, with `PeriodicTimer` in its loop |
| `HwTest`, `HwTestProofs` | the hardware test beside the FPGA of `FpgaClassic` | one action per access, the exit handler, signals |
| `RegisterTools`, `RegisterToolsProofs` | the stores of `hw_test_new`, `hw_test` and `conf_port reset`, with offsets computed by `PageLayout` | `Run`, `Store`, `End`, `ExitHandler`, `Kill` |
| `BoardSetup` | the board's console: login, shell, and `interf_test.sh` command by command | `LogIn`, one action per command of the shell and of the script, `Interrupt`, `Hang` |
| `Campaign`, `CampaignProofs`, `MCCampaign` | extends `BoardSetup`: `vses_test.sh` for each line of `all_vses_tests.sh` | one action per line typed or wait: `TypeAlive`, `HearNothing`, `StartSimulation`, `SimulationFails`, `Collect`, ... |

`ControlCycle` and `HwTest` both compose `FpgaClassic` with a driver; `Startup`
calls `Loader`; `Campaign` drives `BoardSetup`; `RegisterTools` and `Application`
take the page from `PageLayout`. Three refinements connect the levels:

* `ControlCycle` implements `Controller` (`AnswersAsPromised`, theorem
  `CyclesImplement`): `answered`, `run` and `reply` are history variables of
  `ControlCycle`, `strategy` is the one before `Increment` until the cycle is
  answered, and every step but `Send` is a stutter (of one run of MARTe: a restart has no
  counterpart). `Controller` lets the classic
  law integrate or clear by the strategy of the cycle or by that of the cycle before:
  the two status bytes are two stores, and no more than that can be promised;
* `ClosedLoop` implements `ServerLoop` (`LoopKept`, theorem `LoopIsKept`): a
  datagram in work on the board is mapped to the head of the queue, where the
  indivisible `BoardCycle` would still find it;
* `ClosedLoop` implements `Controller` through its board (theorem `LoopAnswers`).

`Application` complements `ControlCycle`: there the thread's steps are fine and
the values symbolic, here a GAM is one step and the numbers are computed, so that
wrong positions, places, orders and loop bounds show.

Each module has, next to some definitions, variations of them (for example
`SwapWithoutSpin` beside `SwapSpin`): plausible mistakes of the code, used to see
that each property can fail. No specification refers to them.

### Choices a reader should know

* **Memory.** Loads and stores of the thread take effect in program order, and
  each spin reads again: the pointers are not `volatile`, but the build passes
  no optimisation flag (`patches/marte2_omnv_exp.patch`, `OPTIM` is empty; the
  Makefiles of the tests give none either). The data source that maps the page
  (`GAMDataSourceNC`) is not in the repository.
* **Values.** Numbers are replaced by where they come from. Two results are
  equal in the model when they were computed from the same sample and the same
  state; rounding and the law's coefficients are left out. In `ControlCycle` a sample has
  two parts, loaded at two moments: `ivs3` stands for the signals up to `IVS3`, `zdot` for
  those after it, so the inputs of the seeking law are in both.
* **Comparisons of the hardware test.** Values of one provenance are one number, whose
  ratio to itself is 1 or, of two zeros, no number, and neither is an alarm; values of different
  provenance may be within ten percent or not. The law gives no NaN on the numbers of a
  values file, so the test for one is never true. The file's own result is the law's or another.
* **Counters.** The code's 32-bit counter is a cycle number in the model, and a
  page byte is that number modulo `W`. In the code `W = 256` divides `2^32`, so
  the wrap of the 32-bit counter changes nothing that is visible in the byte.
* **FPGA.** It reads the three fields in any order, each at its own moment,
  computes the output from the state before the update, and writes the counter
  last. That is what `quick_check` and `VSGAMSwap` rely on; the state is cleared
  in a cycle whose strategy is not classic (`hw_test_new/hw_test.c:75`).
* **Timing, an assumption the code does not enforce.** `FpgaKeepsUp`: when a
  datagram is loaded the FPGA is idle or has finished all but the last `MaxLag` cycles,
  the one about to start included. It stands for the server's period (200 us or 1 ms); of
  a cycle that a repeated datagram starts, which no period separates from the one
  before, it is assumed just the same. With `MaxLag >= W` the guarantee of the spin is
  lost, as TLC shows when `MCFresh.cfg` is given `MaxLag = 4` and `MaxCycle = 5`. When
  within a cycle the FPGA reads each field is left open, the strategy also between
  the stores of counter and strategy: see run `status_write`.
* **Restart.** MARTe is killed at any step of the thread, with the FPGA at any step
  of its own, and started again on what page and FPGA have. It counts from 0 and its
  first counter is 1 (`VSGAMIncrement.cpp:43`, `:80`): when the byte left over is 1 as
  well, the FPGA sees nothing new and the spin ends on the value of before (run `restart`).
  `left` keeps the bytes a restart has found, in the page and in the FPGA; `OnLeftover`
  is a cycle among the first `MaxLag` whose number is one of them. `FreshReply`,
  `PublishedThisCycle` and `NoOverwriteDuringCopy` except such cycles and no others,
  so they say where the damage ends. Were the FPGA still further behind after a
  restart than `FpgaKeepsUp` lets it be, that would be outside the model.
* **Arithmetic.** `Laws` computes with integers: sums, products and their order of
  use are the code's, rounding is not modelled. The matrices of the model are small and
  have no symmetry, so that a row taken for a column gives another number.
* **Clock.** `SetClock` moves the clock by any of `ClockSteps` between two steps.
  `ReleasesOnGrid` and `MeasuredWithinOneMicrosecond` hold even so (a measured time is
  compared with the two stamps taken); `NeverEarly` speaks of runs in which
  the clock was not set.
* **Serial line.** What is typed while the board hangs or boots is lost; Ctrl-C
  ends the program in the foreground and drops the lines it had not read. A wait
  that was too short and a board that hangs are both *trouble*, of which a run
  has a bounded amount (`MaxTrouble`). The commands of the setup are taken to
  succeed, as the script never looks.

## 3. Fairness

* `ClosedLoop!ClosedSpec`: weak fairness of the server, of the thread and of the
  FPGA, each as a whole. The thread is the only one on its core (`CPUs = 0x8`), the
  FPGA is hardware, the server a process that is not stopped. The oracle is not fair: it may
  never write. Nothing is assumed of failures, losses, repetitions or the kill.
* `Application!FairSpec`: weak fairness of MARTe's start and thread, and of the FPGA.
* `Startup!Spec`, `MCServer!ServerSpec`: weak fairness of the one process there is; its
  system calls answer.
* `Campaign!FairSpec`: weak fairness of the host's script and of the board's
  console, each as a whole; hanging is never fair. `alive.sh` ends after its five
  seconds, which is longer than the host listens: it goes on while it is listened to.
* `HwTest!FairSpec`: weak fairness of the test and of the FPGA, none of signals.

`ControlCycle`, `ServerLoop`, `PeriodicTimer` and `RegisterTools` are checked for safety
alone and state no fairness.

## 4. Runs

| Run | What it shows |
| --- | --- |
| `fresh` (`MCFresh.cfg`) | 3.6 million states. FPGA up to two cycles late, counter byte with four values, an oracle that also writes a byte that is neither 0 nor 1, MARTe killed at any step and restarted on the page and the FPGA it has used. But for a cycle on a byte left over, the reply is of this cycle's sample and law (`FreshReply`), the spin ends for this cycle only (`PublishedThisCycle`), the value is not replaced before it is copied (`NoOverwriteDuringCopy`); two reads of the oracle count as one (`DecisionLinearizable`). |
| `restart` (`MCRestart.cfg`) | `WrittenAfterIncrement`, the second of these without its exception, fails: a restarted MARTe takes the byte of the run before for the answer to its first cycle. |
| `closed_loop` (`MCClosedLoop.cfg`) | 740 000 states. Server, wire and controller in one system, with two faults of four kinds. Lost datagrams and failed sends never shift replies (`PairedReplies`, `OneInFlight`); with any fault a reply is never filed before its sample and never out of order (`NeverAhead`); only a loss or a failed send keeps the loop from its end (`Completes`). With the FPGA within the cycle, wherever it reads the strategy, a classic value comes from a gapless stretch of samples that starts at a switch or one cycle beside it (`SteadyClassic`), the board's cycles implement `Controller` (`AnswersAsPromised`) and the whole implements `ServerLoop` (`LoopKept`). |
| `application` (`MCApplication.cfg`) | Five configurations from their text to their replies, and each law class also with one of its signals declared wrongly, its last one left out or one more added. Every reply is what the law in charge gives for the values the server put into the datagrams (`SentIsLaw`); no GAM reads a value of the cycle before (`ReadsFresh`); what `VSGAMClassic::Setup` accepts its `Execute` can use (`CheckedNeverStray`); the swapping configurations lay the page out as `struct shared_page` (`PageAsDeclared`); each application refuses at once or answers every datagram (`Answers`). |
| `status_write` | `StrategyAgreement` fails: `shm_interface.md:12` asks for a single write of two bytes, the code does two, and the FPGA may read between them. `SteadyClassic` says how far this reaches. |
| `saved` | `SavedWasReceived` fails: whole arrays are saved, received or not. |
| `server` (`MCServer.cfg`) | 1.9 million states. Both servers and every file of up to six tokens, any call failing: complete rows only, in place, and an end (`CountsCompleteRows`, `RowsInPlace`, `Returns`); no descriptor leaks or is closed twice (`NoDescriptorLeft`, `DescriptorLifecycle`). In the loop, delays of any length up to the horizon, seconds that turn within a cycle, a clock set back and forward at any moment: releases stay on the grid (`TimerTypeOK`, `ReleasesOnGrid`), none is early by a clock that is not set (`NeverEarly`), a filed time is right to a microsecond (`MeasuredWithinOneMicrosecond`). |
| `vses_startup` | `AllFilesAgree` fails for `vses_udp.c`: the length of `VS3.txt` is not compared. |
| `hw_test` (`MCHwTest.cfg`) | Two signals, leftovers in page and FPGA, files with results of the law and others: after the first check the FPGA's values are the test's, and no alarm is raised where the file has the law's result (`NoFalseAlarm`), the FPGA is left disabled (`LeftDisabled`), the test ends (`TestEnds`). |
| `tools` (`MCTools.cfg`) | Any sequence of the three tools, each killed between any two stores: an enabled module is completely configured (`EnabledIsConfigured`), the new test runs on the offsets the comments of `shared_page.h` give (`TestedAddresses`), and what `conf_port` stores at 0x80000000 shuts no region down (`RegionsStayUp`). |
| `campaign` (`MCCampaign.cfg`) | The eight tests, two repetitions each, two troubles anywhere: times are labelled with what was at work (`LabelsTrue`), one set of this campaign per repetition (`OneSetPerRepetition`), no test starts on another's remains (`StartsClean`), the packet trace is whole (`TraceCompleted`), the campaign ends (`CampaignEnds`). |
| `colouring` | `ColouringAsLabelled` fails: `interf_test.sh` compares `--cachecol` with a word no caller passes. |

### Bounds

`fresh` has `MaxCycle = 4`, `W = 4` and `MaxLag = 2`: the byte wraps within the run
while the FPGA is behind, which is the case the hand-over is about; a switch to classic,
one back and another fit as well. The one restart comes wherever
thread, FPGA and oracle are, so every combination of bytes is left over once. The view
`HandOver` counts states as one that differ only in what the laws have integrated (and in
history variables that no property of this run reads): no guard depends on these, nor does
one of these properties. `closed_loop` has two samples and two faults,
so up to four datagrams reach a board of four cycles; a counter byte with two values is
the narrowest that tells a cycle from the next. Weaker instances
(`MaxCycle = 3`) already contain each mistake the variations describe.
`application` sends four datagrams of two contents, in which every position holds
something else: enough for a counter to differ, for a law to use its state twice and
for the oracle to switch there and back. An edited configuration runs one cycle,
in which its stray accesses happen or do not. Only `VSES-Control_Swap.cfg` is not
run, being the same text as `VSES-Control.cfg`.
`server` scales the units of time (a microsecond is 2 ns, a second two microseconds), so
that carries happen at every other release and remainders of both signs occur; the clock is
set by more than a period either way. Its loop is timed for one length of the recordings
only, on which the times do not depend. It lets each recording be
any text of up to six tokens (number, word, end of file). For `vs_udp.c` all
three recordings are there; for `vses_udp.c` one stands for each of its four
loaders, with rows of three, one, one and two columns, so that an EOF of -1
meets positive counts on either side and arrays (`MAX_ELEMENTS = 2`) fill up.
`hw_test` switches the strategy after three checks instead of ten and reads three
lines. `tools` has no bound: the registers take finitely many values. `campaign`
has the real list of tests; two repetitions are the fewest in which one follows
another, and two troubles let the recovery from one meet the next.

`CHECK_DEADLOCK FALSE` is given where the system stops: after the last sample,
after a return or an exit.

### Findings

1. `status_write`: the two status bytes are written apart (`VSGAMIncrement.cpp:83`
   and `:87`), the document asks for one write.
2. `restart`: `output_counter` is "written by the FPGA after inputer counter is
   incremented" (`VSGAMIncrement.cpp:82`), and nothing else resets it; after a restart whose
   first counter is the byte left over, the FPGA writes nothing and the old value is sent.
3. `saved`: `save_data_to_file(..., MAX_ELEMENTS)` writes uninitialised values
   when the recordings are shorter than the arrays.
4. `vses_startup`: `vs3_count` is missing from the comparison of lengths.
5. `colouring`: the usage of `interf_test.sh` says `--cachecol [on|off]`, the
   test at line 73 asks for `isolated`.

Seen while modelling, and not a property of any run:

* `VSES-Control_Write.cfg` writes a signal to its file, `VS3_req` (line 272), that no
  GAM produces; its sender has `VS3_ref` (`ReadsFresh` excepts it);
* `VSGAMIncrement`, `VSGAMExtremum` and `VSGAMSwap` check nothing in `Setup`, and
  `VSGAMClassic` does not check the number of samples of its second input;
* samples 0 and 1 leave back to back, as the first release of the timer is its start;
* when no recording opens, all lengths are `(size_t)-1`, which are equal, and the
  comparison passes (`vs_udp.c:117`);
* `hw_test_new` parses `--iterations` (line 126) and never uses it (line 268);
* the hardware test's first check compares with a state an earlier run may have left;
* a signal that arrives while `exit()` runs calls `exit()` again, which is undefined
  (`LeftDisabled` excepts it);
* the older hardware test leaves the FPGA enabled with offsets of an older page:
  0x1D0 is `oracle_decision` now and 0x1C8 the second `Xpoints`
  (`hw_test/hw_test.c:138`);
* `conf_port.c:31` maps 0x80000000, which `DFX_CONF_PORT.md` gives to the
  reconfigurable regions;
* once the comparison at `interf_test.sh:73` is put right, the assignments at lines
  79 and 80 have a blank after `=` and leave the names of the coloured inmates unset;
* `cycle_times.txt` of the run before is added to the results when a run could not
  write its own (`vses_test.sh:98`).

## 5. Proofs

TLAPS checks all of these, for every value of the constants that satisfies the
assumptions named `...Assumption` in the modules and, where one is named here, the
condition of the theorem.

**The hand-over** (`ControlCycleProofs`), for any number of cycles, width of the
counter, oracle and number of restarts:

* `TypeCorrect`: `Spec => []TypeOK`.
* `Freshness` (`FreshReply`) and `SpinWaits` (`PublishedThisCycle`), under
  `TurnExceedsLag`, which is `MaxLag < W`. Neither is inductive. The invariant `FreshInv` adds
  that every counter byte is a cycle number modulo `W` or a byte a restart has found, that the
  FPGA follows the thread at a distance of at most `MaxLag`, that the page
  holds one whole sample in each part of the cycle, that what the FPGA has done for the
  running cycle it has done on that sample, and the same for the extremum-seeking
  value. The step of the spin is where they meet: equal bytes are equal numbers
  modulo `W`, numbers less than `W` apart, so equal numbers (lemmas
  `NoSmallMultiple`, `SameByte`), unless the FPGA has served nothing yet, which leaves the
  cycles up to `MaxLag` and the bytes of `left`.
* `CopyUndisturbed` (`NoOverwriteDuringCopy`), under the same condition. From
  `FreshInv`: before the copy the FPGA has served the counter and has nothing to do.
* `DecisionIsOneRead` (`DecisionLinearizable`): no condition. `DecisionInv` adds
  what the thread knows between its two reads: some value other than 1 was there.

**The controller as one step** (`ControlCycleProofs`), under `Punctual`, which is
`MaxLag = 1`, `TurnExceedsLag` and no restart, and says nothing of when the FPGA reads the
strategy: `StateIsSteady` (`SteadyClassic`) and `CyclesImplement`, the refinement of
`Controller`. The invariant `PromiseInv` says that `es_state` has integrated every sample
(`ExtremumIntegrates`), that a strategy read is the cycle's or the one before
(`StrategyRead`), how `x_old` relates to the run of classic
cycles in four cases, in a cycle or not and computed or not (`ClassicIntegrates`), and
what is about to be sent (`SentValue`). That the FPGA reads the strategy in time is not
provable, as it is not so: run `status_write`.

**The server's loop** (`ServerLoopProofs`), for recordings of any length and any
number of faults: `TypeCorrect`; `LossKeepsPairing` (`PairedReplies`) and `OneDatagram`
(`OneInFlight`), both about runs in which datagrams are only lost and sends only fail, with
`LockstepInv` saying for each control state where the one datagram is; `RepliesLagAtMost` (`NeverAhead`) under faults of every
kind, with `OrderInv`: what is in the queue to the board, in the queue back and
in the file is in order, each part before the next.

**Both together** (`ClosedLoopProofs`). Board steps of the closed loop are steps of
`ControlCycle`, so its invariants hold: `LoopSteady` and `LoopAnswers`, under `Punctual`.
`LoopIsKept` is the refinement of `ServerLoop`, under `TurnExceedsLag` alone: the value
sent is of the sample in work, whoever computed it. Through it `LoopPairs`, `LoopCarriesOne`
and `LoopLags` take `PairedReplies`, `OneInFlight` and `NeverAhead` from `ServerLoopProofs`
to the closed loop.
`LoopCarriesOne` counts the datagram in work on the board as well (`OneAnywhere`): the mapping
puts it back at the head of the queue, where `ServerLoop` counts it.

**Time** (`ServerProofs`, which is about `PeriodicTimer` and about `Startup`), for any units with a whole number of microseconds to
a second, any period and any setting of the clock: `AddMicroseconds` (`timespec_add_us` is
exact and normalises), `TypeCorrect`, `NoDrift` (`ReleasesOnGrid`), `NoSampleEarly`
(`NeverEarly`), `TimesAreRight` (`MeasuredWithinOneMicrosecond`: a remainder that
is rounded towards zero, as C does, is never off by a whole microsecond).

**The servers' start** (`ServerProofs`), for recordings of any content and length,
rows of any width, arrays of any size and any list of files: `CountsAreRight`,
`RowsAreRight`, `DescriptorsClosed`, `DescriptorsLive`. The
invariant of the loaders, `RowInv`, tells a row in which every call has read a number
(`WholeSoFar`) from one in which a call has failed (`Broken`): its sum stays below
the number of calls, whatever zeros and -1s are added, so it is never taken for a
full row.

**The hardware test** (`HwTestProofs`): `DisabledAtExit` (`LeftDisabled`), for any
number of signals; `NoAlarm` (`NoFalseAlarm`), for a counter with more than two
values. `CheckInv` says that the test's own state and result are the law's over the lines
so far, however often the first is checked (`OwnState`), that the FPGA rests between two checks
and within one is either still to compute it, from the state the test had, or done with it; the
first check, which may find the FPGA busy with a counter of before, knows the counters and
that whoever serves it clears the state (`FirstReset`). With `W = 2` TLC
finds a false alarm: the counter comes back to the one the FPGA started from.

**The campaign** (`CampaignProofs`), for any list of tests, any number of repetitions
and any amount of trouble: `TypeCorrect`, `NoRemains` (`StartsClean`), `LabelsAreTrue`
(`LabelsTrue`), `OneSetEach` (`OneSetPerRepetition`), `TracesComplete` (`TraceCompleted`, a
property of steps). None of them is inductive, as the script waits for a time and
not for the board: `BoardInv` says for each step of the script where the board can be. Before a
test it is on its way up with nothing at work (`Waking`) or still about to take the reboot,
with everything typed after that lost (`GoingDown`); an answer of `alive.sh` rules the second
out. In a test it has the command as its last line (`Ordered`) or runs it, and what is at
work is what the script has started before its present command (`InTest`); afterwards it
has nothing to read (`Interrupted`), then the end of the trace (`Closing`). A board
that hangs is in any state until it is reset. `FileInv` follows the times of the
simulation that has just ended to the results, `ResultsInv` says that the runs in
a file of results are runs of this campaign, in their order, the one going on not among them.
`AllPlain` (`NeverColoured`) follows from the same invariant: no campaign
whatever measures with cache colouring, so the finding of run `colouring` holds for every
list of tests.

**The register tools** (`RegisterToolsProofs`), for any of the three tools in any order,
each killed anywhere: `NeverHalfConfigured` (`EnabledIsConfigured`), `AddressesAreThePages`
(`TestedAddresses`), `NoShutdown` (`RegionsStayUp`). The places of a struct's members are
defined by recursion: `PlacedBy` is the equation they satisfy, `PagePlaces` and
`PortPlaces` are tables that satisfy it, so that what `Placed` returns does, and from
that equation `PagePlaced` and `PortPlaced` compute it member by member. A test's list of
stores disables first and enables last and writes no register twice between
(`DisablesFirst`, `TestsProper`); with that, `ToolInv` says that while a test is at work
the module is disabled and what the test has stored is still there.

**From a configuration to its replies** (`ApplicationProofs`), for any datagrams of integers
(`DatagramsAssumption`), any integer matrices and gains (`MatricesAssumption`,
`GainsAssumption`), any decisions of the oracle and runs of any length:

* `EveryReplyIsLaw` (`SentIsLaw`) and `EveryReadIsFresh` (`ReadsFresh`), for every
  configuration of the repository, with either class of the seeking law. Neither is
  inductive: the value sent last says nothing of the states of the two laws, which the next
  one depends on. `ReplyInv` says of each of the three kinds of configuration (`ControlInv`
  where the laws swap, `NoSwapInv` where one seeks alone, `ClassicInv`), for each position in
  the cycle: how many datagrams, decisions and replies there are; that the page holds the
  last datagram, each element at its place (`OnPage`); that the state of the seeking law is
  the one its whole history gives (`SeekerAfter`); that the FPGA has the state of the
  drives of the unbroken run of classic cycles, before or after the cycle in hand according
  to its counter, and once it has served a cycle its output is on the page (`ControlServed`);
  which places have been written in this cycle (`ControlWritten`); and that the last reply
  is the one that was due (`Answered`). It rests on `Ready`: once set up, every pointer of
  every GAM is the place of the signal with its name (`SeekingPointers` and its peers).
* Of the laws: `StateAfterNext` and `ClassicStateNext` say that the reference definitions,
  sums over all inputs so far, obey the recurrences the loops of `Execute` compute. `Seeks`
  takes this through the loops and the pointers to one execution of the GAM; `FpgaNext`
  says which run of drives the FPGA's state belongs to after any sequence of decisions.
* `PageDeclared` (`PageAsDeclared`): the layout is a sum over the signals in the order in
  which the GAMs name them, the struct's is what alignment makes of its members, and the two agree
  at every member.
* `CheckedNeverAstray` (`CheckedNeverStray`) for every edit of a configuration, as an instance of
  `AcceptedNeverStray`, which is about any list of GAMs with signals of any names, types,
  dimensions and numbers of elements: what `VSGAMClassic::Setup` accepts fits the pointers
  of its `Execute` (`AcceptedFits`), and by `SetupInv` no GAM runs that `Setup` has not accepted.

What these definitions compute by recursion is reached without induction over data. A set
of numbers without a least counterexample is all of them (well-founded induction in its form
for sets), so a function built step by step exists, satisfies the equations the recursive
definition is chosen by, and agrees with any other that does.

TLC checked the parts of `ReplyInv` on the instance of run `application` before they were
proved.

Model-checked only: liveness (`Completes`, `Answers`, `Returns`, `TestEnds`,
`CampaignEnds`), which is beyond the prover. All the safety properties of the passing runs,
invariants and action properties, are stated by theorems.

## 6. Not modelled

* Rounding: the laws are computed over integers.
* Stores that become visible out of order.
* Failures of the commands of `interf_test.sh`, which no command of it notices, and of
  the writing of `cycle_times.txt`, which the campaign does not notice either.
* A values file with a word in it, at which the hardware test repeats its last line for ever.
* What the servers' loop does when no recording opens and its length is the largest `size_t`:
  it leaves its arrays at once.
* `RTApp-UDP.cfg`, an example of MARTe2 whose GAMs are not in the repository.
* `hw_test/shared_page.c`, which does not compile against `shared_page.h`;
  `setup_board.sh` and `MARTeApp.sh` (kernel parameters, environment); the scripts
  that print memory, which only read it.
* The analysis of packet traces, plots, and the conversion of matrices; the local copy of
  the target and the program beside it that sends one datagram.
* MARTe2 and its components, the hypervisor, bitstreams, recordings.

## 7. Plan

Done, in this order: `ControlData`, `FpgaClassic`, `ControlCycle`, `Controller`
and the proofs of type correctness, freshness and the single read; `ServerLoop`,
`PeriodicTimer` and their proofs; `Loader`, `Startup`, `HwTest`; `RegisterTools`;
`BoardSetup`, `Campaign`; restarts of MARTe; `PageLayout`, `Laws`, `Configurations`,
`Application`; the refinement of `Controller` as a theorem; `ClosedLoop` and its
refinement of `ServerLoop`; the proofs about `Startup`, `HwTest`, `Campaign` and
`RegisterTools`; those about `Application` and `Laws`.

To do, most important first:

1. `PcapPairing`: requests and replies of a packet trace, composed with the faults of
   `ServerLoop`.
2. Restarts of MARTe within `ClosedLoop`, where the server goes on with the sample
   it has.
