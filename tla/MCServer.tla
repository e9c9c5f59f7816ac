------------------------------ MODULE MCServer ------------------------------
(***************************************************************************)
(* A server from its start to its end: Startup, and PeriodicTimer in its   *)
(* loop.  The times of the loop do not depend on the recordings, so it is  *)
(* timed for recordings of one row only.  The clock may be set back and    *)
(* forward by more than a period.                                          *)
(***************************************************************************)
EXTENDS MCStartup, PeriodicTimer

MCClockSteps == {-3, 4}

ServerInit == Init /\ TimerInit

StartAndEnd == Next /\ UNCHANGED timerVars

Loop ==
    /\ pc = "loop" /\ server = "vses" /\ \A f \in Recordings : count[f] = 1
    /\ TimerNext
    /\ UNCHANGED vars

ServerNext == StartAndEnd \/ Loop

\* The server runs and its system calls answer.
ServerSpec == ServerInit /\ [][ServerNext]_<<vars, timerVars>> /\ WF_vars(StartAndEnd)
=============================================================================
