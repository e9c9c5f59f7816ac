----------------------------- MODULE ServerLoop -----------------------------
(***************************************************************************)
(* The simulation server (vs_udp.c, vses_udp.c) and the wire to the board. *)
(* The server replays recorded samples in lockstep: it sends sample i, it  *)
(* blocks until some datagram comes back, it files what came under the     *)
(* next free index, it waits for the next period.  UDP may lose or repeat  *)
(* a datagram, sendto and recvfrom may fail, and the server carries on     *)
(* after either failure as if nothing had happened.                        *)
(*                                                                         *)
(* The board is the controller seen from the wire: it answers every        *)
(* datagram it reads, in order, one control cycle each.                    *)
(***************************************************************************)
EXTENDS Integers, SequencesExt

CONSTANTS
    Count,        \* samples in the data files (ivs3_count)
    MAX_ELEMENTS, \* length of the server's arrays
    Faults,       \* what may go wrong
    MaxFaults     \* bound: how often it goes wrong in one run

ASSUME CountAssumption == Count \in Nat /\ MAX_ELEMENTS \in Nat /\ Count <= MAX_ELEMENTS
ASSUME FaultsAssumption ==
    Faults \subseteq {"sendto", "recvfrom", "lose", "repeat"}
ASSUME MaxFaultsAssumption == MaxFaults \in Nat

VARIABLES
    pc,          \* what the server does next
    i,           \* index of the sample of this cycle
    recv_count,  \* replies filed
    recv_data,   \* the replies, on the stack and not initialised
    saved,       \* the file recv_VS3_ref.txt
    toBoard,     \* datagrams on their way to the board or in its socket
    toServer,    \* ... to the server
    cycles,      \* control cycles the board has run
    faults,      \* how often something has gone wrong
    happened     \* history: what has gone wrong, a set of faults

serverVars == <<pc, i, recv_count, recv_data, saved>>
wireVars == <<toBoard, toServer>>
faultVars == <<faults, happened>>
vars == <<serverVars, wireVars, cycles, faultVars>>

Index == 0 .. Count - 1

\* A reply names the sample it answers and the board's cycle that made it.
Reply == [sample : Index, cycle : Nat]

\* Stands for what an array slot holds before anything is filed in it.
Garbage == [sample |-> -1, cycle |-> -1]

Slots == 0 .. MAX_ELEMENTS - 1

Init ==
    /\ pc = IF Count > 0 THEN "send" ELSE "save"
    /\ i = 0 /\ recv_count = 0
    /\ recv_data = [k \in Slots |-> Garbage]
    /\ saved = << >>
    /\ toBoard = << >> /\ toServer = << >>
    /\ cycles = 0 /\ faults = 0 /\ happened = {}

\* Fault f happens now.
Fault(f) ==
    /\ f \in Faults /\ faults < MaxFaults
    /\ faults' = faults + 1
    /\ happened' = happened \cup {f}
-----------------------------------------------------------------------------
SendtoAndGoOn ==
    /\ pc = "send"
    /\ toBoard' = Append(toBoard, i)
    /\ pc' = "wait"
    /\ UNCHANGED <<i, recv_count, recv_data, saved, toServer, cycles, faultVars>>

\* udp_send_data
Sendto ==
    /\ pc = "send"
    /\ toBoard' = Append(toBoard, i)
    /\ pc' = "recv"
    /\ UNCHANGED <<i, recv_count, recv_data, saved, toServer, cycles, faultVars>>

\* A failed sendto is reported and the server goes on to wait for the reply.
SendtoFails ==
    /\ pc = "send" /\ Fault("sendto")
    /\ pc' = "recv"
    /\ UNCHANGED <<i, recv_count, recv_data, saved, wireVars, cycles>>

\* Variations of the receive: filed one slot too far, and waiting for the
\* answer to this very sample.
RecvfromPreIncrement ==
    /\ pc = "recv" /\ toServer # << >>
    /\ recv_data' = [recv_data EXCEPT ![recv_count + 1] = Head(toServer)]
    /\ toServer' = Tail(toServer)
    /\ recv_count' = recv_count + 1
    /\ pc' = "wait"
    /\ UNCHANGED <<i, saved, toBoard, cycles, faultVars>>

RecvfromMatching ==
    /\ pc = "recv" /\ toServer # << >> /\ Head(toServer).sample = i
    /\ recv_data' = [recv_data EXCEPT ![recv_count] = Head(toServer)]
    /\ toServer' = Tail(toServer)
    /\ recv_count' = recv_count + 1
    /\ pc' = "wait"
    /\ UNCHANGED <<i, saved, toBoard, cycles, faultVars>>

\* udp_recv_data: the socket takes a datagram from anyone, whatever is first.
Recvfrom ==
    /\ pc = "recv" /\ toServer # << >>
    /\ recv_data' = [recv_data EXCEPT ![recv_count] = Head(toServer)]
    /\ toServer' = Tail(toServer)
    /\ recv_count' = recv_count + 1
    /\ pc' = "wait"
    /\ UNCHANGED <<i, saved, toBoard, cycles, faultVars>>

RecvfromFailsUncounted ==
    /\ pc = "recv" /\ Fault("recvfrom")
    /\ pc' = "wait"
    /\ UNCHANGED <<i, recv_count, recv_data, saved, wireVars, cycles>>

\* A failed recvfrom is reported too, and its slot counts as filled.
RecvfromFails ==
    /\ pc = "recv" /\ Fault("recvfrom")
    /\ recv_count' = recv_count + 1
    /\ pc' = "wait"
    /\ UNCHANGED <<i, recv_data, saved, wireVars, cycles>>

NextActivationOneMore ==
    /\ pc = "wait"
    /\ i' = i + 1
    /\ IF i + 1 <= Count
       THEN pc' = "send" /\ UNCHANGED recv_count
       ELSE pc' = "save" /\ recv_count' = 0
    /\ UNCHANGED <<recv_data, saved, wireVars, cycles, faultVars>>

\* wait_next_activation, and the loop's next turn or its end.
NextActivation ==
    /\ pc = "wait"
    /\ i' = i + 1
    /\ IF i + 1 < Count
       THEN pc' = "send" /\ UNCHANGED recv_count
       ELSE pc' = "save" /\ recv_count' = 0
    /\ UNCHANGED <<recv_data, saved, wireVars, cycles, faultVars>>

\* The whole array is written to the file.
SaveData ==
    /\ pc = "save"
    /\ saved' = [k \in 1 .. MAX_ELEMENTS |-> recv_data[k - 1]]
    /\ pc' = "exit"
    /\ UNCHANGED <<i, recv_count, recv_data, wireVars, cycles, faultVars>>

\* vses_test.sh: timeout -s 2 2m.  Nothing is saved.
Kill ==
    /\ pc \notin {"exit", "killed"}
    /\ pc' = "killed"
    /\ UNCHANGED <<i, recv_count, recv_data, saved, wireVars, cycles, faultVars>>

Server ==
    \/ Sendto \/ SendtoFails
    \/ Recvfrom \/ RecvfromFails
    \/ NextActivation \/ SaveData
-----------------------------------------------------------------------------
\* One control cycle of the board.
BoardCycle ==
    /\ toBoard # << >>
    /\ cycles' = cycles + 1
    /\ toServer' = Append(toServer, [sample |-> Head(toBoard), cycle |-> cycles + 1])
    /\ toBoard' = Tail(toBoard)
    /\ UNCHANGED <<serverVars, faultVars>>

\* The datagrams are never more than the faults allow, so the queues are
\* short; within a queue the wire (one switch) keeps the order, and any
\* datagram of it may be lost or repeated.
LoseSample ==
    /\ Fault("lose")
    /\ \E k \in DOMAIN toBoard : toBoard' = RemoveAt(toBoard, k)
    /\ UNCHANGED <<serverVars, toServer, cycles>>

LoseReply ==
    /\ Fault("lose")
    /\ \E k \in DOMAIN toServer : toServer' = RemoveAt(toServer, k)
    /\ UNCHANGED <<serverVars, toBoard, cycles>>

RepeatSample ==
    /\ Fault("repeat")
    /\ \E k \in DOMAIN toBoard : toBoard' = InsertAt(toBoard, k, toBoard[k])
    /\ UNCHANGED <<serverVars, toServer, cycles>>

RepeatReply ==
    /\ Fault("repeat")
    /\ \E k \in DOMAIN toServer : toServer' = InsertAt(toServer, k, toServer[k])
    /\ UNCHANGED <<serverVars, toBoard, cycles>>

Wire == LoseSample \/ LoseReply \/ RepeatSample \/ RepeatReply

Next == Server \/ Kill \/ BoardCycle \/ Wire

Spec == Init /\ [][Next]_vars
-----------------------------------------------------------------------------
PCs == {"send", "recv", "wait", "save", "exit", "killed"}

\* Every variable stays within its type; no index leaves its array.
TypeOK ==
    /\ pc \in PCs
    /\ i \in 0 .. Count /\ recv_count \in 0 .. Count
    /\ recv_data \in [Slots -> Reply \cup {Garbage}]
    /\ saved = << >> \/ saved \in [1 .. MAX_ELEMENTS -> Reply \cup {Garbage}]
    /\ toBoard \in Seq(Index) /\ toServer \in Seq(Reply)
    /\ cycles \in Nat
    /\ faults \in 0 .. MaxFaults /\ happened \subseteq Faults

\* So far datagrams were lost and sends failed at most.
LossOnly == happened \subseteq {"sendto", "lose"}

\* However datagrams are lost and sends fail, every reply filed is the answer
\* to the sample of its own index, made in the board's cycle of that number:
\* the loop needs no sequence number as long as it blocks (vs_udp.c:156-168).
PairedReplies ==
    LossOnly =>
        /\ \A k \in 0 .. recv_count - 1 :
               recv_data[k] = [sample |-> k, cycle |-> k + 1]
        /\ saved # << >> =>
               \A k \in Index : saved[k + 1] = [sample |-> k, cycle |-> k + 1]

\* The lockstep under the same faults: at most one datagram is anywhere
\* between the server and the board, and none while the server is not
\* waiting for it.
OneInFlight ==
    LossOnly =>
        /\ Len(toBoard) + Len(toServer) <= 1
        /\ pc \in {"send", "wait", "save", "exit"} =>
               toBoard = << >> /\ toServer = << >>

\* Even with repeated datagrams and failed receives, the reply filed under an
\* index answers that sample or an earlier one, and later replies answer no
\* earlier sample: the recorded signal may lag the plant, never lead it.
NeverAhead ==
    \A k \in 0 .. recv_count - 1 : recv_data[k] # Garbage =>
        /\ recv_data[k].sample <= k
        /\ \A j \in 0 .. k - 1 : recv_data[j] # Garbage =>
               /\ recv_data[j].sample <= recv_data[k].sample
               /\ recv_data[j].cycle <= recv_data[k].cycle

\* The loop comes to its end unless a datagram is lost or not sent: repeated
\* datagrams and failed receives do not block it, and nothing else does.
Completes ==
    <>(pc \in {"exit", "killed"} \/ happened \cap {"lose", "sendto"} # {})

\* The file holds what was received (vs_udp.c:178 "Save received data to
\* file", vses_udp.c:300).
SavedWasReceived == \A k \in DOMAIN saved : saved[k] # Garbage
=============================================================================
