------------------------------ MODULE Startup ------------------------------
(***************************************************************************)
(* How the simulation servers start: the recordings are loaded one after   *)
(* the other by Loader, their lengths compared, two sockets opened and one *)
(* of them bound.  Any of these may fail.  The loaders return int; the     *)
(* counts are size_t, so that the -1 of a file that did not open becomes   *)
(* the largest size there is.                                              *)
(***************************************************************************)
EXTENDS Loader

CONSTANTS
    Servers,     \* "vs", "vses"
    Files(_),    \* the recordings a server loads, in their order
    Compared(_), \* those whose length it compares with that of IVS3
    Columns(_),  \* columns of a recording
    SIZE_MAX     \* the size_t that -1 becomes

ASSUME StartupAssumption ==
    /\ \A s \in Servers :
           /\ Files(s) \in Seq(ToSet(Files(s))) /\ IsInjective(Files(s))
           /\ "IVS3" \in ToSet(Files(s))
           /\ Compared(s) \subseteq ToSet(Files(s))
           /\ \A f \in ToSet(Files(s)) : Columns(f) \in Nat \ {0}
    /\ SIZE_MAX \in Nat /\ MAX_ELEMENTS < SIZE_MAX

VARIABLES
    server,   \* the program started
    pc,       \* what its main does next
    loaded,   \* files loaded so far
    count,    \* the length of each, as size_t
    sockets   \* the state of the two descriptors

vars == <<loaderVars, server, pc, loaded, count, sockets>>

Descriptors == {"send_sockfd", "recv_sockfd"}

\* A conversion from int to size_t.
ToSize(n) == IF n < 0 THEN SIZE_MAX + 1 + n ELSE n

Recordings == ToSet(Files(server))

Init ==
    /\ server \in Servers /\ LoaderIdle
    /\ pc = "load" /\ loaded = 0
    /\ count = [f \in Recordings |-> 0]
    /\ sockets = [d \in Descriptors |-> "none"]

\* The next call of a loader, ...
LoadFile ==
    /\ pc = "load" /\ loaded < Len(Files(server))
    /\ Call(Columns(Files(server)[loaded + 1]))
    /\ UNCHANGED <<server, pc, loaded, count, sockets>>

\* ... its steps, ...
Load == LoaderNext /\ UNCHANGED <<server, pc, loaded, count, sockets>>

\* ... and the assignment of its result.
KeepCount ==
    /\ Forget
    /\ count' = [count EXCEPT ![Files(server)[loaded + 1]] = ToSize(result)]
    /\ loaded' = loaded + 1
    /\ UNCHANGED <<server, pc, sockets>>

LengthsDiffer == \E f \in Compared(server) : count["IVS3"] # count[f]

CompareLengths ==
    /\ pc = "load" /\ loaded = Len(Files(server))
    /\ pc' = IF LengthsDiffer THEN "failed" ELSE "sendSocket"
    /\ UNCHANGED <<loaderVars, server, loaded, count, sockets>>

OpenSendSocket ==
    /\ pc = "sendSocket"
    /\ sockets' = [sockets EXCEPT !["send_sockfd"] = "open"]
    /\ pc' = "recvSocket"
    /\ UNCHANGED <<loaderVars, server, loaded, count>>

SendSocketFails ==
    /\ pc = "sendSocket"
    /\ pc' = "failed"
    /\ UNCHANGED <<loaderVars, server, loaded, count, sockets>>

OpenRecvSocket ==
    /\ pc = "recvSocket"
    /\ sockets' = [sockets EXCEPT !["recv_sockfd"] = "open"]
    /\ pc' = "bind"
    /\ UNCHANGED <<loaderVars, server, loaded, count>>

\* Variations of the clean-up: none, and of both descriptors.
RecvSocketFailsOpen ==
    /\ pc = "recvSocket"
    /\ pc' = "failed"
    /\ UNCHANGED <<loaderVars, server, loaded, count, sockets>>

RecvSocketFailsBoth ==
    /\ pc = "recvSocket"
    /\ sockets' = [d \in Descriptors |-> "closed"]
    /\ pc' = "failed"
    /\ UNCHANGED <<loaderVars, server, loaded, count>>

RecvSocketFails ==
    /\ pc = "recvSocket"
    /\ sockets' = [sockets EXCEPT !["send_sockfd"] = "closed"]
    /\ pc' = "failed"
    /\ UNCHANGED <<loaderVars, server, loaded, count>>

Bind ==
    /\ pc = "bind"
    /\ pc' = "loop"
    /\ UNCHANGED <<loaderVars, server, loaded, count, sockets>>

BindFails ==
    /\ pc = "bind"
    /\ sockets' = [d \in Descriptors |-> "closed"]
    /\ pc' = "failed"
    /\ UNCHANGED <<loaderVars, server, loaded, count>>

\* The loop over ivs3_count samples, and the two closes after it.
Finish ==
    /\ pc = "loop"
    /\ sockets' = [d \in Descriptors |-> "closed"]
    /\ pc' = "done"
    /\ UNCHANGED <<loaderVars, server, loaded, count>>

Next ==
    \/ LoadFile \/ Load \/ KeepCount \/ CompareLengths
    \/ OpenSendSocket \/ SendSocketFails
    \/ OpenRecvSocket \/ RecvSocketFails
    \/ Bind \/ BindFails
    \/ Finish

\* The only process is the server; the system calls answer.
Spec == Init /\ [][Next]_vars /\ WF_vars(Next)
-----------------------------------------------------------------------------
\* Whichever step of the start fails, no descriptor stays open, and none is
\* closed that was not open.
NoDescriptorLeft ==
    /\ pc \in {"failed", "done"} => \A d \in Descriptors : sockets[d] # "open"
    /\ pc \in {"loop", "bind"} => sockets["send_sockfd"] = "open"
    /\ pc = "loop" => sockets["recv_sockfd"] = "open"

\* Descriptors go from none to open to closed and never otherwise.
DescriptorLifecycle ==
    [][\A d \in Descriptors :
          sockets'[d] # sockets[d] =>
              <<sockets[d], sockets'[d]>> \in {<<"none", "open">>, <<"open", "closed">>}]_vars

\* The replay starts only when all the recordings have one length
\* (vses_udp.c:220, vs_udp.c:118: "Data files have different number of
\* elements").
AllFilesAgree ==
    pc \in {"loop", "done"} => \A f \in Recordings : count[f] = count["IVS3"]
=============================================================================
