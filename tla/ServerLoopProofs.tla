-------------------------- MODULE ServerLoopProofs --------------------------
(***************************************************************************)
(* The pairing of replies and samples, for every length of the recording   *)
(* and any number of lost datagrams and failed sends; and what is left of  *)
(* it, types and order, under faults of every kind.                        *)
(***************************************************************************)
EXTENDS ServerLoop, SequenceTheorems, TLAPS

USE CountAssumption, FaultsAssumption, MaxFaultsAssumption

\* The answer expected under index k.
Answer(k) == [sample |-> k, cycle |-> k + 1]

\* Slots 0 .. n - 1 hold their answers.
FiledUpto(n) == \A k \in 0 .. n - 1 : recv_data[k] = Answer(k)

WireEmpty == toBoard = << >> /\ toServer = << >>

\* The datagram of cycle i is on its way out, on its way back, or lost.
WireOfCycle ==
    \/ toBoard = <<i>> /\ toServer = << >> /\ cycles = i
    \/ toBoard = << >> /\ toServer = <<Answer(i)>> /\ cycles = i + 1
    \/ WireEmpty

(***************************************************************************)
(* The inductive invariant of the lockstep, one conjunct per control       *)
(* state.  A killed server leaves behind whatever was on the wire.         *)
(***************************************************************************)
LockstepInv ==
    /\ pc \in PCs /\ i \in 0 .. Count /\ recv_count \in 0 .. Count
    /\ cycles \in Nat
    /\ recv_data \in [Slots -> [sample : Int, cycle : Int]]
    /\ FiledUpto(recv_count)
    /\ pc = "send" => i < Count /\ recv_count = i /\ cycles = i /\ WireEmpty
    /\ pc = "recv" => i < Count /\ recv_count = i /\ WireOfCycle
    /\ pc = "wait" => i < Count /\ recv_count = i + 1 /\ cycles = i + 1 /\ WireEmpty
    /\ pc = "save" => FiledUpto(Count) /\ WireEmpty
    /\ pc = "exit" => WireEmpty
    /\ pc = "killed" => \/ WireEmpty
                        \/ \E x : toBoard = <<x>> /\ toServer = << >>
                        \/ \E x : toBoard = << >> /\ toServer = <<x>>
    /\ saved # << >> => \A k \in Index : saved[k + 1] = Answer(k)

\* The only datagram of a queue is lost.
LEMMA LoseOnly == ASSUME NEW x, NEW k \in DOMAIN <<x>> PROVE RemoveAt(<<x>>, k) = << >>
<1>1. k = 1 /\ Len(<<x>>) = 1
  OBVIOUS
<1>2. RemoveAt(<<x>>, 1) = SubSeq(<<x>>, 1, 0) \o SubSeq(<<x>>, 2, 1)
  BY <1>1 DEF RemoveAt
<1>3. SubSeq(<<x>>, 1, 0) = << >> /\ SubSeq(<<x>>, 2, 1) = << >>
  OBVIOUS
<1> QED
  BY <1>1, <1>2, <1>3

LEMMA LossOnlyBefore == ASSUME [Next]_vars, LossOnly' PROVE LossOnly
<1>1. happened \subseteq happened'
  BY DEF Next, Server, Wire, Sendto, SendtoFails, Recvfrom, RecvfromFails,
         NextActivation, SaveData, Kill, BoardCycle, LoseSample, LoseReply,
         RepeatSample, RepeatReply, Fault, faultVars, vars
<1> QED
  BY <1>1 DEF LossOnly

LEMMA LockstepInit == Init => LockstepInv
BY DEF Init, LockstepInv, PCs, FiledUpto, WireEmpty, Slots, Garbage, Index, Answer

LEMMA LockstepStep ==
    ASSUME LossOnly', LockstepInv, [Next]_vars PROVE LockstepInv'
<1> USE DEF LockstepInv, PCs, WireEmpty
<1>0. Count \in Nat /\ MAX_ELEMENTS \in Nat /\ Count <= MAX_ELEMENTS
  OBVIOUS
<1>1. CASE Sendto
  <2>1. toBoard' = <<i>> /\ toServer' = << >>
    BY <1>1 DEF Sendto
  <2> QED
    BY <1>1, <2>1 DEF Sendto, FiledUpto, WireOfCycle
<1>2. CASE SendtoFails
  BY <1>2 DEF SendtoFails, FiledUpto, WireOfCycle, wireVars
<1>3. CASE Recvfrom
  <2>1. toServer = <<Answer(i)>> /\ toBoard = << >> /\ cycles = i + 1
    BY <1>3 DEF Recvfrom, WireOfCycle
  <2>2. Head(toServer) = Answer(i) /\ Tail(toServer) = << >>
    BY <2>1
  <2>3. recv_count = i /\ i \in Slots /\ i < Count
    BY <1>0, <1>3 DEF Recvfrom, Slots
  <2>4. recv_data' = [recv_data EXCEPT ![i] = Answer(i)]
    BY <1>3, <2>2, <2>3 DEF Recvfrom
  <2>5. Answer(i) \in [sample : Int, cycle : Int]
    BY DEF Answer
  <2>6. recv_data' \in [Slots -> [sample : Int, cycle : Int]]
    BY <2>4, <2>5
  <2>7. FiledUpto(i + 1)'
    <3> SUFFICES ASSUME NEW k \in 0 .. i PROVE recv_data'[k] = Answer(k)
      BY <1>3 DEF FiledUpto, Recvfrom
    <3>1. k \in Slots
      BY <1>0, <2>3 DEF Slots
    <3> QED
      BY <2>3, <2>4, <3>1 DEF FiledUpto
  <2>8. UNCHANGED <<i, saved, toBoard, cycles>> /\ pc' = "wait"
        /\ recv_count' = i + 1 /\ toServer' = << >>
    BY <1>3, <2>2, <2>3 DEF Recvfrom
  <2> QED
    BY <2>1, <2>3, <2>6, <2>7, <2>8
<1>4. CASE RecvfromFails
  BY <1>4 DEF RecvfromFails, Fault, LossOnly
<1>5. CASE NextActivation
  <2>1. i + 1 <= Count /\ i' = i + 1
    BY <1>5 DEF NextActivation
  <2>2. UNCHANGED <<recv_data, saved, toBoard, toServer, cycles>>
    BY <1>5 DEF NextActivation, wireVars
  <2>3. CASE i + 1 < Count
    BY <1>5, <2>1, <2>2, <2>3 DEF NextActivation, FiledUpto
  <2>4. CASE i + 1 = Count
    BY <1>5, <2>1, <2>2, <2>4 DEF NextActivation, FiledUpto
  <2> QED
    BY <2>1, <2>3, <2>4
<1>6. CASE SaveData
  <2>1. \A k \in Index : saved'[k + 1] = Answer(k)
    BY <1>0, <1>6 DEF SaveData, Index, FiledUpto
  <2> QED
    BY <1>6, <2>1 DEF SaveData, wireVars, FiledUpto
<1>7. CASE Kill
  BY <1>7 DEF Kill, FiledUpto, wireVars, WireOfCycle
<1>8. CASE BoardCycle
  <2>1. UNCHANGED <<pc, i, recv_count, recv_data, saved>>
    BY <1>8 DEF BoardCycle, serverVars
  <2>2. pc \in {"recv", "killed"} /\ toServer = << >> /\ toBoard' = << >>
    BY <1>8 DEF BoardCycle, WireOfCycle
  <2>3. PICK r : r = [sample |-> Head(toBoard), cycle |-> cycles + 1]
    OBVIOUS
  <2>4. toServer' = <<r>> /\ cycles' = cycles + 1
    BY <1>8, <2>2, <2>3 DEF BoardCycle
  <2>5. pc = "recv" => r = Answer(i) /\ cycles' = i + 1
    BY <1>8, <2>3 DEF BoardCycle, WireOfCycle, Answer
  <2> QED
    BY <2>1, <2>2, <2>4, <2>5 DEF FiledUpto, WireOfCycle
<1>9. CASE LoseSample
  <2>1. WireEmpty'
    <3>1. toServer = << >> /\ \E x : toBoard = <<x>>
      BY <1>9 DEF LoseSample, WireOfCycle
    <3>2. PICK x : toBoard = <<x>>
      BY <3>1
    <3>3. PICK k \in DOMAIN toBoard : toBoard' = RemoveAt(toBoard, k)
      BY <1>9 DEF LoseSample
    <3>4. toBoard' = << >>
      BY <3>2, <3>3, LoseOnly
    <3> QED
      BY <1>9, <3>1, <3>4 DEF LoseSample
  <2> QED
    BY <1>9, <2>1 DEF LoseSample, serverVars, FiledUpto, WireOfCycle
<1>10. CASE LoseReply
  <2>1. WireEmpty'
    <3>1. toBoard = << >> /\ \E x : toServer = <<x>>
      BY <1>10 DEF LoseReply, WireOfCycle
    <3>2. PICK x : toServer = <<x>>
      BY <3>1
    <3>3. PICK k \in DOMAIN toServer : toServer' = RemoveAt(toServer, k)
      BY <1>10 DEF LoseReply
    <3>4. toServer' = << >>
      BY <3>2, <3>3, LoseOnly
    <3> QED
      BY <1>10, <3>1, <3>4 DEF LoseReply
  <2> QED
    BY <1>10, <2>1 DEF LoseReply, serverVars, FiledUpto, WireOfCycle
<1>11. CASE RepeatSample \/ RepeatReply
  BY <1>11 DEF RepeatSample, RepeatReply, Fault, LossOnly
<1>12. CASE UNCHANGED vars
  BY <1>12 DEF vars, serverVars, wireVars, FiledUpto, WireOfCycle
<1> QED
  BY <1>1, <1>2, <1>3, <1>4, <1>5, <1>6, <1>7, <1>8, <1>9, <1>10, <1>11, <1>12
  DEF Next, Server, Wire

\* Replies stay paired with their samples whatever is lost.
THEOREM LossKeepsPairing == Spec => []PairedReplies
<1> DEFINE Inv == LossOnly => LockstepInv
<1>1. Inv => PairedReplies
  BY DEF LockstepInv, PairedReplies, FiledUpto, Answer
<1>2. Inv /\ [Next]_vars => Inv'
  BY LockstepStep, LossOnlyBefore
<1>3. Init => Inv
  BY LockstepInit
<1> HIDE DEF Inv
<1> QED
  BY <1>1, <1>2, <1>3, PTL DEF Spec

\* There is one datagram at most between the server and the board, and none
\* while the server does anything but wait for its reply.
THEOREM OneDatagram == Spec => []OneInFlight
<1> DEFINE Inv == LossOnly => LockstepInv
<1>1. Inv => OneInFlight
  <2> SUFFICES ASSUME LossOnly, LockstepInv PROVE OneInFlight
    BY DEF OneInFlight
  <2>1. \/ WireEmpty
        \/ \E x : toBoard = <<x>> /\ toServer = << >>
        \/ \E x : toBoard = << >> /\ toServer = <<x>>
    BY DEF LockstepInv, WireOfCycle, PCs
  <2>2. Len(toBoard) + Len(toServer) <= 1
    <3>1. Len(<< >>) = 0 /\ \A x : Len(<<x>>) = 1
      OBVIOUS
    <3>2. CASE WireEmpty
      BY <3>1, <3>2 DEF WireEmpty
    <3>3. ASSUME NEW x, toBoard = <<x>>, toServer = << >>
          PROVE  Len(toBoard) + Len(toServer) <= 1
      <4>1. Len(toBoard) = 1 /\ Len(toServer) = 0
        BY <3>1, <3>3, Zenon
      <4> QED
        BY <4>1
    <3>4. ASSUME NEW x, toBoard = << >>, toServer = <<x>>
          PROVE  Len(toBoard) + Len(toServer) <= 1
      <4>1. Len(toBoard) = 0 /\ Len(toServer) = 1
        BY <3>1, <3>4, Zenon
      <4> QED
        BY <4>1
    <3> QED
      BY <2>1, <3>2, <3>3, <3>4, Zenon
  <2> QED
    BY <2>2 DEF OneInFlight, LockstepInv, WireEmpty
<1>2. Inv /\ [Next]_vars => Inv'
  BY LockstepStep, LossOnlyBefore
<1>3. Init => Inv
  BY LockstepInit
<1> HIDE DEF Inv
<1> QED
  BY <1>1, <1>2, <1>3, PTL DEF Spec
-----------------------------------------------------------------------------
(***************************************************************************)
(* Faults of every kind.  The wire's operations on a queue, element by     *)
(* element: both keep the order and bring in nothing new.                  *)
(***************************************************************************)
LEMMA Removed ==
    ASSUME NEW S, NEW s \in Seq(S), NEW k \in 1 .. Len(s)
    PROVE  /\ RemoveAt(s, k) \in Seq(S)
           /\ Len(RemoveAt(s, k)) = Len(s) - 1
           /\ \A a \in 1 .. Len(s) - 1 :
                  RemoveAt(s, k)[a] = IF a < k THEN s[a] ELSE s[a + 1]
<1>1. /\ SubSeq(s, 1, k - 1) \in Seq(S) /\ Len(SubSeq(s, 1, k - 1)) = k - 1
      /\ \A a \in 1 .. k - 1 : SubSeq(s, 1, k - 1)[a] = s[a]
  OBVIOUS
<1>2. /\ SubSeq(s, k + 1, Len(s)) \in Seq(S) /\ Len(SubSeq(s, k + 1, Len(s))) = Len(s) - k
      /\ \A a \in 1 .. Len(s) - k : SubSeq(s, k + 1, Len(s))[a] = s[k + a]
  OBVIOUS
<1> DEFINE p == SubSeq(s, 1, k - 1)
           q == SubSeq(s, k + 1, Len(s))
<1>3. RemoveAt(s, k) = p \o q
  BY DEF RemoveAt
<1> HIDE DEF p, q
<1>4. p \in Seq(S) /\ q \in Seq(S) /\ Len(p) = k - 1 /\ Len(q) = Len(s) - k
  BY <1>1, <1>2 DEF p, q
<1>5. p \o q \in Seq(S) /\ Len(p \o q) = Len(s) - 1
  BY <1>4
<1>7. \A a \in 1 .. Len(s) - 1 : (p \o q)[a] = IF a < k THEN s[a] ELSE s[a + 1]
  <2> SUFFICES ASSUME NEW a \in 1 .. Len(s) - 1
               PROVE  (p \o q)[a] = IF a < k THEN s[a] ELSE s[a + 1]
    OBVIOUS
  <2>1. CASE a < k
    BY <1>1, <1>4, <2>1 DEF p
  <2>2. CASE a >= k
    <3>1. PICK b \in 1 .. Len(s) - k : b = a - (k - 1)
      BY <2>2
    <3>2. q[b] = s[k + b] /\ k + b = a + 1
      BY <1>2, <3>1 DEF q
    <3>3. (p \o q)[a] = q[b]
      BY <1>4, <2>2, <3>1
    <3> QED
      BY <2>2, <3>2, <3>3
  <2>3. a < k \/ a >= k
    OBVIOUS
  <2> QED
    BY <2>1, <2>2, <2>3, Zenon
<1> QED
  BY <1>3, <1>5, <1>7

LEMMA Repeated ==
    ASSUME NEW S, NEW s \in Seq(S), NEW k \in 1 .. Len(s)
    PROVE  /\ InsertAt(s, k, s[k]) \in Seq(S)
           /\ Len(InsertAt(s, k, s[k])) = Len(s) + 1
           /\ \A a \in 1 .. Len(s) + 1 :
                  InsertAt(s, k, s[k])[a] = IF a <= k THEN s[a] ELSE s[a - 1]
<1>1. /\ SubSeq(s, 1, k - 1) \in Seq(S) /\ Len(SubSeq(s, 1, k - 1)) = k - 1
      /\ \A a \in 1 .. k - 1 : SubSeq(s, 1, k - 1)[a] = s[a]
  OBVIOUS
<1>2. /\ SubSeq(s, k, Len(s)) \in Seq(S) /\ Len(SubSeq(s, k, Len(s))) = Len(s) - k + 1
      /\ \A a \in 1 .. Len(s) - k + 1 : SubSeq(s, k, Len(s))[a] = s[(k - 1) + a]
  OBVIOUS
<1> DEFINE p == SubSeq(s, 1, k - 1) \o <<s[k]>>
           q == SubSeq(s, k, Len(s))
<1>3. InsertAt(s, k, s[k]) = p \o q
  BY DEF InsertAt
<1> DEFINE r == SubSeq(s, 1, k - 1)
<1> HIDE DEF r
<1>4. p \in Seq(S) /\ Len(p) = k /\ \A a \in 1 .. k : p[a] = s[a]
  <2>1. r \in Seq(S) /\ Len(r) = k - 1 /\ \A a \in 1 .. k - 1 : r[a] = s[a]
    BY <1>1 DEF r
  <2>2. <<s[k]>> \in Seq(S) /\ Len(<<s[k]>>) = 1 /\ <<s[k]>>[1] = s[k]
    OBVIOUS
  <2>3. p = r \o <<s[k]>>
    BY DEF r
  <2>4. r \o <<s[k]>> \in Seq(S) /\ Len(r \o <<s[k]>>) = k
        /\ \A a \in 1 .. k : (r \o <<s[k]>>)[a] = s[a]
    BY <2>1, <2>2
  <2> QED
    BY <2>3, <2>4
<1> HIDE DEF p, q
<1>5. q \in Seq(S) /\ Len(q) = Len(s) - k + 1
  BY <1>2 DEF q
<1>6. p \o q \in Seq(S) /\ Len(p \o q) = Len(s) + 1
  <2>1. p \in Seq(S) /\ q \in Seq(S) /\ Len(p) = k /\ Len(q) = Len(s) - k + 1
    BY <1>4, <1>5
  <2> QED
    BY <2>1
<1>8. \A a \in 1 .. Len(s) + 1 : (p \o q)[a] = IF a <= k THEN s[a] ELSE s[a - 1]
  <2> SUFFICES ASSUME NEW a \in 1 .. Len(s) + 1
               PROVE  (p \o q)[a] = IF a <= k THEN s[a] ELSE s[a - 1]
    OBVIOUS
  <2>1. CASE a <= k
    BY <1>4, <1>5, <2>1
  <2>2. CASE a > k
    <3>1. PICK b \in 1 .. Len(s) - k + 1 : b = a - k
      BY <2>2
    <3>2. q[b] = s[(k - 1) + b] /\ (k - 1) + b = a - 1
      BY <1>2, <3>1 DEF q
    <3>3. (p \o q)[a] = q[b]
      BY <1>4, <1>5, <2>2, <3>1
    <3> QED
      BY <2>2, <3>2, <3>3
  <2>3. a <= k \/ a > k
    OBVIOUS
  <2> QED
    BY <2>1, <2>2, <2>3, Zenon
<1> QED
  BY <1>3, <1>6, <1>8

(***************************************************************************)
(* Types.  Replies are filed under the index of the sample, also when a    *)
(* send or a receive has failed.                                           *)
(***************************************************************************)
TypeInv ==
    /\ TypeOK
    /\ pc \in {"send", "recv"} => i < Count /\ recv_count = i
    /\ pc = "wait" => i < Count /\ recv_count = i + 1

LEMMA TypeInit == Init => TypeInv
BY DEF Init, TypeInv, TypeOK, PCs, Slots, Garbage, Reply

LEMMA WireTypes ==
    ASSUME TypeInv, Wire
    PROVE  /\ toBoard' \in Seq(Index) /\ toServer' \in Seq(Reply)
           /\ faults' \in 0 .. MaxFaults /\ happened' \subseteq Faults
           /\ UNCHANGED <<serverVars, cycles>>
<1> USE DEF TypeInv, TypeOK
<1>1. faults' \in 0 .. MaxFaults /\ happened' \subseteq Faults /\ UNCHANGED <<serverVars, cycles>>
  <2>1. UNCHANGED <<serverVars, cycles>> /\ \E f \in {"lose", "repeat"} : Fault(f)
    BY DEF Wire, LoseSample, LoseReply, RepeatSample, RepeatReply
  <2> QED
    BY <2>1 DEF Fault
<1>2. toBoard' \in Seq(Index)
  <2>1. CASE LoseSample
    <3>1. PICK k \in 1 .. Len(toBoard) : toBoard' = RemoveAt(toBoard, k)
      BY <2>1 DEF LoseSample
    <3> QED
      BY <3>1, Removed
  <2>2. CASE RepeatSample
    <3>1. PICK k \in 1 .. Len(toBoard) : toBoard' = InsertAt(toBoard, k, toBoard[k])
      BY <2>2 DEF RepeatSample
    <3> QED
      BY <3>1, Repeated
  <2> QED
    BY <2>1, <2>2 DEF Wire, LoseReply, RepeatReply
<1>3. toServer' \in Seq(Reply)
  <2>1. CASE LoseReply
    <3>1. PICK k \in 1 .. Len(toServer) : toServer' = RemoveAt(toServer, k)
      BY <2>1 DEF LoseReply
    <3> QED
      BY <3>1, Removed
  <2>2. CASE RepeatReply
    <3>1. PICK k \in 1 .. Len(toServer) : toServer' = InsertAt(toServer, k, toServer[k])
      BY <2>2 DEF RepeatReply
    <3> QED
      BY <3>1, Repeated
  <2> QED
    BY <2>1, <2>2 DEF Wire, LoseSample, RepeatSample
<1> QED
  BY <1>1, <1>2, <1>3

LEMMA TypeStep == TypeInv /\ [Next]_vars => TypeInv'
<1> SUFFICES ASSUME TypeInv, [Next]_vars PROVE TypeInv'
  OBVIOUS
<1> USE DEF TypeInv, TypeOK, PCs
<1>1. CASE Sendto
  <2>1. i \in Index
    BY <1>1 DEF Sendto, Index
  <2> QED
    BY <1>1, <2>1 DEF Sendto, faultVars
<1>2. CASE SendtoFails
  BY <1>2 DEF SendtoFails, Fault, wireVars
<1>3. CASE Recvfrom
  <2>1. Head(toServer) \in Reply /\ Tail(toServer) \in Seq(Reply)
    BY <1>3 DEF Recvfrom
  <2>2. recv_data' \in [Slots -> Reply \cup {Garbage}]
    BY <1>3, <2>1 DEF Recvfrom
  <2> QED
    BY <1>3, <2>1, <2>2 DEF Recvfrom, faultVars
<1>4. CASE RecvfromFails
  BY <1>4 DEF RecvfromFails, Fault, wireVars
<1>5. CASE NextActivation
  BY <1>5 DEF NextActivation, faultVars, wireVars
<1>6. CASE SaveData
  <2>1. saved' \in [1 .. MAX_ELEMENTS -> Reply \cup {Garbage}]
    BY <1>6 DEF SaveData, Slots
  <2> QED
    BY <1>6, <2>1 DEF SaveData, faultVars, wireVars
<1>7. CASE Kill
  BY <1>7 DEF Kill, faultVars, wireVars
<1>8. CASE BoardCycle
  <2>1. [sample |-> Head(toBoard), cycle |-> cycles + 1] \in Reply
    BY <1>8 DEF BoardCycle, Reply
  <2>2. toBoard' \in Seq(Index) /\ toServer' \in Seq(Reply) /\ cycles' \in Nat
    BY <1>8, <2>1 DEF BoardCycle
  <2> QED
    BY <1>8, <2>2 DEF BoardCycle, serverVars, faultVars
<1>9. CASE Wire
  BY <1>9, WireTypes DEF serverVars
<1>10. CASE UNCHANGED vars
  BY <1>10 DEF vars, serverVars, wireVars, faultVars
<1> QED
  BY <1>1, <1>2, <1>3, <1>4, <1>5, <1>6, <1>7, <1>8, <1>9, <1>10 DEF Next, Server

\* No index leaves its array, whatever is lost, repeated or fails.
THEOREM TypeCorrect == Spec => []TypeOK
<1>1. TypeInv => TypeOK
  BY DEF TypeInv
<1> QED
  BY <1>1, TypeInit, TypeStep, PTL DEF Spec
-----------------------------------------------------------------------------
(***************************************************************************)
(* Samples and replies stay in the order of the recording.  Behind a reply *)
(* that is filed come those on the wire to the server, then the samples on *)
(* the wire to the board, then the one the server sends next.              *)
(***************************************************************************)
SamplesInOrder ==
    /\ \A a \in 1 .. Len(toBoard) : toBoard[a] <= i
    /\ \A a, b \in 1 .. Len(toBoard) : a <= b => toBoard[a] <= toBoard[b]

RepliesInOrder ==
    /\ \A a \in 1 .. Len(toServer) :
           /\ toServer[a].sample <= i /\ toServer[a].cycle <= cycles
           /\ \A b \in 1 .. Len(toBoard) : toServer[a].sample <= toBoard[b]
    /\ \A a, b \in 1 .. Len(toServer) : a <= b =>
           toServer[a].sample <= toServer[b].sample /\ toServer[a].cycle <= toServer[b].cycle

FiledInOrder ==
    \A k \in 0 .. recv_count - 1 : recv_data[k] # Garbage =>
        /\ recv_data[k].cycle <= cycles
        /\ \A a \in 1 .. Len(toServer) : /\ recv_data[k].sample <= toServer[a].sample
                                        /\ recv_data[k].cycle <= toServer[a].cycle
        /\ \A b \in 1 .. Len(toBoard) : recv_data[k].sample <= toBoard[b]

\* Nothing has been filed beyond the count.
FiledSoFar ==
    pc \in {"send", "recv", "wait"} =>
        \A k \in Slots : k >= recv_count => recv_data[k] = Garbage

OrderInv ==
    /\ SamplesInOrder /\ RepliesInOrder /\ FiledInOrder /\ NeverAhead
    /\ FiledSoFar

LEMMA OrderInit == Init => OrderInv
BY DEF Init, OrderInv, SamplesInOrder, RepliesInOrder, FiledInOrder, NeverAhead, FiledSoFar

\* t holds elements of s in the order they have there.
Within(t, s) ==
    \E f \in [1 .. Len(t) -> 1 .. Len(s)] :
        /\ \A a \in 1 .. Len(t) : t[a] = s[f[a]]
        /\ \A a, b \in 1 .. Len(t) : a <= b => f[a] <= f[b]

\* The elements of the queues after a step of the wire are elements from
\* before, in the same order.
LEMMA SameOrder ==
    ASSUME NEW S, NEW s \in Seq(S), NEW t \in Seq(S),
           \E k \in 1 .. Len(s) : t = RemoveAt(s, k) \/ t = InsertAt(s, k, s[k])
    PROVE  Within(t, s)
<1>1. PICK k \in 1 .. Len(s) : t = RemoveAt(s, k) \/ t = InsertAt(s, k, s[k])
  OBVIOUS
<1>2. CASE t = RemoveAt(s, k)
  <2>1. Len(t) = Len(s) - 1 /\ \A a \in 1 .. Len(t) : t[a] = IF a < k THEN s[a] ELSE s[a + 1]
    BY <1>2, Removed
  <2> DEFINE f == [a \in 1 .. Len(t) |-> IF a < k THEN a ELSE a + 1]
  <2>2. f \in [1 .. Len(t) -> 1 .. Len(s)]
    BY <2>1
  <2>3. \A a \in 1 .. Len(t) : t[a] = s[f[a]]
    BY <2>1
  <2>4. \A a, b \in 1 .. Len(t) : a <= b => f[a] <= f[b]
    BY <2>1
  <2> HIDE DEF f
  <2> QED
    BY <2>2, <2>3, <2>4 DEF Within
<1>3. CASE t = InsertAt(s, k, s[k])
  <2>1. Len(t) = Len(s) + 1 /\ \A a \in 1 .. Len(t) : t[a] = IF a <= k THEN s[a] ELSE s[a - 1]
    BY <1>3, Repeated
  <2> DEFINE f == [a \in 1 .. Len(t) |-> IF a <= k THEN a ELSE a - 1]
  <2>2. f \in [1 .. Len(t) -> 1 .. Len(s)]
    BY <2>1
  <2>3. \A a \in 1 .. Len(t) : t[a] = s[f[a]]
    BY <2>1
  <2>4. \A a, b \in 1 .. Len(t) : a <= b => f[a] <= f[b]
    BY <2>1
  <2> HIDE DEF f
  <2> QED
    BY <2>2, <2>3, <2>4 DEF Within
<1> QED
  BY <1>1, <1>2, <1>3

LEMMA WithinSelf == ASSUME NEW S, NEW s \in Seq(S) PROVE Within(s, s)
<1>1. [a \in 1 .. Len(s) |-> a] \in [1 .. Len(s) -> 1 .. Len(s)]
  OBVIOUS
<1> QED
  BY <1>1 DEF Within

LEMMA WireWithin ==
    ASSUME TypeInv, Wire
    PROVE  Within(toBoard', toBoard) /\ Within(toServer', toServer)
<1>1. toBoard \in Seq(Index) /\ toServer \in Seq(Reply)
  BY DEF TypeInv, TypeOK
<1>2. toBoard' \in Seq(Index) /\ toServer' \in Seq(Reply)
  BY WireTypes
<1>3. Within(toBoard', toBoard)
  <2>1. CASE UNCHANGED toBoard
    BY <1>1, <2>1, WithinSelf
  <2>2. CASE LoseSample \/ RepeatSample
    <3>1. \E k \in 1 .. Len(toBoard) :
              toBoard' = RemoveAt(toBoard, k) \/ toBoard' = InsertAt(toBoard, k, toBoard[k])
      BY <1>1, <2>2 DEF LoseSample, RepeatSample
    <3> QED
      BY <1>1, <1>2, <3>1, SameOrder
  <2> QED
    BY <2>1, <2>2 DEF Wire, LoseReply, RepeatReply
<1>4. Within(toServer', toServer)
  <2>1. CASE UNCHANGED toServer
    BY <1>1, <2>1, WithinSelf
  <2>2. CASE LoseReply \/ RepeatReply
    <3>1. \E k \in 1 .. Len(toServer) :
              toServer' = RemoveAt(toServer, k) \/ toServer' = InsertAt(toServer, k, toServer[k])
      BY <1>1, <2>2 DEF LoseReply, RepeatReply
    <3> QED
      BY <1>1, <1>2, <3>1, SameOrder
  <2> QED
    BY <2>1, <2>2 DEF Wire, LoseSample, RepeatSample
<1> QED
  BY <1>3, <1>4

LEMMA OrderWire ==
    ASSUME TypeInv, OrderInv, Wire PROVE OrderInv'
<1>1. PICK f \in [1 .. Len(toBoard') -> 1 .. Len(toBoard)] :
          /\ \A a \in 1 .. Len(toBoard') : toBoard'[a] = toBoard[f[a]]
          /\ \A a, b \in 1 .. Len(toBoard') : a <= b => f[a] <= f[b]
  BY WireWithin DEF Within
<1>2. PICK g \in [1 .. Len(toServer') -> 1 .. Len(toServer)] :
          /\ \A a \in 1 .. Len(toServer') : toServer'[a] = toServer[g[a]]
          /\ \A a, b \in 1 .. Len(toServer') : a <= b => g[a] <= g[b]
  BY WireWithin DEF Within
<1>3. UNCHANGED <<pc, i, recv_count, recv_data, cycles>>
  BY WireTypes DEF serverVars
<1>4. \A a \in 1 .. Len(toBoard') : f[a] \in 1 .. Len(toBoard)
  OBVIOUS
<1>5. \A a \in 1 .. Len(toServer') : g[a] \in 1 .. Len(toServer)
  OBVIOUS
<1>6. SamplesInOrder'
  BY <1>1, <1>3, <1>4 DEF OrderInv, SamplesInOrder
<1>7. RepliesInOrder'
  BY <1>1, <1>2, <1>3, <1>4, <1>5 DEF OrderInv, RepliesInOrder
<1>8. FiledInOrder'
  BY <1>1, <1>2, <1>3, <1>4, <1>5 DEF OrderInv, FiledInOrder
<1>9. NeverAhead'
  BY <1>3 DEF OrderInv, NeverAhead
<1>10. FiledSoFar'
  BY <1>3 DEF OrderInv, FiledSoFar
<1> QED
  BY <1>6, <1>7, <1>8, <1>9, <1>10 DEF OrderInv

\* The sample sent is behind all others.
LEMMA OrderSendto == ASSUME TypeInv, OrderInv, Sendto PROVE OrderInv'
<1>1. /\ i \in Int /\ i = recv_count /\ cycles \in Nat
      /\ toBoard \in Seq(Index) /\ toServer \in Seq(Reply)
  BY DEF Sendto, TypeInv, TypeOK
<1>2. /\ toBoard' = Append(toBoard, i) /\ UNCHANGED <<i, recv_count, recv_data, toServer, cycles>>
      /\ Len(toBoard') = Len(toBoard) + 1
      /\ \A a \in 1 .. Len(toBoard') :
             toBoard'[a] = IF a <= Len(toBoard) THEN toBoard[a] ELSE i
  BY <1>1 DEF Sendto, faultVars
<1>3. \A a \in 1 .. Len(toBoard) : toBoard[a] \in Int
  BY <1>1 DEF Index
<1>4. SamplesInOrder'
  BY <1>1, <1>2, <1>3 DEF OrderInv, SamplesInOrder
<1>5. RepliesInOrder'
  BY <1>1, <1>2, <1>3 DEF OrderInv, RepliesInOrder
<1>6. \A k \in 0 .. recv_count - 1 : recv_data[k] # Garbage => recv_data[k].sample <= i
  <2> SUFFICES ASSUME NEW k \in 0 .. recv_count - 1, recv_data[k] # Garbage
               PROVE  recv_data[k].sample <= i
    OBVIOUS
  <2>1. recv_data[k].sample <= k /\ k <= i
    BY <1>1 DEF OrderInv, NeverAhead
  <2>2. recv_data[k] \in Reply
    BY DEF TypeInv, TypeOK, Slots
  <2>3. recv_data[k].sample \in Int
    BY <2>2 DEF Reply, Index
  <2> QED
    BY <1>1, <2>1, <2>3
<1>7. FiledInOrder'
  BY <1>1, <1>2, <1>3, <1>6 DEF OrderInv, FiledInOrder
<1>8. NeverAhead'
  BY <1>2 DEF OrderInv, NeverAhead
<1>9. FiledSoFar'
  BY <1>2 DEF Sendto, OrderInv, FiledSoFar
<1> QED
  BY <1>4, <1>5, <1>7, <1>8, <1>9 DEF OrderInv

\* The reply filed is the first of those on the wire.
LEMMA OrderRecvfrom == ASSUME TypeInv, OrderInv, Recvfrom PROVE OrderInv'
<1>1. /\ i \in Int /\ i = recv_count /\ cycles \in Nat /\ recv_count \in Slots
      /\ toBoard \in Seq(Index) /\ toServer \in Seq(Reply) /\ toServer # << >>
  BY DEF Recvfrom, TypeInv, TypeOK, Slots
<1>2. UNCHANGED <<i, toBoard, cycles>> /\ recv_count' = recv_count + 1
  BY DEF Recvfrom
<1>3. /\ Head(toServer) = toServer[1] /\ 1 \in 1 .. Len(toServer) /\ Len(toServer) \in Nat
      /\ Len(toServer') = Len(toServer) - 1
      /\ \A a \in 1 .. Len(toServer') : toServer'[a] = toServer[a + 1] /\ a + 1 \in 1 .. Len(toServer)
  BY <1>1 DEF Recvfrom
<1>5. /\ recv_data'[recv_count] = toServer[1]
      /\ \A k \in 0 .. recv_count - 1 : recv_data'[k] = recv_data[k]
  BY <1>1, <1>3 DEF Recvfrom, TypeInv, TypeOK, Slots
<1>6. SamplesInOrder'
  BY <1>2 DEF OrderInv, SamplesInOrder
<1>7. RepliesInOrder'
  <2>1. ASSUME NEW a \in 1 .. Len(toServer')
        PROVE  /\ toServer'[a].sample <= i /\ toServer'[a].cycle <= cycles
               /\ \A b \in 1 .. Len(toBoard) : toServer'[a].sample <= toBoard[b]
    BY <1>3 DEF OrderInv, RepliesInOrder
  <2>2. ASSUME NEW a \in 1 .. Len(toServer'), NEW b \in 1 .. Len(toServer'), a <= b
        PROVE  /\ toServer'[a].sample <= toServer'[b].sample
               /\ toServer'[a].cycle <= toServer'[b].cycle
    <3>1. a + 1 <= b + 1 /\ a + 1 \in 1 .. Len(toServer) /\ b + 1 \in 1 .. Len(toServer)
      BY <1>3, <2>2
    <3> QED
      BY <1>3, <3>1 DEF OrderInv, RepliesInOrder
  <2> QED
    BY <1>2, <2>1, <2>2 DEF RepliesInOrder
<1>8. FiledInOrder'
  <2> SUFFICES ASSUME NEW k \in 0 .. recv_count, recv_data'[k] # Garbage
               PROVE  /\ recv_data'[k].cycle <= cycles'
                      /\ \A a \in 1 .. Len(toServer') :
                             /\ recv_data'[k].sample <= toServer'[a].sample
                             /\ recv_data'[k].cycle <= toServer'[a].cycle
                      /\ \A b \in 1 .. Len(toBoard') : recv_data'[k].sample <= toBoard'[b]
    BY <1>1, <1>2 DEF FiledInOrder
  <2>1. CASE k = recv_count
    BY <1>2, <1>3, <1>5, <2>1 DEF OrderInv, RepliesInOrder
  <2>2. CASE k \in 0 .. recv_count - 1
    BY <1>2, <1>3, <1>5, <2>2 DEF OrderInv, FiledInOrder
  <2> QED
    BY <1>1, <2>1, <2>2
<1>9. NeverAhead'
  <2> SUFFICES ASSUME NEW k \in 0 .. recv_count, recv_data'[k] # Garbage
               PROVE  /\ recv_data'[k].sample <= k
                      /\ \A j \in 0 .. k - 1 : recv_data'[j] # Garbage =>
                             /\ recv_data'[j].sample <= recv_data'[k].sample
                             /\ recv_data'[j].cycle <= recv_data'[k].cycle
    BY <1>1, <1>2 DEF NeverAhead
  <2>1. CASE k = recv_count
    <3>1. recv_data'[k].sample <= k
      BY <1>1, <1>3, <1>5, <2>1 DEF OrderInv, RepliesInOrder
    <3>2. ASSUME NEW j \in 0 .. k - 1, recv_data'[j] # Garbage
          PROVE  /\ recv_data'[j].sample <= recv_data'[k].sample
                 /\ recv_data'[j].cycle <= recv_data'[k].cycle
      BY <1>3, <1>5, <2>1, <3>2 DEF OrderInv, FiledInOrder
    <3> QED
      BY <3>1, <3>2
  <2>2. CASE k \in 0 .. recv_count - 1
    <3>1. recv_data'[k] = recv_data[k] /\ \A j \in 0 .. k - 1 : recv_data'[j] = recv_data[j]
      BY <1>1, <1>5, <2>2
    <3> QED
      BY <2>2, <3>1 DEF OrderInv, NeverAhead
  <2> QED
    BY <1>1, <2>1, <2>2
<1>10. FiledSoFar'
  <2> SUFFICES ASSUME NEW k \in Slots, k >= recv_count + 1 PROVE recv_data'[k] = Garbage
    BY <1>2 DEF FiledSoFar
  <2>1. recv_data[k] = Garbage /\ k # recv_count
    BY <1>1 DEF Recvfrom, OrderInv, FiledSoFar, Slots
  <2> QED
    BY <2>1 DEF Recvfrom, TypeInv, TypeOK
<1> QED
  BY <1>6, <1>7, <1>8, <1>9, <1>10 DEF OrderInv

\* The board's answer is behind all others and of the first sample waiting.
LEMMA OrderBoard == ASSUME TypeInv, OrderInv, BoardCycle PROVE OrderInv'
<1>1. /\ i \in Int /\ cycles \in Nat
      /\ toBoard \in Seq(Index) /\ toServer \in Seq(Reply) /\ toBoard # << >>
  BY DEF BoardCycle, TypeInv, TypeOK
<1>2. UNCHANGED <<pc, i, recv_count, recv_data>> /\ cycles' = cycles + 1
  BY DEF BoardCycle, serverVars
<1>3. /\ Head(toBoard) = toBoard[1] /\ 1 \in 1 .. Len(toBoard) /\ Len(toBoard) \in Nat
      /\ Len(toBoard') = Len(toBoard) - 1
      /\ \A a \in 1 .. Len(toBoard') : toBoard'[a] = toBoard[a + 1] /\ a + 1 \in 1 .. Len(toBoard)
  BY <1>1 DEF BoardCycle
<1>4. PICK r : r = [sample |-> toBoard[1], cycle |-> cycles + 1]
  OBVIOUS
<1>5. /\ Len(toServer') = Len(toServer) + 1 /\ Len(toServer) \in Nat
      /\ \A a \in 1 .. Len(toServer') :
             toServer'[a] = IF a <= Len(toServer) THEN toServer[a] ELSE r
  <2>1. toServer' = Append(toServer, r)
    BY <1>3, <1>4 DEF BoardCycle
  <2>2. r \in Reply
    BY <1>1, <1>3, <1>4 DEF Reply
  <2> QED
    BY <1>1, <2>1, <2>2
<1>6. /\ r.sample = toBoard[1] /\ r.cycle = cycles + 1 /\ toBoard[1] <= i
      /\ \A a \in 1 .. Len(toServer) : /\ toServer[a].sample <= toBoard[1]
                                      /\ toServer[a].cycle <= cycles
      /\ \A b \in 1 .. Len(toBoard) : toBoard[1] <= toBoard[b]
  BY <1>3, <1>4 DEF OrderInv, SamplesInOrder, RepliesInOrder
<1>7. \A a \in 1 .. Len(toServer) : toServer[a].sample \in Int /\ toServer[a].cycle \in Int
  <2> SUFFICES ASSUME NEW a \in 1 .. Len(toServer)
               PROVE  toServer[a].sample \in Int /\ toServer[a].cycle \in Int
    OBVIOUS
  <2>1. toServer[a] \in Reply
    BY <1>1
  <2> QED
    BY <2>1 DEF Reply, Index
<1>8. SamplesInOrder'
  <2>1. ASSUME NEW a \in 1 .. Len(toBoard'), NEW b \in 1 .. Len(toBoard'), a <= b
        PROVE  toBoard'[a] <= toBoard'[b]
    <3>1. a + 1 <= b + 1 /\ a + 1 \in 1 .. Len(toBoard) /\ b + 1 \in 1 .. Len(toBoard)
      BY <1>3, <2>1
    <3> QED
      BY <1>3, <3>1 DEF OrderInv, SamplesInOrder
  <2> QED
    BY <1>2, <1>3, <2>1 DEF OrderInv, SamplesInOrder
<1>9. RepliesInOrder'
  <2>1. ASSUME NEW a \in 1 .. Len(toServer')
        PROVE  /\ toServer'[a].sample <= i /\ toServer'[a].cycle <= cycles + 1
               /\ \A b \in 1 .. Len(toBoard') : toServer'[a].sample <= toBoard'[b]
    <3>1. CASE a <= Len(toServer)
      <4>1. toServer'[a] = toServer[a] /\ a \in 1 .. Len(toServer)
        BY <1>5, <3>1
      <4> QED
        <5>1. toServer[a].sample <= i /\ toServer[a].cycle <= cycles
          BY <4>1 DEF OrderInv, RepliesInOrder
        <5>2. toServer[a].cycle <= cycles + 1
          BY <1>1, <1>7, <4>1, <5>1
        <5>3. \A b \in 1 .. Len(toBoard') : toServer[a].sample <= toBoard'[b]
          BY <1>3, <4>1 DEF OrderInv, RepliesInOrder
        <5> QED
          BY <4>1, <5>1, <5>2, <5>3
    <3>2. CASE a > Len(toServer)
      <4>1. toServer'[a] = r
        BY <1>5, <3>2
      <4>2. r.sample <= i /\ r.cycle <= cycles + 1
        BY <1>1, <1>6
      <4>3. \A b \in 1 .. Len(toBoard') : r.sample <= toBoard'[b]
        BY <1>3, <1>6
      <4> QED
        BY <4>1, <4>2, <4>3
    <3> QED
      BY <1>5, <3>1, <3>2
  <2>2. ASSUME NEW a \in 1 .. Len(toServer'), NEW b \in 1 .. Len(toServer'), a <= b
        PROVE  /\ toServer'[a].sample <= toServer'[b].sample
               /\ toServer'[a].cycle <= toServer'[b].cycle
    <3>1. CASE b <= Len(toServer)
      <4>1. /\ toServer'[a] = toServer[a] /\ a \in 1 .. Len(toServer)
            /\ toServer'[b] = toServer[b] /\ b \in 1 .. Len(toServer)
        BY <1>5, <2>2, <3>1
      <4> QED
        BY <2>2, <4>1 DEF OrderInv, RepliesInOrder
    <3>2. CASE a <= Len(toServer) /\ b > Len(toServer)
      <4>1. toServer'[a] = toServer[a] /\ a \in 1 .. Len(toServer) /\ toServer'[b] = r
        BY <1>5, <3>2
      <4> QED
        BY <1>1, <1>6, <1>7, <4>1
    <3>3. CASE a > Len(toServer)
      <4>1. toServer'[a] = r /\ toServer'[b] = r
        BY <1>5, <2>2, <3>3
      <4>2. r.sample \in Int /\ r.cycle \in Int
        BY <1>1, <1>3, <1>6 DEF Index
      <4> QED
        BY <4>1, <4>2
    <3> QED
      BY <1>5, <3>1, <3>2, <3>3
  <2> QED
    BY <1>2, <2>1, <2>2 DEF RepliesInOrder
<1>10. FiledInOrder'
  <2> SUFFICES ASSUME NEW k \in 0 .. recv_count - 1, recv_data[k] # Garbage
               PROVE  /\ recv_data[k].cycle <= cycles + 1
                      /\ \A a \in 1 .. Len(toServer') :
                             /\ recv_data[k].sample <= toServer'[a].sample
                             /\ recv_data[k].cycle <= toServer'[a].cycle
                      /\ \A b \in 1 .. Len(toBoard') : recv_data[k].sample <= toBoard'[b]
    BY <1>2 DEF FiledInOrder
  <2>1. recv_data[k].sample \in Int /\ recv_data[k].cycle \in Int
    <3>1. recv_data[k] \in Reply
      BY DEF TypeInv, TypeOK, Slots
    <3> QED
      BY <3>1 DEF Reply, Index
  <2>2. /\ recv_data[k].cycle <= cycles
        /\ recv_data[k].sample <= toBoard[1]
        /\ \A b \in 1 .. Len(toBoard) : recv_data[k].sample <= toBoard[b]
    BY <1>3 DEF OrderInv, FiledInOrder
  <2>3. ASSUME NEW a \in 1 .. Len(toServer')
        PROVE  /\ recv_data[k].sample <= toServer'[a].sample
               /\ recv_data[k].cycle <= toServer'[a].cycle
    <3>1. CASE a <= Len(toServer)
      BY <1>5, <3>1 DEF OrderInv, FiledInOrder
    <3>2. CASE a > Len(toServer)
      BY <1>1, <1>5, <1>6, <2>1, <2>2, <3>2
    <3> QED
      BY <1>5, <3>1, <3>2
  <2>4. recv_data[k].cycle <= cycles + 1
    BY <1>1, <2>1, <2>2
  <2>5. \A b \in 1 .. Len(toBoard') : recv_data[k].sample <= toBoard'[b]
    BY <1>3, <2>2
  <2> QED
    BY <2>3, <2>4, <2>5
<1>11. NeverAhead'
  BY <1>2 DEF OrderInv, NeverAhead
<1>12. FiledSoFar'
  BY <1>2 DEF OrderInv, FiledSoFar
<1> QED
  BY <1>8, <1>9, <1>10, <1>11, <1>12 DEF OrderInv

\* The samples to come are behind those sent.
LEMMA OrderActivation == ASSUME TypeInv, OrderInv, NextActivation PROVE OrderInv'
<1>1. i \in Int /\ i' = i + 1 /\ UNCHANGED <<recv_data, toBoard, toServer, cycles>>
  BY DEF NextActivation, wireVars, TypeInv, TypeOK
<1>2. \/ pc' = "send" /\ recv_count' = recv_count
      \/ pc' = "save" /\ recv_count' = 0
  BY DEF NextActivation
<1>3. \A k \in 0 .. recv_count' - 1 : k \in 0 .. recv_count - 1
  <2>1. recv_count \in Nat
    BY DEF TypeInv, TypeOK
  <2> QED
    BY <1>2, <2>1
<1>4. FiledInOrder' /\ NeverAhead'
  BY <1>1, <1>3 DEF OrderInv, FiledInOrder, NeverAhead
<1>5. FiledSoFar'
  <2>1. CASE pc' = "send" /\ recv_count' = recv_count
    BY <1>1, <2>1 DEF OrderInv, FiledSoFar, NextActivation
  <2>2. CASE pc' = "save"
    BY <2>2 DEF FiledSoFar
  <2> QED
    BY <1>2, <2>1, <2>2
<1>6. SamplesInOrder'
  <2>1. ASSUME NEW a \in 1 .. Len(toBoard) PROVE toBoard[a] <= i + 1
    <3>1. toBoard[a] <= i
      BY DEF OrderInv, SamplesInOrder
    <3>2. toBoard[a] \in Int
      BY DEF TypeInv, TypeOK, Index
    <3> QED
      BY <1>1, <3>1, <3>2
  <2> QED
    BY <1>1, <2>1 DEF OrderInv, SamplesInOrder
<1>7. RepliesInOrder'
  <2>1. ASSUME NEW a \in 1 .. Len(toServer) PROVE toServer[a].sample <= i + 1
    <3>1. toServer[a].sample <= i
      BY DEF OrderInv, RepliesInOrder
    <3>2. toServer[a].sample \in Int
      <4>1. toServer[a] \in Reply
        BY DEF TypeInv, TypeOK
      <4> QED
        BY <4>1 DEF Reply, Index
    <3> QED
      BY <1>1, <3>1, <3>2
  <2> QED
    BY <1>1, <2>1 DEF OrderInv, RepliesInOrder
<1> QED
  BY <1>4, <1>5, <1>6, <1>7 DEF OrderInv

LEMMA OrderStep == TypeInv /\ OrderInv /\ [Next]_vars => OrderInv'
<1> SUFFICES ASSUME TypeInv, OrderInv, [Next]_vars PROVE OrderInv'
  OBVIOUS
<1> USE DEF OrderInv, SamplesInOrder, RepliesInOrder, FiledInOrder, NeverAhead, FiledSoFar
<1>1. CASE SendtoFails \/ Kill \/ SaveData \/ UNCHANGED vars
  BY <1>1 DEF SendtoFails, Kill, SaveData, wireVars, vars, serverVars
<1>2. CASE RecvfromFails
  <2>1. /\ pc = "recv" /\ pc' = "wait" /\ recv_count' = recv_count + 1
        /\ recv_count \in Slots /\ recv_count \in Nat
        /\ UNCHANGED <<i, recv_data, toBoard, toServer, cycles>>
    BY <1>2 DEF RecvfromFails, wireVars, TypeInv, TypeOK, Slots
  <2>2. recv_data[recv_count] = Garbage
    BY <2>1
  <2>3. \A k \in 0 .. recv_count' - 1 : recv_data[k] # Garbage => k \in 0 .. recv_count - 1
    BY <2>1, <2>2
  <2>4. SamplesInOrder' /\ RepliesInOrder'
    BY <2>1
  <2>5. FiledInOrder' /\ NeverAhead'
    BY <2>1, <2>3
  <2>6. FiledSoFar'
    BY <2>1 DEF Slots
  <2> QED
    BY <2>4, <2>5, <2>6
<1> QED
  BY <1>1, <1>2, OrderActivation, OrderSendto, OrderRecvfrom, OrderBoard, OrderWire DEF Next, Server

\* Whatever is lost, repeated or fails, and however often, the reply filed
\* under an index answers its sample or an earlier one, in order.
THEOREM RepliesLagAtMost == Spec => []NeverAhead
<1>1. OrderInv => NeverAhead
  BY DEF OrderInv
<1> QED
  BY <1>1, TypeInit, TypeStep, OrderInit, OrderStep, PTL DEF Spec
=============================================================================
