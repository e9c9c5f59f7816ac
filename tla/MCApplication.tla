--------------------------- MODULE MCApplication ---------------------------
(***************************************************************************)
(* Matrices small enough to be read and with no symmetry, so that a row,   *)
(* a column or an order taken for another gives another result.            *)
(***************************************************************************)
EXTENDS Application

MCN == 3

Row(i, n) == [j \in 0 .. n - 1 |-> ((7 * i + 3 * j + i * j) % 4) - 1]
Matrix(first, n) == [i \in 0 .. MCN - 1 |-> Row(i + first, n)]

MCA == Matrix(1, MCN)
MCB == Matrix(2, 26)
MCC == Row(5, MCN)
MCD == Row(6, 26)
MCA1 == Matrix(3, MCN)
MCB1 == Matrix(1, 26)
MCC1 == Row(4, MCN)
MCD1 == Row(2, 26)

\* cos and sin by tenths of a millisecond; the values do not matter.
MCCos == [t \in 0 .. 50 |-> t + 1]
MCSin == [t \in 0 .. 50 |-> 2 * t + 1]

\* Two datagrams: every position holds something else.
MCDatagrams == {[p \in 1 .. 60 |-> (p % 11) - 5], [p \in 1 .. 60 |-> (p * 3) % 7]}
=============================================================================
