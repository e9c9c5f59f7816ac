------------------------- MODULE RegisterToolsProofs -------------------------
(***************************************************************************)
(* Proofs about RegisterTools: for any of the tools, run in any order and  *)
(* any number of times, each killed anywhere.                              *)
(***************************************************************************)
EXTENDS RegisterTools, SequenceTheorems, TLAPS

USE ToolsAssumption
-----------------------------------------------------------------------------
(***************************************************************************)
(* Where the members of the two structs are.  Placed is defined by         *)
(* recursion over the members: a table that satisfies its equation is      *)
(* given for each struct, and what Placed returns satisfies it, too.       *)
(***************************************************************************)
PlacedBy(struct, f) ==
    f = [k \in DOMAIN struct |->
            IF k = 1 THEN 0
            ELSE Align(f[k - 1] + struct[k - 1].size * struct[k - 1].count,
                       struct[k].size)]

LEMMA PlacedSolves ==
    ASSUME NEW struct, NEW f, PlacedBy(struct, f)
    PROVE  PlacedBy(struct, Placed(struct))
BY DEF PlacedBy, Placed

\* The places the comments of shared_page.h give, member by member.
PagePlaces ==
    [k \in 1 .. 17 |->
        <<0, 88, 96, 184, 192, 200, 208, 216, 448, 464, 465, 466, 467, 468, 472,
          480, 488>>[k]]

LEMMA PageTable == PlacedBy(shared_page, PagePlaces)
<1>1. DOMAIN shared_page = 1 .. 17
  BY DEF shared_page
<1>2. ASSUME NEW k \in 2 .. 17
      PROVE  PagePlaces[k] = Align(PagePlaces[k - 1]
                                   + shared_page[k - 1].size * shared_page[k - 1].count,
                                   shared_page[k].size)
  <2>1. CASE k \in 2 .. 9
    BY <2>1 DEF shared_page, Member, PagePlaces, Align
  <2>2. CASE k \in 10 .. 17
    BY <2>2 DEF shared_page, Member, PagePlaces, Align
  <2> QED
    BY <2>1, <2>2
<1>3. PagePlaces[1] = 0
  BY DEF PagePlaces
<1> QED
  BY <1>1, <1>2, <1>3 DEF PlacedBy, PagePlaces

\* Each member of the page is where the table has it: 0x000, 0x058, ...
LEMMA PagePlaced == \A k \in 1 .. 17 : Placed(shared_page)[k] = PagePlaces[k]
<1> DEFINE p == Placed(shared_page)
<1>1. PlacedBy(shared_page, p)
  BY PageTable, PlacedSolves
<1>2. DOMAIN shared_page = 1 .. 17
  BY DEF shared_page
<1> HIDE DEF p
<1>3. p[1] = 0
  BY <1>1, <1>2 DEF PlacedBy
<1>4. \A k \in 2 .. 17 :
          p[k] = Align(p[k - 1] + shared_page[k - 1].size * shared_page[k - 1].count,
                       shared_page[k].size)
  BY <1>1, <1>2 DEF PlacedBy
<1>5. p[2] = 88 /\ p[3] = 96 /\ p[4] = 184 /\ p[5] = 192
  BY <1>3, <1>4 DEF shared_page, Member, Align
<1>6. p[6] = 200 /\ p[7] = 208 /\ p[8] = 216 /\ p[9] = 448
  BY <1>5, <1>4 DEF shared_page, Member, Align
<1>7. p[10] = 464 /\ p[11] = 465 /\ p[12] = 466 /\ p[13] = 467
  BY <1>6, <1>4 DEF shared_page, Member, Align
<1>8. p[14] = 468 /\ p[15] = 472 /\ p[16] = 480 /\ p[17] = 488
  BY <1>7, <1>4 DEF shared_page, Member, Align
<1> QED
  BY <1>3, <1>5, <1>6, <1>7, <1>8 DEF PagePlaces, p

\* A member is found by its name, which no other member has.
LEMMA OffsetOf ==
    ASSUME NEW struct, NEW k \in DOMAIN struct,
           \A j \in DOMAIN struct : struct[j].name = struct[k].name => j = k
    PROVE  Offset(struct, struct[k].name) = Placed(struct)[k]
BY DEF Offset

\* The offsets the FPGA is given.
LEMMA PageOffsets ==
    /\ Offset(shared_page, "ivs3") = 184
    /\ Offset(shared_page, "zdot") = 208
    /\ Offset(shared_page, "input_counter") = 465
    /\ Offset(shared_page, "marte_strategy") = 466
    /\ Offset(shared_page, "classic_output") = 480
<1>1. DOMAIN shared_page = 1 .. 17
  BY DEF shared_page
<1>2. \A j \in 1 .. 17 : shared_page[j].name = "ivs3" <=> j = 4
  BY DEF shared_page, Member
<1>3. \A j \in 1 .. 17 : shared_page[j].name = "zdot" <=> j = 7
  BY DEF shared_page, Member
<1>4. \A j \in 1 .. 17 : shared_page[j].name = "input_counter" <=> j = 11
  BY DEF shared_page, Member
<1>5. \A j \in 1 .. 17 : shared_page[j].name = "marte_strategy" <=> j = 12
  BY DEF shared_page, Member
<1>6. \A j \in 1 .. 17 : shared_page[j].name = "classic_output" <=> j = 16
  BY DEF shared_page, Member
<1>7. ASSUME NEW k \in 1 .. 17, NEW name,
             \A j \in 1 .. 17 : shared_page[j].name = name <=> j = k
      PROVE  Offset(shared_page, name) = PagePlaces[k]
  <2>1. shared_page[k].name = name
    BY <1>7
  <2> QED
    BY <2>1, <1>1, <1>7, OffsetOf, PagePlaced
<1>8. /\ PagePlaces[4] = 184 /\ PagePlaces[7] = 208 /\ PagePlaces[11] = 465
      /\ PagePlaces[12] = 466 /\ PagePlaces[16] = 480
  BY DEF PagePlaces
<1> QED
  BY <1>2, <1>3, <1>4, <1>5, <1>6, <1>7, <1>8

PortPlaces ==
    [k \in 1 .. 13 |-> <<0, 2, 4, 6, 8, 10, 12, 16, 24, 32, 40, 48, 56>>[k]]

LEMMA PortTable == PlacedBy(classic_vs_pl_conf_port, PortPlaces)
<1>1. DOMAIN classic_vs_pl_conf_port = 1 .. 13
  BY DEF classic_vs_pl_conf_port
<1>2. ASSUME NEW k \in 2 .. 13
      PROVE  PortPlaces[k] = Align(PortPlaces[k - 1]
                                   + classic_vs_pl_conf_port[k - 1].size
                                     * classic_vs_pl_conf_port[k - 1].count,
                                   classic_vs_pl_conf_port[k].size)
  BY DEF classic_vs_pl_conf_port, Member, PortPlaces, Align
<1>3. PortPlaces[1] = 0
  BY DEF PortPlaces
<1> QED
  BY <1>1, <1>2, <1>3 DEF PlacedBy, PortPlaces

LEMMA PortPlaced == \A k \in 1 .. 13 : Placed(classic_vs_pl_conf_port)[k] = PortPlaces[k]
<1> DEFINE p == Placed(classic_vs_pl_conf_port)
<1>1. PlacedBy(classic_vs_pl_conf_port, p)
  BY PortTable, PlacedSolves
<1>2. DOMAIN classic_vs_pl_conf_port = 1 .. 13
  BY DEF classic_vs_pl_conf_port
<1> HIDE DEF p
<1>3. p[1] = 0
  BY <1>1, <1>2 DEF PlacedBy
<1>4. \A k \in 2 .. 13 :
          p[k] = Align(p[k - 1] + classic_vs_pl_conf_port[k - 1].size
                                  * classic_vs_pl_conf_port[k - 1].count,
                       classic_vs_pl_conf_port[k].size)
  BY <1>1, <1>2 DEF PlacedBy
<1>5. p[2] = 2 /\ p[3] = 4 /\ p[4] = 6 /\ p[5] = 8 /\ p[6] = 10
  BY <1>3, <1>4 DEF classic_vs_pl_conf_port, Member, Align
<1>6. p[7] = 12 /\ p[8] = 16 /\ p[9] = 24 /\ p[10] = 32
  BY <1>5, <1>4 DEF classic_vs_pl_conf_port, Member, Align
<1>7. p[11] = 40 /\ p[12] = 48 /\ p[13] = 56
  BY <1>6, <1>4 DEF classic_vs_pl_conf_port, Member, Align
<1> QED
  BY <1>3, <1>5, <1>6, <1>7 DEF PortPlaces, p

\* The three registers that fall on the words of region control.
LEMMA PortOffsets ==
    ASSUME NEW r \in Registers,
           Offset(classic_vs_pl_conf_port, r) \in {0, 4, 8}
    PROVE  r \in {"enabled", "ivs3_offset", "marte_strategy_offset"}
<1>1. DOMAIN classic_vs_pl_conf_port = 1 .. 13
  BY DEF classic_vs_pl_conf_port
<1>2. \A j, k \in 1 .. 13 :
          classic_vs_pl_conf_port[j].name = classic_vs_pl_conf_port[k].name => j = k
  BY DEF classic_vs_pl_conf_port, Member
<1>3. \A k \in 1 .. 13 :
          Offset(classic_vs_pl_conf_port, classic_vs_pl_conf_port[k].name) = PortPlaces[k]
  BY <1>1, <1>2, OffsetOf, PortPlaced
<1>4. PICK k \in 1 .. 13 : r = classic_vs_pl_conf_port[k].name
  BY <1>1 DEF Registers, ToSet
<1>5. PortPlaces[k] \in {0, 4, 8}
  BY <1>3, <1>4
<1>6. k \in {1, 3, 5}
  BY <1>5 DEF PortPlaces
<1> QED
  BY <1>4, <1>6 DEF classic_vs_pl_conf_port, Member
-----------------------------------------------------------------------------
(***************************************************************************)
(* What the tools store.                                                   *)
(***************************************************************************)
\* The registers, by name.
LEMMA RegisterNames ==
    Registers = {"enabled", "counter_offset", "ivs3_offset", "zdot_offset",
                 "marte_strategy_offset", "safe_control_output_offset", "res_0_0",
                 "shared_page_base", "Af_val", "Bf_val", "Cf_val", "Df_val", "gain_val"}
<1>1. Registers = {classic_vs_pl_conf_port[k].name : k \in 1 .. 13}
  BY DEF Registers, ToSet, classic_vs_pl_conf_port
<1> QED
  BY <1>1 DEF classic_vs_pl_conf_port, Member

LEMMA LawStores ==
    /\ Len(Law) = 5
    /\ Law[1] = <<"Af_val", "Af">> /\ Law[2] = <<"Bf_val", "Bf">>
    /\ Law[3] = <<"Cf_val", "Cf">> /\ Law[4] = <<"Df_val", "Df">>
    /\ Law[5] = <<"gain_val", "gain">>
BY RegisterNames DEF Law

Values == {0, 1, 184, 208, 456, 464, 465, 466, 480, SHARED_PAGE_ADDR,
           "Af", "Bf", "Cf", "Df", "gain"}

Stored == Registers \X Values

\* Two lists of stores joined.
LEMMA Joined ==
    ASSUME NEW x \in Seq(Stored), NEW y \in Seq(Stored)
    PROVE  /\ x \o y \in Seq(Stored)
           /\ Len(x \o y) = Len(x) + Len(y)
           /\ \A k \in 1 .. Len(x) : (x \o y)[k] = x[k]
           /\ \A k \in 1 .. Len(y) : (x \o y)[Len(x) + k] = y[k]
<1>1. /\ x \o y \in Seq(Stored)
      /\ Len(x \o y) = Len(x) + Len(y)
  BY ConcatProperties
<1>2. \A k \in 1 .. Len(x) : (x \o y)[k] = x[k]
  OBVIOUS
<1>3. \A k \in 1 .. Len(y) : (x \o y)[Len(x) + k] = y[k]
  OBVIOUS
<1> QED
  BY <1>1, <1>2, <1>3

\* The lists of stores, joined from the five parts they are written in.
IsJoined(s, p, x, q, y, r) ==
    /\ s \in Seq(Stored)
    /\ Len(s) = Len(p) + Len(x) + Len(q) + Len(y) + Len(r)
    /\ \A k \in 1 .. Len(p) : s[k] = p[k]
    /\ \A k \in 1 .. Len(x) : s[Len(p) + k] = x[k]
    /\ \A k \in 1 .. Len(q) : s[Len(p) + Len(x) + k] = q[k]
    /\ \A k \in 1 .. Len(y) : s[Len(p) + Len(x) + Len(q) + k] = y[k]
    /\ \A k \in 1 .. Len(r) : s[Len(p) + Len(x) + Len(q) + Len(y) + k] = r[k]

LEMMA JoinedFive ==
    ASSUME NEW p \in Seq(Stored), NEW x \in Seq(Stored), NEW q \in Seq(Stored),
           NEW y \in Seq(Stored), NEW r \in Seq(Stored)
    PROVE  IsJoined(p \o x \o q \o y \o r, p, x, q, y, r)
<1>0. /\ Len(p) \in Nat /\ Len(x) \in Nat /\ Len(q) \in Nat /\ Len(y) \in Nat
      /\ Len(r) \in Nat
  OBVIOUS
<1>1. PICK s1 \in Seq(Stored) : s1 = p \o x
  BY Joined
<1>2. PICK s2 \in Seq(Stored) : s2 = s1 \o q
  BY Joined
<1>3. PICK s3 \in Seq(Stored) : s3 = s2 \o y
  BY Joined
<1>4. PICK s4 \in Seq(Stored) : s4 = s3 \o r
  BY Joined
<1>5. /\ Len(s1) = Len(p) + Len(x)
      /\ \A k \in 1 .. Len(p) : s1[k] = p[k]
      /\ \A k \in 1 .. Len(x) : s1[Len(p) + k] = x[k]
  BY <1>1, Joined
<1>6. /\ Len(s2) = Len(s1) + Len(q)
      /\ \A k \in 1 .. Len(s1) : s2[k] = s1[k]
      /\ \A k \in 1 .. Len(q) : s2[Len(s1) + k] = q[k]
  BY <1>2, Joined
<1>7. /\ Len(s3) = Len(s2) + Len(y)
      /\ \A k \in 1 .. Len(s2) : s3[k] = s2[k]
      /\ \A k \in 1 .. Len(y) : s3[Len(s2) + k] = y[k]
  BY <1>3, Joined
<1>8. /\ Len(s4) = Len(s3) + Len(r)
      /\ \A k \in 1 .. Len(s3) : s4[k] = s3[k]
      /\ \A k \in 1 .. Len(r) : s4[Len(s3) + k] = r[k]
  BY <1>4, Joined
<1>9. s4 = p \o x \o q \o y \o r
  BY <1>1, <1>2, <1>3, <1>4
<1>10. ASSUME NEW k \in 1 .. Len(p)
       PROVE  s4[k] = p[k]
  <2>1. k \in 1 .. Len(s1) /\ k \in 1 .. Len(s2) /\ k \in 1 .. Len(s3)
    BY <1>0, <1>5, <1>6, <1>7
  <2> QED
    BY <2>1, <1>5, <1>6, <1>7, <1>8
<1>11. ASSUME NEW k \in 1 .. Len(x)
       PROVE  s4[Len(p) + k] = x[k]
  <2>1. /\ Len(p) + k \in 1 .. Len(s1) /\ Len(p) + k \in 1 .. Len(s2)
        /\ Len(p) + k \in 1 .. Len(s3)
    BY <1>0, <1>5, <1>6, <1>7
  <2> QED
    BY <2>1, <1>5, <1>6, <1>7, <1>8
<1>12. ASSUME NEW k \in 1 .. Len(q)
       PROVE  s4[Len(p) + Len(x) + k] = q[k]
  <2>1. /\ Len(s1) + k \in 1 .. Len(s2) /\ Len(s1) + k \in 1 .. Len(s3)
        /\ Len(s1) + k = Len(p) + Len(x) + k
    BY <1>0, <1>5, <1>6, <1>7
  <2> QED
    BY <2>1, <1>6, <1>7, <1>8
<1>13. \A k \in 1 .. Len(y) : s4[Len(p) + Len(x) + Len(q) + k] = y[k]
  BY <1>0, <1>5, <1>6, <1>7, <1>8
<1>14. \A k \in 1 .. Len(r) : s4[Len(p) + Len(x) + Len(q) + Len(y) + k] = r[k]
  BY <1>0, <1>5, <1>6, <1>7, <1>8
<1>15. Len(s4) = Len(p) + Len(x) + Len(q) + Len(y) + Len(r)
  BY <1>5, <1>6, <1>7, <1>8
<1>16. IsJoined(s4, p, x, q, y, r)
  BY <1>10, <1>11, <1>12, <1>13, <1>14, <1>15 DEF IsJoined
<1> QED
  BY <1>9, <1>16

\* What the new test stores, in order.
LEMMA NewTestStores ==
    /\ HwTestNew \in Seq(Stored) /\ Len(HwTestNew) = 13
    /\ HwTestNew[1] = <<"enabled", 0>>
    /\ \A k \in 1 .. 5 : HwTestNew[1 + k] = Law[k]
    /\ HwTestNew[7] = Base
    /\ HwTestNew[8] = <<"counter_offset", 465>>
    /\ HwTestNew[9] = <<"ivs3_offset", 184>>
    /\ HwTestNew[10] = <<"zdot_offset", 208>>
    /\ HwTestNew[11] = <<"safe_control_output_offset", 480>>
    /\ HwTestNew[12] = <<"marte_strategy_offset", 466>>
    /\ HwTestNew[13] = <<"enabled", 1>>
<1>1. PICK p \in Seq(Stored) : p = <<<<"enabled", 0>>>>
  <2>1. <<<<"enabled", 0>>>> \in Seq(Stored)
    BY RegisterNames DEF Stored, Values
  <2> QED
    BY <2>1
<1>2. PICK x \in Seq(Stored) : x = Law
  <2>1. Law \in Seq(Stored)
    BY RegisterNames DEF Stored, Values, Law
  <2> QED
    BY <2>1
<1>3. PICK q \in Seq(Stored) : q = <<Base>>
  <2>1. <<Base>> \in Seq(Stored)
    BY RegisterNames DEF Stored, Values, Base
  <2> QED
    BY <2>1
<1>4. PICK y \in Seq(Stored) : y = TestedOffsets
  <2>1. TestedOffsets \in Seq(Stored)
    BY RegisterNames, PageOffsets DEF Stored, Values, TestedOffsets, InPage
  <2> QED
    BY <2>1
<1>5. PICK r \in Seq(Stored) :
          r = <<InPage("marte_strategy_offset", "marte_strategy"), <<"enabled", 1>>>>
  <2>1. <<InPage("marte_strategy_offset", "marte_strategy"), <<"enabled", 1>>>>
            \in Seq(Stored)
    BY RegisterNames, PageOffsets DEF Stored, Values, InPage
  <2> QED
    BY <2>1
<1>6. HwTestNew = p \o x \o q \o y \o r
  BY <1>1, <1>2, <1>3, <1>4, <1>5 DEF HwTestNew
<1>7. IsJoined(HwTestNew, p, x, q, y, r)
  BY <1>6, JoinedFive
<1>8. Len(p) = 1 /\ Len(x) = 5 /\ Len(q) = 1 /\ Len(y) = 4 /\ Len(r) = 2
  <2>1. Len(p) = 1 /\ Len(q) = 1
    BY <1>1, <1>3
  <2>2. Len(x) = 5
    BY <1>2, LawStores
  <2>3. Len(y) = 4
    BY <1>4 DEF TestedOffsets
  <2>4. Len(r) = 2
    BY <1>5
  <2> QED
    BY <2>1, <2>2, <2>3, <2>4
<1>9. HwTestNew \in Seq(Stored) /\ Len(HwTestNew) = 13
  BY <1>7, <1>8 DEF IsJoined
<1>10. /\ \A k \in 1 .. 1 : HwTestNew[k] = p[k]
       /\ \A k \in 1 .. 5 : HwTestNew[1 + k] = x[k]
       /\ \A k \in 1 .. 1 : HwTestNew[6 + k] = q[k]
       /\ \A k \in 1 .. 4 : HwTestNew[7 + k] = y[k]
       /\ \A k \in 1 .. 2 : HwTestNew[11 + k] = r[k]
  BY <1>7, <1>8 DEF IsJoined
<1>11. /\ HwTestNew[1] = p[1] /\ HwTestNew[7] = q[1]
       /\ HwTestNew[8] = y[1] /\ HwTestNew[9] = y[2]
       /\ HwTestNew[10] = y[3] /\ HwTestNew[11] = y[4]
       /\ HwTestNew[12] = r[1] /\ HwTestNew[13] = r[2]
  <2>1. 1 \in 1 .. 1 /\ 1 \in 1 .. 4 /\ 2 \in 1 .. 4 /\ 3 \in 1 .. 4 /\ 4 \in 1 .. 4
        /\ 1 \in 1 .. 2 /\ 2 \in 1 .. 2
    OBVIOUS
  <2>2. HwTestNew[1] = p[1] /\ HwTestNew[6 + 1] = q[1]
    BY <2>1, <1>10
  <2>3. /\ HwTestNew[7 + 1] = y[1] /\ HwTestNew[7 + 2] = y[2]
        /\ HwTestNew[7 + 3] = y[3] /\ HwTestNew[7 + 4] = y[4]
    BY <2>1, <1>10
  <2>4. HwTestNew[11 + 1] = r[1] /\ HwTestNew[11 + 2] = r[2]
    BY <2>1, <1>10
  <2>5. /\ 6 + 1 = 7 /\ 7 + 1 = 8 /\ 7 + 2 = 9 /\ 7 + 3 = 10 /\ 7 + 4 = 11
        /\ 11 + 1 = 12 /\ 11 + 2 = 13
    OBVIOUS
  <2> QED
    BY <2>2, <2>3, <2>4, <2>5
<1>12. \A k \in 1 .. 5 : HwTestNew[1 + k] = Law[k]
  BY <1>2, <1>10
<1>13. /\ y[1] = <<"counter_offset", 465>> /\ y[2] = <<"ivs3_offset", 184>>
       /\ y[3] = <<"zdot_offset", 208>>
       /\ y[4] = <<"safe_control_output_offset", 480>>
  BY <1>4, PageOffsets DEF TestedOffsets, InPage
<1>14. r[1] = <<"marte_strategy_offset", 466>> /\ r[2] = <<"enabled", 1>>
  BY <1>5, PageOffsets DEF InPage
<1>15. p[1] = <<"enabled", 0>> /\ q[1] = Base
  BY <1>1, <1>3
<1> QED
  BY <1>9, <1>11, <1>12, <1>13, <1>14, <1>15

\* What the older test stores, in order.
LEMMA OldTestStores ==
    /\ HwTestOld \in Seq(Stored) /\ Len(HwTestOld) = 12
    /\ HwTestOld[1] = <<"enabled", 0>>
    /\ \A k \in 1 .. 5 : HwTestOld[1 + k] = Law[k]
    /\ HwTestOld[7] = Base
    /\ HwTestOld[8] = <<"counter_offset", 464>>
    /\ HwTestOld[9] = <<"ivs3_offset", 184>>
    /\ HwTestOld[10] = <<"zdot_offset", 208>>
    /\ HwTestOld[11] = OlderOutput
    /\ HwTestOld[12] = <<"enabled", 1>>
<1>1. PICK p \in Seq(Stored) : p = <<<<"enabled", 0>>>>
  <2>1. <<<<"enabled", 0>>>> \in Seq(Stored)
    BY RegisterNames DEF Stored, Values
  <2> QED
    BY <2>1
<1>2. PICK x \in Seq(Stored) : x = Law
  <2>1. Law \in Seq(Stored)
    BY RegisterNames DEF Stored, Values, Law
  <2> QED
    BY <2>1
<1>3. PICK q \in Seq(Stored) : q = <<Base>>
  <2>1. <<Base>> \in Seq(Stored)
    BY RegisterNames DEF Stored, Values, Base
  <2> QED
    BY <2>1
<1>4. PICK y \in Seq(Stored) : y = OlderInputs
  <2>1. OlderInputs \in Seq(Stored)
    BY RegisterNames DEF Stored, Values, OlderInputs
  <2> QED
    BY <2>1
<1>5. PICK r \in Seq(Stored) : r = <<OlderOutput, <<"enabled", 1>>>>
  <2>1. <<OlderOutput, <<"enabled", 1>>>> \in Seq(Stored)
    BY RegisterNames DEF Stored, Values, OlderOutput
  <2> QED
    BY <2>1
<1>6. HwTestOld = p \o x \o q \o y \o r
  BY <1>1, <1>2, <1>3, <1>4, <1>5 DEF HwTestOld
<1>7. IsJoined(HwTestOld, p, x, q, y, r)
  BY <1>6, JoinedFive
<1>8. Len(p) = 1 /\ Len(x) = 5 /\ Len(q) = 1 /\ Len(y) = 3 /\ Len(r) = 2
  <2>1. Len(p) = 1 /\ Len(q) = 1
    BY <1>1, <1>3
  <2>2. Len(x) = 5
    BY <1>2, LawStores
  <2>3. Len(y) = 3
    BY <1>4 DEF OlderInputs
  <2>4. Len(r) = 2
    BY <1>5
  <2> QED
    BY <2>1, <2>2, <2>3, <2>4
<1>9. HwTestOld \in Seq(Stored) /\ Len(HwTestOld) = 12
  BY <1>7, <1>8 DEF IsJoined
<1>10. /\ \A k \in 1 .. 1 : HwTestOld[k] = p[k]
       /\ \A k \in 1 .. 5 : HwTestOld[1 + k] = x[k]
       /\ \A k \in 1 .. 1 : HwTestOld[6 + k] = q[k]
       /\ \A k \in 1 .. 3 : HwTestOld[7 + k] = y[k]
       /\ \A k \in 1 .. 2 : HwTestOld[10 + k] = r[k]
  BY <1>7, <1>8 DEF IsJoined
<1>11. /\ HwTestOld[1] = p[1] /\ HwTestOld[7] = q[1]
       /\ HwTestOld[8] = y[1] /\ HwTestOld[9] = y[2] /\ HwTestOld[10] = y[3]
       /\ HwTestOld[11] = r[1] /\ HwTestOld[12] = r[2]
  <2>1. 1 \in 1 .. 1 /\ 1 \in 1 .. 3 /\ 2 \in 1 .. 3 /\ 3 \in 1 .. 3
        /\ 1 \in 1 .. 2 /\ 2 \in 1 .. 2
    OBVIOUS
  <2>2. HwTestOld[1] = p[1] /\ HwTestOld[6 + 1] = q[1]
    BY <2>1, <1>10
  <2>3. HwTestOld[7 + 1] = y[1] /\ HwTestOld[7 + 2] = y[2] /\ HwTestOld[7 + 3] = y[3]
    BY <2>1, <1>10
  <2>4. HwTestOld[10 + 1] = r[1] /\ HwTestOld[10 + 2] = r[2]
    BY <2>1, <1>10
  <2>5. /\ 6 + 1 = 7 /\ 7 + 1 = 8 /\ 7 + 2 = 9 /\ 7 + 3 = 10
        /\ 10 + 1 = 11 /\ 10 + 2 = 12
    OBVIOUS
  <2> QED
    BY <2>2, <2>3, <2>4, <2>5
<1>12. \A k \in 1 .. 5 : HwTestOld[1 + k] = Law[k]
  BY <1>2, <1>10
<1>13. /\ y[1] = <<"counter_offset", 464>> /\ y[2] = <<"ivs3_offset", 184>>
       /\ y[3] = <<"zdot_offset", 208>>
  BY <1>4 DEF OlderInputs
<1>14. r[1] = OlderOutput /\ r[2] = <<"enabled", 1>>
  BY <1>5
<1>15. p[1] = <<"enabled", 0>> /\ q[1] = Base
  BY <1>1, <1>3
<1> QED
  BY <1>9, <1>11, <1>12, <1>13, <1>14, <1>15

\* What conf_port stores to the words of region control.
Mild(store) ==
    /\ store[1] = "enabled" => store[2] = 1
    /\ store[1] = "ivs3_offset" => store[2] = 184
    /\ store[1] = "marte_strategy_offset" => store[2] = 0

LEMMA ResetStored ==
    /\ ConfPortReset \in Seq(Stored)
    /\ \A k \in 1 .. Len(ConfPortReset) : Mild(ConfPortReset[k])
<1> DEFINE M == {store \in Stored : Mild(store)}
<1>1. <<"enabled", 1>> \in M
  BY RegisterNames DEF Stored, Values, Mild
<1>2. /\ OlderInputs[1] \in M /\ OlderInputs[2] \in M /\ OlderInputs[3] \in M
  BY RegisterNames DEF Stored, Values, Mild, OlderInputs
<1>3. <<"marte_strategy_offset", 0>> \in M /\ OlderOutput \in M /\ Base \in M
  BY RegisterNames DEF Stored, Values, Mild, OlderOutput, Base
<1>4. Law[1] \in M /\ Law[2] \in M /\ Law[3] \in M /\ Law[4] \in M /\ Law[5] \in M
  BY RegisterNames, LawStores DEF Stored, Values, Mild
<1> HIDE DEF M
<1>5. <<<<"enabled", 1>>>> \in Seq(M)
  BY <1>1
<1>6. OlderInputs \in Seq(M)
  BY <1>2 DEF OlderInputs
<1>7. <<<<"marte_strategy_offset", 0>>, OlderOutput, Base>> \in Seq(M)
  BY <1>3
<1>8. Law \in Seq(M)
  BY <1>4 DEF Law
<1>9. ConfPortReset \in Seq(M)
  BY <1>5, <1>6, <1>7, <1>8, ConcatProperties DEF ConfPortReset
<1>10. /\ \A k \in 1 .. Len(ConfPortReset) : ConfPortReset[k] \in M
       /\ Len(ConfPortReset) \in Nat /\ DOMAIN ConfPortReset = 1 .. Len(ConfPortReset)
       /\ ConfPortReset = [k \in 1 .. Len(ConfPortReset) |-> ConfPortReset[k]]
  BY <1>9
<1> QED
  BY <1>10 DEF M

(***************************************************************************)
(* A test's list: it disables the module first and enables it last, and    *)
(* between the two writes no register twice.                               *)
(***************************************************************************)
DisablesFirst(s) ==
    /\ s \in Seq(Stored) /\ Len(s) > 1
    /\ s[1] = <<"enabled", 0>> /\ s[Len(s)] = <<"enabled", 1>>
    /\ \A k \in 2 .. Len(s) - 1 : s[k][1] # "enabled"
    /\ \A j, k \in 2 .. Len(s) - 1 : s[j][1] = s[k][1] => j = k
-----------------------------------------------------------------------------
(***************************************************************************)
(* The inductive invariant: while a test is at work the module is          *)
(* disabled and what the test has stored so far is still there, so that    *)
(* its last store, which enables, finds the whole configuration.           *)
(***************************************************************************)
TestTools == {"hw_test", "hw_test_new"}

ToolInv ==
    /\ DOMAIN reg = Registers
    /\ tool \in Tools \cup {"none"} /\ step \in Nat
    /\ tool # "none" => step <= Len(Stores(tool))
    /\ EnabledIsConfigured
    /\ tool \in TestTools /\ step > 0 =>
           /\ reg["enabled"] = IF Done THEN 1 ELSE 0
           /\ \A k \in 2 .. step : Holds(Stores(tool)[k])

\* conf_port's stores leave three values in the words of region control.
RegionInv ==
    /\ DOMAIN regions = Registers
    /\ regions["enabled"] \in {0, 1}
    /\ regions["ivs3_offset"] \in {0, 184}
    /\ regions["marte_strategy_offset"] = 0


LEMMA NewTestProper == DisablesFirst(HwTestNew)
<1> DEFINE names == <<"enabled", "Af_val", "Bf_val", "Cf_val", "Df_val", "gain_val",
                      "shared_page_base", "counter_offset", "ivs3_offset",
                      "zdot_offset", "safe_control_output_offset",
                      "marte_strategy_offset", "enabled">>
<1>1. /\ HwTestNew[2][1] = "Af_val" /\ HwTestNew[3][1] = "Bf_val"
      /\ HwTestNew[4][1] = "Cf_val" /\ HwTestNew[5][1] = "Df_val"
      /\ HwTestNew[6][1] = "gain_val"
  <2>1. 1 \in 1 .. 5 /\ 2 \in 1 .. 5 /\ 3 \in 1 .. 5 /\ 4 \in 1 .. 5 /\ 5 \in 1 .. 5
    OBVIOUS
  <2>2. /\ HwTestNew[1 + 1] = Law[1] /\ HwTestNew[1 + 2] = Law[2]
        /\ HwTestNew[1 + 3] = Law[3] /\ HwTestNew[1 + 4] = Law[4]
        /\ HwTestNew[1 + 5] = Law[5]
    BY <2>1, NewTestStores
  <2>3. 1 + 1 = 2 /\ 1 + 2 = 3 /\ 1 + 3 = 4 /\ 1 + 4 = 5 /\ 1 + 5 = 6
    OBVIOUS
  <2> QED
    BY <2>2, <2>3, LawStores
<1>2. ASSUME NEW k \in 1 .. 13
      PROVE  HwTestNew[k][1] = names[k]
  <2>1. CASE k \in 1 .. 6
    BY <2>1, <1>1, NewTestStores
  <2>2. CASE k \in 7 .. 13
    BY <2>2, NewTestStores DEF Base
  <2> QED
    BY <2>1, <2>2
<1>3. \A k \in 2 .. 12 : names[k] # "enabled"
  OBVIOUS
<1>4. \A j, k \in 2 .. 12 : names[j] = names[k] => j = k
  OBVIOUS
<1> HIDE DEF names
<1>5. /\ \A k \in 2 .. 12 : HwTestNew[k][1] # "enabled"
      /\ \A j, k \in 2 .. 12 : HwTestNew[j][1] = HwTestNew[k][1] => j = k
  BY <1>2, <1>3, <1>4
<1> QED
  BY <1>5, NewTestStores DEF DisablesFirst

LEMMA OldTestProper == DisablesFirst(HwTestOld)
<1> DEFINE names == <<"enabled", "Af_val", "Bf_val", "Cf_val", "Df_val", "gain_val",
                      "shared_page_base", "counter_offset", "ivs3_offset",
                      "zdot_offset", "safe_control_output_offset", "enabled">>
<1>1. /\ HwTestOld[2][1] = "Af_val" /\ HwTestOld[3][1] = "Bf_val"
      /\ HwTestOld[4][1] = "Cf_val" /\ HwTestOld[5][1] = "Df_val"
      /\ HwTestOld[6][1] = "gain_val"
  <2>1. 1 \in 1 .. 5 /\ 2 \in 1 .. 5 /\ 3 \in 1 .. 5 /\ 4 \in 1 .. 5 /\ 5 \in 1 .. 5
    OBVIOUS
  <2>2. /\ HwTestOld[1 + 1] = Law[1] /\ HwTestOld[1 + 2] = Law[2]
        /\ HwTestOld[1 + 3] = Law[3] /\ HwTestOld[1 + 4] = Law[4]
        /\ HwTestOld[1 + 5] = Law[5]
    BY <2>1, OldTestStores
  <2>3. 1 + 1 = 2 /\ 1 + 2 = 3 /\ 1 + 3 = 4 /\ 1 + 4 = 5 /\ 1 + 5 = 6
    OBVIOUS
  <2> QED
    BY <2>2, <2>3, LawStores
<1>2. ASSUME NEW k \in 1 .. 12
      PROVE  HwTestOld[k][1] = names[k]
  <2>1. CASE k \in 1 .. 6
    BY <2>1, <1>1, OldTestStores
  <2>2. CASE k \in 7 .. 12
    BY <2>2, OldTestStores DEF Base, OlderOutput
  <2> QED
    BY <2>1, <2>2
<1>3. \A k \in 2 .. 11 : names[k] # "enabled"
  OBVIOUS
<1>4. \A j, k \in 2 .. 11 : names[j] = names[k] => j = k
  OBVIOUS
<1> HIDE DEF names
<1>5. /\ \A k \in 2 .. 11 : HwTestOld[k][1] # "enabled"
      /\ \A j, k \in 2 .. 11 : HwTestOld[j][1] = HwTestOld[k][1] => j = k
  BY <1>2, <1>3, <1>4
<1> QED
  BY <1>5, OldTestStores DEF DisablesFirst

LEMMA TestsProper == \A t \in TestTools : DisablesFirst(Stores(t))
BY NewTestProper, OldTestProper DEF TestTools, Stores

\* A store of a test, as it changes the registers.
LEMMA StoredTo ==
    ASSUME NEW port, DOMAIN port = Registers, NEW store \in Stored
    PROVE  /\ DOMAIN StoreTo(port, store) = Registers
           /\ StoreTo(port, store)[store[1]] = store[2]
           /\ \A r \in Registers \ {store[1]} : StoreTo(port, store)[r] = port[r]
<1>1. store[1] \in Registers
  BY DEF Stored
<1> QED
  BY <1>1 DEF StoreTo

LEMMA ToolInvInit == Init => ToolInv
<1> SUFFICES ASSUME Init PROVE ToolInv
  OBVIOUS
<1>1. "enabled" \in Registers
  BY RegisterNames
<1>2. reg["enabled"] = 0
  BY <1>1 DEF Init
<1> QED
  BY <1>2 DEF Init, ToolInv, EnabledIsConfigured, TestTools

\* A test's store: while the test is at work the module is disabled, and its
\* last store enables it with everything written.
LEMMA TestStores ==
    ASSUME ToolInv, Store, tool \in TestTools
    PROVE  ToolInv'
<1> DEFINE s == Stores(tool)
           store == s[step + 1]
<1>1. DisablesFirst(s)
  BY TestsProper
<1>2. tool # "conf_port"
  BY DEF TestTools
<1>3. /\ step \in Nat /\ step <= Len(s) /\ step # Len(s)
      /\ step' = step + 1 /\ tool' = tool
      /\ reg' = StoreTo(reg, store)
      /\ DOMAIN reg = Registers
  BY <1>2 DEF ToolInv, Store, Done
<1>4. Stores(tool') = s
  BY <1>3
<1> HIDE DEF s
<1>5. /\ s \in Seq(Stored) /\ Len(s) \in Nat /\ Len(s) > 1
      /\ s[1] = <<"enabled", 0>> /\ s[Len(s)] = <<"enabled", 1>>
      /\ \A k \in 2 .. Len(s) - 1 : s[k][1] # "enabled"
      /\ \A j, k \in 2 .. Len(s) - 1 : s[j][1] = s[k][1] => j = k
  BY <1>1 DEF DisablesFirst
<1>6. step + 1 \in 1 .. Len(s) /\ store \in Stored
  BY <1>3, <1>5
<1>7. \A k \in 1 .. Len(s) : s[k] \in Stored /\ s[k][1] \in Registers
  BY <1>5 DEF Stored
<1>8. /\ DOMAIN reg' = Registers /\ reg'[store[1]] = store[2]
      /\ \A r \in Registers \ {store[1]} : reg'[r] = reg[r]
  BY <1>3, <1>6, StoredTo
<1>9. step > 0 => /\ reg["enabled"] = 0
                  /\ \A k \in 2 .. step : Holds(s[k])
  BY <1>3 DEF ToolInv, Done, s
<1>10. "enabled" \in Registers
  BY RegisterNames
<1>11. reg'["enabled"] = IF step + 1 = Len(s) THEN 1 ELSE 0
  <2>1. CASE step = 0
    BY <2>1, <1>5, <1>8
  <2>2. CASE step > 0 /\ step + 1 < Len(s)
    <3>1. store[1] # "enabled"
      BY <2>2, <1>3, <1>5
    <3> QED
      BY <3>1, <2>2, <1>3, <1>5, <1>8, <1>9, <1>10
  <2>3. CASE step + 1 = Len(s)
    BY <2>3, <1>5, <1>8
  <2> QED
    BY <2>1, <2>2, <2>3, <1>3, <1>5
<1>12. \A k \in 2 .. step + 1 : reg'[s[k][1]] = s[k][2]
  <2> SUFFICES ASSUME NEW k \in 2 .. step + 1
               PROVE  reg'[s[k][1]] = s[k][2]
    OBVIOUS
  <2>1. CASE k = step + 1
    BY <2>1, <1>8
  <2>2. CASE k < step + 1
    <3>1. k \in 2 .. step /\ step > 0 /\ k \in 2 .. Len(s) - 1 /\ k \in 1 .. Len(s)
      BY <2>2, <1>3, <1>5
    <3>2. reg[s[k][1]] = s[k][2]
      BY <3>1, <1>9 DEF Holds
    <3>3. store[1] # s[k][1]
      <4>1. CASE step + 1 = Len(s)
        BY <4>1, <3>1, <1>5
      <4>2. CASE step + 1 # Len(s)
        <5>1. step + 1 \in 2 .. Len(s) - 1
          BY <4>2, <3>1, <1>3, <1>5
        <5> QED
          BY <5>1, <3>1, <2>2, <1>3, <1>5
      <4> QED
        BY <4>1, <4>2
    <3> QED
      BY <3>1, <3>2, <3>3, <1>7, <1>8
  <2> QED
    BY <2>1, <2>2, <1>3
<1>13. \A k \in 2 .. step' : reg'[Stores(tool')[k][1]] = Stores(tool')[k][2]
  BY <1>12, <1>3, <1>4
<1>14. EnabledIsConfigured'
  <2> SUFFICES ASSUME reg'["enabled"] = 1
               PROVE  \E t \in {"hw_test", "hw_test_new"} :
                          \A k \in 2 .. Len(Stores(t)) : reg'[Stores(t)[k][1]] = Stores(t)[k][2]
    BY DEF EnabledIsConfigured, Holds
  <2>1. step + 1 = Len(s)
    BY <1>11
  <2>2. \A k \in 2 .. Len(Stores(tool)) : reg'[Stores(tool)[k][1]] = Stores(tool)[k][2]
    BY <2>1, <1>12 DEF s
  <2> QED
    BY <2>2 DEF TestTools
<1>15. tool' \in Tools \cup {"none"} /\ step' \in Nat /\ step' <= Len(Stores(tool'))
  BY <1>3, <1>4, <1>5 DEF ToolInv
<1>16. Done' <=> step + 1 = Len(s)
  BY <1>3, <1>4 DEF Done
<1> QED
  BY <1>8, <1>11, <1>13, <1>14, <1>15, <1>16 DEF ToolInv, Holds

\* conf_port stores to another address.
LEMMA ResetStores ==
    ASSUME ToolInv, Store, tool \notin TestTools
    PROVE  ToolInv'
<1>1. tool = "conf_port" /\ reg' = reg /\ tool' = tool /\ step' = step + 1
  BY DEF ToolInv, Store, TestTools
<1>2. Stores("conf_port") \in Seq(Stored)
  BY ResetStored DEF Stores
<1>3. step' \in Nat /\ step' <= Len(Stores(tool'))
  BY <1>1, <1>2 DEF ToolInv, Store, Done
<1>4. EnabledIsConfigured'
  BY <1>1 DEF ToolInv, EnabledIsConfigured, Holds
<1> QED
  BY <1>1, <1>3, <1>4 DEF ToolInv, TestTools

LEMMA ToolInvNext == ToolInv /\ [Next]_vars => ToolInv'
<1> SUFFICES ASSUME ToolInv, [Next]_vars
             PROVE  ToolInv'
  OBVIOUS
<1>1. CASE Run
  <2>1. tool' \in Tools /\ step' = 0 /\ reg' = reg
    BY <1>1 DEF Run
  <2>2. Len(Stores(tool')) \in Nat
    BY <2>1, TestsProper, ResetStored DEF DisablesFirst, TestTools, Stores
  <2>3. EnabledIsConfigured'
    BY <2>1 DEF ToolInv, EnabledIsConfigured, Holds
  <2> QED
    BY <2>1, <2>2, <2>3 DEF ToolInv
<1>2. CASE Store
  BY <1>2, TestStores, ResetStores
<1>3. CASE End \/ Kill
  <2>1. tool' = "none" /\ step' = 0 /\ reg' = reg
    BY <1>3 DEF End, Kill
  <2>2. EnabledIsConfigured'
    BY <2>1 DEF ToolInv, EnabledIsConfigured, Holds
  <2> QED
    BY <2>1, <2>2 DEF ToolInv, TestTools
<1>4. CASE ExitHandler
  <2>1. tool' = "none" /\ step' = 0 /\ reg' = [reg EXCEPT !["enabled"] = 0]
    BY <1>4 DEF ExitHandler
  <2>2. DOMAIN reg' = Registers /\ reg'["enabled"] = 0
    BY <2>1, RegisterNames DEF ToolInv
  <2>3. EnabledIsConfigured'
    BY <2>2 DEF EnabledIsConfigured
  <2> QED
    BY <2>1, <2>2, <2>3 DEF ToolInv, TestTools
<1>5. CASE UNCHANGED vars
  BY <1>5 DEF vars, ToolInv, EnabledIsConfigured, Holds, Done
<1> QED
  BY <1>1, <1>2, <1>3, <1>4, <1>5 DEF Next

\* Wherever the tools before were killed, an enabled module has a whole
\* configuration, of one of the two tests (hw_test.c, hw_test_new/hw_test.c).
THEOREM NeverHalfConfigured == Spec => []EnabledIsConfigured
<1>1. ToolInv => EnabledIsConfigured
  BY DEF ToolInv
<1> QED
  BY <1>1, ToolInvInit, ToolInvNext, PTL DEF Spec

\* Whatever the tools before have left, the FPGA under the new test uses the
\* addresses the comments of shared_page.h give (hw_test_new/hw_test.c).
THEOREM AddressesAreThePages == Spec => []TestedAddresses
<1>1. ToolInv => TestedAddresses
  <2> SUFFICES ASSUME ToolInv, tool = "hw_test_new", reg["enabled"] = 1, step > 1
               PROVE  /\ reg["ivs3_offset"] = 184 /\ reg["zdot_offset"] = 208
                      /\ reg["counter_offset"] = 465
                      /\ reg["marte_strategy_offset"] = 466
                      /\ reg["safe_control_output_offset"] = 480
    BY DEF TestedAddresses
  <2>1. Stores(tool) = HwTestNew
    BY DEF Stores
  <2>2. /\ reg["enabled"] = IF step = Len(HwTestNew) THEN 1 ELSE 0
        /\ \A k \in 2 .. step : Holds(HwTestNew[k])
    BY <2>1 DEF ToolInv, TestTools, Done
  <2>3. step = 13
    BY <2>2, NewTestStores
  <2>4. /\ Holds(HwTestNew[8]) /\ Holds(HwTestNew[9]) /\ Holds(HwTestNew[10])
        /\ Holds(HwTestNew[11]) /\ Holds(HwTestNew[12])
    BY <2>2, <2>3
  <2> QED
    BY <2>4, NewTestStores DEF Holds
<1> QED
  BY <1>1, ToolInvInit, ToolInvNext, PTL DEF Spec

LEMMA RegionInvInit == Init => RegionInv
BY RegisterNames DEF Init, RegionInv

LEMMA RegionInvNext == ToolInv /\ RegionInv /\ [Next]_vars => RegionInv'
<1> SUFFICES ASSUME ToolInv, RegionInv, [Next]_vars
             PROVE  RegionInv'
  OBVIOUS
<1>1. CASE Store /\ tool = "conf_port"
  <2> DEFINE store == ConfPortReset[step + 1]
  <2>1. /\ step \in Nat /\ step <= Len(ConfPortReset) /\ step # Len(ConfPortReset)
        /\ regions' = StoreTo(regions, store)
    BY <1>1 DEF ToolInv, Store, Done, Stores
  <2>2. step + 1 \in 1 .. Len(ConfPortReset)
    BY <2>1, ResetStored
  <2>3. store \in Stored /\ Mild(store)
    BY <2>2, ResetStored
  <2> HIDE DEF store
  <2>4. /\ DOMAIN regions' = Registers /\ regions'[store[1]] = store[2]
        /\ \A r \in Registers \ {store[1]} : regions'[r] = regions[r]
    BY <2>1, <2>3, StoredTo DEF RegionInv
  <2> QED
    BY <2>3, <2>4, RegisterNames DEF RegionInv, Mild
<1>2. CASE UNCHANGED regions
  BY <1>2 DEF RegionInv
<1>3. (Store /\ tool = "conf_port") \/ UNCHANGED regions
  BY DEF Next, vars, Run, Store, End, ExitHandler, Kill
<1> QED
  BY <1>1, <1>2, <1>3

\* What conf_port stores where the controls of the regions are shuts none of
\* them down, however often it runs and wherever it is killed (conf_port.c:31).
THEOREM NoShutdown == Spec => []RegionsStayUp
<1>1. RegionInv => RegionsStayUp
  <2> SUFFICES ASSUME RegionInv, NEW r \in Registers,
                      Offset(classic_vs_pl_conf_port, r) \in {0, 4, 8}
               PROVE  ~Shutdown(regions[r])
    BY DEF RegionsStayUp
  <2>1. regions[r] \in {0, 1, 184}
    BY PortOffsets DEF RegionInv
  <2> QED
    BY <2>1 DEF Shutdown
<1>2. ToolInv /\ RegionInv /\ [Next]_vars => (ToolInv /\ RegionInv)'
  BY ToolInvNext, RegionInvNext
<1> QED
  BY <1>1, <1>2, ToolInvInit, RegionInvInit, PTL DEF Spec
=============================================================================
