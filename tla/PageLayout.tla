----------------------------- MODULE PageLayout -----------------------------
(***************************************************************************)
(* The shared page as the C compiler lays it out: the members of a struct  *)
(* one after the other, each aligned to the size of its elements.          *)
(***************************************************************************)
EXTENDS Integers, Sequences

Member(name, size, count) == [name |-> name, size |-> size, count |-> count]

shared_page ==
    <<Member("pf_voltage", 8, 11), Member("vs3", 8, 1), Member("pf_currents", 8, 11),
      Member("ivs3", 8, 1), Member("ip", 8, 1), Member("zc", 8, 1),
      Member("zdot", 8, 1), Member("gaps", 8, 29), Member("Xpoints", 8, 2),
      Member("oracle_decision", 1, 1), Member("input_counter", 1, 1),
      Member("marte_strategy", 1, 1), Member("output_counter", 1, 1),
      Member("reserved", 4, 1), Member("es_output", 8, 1),
      Member("classic_output", 8, 1), Member("vs3_ref", 8, 1)>>

Align(n, size) == ((n + size - 1) \div size) * size

Placed(struct) ==
    LET start[k \in DOMAIN struct] ==
            IF k = 1 THEN 0
            ELSE Align(start[k - 1] + struct[k - 1].size * struct[k - 1].count,
                       struct[k].size)
    IN  start

Offset(struct, name) ==
    Placed(struct)[CHOOSE k \in DOMAIN struct : struct[k].name = name]
=============================================================================
