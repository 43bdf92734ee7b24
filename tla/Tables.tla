------------------------------- MODULE Tables -------------------------------
(* Tables of naturals (Python dicts of counters) and their sum.            *)
EXTENDS Integers, FiniteSets

(* One pair per key and unit held, so that the sum of a table is the       *)
(* cardinality of a set: a form the provers can reason about.              *)
Units(table) == UNION {{r} \X (1..table[r]) : r \in DOMAIN table}
Total(table) == Cardinality(Units(table))

(* table.pop(r) and table[r] = n.                                          *)
Without(table, r) == [q \in DOMAIN table \ {r} |-> table[q]]

With(table, r, n) == [q \in DOMAIN table \cup {r} |-> IF q = r THEN n ELSE table[q]]
=============================================================================
