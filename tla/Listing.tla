-------------------------------- MODULE Listing --------------------------------
(* The members of a set, and the rows of a table, in an order, in terms the     *)
(* prover can expand.                                                          *)
EXTENDS Integers, FiniteSets

\* The members of S, each after those before it (ORDER BY a key of its own).
InOrder(S, Before(_, _)) ==
  [k \in 1..Cardinality(S) |-> CHOOSE x \in S : Cardinality({y \in S : Before(y, x)}) = k - 1]
\* The rows that satisfy P, in their order (SelectSeq).
Where(rows, P(_)) ==
  LET at == InOrder({i \in DOMAIN rows : P(rows[i])}, <) IN [k \in DOMAIN at |-> rows[at[k]]]
===============================================================================
