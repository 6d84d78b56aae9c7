--------------------------- MODULE MCQueryIterator --------------------------
(***************************************************************************)
(* QueryIterator for TLC: a query with up to MaxRecords records and others *)
(* without records that compete with it for the gate, or several with one  *)
(* record each.                                                            *)
(***************************************************************************)
EXTENDS QueryIterator

CONSTANT q1

MCTotals ==
    {f \in [Iters -> 0 .. MaxRecords] : \A i \in Iters \ {q1} : f[i] = 0}
    \cup {[i \in Iters |-> 1]}

=============================================================================
