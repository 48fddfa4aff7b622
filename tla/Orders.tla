------------------------------- MODULE Orders -------------------------------
(***************************************************************************)
(* What `sorted' and a filter return.  The r-th of some elements is the    *)
(* one that r - 1 others come before.                                      *)
(***************************************************************************)
EXTENDS Integers, Sequences, FiniteSets

\* The elements of a set by a strict total order.
OrderedBy(S, Before(_, _)) ==
  [r \in 1..Cardinality(S) |->
     CHOOSE x \in S : Cardinality({y \in S : Before(y, x)}) = r - 1]

\* The values of a sequence, equal ones in its order.
Ascending(values) ==
  LET ordered == OrderedBy(DOMAIN values,
                   LAMBDA i, j : values[i] < values[j] \/ (values[i] = values[j] /\ i < j))
  IN  [r \in DOMAIN values |-> values[ordered[r]]]

\* Those of the items that are wanted, in their order.
Picked(items, wanted) ==
  LET upTo[i \in 0..Len(items)] ==
        IF i = 0 THEN <<>>
        ELSE IF items[i] \in wanted THEN Append(upTo[i - 1], items[i])
        ELSE upTo[i - 1]
  IN  upTo[Len(items)]
=============================================================================
