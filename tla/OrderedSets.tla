----------------------------- MODULE OrderedSets -----------------------------
(***************************************************************************)
(* Sorting and adding up, as JavaScript's sort and reduce do it, in a form *)
(* that can be reasoned about: an element is found by the number of those  *)
(* before it instead of by a permutation, a sum is a recursive function.   *)
(***************************************************************************)
EXTENDS Integers, Sequences, FiniteSets

\* The numbers of S from the least to the greatest.
Ascending(S) ==
  [i \in 1..Cardinality(S) |-> CHOOSE n \in S : Cardinality({m \in S : m < n}) = i - 1]

\* The elements of S in the order R, which holds the pairs of one before another.
RankedBy(R, S) ==
  [k \in 1..Cardinality(S) |-> CHOOSE n \in S : Cardinality({m \in S : <<m, n>> \in R}) = k - 1]

\* The elements of a sequence at some of its indices.
Picked(seq, indices) ==
  LET order == Ascending(indices) IN [k \in DOMAIN order |-> seq[order[k]]]

\* A sequence sorted so that what is at i comes before what is at j if <<i, j>> is
\* in before; what is equal stays in its order.
StableOrder(before, indices) ==
  {p \in indices \X indices :
     p \in before \/ (<<p[2], p[1]>> \notin before /\ p[1] < p[2])}

StableSort(seq, before) ==
  LET order == RankedBy(StableOrder(before, DOMAIN seq), DOMAIN seq)
  IN  [k \in DOMAIN seq |-> seq[order[k]]]

\* The sum of f[n] for the numbers n of S.
SumOver(f, S) ==
  LET order == Ascending(S)
      upTo[i \in 0..Len(order)] == IF i = 0 THEN 0 ELSE upTo[i - 1] + f[order[i]]
  IN  upTo[Len(order)]
=============================================================================
