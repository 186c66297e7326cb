----------------------------- MODULE Numbering ------------------------------
(* The members of a finite set of numbers, in order: what `sorted` gives.  *)
EXTENDS Naturals, FiniteSets

\* The k-th of a set of numbers.
Nth(S, k) == CHOOSE i \in S : Cardinality({j \in S : j <= i}) = k
=============================================================================
