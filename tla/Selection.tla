------------------------------ MODULE Selection ------------------------------
(***************************************************************************)
(* What is left of a sequence when only some of its places are kept.       *)
(***************************************************************************)
EXTENDS Naturals, Sequences, FiniteSets

\* The k-th smallest number of a set.
Nth(S, k) == CHOOSE i \in S : Cardinality({j \in S : j <= i}) = k

\* The elements of a sequence at the places of a set, in their order.
Pick(seq, S) == [k \in 1..Cardinality(S) |-> seq[Nth(S, k)]]

=============================================================================
