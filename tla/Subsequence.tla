----------------------------- MODULE Subsequence -----------------------------
(***************************************************************************)
(* The part of a sequence at a set of positions, in order: what is left of *)
(* a std::list when the other nodes have been erased.  It is defined by    *)
(* the rank of a position among those kept and not by recursion (as        *)
(* SelectSeq is), so that proofs can reason about it.                      *)
(***************************************************************************)
EXTENDS Integers, Sequences, FiniteSets

Rank(D, i) == Cardinality({j \in D : j <= i})

\* The k-th position of D.
Nth(D, k) == CHOOSE i \in D : Rank(D, i) = k

Keep(s, D) == [k \in 1..Cardinality(D) |-> s[Nth(D, k)]]
=============================================================================
