---------------------------- MODULE Subsequences ----------------------------
(***************************************************************************)
(* The elements of a sequence at chosen positions, in their order: what a  *)
(* filtering comprehension of the programs returns.  SelectSeq by another  *)
(* name, with the positions it keeps as a set, so that it can be reasoned  *)
(* about without recursion.                                                *)
(***************************************************************************)
EXTENDS Naturals, Sequences, FiniteSets

Increasing(g) == \A m, n \in DOMAIN g : m < n => g[m] < g[n]

\* The members of I in ascending order.
Ascending(I) == CHOOSE g \in [1..Cardinality(I) -> I] : Increasing(g)

Picked(s, I) == LET g == Ascending(I) IN [n \in 1..Cardinality(I) |-> s[g[n]]]
=============================================================================
