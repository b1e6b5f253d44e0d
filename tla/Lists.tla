------------------------------- MODULE Lists --------------------------------
(***************************************************************************)
(* Array.filter and ORDER BY for the modules of the browser.  Both are      *)
(* said without recursion, so that the provers can reason about them: a     *)
(* filter by the positions it keeps, a sorted list by rank.                 *)
(***************************************************************************)
EXTENDS Integers, Sequences, FiniteSets

\* The k-th smallest number of S.
Rank(S, i) == Cardinality({j \in S : j <= i})
Nth(S, k)  == CHOOSE i \in S : Rank(S, i) = k

\* The elements of s at the positions I, in their order.
Keep(s, I) == [k \in 1 .. Cardinality(I) |-> s[Nth(I, k)]]

\* The numbers of S, the greatest first.
Descending(S) ==
    [k \in 1 .. Cardinality(S) |-> Nth(S, Cardinality(S) + 1 - k)]
=============================================================================
