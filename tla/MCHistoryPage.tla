--------------------------- MODULE MCHistoryPage ----------------------------
(* HistoryPage with three jobs of one wallet and one of another.            *)
EXTENDS HistoryPage

CONSTANTS w1, w2

TwoWallets == {w1, w2}
OwnerOf == [j \in Jobs |-> IF j = 2 THEN w2 ELSE w1]

\* The slots for calls of loadFirst are alike.
LoadsAlike == Permutations(Loads)

\* Descending is a sort, as the library of sequences defines it.
ASSUME DescendingIsSort ==
    \A S \in SUBSET (1 .. 5) : Descending(S) = SetToSortSeq(S, LAMBDA a, b : a > b)
=============================================================================
