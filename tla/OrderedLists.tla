---------------------------- MODULE OrderedLists ----------------------------
(***************************************************************************)
(* The elements of a map or a list that stand at some keys or positions,   *)
(* in their order: what an ordered map gives when it is walked through,    *)
(* and what is left of an array when elements are taken out of it.         *)
(***************************************************************************)
EXTENDS Naturals, FiniteSets

\* The ascending lists of the numbers D.
Ascending(D) ==
    {s \in [1 .. Cardinality(D) -> D] :
        /\ \A k \in D : \E i \in 1 .. Cardinality(D) : s[i] = k
        /\ \A i, j \in 1 .. Cardinality(D) : i < j => s[i] < s[j]}

AscendingList(D) == CHOOSE s \in Ascending(D) : TRUE

Only(map, D) == [i \in 1 .. Cardinality(D) |-> map[AscendingList(D)[i]]]
=============================================================================
