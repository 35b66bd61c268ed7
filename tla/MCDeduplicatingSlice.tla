------------------------ MODULE MCDeduplicatingSlice ------------------------
(* Three values of sizes 0, 1 and 3: the string table always holds "".     *)
EXTENDS DeduplicatingSlice

CONSTANTS p1, p2, p3, empty, a, b

MCIngests == {p1, p2}
MCThree == {p1, p2, p3}
MCKeys == {empty, a, b}
MCSizeOf == [k \in MCKeys |-> CASE k = empty -> 0 [] k = a -> 1 [] k = b -> 3]

El(i, k) == [id |-> i, key |-> k]

(* Batches that overlap in every way: equal, disjoint, contained, with a   *)
(* value twice, with ids that are not positions, and empty.                *)
MCBatches ==
    {<<>>, <<El(3, b)>>, <<El(0, empty), El(1, a)>>, <<El(0, empty), El(1, b)>>,
     <<El(7, b), El(5, a)>>, <<El(0, empty), El(1, a), El(2, a)>>}

MCSmallBatches == {<<El(0, empty), El(1, a)>>, <<El(7, b), El(5, a)>>}
=============================================================================
