------------------------------- MODULE MCHead -------------------------------
(***************************************************************************)
(* Four small pprof profiles for Head: they share names and functions      *)
(* under different ids, two have a cumulative series in common, and two    *)
(* have the same series at different times.                                *)
(***************************************************************************)
EXTENDS Head, TLC

CONSTANTS c1, c2

To(t, i) == [to |-> t, id |-> i]

El(i, v, refs) == [id |-> i, val |-> v, refs |-> refs]

Strings(vs) == [i \in 1..Len(vs) |-> El(i - 1, vs[i], <<>>)]

(* main and a call of f from it, with a mapping; series 1 and 2.           *)
HeapProfile ==
    [tables |->
       [strings     |-> Strings(<<"", "main", "f", "bin">>),
        mappings    |-> << El(1, "m", << To("strings", 3) >>) >>,
        functions   |-> << El(1, "fn", << To("strings", 1) >>),
                           El(2, "fn", << To("strings", 2) >>) >>,
        locations   |-> << El(1, "0x1", << To("mappings", 1), To("functions", 1) >>),
                           El(2, "0x2", << To("mappings", 1), To("functions", 2) >>) >>,
        stacktraces |-> << El(0, "st", << To("locations", 1) >>),
                           El(1, "st", << To("locations", 2), To("locations", 1) >>) >>],
     series |-> <<1, 2>>, time |-> 2, dropFrames |-> 0, defaultSampleType |-> 1]

(* g alone, in another order of ids, with the mapping of ensureHasMapping; *)
(* series 1.                                                               *)
PlainProfile ==
    [tables |->
       [strings     |-> Strings(<<"", "g", "main">>),
        mappings    |-> << El(1, "fake", << To("strings", 0) >>) >>,
        functions   |-> << El(1, "fn", << To("strings", 1) >>),
                           El(2, "fn", << To("strings", 2) >>) >>,
        locations   |-> << El(1, "0x3", << To("mappings", 1), To("functions", 1) >>) >>,
        stacktraces |-> << El(0, "st", << To("locations", 1) >>) >>],
     series |-> <<1>>, time |-> 1, dropFrames |-> 2, defaultSampleType |-> 2]

(* main from another binary, inlined in h; series 2, so that the call may  *)
(* have nothing to store.                                                  *)
InlinedProfile ==
    [tables |->
       [strings     |-> Strings(<<"", "h", "lib", "main">>),
        mappings    |-> << El(7, "m", << To("strings", 2) >>) >>,
        functions   |-> << El(4, "fn", << To("strings", 3) >>),
                           El(9, "fn", << To("strings", 1) >>) >>,
        locations   |-> << El(5, "0x1", << To("mappings", 7), To("functions", 4),
                                           To("functions", 9) >>) >>,
        stacktraces |-> << El(0, "st", << To("locations", 5) >>) >>],
     series |-> <<2>>, time |-> 3, dropFrames |-> 1, defaultSampleType |-> 3]

(* Nothing but the empty string: no sample, no type.                       *)
EmptyProfile ==
    [tables |-> [t \in Tables |-> IF t = "strings" THEN Strings(<<"">>) ELSE << >>],
     series |-> <<1>>, time |-> 3, dropFrames |-> 0, defaultSampleType |-> 0]

MCCalls == {c1, c2}
MCProfiles == {HeapProfile, PlainProfile, InlinedProfile, EmptyProfile}
MCCumulative == {2}
MCMaxTimestamp == 4
MCSampleSize == 40
Symmetric == Permutations(Calls)
=============================================================================
