---------------------------- MODULE MCBlockQuery ----------------------------
(***************************************************************************)
(* Files of five profiles of three series, in two row groups whose pages   *)
(* differ between the columns, so that one column can be whole pages ahead *)
(* of the other.  In one file both row groups have profiles of series 0.   *)
(* Samples of a profile span up to three reads of two values; one profile  *)
(* has none.                                                               *)
(***************************************************************************)
EXTENDS BlockQuery

row(s, t) == [c \in Cols |-> IF c = "SeriesIndex" THEN s ELSE t]
group(s, t) == [pages |-> [c \in Cols |-> IF c = "SeriesIndex" THEN s ELSE t]]
sample(i, x) == [id |-> i, v |-> x]

MCRows == <<row(0, 2), row(0, 4), row(1, 1), row(1, 2), row(2, 3)>>
MCShared == <<row(0, 2), row(1, 1), row(1, 2), row(0, 4), row(2, 3)>>

MCSamples ==
  << <<sample(0, 3)>>,
     <<sample(0, 1), sample(1, 2), sample(4, 4)>>,
     <<sample(1, 5), sample(3, 0)>>,
     <<>>,
     <<sample(0, 1), sample(1, 1), sample(2, 1), sample(3, 1), sample(1, 2)>> >>

threeAndTwo ==
  [groups |-> <<group(<<3>>, <<1, 2>>), group(<<1, 1>>, <<2>>)>>, sampled |-> <<<<3>>, <<2>>>>]
twoAndThree ==
  [groups |-> <<group(<<1, 1>>, <<2>>), group(<<2, 1>>, <<1, 2>>)>>,
   sampled |-> <<<<1, 1>>, <<2, 1>>>>]

table(rows, layout) ==
  [rows |-> rows, groups |-> layout.groups, by |-> <<"a", "b", "a">>,
   samples |-> [vals |-> MCSamples, groups |-> layout.sampled]]
MCFiles == {table(MCRows, threeAndTwo), table(MCRows, twoAndThree), table(MCShared, threeAndTwo)}

MCRequests ==
  {[series |-> s, start |-> 2, end |-> 3] : s \in {{1}, {0, 2}, {0, 1, 2}}}
  \cup {[series |-> s, start |-> 1, end |-> 4] : s \in {{}, {1}, {0, 1, 2}}}

(* Location 2 has the lines of an inlined call, location 3 none, and       *)
(* stacktrace 4 no locations.                                              *)
MCSymbols ==
  [locations |-> <<<<1>>, <<2>>, <<1, 2>>, <<>>>>,
   functions |-> <<7, 5>>,
   stacktraces |-> [vals |-> <<<<0>>, <<1, 0, 1>>, <<2, 0>>, <<0, 3>>, <<>>>>,
                    groups |-> <<<<2, 1>>, <<2>>>>]]
=============================================================================
