---------------------------- MODULE MCSeriesIndex ----------------------------
(* Series over two label names, 4 and 9, with values that lie before,      *)
(* between and after the names in the order of the symbols.  Selectors     *)
(* also ask for a label no series has, 7, and for values no series has.    *)
EXTENDS SeriesIndex

MCAllSeries == {<<<<4, 1>>>>, <<<<4, 2>>, <<9, 5>>>>, <<<<4, 6>>, <<9, 2>>>>,
                <<<<4, 8>>>>, <<<<9, 5>>>>}

MCFP == [s \in MCAllSeries |->
           CASE s = <<<<4, 1>>>> -> 9
             [] s = <<<<4, 2>>, <<9, 5>>>> -> 0
             [] s = <<<<4, 6>>, <<9, 2>>>> -> 6
             [] s = <<<<4, 8>>>> -> 15
             [] s = <<<<9, 5>>>> -> 2]

MCTimes == [s \in MCAllSeries |-> IF s = <<<<4, 1>>>> THEN {3, 5} ELSE {4}]

MCMatchers ==
  LET M(n, t, v, S, p) == [name |-> n, type |-> t, value |-> v, set |-> S, plain |-> p]
  IN {M(n, t, v, {}, FALSE) : n \in {4, 9}, t \in {"=", "!="}, v \in {0, 2, 5}}
       \cup {M(n, t, 0, S, TRUE) : n \in {4, 9}, t \in {"=~", "!~"}, S \in {{1, 6}, {0, 3}}}
       \cup {M(n, t, 0, S, FALSE) : n \in {4, 9}, t \in {"=~", "!~"}, S \in {{2, 5, 8}}}
       \cup {M(7, t, v, {}, FALSE) : t \in {"=", "!="}, v \in {0, 2}}

MCSelectors == {<<m>> : m \in MCMatchers} \cup {<<m, k>> : m \in MCMatchers, k \in MCMatchers}
=============================================================================
