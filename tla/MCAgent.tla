------------------------------ MODULE MCAgent -------------------------------
(* Instances of Agent for TLC.                                             *)
EXTENDS Agent

CONSTANTS j1, j2, t1, t2, t3

(* t1 and t2 are discovered in one group, t3 in another.                   *)
MCGroupOf == [t \in Targets |-> IF t = t3 THEN "b" ELSE "a"]
=============================================================================
