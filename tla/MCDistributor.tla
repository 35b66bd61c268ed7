--------------------------- MODULE MCDistributor ----------------------------
(* A ring of three ingesters with replication factor 3.  The ring leaves   *)
(* out unhealthy ingesters: two replicas then remain, which both have to   *)
(* succeed.                                                                *)
EXTENDS Distributor

CONSTANTS i1, i2, i3

MCIngesters == {i1, i2, i3}

MCReplicationSets ==
    {[instances |-> {i1, i2, i3}, maxErrors |-> 1],
     [instances |-> {i2, i3}, maxErrors |-> 0]}
=============================================================================
