---------------------------- MODULE MCPhlareDB ------------------------------
(* Instances of PhlareDB for TLC.                                          *)
EXTENDS PhlareDB, TLC

CONSTANTS p1, p2

MCProfiles == {p1, p2}
Symmetric == Permutations(MCProfiles)

(* Every push takes the first head; it may be slow to add its profile.     *)
Begun == alive => \A p \in Profiles : ingest[p].pc # "idle"
BegunSpec == Init /\ [][Next /\ (Begun \/ ingest' # ingest)]_vars

(* The profiles are acknowledged before anything else happens.             *)
Loaded == alive => Acknowledged = Profiles
LoadedSpec == Init /\ [][Next /\ (Loaded \/ ingest' # ingest)]_vars /\ Fairness
=============================================================================
