--------------------------- MODULE MCMergeStream ----------------------------
(***************************************************************************)
(* MergeStream with one initial state for those that differ only in what   *)
(* the ingesters are called, and with no profile that nobody has.          *)
(***************************************************************************)
EXTENDS MergeStream

Weight(i) == Cardinality(stores[i].head) * (Cardinality(Profiles) + 1) + Cardinality(stores[i].blocks)

MCInit ==
    /\ Init
    /\ UNION {Held(i) : i \in Ingesters} = Profiles
    /\ Weight("a") <= Weight("b")

MCSpec == MCInit /\ [][Next]_vars /\ WF_vars(Client) /\ \A i \in Ingesters : WF_vars(Server(i))
=============================================================================
