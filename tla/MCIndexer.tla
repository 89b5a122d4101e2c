------------------------------ MODULE MCIndexer ------------------------------
(* Finite values for the constants of Indexer. *)
EXTENDS Indexer

CONSTANTS m1, m2

OneMarket == {m1}
TwoMarkets == {m1, m2}

=============================================================================
