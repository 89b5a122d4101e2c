------------------------------ MODULE MCStores ------------------------------
(* A finite instance of Stores for TLC. *)
EXTENDS Stores

MCHashes == {"h1", "h2", "h3"}
MCMarketIdOf == [h \in MCHashes |-> CASE h = "h1" -> 1 [] h = "h2" -> 2 [] h = "h3" -> 3]
\* An address in the two spellings callers use: the checksum and lower case.
MCAddressOf == [h \in MCHashes |-> CASE h = "h1" -> {"0xA1", "0xa1"} [] h = "h2" -> {"0xa2"} [] h = "h3" -> {"0xa3"}]
MCAddresses == UNION {MCAddressOf[h] : h \in MCHashes}
MCLower == [a \in MCAddresses |-> IF a = "0xA1" THEN "0xa1" ELSE a]
MCMaxCalls == [s \in Subjects |-> IF s \in {"markets", "chainState", "checkpoints"} THEN 3 ELSE 4]

Log(tx, index, block, id, hash) ==
    [transactionHash |-> tx, logIndex |-> index, blockNumber |-> block, chainMarketId |-> id, rulesHash |-> hash]
\* Two logs of a block, the first of them twice, and again in a later block
\* after a reorganisation.
MCEventBatches ==
    {<<>>, <<Log("t1", 0, 1, 1, "h1")>>, <<Log("t2", 1, 1, 1, "h1"), Log("t1", 0, 1, 1, "h1")>>,
     <<Log("t1", 0, 2, 1, "h1"), Log("t1", 0, 2, 1, "h1")>>, <<Log("t3", 0, 2, 2, "h2")>>}
=============================================================================
