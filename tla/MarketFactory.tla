----------------------------- MODULE MarketFactory -----------------------------
(***************************************************************************)
(* The registry of markets (MarketFactory.sol): anybody creates a market   *)
(* for a rules hash nobody used, unless creation is paused.  A clone's     *)
(* address is its id here.  What becomes of a market is ConditionalMarket; *)
(* the roles and the pause switch act on it there.                         *)
(***************************************************************************)
EXTENDS Naturals, Sequences

CONSTANTS
    Creators,       \* wallets that may call the factory
    RulesHashes     \* hashes of specifications

VARIABLES marketById, marketByRulesHash, paused

factoryVars == <<marketById, marketByRulesHash, paused>>

NoMarket == 0

Market == [rulesHash : RulesHashes, creator : Creators]

marketCount == Len(marketById)

FactoryInit ==
    /\ marketById = <<>>
    /\ marketByRulesHash = [h \in RulesHashes |-> NoMarket]
    /\ paused = FALSE

AlwaysUnused(h) == TRUE     \* mutant: a rules hash may be used again

Unused(h) == marketByRulesHash[h] = NoMarket

\* initialize() accepted the parameters; when it does not, the call reverts whole.
CreateMarket(caller, h) ==
    /\ ~paused
    /\ Unused(h)
    /\ marketById' = Append(marketById, [rulesHash |-> h, creator |-> caller])
    /\ marketByRulesHash' = [marketByRulesHash EXCEPT ![h] = marketCount + 1]
    /\ UNCHANGED paused

SetPaused(to) ==
    /\ paused # to
    /\ paused' = to
    /\ UNCHANGED <<marketById, marketByRulesHash>>

FactoryNext ==
    \/ \E caller \in Creators, h \in RulesHashes : CreateMarket(caller, h)
    \/ \E to \in BOOLEAN : SetPaused(to)

FactorySpec == FactoryInit /\ [][FactoryNext]_factoryVars

-----------------------------------------------------------------------------
(* listMarkets(): a page of ids, oldest first; ids start at 1, as does start = 0. *)

PageSize(first, limit) ==
    IF marketCount - first + 1 < limit THEN marketCount - first + 1 ELSE limit

ListMarkets(start, limit) ==
    LET first == IF start = 0 THEN 1 ELSE start
    IN  IF first > marketCount \/ limit = 0 THEN <<>>
        ELSE [i \in 1 .. PageSize(first, limit) |-> marketById[first + i - 1]]

-----------------------------------------------------------------------------
(* Properties. *)

FactoryTypeOK ==
    /\ marketById \in Seq(Market)
    /\ marketByRulesHash \in [RulesHashes -> Nat]
    /\ paused \in BOOLEAN

\* The two mappings of the registry are inverse: a rules hash names at most one
\* market, so the join of the off-chain specifications on it is never ambiguous.
RegistryConsistent ==
    /\ \A id \in 1 .. marketCount : marketByRulesHash[marketById[id].rulesHash] = id
    /\ \A h \in RulesHashes :
          marketByRulesHash[h] # NoMarket =>
              /\ marketByRulesHash[h] \in 1 .. marketCount
              /\ marketById[marketByRulesHash[h]].rulesHash = h

=============================================================================
