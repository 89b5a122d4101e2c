------------------------- MODULE MCConditionalMarket -------------------------
(* Finite instances of ConditionalMarket, of its page and of its refinement of *)
(* Escrow, for TLC.                                                            *)
EXTENDS MarketPage, MarketImplementsEscrow, TLC

CONSTANTS Bonds, ChallengeWindows, ResolutionWindows, TradingEnds, Deadlines

\* Every combination of the parameters, those initialize() rejects included.
MCInitParams ==
    [ tradingEndsAt : TradingEnds, conditionDeadline : Deadlines,
      challengeWindow : ChallengeWindows, resolutionWindow : ResolutionWindows,
      challengeBond : Bonds ]

\* Accounts are interchangeable in the safety properties.
AccountSymmetry == Permutations(Accounts)

=============================================================================
