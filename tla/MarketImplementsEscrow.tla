------------------------ MODULE MarketImplementsEscrow ------------------------
(* ConditionalMarket implements Escrow: the refinement mapping. *)
EXTENDS ConditionalMarket

\* A posted bond is a deposit of its challenger's, returned or not.
BondPosted(a) == IF a = challenger THEN config.challengeBond ELSE 0

E == INSTANCE Escrow WITH
        decided   <- Resolved,
        deposited <- [a \in Accounts |-> StakeOf(a) + BondPosted(a)],
        due       <- [a \in Accounts |-> Due(a)],
        pot       <- held

\* The market decides the division of its money once, to no more than it holds
\* and among its depositors only, and pays it out account by account.
ImplementsEscrow == E!Spec

=============================================================================
