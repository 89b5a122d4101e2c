----------------------------- MODULE MCReconciler -----------------------------
(* A finite instance of Reconciler for TLC. *)
EXTENDS Reconciler, TLC

\* The market is created once more, after a reorganisation, with or without a bond.
TwoConfigurations ==
    LET Parameters(first, bond) ==
            [ tradingEndsAt |-> first, conditionDeadline |-> first, challengeWindow |-> 1,
              resolutionWindow |-> 1, challengeBond |-> bond ]
    IN  {Parameters(1, 1), Parameters(2, 0)}

\* The two addresses are interchangeable.
AddressSymmetry == Permutations(Addresses)

=============================================================================
