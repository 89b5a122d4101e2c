------------------------- MODULE MCResolutionService -------------------------
(* Finite instances of ResolutionService for TLC. *)
EXTENDS ResolutionService, TLC

CONSTANTS a1, e1, e2, c1, c2, d1, d2

\* One market, with short windows and no bond: its own money is checked elsewhere.
MCInitParams ==
    { [ tradingEndsAt |-> 1, conditionDeadline |-> 1, challengeWindow |-> 1,
        resolutionWindow |-> 2, challengeBond |-> 0 ] }

MCOutcomeOf == (e1 :> "YES") @@ (e2 :> "YES")

\* Calls are interchangeable, and so are packages that propose the same and texts.
ServiceSymmetry ==
    Permutations({c1, c2}) \cup Permutations({e1, e2}) \cup Permutations({d1, d2})

=============================================================================
