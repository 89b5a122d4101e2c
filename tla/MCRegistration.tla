---------------------------- MODULE MCRegistration ----------------------------
(* Finite instances of Registration for TLC. *)
EXTENDS Registration, TLC

CONSTANTS alice, bob, h1, h2, n1, n2, v1, v2, r1, r2

\* One specification each.
MCCreatorOf == (h1 :> alice) @@ (h2 :> bob)

\* The wallets are interchangeable together with their specifications.
Swap == (alice :> bob) @@ (bob :> alice) @@ (h1 :> h2) @@ (h2 :> h1)

RegistrationSymmetry ==
    {Swap} \cup Permutations({n1, n2}) \cup Permutations({v1, v2}) \cup Permutations({r1, r2})

=============================================================================
