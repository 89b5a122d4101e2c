-------------------------------- MODULE Escrow --------------------------------
(***************************************************************************)
(* What a market promises about money, without saying how a resolution is  *)
(* reached: deposits are collected; at one instant, and never again, it is *)
(* decided what every depositor is due; from then on each account can only *)
(* take down its own due.                                                  *)
(*                                                                         *)
(* ConditionalMarket implements it (MarketImplementsEscrow).  Rounds, time *)
(* limits, the challenge and the outcome itself are gone: the decision is  *)
(* any division of no more than what was deposited.                        *)
(***************************************************************************)
EXTENDS Integers, Functions

CONSTANT Accounts

VARIABLES
    decided,        \* has the division been fixed?
    deposited,      \* what each account has put in
    due,            \* what each account may still take out
    pot             \* the tokens in custody

escrowVars == <<decided, deposited, due, pot>>

Init ==
    /\ decided = FALSE
    /\ deposited = [a \in Accounts |-> 0]
    /\ due = [a \in Accounts |-> 0]
    /\ pot = 0

Deposit(a) ==
    /\ ~decided
    /\ deposited' \in [Accounts -> Nat]
    /\ deposited'[a] > deposited[a]
    /\ \A b \in Accounts \ {a} : deposited'[b] = deposited[b]
    /\ pot' = pot + (deposited'[a] - deposited[a])
    /\ UNCHANGED <<decided, due>>

Decide ==
    /\ ~decided
    /\ decided' = TRUE
    /\ due' \in [Accounts -> Nat]
    /\ \A a \in Accounts : due'[a] > 0 => deposited[a] > 0
    /\ SumFunction(due') <= pot
    /\ UNCHANGED <<deposited, pot>>

Withdraw(a) ==
    /\ decided
    /\ due' \in [Accounts -> Nat]
    /\ due'[a] < due[a]
    /\ \A b \in Accounts \ {a} : due'[b] = due[b]
    /\ pot' = pot - (due[a] - due'[a])
    /\ UNCHANGED <<decided, deposited>>

Next ==
    \/ Decide
    \/ \E a \in Accounts : Deposit(a) \/ Withdraw(a)

Spec == Init /\ [][Next]_escrowVars

=============================================================================
