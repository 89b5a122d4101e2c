---------------------------- MODULE Authentication ----------------------------
(***************************************************************************)
(* Signing in with a wallet (apps/backend/src/auth/service.ts): a nonce    *)
(* bound to an address, signed once, buys a session.  Attempts to complete *)
(* a sign-in run concurrently; the update that consumes the nonce and the  *)
(* insert of the session are awaited, and an attempt may fail at either.   *)
(* A signature is the wallet whose key made it.                            *)
(***************************************************************************)
EXTENDS Naturals

CONSTANTS
    Wallets,
    Nonces,             \* bound: the nonces ever issued
    Attempts,           \* calls of verify() in progress at the same time
    NonceTtl, SessionTtl,
    MaxTime             \* bound: the clock

ASSUME AuthAssumption == {NonceTtl, SessionTtl, MaxTime} \subseteq Nat

VARIABLES
    clock,
    nonces,         \* the nonces table: per nonce a record, or NotIssued
    authSessions,   \* the sessions table
    attempt         \* per attempt: where it is suspended, and its locals

authVars == <<clock, nonces, authSessions, attempt>>

NotIssued == [issued |-> FALSE]

Nonce == [issued : {TRUE}, address : Wallets, expiresAt : Nat, consumed : BOOLEAN]

\* nonce and signer are history: what the session was bought with.
AuthSession == [address : Wallets, expiresAt : Nat, revoked : BOOLEAN,
                nonce : Nonces, signer : Wallets, by : Attempts]

NoAttempt == [at |-> "idle"]

AuthInit ==
    /\ clock = 0
    /\ nonces = [n \in Nonces |-> NotIssued]
    /\ authSessions = {}
    /\ attempt = [v \in Attempts |-> NoAttempt]

Advance ==
    /\ clock < MaxTime
    /\ clock' = clock + 1
    /\ UNCHANGED <<nonces, authSessions, attempt>>

CreateChallenge(n, address) ==
    /\ ~nonces[n].issued
    /\ nonces' = [nonces EXCEPT ![n] =
          [issued |-> TRUE, address |-> address, expiresAt |-> clock + NonceTtl, consumed |-> FALSE]]
    /\ UNCHANGED <<clock, authSessions, attempt>>

SpentLater(n) == nonces' = nonces       \* mutant: marks the nonce after verifying

Spend(n) == nonces' = [nonces EXCEPT ![n].consumed = TRUE]

\* verify(), to the end of consume(): unknown, used and expired nonces are refused.
Consume(v, n, signer) ==
    /\ attempt[v].at = "idle"
    /\ nonces[n].issued /\ ~nonces[n].consumed /\ nonces[n].expiresAt > clock
    /\ Spend(n)
    /\ attempt' = [attempt EXCEPT ![v] =
          [at |-> "create", nonce |-> n, signer |-> signer, now |-> clock]]
    /\ UNCHANGED <<clock, authSessions>>

SignedByAddress(v) == attempt[v].signer = nonces[attempt[v].nonce].address

\* The signature is checked, then the session inserted; it counts from the start.
CreateSession(v) ==
    /\ attempt[v].at = "create"
    /\ SignedByAddress(v)
    /\ authSessions' = authSessions \cup
          { [address |-> nonces[attempt[v].nonce].address,
             expiresAt |-> attempt[v].now + SessionTtl, revoked |-> FALSE,
             nonce |-> attempt[v].nonce, signer |-> attempt[v].signer, by |-> v] }
    /\ attempt' = [attempt EXCEPT ![v] = NoAttempt]
    /\ UNCHANGED <<clock, nonces>>

\* The signature is another's, or a call throws: the nonce stays spent.
VerifyFails(v) ==
    /\ attempt[v].at = "create"
    /\ attempt' = [attempt EXCEPT ![v] = NoAttempt]
    /\ UNCHANGED <<clock, nonces, authSessions>>

\* authenticate(): the sessions a bearer token is accepted for.
Live == {s \in authSessions : ~s.revoked /\ s.expiresAt > clock}

\* Is a request of this wallet let in?
Authenticated(w) == \E s \in Live : s.address = w

Revoke(s) ==
    /\ s \in Live
    /\ authSessions' = (authSessions \ {s}) \cup {[s EXCEPT !.revoked = TRUE]}
    /\ UNCHANGED <<clock, nonces, attempt>>

AuthNext ==
    \/ Advance
    \/ \E n \in Nonces, w \in Wallets : CreateChallenge(n, w)
    \/ \E v \in Attempts, n \in Nonces, w \in Wallets : Consume(v, n, w)
    \/ \E v \in Attempts : CreateSession(v) \/ VerifyFails(v)
    \/ \E s \in authSessions : Revoke(s)

AuthSpec == AuthInit /\ [][AuthNext]_authVars

-----------------------------------------------------------------------------
(* Properties. *)

AuthTypeOK ==
    /\ clock \in Nat
    /\ nonces \in [Nonces -> Nonce \cup {NotIssued}]
    /\ authSessions \subseteq AuthSession
    /\ attempt \in [Attempts -> {NoAttempt} \cup
                        [at : {"create"}, nonce : Nonces, signer : Wallets, now : Nat]]

\* A signed challenge buys one session, however many requests present it at once.
NonceBuysOneSession ==
    \A s, t \in authSessions : s.nonce = t.nonce => s = t

=============================================================================
