----------------------------- MODULE Registration -----------------------------
(***************************************************************************)
(* How a condition becomes a market (apps/backend/src/api/server.ts):      *)
(* signed-in wallets compile a specification, register it, give it a       *)
(* validation plan, and open the market on the chain from their own wallet *)
(* - in any order.  The indexer joins the two on the rules hash.           *)
(*                                                                         *)
(* Requests run concurrently; each action is a handler's work between two  *)
(* awaits, and a request may fail at any of them.  The tables are those of *)
(* repositories/drizzle.ts.  A specification is its rules hash, which      *)
(* commits to its creator; requests the schemas refuse change nothing.     *)
(* Compilation is the model's answer, an input.                            *)
(***************************************************************************)
EXTENDS MarketFactory, Authentication, FiniteSets

CONSTANTS
    CreatorOf,      \* the creator a specification names
    Plans, NoPlan,
    Requests,       \* compile and register requests in progress at the same time
    Conversations, NoConversation,      \* bound: compiler sessions ever opened
    MaxRequests     \* bound: requests accepted

ASSUME RegistrationAssumption ==
    /\ CreatorOf \in [RulesHashes -> Wallets]
    /\ NoPlan \notin Plans /\ NoConversation \notin Conversations
    /\ MaxRequests \in Nat

VARIABLES
    conversations,  \* the compiler_sessions and compiler_turns tables
    compilations,   \* per rules hash: the conversation it came from, if saved
    markets,        \* per rules hash: the row of the markets table
    observed,       \* MarketCreated events the indexer has applied
    request,        \* per request: where it is suspended, and its locals
    accepted,
    promised,       \* history: hashes whose creator was told that a plan is stored
    openedAfter     \* history: hashes on the chain only after they were registered

tables == <<conversations, compilations, markets>>

history == <<promised, openedAfter>>

registrationVars == <<tables, observed, request, accepted, history>>

registryVars == <<factoryVars, authVars, registrationVars>>

NotOpened == [status |-> "NONE"]

NotSaved == [saved |-> FALSE]

NotRegistered == [registered |-> FALSE]

NoRequest == [at |-> "idle"]

Registered(h) == markets[h].registered

RegistrationInit ==
    /\ FactoryInit /\ AuthInit
    /\ conversations = [d \in Conversations |-> NotOpened]
    /\ compilations = [h \in RulesHashes |-> NotSaved]
    /\ markets = [h \in RulesHashes |-> NotRegistered]
    /\ observed = 0
    /\ request = [r \in Requests |-> NoRequest]
    /\ accepted = 0
    /\ promised = {} /\ openedAfter = {}

Accept(r, w, locals) ==
    /\ request[r].at = "idle"
    /\ accepted < MaxRequests
    /\ Authenticated(w)
    /\ accepted' = accepted + 1
    /\ request' = [request EXCEPT ![r] = locals]

Goto(r, place) == request' = [request EXCEPT ![r].at = place]

Respond(r) == request' = [request EXCEPT ![r] = NoRequest]

-----------------------------------------------------------------------------
(* POST /api/markets/compile *)

AnyonesConversation(d, w) == conversations[d].status # "NONE"   \* mutant: no assertOwns()

Resumable(d, w) == conversations[d].status # "NONE" /\ conversations[d].creator = w

\* A new conversation, or one of the wallet's own.
Compile(r, w, d) ==
    /\ Accept(r, w, [at |-> "turn", wallet |-> w, conversation |-> d])
    /\ IF Resumable(d, w) THEN UNCHANGED conversations
       ELSE /\ conversations[d].status = "NONE"
            /\ conversations' = [conversations EXCEPT ![d] =
                                   [status |-> "OPEN", creator |-> w, speakers |-> {}]]
    /\ UNCHANGED <<factoryVars, authVars, compilations, markets, observed, history>>

\* The user's turn is stored before the model is asked, the answer after.
AppendTurns(r) ==
    /\ request[r].at = "turn"
    /\ conversations' = [conversations EXCEPT ![request[r].conversation].speakers =
                            @ \cup {request[r].wallet}]
    /\ Goto(r, "compiled")
    /\ UNCHANGED <<factoryVars, authVars, compilations, markets, observed, accepted, history>>

OverwriteCompilation(h, d) ==       \* mutant: the last save wins
    compilations' = [compilations EXCEPT ![h] = [saved |-> TRUE, conversation |-> d]]

\* Saving a specification again changes nothing.
SaveCompilation(h, d) ==
    compilations' =
        [compilations EXCEPT ![h] = IF @.saved THEN @ ELSE [saved |-> TRUE, conversation |-> d]]

Unheard(h) == ~compilations[h].saved /\ Unused(h)

\* The model's condition carries a fresh nonce, hence a rules hash not met before.
SaveCompiled(r, h) ==
    /\ request[r].at = "compiled"
    /\ CreatorOf[h] = request[r].wallet
    /\ Unheard(h)
    /\ SaveCompilation(h, request[r].conversation)
    /\ Goto(r, "mark")
    /\ UNCHANGED <<factoryVars, authVars, conversations, markets, observed, accepted, history>>

MarkCompiled(r) ==
    /\ request[r].at = "mark"
    /\ conversations' = [conversations EXCEPT ![request[r].conversation].status = "COMPILED"]
    /\ Respond(r)
    /\ UNCHANGED <<factoryVars, authVars, compilations, markets, observed, accepted, history>>

-----------------------------------------------------------------------------
(* POST /api/markets and /api/markets/:id/validation-plan *)

Register(r, w, h, plan) ==
    /\ CreatorOf[h] = w
    /\ Accept(r, w, [at |-> "saveSpec", wallet |-> w, hash |-> h, plan |-> plan])
    /\ UNCHANGED <<factoryVars, authVars, tables, observed, history>>

SaveSpecification(r) ==
    /\ request[r].at = "saveSpec"
    /\ SaveCompilation(request[r].hash, NoConversation)
    /\ Goto(r, "register")
    /\ UNCHANGED <<factoryVars, authVars, conversations, markets, observed, accepted, history>>

FreshRow(r) == [registered |-> TRUE, id |-> NoMarket, status |-> "PENDING_ONCHAIN",
                plan |-> request[r].plan, creator |-> request[r].wallet]

UpsertRow(r) ==             \* mutant: registering again starts over
    markets' = [markets EXCEPT ![request[r].hash] = FreshRow(r)]

\* register() leaves a row that is there as it is.
RegisterRow(r) ==
    markets' = [markets EXCEPT ![request[r].hash] = IF @.registered THEN @ ELSE FreshRow(r)]

PlanGiven(r) == request[r].plan # NoPlan

RegisterMarket(r) ==
    /\ request[r].at = "register"
    /\ RegisterRow(r)
    /\ IF PlanGiven(r) THEN Goto(r, "setPlan") ELSE Respond(r)
    /\ UNCHANGED <<factoryVars, authVars, conversations, compilations, observed, accepted, history>>

SetPlanRequest(r, w, h, plan) ==
    /\ plan # NoPlan
    /\ Registered(h) /\ markets[h].creator = w
    /\ Accept(r, w, [at |-> "setPlan", wallet |-> w, hash |-> h, plan |-> plan])
    /\ UNCHANGED <<factoryVars, authVars, tables, observed, history>>

StorePlan(r) == markets' = [markets EXCEPT ![request[r].hash].plan = request[r].plan]

SetValidationPlan(r) ==
    /\ request[r].at = "setPlan"
    /\ StorePlan(r)
    /\ promised' = promised \cup {request[r].hash}
    /\ Respond(r)
    /\ UNCHANGED <<factoryVars, authVars, conversations, compilations, observed, accepted,
                    openedAfter>>

\* The client's answer is a question, or a call throws: what was written stays.
Fail(r) ==
    /\ request[r].at # "idle"
    /\ Respond(r)
    /\ UNCHANGED <<factoryVars, authVars, tables, observed, accepted, history>>

-----------------------------------------------------------------------------
(* The chain, and the indexer that follows it. *)

\* Anybody may open a market for a rules hash, registered or not.
OpenMarket(caller, h) ==
    /\ CreateMarket(caller, h)
    /\ openedAfter' = IF Registered(h) THEN openedAfter \cup {h} ELSE openedAfter
    /\ UNCHANGED <<authVars, tables, observed, request, accepted, promised>>

Pause(to) == SetPaused(to) /\ UNCHANGED <<authVars, registrationVars>>

\* applyEvents(): attachOnChainIdentity() for the next MarketCreated.
Attach ==
    /\ observed < marketCount
    /\ observed' = observed + 1
    /\ LET h == marketById[observed + 1].rulesHash IN
       markets' = IF Registered(h) THEN [markets EXCEPT ![h].id = observed + 1] ELSE markets
    /\ UNCHANGED <<factoryVars, authVars, conversations, compilations, request, accepted, history>>

\* refreshChainState(), after this or a later event of the market.
UpdateStatus(id) ==
    /\ id \in 1 .. observed
    /\ LET h == marketById[id].rulesHash IN
       /\ Registered(h)
       /\ markets' = [markets EXCEPT ![h].status = "OPEN"]
    /\ UNCHANGED <<factoryVars, authVars, conversations, compilations, observed, request, accepted,
                    history>>

SignIn == AuthNext /\ UNCHANGED <<factoryVars, registrationVars>>

RequestStep(r) ==
    \/ \E w \in Wallets, d \in Conversations : Compile(r, w, d)
    \/ AppendTurns(r) \/ MarkCompiled(r)
    \/ \E h \in RulesHashes : SaveCompiled(r, h)
    \/ \E w \in Wallets, h \in RulesHashes, plan \in Plans \cup {NoPlan} :
          Register(r, w, h, plan) \/ SetPlanRequest(r, w, h, plan)
    \/ SaveSpecification(r) \/ RegisterMarket(r) \/ SetValidationPlan(r)
    \/ Fail(r)

RegistrationNext ==
    \/ SignIn
    \/ \E r \in Requests : RequestStep(r)
    \/ \E caller \in Creators, h \in RulesHashes : OpenMarket(caller, h)
    \/ \E to \in BOOLEAN : Pause(to)
    \/ Attach
    \/ \E id \in 1 .. observed : UpdateStatus(id)

RegistrationSpec == RegistrationInit /\ [][RegistrationNext]_registryVars

-----------------------------------------------------------------------------
(* Properties. *)

HasSigned(w) == \E s \in authSessions : s.signer = w

\* Records are whose they say, from the signature on: a conversation holds only
\* its creator's turns, a registered specification its creator's approval.
RecordsAreTheirOwners ==
    /\ \A d \in Conversations :
          conversations[d].status # "NONE" =>
              /\ HasSigned(conversations[d].creator)
              /\ conversations[d].speakers \subseteq {conversations[d].creator}
    /\ \A h \in RulesHashes :
          Registered(h) => markets[h].creator = CreatorOf[h] /\ HasSigned(CreatorOf[h])

\* What was promised is kept, however often a market is registered again and by
\* how many requests at once: a compiled conversation leads to a specification,
\* and a market whose plan was accepted has one.
PromisesKept ==
    /\ \A d \in Conversations :
          conversations[d].status = "COMPILED" =>
              \E h \in RulesHashes : compilations[h].saved /\ compilations[h].conversation = d
    /\ \A h \in promised : markets[h].plan # NoPlan

\* Who registers first and opens the market then gets the two joined: when the
\* indexer has applied the creation, the row names that market for good.
JoinedIfOpenedAfter ==
    \A id \in 1 .. observed :
        LET h == marketById[id].rulesHash IN
        h \in openedAfter => markets[h].id = id /\ marketByRulesHash[h] = id

=============================================================================
