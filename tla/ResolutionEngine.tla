-------------------------- MODULE ResolutionEngine --------------------------
(* One resolution, from the approved sources to a proposal or a refusal: the   *)
(* walk of Retrieval, the checks of Validation, and the engine that asks a     *)
(* language model for its reading and lets it withhold a proposal and never    *)
(* change one (resolution/engine.ts, outcome.ts, claims.ts, grounding.ts,      *)
(* output-schema.ts, assemble.ts, and the version 2 evidence package of        *)
(* packages/shared).  The model may answer anything in ModelEvents.            *)
EXTENDS Retrieval, Validation

CONSTANTS
    Plans,            \* the validation plans an operator may store
    ModelEvents,      \* what the provider's client may do with a request
    ConfidenceFloor,  \* ResolutionEngine's confidenceFloorBps
    MaxSources,       \* how many sources one claim may cite
    PathLength        \* how many characters each data path has

\* A text that reads as a decimal has a sign, digits and a scale, wherever it stands:
\* in a document or in a plan.  It has at most MaxDecimalDigits digits, and a text that
\* reads as a boolean is "true", "yes", "false" or "no".  The claims of a reply are a list.
IsRepresented(text) ==
    /\ text.sort = "decimal" =>
          /\ text.digits \in Nat /\ text.scale \in Nat /\ text.negative \in BOOLEAN
          /\ text.trimmed \in 1..(MaxDecimalDigits + 2)
    /\ text.sort = "boolean" => text.trimmed \in 2..5

ASSUME TextsAssumption ==
    /\ \A answer \in Answers : answer.kind = "body" =>
          \A pointer \in DOMAIN answer.body.at : IsRepresented(answer.body.at[pointer])
    /\ \A p \in Plans : \A i \in 1..Len(p.checks) :
          /\ p.checks[i].kind = "NUMERIC_COMPARISON" => IsRepresented(p.checks[i].threshold)
          /\ p.checks[i].kind = "NUMERIC_RANGE" =>
                IsRepresented(p.checks[i].low) /\ IsRepresented(p.checks[i].high)

ASSUME ListsAssumption ==
    /\ MaxChecks \in Nat /\ MaxSources \in Nat \ {0}
    /\ \A event \in ModelEvents :
          \/ event.kind = "throws"
          \/ /\ event.kind = "returns"
             /\ Len(event.reply.claims) \in Nat
             /\ DOMAIN event.reply.claims = 1..Len(event.reply.claims)

VARIABLES
    plan,       \* the validation plan stored for the market
    stage,      \* "retrieving", "model" or "done"
    result      \* what the engine returned

engineVars == <<walkVars, plan, stage, result>>

NoResult == [status |-> "NONE", reason |-> "none", outcome |-> "NONE", claims |-> <<>>]

------------------------------------------------------------------------------
(* The outcome. *)

\* What the checks establish: a verdict, under the condition the plan says it tests.
DeterministicOutcome(verdict, encodes) ==
    IF verdict = "NEEDS_REVIEW" THEN "NONE"
    ELSE IF (verdict = "SATISFIED") = (encodes = "successCondition") THEN "YES" ELSE "NO"

ToOutcome(modelOutcome) ==
    CASE modelOutcome = "RESOLVED_YES" -> "YES"
      [] modelOutcome = "RESOLVED_NO" -> "NO"
      [] modelOutcome = "NEEDS_REVIEW" -> "NONE"

Settles(outcome) == [outcome |-> outcome, reason |-> "none"]
Review(reason) == [outcome |-> "NONE", reason |-> reason]

\* Mutant of DecideOutcome: a matched edge case settles whichever way it says.
EdgeCaseDecides(edgeCases, verdict, encodes, modelOutcome, matched) ==
    LET established == DeterministicOutcome(verdict, encodes)
    IN  IF established = "NONE" THEN Review("DETERMINISTIC_INCONCLUSIVE")
        ELSE IF ToOutcome(modelOutcome) # established THEN Review("OUTCOME_CONTRADICTS_CHECKS")
        ELSE IF matched \in DOMAIN edgeCases THEN Settles(edgeCases[matched])
        ELSE Settles(established)

\* The model must agree with the checks.  An edge case it says is matched may settle
\* the same way or refund everybody; it may not turn the outcome over.
DecideOutcome(edgeCases, verdict, encodes, modelOutcome, matched) ==
    LET established == DeterministicOutcome(verdict, encodes)
        proposed == ToOutcome(modelOutcome)
    IN  IF established = "NONE" THEN Review("DETERMINISTIC_INCONCLUSIVE")
        ELSE IF proposed = "NONE" THEN Review("MODEL_ABSTAINED")
        ELSE IF proposed # established THEN Review("OUTCOME_CONTRADICTS_CHECKS")
        ELSE IF matched = 0 THEN Settles(established)
        ELSE IF matched \notin DOMAIN edgeCases THEN Review("EDGE_CASE_CONTRADICTS_CHECKS")
        ELSE IF edgeCases[matched] \in {established, "INVALID"} THEN Settles(edgeCases[matched])
        ELSE Review("EDGE_CASE_CONTRADICTS_CHECKS")

------------------------------------------------------------------------------
(* The claims. *)

\* A value a claim may carry: one scalar that is not blank.
ClaimScalar(value) == IF value.sort = "blank" THEN Null ELSE Scalar(value)

StatementMaxLength == 1000     \* of the sentence that makes a claim

\* The engine's own sentence about a value quotes the data path and the value, as it
\* stands; its other sentences quote a data path at most, which always fits.
Reports(pointer, value) == 32 + PathLength[pointer] + value.length
Brief == 580

Claim(cites, value, support, statement) ==
    [cites |-> cites, value |-> value, support |-> support, statement |-> statement]

\* A claim cites one source or more, has a value unless it is unsupported, and keeps to
\* the limits on a value and on a statement.  The output's schema and the package's
\* both say so.
ClaimIsShaped(claim) ==
    /\ Len(claim.cites) \in 1..MaxSources
    /\ (claim.support = "UNSUPPORTED") = (claim.value = Null)
    /\ claim.value # Null => IsText(claim.value)
    /\ claim.statement <= StatementMaxLength

\* One claim for every data path, with the value of the source that has precedence
\* and citing every source that has one, and one claim for every source without.
WithValue(snapshots) == {i \in Retrieved(snapshots) : ClaimScalar(snapshots[i].selection.value) # Null}
Paths(snapshots) == {snapshots[i].selection.pointer : i \in WithValue(snapshots)}
ReadAt(snapshots, pointer) == {i \in WithValue(snapshots) : snapshots[i].selection.pointer = pointer}

ValueClaim(snapshots, pointer) ==
    LET readings == ReadAt(snapshots, pointer)
        value == snapshots[Min(readings)].selection.value
        disputed == \E i \in readings : snapshots[i].selection.value # value
    IN  IF disputed THEN Claim(Ascending(readings), value, "DISPUTED", Brief)
        ELSE Claim(Ascending(readings), value, "SUPPORTED", Reports(pointer, value))

DeterministicClaims(snapshots) ==
    SetToSeq({ValueClaim(snapshots, pointer) : pointer \in Paths(snapshots)})
        \o SetToSeq({Claim(<<i>>, Null, "UNSUPPORTED", Brief) :
                        i \in Retrieved(snapshots) \ WithValue(snapshots)})

\* The model's claims that say what a deterministic one already says are dropped.
Repeats(deterministic, claim) ==
    \E i \in DOMAIN deterministic :
        /\ deterministic[i].value = claim.value
        /\ SortSeq(deterministic[i].cites, <) = SortSeq(claim.cites, <)

WithoutDuplicates(deterministic, model) ==
    LET kept == Ascending({k \in DOMAIN model : ~Repeats(deterministic, model[k])})
    IN  [n \in DOMAIN kept |-> model[kept[n]]]

------------------------------------------------------------------------------
(* The model's output. *)

\* The schema the reply must meet, beyond its shape.
MatchesSchema(reply) ==
    /\ (reply.outcome = "NEEDS_REVIEW") = reply.unresolvedReason
    /\ reply.outcome # "NEEDS_REVIEW" => reply.claims # <<>>
    /\ \A i \in DOMAIN reply.claims : ClaimIsShaped(reply.claims[i])

\* parseResolutionOutput(): text that parses, and matches.
OutputIsValid(reply) == reply.json /\ MatchesSchema(reply)

SameNumber(a, b) == a.sort = "decimal" /\ b.sort = "decimal" /\ CompareDecimal(a, b) = 0

\* Mutant of IsGrounded: a citation of a source that was read is enough.
IsCited(value, cites, snapshots) == \E k \in DOMAIN cites : cites[k] \in Retrieved(snapshots)

\* A value is grounded when a cited source selected it, in words or as a number, or
\* has it anywhere in the text that was kept.
IsGrounded(value, cites, snapshots) ==
    \E k \in DOMAIN cites :
        /\ cites[k] \in Retrieved(snapshots)
        /\ LET snapshot == snapshots[cites[k]]
               selected == ClaimScalar(snapshot.selection.value)
           IN  \/ selected # Null /\ (selected.fold = value.fold \/ SameNumber(value, selected))
               \/ value.fold \in snapshot.body.mentions

Carries(claims, texts) ==
    \E i \in DOMAIN claims : claims[i].value # Null /\ claims[i].value.fold \in {t.fold : t \in texts}

ApprovedHosts(specification) ==
    {specification.sources[i].url.host : i \in {k \in DOMAIN specification.sources :
                                                  specification.sources[k].url.parses}}

\* What is wrong with a reply that is well formed.
Violations(specification, snapshots, conflicts, reply) ==
    {kind \in {"UNCITED_SOURCE", "UNGROUNDED_VALUE", "SOURCE_PRECEDENCE_VIOLATED", "INVENTED_URL",
               "PROTOCOL_VALUE_IN_REASONING", "EDGE_CASE_OUT_OF_RANGE"} :
        CASE kind = "UNCITED_SOURCE" ->
               \E i \in DOMAIN reply.claims : ~(Range(reply.claims[i].cites) \subseteq Retrieved(snapshots))
          [] kind = "UNGROUNDED_VALUE" ->
               \E i \in DOMAIN reply.claims :
                  /\ reply.claims[i].value # Null
                  /\ ~IsGrounded(reply.claims[i].value, reply.claims[i].cites, snapshots)
          [] kind = "SOURCE_PRECEDENCE_VIOLATED" ->
               \E conflict \in conflicts :
                  ~Carries(reply.claims, {conflict.preferred}) /\ Carries(reply.claims, conflict.rejected)
          [] kind = "INVENTED_URL" -> ~(reply.namesHosts \subseteq ApprovedHosts(specification))
          [] kind = "PROTOCOL_VALUE_IN_REASONING" -> reply.protocolValue
          [] kind = "EDGE_CASE_OUT_OF_RANGE" -> reply.edgeCase > Len(specification.edgeCases)}

------------------------------------------------------------------------------
(* The package. *)

Distinct(s) == \A i, j \in DOMAIN s : s[i] = s[j] => i = j

SourceIsPublishable(specification, record, i, resolvedAt) ==
    /\ ~specification.sources[i].url.credentialInQuery /\ ~specification.sources[i].url.userinfo
    /\ record.retrievedAt <= resolvedAt

ClaimIsPublishable(sources, claim) ==
    /\ ClaimIsShaped(claim)
    /\ Distinct(claim.cites) /\ Range(claim.cites) \subseteq DOMAIN sources

CheckIsPublishable(sources, check) ==
    /\ Cardinality(check.cites) \in 1..MaxSources /\ check.cites \subseteq DOMAIN sources
    /\ check.observed # Null => IsText(check.observed)
    /\ check.expected <= ExpectationMaxLength
    /\ (check.result = "INDETERMINATE") = (check.observed = Null)

\* The version 2 schema, and the binding of its sources to the ones approved.  The
\* limits it has besides, on a source's name, a locator and the reasoning, are those of
\* the specification and of the model's output.
PackageIsValid(specification, sources, claims, checks, resolvedAt) ==
    /\ \A i \in DOMAIN sources : SourceIsPublishable(specification, sources[i], i, resolvedAt)
    /\ \A i \in DOMAIN claims : ClaimIsPublishable(sources, claims[i])
    /\ \A i \in DOMAIN checks : CheckIsPublishable(sources, checks[i])
    /\ Len(checks) <= MaxChecks
    /\ Distinct([i \in DOMAIN checks |-> checks[i].checkId])

------------------------------------------------------------------------------
(* The provider. *)

ProviderErrorOf(cause) ==
    CASE cause = "APIConnectionTimeoutError" -> "timeout"
      [] cause = "RateLimitError" -> "rate_limited"
      [] cause = "AuthenticationError" -> "auth"
      [] cause = "BadRequestError" -> "invalid_request"
      [] cause \in {"APIConnectionError", "APIError"} -> "unavailable"
      [] OTHER -> "unknown"

FailureReason(kind) ==
    CASE kind = "timeout" -> "PROVIDER_TIMEOUT"
      [] kind = "refused" -> "PROVIDER_REFUSED"
      [] OTHER -> "PROVIDER_UNAVAILABLE"

\* The failure a call to the model comes to, or "none": the client threw, the model
\* declined, or its answer was cut off.
CallFailure(event) ==
    CASE event.kind = "throws" -> ProviderErrorOf(event.cause)
      [] event.kind = "returns" /\ event.stopReason = "refusal" -> "refused"
      [] event.kind = "returns" /\ event.stopReason = "max_tokens" -> "invalid_request"
      [] OTHER -> "none"

------------------------------------------------------------------------------
(* The engine. *)

EngineInit ==
    /\ WalkInit
    /\ plan \in {p \in Plans : PlanIsAccepted(spec, p)}
    /\ stage = "retrieving"
    /\ result = NoResult

Walk == stage = "retrieving" /\ WalkStep /\ UNCHANGED <<plan, stage, result>>

Returned(status, reason, outcome, claims) ==
    [status |-> status, reason |-> reason, outcome |-> outcome, claims |-> claims]
NeedsReview(reason) == Returned("NEEDS_REVIEW", reason, "NONE", <<>>)

Finish(outcome) ==
    /\ stage' = "done"
    /\ result' = outcome
    /\ UNCHANGED <<walkVars, plan>>

Established == DeterministicOutcome(Verdict(spec, plan, records), plan.encodes)

\* Mutant of ProducedAt: the resolution is dated when it is begun.
BegunAt == 0

\* The resolution is dated when it is produced, after the sources were read.
ProducedAt == now

\* Rules that are not the ones the market committed to are not resolved.  Without a
\* source that answered, or without a verdict, no model is asked.
Examine ==
    /\ stage = "retrieving" /\ WalkOver
    /\ IF ~spec.committed THEN Finish(NeedsReview("RULES_HASH_MISMATCH"))
       ELSE IF Retrieved(records) = {} THEN Finish(NeedsReview("INSUFFICIENT_EVIDENCE"))
       ELSE IF Established = "NONE" THEN Finish(NeedsReview("DETERMINISTIC_INCONCLUSIVE"))
       ELSE stage' = "model" /\ UNCHANGED <<walkVars, plan, result>>

\* A package that does not validate is a matter for review, not an error.
Assembled(outcome, claims) ==
    IF PackageIsValid(spec, records, claims, Checks(spec, plan, records), ProducedAt)
    THEN Returned("PROPOSED", "none", outcome, claims)
    ELSE Returned("NEEDS_REVIEW", "PACKAGE_INVALID", "NONE", claims)

\* The gates a reading passes, in order.
Weighed(reply) ==
    LET decision == DecideOutcome(spec.edgeCases, Verdict(spec, plan, records), plan.encodes,
                                  reply.outcome, reply.edgeCase)
        deterministic == DeterministicClaims(records)
        claims == deterministic \o WithoutDuplicates(deterministic, reply.claims)
    IN  IF ~OutputIsValid(reply) THEN NeedsReview("MODEL_OUTPUT_INVALID")
        ELSE IF Violations(spec, records, Conflicts(plan, records), reply) # {}
        THEN NeedsReview("MODEL_OUTPUT_UNGROUNDED")
        ELSE IF decision.outcome = "NONE" THEN NeedsReview(decision.reason)
        ELSE IF reply.confidenceBps < ConfidenceFloor
        THEN NeedsReview("CONFIDENCE_BELOW_FLOOR")
        ELSE Assembled(decision.outcome, claims)

ModelFails ==
    /\ stage = "model"
    /\ \E event \in ModelEvents :
         /\ CallFailure(event) # "none"
         /\ Finish(Returned("RESOLUTION_FAILED", FailureReason(CallFailure(event)), "NONE", <<>>))

ModelAnswers ==
    /\ stage = "model"
    /\ \E event \in ModelEvents : CallFailure(event) = "none" /\ Finish(Weighed(event.reply))

\* What resolve() returned stays.  Anything else that stops is a deadlock.
Concluded == stage = "done" /\ UNCHANGED engineVars

Next == Walk \/ Examine \/ ModelFails \/ ModelAnswers \/ Concluded

\* Timers are served and calls to the model end; nothing makes a source answer.
\* The last two conditions say of Examine and of the model's steps, by the stage
\* they reach, what WF_engineVars would: they are always possible in their stage.
Spec ==
    /\ EngineInit /\ [][Next]_engineVars
    /\ WF_engineVars(Walk)
    /\ WF_stage(WalkOver /\ stage = "retrieving" /\ stage' \in {"model", "done"})
    /\ WF_stage(stage = "model" /\ stage' = "done")

------------------------------------------------------------------------------
(* What must hold. *)

\* A walk that begins its last attempt just inside the budget, and pauses after it.
Overrun == TimeoutMs + RetryBackoffMs * (MaxAttempts - 1)

\* A source that never answers, a name that never resolves, a source that answers
\* with failures for ever: the walk is over within the budget and one attempt with its
\* pause, and the retriever's backstop behind the adapter's own deadline never fires.
WalkBounded ==
    /\ now <= TotalBudgetMs + Overrun
    /\ pc \in {"resolving", "requesting"} => now < call.due

\* "Reading position 1 is only legitimate when position 0 is on record as having
\* failed": behind every earlier failure there is an attempt, and what was never
\* attempted either follows the source that was used or was out of budget.
FallbackJustified ==
    \A i \in 1..Count :
        /\ records[i].status = "RETRIEVED" =>
              \A j \in 1..(i - 1) : records[j].status \in {"UNAVAILABLE", "MALFORMED"}
        /\ records[i].status = "NOT_ATTEMPTED" =>
              \/ \E j \in 1..(i - 1) : records[j].status = "RETRIEVED"
              \/ now >= TotalBudgetMs
        /\ records[i].status \in {"UNAVAILABLE", "MALFORMED"} =>
              records[i].attempts <= MaxAttempts /\ records[i].retrievedAt <= now

\* What a check asks of a text, stated by cross-multiplication instead of by scaling.
Below(a, b) ==
    ApplySign(a, a.digits) * PowerOfTen[b.scale] < ApplySign(b, b.digits) * PowerOfTen[a.scale]
Compares(check, text) ==
    CASE check.operator = "GREATER_THAN" -> Below(check.threshold, text)
      [] check.operator = "GREATER_THAN_OR_EQUAL" -> ~Below(text, check.threshold)
      [] check.operator = "LESS_THAN" -> Below(text, check.threshold)
      [] check.operator = "LESS_THAN_OR_EQUAL" -> ~Below(check.threshold, text)
      [] check.operator = "EQUAL" -> ~Below(text, check.threshold) /\ ~Below(check.threshold, text)
      [] check.operator = "NOT_EQUAL" -> Below(text, check.threshold) \/ Below(check.threshold, text)

HoldsOf(check, text) ==
    CASE check.kind = "NUMERIC_RANGE" ->
           text.sort = "decimal" /\ ~Below(text, check.low) /\ ~Below(check.high, text)
      [] check.kind = "NUMERIC_COMPARISON" -> text.sort = "decimal" /\ Compares(check, text)
      [] OTHER -> Result(check, text, spec.deadline) = "PASS"

\* Whatever the model says, a payout proposed to one side is what the approved
\* value, read from the one source in precedence, makes of the plan's own criteria.
PaidAsObserved ==
    result.status = "PROPOSED" /\ result.outcome # "INVALID" =>
        \E p \in Primary :
            LET holds == \A i \in 1..Len(plan.checks) :
                            HoldsOf(plan.checks[i], ReadObservation(records[p], plan.checks[i].pointer))
            IN  (result.outcome = "YES") = (holds = (plan.encodes = "successCondition"))

\* The model can withhold a proposal and not turn it over: what is proposed is what
\* the checks establish, or a refund that the approved rules provide for.
ModelNeverFlips ==
    result.status = "PROPOSED" =>
        /\ Established \in {"YES", "NO"}
        /\ \/ result.outcome = Established
           \/ /\ result.outcome = "INVALID"
              /\ \E i \in DOMAIN spec.edgeCases : spec.edgeCases[i] = "INVALID"

\* A value that stands in the text of a source, or is what it selected but for the
\* case of its letters or the way a number is written.
IsRead(value, i) ==
    LET selected == records[i].selection.value
    IN  \/ value.fold \in records[i].body.mentions
        \/ /\ selected.sort \notin {"null", "object", "blank"}
           /\ selected.fold = value.fold \/ SameNumber(value, selected)

\* Every claim of a proposed package rests on sources that were read, cites none
\* twice, and has a value one of them carries.
ProposalIsGrounded ==
    result.status = "PROPOSED" =>
        \A i \in DOMAIN result.claims :
            LET claim == result.claims[i]
            IN  /\ Distinct(claim.cites) /\ Range(claim.cites) \subseteq Primary
                /\ claim.value # Null => \E k \in DOMAIN claim.cites : IsRead(claim.value, claim.cites[k])

\* Whether a claim can report what a source selected, and a check record what it decides on.
SelectionFits(selection) ==
    IsText(selection.value) /\ Reports(selection.pointer, selection.value) <= StatementMaxLength
RecordFits(check) ==
    /\ ExpectedLength(check) <= ExpectationMaxLength
    /\ Observed(check, records) # Null => IsText(Observed(check, records))

\* Among resolutions that pass every gate, the schema refuses a package only because an
\* approved URL may not be published; because the plan names a check as the engine names
\* one of its own, or leaves no room for them; because a categorical check accepts more
\* than one sentence holds, or reads a text that is blank or too long to be recorded;
\* because a source selected a value too long for the engine's claim about it; or because
\* the model's claim cites a source twice.  Its dates, citations, results and the order
\* in which it was put together are never the reason.
RefusalIsExplained ==
    result.reason = "PACKAGE_INVALID" =>
        \/ \E i \in 1..Count : spec.sources[i].url.credentialInQuery \/ spec.sources[i].url.userinfo
        \/ \E i \in 1..Len(plan.checks) : plan.checks[i].checkId \in {Availability(j) : j \in 1..Count}
        \/ Len(plan.checks) + Cardinality(Attempted) > MaxChecks
        \/ \E i \in 1..Len(plan.checks) :
              plan.checks[i].kind = "CATEGORICAL_MATCH" /\ ~RecordFits(plan.checks[i])
        \/ \E i \in WithValue(records) : ~SelectionFits(records[i].selection)
        \/ \E i \in DOMAIN result.claims : ~Distinct(result.claims[i].cites)

\* However the sources behave and whatever the model does, a resolution ends.
Concludes == <>(stage = "done")

=============================================================================
