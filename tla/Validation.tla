----------------------------- MODULE Validation -----------------------------
(* The deterministic checks: what a validation plan may say                    *)
(* (validation/plan.ts), how a check finds the value it reads                  *)
(* (validation/engine.ts), how it decides (validation/validators.ts,           *)
(* decimal.ts, temporal.ts), and the verdict the checks come to.  Everything   *)
(* here is a function of the plan and of what was read; nothing has state.     *)
(*                                                                             *)
(* A piece of text is a record: its `sort` says which of the code's parsers    *)
(* accept it ("decimal", "instant", "boolean", "word", "blank", "object",      *)
(* "null"),                                                                    *)
(* `word` is its exact wording and `fold` its lower-case one; a decimal has    *)
(* its sign, digits and scale, an instant its second, a boolean its truth.     *)
(* Its `length` is the number of its characters, and `trimmed` that number     *)
(* without the white space around it, which is what the schemas bound.         *)
(* An identifier of a check is a pair, so that the names the plan chooses and  *)
(* those the code derives from a position can meet, as they can in the code.   *)
EXTENDS Integers, Sequences, FiniteSets, SequencesExt

CONSTANT MaxChecks    \* how many checks a plan may have; a package may carry no more

Null == [sort |-> "null"]
Detail == [sort |-> "word", word |-> "read", fold |-> "read", trimmed |-> 20]
Unread == "NOT_ATTEMPTED"

------------------------------------------------------------------------------
(* Decimals and instants. *)

ApplySign(d, n) == IF d.negative THEN -n ELSE n
Larger(m, n) == IF m < n THEN n ELSE m

\* Mutant of Scaled: digits are compared as they are written.
Unscaled(d, scale) == ApplySign(d, d.digits)

PowerOfTen[n \in Nat] == IF n = 0 THEN 1 ELSE 10 * PowerOfTen[n - 1]

\* The signed magnitude of a decimal at a scale at least its own.
Scaled(d, scale) == ApplySign(d, d.digits * PowerOfTen[scale - d.scale])

\* Exact comparison: both are brought to the larger of their scales.
CompareDecimal(a, b) ==
    LET scale == Larger(a.scale, b.scale)
        left == Scaled(a, scale)
        right == Scaled(b, scale)
    IN  IF left < right THEN -1 ELSE IF left > right THEN 1 ELSE 0

NumericOperators ==
    {"GREATER_THAN", "GREATER_THAN_OR_EQUAL", "LESS_THAN", "LESS_THAN_OR_EQUAL", "EQUAL",
     "NOT_EQUAL"}

ApplyNumericOperator(comparison, operator) ==
    CASE operator = "GREATER_THAN" -> comparison > 0
      [] operator = "GREATER_THAN_OR_EQUAL" -> comparison >= 0
      [] operator = "LESS_THAN" -> comparison < 0
      [] operator = "LESS_THAN_OR_EQUAL" -> comparison <= 0
      [] operator = "EQUAL" -> comparison = 0
      [] operator = "NOT_EQUAL" -> comparison # 0

WithinInclusiveRange(d, low, high) == CompareDecimal(d, low) >= 0 /\ CompareDecimal(d, high) <= 0

\* Seconds, whole: at the deadline itself BEFORE and AFTER are both false.
ApplyTemporalOperator(observed, reference, operator) ==
    CASE operator = "BEFORE" -> observed < reference
      [] operator = "AT_OR_BEFORE" -> observed <= reference
      [] operator = "AFTER" -> observed > reference
      [] operator = "AT_OR_AFTER" -> observed >= reference

------------------------------------------------------------------------------
(* Lengths. *)

LiteralMaxLength == 500        \* of a value in a plan
MaxAccepted == 32              \* of them in one check
ValueMaxLength == 500          \* of a value, and of what a check observed, in a package
ExpectationMaxLength == 500    \* of the sentence that says what a check expected
MaxDecimalDigits == 64         \* longer numbers are not decimals

\* A text that may stand as a value in a package.
IsText(text) == text.sort # "blank" /\ text.trimmed <= ValueMaxLength

\* An instant is recorded in its normal form, YYYY-MM-DDTHH:MM:SSZ.
NormalInstant(text) == [sort |-> "instant", second |-> text.second, trimmed |-> 20]

------------------------------------------------------------------------------
(* The plan. *)

Planned(i) == <<"plan", i>>
Availability(i) == <<"availability", i>>

TemporalOperators == {"BEFORE", "AT_OR_BEFORE", "AFTER", "AT_OR_AFTER"}

\* Each kind of check has its own fields; one that accepts nothing is refused.
CheckIsShaped(check) ==
    CASE check.kind = "NUMERIC_COMPARISON" -> check.operator \in NumericOperators
      [] check.kind = "TEMPORAL_COMPARISON" -> check.operator \in TemporalOperators
      [] check.kind = "BOOLEAN_MATCH" -> check.expected \in BOOLEAN
      [] check.kind = "CATEGORICAL_MATCH" ->
           /\ Len(check.accepted) \in 1..MaxAccepted
           /\ \A i \in DOMAIN check.accepted : check.accepted[i].trimmed \in 1..LiteralMaxLength
      [] check.kind = "NUMERIC_RANGE" -> TRUE
      [] OTHER -> FALSE

CheckIsWellFormed(check) ==
    CASE check.kind = "NUMERIC_RANGE" ->
           /\ check.low.sort = "decimal" /\ check.high.sort = "decimal"
           /\ CompareDecimal(check.low, check.high) <= 0
      [] check.kind = "NUMERIC_COMPARISON" -> check.threshold.sort = "decimal"
      [] OTHER -> TRUE

\* A plan has between one check and MaxChecks, no two of one name, and no threshold
\* that could never be compared.
PlanIsValid(plan) ==
    /\ Len(plan.checks) \in 1..MaxChecks
    /\ \A i, j \in 1..Len(plan.checks) :
         plan.checks[i].checkId = plan.checks[j].checkId => i = j
    /\ \A i \in 1..Len(plan.checks) : CheckIsShaped(plan.checks[i]) /\ CheckIsWellFormed(plan.checks[i])

\* The API refuses a plan that reads a source the specification did not approve.
PlanIsAccepted(specification, plan) ==
    /\ PlanIsValid(plan)
    /\ \A i \in 1..Len(plan.checks) : plan.checks[i].source \in 1..Len(specification.sources)

------------------------------------------------------------------------------
(* What a check reads. *)

\* A value that is one scalar; an object, a list or a null is none.
Scalar(value) == IF value.sort \in {"object", "null"} THEN Null ELSE value

\* Without a pointer a check reads the value at the approved data path.  With one it
\* reads the document, unless the document was cut or is not JSON.
ReadObservation(snapshot, pointer) ==
    IF pointer = "none" THEN Scalar(snapshot.selection.value)
    ELSE IF snapshot.body.truncated \/ ~snapshot.body.json
            \/ pointer \notin DOMAIN snapshot.body.at
         THEN Null
         ELSE Scalar(snapshot.body.at[pointer])

Retrieved(records) == {i \in DOMAIN records : records[i].status = "RETRIEVED"}

\* The sources at or after the check's position that have the value, and the one
\* with precedence among them.
Readings(check, records) ==
    {i \in Retrieved(records) : i >= check.source
                                /\ ReadObservation(records[i], check.pointer) # Null}

Observed(check, records) ==
    LET readings == Readings(check, records)
    IN  IF readings = {} THEN Null ELSE ReadObservation(records[Min(readings)], check.pointer)

\* Sources whose value precedence passed over.
Dissenting(check, records) ==
    {i \in Readings(check, records) :
        ReadObservation(records[i], check.pointer) # Observed(check, records)}

Conflicts(plan, records) ==
    {[preferred |-> Observed(plan.checks[i], records),
      rejected |-> {ReadObservation(records[j], plan.checks[i].pointer) :
                        j \in Dissenting(plan.checks[i], records)}] :
        i \in {k \in 1..Len(plan.checks) : Dissenting(plan.checks[k], records) # {}}}

CitedBy(check, records) ==
    IF Readings(check, records) = {} THEN {check.source} ELSE Readings(check, records)

------------------------------------------------------------------------------
(* How a check decides. *)

Passes(passed) == IF passed THEN "PASS" ELSE "FAIL"

NumericComparison(check, text) ==
    IF text.sort # "decimal" THEN "INDETERMINATE"
    ELSE Passes(ApplyNumericOperator(CompareDecimal(text, check.threshold), check.operator))

NumericRange(check, text) ==
    IF text.sort # "decimal" THEN "INDETERMINATE"
    ELSE Passes(WithinInclusiveRange(text, check.low, check.high))

\* Only ever against the deadline of the specification.
TemporalComparison(check, text, deadline) ==
    IF text.sort # "instant" THEN "INDETERMINATE"
    ELSE Passes(ApplyTemporalOperator(text.second, deadline, check.operator))

BooleanMatch(check, text) ==
    IF text.sort # "boolean" THEN "INDETERMINATE" ELSE Passes(text.truth = check.expected)

CategoricalMatch(check, text) ==
    IF text = Null THEN "INDETERMINATE"
    ELSE Passes(\E i \in DOMAIN check.accepted :
                  IF check.caseSensitive THEN check.accepted[i].word = text.word
                                         ELSE check.accepted[i].fold = text.fold)

Result(check, text, deadline) ==
    CASE check.kind = "NUMERIC_COMPARISON" -> NumericComparison(check, text)
      [] check.kind = "NUMERIC_RANGE" -> NumericRange(check, text)
      [] check.kind = "TEMPORAL_COMPARISON" -> TemporalComparison(check, text, deadline)
      [] check.kind = "BOOLEAN_MATCH" -> BooleanMatch(check, text)
      [] check.kind = "CATEGORICAL_MATCH" -> CategoricalMatch(check, text)

\* How long the sentence is that says what a check expects: the accepted values of a
\* categorical check, with commas between them and " (case-insensitive)" behind, or at
\* most two decimals of MaxDecimalDigits, each with a sign and a point.
ExpectedLength(check) ==
    IF check.kind = "CATEGORICAL_MATCH"
    THEN 14 + SumFunction([i \in DOMAIN check.accepted |-> check.accepted[i].trimmed])
            + 2 * (Len(check.accepted) - 1) + (IF check.caseSensitive THEN 0 ELSE 19)
    ELSE 16 + 2 * (MaxDecimalDigits + 2)

\* What a check records of the text it decided on.
Recorded(check, text) == IF check.kind = "TEMPORAL_COMPARISON" THEN NormalInstant(text) ELSE text

Run(specification, check, records) ==
    LET text == Observed(check, records)
        result == Result(check, text, specification.deadline)
    IN  [checkId |-> check.checkId, informational |-> FALSE, cites |-> CitedBy(check, records),
         expected |-> ExpectedLength(check), result |-> result,
         observed |-> IF result = "INDETERMINATE" THEN Null ELSE Recorded(check, text)]

\* One more check for every source that was tried, which decides nothing.
AvailabilityCheck(records, i) ==
    [checkId |-> Availability(i), informational |-> TRUE, cites |-> {i}, expected |-> 60,
     observed |-> IF records[i].status = "RETRIEVED" THEN Detail ELSE Null,
     result |-> IF records[i].status = "RETRIEVED" THEN "PASS" ELSE "INDETERMINATE"]

\* The positions in a set, in order of precedence.
Ascending(S) ==
    CHOOSE s \in [1..Cardinality(S) -> S] : \A i, j \in DOMAIN s : i < j => s[i] < s[j]

AvailabilityChecks(records) ==
    LET tried == Ascending({i \in DOMAIN records : records[i].status # Unread})
    IN  [k \in DOMAIN tried |-> AvailabilityCheck(records, tried[k])]

Checks(specification, plan, records) ==
    [i \in 1..Len(plan.checks) |-> Run(specification, plan.checks[i], records)]
        \o AvailabilityChecks(records)

\* One check that could not be decided outweighs one that failed.
VerdictFrom(checks) ==
    LET results == {checks[i].result : i \in {k \in DOMAIN checks : ~checks[k].informational}}
    IN  IF results = {} \/ "INDETERMINATE" \in results THEN "NEEDS_REVIEW"
        ELSE IF "FAIL" \in results THEN "REFUTED"
        ELSE "SATISFIED"

Verdict(specification, plan, records) == VerdictFrom(Checks(specification, plan, records))

=============================================================================
