------------------------ MODULE ResolutionEngine_proofs ------------------------
(* Theorems about a resolution, for any number of sources, any limits, any plan  *)
(* and whatever the sources and the model answer.                                *)
EXTENDS ResolutionEngine, FiniteSums_proofs, SequenceTheorems, TLAPS

-----------------------------------------------------------------------------
(* The model cannot turn an outcome over. *)

\* A decision is what the checks establish, or the refund of a matched edge case.
LEMMA DecisionFollowsChecks ==
    ASSUME NEW edgeCases, NEW verdict, NEW encodes, NEW modelOutcome, NEW matched,
           DecideOutcome(edgeCases, verdict, encodes, modelOutcome, matched).outcome # "NONE"
    PROVE  LET established == DeterministicOutcome(verdict, encodes)
               outcome == DecideOutcome(edgeCases, verdict, encodes, modelOutcome, matched).outcome
           IN  /\ established \in {"YES", "NO"}
               /\ \/ outcome = established
                  \/ /\ outcome = "INVALID"
                     /\ \E i \in DOMAIN edgeCases : edgeCases[i] = "INVALID"
PROOF
<1> DEFINE established == DeterministicOutcome(verdict, encodes)
<1>1. established \in {"YES", "NO", "NONE"}
    BY DEF DeterministicOutcome
<1> HIDE DEF established
<1> QED
    BY <1>1 DEF DecideOutcome, Settles, Review, established

\* Until it is done a resolution has returned nothing, and then it stands.
ReturnedAtEnd ==
    /\ stage # "done" => result = NoResult
    /\ ModelNeverFlips

\* A proposed outcome is what the checks establish, or a refund the rules provide for.
LEMMA WeighedFollowsChecks ==
    ASSUME NEW reply, Weighed(reply).status = "PROPOSED"
    PROVE  /\ Established \in {"YES", "NO"}
           /\ \/ Weighed(reply).outcome = Established
              \/ /\ Weighed(reply).outcome = "INVALID"
                 /\ \E i \in DOMAIN spec.edgeCases : spec.edgeCases[i] = "INVALID"
PROOF
<1> DEFINE decision == DecideOutcome(spec.edgeCases, Verdict(spec, plan, records), plan.encodes,
                                     reply.outcome, reply.edgeCase)
<1>1. decision.outcome # "NONE" /\ Weighed(reply).outcome = decision.outcome
    BY DEF Weighed, NeedsReview, Returned, Assembled
<1> QED
    BY <1>1, DecisionFollowsChecks DEF Established

\* One step: only an answer of the model proposes anything.
LEMMA NeverFlipsStep ==
    ASSUME ReturnedAtEnd, [Next]_engineVars
    PROVE  ReturnedAtEnd'
PROOF
<1>1. CASE Walk
    BY <1>1 DEF Walk, ReturnedAtEnd, ModelNeverFlips, NoResult
<1>2. CASE Examine
    BY <1>2 DEF Examine, Finish, NeedsReview, Returned, ReturnedAtEnd, ModelNeverFlips, NoResult
<1>3. CASE ModelFails
    BY <1>3 DEF ModelFails, Finish, Returned, ReturnedAtEnd, ModelNeverFlips
<1>4. CASE ModelAnswers
    <2>1. PICK reply : Finish(Weighed(reply))
        BY <1>4 DEF ModelAnswers
    <2>2. stage' = "done" /\ result' = Weighed(reply) /\ UNCHANGED <<spec, plan, records>>
        BY <2>1 DEF Finish, walkVars
    <2>3. Established' = Established
        BY <2>2 DEF Established
    <2> QED
        BY <2>2, <2>3, WeighedFollowsChecks DEF ReturnedAtEnd, ModelNeverFlips
<1>5. CASE UNCHANGED engineVars
    BY <1>5 DEF engineVars, walkVars, ReturnedAtEnd, ModelNeverFlips, Established
<1> QED
    BY <1>1, <1>2, <1>3, <1>4, <1>5 DEF Next, Concluded

\* Whatever the model answers, a proposal is what the checks establish, or a refund
\* that the approved rules provide for: every way to a proposal passes the decision,
\* and nothing it was made from changes afterwards.
THEOREM NeverFlips == Spec => []ModelNeverFlips
PROOF
<1>1. EngineInit => ReturnedAtEnd
    BY DEF EngineInit, ReturnedAtEnd, ModelNeverFlips, NoResult
<1>2. ReturnedAtEnd /\ [Next]_engineVars => ReturnedAtEnd'
    BY NeverFlipsStep
<1>3. ReturnedAtEnd => ModelNeverFlips
    BY DEF ReturnedAtEnd
<1> QED
    BY <1>1, <1>2, <1>3, PTL DEF Spec

-----------------------------------------------------------------------------
(* The walk keeps to its time and to the order of precedence. *)

InFlight == pc \in {"resolving", "requesting"}

CallFields == {"deadline", "due", "requestDue", "hop", "target", "connected"}

WalkTyped ==
    /\ now \in Nat /\ at \in Nat \ {0} /\ attempts \in Nat /\ wake \in Nat
    /\ pc \in {"walk", "resolving", "requesting", "backoff"}
    /\ DOMAIN call = CallFields
    /\ call.deadline \in Nat /\ call.due \in Nat /\ call.requestDue \in Nat
    /\ spec \in Specs
    /\ DOMAIN records = 1 .. Count

\* Where the clock may stand.  An attempt begins within the budget, and the adapter's
\* own timer ends it a tick past its deadline at the latest, before the backstop.
TimersHold ==
    /\ pc = "walk" => attempts = 0 /\ now <= TotalBudgetMs + Overrun
    /\ pc = "backoff" => attempts < MaxAttempts /\ now <= wake
                         /\ wake <= TotalBudgetMs + Overrun
    /\ InFlight => /\ attempts \in 1 .. MaxAttempts
                   /\ call.deadline < TotalBudgetMs + TimeoutMs
                   /\ call.due = call.deadline + AdapterGraceMs
    /\ pc = "resolving" => now <= call.deadline
    /\ pc = "requesting" => now <= call.requestDue /\ call.requestDue <= call.deadline + 1

FailedBefore(i) == \A j \in 1 .. (i - 1) : records[j].status \in {"UNAVAILABLE", "MALFORMED"}

\* The sources before the one at hand have their record, and the others have none.
RecordsFollow ==
    /\ \A i \in 1 .. Count : i >= at => records[i] = NotYet
    /\ \A i \in 1 .. Count : i < at =>
          /\ records[i].status \in {"RETRIEVED", "NOT_ATTEMPTED", "UNAVAILABLE", "MALFORMED"}
          /\ records[i].status \in {"UNAVAILABLE", "MALFORMED"} => records[i].retrievedAt \in Nat
    /\ pc # "walk" => at <= Count /\ FailedBefore(at)
    /\ FallbackJustified

WalkInv == WalkTyped /\ TimersHold /\ RecordsFollow

\* The least of two numbers.
LEMMA MinOfTwo ==
    ASSUME NEW a \in Nat, NEW b \in Nat
    PROVE  /\ Min({a, b}) \in {a, b}
           /\ Min({a, b}) <= a /\ Min({a, b}) <= b
PROOF
<1>1. \E x \in {a, b} : \A y \in {a, b} : x <= y
    BY SMT
<1> QED
    BY <1>1 DEF Min

\* A market has a number of sources.
LEMMA CountIsNat == spec \in Specs => Count \in Nat
PROOF
    BY SourcesAssumption DEF SourcesAssumption, Count

\* The pause after an attempt that is not the last fits in the overrun.
LEMMA BackoffFits ==
    ASSUME NEW n \in Nat, n < MaxAttempts
    PROVE  /\ RetryBackoffMs * n \in Nat
           /\ RetryBackoffMs * n <= RetryBackoffMs * (MaxAttempts - 1)
           /\ Overrun \in Nat /\ TimeoutMs + RetryBackoffMs * n <= Overrun
PROOF
<1>1. RetryBackoffMs \in Nat /\ MaxAttempts \in Nat \ {0} /\ TimeoutMs \in Nat
    BY LimitsAssumption DEF LimitsAssumption
<1>2. MaxAttempts - 1 \in Nat /\ n <= MaxAttempts - 1
    BY <1>1
<1>3. ASSUME NEW r \in Nat, NEW x \in Nat, NEW y \in Nat, x <= y
      PROVE  r * x \in Nat /\ r * x <= r * y /\ r * y \in Nat
    <2>1. r * (y - x) >= 0 /\ r * (y - x) = r * y - r * x
        BY <1>3
    <2> QED
        BY <1>3, <2>1
<1>4. /\ RetryBackoffMs * n \in Nat /\ RetryBackoffMs * (MaxAttempts - 1) \in Nat
      /\ RetryBackoffMs * n <= RetryBackoffMs * (MaxAttempts - 1)
    BY <1>1, <1>2, <1>3
<1> QED
    BY <1>1, <1>4 DEF Overrun

\* An attempt in flight, or one that has just ended, is within the overrun.
LEMMA InFlightInTime ==
    ASSUME WalkInv, InFlight
    PROVE  /\ now <= TotalBudgetMs + TimeoutMs /\ now < call.due
           /\ now <= TotalBudgetMs + Overrun
           /\ at \in 1 .. Count /\ FailedBefore(at)
PROOF
<1>1. /\ AdapterGraceMs \in Nat \ {0, 1} /\ TotalBudgetMs \in Nat /\ TimeoutMs \in Nat
      /\ MaxAttempts \in Nat \ {0} /\ RetryBackoffMs \in Nat
    BY LimitsAssumption DEF LimitsAssumption
<1>2. now <= TotalBudgetMs + TimeoutMs /\ now < call.due
    BY <1>1 DEF WalkInv, WalkTyped, TimersHold, InFlight
<1>3. Overrun \in Nat /\ TimeoutMs <= Overrun
    BY <1>1, BackoffFits
<1>4. at \in 1 .. Count /\ FailedBefore(at)
    BY CountIsNat DEF WalkInv, WalkTyped, RecordsFollow, InFlight
<1> QED
    BY <1>1, <1>2, <1>3, <1>4 DEF WalkInv, WalkTyped

\* What may be recorded of the source at hand.
Recordable(record) ==
    /\ record.status \in {"RETRIEVED", "NOT_ATTEMPTED", "UNAVAILABLE", "MALFORMED"}
    /\ record.status = "RETRIEVED" => FailedBefore(at)
    /\ record.status = "NOT_ATTEMPTED" =>
          \/ \E j \in 1 .. (at - 1) : records[j].status = "RETRIEVED"
          \/ now >= TotalBudgetMs
    /\ record.status \in {"UNAVAILABLE", "MALFORMED"} =>
          record.attempts <= MaxAttempts /\ record.retrievedAt \in 0 .. now

\* A source is concluded: its record is the next, and the walk moves past it.
LEMMA ConcludeStep ==
    ASSUME WalkInv, at \in 1 .. Count, now <= TotalBudgetMs + Overrun,
           NEW record, Recordable(record), Conclude(record)
    PROVE  WalkInv'
PROOF
<1>1. /\ records' = [records EXCEPT ![at] = record]
      /\ at' = at + 1 /\ pc' = "walk" /\ attempts' = 0 /\ wake' = 0 /\ call' = NoCall
      /\ spec' = spec /\ now' = now
    BY DEF Conclude
<1>2. Count' = Count /\ Count \in Nat
    BY <1>1, CountIsNat DEF Count, WalkInv, WalkTyped
<1>3. /\ DOMAIN records' = 1 .. Count
      /\ \A i \in 1 .. Count : records'[i] = IF i = at THEN record ELSE records[i]
    BY <1>1 DEF WalkInv, WalkTyped
<1>4. WalkTyped'
    <2>1. /\ DOMAIN NoCall = CallFields
          /\ NoCall.deadline = 0 /\ NoCall.due = 0 /\ NoCall.requestDue = 0
        BY DEF NoCall, CallFields
    <2> QED
        BY <1>1, <1>2, <1>3, <2>1 DEF WalkInv, WalkTyped
<1>5. TimersHold'
    BY <1>1 DEF TimersHold, InFlight
<1>6. /\ \A i \in 1 .. Count : i >= at' => records'[i] = NotYet
      /\ \A i \in 1 .. Count : i < at' =>
            /\ records'[i].status \in {"RETRIEVED", "NOT_ATTEMPTED", "UNAVAILABLE", "MALFORMED"}
            /\ records'[i].status \in {"UNAVAILABLE", "MALFORMED"} =>
                  records'[i].retrievedAt \in Nat
    BY <1>1, <1>2, <1>3 DEF WalkInv, WalkTyped, RecordsFollow, Recordable
<1>7. FallbackJustified'
    <2>1. NotYet.status \notin {"RETRIEVED", "NOT_ATTEMPTED", "UNAVAILABLE", "MALFORMED"}
        BY DEF NotYet
    <2>2. ASSUME NEW i \in 1 .. Count, i < at
          PROVE  \A j \in 1 .. i : records'[j] = records[j]
        BY <1>2, <1>3, <2>2 DEF WalkInv, WalkTyped
    <2>3. \A j \in 1 .. (at - 1) : records'[j] = records[j]
        BY <1>2, <1>3 DEF WalkInv, WalkTyped
    <2>4. ASSUME NEW i \in 1 .. Count
          PROVE  /\ records'[i].status = "RETRIEVED" =>
                       \A j \in 1 .. (i - 1) : records'[j].status \in {"UNAVAILABLE", "MALFORMED"}
                 /\ records'[i].status = "NOT_ATTEMPTED" =>
                       \/ \E j \in 1 .. (i - 1) : records'[j].status = "RETRIEVED"
                       \/ now >= TotalBudgetMs
                 /\ records'[i].status \in {"UNAVAILABLE", "MALFORMED"} =>
                       records'[i].attempts <= MaxAttempts /\ records'[i].retrievedAt <= now
        <3>1. CASE i < at
            <4>1. \A j \in 1 .. (i - 1) : records'[j] = records[j]
                BY <1>2, <2>2, <3>1
            <4>2. records'[i] = records[i]
                BY <1>2, <2>2, <3>1
            <4> QED
                BY <4>1, <4>2 DEF WalkInv, RecordsFollow, FallbackJustified
        <3>2. CASE i = at
            BY <1>3, <2>3, <3>2 DEF Recordable, FailedBefore
        <3>3. CASE i > at
            <4>1. records'[i] = NotYet
                BY <1>2, <1>3, <3>3 DEF WalkInv, WalkTyped, RecordsFollow
            <4> QED
                BY <2>1, <4>1
        <3> QED
            BY <3>1, <3>2, <3>3 DEF WalkInv, WalkTyped
    <2> QED
        BY <1>1, <1>2, <2>4 DEF FallbackJustified
<1> QED
    BY <1>1, <1>2, <1>4, <1>5, <1>6, <1>7 DEF WalkInv, RecordsFollow

\* A source that failed is recorded with the attempts it took, which are in bounds.
LEMMA FailedStep ==
    ASSUME WalkInv, at \in 1 .. Count, now <= TotalBudgetMs + Overrun,
           NEW kind, NEW tries \in Nat, tries <= MaxAttempts, Failed(kind, tries)
    PROVE  WalkInv'
PROOF
<1> DEFINE record == [status |-> FailureStatus(kind), failure |-> kind, retrievedAt |-> now,
                      attempts |-> tries]
<1>1. /\ record.status \in {"UNAVAILABLE", "MALFORMED"}
      /\ record.retrievedAt = now /\ record.attempts = tries
    BY DEF FailureStatus
<1>2. Conclude(record)
    BY DEF Failed
<1> HIDE DEF record
<1>3. Recordable(record)
    BY <1>1 DEF Recordable, WalkInv, WalkTyped
<1> QED
    BY <1>2, <1>3, ConcludeStep

\* A hop keeps the deadline of its attempt, and its own timer ends by the next tick.
LEMMA HopSets ==
    ASSUME NEW c, DOMAIN c = CallFields, NEW url, now \in Nat, c.deadline \in Nat,
           c.due \in Nat, c.requestDue \in Nat, now <= c.deadline, Hop(c, url)
    PROVE  /\ pc' \in {"resolving", "requesting"} /\ DOMAIN call' = CallFields
           /\ call'.deadline = c.deadline /\ call'.due = c.due /\ call'.requestDue \in Nat
           /\ pc' = "requesting" => now <= call'.requestDue /\ call'.requestDue <= c.deadline + 1
PROOF
<1>1. AtLeastOne(c.deadline - now) \in Nat /\ AtLeastOne(c.deadline - now) <= c.deadline - now + 1
    BY DEF AtLeastOne
<1>2. CASE url.host.literal
    <2> DEFINE r == now + AtLeastOne(c.deadline - now)
    <2>1. /\ pc' = "requesting"
          /\ call' = [c EXCEPT !.target = url, !.connected = <<url.host.address>>, !.requestDue = r]
        BY <1>2 DEF Hop
    <2>2. r \in Nat /\ now <= r /\ r <= c.deadline + 1
        BY <1>1
    <2> HIDE DEF r
    <2>3. ASSUME NEW x
          PROVE  LET d == [c EXCEPT !.target = url, !.connected = x, !.requestDue = r]
                 IN  /\ DOMAIN d = CallFields /\ d.requestDue = r
                     /\ d.deadline = c.deadline /\ d.due = c.due
        BY DEF CallFields
    <2> QED
        BY <2>1, <2>2, <2>3
<1>3. CASE ~url.host.literal
    BY <1>3 DEF Hop, CallFields
<1> QED
    BY <1>2, <1>3

\* An attempt begins within the budget and has its time from there.
LEMMA AttemptStep ==
    ASSUME WalkInv, at \in 1 .. Count, now < TotalBudgetMs, attempts < MaxAttempts,
           FailedBefore(at), Attempt
    PROVE  WalkInv'
PROOF
<1> DEFINE c == [NoCall EXCEPT !.deadline = now + TimeoutMs,
                               !.due = now + TimeoutMs + AdapterGraceMs]
<1>1. /\ AdapterGraceMs \in Nat \ {0, 1} /\ TotalBudgetMs \in Nat /\ TimeoutMs \in Nat \ {0}
      /\ MaxAttempts \in Nat \ {0} /\ now \in Nat /\ attempts \in Nat
    BY LimitsAssumption DEF LimitsAssumption, WalkInv, WalkTyped
<1>2. /\ attempts' = attempts + 1 /\ Hop(c, spec.sources[at].url) /\ wake' = 0
      /\ UNCHANGED <<spec, now, at, records>>
    BY DEF Attempt
<1>3. /\ DOMAIN c = CallFields /\ c.deadline = now + TimeoutMs
      /\ c.due = now + TimeoutMs + AdapterGraceMs /\ c.requestDue = 0
    BY DEF NoCall, CallFields
<1> HIDE DEF c
<1>4. /\ pc' \in {"resolving", "requesting"} /\ DOMAIN call' = CallFields
      /\ call'.deadline = c.deadline /\ call'.due = c.due /\ call'.requestDue \in Nat
      /\ pc' = "requesting" => now <= call'.requestDue /\ call'.requestDue <= c.deadline + 1
    BY <1>1, <1>2, <1>3, HopSets
<1>5. WalkTyped'
    BY <1>1, <1>2, <1>3, <1>4 DEF WalkInv, WalkTyped, Count
<1>6. TimersHold'
    BY <1>1, <1>2, <1>3, <1>4 DEF TimersHold, InFlight
<1>7. RecordsFollow'
    BY <1>2, <1>4 DEF WalkInv, RecordsFollow, FailedBefore, FallbackJustified, Count
<1> QED
    BY <1>5, <1>6, <1>7 DEF WalkInv

\* An attempt that failed is paused after or recorded.
LEMMA FailsStep ==
    ASSUME WalkInv, InFlight, NEW fault, Fails(fault)
    PROVE  WalkInv'
PROOF
<1>1. /\ TotalBudgetMs \in Nat /\ TimeoutMs \in Nat /\ MaxAttempts \in Nat
      /\ now \in Nat /\ attempts \in 1 .. MaxAttempts
      /\ now <= TotalBudgetMs + TimeoutMs /\ now <= TotalBudgetMs + Overrun
      /\ at \in 1 .. Count /\ FailedBefore(at)
    BY LimitsAssumption, InFlightInTime DEF LimitsAssumption, WalkInv, WalkTyped, TimersHold
<1>2. CASE fault.retryable /\ attempts < MaxAttempts
    <2>1. /\ pc' = "backoff" /\ wake' = now + RetryBackoffMs * attempts /\ call' = NoCall
          /\ UNCHANGED <<spec, now, at, attempts, records>>
        BY <1>2 DEF Fails
    <2>2. /\ RetryBackoffMs * attempts \in Nat /\ Overrun \in Nat
          /\ TimeoutMs + RetryBackoffMs * attempts <= Overrun
        BY <1>1, <1>2, BackoffFits
    <2>3. now <= wake' /\ wake' <= TotalBudgetMs + Overrun /\ wake' \in Nat
        BY <1>1, <2>1, <2>2
    <2>4. /\ DOMAIN NoCall = CallFields
          /\ NoCall.deadline = 0 /\ NoCall.due = 0 /\ NoCall.requestDue = 0
        BY DEF NoCall, CallFields
    <2>5. WalkTyped'
        BY <2>1, <2>3, <2>4 DEF WalkInv, WalkTyped, Count
    <2>6. TimersHold'
        BY <1>2, <2>1, <2>3 DEF TimersHold, InFlight
    <2>7. RecordsFollow'
        BY <1>1, <2>1 DEF WalkInv, RecordsFollow, FailedBefore, FallbackJustified, Count
    <2> QED
        BY <2>5, <2>6, <2>7 DEF WalkInv
<1>3. CASE ~(fault.retryable /\ attempts < MaxAttempts)
    BY <1>1, <1>3, FailedStep DEF Fails
<1> QED
    BY <1>2, <1>3

\* Within the budget and with no source used, every earlier source failed.
LEMMA EarlierFailed ==
    ASSUME WalkInv, at <= Count, Primary = {}, now < TotalBudgetMs
    PROVE  at \in 1 .. Count /\ FailedBefore(at)
PROOF
<1>1. at \in 1 .. Count /\ Count \in Nat /\ at \in Nat /\ now \in Nat /\ TotalBudgetMs \in Nat
    BY CountIsNat, LimitsAssumption DEF WalkInv, WalkTyped, LimitsAssumption
<1>2. \A i \in 1 .. Count : records[i].status # "RETRIEVED"
    BY DEF Primary
<1>3. ASSUME NEW j \in 1 .. (at - 1)
      PROVE  records[j].status \in {"UNAVAILABLE", "MALFORMED"}
    <2>1. j \in 1 .. Count /\ j < at
        BY <1>1
    <2>2. \A k \in 1 .. (j - 1) : k \in 1 .. Count
        BY <1>1
    <2>3. records[j].status # "NOT_ATTEMPTED"
        BY <1>1, <1>2, <2>1, <2>2 DEF WalkInv, RecordsFollow, FallbackJustified
    <2> QED
        BY <1>2, <2>1, <2>3 DEF WalkInv, RecordsFollow
<1> QED
    BY <1>1, <1>3 DEF FailedBefore

\* A source is left unattempted, behind one that was read or out of budget.
LEMMA SkipStep ==
    ASSUME WalkInv, Skip
    PROVE  WalkInv'
PROOF
<1>1. PICK record : record.status = "NOT_ATTEMPTED" /\ Conclude(record)
    <2> DEFINE last == IF Attempted = {} THEN 0 ELSE Max({records[i].retrievedAt : i \in Attempted})
               record == [status |-> "NOT_ATTEMPTED", attempts |-> 0, retrievedAt |-> last]
    <2>1. record.status = "NOT_ATTEMPTED"
        OBVIOUS
    <2>2. Conclude(record)
        BY DEF Skip
    <2> QED
        BY <2>1, <2>2
<1>2. pc = "walk" /\ at \in 1 .. Count /\ now <= TotalBudgetMs + Overrun
    BY CountIsNat DEF Skip, WalkInv, WalkTyped, TimersHold
<1>3. (\E j \in 1 .. (at - 1) : records[j].status = "RETRIEVED") \/ now >= TotalBudgetMs
    <2>1. CASE Primary # {}
        <3>1. PICK j \in 1 .. Count : records[j].status = "RETRIEVED"
            BY <2>1 DEF Primary
        <3>2. ~(j >= at)
            BY <3>1 DEF WalkInv, RecordsFollow, NotYet
        <3> QED
            BY <1>2, <3>1, <3>2, CountIsNat DEF WalkInv, WalkTyped
    <2> QED
        BY <2>1 DEF Skip
<1>4. Recordable(record)
    BY <1>1, <1>3 DEF Recordable
<1> QED
    BY <1>1, <1>2, <1>4, ConcludeStep

\* A source that may not be asked is concluded at once.
LEMMA RefuseStep ==
    ASSUME WalkInv, Refuse
    PROVE  WalkInv'
PROOF
<1>1. at \in 1 .. Count /\ now <= TotalBudgetMs + Overrun
    BY CountIsNat DEF Refuse, WalkInv, WalkTyped, TimersHold
<1>2. PICK tries \in {0, 1} : \E kind : Failed(kind, tries)
    BY DEF Refuse
<1>3. tries \in Nat /\ tries <= MaxAttempts
    BY LimitsAssumption DEF LimitsAssumption
<1> QED
    BY <1>1, <1>2, <1>3, FailedStep

\* A source is begun within the budget,
LEMMA BeginStep ==
    ASSUME WalkInv, Begin
    PROVE  WalkInv'
PROOF
<1>1. /\ pc = "walk" /\ at <= Count /\ Primary = {} /\ now < TotalBudgetMs /\ Attempt
    BY DEF Begin
<1>2. attempts < MaxAttempts
    BY <1>1, LimitsAssumption DEF LimitsAssumption, WalkInv, TimersHold
<1> QED
    BY <1>1, <1>2, EarlierFailed, AttemptStep

\* The budget is looked at again after a pause, which counts as an attempt by then.
LEMMA RetryStep ==
    ASSUME WalkInv, Retry
    PROVE  WalkInv'
PROOF
<1>1. /\ at \in 1 .. Count /\ FailedBefore(at) /\ attempts \in Nat /\ attempts < MaxAttempts
      /\ now \in Nat /\ MaxAttempts \in Nat /\ TotalBudgetMs \in Nat
      /\ now <= TotalBudgetMs + Overrun
    <2>1. Overrun \in Nat
        BY LimitsAssumption, BackoffFits DEF LimitsAssumption
    <2> QED
        BY <2>1, LimitsAssumption, CountIsNat
        DEF LimitsAssumption, Retry, WalkInv, WalkTyped, TimersHold, RecordsFollow
<1>2. CASE OverBudget /\ Failed("SOURCE_TIMEOUT", attempts + 1)
    BY <1>1, <1>2, FailedStep
<1>3. CASE ~OverBudget /\ Attempt
    BY <1>1, <1>3, AttemptStep DEF OverBudget
<1> QED
    BY <1>2, <1>3 DEF Retry

\* A call that stays in flight keeps its deadline and gets a timer of its own.
LEMMA HopAgain ==
    ASSUME WalkInv, InFlight,
           pc' \in {"resolving", "requesting"}, DOMAIN call' = CallFields,
           call'.deadline = call.deadline, call'.due = call.due, call'.requestDue \in Nat,
           pc' = "resolving" => now <= call.deadline,
           pc' = "requesting" => now <= call'.requestDue /\ call'.requestDue <= call.deadline + 1,
           UNCHANGED <<spec, now, at, attempts, wake, records>>
    PROVE  WalkInv'
PROOF
<1>1. at \in 1 .. Count /\ FailedBefore(at)
    BY InFlightInTime
<1>2. WalkTyped'
    BY DEF WalkInv, WalkTyped, Count
<1>3. TimersHold'
    BY DEF WalkInv, TimersHold, InFlight
<1>4. RecordsFollow'
    BY <1>1 DEF WalkInv, RecordsFollow, FailedBefore, FallbackJustified, Count
<1> QED
    BY <1>2, <1>3, <1>4 DEF WalkInv

\* A name that resolves is refused, or asked with what is left of its time.
LEMMA ResolvedStep ==
    ASSUME WalkInv, Resolved
    PROVE  WalkInv'
PROOF
<1>1. PICK addresses \in Resolutions :
        \/ \E fault : Fails(fault)
        \/ /\ pc' = "requesting"
           /\ call' = [call EXCEPT !.connected = addresses,
                                   !.requestDue = now + AtLeastOne(call.deadline - now)]
           /\ UNCHANGED <<spec, now, at, attempts, wake, records>>
    BY DEF Resolved
<1>2. InFlight /\ pc = "resolving"
    BY DEF Resolved, InFlight
<1>3. CASE \E fault : Fails(fault)
    BY <1>2, <1>3, FailsStep
<1>4. CASE /\ pc' = "requesting"
           /\ call' = [call EXCEPT !.connected = addresses,
                                   !.requestDue = now + AtLeastOne(call.deadline - now)]
           /\ UNCHANGED <<spec, now, at, attempts, wake, records>>
    <2> DEFINE r == now + AtLeastOne(call.deadline - now)
    <2>1. r \in Nat /\ now <= r /\ r <= call.deadline + 1
        BY <1>2 DEF AtLeastOne, WalkInv, WalkTyped, TimersHold
    <2>2. call' = [call EXCEPT !.connected = addresses, !.requestDue = r]
        BY <1>4
    <2> HIDE DEF r
    <2>3. /\ DOMAIN call' = CallFields /\ call'.requestDue = r
          /\ call'.deadline = call.deadline /\ call'.due = call.due
        BY <2>2 DEF CallFields, WalkInv, WalkTyped
    <2> QED
        BY <1>2, <1>4, <2>1, <2>3, HopAgain
<1> QED
    BY <1>1, <1>3, <1>4

\* An answer concludes its source, fails the attempt, or sends it to another address.
LEMMA AnsweredStep ==
    ASSUME WalkInv, Answered
    PROVE  WalkInv'
PROOF
<1>1. InFlight /\ pc = "requesting"
    BY DEF Answered, InFlight
<1>2. PICK answer \in Answers : Redirected(answer.to) \/ Read(answer) \/ \E fault : Fails(fault)
    BY DEF Answered
<1>3. CASE \E fault : Fails(fault)
    BY <1>1, <1>3, FailsStep
<1>4. CASE Redirected(answer.to)
    <2>1. CASE \E fault : Fails(fault)
        BY <1>1, <2>1, FailsStep
    <2>2. CASE ~\E fault : Fails(fault)
        <3> DEFINE c == [call EXCEPT !.hop = @ + 1, !.connected = <<>>]
        <3>1. /\ ~(now >= call.deadline)
              /\ Hop(c, answer.to)
              /\ UNCHANGED <<spec, now, at, attempts, wake, records>>
            BY <1>4, <2>2 DEF Redirected
        <3>2. /\ DOMAIN c = CallFields /\ c.deadline = call.deadline
              /\ c.due = call.due /\ c.requestDue = call.requestDue
            BY DEF CallFields, WalkInv, WalkTyped
        <3>3. /\ now \in Nat /\ c.deadline \in Nat /\ c.due \in Nat /\ c.requestDue \in Nat
              /\ now <= c.deadline
            BY <3>1, <3>2 DEF WalkInv, WalkTyped
        <3> HIDE DEF c
        <3>4. /\ pc' \in {"resolving", "requesting"} /\ DOMAIN call' = CallFields
              /\ call'.deadline = c.deadline /\ call'.due = c.due /\ call'.requestDue \in Nat
              /\ pc' = "requesting" => now <= call'.requestDue
                                       /\ call'.requestDue <= c.deadline + 1
            BY <3>1, <3>2, <3>3, HopSets
        <3> QED
            BY <1>1, <3>1, <3>2, <3>3, <3>4, HopAgain
    <2> QED
        BY <2>1, <2>2
<1>5. CASE Read(answer)
    <2>1. CASE \E fault : Fails(fault)
        BY <1>1, <2>1, FailsStep
    <2>2. CASE ~\E fault : Fails(fault)
        <3>1. PICK record : record.status = "RETRIEVED" /\ Conclude(record)
            <4> DEFINE record == [status |-> "RETRIEVED", retrievedAt |-> now,
                                  attempts |-> attempts, body |-> answer.body,
                                  selection |-> Selection(spec.sources[at], answer.body)]
            <4>1. record.status = "RETRIEVED"
                OBVIOUS
            <4>2. Conclude(record)
                BY <1>5, <2>2 DEF Read
            <4> QED
                BY <4>1, <4>2
        <3>2. /\ at \in 1 .. Count /\ FailedBefore(at) /\ now <= TotalBudgetMs + Overrun
            BY <1>1, InFlightInTime
        <3>3. Recordable(record)
            BY <3>1, <3>2 DEF Recordable
        <3> QED
            BY <3>1, <3>2, <3>3, ConcludeStep
    <2> QED
        BY <2>1, <2>2
<1> QED
    BY <1>2, <1>3, <1>4, <1>5

\* A deadline that passes fails the attempt.
LEMMA ExpiredStep ==
    ASSUME WalkInv, Expired
    PROVE  WalkInv'
PROOF
    BY FailsStep DEF Expired, withDeadline, InFlight

\* Time stops at the next timer, which is never the backstop.
LEMMA TickStep ==
    ASSUME WalkInv, Tick
    PROVE  WalkInv'
PROOF
<1>1. now' = now + 1 /\ UNCHANGED <<spec, at, pc, attempts, wake, call, records>>
    BY DEF Tick
<1>2. /\ now \in Nat /\ call.deadline \in Nat /\ call.due \in Nat /\ call.requestDue \in Nat
      /\ wake \in Nat /\ TotalBudgetMs \in Nat
    BY LimitsAssumption DEF LimitsAssumption, WalkInv, WalkTyped
<1>3. /\ pc # "walk"
      /\ pc = "resolving" => now < call.deadline
      /\ pc = "requesting" => now < call.requestDue
      /\ pc = "backoff" => now < wake
    BY <1>2, MinOfTwo DEF Tick, ResolveDue
<1>4. WalkTyped'
    BY <1>1, <1>2 DEF WalkInv, WalkTyped, Count
<1>5. TimersHold'
    BY <1>1, <1>2, <1>3 DEF WalkInv, TimersHold, InFlight
<1>6. RecordsFollow'
    <2>1. ASSUME NEW i \in 1 .. Count, records[i].status \in {"UNAVAILABLE", "MALFORMED"}
          PROVE  records[i].retrievedAt <= now + 1
        <3>1. records[i].retrievedAt <= now
            BY <2>1 DEF WalkInv, RecordsFollow, FallbackJustified
        <3>2. i < at
            BY <1>2, <2>1, CountIsNat DEF WalkInv, WalkTyped, RecordsFollow, NotYet
        <3>3. records[i].retrievedAt \in Nat
            BY <2>1, <3>2 DEF WalkInv, RecordsFollow
        <3> QED
            BY <1>2, <3>1, <3>3
    <2> QED
        BY <1>1, <1>2, <2>1
        DEF WalkInv, RecordsFollow, FailedBefore, FallbackJustified, Count
<1> QED
    BY <1>4, <1>5, <1>6 DEF WalkInv

\* Every step of the walk keeps it, and the rest of a resolution leaves it alone;
LEMMA WalkInvStep ==
    ASSUME WalkInv, [Next]_engineVars
    PROVE  WalkInv'
PROOF
<1>1. CASE Walk
    BY <1>1, SkipStep, RefuseStep, BeginStep, RetryStep, ResolvedStep, AnsweredStep, ExpiredStep,
       TickStep DEF Walk, WalkStep
<1>2. CASE UNCHANGED walkVars
    <2>1. WalkTyped' /\ TimersHold'
        BY <1>2 DEF walkVars, WalkInv, WalkTyped, TimersHold, InFlight, Count
    <2>2. RecordsFollow'
        BY <1>2 DEF walkVars, WalkInv, RecordsFollow, FailedBefore, FallbackJustified, Count
    <2> QED
        BY <2>1, <2>2 DEF WalkInv
<1>3. Examine \/ ModelFails \/ ModelAnswers \/ UNCHANGED engineVars => UNCHANGED walkVars
    BY DEF Examine, ModelFails, ModelAnswers, Finish, engineVars
<1> QED
    BY <1>1, <1>2, <1>3 DEF Next, Concluded

\* a walk begins with it.
LEMMA WalkInvInit == EngineInit => WalkInv
PROOF
<1> SUFFICES ASSUME WalkInit PROVE WalkInv
    BY DEF EngineInit
<1>1. /\ spec \in Specs /\ now = 0 /\ at = 1 /\ pc = "walk" /\ attempts = 0 /\ wake = 0
      /\ call = NoCall /\ records = [i \in 1 .. Count |-> NotYet]
    BY DEF WalkInit
<1>2. /\ DOMAIN NoCall = CallFields
      /\ NoCall.deadline = 0 /\ NoCall.due = 0 /\ NoCall.requestDue = 0
    BY DEF NoCall, CallFields
<1>3. WalkTyped
    BY <1>1, <1>2 DEF WalkTyped
<1>4. TimersHold
    <2>1. Overrun \in Nat /\ TotalBudgetMs \in Nat
        BY LimitsAssumption, BackoffFits DEF LimitsAssumption
    <2> QED
        BY <1>1, <2>1 DEF TimersHold, InFlight
<1>5. RecordsFollow
    BY <1>1 DEF RecordsFollow, FallbackJustified, FailedBefore, NotYet
<1> QED
    BY <1>3, <1>4, <1>5 DEF WalkInv

\* The invariant of the walk.
THEOREM WalkInvariant == Spec => []WalkInv
PROOF
    BY WalkInvInit, WalkInvStep, PTL DEF Spec

\* However many sources there are and however long they take, the walk is over within
\* the budget and one attempt with its pause, and the backstop never fires.
THEOREM WalkIsBounded == Spec => []WalkBounded
PROOF
<1>1. ASSUME WalkInv PROVE WalkBounded
    <2>1. Overrun \in Nat /\ TotalBudgetMs \in Nat
        BY LimitsAssumption, BackoffFits DEF LimitsAssumption
    <2>2. now \in Nat
        BY <1>1 DEF WalkInv, WalkTyped
    <2> QED
        BY <1>1, <2>1, <2>2, InFlightInTime DEF WalkBounded, InFlight, WalkInv, WalkTyped, TimersHold
<1> QED
    BY <1>1, WalkInvariant, PTL

\* Behind every earlier failure there is an attempt, for any number of sources.
THEOREM FallbackIsJustified == Spec => []FallbackJustified
PROOF
<1>1. WalkInv => FallbackJustified
    BY DEF WalkInv, RecordsFollow
<1> QED
    BY <1>1, WalkInvariant, PTL

-----------------------------------------------------------------------------
(* Lists. *)

\* A function from 1 .. n, whatever it lists.
IsList(s) == \E n \in Nat : DOMAIN s = 1 .. n /\ s = [i \in 1 .. n |-> s[i]]

\* A list of members of S is a sequence over S.
LEMMA ListIsSequence ==
    ASSUME NEW s, IsList(s), NEW S, \A i \in DOMAIN s : s[i] \in S
    PROVE  s \in Seq(S) /\ Len(s) \in Nat /\ DOMAIN s = 1 .. Len(s)
PROOF
<1>1. PICK n \in Nat : DOMAIN s = 1 .. n /\ s = [i \in 1 .. n |-> s[i]]
    BY DEF IsList
<1>2. s \in [1 .. n -> S]
    BY <1>1
<1>3. s \in Seq(S)
    BY <1>2
<1> QED
    BY <1>3, LenProperties

\* A concatenation is a list of the members of both.
LEMMA Concatenated ==
    ASSUME NEW s, NEW t, IsList(s), IsList(t)
    PROVE  /\ IsList(s \o t) /\ Len(s \o t) = Len(s) + Len(t)
           /\ Len(s) \in Nat /\ Len(t) \in Nat
           /\ DOMAIN s = 1 .. Len(s) /\ DOMAIN t = 1 .. Len(t)
           /\ DOMAIN (s \o t) = 1 .. (Len(s) + Len(t))
           /\ \A i \in 1 .. Len(s) : (s \o t)[i] = s[i]
           /\ \A i \in 1 .. Len(t) : (s \o t)[Len(s) + i] = t[i]
           /\ \A i \in (Len(s) + 1) .. (Len(s) + Len(t)) :
                 i - Len(s) \in 1 .. Len(t) /\ (s \o t)[i] = t[i - Len(s)]
PROOF
<1> DEFINE S == {s[i] : i \in DOMAIN s} \cup {t[i] : i \in DOMAIN t}
<1>1. (\A i \in DOMAIN s : s[i] \in S) /\ (\A i \in DOMAIN t : t[i] \in S)
    OBVIOUS
<1> HIDE DEF S
<1>2. /\ s \in Seq(S) /\ Len(s) \in Nat /\ DOMAIN s = 1 .. Len(s)
      /\ t \in Seq(S) /\ Len(t) \in Nat /\ DOMAIN t = 1 .. Len(t)
    BY <1>1, ListIsSequence
<1>3. /\ s \o t \in Seq(S)
      /\ Len(s \o t) = Len(s) + Len(t)
      /\ \A i \in 1 .. Len(s) + Len(t) :
            (s \o t)[i] = IF i <= Len(s) THEN s[i] ELSE t[i - Len(s)]
    BY <1>2, ConcatProperties
<1>4. s \o t \in [1 .. Len(s \o t) -> S]
    BY <1>3, LenProperties
<1>5. DOMAIN (s \o t) = 1 .. (Len(s) + Len(t))
    BY <1>3, <1>4
<1>6. IsList(s \o t)
    <2>1. \E n \in Nat : n = Len(s \o t)
        BY <1>2, <1>3
    <2> QED
        BY <1>4, <2>1 DEF IsList
<1>7. \A i \in 1 .. Len(s) : (s \o t)[i] = s[i]
    BY <1>2, <1>3
<1>8. \A i \in (Len(s) + 1) .. (Len(s) + Len(t)) :
         i - Len(s) \in 1 .. Len(t) /\ (s \o t)[i] = t[i - Len(s)]
    BY <1>2, <1>3
<1>9. \A i \in 1 .. Len(t) : (s \o t)[Len(s) + i] = t[i]
    <2>1. ASSUME NEW i \in 1 .. Len(t) PROVE (s \o t)[Len(s) + i] = t[i]
        <3>1. Len(s) + i \in (Len(s) + 1) .. (Len(s) + Len(t)) /\ (Len(s) + i) - Len(s) = i
            BY <1>2
        <3> QED
            BY <1>8, <3>1
    <2> QED
        BY <2>1
<1> QED
    BY <1>2, <1>3, <1>5, <1>6, <1>7, <1>8, <1>9

\* The members of a finite set as a list.
LEMMA ListOfSet ==
    ASSUME NEW S, IsFiniteSet(S)
    PROVE  IsList(SetToSeq(S)) /\ \A i \in DOMAIN SetToSeq(S) : SetToSeq(S)[i] \in S
PROOF
<1>1. Cardinality(S) \in Nat /\ ExistsBijection(1 .. Cardinality(S), S)
    BY FS_CardinalityType
<1>2. \E f \in [1 .. Cardinality(S) -> S] : IsInjective(f)
    BY <1>1 DEF ExistsBijection, Bijection, Injection
<1>3. SetToSeq(S) \in [1 .. Cardinality(S) -> S]
    BY <1>2 DEF SetToSeq
<1> QED
    BY <1>1, <1>3 DEF IsList

-----------------------------------------------------------------------------
(* The positions of a set in order. *)

\* s names n members of S, each greater than the one before.
Rises(s, n, S) == s \in [1 .. n -> S] /\ \A i, j \in 1 .. n : i < j => s[i] < s[j]

\* Every finite set of integers can be put in order, by induction over its size.
LEMMA RisingExists ==
    ASSUME NEW S \in SUBSET Int, IsFiniteSet(S)
    PROVE  \E s : Rises(s, Cardinality(S), S)
PROOF
<1> DEFINE Sized(n) == {T \in SUBSET Int : IsFiniteSet(T) /\ Cardinality(T) = n}
           C == {n \in Nat : \A T \in Sized(n) : \E s : Rises(s, n, T)}
<1>1. 0 \in C
    <2>1. ASSUME NEW T PROVE Rises([i \in {} |-> 0], 0, T)
        <3>1. 1 .. 0 = {}
            OBVIOUS
        <3> QED
            BY <3>1 DEF Rises
    <2> QED
        BY <2>1
<1>2. ASSUME NEW n \in Nat, n \in C PROVE n + 1 \in C
    <2>1. \A U \in Sized(n) : \E s : Rises(s, n, U)
        BY <1>2
    <2>2. ASSUME NEW T \in Sized(n + 1) PROVE \E s : Rises(s, n + 1, T)
        <3>1. T # {}
            BY FS_EmptySet
        <3>2. PICK m \in T : \A k \in T : k <= m
            BY <3>1, FiniteExtremes
        <3>3. T \ {m} \in Sized(n)
            <4>1. IsFiniteSet(T) /\ Cardinality(T) = n + 1 /\ T \in SUBSET Int
                OBVIOUS
            <4>2. IsFiniteSet(T \ {m}) /\ Cardinality(T \ {m}) = (n + 1) - 1
                BY <3>2, <4>1, FS_RemoveElement
            <4> QED
                BY <4>1, <4>2
        <3>4. PICK s : Rises(s, n, T \ {m})
            <4> HIDE DEF Sized
            <4> QED
                BY <2>1, <3>3
        <3> DEFINE r == [i \in 1 .. (n + 1) |-> IF i = n + 1 THEN m ELSE s[i]]
        <3>5. r \in [1 .. (n + 1) -> T]
            BY <3>2, <3>4 DEF Rises
        <3>6. ASSUME NEW i \in 1 .. (n + 1), NEW j \in 1 .. (n + 1), i < j
              PROVE  r[i] < r[j]
            <4>1. i \in 1 .. n /\ r[i] = s[i] /\ s[i] \in T \ {m}
                BY <3>4, <3>6 DEF Rises
            <4>2. CASE j = n + 1
                <5>1. r[j] = m /\ s[i] <= m /\ s[i] # m /\ m \in Int /\ s[i] \in Int
                    BY <3>2, <4>1, <4>2
                <5> QED
                    BY <4>1, <5>1
            <4>3. CASE j # n + 1
                BY <3>4, <3>6, <4>1, <4>3 DEF Rises
            <4> QED
                BY <4>2, <4>3
        <3> QED
            BY <3>5, <3>6 DEF Rises
    <2> QED
        BY <2>2
<1> HIDE DEF C
<1>3. Nat \subseteq C
    BY <1>1, <1>2, NatSetInduction
<1> USE DEF C
<1>4. Cardinality(S) \in Nat /\ S \in Sized(Cardinality(S))
    BY FS_CardinalityType
<1> QED
    BY <1>3, <1>4

\* Each of them once, and as many as there are.
LEMMA AscendingLists ==
    ASSUME NEW S \in SUBSET Int, IsFiniteSet(S)
    PROVE  /\ IsList(Ascending(S)) /\ Len(Ascending(S)) = Cardinality(S)
           /\ Cardinality(S) \in Nat
           /\ DOMAIN Ascending(S) = 1 .. Cardinality(S)
           /\ \A i \in DOMAIN Ascending(S) : Ascending(S)[i] \in S
           /\ Distinct(Ascending(S))
           /\ Range(Ascending(S)) = S
PROOF
<1> DEFINE a == Ascending(S)
           n == Cardinality(S)
<1>1. n \in Nat
    BY FS_CardinalityType
<1>2. \E s \in [1 .. n -> S] : \A i, j \in DOMAIN s : i < j => s[i] < s[j]
    BY RisingExists DEF Rises
<1>3. a \in [1 .. n -> S] /\ \A i, j \in DOMAIN a : i < j => a[i] < a[j]
    BY <1>2 DEF Ascending
<1> HIDE DEF a
<1>4. ASSUME NEW i \in 1 .. n, NEW j \in 1 .. n, a[i] = a[j] PROVE i = j
    <2>1. a[i] \in Int /\ DOMAIN a = 1 .. n
        BY <1>3
    <2>2. ~(i < j) /\ ~(j < i)
        BY <1>3, <1>4, <2>1
    <2> QED
        BY <1>1, <2>2
<1>5. a \in Injection(1 .. n, S)
    BY <1>3, <1>4 DEF Injection, IsInjective
<1>6. IsFiniteSet(1 .. n) /\ Cardinality(1 .. n) = n
    BY <1>1, FS_Interval
<1>7. a \in Surjection(1 .. n, S)
    BY <1>5, <1>6, FS_Injection
<1>8. Range(a) = S
    BY <1>3, <1>7 DEF Range, Surjection
<1>9. a \in Seq(S) /\ Len(a) = n
    BY <1>1, <1>3
<1> QED
    BY <1>1, <1>3, <1>4, <1>8, <1>9 DEF a, IsList, Distinct

-----------------------------------------------------------------------------
(* Powers of ten, and the comparison of decimals. *)

\* g holds the powers of ten up to the n-th.
Powers(g, n) == g = [k \in 0 .. n |-> IF k = 0 THEN 1 ELSE 10 * g[k - 1]]

\* There is one such table,
LEMMA PowersAgree ==
    ASSUME NEW m \in Nat, NEW n \in Nat, NEW g, NEW h, Powers(g, m), Powers(h, n),
           NEW k \in Nat, k <= m, k <= n
    PROVE  g[k] = h[k]
PROOF
<1> DEFINE C == {i \in Nat : i <= m /\ i <= n => g[i] = h[i]}
<1>0. /\ \A i \in 0 .. m : g[i] = IF i = 0 THEN 1 ELSE 10 * g[i - 1]
      /\ \A i \in 0 .. n : h[i] = IF i = 0 THEN 1 ELSE 10 * h[i - 1]
    BY DEF Powers
<1>1. 0 \in C
    BY <1>0
<1>2. ASSUME NEW i \in Nat, i \in C PROVE i + 1 \in C
    <2>1. ASSUME i + 1 <= m, i + 1 <= n PROVE g[i + 1] = h[i + 1]
        <3>1. i + 1 \in 0 .. m /\ i + 1 \in 0 .. n /\ i + 1 # 0 /\ (i + 1) - 1 = i
            BY <2>1
        <3>2. g[i + 1] = 10 * g[i] /\ h[i + 1] = 10 * h[i]
            BY <1>0, <3>1
        <3>3. g[i] = h[i]
            BY <1>2, <2>1
        <3> QED
            BY <3>2, <3>3
    <2> QED
        BY <2>1
<1> HIDE DEF C
<1>3. k \in C
    BY <1>1, <1>2, NatSetInduction
<1> QED
    BY <1>3 DEF C

\* and one of every length.
LEMMA PowersExist ==
    ASSUME NEW n \in Nat
    PROVE  \E g : Powers(g, n)
PROOF
<1> DEFINE C == {i \in Nat : \E g : Powers(g, i)}
<1>1. 0 \in C
    <2>1. Powers([k \in 0 .. 0 |-> 1], 0)
        BY DEF Powers
    <2> QED
        BY <2>1
<1>2. ASSUME NEW i \in Nat, i \in C PROVE i + 1 \in C
    <2>1. PICK g : Powers(g, i)
        BY <1>2
    <2> DEFINE h == [k \in 0 .. (i + 1) |-> IF k = 0 THEN 1 ELSE 10 * g[k - 1]]
    <2>2. ASSUME NEW k \in 0 .. i PROVE h[k] = g[k]
        BY <2>1 DEF Powers
    <2>3. ASSUME NEW k \in 0 .. (i + 1)
          PROVE  h[k] = IF k = 0 THEN 1 ELSE 10 * h[k - 1]
        <3>1. CASE k = 0
            BY <3>1
        <3>2. CASE k # 0
            <4>1. k - 1 \in 0 .. i
                BY <3>2
            <4>2. h[k - 1] = g[k - 1]
                BY <2>2, <4>1
            <4>3. h[k] = 10 * g[k - 1]
                BY <3>2
            <4> HIDE DEF h
            <4> QED
                BY <3>2, <4>2, <4>3
        <3> QED
            BY <3>1, <3>2
    <2>4. DOMAIN h = 0 .. (i + 1) /\ h = [k \in 0 .. (i + 1) |-> h[k]]
        OBVIOUS
    <2> HIDE DEF h
    <2>5. Powers(h, i + 1)
        BY <2>3, <2>4 DEF Powers
    <2> QED
        BY <2>5
<1> HIDE DEF C
<1>3. n \in C
    BY <1>1, <1>2, NatSetInduction
<1> QED
    BY <1>3 DEF C

\* The recursive function computes the powers of ten: it is a table of any length.
LEMMA PowerOfTenRecurs ==
    /\ PowerOfTen[0] = 1
    /\ \A n \in Nat : PowerOfTen[n + 1] = 10 * PowerOfTen[n]
PROOF
<1> DEFINE upto(n) == CHOOSE g : Powers(g, n)
           f == [n \in Nat |-> upto(n)[n]]
<1>1. ASSUME NEW n \in Nat PROVE Powers(upto(n), n)
    BY PowersExist
<1> HIDE DEF upto
<1>2. ASSUME NEW n \in Nat PROVE f[n] = IF n = 0 THEN 1 ELSE 10 * f[n - 1]
    <2>1. upto(n) = [k \in 0 .. n |-> IF k = 0 THEN 1 ELSE 10 * upto(n)[k - 1]]
        BY <1>1 DEF Powers
    <2>2. n \in 0 .. n
        OBVIOUS
    <2>3. upto(n)[n] = IF n = 0 THEN 1 ELSE 10 * upto(n)[n - 1]
        BY <2>1, <2>2
    <2>4. CASE n = 0
        BY <2>3, <2>4
    <2>5. CASE n # 0
        <3>1. n - 1 \in Nat /\ n - 1 <= n - 1 /\ n - 1 <= n
            BY <2>5
        <3>2. Powers(upto(n - 1), n - 1) /\ Powers(upto(n), n)
            BY <1>1, <3>1
        <3>3. upto(n)[n - 1] = upto(n - 1)[n - 1]
            BY <3>1, <3>2, PowersAgree
        <3> QED
            BY <2>3, <2>5, <3>1, <3>3
    <2> QED
        BY <2>4, <2>5
<1>3. f = [n \in Nat |-> f[n]]
    OBVIOUS
<1> HIDE DEF f
<1>4. f = [n \in Nat |-> IF n = 0 THEN 1 ELSE 10 * f[n - 1]]
    BY <1>2, <1>3
<1>5. PowerOfTen = [n \in Nat |-> IF n = 0 THEN 1 ELSE 10 * PowerOfTen[n - 1]]
    BY <1>4 DEF PowerOfTen
<1>6. \A n \in Nat : PowerOfTen[n] = IF n = 0 THEN 1 ELSE 10 * PowerOfTen[n - 1]
    BY <1>5
<1>7. ASSUME NEW n \in Nat PROVE PowerOfTen[n + 1] = 10 * PowerOfTen[n]
    <2>1. n + 1 \in Nat /\ n + 1 # 0 /\ (n + 1) - 1 = n
        OBVIOUS
    <2> QED
        BY <1>6, <2>1
<1> QED
    BY <1>6, <1>7

\* They are positive,
LEMMA PowerOfTenPositive ==
    ASSUME NEW n \in Nat
    PROVE  PowerOfTen[n] \in Nat \ {0}
PROOF
<1> DEFINE C == {i \in Nat : PowerOfTen[i] \in Nat \ {0}}
<1>1. 0 \in C
    BY PowerOfTenRecurs
<1>2. ASSUME NEW i \in Nat, i \in C PROVE i + 1 \in C
    BY <1>2, PowerOfTenRecurs
<1> HIDE DEF C
<1>3. n \in C
    BY <1>1, <1>2, NatSetInduction
<1> QED
    BY <1>3 DEF C

\* and scales add where powers are multiplied.
LEMMA PowerOfTenAdds ==
    ASSUME NEW m \in Nat, NEW n \in Nat
    PROVE  PowerOfTen[m + n] = PowerOfTen[m] * PowerOfTen[n]
PROOF
<1> DEFINE C == {i \in Nat : PowerOfTen[m + i] = PowerOfTen[m] * PowerOfTen[i]}
<1>0. \A i \in Nat : PowerOfTen[i] \in Int
    BY PowerOfTenPositive
<1>1. 0 \in C
    BY <1>0, PowerOfTenRecurs
<1>2. ASSUME NEW i \in Nat, i \in C PROVE i + 1 \in C
    <2>1. PowerOfTen[m + i] = PowerOfTen[m] * PowerOfTen[i]
        BY <1>2
    <2>2. m + i \in Nat /\ m + (i + 1) = (m + i) + 1
        OBVIOUS
    <2>3. PowerOfTen[m + (i + 1)] = 10 * PowerOfTen[m + i]
        BY <2>2, PowerOfTenRecurs
    <2>4. PowerOfTen[i + 1] = 10 * PowerOfTen[i]
        BY PowerOfTenRecurs
    <2>5. ASSUME NEW a \in Int, NEW b \in Int PROVE 10 * (a * b) = a * (10 * b)
        BY <2>5
    <2>6. PowerOfTen[m] \in Int /\ PowerOfTen[i] \in Int
        BY <1>0
    <2>7. 10 * (PowerOfTen[m] * PowerOfTen[i]) = PowerOfTen[m] * (10 * PowerOfTen[i])
        BY <2>5, <2>6
    <2> QED
        BY <2>1, <2>3, <2>4, <2>7
<1> HIDE DEF C
<1>3. n \in C
    BY <1>1, <1>2, NatSetInduction
<1> QED
    BY <1>3 DEF C

\* What parseDecimal() returns: a sign, digits and a scale.
IsDecimal(d) == d.digits \in Nat /\ d.scale \in Nat /\ d.negative \in BOOLEAN

\* Bringing both to one scale and comparing is the same as multiplying across.
LEMMA ScaledComparesAcross ==
    ASSUME NEW a, NEW b, IsDecimal(a), IsDecimal(b)
    PROVE  LET s == Larger(a.scale, b.scale)
           IN  /\ Scaled(a, s) \in Int /\ Scaled(b, s) \in Int
               /\ Scaled(a, s) < Scaled(b, s) <=> Below(a, b)
               /\ Scaled(b, s) < Scaled(a, s) <=> Below(b, a)
PROOF
<1> DEFINE s == Larger(a.scale, b.scale)
           x == ApplySign(a, a.digits)
           y == ApplySign(b, b.digits)
<1>1. s \in Nat /\ s - a.scale \in Nat /\ s - b.scale \in Nat /\ x \in Int /\ y \in Int
      /\ a.scale \in Nat /\ b.scale \in Nat
    BY DEF IsDecimal, Larger, ApplySign
<1>2. ASSUME NEW p \in Int, NEW q \in Int, NEW n \in Int PROVE -(p * q) = (-p) * q
    BY <1>2
<1> DEFINE P == PowerOfTen[a.scale]
           Q == PowerOfTen[b.scale]
           U == PowerOfTen[s - a.scale]
           V == PowerOfTen[s - b.scale]
<1> HIDE DEF s
<1>3. P \in Nat \ {0} /\ Q \in Nat \ {0} /\ U \in Nat \ {0} /\ V \in Nat \ {0}
    BY <1>1, PowerOfTenPositive
<1>4. P * U = Q * V
    <2>1. a.scale + (s - a.scale) = b.scale + (s - b.scale)
        BY <1>1
    <2>2. PowerOfTen[a.scale + (s - a.scale)] = P * U
        BY <1>1, PowerOfTenAdds
    <2>3. PowerOfTen[b.scale + (s - b.scale)] = Q * V
        BY <1>1, PowerOfTenAdds
    <2> QED
        BY <2>1, <2>2, <2>3
<1>5. Scaled(a, s) = x * U /\ Scaled(b, s) = y * V
    <2>1. a.digits \in Int /\ b.digits \in Int /\ U \in Int /\ V \in Int
        BY <1>3 DEF IsDecimal
    <2> HIDE DEF U, V
    <2>2. ApplySign(a, a.digits * U) = x * U /\ ApplySign(b, b.digits * V) = y * V
        BY <1>2, <2>1 DEF ApplySign
    <2> USE DEF U, V
    <2> QED
        BY <2>2 DEF Scaled
<1>6. /\ Below(a, b) <=> x * Q < y * P
      /\ Below(b, a) <=> y * P < x * Q
    BY DEF Below
<1> HIDE DEF x, y, P, Q, U, V
\* Both sides of one comparison are a positive multiple of the other's.
<1>7. (x * U) * (P * Q) = (x * Q) * (P * U) /\ (y * V) * (P * Q) = (y * P) * (Q * V)
    BY <1>1, <1>3, SMTT(30)
<1>8. ASSUME NEW i \in Int, NEW j \in Int, NEW k \in Nat \ {0}
      PROVE  i < j <=> i * k < j * k
    <2>1. i < j => i * k < j * k
        <3>1. SUFFICES ASSUME i < j PROVE i * k < j * k
            OBVIOUS
        <3>2. (j - i) * k > 0 /\ (j - i) * k = j * k - i * k
            BY <3>1
        <3> QED
            BY <3>2
    <2>2. j <= i => j * k <= i * k
        <3>1. SUFFICES ASSUME j <= i PROVE j * k <= i * k
            OBVIOUS
        <3>2. (i - j) * k >= 0 /\ (i - j) * k = i * k - j * k
            BY <3>1
        <3> QED
            BY <3>2
    <2> QED
        BY <2>1, <2>2
<1>9. /\ x * U \in Int /\ y * V \in Int /\ x * Q \in Int /\ y * P \in Int
      /\ P * Q \in Nat \ {0} /\ P * U \in Nat \ {0}
    BY <1>1, <1>3
<1> DEFINE xu == x * U
           yv == y * V
           xq == x * Q
           yp == y * P
           pq == P * Q
           pu == P * U
<1>10. xu * pq = xq * pu /\ yv * pq = yp * pu
    BY <1>4, <1>7
<1>11. /\ xu \in Int /\ yv \in Int /\ xq \in Int /\ yp \in Int
       /\ pq \in Nat \ {0} /\ pu \in Nat \ {0}
    BY <1>9
<1>12. /\ Scaled(a, s) = xu /\ Scaled(b, s) = yv
       /\ Below(a, b) <=> xq < yp
       /\ Below(b, a) <=> yp < xq
    BY <1>5, <1>6
<1> HIDE DEF xu, yv, xq, yp, pq, pu
<1>13. /\ xu < yv <=> xu * pq < yv * pq
       /\ yv < xu <=> yv * pq < xu * pq
       /\ xq < yp <=> xq * pu < yp * pu
       /\ yp < xq <=> yp * pu < xq * pu
    BY <1>8, <1>11
<1>14. (xu < yv <=> xq < yp) /\ (yv < xu <=> yp < xq)
    BY <1>10, <1>13
<1> QED
    BY <1>11, <1>12, <1>14 DEF s

\* The exact comparison says which of two decimals is below the other.
LEMMA CompareDecimalIsExact ==
    ASSUME NEW a, NEW b, IsDecimal(a), IsDecimal(b)
    PROVE  /\ CompareDecimal(a, b) \in {-1, 0, 1}
           /\ CompareDecimal(a, b) = -1 <=> Below(a, b)
           /\ CompareDecimal(a, b) = 1 <=> Below(b, a)
           /\ ~(Below(a, b) /\ Below(b, a))
PROOF
<1> DEFINE s == Larger(a.scale, b.scale)
           x == Scaled(a, s)
           y == Scaled(b, s)
<1>1. x \in Int /\ y \in Int /\ (x < y <=> Below(a, b)) /\ (y < x <=> Below(b, a))
    BY ScaledComparesAcross
<1>2. CompareDecimal(a, b) = IF x < y THEN -1 ELSE IF x > y THEN 1 ELSE 0
    BY DEF CompareDecimal
<1> HIDE DEF x, y
<1> QED
    BY <1>1, <1>2

-----------------------------------------------------------------------------
(* What was read, and when. *)

\* The record of source i has the body of something the source may answer, and what
\* the source's selector makes of it.
FromAnAnswer(record, i) ==
    \E answer \in Answers :
        /\ answer.kind = "body" /\ record.body = answer.body
        /\ record.selection = Selection(spec.sources[i], answer.body)

\* A record is of the past, and one of a source that was read holds an answer's body.
RecordsKept ==
    \A i \in 1 .. Count :
        /\ i < at => records[i].retrievedAt \in 0 .. now
        /\ records[i].status = "RETRIEVED" => FromAnAnswer(records[i], i)

\* A record that is made now keeps the records so,
LEMMA ConcludeKeeps ==
    ASSUME WalkInv, RecordsKept, at \in 1 .. Count, NEW record, Conclude(record),
           record.retrievedAt \in 0 .. now,
           record.status = "RETRIEVED" => FromAnAnswer(record, at)
    PROVE  RecordsKept'
PROOF
<1>1. /\ records' = [records EXCEPT ![at] = record] /\ at' = at + 1 /\ spec' = spec /\ now' = now
    BY DEF Conclude
<1>2. /\ \A i \in 1 .. Count : records'[i] = IF i = at THEN record ELSE records[i]
      /\ Count' = Count /\ Count \in Nat
    BY <1>1, CountIsNat DEF WalkInv, WalkTyped, Count
<1>3. ASSUME NEW i \in 1 .. Count
      PROVE  /\ i < at' => records'[i].retrievedAt \in 0 .. now'
             /\ records'[i].status = "RETRIEVED" => FromAnAnswer(records[i], i)'
    <2>1. CASE i = at
        BY <1>1, <1>2, <2>1 DEF FromAnAnswer
    <2>2. CASE i # at
        BY <1>1, <1>2, <2>2 DEF RecordsKept, FromAnAnswer
    <2> QED
        BY <2>1, <2>2
<1> QED
    BY <1>2, <1>3 DEF RecordsKept

\* the record of a failure among them.
LEMMA FailedKeeps ==
    ASSUME WalkInv, RecordsKept, at \in 1 .. Count, NEW kind, NEW tries, Failed(kind, tries)
    PROVE  RecordsKept'
PROOF
<1> DEFINE record == [status |-> FailureStatus(kind), failure |-> kind, retrievedAt |-> now,
                      attempts |-> tries]
<1>1. Conclude(record) /\ record.retrievedAt = now /\ record.status # "RETRIEVED"
    BY DEF Failed, FailureStatus
<1>2. now \in 0 .. now
    BY DEF WalkInv, WalkTyped
<1> HIDE DEF record
<1> QED
    BY <1>1, <1>2, ConcludeKeeps

\* Nothing is recorded, and no time is taken back.
LEMMA StayingKeeps ==
    ASSUME WalkInv, RecordsKept, now' \in Nat, now' >= now, UNCHANGED <<spec, at, records>>
    PROVE  RecordsKept'
PROOF
    BY DEF WalkInv, WalkTyped, RecordsKept, FromAnAnswer, Count

\* An attempt that fails is recorded, or tried again.
LEMMA FailsKeeps ==
    ASSUME WalkInv, RecordsKept, at \in 1 .. Count, NEW fault, Fails(fault)
    PROVE  RecordsKept'
PROOF
<1>1. now \in Nat
    BY DEF WalkInv, WalkTyped
<1> QED
    BY <1>1, FailedKeeps, StayingKeeps DEF Fails

\* What was attempted stands before the walk.
LEMMA AttemptedLieBehind ==
    ASSUME WalkInv
    PROVE  /\ Attempted \subseteq {i \in 1 .. Count : i < at}
           /\ \A i \in 1 .. Count : i < at => records[i].status # "NOT_YET"
PROOF
    BY CountIsNat DEF WalkInv, WalkTyped, RecordsFollow, Attempted, NotYet

\* The latest of the instants recorded is one of them.
LEMMA LatestIsRecorded ==
    ASSUME WalkInv, RecordsKept, Attempted # {}
    PROVE  Max({records[i].retrievedAt : i \in Attempted}) \in 0 .. now
PROOF
<1> DEFINE T == {records[i].retrievedAt : i \in Attempted}
<1>1. now \in Nat
    BY DEF WalkInv, WalkTyped
<1>2. T \subseteq 0 .. now /\ T # {}
    BY AttemptedLieBehind DEF RecordsKept
<1> HIDE DEF T
<1>3. IsFiniteSet(T) /\ T \in SUBSET Int
    <2>1. IsFiniteSet(0 .. now)
        BY <1>1, FS_Interval
    <2>2. IsFiniteSet(T)
        BY <1>2, <2>1, FS_Subset
    <2>3. T \in SUBSET Int
        BY <1>1, <1>2
    <2> QED
        BY <2>2, <2>3
<1>4. \E m \in T : \A k \in T : k <= m
    BY <1>2, <1>3, FiniteExtremes
<1>5. \E m \in T : \A k \in T : m >= k
    BY <1>3, <1>4
<1>6. Max(T) \in T
    BY <1>5 DEF Max
<1> QED
    BY <1>2, <1>6 DEF T

\* A source skipped after one that was read is dated by the records before it.
LEMMA SkipKeeps ==
    ASSUME WalkInv, RecordsKept, Skip
    PROVE  RecordsKept'
PROOF
<1> DEFINE last == IF Attempted = {} THEN 0 ELSE Max({records[i].retrievedAt : i \in Attempted})
           record == [status |-> "NOT_ATTEMPTED", attempts |-> 0, retrievedAt |-> last]
<1>1. last \in 0 .. now
    BY LatestIsRecorded DEF WalkInv, WalkTyped
<1>2. Conclude(record)
    BY DEF Skip
<1>3. at \in 1 .. Count
    BY CountIsNat DEF Skip, WalkInv, WalkTyped
<1> HIDE DEF last
<1>4. record.retrievedAt = last /\ record.status # "RETRIEVED"
    OBVIOUS
<1> HIDE DEF record
<1> QED
    BY <1>1, <1>2, <1>3, <1>4, ConcludeKeeps

\* An answer is recorded with its body, or its attempt fails, or it redirects.
LEMMA AnsweredKeeps ==
    ASSUME WalkInv, RecordsKept, Answered
    PROVE  RecordsKept'
PROOF
<1>1. InFlight
    BY DEF Answered, InFlight
<1>2. at \in 1 .. Count /\ now \in Nat
    BY <1>1, InFlightInTime DEF WalkInv, WalkTyped
<1>3. PICK answer \in Answers :
        \/ Redirected(answer.to)
        \/ answer.kind = "body" /\ Read(answer)
        \/ \E fault : Fails(fault)
    BY DEF Answered
<1>4. CASE \E fault : Fails(fault)
    BY <1>2, <1>4, FailsKeeps
<1>5. CASE Redirected(answer.to)
    <2>1. (\E fault : Fails(fault)) \/ UNCHANGED <<spec, now, at, attempts, wake, records>>
        BY <1>5 DEF Redirected
    <2> QED
        BY <1>2, <1>4, <2>1, StayingKeeps
<1>6. CASE answer.kind = "body" /\ Read(answer)
    <2> DEFINE record == [status |-> "RETRIEVED", retrievedAt |-> now, attempts |-> attempts,
                          body |-> answer.body,
                          selection |-> Selection(spec.sources[at], answer.body)]
    <2>1. (\E fault : Fails(fault)) \/ Conclude(record)
        BY <1>6 DEF Read
    <2>2. CASE Conclude(record)
        <3>1. FromAnAnswer(record, at)
            BY <1>6 DEF FromAnAnswer
        <3>2. record.retrievedAt = now
            OBVIOUS
        <3>3. now \in 0 .. now
            BY <1>2
        <3> HIDE DEF record
        <3> QED
            BY <1>2, <2>2, <3>1, <3>2, <3>3, ConcludeKeeps
    <2> QED
        BY <1>4, <2>1, <2>2
<1> QED
    BY <1>3, <1>4, <1>5, <1>6

\* One step of a resolution, per step of the walk.
LEMMA RecordsKeptStep ==
    ASSUME WalkInv, RecordsKept, [Next]_engineVars
    PROVE  RecordsKept'
PROOF
<1>0. now \in Nat
    BY DEF WalkInv, WalkTyped
<1>1. CASE Skip
    BY <1>1, SkipKeeps
<1>2. CASE Refuse
    <2>1. at \in 1 .. Count
        BY <1>2, CountIsNat DEF Refuse, WalkInv, WalkTyped
    <2> QED
        BY <1>2, <2>1, FailedKeeps DEF Refuse
<1>3. CASE Begin
    BY <1>0, <1>3, StayingKeeps DEF Begin, Attempt
<1>4. CASE Retry
    <2>1. at \in 1 .. Count
        BY <1>4, CountIsNat DEF Retry, WalkInv, WalkTyped, RecordsFollow
    <2> QED
        BY <1>0, <1>4, <2>1, FailedKeeps, StayingKeeps DEF Retry, Attempt
<1>5. CASE Resolved
    <2>1. at \in 1 .. Count
        BY <1>5, InFlightInTime DEF Resolved, InFlight
    <2>2. (\E fault : Fails(fault)) \/ UNCHANGED <<spec, now, at, attempts, wake, records>>
        BY <1>5 DEF Resolved
    <2> QED
        BY <1>0, <2>1, <2>2, FailsKeeps, StayingKeeps
<1>6. CASE Answered
    BY <1>6, AnsweredKeeps
<1>7. CASE Expired
    <2>1. at \in 1 .. Count
        BY <1>7, InFlightInTime DEF Expired, withDeadline, InFlight
    <2> QED
        BY <1>7, <2>1, FailsKeeps DEF Expired
<1>8. CASE Tick
    BY <1>0, <1>8, StayingKeeps DEF Tick
<1>9. CASE UNCHANGED walkVars
    BY <1>0, <1>9, StayingKeeps DEF walkVars
<1>10. Examine \/ ModelFails \/ ModelAnswers \/ UNCHANGED engineVars => UNCHANGED walkVars
    BY DEF Examine, ModelFails, ModelAnswers, Finish, engineVars
<1> QED
    BY <1>1, <1>2, <1>3, <1>4, <1>5, <1>6, <1>7, <1>8, <1>9, <1>10
    DEF Next, Concluded, Walk, WalkStep

\* At most one source is used: whatever stands before it failed.
LEMMA OneIsUsed ==
    ASSUME WalkInv, NEW i \in Primary, NEW j \in Primary
    PROVE  i = j /\ Retrieved(records) = Primary /\ Primary \subseteq 1 .. Count /\ i \in Int
PROOF
<1>1. i \in Int /\ j \in Int /\ i \in 1 .. Count /\ j \in 1 .. Count
      /\ records[i].status = "RETRIEVED" /\ records[j].status = "RETRIEVED"
    BY CountIsNat DEF Primary, WalkInv, WalkTyped
<1>2. ASSUME NEW a \in 1 .. Count, NEW b \in 1 .. Count, records[a].status = "RETRIEVED",
             records[b].status = "RETRIEVED"
      PROVE  ~(a < b)
    <2>1. a < b => a \in 1 .. (b - 1)
        BY CountIsNat DEF WalkInv, WalkTyped
    <2> QED
        BY <1>2, <2>1 DEF WalkInv, RecordsFollow, FallbackJustified
<1> QED
    BY <1>1, <1>2 DEF Primary, Retrieved, WalkInv, WalkTyped

\* What the record of a used source gives a check.
LEMMA ObservationIsRepresented ==
    ASSUME WalkInv, RecordsKept, NEW i \in Primary, NEW pointer
    PROVE  IsRepresented(ReadObservation(records[i], pointer))
PROOF
<1>1. i \in 1 .. Count /\ records[i].status = "RETRIEVED"
    BY DEF Primary
<1>2. PICK answer \in Answers :
        /\ answer.kind = "body" /\ records[i].body = answer.body
        /\ records[i].selection = Selection(spec.sources[i], answer.body)
    BY <1>1 DEF RecordsKept, FromAnAnswer
<1>3. \A p \in DOMAIN answer.body.at : IsRepresented(answer.body.at[p])
    BY <1>2, TextsAssumption DEF TextsAssumption
<1>4. IsRepresented(Null) /\ IsRepresented(Undefined) /\ IsRepresented([sort |-> "null"])
    BY DEF IsRepresented, Null, Undefined
<1>5. IsRepresented(records[i].selection.value)
    BY <1>2, <1>3, <1>4 DEF Selection, resolveJsonPointer
<1>6. \A value : IsRepresented(value) => IsRepresented(Scalar(value))
    BY <1>4 DEF Scalar
<1>7. CASE pointer = "none"
    BY <1>5, <1>6, <1>7 DEF ReadObservation
<1>8. CASE pointer # "none"
    BY <1>2, <1>3, <1>4, <1>6, <1>8 DEF ReadObservation
<1> QED
    BY <1>7, <1>8

-----------------------------------------------------------------------------
(* The stages of a resolution. *)

\* A plan that was accepted; a walk that is over once its stage is left; and a result
\* only at the end.
Stages ==
    /\ stage \in {"retrieving", "model", "done"}
    /\ plan \in Plans /\ PlanIsAccepted(spec, plan)
    /\ stage # "retrieving" => WalkOver
    /\ stage # "done" => result = NoResult

\* The inductive invariant of a resolution.
EngineInv == WalkInv /\ RecordsKept /\ Stages

\* A resolution begins with nothing recorded,
LEMMA EngineInvInit == EngineInit => EngineInv
PROOF
<1> SUFFICES ASSUME EngineInit PROVE EngineInv
    OBVIOUS
<1>1. WalkInv
    BY WalkInvInit
<1>2. at = 1 /\ records = [i \in 1 .. Count |-> NotYet]
    BY DEF EngineInit, WalkInit
<1>3. RecordsKept
    BY <1>2 DEF RecordsKept, NotYet
<1>4. Stages
    BY DEF EngineInit, Stages
<1> QED
    BY <1>1, <1>3, <1>4 DEF EngineInv

\* and every step of the walk, the engine and the model keeps it.
LEMMA EngineInvStep ==
    ASSUME EngineInv, [Next]_engineVars
    PROVE  EngineInv'
PROOF
<1>1. WalkInv' /\ RecordsKept'
    BY WalkInvStep, RecordsKeptStep DEF EngineInv
<1>2. spec' = spec
    BY DEF Next, Walk, WalkStep, Skip, Refuse, Begin, Retry, Resolved, Answered, Expired, Tick,
           Attempt, Failed, Fails, Conclude, Redirected, Read, Examine, ModelFails, ModelAnswers,
           Finish, Concluded, engineVars, walkVars
<1>3. plan' = plan /\ plan' \in Plans /\ PlanIsAccepted(spec', plan')
    <2>1. plan' = plan
        BY DEF Next, Walk, Examine, ModelFails, ModelAnswers, Finish, Concluded, engineVars
    <2> QED
        BY <1>2, <2>1 DEF EngineInv, Stages
<1>4. ASSUME Walk PROVE Stages'
    BY <1>3, <1>4 DEF Walk, EngineInv, Stages
<1>5. ASSUME Examine \/ ModelFails \/ ModelAnswers PROVE Stages'
    <2>1. UNCHANGED walkVars
        BY <1>5 DEF Examine, ModelFails, ModelAnswers, Finish
    <2>2. WalkOver' = WalkOver
        BY <2>1 DEF WalkOver, Count, walkVars
    <2> QED
        BY <1>3, <1>5, <2>2
        DEF Examine, ModelFails, ModelAnswers, Finish, EngineInv, Stages, WalkOver
<1>6. ASSUME UNCHANGED engineVars PROVE Stages'
    BY <1>3, <1>6 DEF engineVars, walkVars, EngineInv, Stages, WalkOver, Count
<1>7. Stages'
    BY <1>4, <1>5, <1>6 DEF Next, Concluded
<1> QED
    BY <1>1, <1>7 DEF EngineInv

\* Throughout a resolution the walk keeps its books, every record of a source that was
\* read holds an answer that was given, no later than now, and what is examined or asked
\* of the model is asked when the walk is over.
THEOREM EngineInvariant == Spec => []EngineInv
PROOF
    BY EngineInvInit, EngineInvStep, PTL DEF Spec

-----------------------------------------------------------------------------
(* The checks of a plan, and those about the sources that were tried. *)

\* The sources an availability check is made of.
Tried == {i \in DOMAIN records : records[i].status # Unread}

\* The checks of a package: those of the plan, in its order, then one per source tried.
LEMMA ChecksAreListed ==
    ASSUME EngineInv
    PROVE  LET n == Len(plan.checks)
               tried == Ascending(Tried)
               checks == Checks(spec, plan, records)
           IN  /\ n \in Nat \ {0} /\ n <= MaxChecks /\ Cardinality(Tried) \in Nat
               /\ DOMAIN checks = 1 .. (n + Cardinality(Tried))
               /\ Len(checks) = n + Cardinality(Tried)
               /\ \A i \in 1 .. n : checks[i] = Run(spec, plan.checks[i], records)
               /\ \A i \in (n + 1) .. (n + Cardinality(Tried)) :
                     /\ i - n \in DOMAIN tried /\ tried[i - n] \in Tried
                     /\ checks[i] = AvailabilityCheck(records, tried[i - n])
               /\ Distinct(tried)
PROOF
<1> DEFINE n == Len(plan.checks)
           tried == Ascending(Tried)
           runs == [i \in 1 .. n |-> Run(spec, plan.checks[i], records)]
           extra == [k \in DOMAIN tried |-> AvailabilityCheck(records, tried[k])]
<1>1. n \in Nat \ {0} /\ n <= MaxChecks
    BY ListsAssumption DEF EngineInv, Stages, PlanIsAccepted, PlanIsValid, ListsAssumption
<1>2. Tried \in SUBSET Int /\ IsFiniteSet(Tried)
    <2>1. DOMAIN records = 1 .. Count /\ Count \in Nat
        BY CountIsNat DEF EngineInv, WalkInv, WalkTyped
    <2>2. IsFiniteSet(1 .. Count)
        BY <2>1, FS_Interval
    <2> QED
        BY <2>1, <2>2, FS_Subset DEF Tried
<1> DEFINE m == Cardinality(Tried)
<1>3. /\ IsList(tried) /\ DOMAIN tried = 1 .. m /\ m \in Nat
      /\ \A k \in DOMAIN tried : tried[k] \in Tried
      /\ Distinct(tried)
    BY <1>2, AscendingLists
<1> HIDE DEF n, tried, m
<1>4. DOMAIN runs = 1 .. n /\ IsList(runs) /\ DOMAIN extra = 1 .. m /\ IsList(extra)
    BY <1>1, <1>3 DEF IsList
<1>5. Checks(spec, plan, records) = runs \o extra
    BY DEF Checks, AvailabilityChecks, Tried, n, tried
<1>6. \A i \in 1 .. n : runs[i] = Run(spec, plan.checks[i], records)
    OBVIOUS
<1>7. \A k \in 1 .. m : extra[k] = AvailabilityCheck(records, tried[k])
    BY <1>4
<1> HIDE DEF runs, extra
<1>8. n = Len(runs) /\ m = Len(extra)
    <2>1. Len(runs) \in Nat /\ Len(extra) \in Nat
          /\ 1 .. n = 1 .. Len(runs) /\ 1 .. m = 1 .. Len(extra)
        BY <1>4, Concatenated
    <2>2. ASSUME NEW a \in Nat, NEW b \in Nat, 1 .. a = 1 .. b PROVE a = b
        BY <2>2
    <2> QED
        BY <1>1, <1>3, <2>1, <2>2
<1>9. /\ DOMAIN (runs \o extra) = 1 .. (n + m) /\ Len(runs \o extra) = n + m
      /\ \A i \in 1 .. n : (runs \o extra)[i] = runs[i]
      /\ \A i \in (n + 1) .. (n + m) :
            i - n \in 1 .. m /\ (runs \o extra)[i] = extra[i - n]
    BY <1>4, <1>8, Concatenated
<1>10. \A i \in (n + 1) .. (n + m) :
          /\ i - n \in DOMAIN tried /\ tried[i - n] \in Tried
          /\ (runs \o extra)[i] = AvailabilityCheck(records, tried[i - n])
    BY <1>3, <1>7, <1>9
<1> QED
    BY <1>1, <1>3, <1>5, <1>6, <1>9, <1>10 DEF n, tried, m

\* The verdict looks at the checks of the plan and at no others.
LEMMA VerdictIsOfThePlan ==
    ASSUME EngineInv
    PROVE  LET results == {Run(spec, plan.checks[i], records).result : i \in 1 .. Len(plan.checks)}
           IN  Verdict(spec, plan, records) =
                  IF "INDETERMINATE" \in results THEN "NEEDS_REVIEW"
                  ELSE IF "FAIL" \in results THEN "REFUTED" ELSE "SATISFIED"
PROOF
<1> DEFINE n == Len(plan.checks)
           m == Cardinality(Tried)
           checks == Checks(spec, plan, records)
           results == {Run(spec, plan.checks[i], records).result : i \in 1 .. n}
           decided == {checks[i].result : i \in {k \in DOMAIN checks : ~checks[k].informational}}
<1>1. /\ n \in Nat \ {0} /\ m \in Nat /\ DOMAIN checks = 1 .. (n + m)
      /\ \A i \in 1 .. n : checks[i] = Run(spec, plan.checks[i], records)
      /\ \A i \in (n + 1) .. (n + m) : \E k : checks[i] = AvailabilityCheck(records, k)
    BY ChecksAreListed
<1>2. \A check : Run(spec, check, records).informational = FALSE
    BY DEF Run
<1>3. \A k : AvailabilityCheck(records, k).informational = TRUE
    BY DEF AvailabilityCheck
<1> HIDE DEF n, m, checks
<1>4. {k \in DOMAIN checks : ~checks[k].informational} = 1 .. n
    <2>1. ASSUME NEW k \in 1 .. (n + m) PROVE k \in 1 .. n \/ k \in (n + 1) .. (n + m)
        BY <1>1
    <2>2. 1 .. n \subseteq 1 .. (n + m)
        BY <1>1
    <2> QED
        BY <1>1, <1>2, <1>3, <2>1, <2>2
<1>5. decided = results
    <2>1. decided = {checks[i].result : i \in 1 .. n}
        BY <1>4
    <2>2. \A i \in 1 .. n : checks[i].result = Run(spec, plan.checks[i], records).result
        BY <1>1
    <2> QED
        BY <2>1, <2>2
<1>6. results # {}
    <2>1. 1 \in 1 .. n
        BY <1>1
    <2> QED
        BY <2>1
<1>7. Verdict(spec, plan, records) =
         IF decided = {} \/ "INDETERMINATE" \in decided THEN "NEEDS_REVIEW"
         ELSE IF "FAIL" \in decided THEN "REFUTED" ELSE "SATISFIED"
    BY DEF Verdict, VerdictFrom, checks
<1> QED
    BY <1>5, <1>6, <1>7 DEF n

-----------------------------------------------------------------------------
(* A payout is what the approved value makes of the plan's criteria. *)

\* A check of an accepted plan holds of a text exactly when its validator passes it.
LEMMA CheckHolds ==
    ASSUME NEW check, NEW text, CheckIsShaped(check), CheckIsWellFormed(check),
           IsRepresented(text),
           check.kind = "NUMERIC_COMPARISON" => IsRepresented(check.threshold),
           check.kind = "NUMERIC_RANGE" => IsRepresented(check.low) /\ IsRepresented(check.high),
           Result(check, text, spec.deadline) # "INDETERMINATE"
    PROVE  /\ Result(check, text, spec.deadline) \in {"PASS", "FAIL"}
           /\ Result(check, text, spec.deadline) = "PASS" <=> HoldsOf(check, text)
           /\ text # Null
PROOF
<1>1. CASE check.kind = "NUMERIC_COMPARISON"
    <2>1. Result(check, text, spec.deadline) = NumericComparison(check, text)
        BY <1>1 DEF Result
    <2>2. text.sort = "decimal" /\ check.threshold.sort = "decimal"
        BY <1>1, <2>1 DEF NumericComparison, CheckIsWellFormed
    <2>3. IsDecimal(text) /\ IsDecimal(check.threshold)
        BY <1>1, <2>2 DEF IsRepresented, IsDecimal
    <2> DEFINE c == CompareDecimal(text, check.threshold)
    <2>4. /\ c \in {-1, 0, 1}
          /\ c = -1 <=> Below(text, check.threshold)
          /\ c = 1 <=> Below(check.threshold, text)
          /\ ~(Below(text, check.threshold) /\ Below(check.threshold, text))
        BY <2>3, CompareDecimalIsExact
    <2> HIDE DEF c
    <2>5. check.operator \in NumericOperators
        BY <1>1 DEF CheckIsShaped
    <2>6. ApplyNumericOperator(c, check.operator) <=> Compares(check, text)
        <3>1. c = -1 \/ c = 0 \/ c = 1
            BY <2>4
        <3> QED
            BY <2>4, <2>5, <3>1 DEF NumericOperators, ApplyNumericOperator, Compares
    <2>7. HoldsOf(check, text) <=> Compares(check, text)
        BY <1>1, <2>2 DEF HoldsOf
    <2>8. NumericComparison(check, text) = Passes(ApplyNumericOperator(c, check.operator))
        BY <2>2 DEF NumericComparison, c
    <2> QED
        BY <2>1, <2>2, <2>6, <2>7, <2>8 DEF Passes, Null
<1>2. CASE check.kind = "NUMERIC_RANGE"
    <2>1. Result(check, text, spec.deadline) = NumericRange(check, text)
        BY <1>2 DEF Result
    <2>2. text.sort = "decimal" /\ check.low.sort = "decimal" /\ check.high.sort = "decimal"
        BY <1>2, <2>1 DEF NumericRange, CheckIsWellFormed
    <2>3. IsDecimal(text) /\ IsDecimal(check.low) /\ IsDecimal(check.high)
        BY <1>2, <2>2 DEF IsRepresented, IsDecimal
    <2>4. /\ CompareDecimal(text, check.low) \in {-1, 0, 1}
          /\ CompareDecimal(text, check.low) = -1 <=> Below(text, check.low)
        BY <2>3, CompareDecimalIsExact
    <2>5. /\ CompareDecimal(text, check.high) \in {-1, 0, 1}
          /\ CompareDecimal(text, check.high) = 1 <=> Below(check.high, text)
        BY <2>3, CompareDecimalIsExact
    <2>6. WithinInclusiveRange(text, check.low, check.high)
             <=> ~Below(text, check.low) /\ ~Below(check.high, text)
        BY <2>4, <2>5 DEF WithinInclusiveRange
    <2>7. HoldsOf(check, text) <=> ~Below(text, check.low) /\ ~Below(check.high, text)
        BY <1>2, <2>2 DEF HoldsOf
    <2> QED
        BY <2>1, <2>2, <2>6, <2>7 DEF NumericRange, Passes, Null
<1>3. CASE check.kind \in {"TEMPORAL_COMPARISON", "BOOLEAN_MATCH", "CATEGORICAL_MATCH"}
    <2>1. Result(check, text, spec.deadline) \in {"PASS", "FAIL"} /\ text # Null
        BY <1>3 DEF Result, TemporalComparison, BooleanMatch, CategoricalMatch, Passes, Null
    <2>2. HoldsOf(check, text) <=> Result(check, text, spec.deadline) = "PASS"
        BY <1>3 DEF HoldsOf
    <2> QED
        BY <2>1, <2>2
<1> QED
    BY <1>1, <1>2, <1>3 DEF CheckIsShaped

\* A check that was decided read the one source that is used.
LEMMA ObservedIsOfTheUsed ==
    ASSUME EngineInv, NEW p \in Primary, NEW check, Observed(check, records) # Null
    PROVE  Observed(check, records) = ReadObservation(records[p], check.pointer)
PROOF
<1>1. Readings(check, records) # {} /\ Readings(check, records) \subseteq Retrieved(records)
    BY DEF Observed, Readings
<1>2. Retrieved(records) = {p} /\ p \in Int
    BY OneIsUsed DEF EngineInv
<1>3. Readings(check, records) = {p}
    BY <1>1, <1>2
<1>4. \A q \in {p} : (\A y \in {p} : q <= y) <=> q = p
    BY <1>2
<1>5. Min({p}) = p
    BY <1>4 DEF Min
<1> QED
    BY <1>1, <1>3, <1>5 DEF Observed

\* What a check reads is represented as the assumption says, if it reads anything.
LEMMA ObservedIsRepresented ==
    ASSUME EngineInv, NEW check
    PROVE  IsRepresented(Observed(check, records))
PROOF
<1>1. CASE Observed(check, records) # Null
    <2>1. PICK p \in Primary : TRUE
        <3>1. Readings(check, records) # {}
            BY <1>1 DEF Observed
        <3> QED
            BY <3>1 DEF Readings, Retrieved, Primary, EngineInv, WalkInv, WalkTyped
    <2> QED
        BY <1>1, <2>1, ObservedIsOfTheUsed, ObservationIsRepresented DEF EngineInv
<1>2. CASE Observed(check, records) = Null
    BY <1>2 DEF IsRepresented, Null
<1> QED
    BY <1>1, <1>2

\* What the checks establish is what the value of one source makes of the plan.
LEMMA EstablishedAsObserved ==
    ASSUME EngineInv, Established \in {"YES", "NO"}
    PROVE  \E p \in Primary :
              LET holds == \A i \in 1 .. Len(plan.checks) :
                              HoldsOf(plan.checks[i],
                                      ReadObservation(records[p], plan.checks[i].pointer))
              IN  (Established = "YES") = (holds = (plan.encodes = "successCondition"))
PROOF
<1> DEFINE n == Len(plan.checks)
           r(i) == Run(spec, plan.checks[i], records).result
           results == {r(i) : i \in 1 .. n}
<1>1. n \in Nat \ {0}
    BY ChecksAreListed
<1>2. Verdict(spec, plan, records) =
         IF "INDETERMINATE" \in results THEN "NEEDS_REVIEW"
         ELSE IF "FAIL" \in results THEN "REFUTED" ELSE "SATISFIED"
    BY VerdictIsOfThePlan
<1>3. "INDETERMINATE" \notin results
    BY <1>2 DEF Established, DeterministicOutcome
<1>4. \A i \in 1 .. n :
         /\ r(i) = Result(plan.checks[i], Observed(plan.checks[i], records), spec.deadline)
         /\ r(i) # "INDETERMINATE"
    BY <1>3 DEF Run
<1>5. \A i \in 1 .. n :
         /\ CheckIsShaped(plan.checks[i]) /\ CheckIsWellFormed(plan.checks[i])
         /\ plan.checks[i].kind = "NUMERIC_COMPARISON" => IsRepresented(plan.checks[i].threshold)
         /\ plan.checks[i].kind = "NUMERIC_RANGE" =>
               IsRepresented(plan.checks[i].low) /\ IsRepresented(plan.checks[i].high)
    BY TextsAssumption
    DEF TextsAssumption, EngineInv, Stages, PlanIsAccepted, PlanIsValid
<1>6. \A check : IsRepresented(Observed(check, records))
    BY ObservedIsRepresented
<1>7. \A i \in 1 .. n :
         /\ r(i) \in {"PASS", "FAIL"} /\ Observed(plan.checks[i], records) # Null
         /\ r(i) = "PASS" <=> HoldsOf(plan.checks[i], Observed(plan.checks[i], records))
    BY <1>4, <1>5, <1>6, CheckHolds
<1>8. PICK p \in Primary : TRUE
    <2>1. Observed(plan.checks[1], records) # Null
        BY <1>1, <1>7
    <2>2. Readings(plan.checks[1], records) # {}
        BY <2>1 DEF Observed
    <2> QED
        BY <2>2 DEF Readings, Retrieved, Primary, EngineInv, WalkInv, WalkTyped
<1> DEFINE holds == \A i \in 1 .. n :
                       HoldsOf(plan.checks[i],
                               ReadObservation(records[p], plan.checks[i].pointer))
<1>9. \A i \in 1 .. n :
         Observed(plan.checks[i], records) = ReadObservation(records[p], plan.checks[i].pointer)
    BY <1>7, <1>8, ObservedIsOfTheUsed
<1> HIDE DEF r
<1>10. holds <=> "FAIL" \notin results
    BY <1>7, <1>9
<1> HIDE DEF holds, results
<1>11. (Established = "YES") <=> (("FAIL" \notin results) = (plan.encodes = "successCondition"))
    BY <1>2, <1>3 DEF Established, DeterministicOutcome
<1>12. (Established = "YES") = (holds = (plan.encodes = "successCondition"))
    BY <1>10, <1>11 DEF holds
<1> QED
    BY <1>8, <1>12 DEF holds, n

-----------------------------------------------------------------------------
(* What a claim rests on. *)

\* A claim cites sources that were read, has a value one of them carries, and has the
\* shape the schema asks for unless a source selected more than a claim can report.
Rests(claim) ==
    /\ Range(claim.cites) \subseteq Primary
    /\ ClaimIsShaped(claim) \/ \E i \in WithValue(records) : ~SelectionFits(records[i].selection)
    /\ claim.value # Null => \E k \in DOMAIN claim.cites : IsRead(claim.value, claim.cites[k])

\* A walk reads finitely many sources, and they are the retrieved ones.
LEMMA PrimaryIsFinite ==
    ASSUME EngineInv
    PROVE  /\ IsFiniteSet(Primary) /\ Primary \in SUBSET Int
           /\ Retrieved(records) = Primary /\ Primary \subseteq 1 .. Count
           /\ DOMAIN records = 1 .. Count /\ Count \in Nat
PROOF
<1>1. Count \in Nat /\ DOMAIN records = 1 .. Count
    BY CountIsNat DEF EngineInv, WalkInv, WalkTyped
<1>2. IsFiniteSet(1 .. Count)
    BY <1>1, FS_Interval
<1>3. Primary \subseteq 1 .. Count
    BY DEF Primary
<1>4. IsFiniteSet(Primary)
    BY <1>2, <1>3, FS_Subset
<1> QED
    BY <1>1, <1>3, <1>4 DEF Primary, Retrieved

\* The image of a finite set, for a function.
LEMMA FiniteImage ==
    ASSUME NEW S, IsFiniteSet(S), NEW f, DOMAIN f = S
    PROVE  IsFiniteSet({f[x] : x \in S})
PROOF
<1> DEFINE T == {f[x] : x \in S}
           g == [x \in S |-> f[x]]
<1>1. g \in Surjection(S, T)
    BY DEF Surjection
<1> HIDE DEF g, T
<1>2. IsFiniteSet(T)
    BY <1>1, FS_Surjection
<1> QED
    BY <1>2 DEF T

\* A claim about a selected value rests on the sources it was selected from,
LEMMA ValueClaimRests ==
    ASSUME EngineInv, NEW pointer \in Paths(records)
    PROVE  Rests(ValueClaim(records, pointer))
PROOF
<1> DEFINE readings == ReadAt(records, pointer)
           p == Min(readings)
<1>1. readings \subseteq Primary /\ readings # {}
    BY PrimaryIsFinite DEF Paths, ReadAt, WithValue
<1>2. IsFiniteSet(readings) /\ readings \in SUBSET Int
    BY <1>1, PrimaryIsFinite, FS_Subset
<1>3. p \in readings
    <2>1. \E m \in readings : \A k \in readings : m <= k
        BY <1>1, <1>2, FiniteExtremes
    <2> QED
        BY <2>1 DEF Min
<1>4. /\ DOMAIN Ascending(readings) = 1 .. Cardinality(readings)
      /\ Range(Ascending(readings)) = readings
    BY <1>2, AscendingLists
<1>5. PICK k \in DOMAIN Ascending(readings) : Ascending(readings)[k] = p
    BY <1>3, <1>4 DEF Range
<1> DEFINE claim == ValueClaim(records, pointer)
<1>6. /\ claim.cites = Ascending(readings)
      /\ claim.value = records[p].selection.value
      /\ claim.support # "UNSUPPORTED"
      /\ claim.statement \in {Brief, Reports(pointer, records[p].selection.value)}
    BY DEF ValueClaim, Claim
<1>7. ClaimScalar(records[p].selection.value) # Null
    BY <1>3 DEF ReadAt, WithValue
<1>8. records[p].selection.value.sort \notin {"null", "object", "blank"}
    BY <1>7 DEF ClaimScalar, Scalar
<1>9. IsRead(records[p].selection.value, p)
    BY <1>8 DEF IsRead
<1>10. p \in WithValue(records) /\ records[p].selection.pointer = pointer
    BY <1>3 DEF ReadAt
<1>11. records[p].selection.value # Null
    BY <1>8 DEF Null
<1>12. Len(Ascending(readings)) \in 1 .. MaxSources
    <2>1. readings = {p}
        BY <1>1, <1>3, OneIsUsed DEF EngineInv
    <2>2. Cardinality({p}) = 1
        BY FS_Singleton
    <2>3. Len(Ascending(readings)) = Cardinality(readings)
        BY <1>2, AscendingLists
    <2> HIDE DEF readings, p
    <2>4. Len(Ascending(readings)) = 1
        BY <2>1, <2>2, <2>3
    <2> QED
        BY <2>4, ListsAssumption DEF ListsAssumption
<1> HIDE DEF readings, p, claim
<1>13. SelectionFits(records[p].selection) => ClaimIsShaped(claim)
    BY <1>6, <1>10, <1>11, <1>12 DEF SelectionFits, ClaimIsShaped, Brief, StatementMaxLength
<1> QED
    BY <1>1, <1>4, <1>5, <1>6, <1>9, <1>10, <1>13 DEF Rests, claim

\* and so do all of the engine's own claims.
LEMMA DeterministicClaimsRest ==
    ASSUME EngineInv
    PROVE  /\ IsList(DeterministicClaims(records))
           /\ \A i \in DOMAIN DeterministicClaims(records) : Rests(DeterministicClaims(records)[i])
PROOF
<1> DEFINE valued == {ValueClaim(records, pointer) : pointer \in Paths(records)}
           unvalued == {Claim(<<i>>, Null, "UNSUPPORTED", Brief) :
                           i \in Retrieved(records) \ WithValue(records)}
<1>1. IsFiniteSet(WithValue(records)) /\ IsFiniteSet(Retrieved(records) \ WithValue(records))
    BY PrimaryIsFinite, FS_Subset DEF WithValue
<1>2. IsFiniteSet(Paths(records))
    <2> DEFINE f == [i \in WithValue(records) |-> records[i].selection.pointer]
    <2>1. Paths(records) = {f[i] : i \in WithValue(records)}
        BY DEF Paths
    <2>2. DOMAIN f = WithValue(records)
        OBVIOUS
    <2> HIDE DEF f
    <2> QED
        BY <1>1, <2>1, <2>2, FiniteImage
<1>3. IsFiniteSet(valued)
    <2> DEFINE f == [pointer \in Paths(records) |-> ValueClaim(records, pointer)]
    <2>1. valued = {f[pointer] : pointer \in Paths(records)}
        OBVIOUS
    <2>2. DOMAIN f = Paths(records)
        OBVIOUS
    <2> HIDE DEF f, valued
    <2> QED
        BY <1>2, <2>1, <2>2, FiniteImage
<1>4. IsFiniteSet(unvalued)
    <2> DEFINE U == Retrieved(records) \ WithValue(records)
               f == [i \in U |-> Claim(<<i>>, Null, "UNSUPPORTED", Brief)]
    <2>1. unvalued = {f[i] : i \in U} /\ IsFiniteSet(U)
        BY <1>1
    <2>2. DOMAIN f = U
        OBVIOUS
    <2> HIDE DEF f, unvalued, U
    <2> QED
        BY <2>1, <2>2, FiniteImage
<1>5. \A claim \in valued : Rests(claim)
    BY ValueClaimRests
<1>6. \A claim \in unvalued : Rests(claim)
    <2>1. ASSUME NEW i \in Retrieved(records) PROVE Rests(Claim(<<i>>, Null, "UNSUPPORTED", Brief))
        <3>1. Range(<<i>>) = {i}
            BY DEF Range
        <3>2. Len(<<i>>) = 1 /\ 1 \in 1 .. MaxSources
            BY ListsAssumption DEF ListsAssumption
        <3>3. ClaimIsShaped(Claim(<<i>>, Null, "UNSUPPORTED", Brief))
            BY <3>2 DEF ClaimIsShaped, Claim, Brief, StatementMaxLength
        <3> QED
            BY <3>1, <3>3, PrimaryIsFinite DEF Rests, Claim
    <2> QED
        BY <2>1
<1> DEFINE s == SetToSeq(valued)
           t == SetToSeq(unvalued)
<1>7. /\ IsList(s) /\ \A i \in DOMAIN s : Rests(s[i])
      /\ IsList(t) /\ \A i \in DOMAIN t : Rests(t[i])
    <2> HIDE DEF valued, unvalued
    <2> QED
        BY <1>3, <1>4, <1>5, <1>6, ListOfSet
<1>8. DeterministicClaims(records) = s \o t
    BY DEF DeterministicClaims
<1> HIDE DEF s, t
<1>9. IsList(s \o t) /\ \A i \in DOMAIN (s \o t) : Rests((s \o t)[i])
    <2>1. /\ IsList(s \o t) /\ Len(s) \in Nat /\ Len(t) \in Nat
          /\ DOMAIN s = 1 .. Len(s) /\ DOMAIN t = 1 .. Len(t)
          /\ DOMAIN (s \o t) = 1 .. (Len(s) + Len(t))
          /\ \A i \in 1 .. Len(s) : (s \o t)[i] = s[i]
          /\ \A i \in (Len(s) + 1) .. (Len(s) + Len(t)) :
                i - Len(s) \in 1 .. Len(t) /\ (s \o t)[i] = t[i - Len(s)]
        BY <1>7, Concatenated
    <2>2. ASSUME NEW i \in 1 .. (Len(s) + Len(t)) PROVE Rests((s \o t)[i])
        <3>1. i \in 1 .. Len(s) \/ i \in (Len(s) + 1) .. (Len(s) + Len(t))
            BY <2>1
        <3> QED
            BY <1>7, <2>1, <3>1
    <2> QED
        BY <2>1, <2>2
<1> QED
    BY <1>8, <1>9

\* A reply without violations claims only what it may.
LEMMA RepliedClaimsRest ==
    ASSUME EngineInv, NEW conflicts, NEW reply, NEW j \in DOMAIN reply.claims,
           OutputIsValid(reply), Violations(spec, records, conflicts, reply) = {}
    PROVE  Rests(reply.claims[j])
PROOF
<1> DEFINE claim == reply.claims[j]
<1>1. ~ \E i \in DOMAIN reply.claims : ~(Range(reply.claims[i].cites) \subseteq Retrieved(records))
    BY DEF Violations
<1>2. ~ \E i \in DOMAIN reply.claims :
            /\ reply.claims[i].value # Null
            /\ ~IsGrounded(reply.claims[i].value, reply.claims[i].cites, records)
    BY DEF Violations
<1>3. Range(claim.cites) \subseteq Primary
    BY <1>1, PrimaryIsFinite
<1>4. claim.value # Null => IsGrounded(claim.value, claim.cites, records)
    BY <1>2
<1>6. ClaimIsShaped(claim)
    BY DEF OutputIsValid, MatchesSchema
<1> HIDE DEF claim
<1>5. ASSUME claim.value # Null
      PROVE  \E k \in DOMAIN claim.cites : IsRead(claim.value, claim.cites[k])
    <2>1. PICK k \in DOMAIN claim.cites :
            LET selected == ClaimScalar(records[claim.cites[k]].selection.value)
            IN  \/ /\ selected # Null
                   /\ selected.fold = claim.value.fold \/ SameNumber(claim.value, selected)
                \/ claim.value.fold \in records[claim.cites[k]].body.mentions
        BY <1>4, <1>5 DEF IsGrounded
    <2> DEFINE value == records[claim.cites[k]].selection.value
    <2>2. ClaimScalar(value) # Null =>
            ClaimScalar(value) = value /\ value.sort \notin {"null", "object", "blank"}
        BY DEF ClaimScalar, Scalar
    <2>3. IsRead(claim.value, claim.cites[k])
        BY <2>1, <2>2 DEF IsRead
    <2> QED
        BY <2>3
<1> QED
    BY <1>3, <1>5, <1>6 DEF Rests, claim

\* The claims of a package: the engine's own and those of the reply it adds to them.
Packaged(reply) ==
    LET deterministic == DeterministicClaims(records)
    IN  deterministic \o WithoutDuplicates(deterministic, reply.claims)

\* Together: whatever a package claims rests on sources that were read.
LEMMA PackagedClaimsRest ==
    ASSUME EngineInv, NEW conflicts, NEW reply,
           Len(reply.claims) \in Nat, DOMAIN reply.claims = 1 .. Len(reply.claims),
           OutputIsValid(reply), Violations(spec, records, conflicts, reply) = {}
    PROVE  \A i \in DOMAIN Packaged(reply) : Rests(Packaged(reply)[i])
PROOF
<1> DEFINE s == DeterministicClaims(records)
           new == {k \in DOMAIN reply.claims : ~Repeats(s, reply.claims[k])}
           kept == Ascending(new)
           t == [n \in DOMAIN kept |-> reply.claims[kept[n]]]
<1>1. IsList(s) /\ \A i \in DOMAIN s : Rests(s[i])
    BY DeterministicClaimsRest
<1>2. new \in SUBSET Int /\ IsFiniteSet(new)
    <2>1. IsFiniteSet(1 .. Len(reply.claims))
        BY FS_Interval
    <2> QED
        BY <2>1, FS_Subset
<1>3. DOMAIN kept = 1 .. Cardinality(new) /\ Cardinality(new) \in Nat
      /\ \A n \in DOMAIN kept : kept[n] \in new
    <2> HIDE DEF new
    <2> QED
        BY <1>2, AscendingLists
<1>4. new \subseteq DOMAIN reply.claims
    OBVIOUS
<1> HIDE DEF new, kept
<1>5. IsList(t) /\ \A n \in DOMAIN t : Rests(t[n])
    BY <1>3, <1>4, RepliedClaimsRest DEF IsList
<1>6. Packaged(reply) = s \o t
    BY DEF Packaged, WithoutDuplicates, new, kept
<1> HIDE DEF s, t
<1>7. /\ Len(s) \in Nat /\ Len(t) \in Nat
      /\ DOMAIN s = 1 .. Len(s) /\ DOMAIN t = 1 .. Len(t)
      /\ DOMAIN (s \o t) = 1 .. (Len(s) + Len(t))
      /\ \A i \in 1 .. Len(s) : (s \o t)[i] = s[i]
      /\ \A i \in (Len(s) + 1) .. (Len(s) + Len(t)) :
            i - Len(s) \in 1 .. Len(t) /\ (s \o t)[i] = t[i - Len(s)]
    BY <1>1, <1>5, Concatenated
<1>8. ASSUME NEW i \in 1 .. (Len(s) + Len(t)) PROVE Rests((s \o t)[i])
    <2>1. i \in 1 .. Len(s) \/ i \in (Len(s) + 1) .. (Len(s) + Len(t))
        BY <1>7
    <2> QED
        BY <1>1, <1>5, <1>7, <2>1
<1> QED
    BY <1>6, <1>7, <1>8

-----------------------------------------------------------------------------
(* When a package is refused. *)

\* What makes a package unpublishable, of what the engine is given and cannot change.
Unpublishable(claims) ==
    \/ \E i \in 1 .. Count : spec.sources[i].url.credentialInQuery \/ spec.sources[i].url.userinfo
    \/ \E i \in 1 .. Len(plan.checks) :
          plan.checks[i].checkId \in {Availability(j) : j \in 1 .. Count}
    \/ Len(plan.checks) + Cardinality(Attempted) > MaxChecks
    \/ \E i \in 1 .. Len(plan.checks) :
          plan.checks[i].kind = "CATEGORICAL_MATCH" /\ ~RecordFits(plan.checks[i])
    \/ \E i \in WithValue(records) : ~SelectionFits(records[i].selection)
    \/ \E i \in DOMAIN claims : ~Distinct(claims[i].cites)

\* When the walk is over, what was tried is what was attempted.
LEMMA TriedIsAttempted ==
    ASSUME EngineInv, WalkOver
    PROVE  Tried = Attempted /\ \A i \in 1 .. Count : records[i].retrievedAt \in 0 .. now
PROOF
<1>1. DOMAIN records = 1 .. Count /\ Count \in Nat /\ at \in Nat /\ at > Count
    BY PrimaryIsFinite DEF EngineInv, WalkInv, WalkTyped, WalkOver
<1>2. \A i \in 1 .. Count : i < at
    BY <1>1
<1>3. \A i \in 1 .. Count : records[i].status # "NOT_YET"
    BY <1>2, AttemptedLieBehind DEF EngineInv
<1> QED
    BY <1>1, <1>2, <1>3 DEF Tried, Attempted, Unread, EngineInv, RecordsKept

\* A check with nothing to read is not decided.
LEMMA NothingIsUndecided ==
    ASSUME NEW check, NEW deadline, CheckIsShaped(check)
    PROVE  Result(check, Null, deadline) = "INDETERMINATE"
PROOF
<1>1. Null.sort = "null"
    BY DEF Null
<1>2. check.kind \in {"NUMERIC_COMPARISON", "NUMERIC_RANGE", "TEMPORAL_COMPARISON",
                       "BOOLEAN_MATCH", "CATEGORICAL_MATCH"}
    BY DEF CheckIsShaped
<1> QED
    BY <1>1, <1>2 DEF Result, NumericComparison, NumericRange, TemporalComparison, BooleanMatch,
           CategoricalMatch

\* A check reads one source.
LEMMA ChecksCiteOne ==
    ASSUME EngineInv, NEW check, check.source \in 1 .. Count
    PROVE  /\ CitedBy(check, records) \subseteq DOMAIN records
           /\ Cardinality(CitedBy(check, records)) = 1
PROOF
<1>1. \A i : Cardinality({i}) = 1
    BY FS_Singleton
<1>2. CASE Readings(check, records) = {}
    BY <1>1, <1>2, PrimaryIsFinite DEF CitedBy
<1>3. CASE Readings(check, records) # {}
    <2>1. PICK p : p \in Readings(check, records)
        BY <1>3
    <2>2. Readings(check, records) \subseteq Primary /\ Primary \subseteq DOMAIN records
        BY PrimaryIsFinite DEF Readings
    <2>3. Readings(check, records) = {p}
        BY <2>1, <2>2, OneIsUsed DEF EngineInv
    <2> QED
        BY <1>1, <1>3, <2>2, <2>3 DEF CitedBy
<1> QED
    BY <1>2, <1>3

\* What a check records once it is decided fits a package: a decimal and a boolean are
\* short, an instant is put in its normal form, and a categorical check is asked.
LEMMA RecordedIsText ==
    ASSUME NEW check, NEW text, NEW deadline, CheckIsShaped(check), IsRepresented(text),
           check.kind = "CATEGORICAL_MATCH" => (text # Null => IsText(text)),
           Result(check, text, deadline) # "INDETERMINATE"
    PROVE  Recorded(check, text) # Null /\ IsText(Recorded(check, text))
PROOF
<1>1. text # Null
    BY NothingIsUndecided
<1>2. CASE check.kind \in {"NUMERIC_COMPARISON", "NUMERIC_RANGE"}
    <2>1. text.sort = "decimal"
        BY <1>2 DEF Result, NumericComparison, NumericRange
    <2>2. text.trimmed \in 1 .. 66
        BY <2>1 DEF IsRepresented, MaxDecimalDigits
    <2> QED
        BY <1>1, <1>2, <2>1, <2>2 DEF Recorded, IsText, ValueMaxLength
<1>3. CASE check.kind = "BOOLEAN_MATCH"
    <2>1. text.sort = "boolean"
        BY <1>3 DEF Result, BooleanMatch
    <2>2. text.trimmed \in 2 .. 5
        BY <2>1 DEF IsRepresented
    <2> QED
        BY <1>1, <1>3, <2>1, <2>2 DEF Recorded, IsText, ValueMaxLength
<1>4. CASE check.kind = "TEMPORAL_COMPARISON"
    BY <1>4 DEF Recorded, NormalInstant, IsText, ValueMaxLength, Null
<1>5. CASE check.kind = "CATEGORICAL_MATCH"
    BY <1>1, <1>5 DEF Recorded
<1> QED
    BY <1>2, <1>3, <1>4, <1>5 DEF CheckIsShaped

\* A check of the plan is publishable unless it is a categorical one that cannot be put
\* on record,
LEMMA RunIsPublishable ==
    ASSUME EngineInv, NEW check, check.source \in 1 .. Count, CheckIsShaped(check),
           check.kind = "CATEGORICAL_MATCH" => RecordFits(check)
    PROVE  CheckIsPublishable(records, Run(spec, check, records))
PROOF
<1> DEFINE text == Observed(check, records)
           outcome == Result(check, text, spec.deadline)
           run == Run(spec, check, records)
<1>1. /\ run.cites = CitedBy(check, records)
      /\ run.observed = IF outcome = "INDETERMINATE" THEN Null ELSE Recorded(check, text)
      /\ run.result = outcome /\ run.expected = ExpectedLength(check)
    BY DEF Run
<1>2. run.cites \subseteq DOMAIN records /\ Cardinality(run.cites) \in 1 .. MaxSources
    BY <1>1, ChecksCiteOne, ListsAssumption DEF ListsAssumption
<1>3. outcome # "INDETERMINATE" => Recorded(check, text) # Null /\ IsText(Recorded(check, text))
    BY ObservedIsRepresented, RecordedIsText DEF RecordFits
<1>4. ExpectedLength(check) <= ExpectationMaxLength
    <2>1. CASE check.kind = "CATEGORICAL_MATCH"
        BY <2>1 DEF RecordFits
    <2>2. CASE check.kind # "CATEGORICAL_MATCH"
        BY <2>2 DEF ExpectedLength, ExpectationMaxLength, MaxDecimalDigits
    <2> QED
        BY <2>1, <2>2
<1> HIDE DEF text, outcome, run
<1> QED
    BY <1>1, <1>2, <1>3, <1>4 DEF CheckIsPublishable, run

\* and so is the availability of a source.
LEMMA AvailabilityIsPublishable ==
    ASSUME EngineInv, NEW i \in Tried
    PROVE  CheckIsPublishable(records, AvailabilityCheck(records, i))
PROOF
<1>1. i \in DOMAIN records /\ Cardinality({i}) = 1
    BY FS_Singleton DEF Tried
<1>2. Detail # Null /\ IsText(Detail)
    BY DEF Null, Detail, IsText, ValueMaxLength
<1> QED
    BY <1>1, <1>2, ListsAssumption
    DEF CheckIsPublishable, AvailabilityCheck, ExpectationMaxLength, ListsAssumption

\* What the schema refuses was unpublishable: the dates, the citations, the results and
\* the names of the checks the engine makes cannot be the reason.
LEMMA RefusedIsUnpublishable ==
    ASSUME EngineInv, WalkOver, NEW claims,
           \A i \in DOMAIN claims : Rests(claims[i]),
           ~PackageIsValid(spec, records, claims, Checks(spec, plan, records), ProducedAt)
    PROVE  Unpublishable(claims)
PROOF
<1> SUFFICES ASSUME ~Unpublishable(claims)
             PROVE  PackageIsValid(spec, records, claims, Checks(spec, plan, records), ProducedAt)
    OBVIOUS
<1> DEFINE n == Len(plan.checks)
           m == Cardinality(Tried)
           tried == Ascending(Tried)
           checks == Checks(spec, plan, records)
<1>1. /\ n \in Nat \ {0} /\ n <= MaxChecks /\ m \in Nat
      /\ DOMAIN checks = 1 .. (n + m) /\ Len(checks) = n + m
      /\ \A i \in 1 .. n : checks[i] = Run(spec, plan.checks[i], records)
      /\ \A i \in (n + 1) .. (n + m) :
            /\ i - n \in DOMAIN tried /\ tried[i - n] \in Tried
            /\ checks[i] = AvailabilityCheck(records, tried[i - n])
      /\ Distinct(tried)
    BY ChecksAreListed
<1>2. Tried = Attempted /\ \A i \in 1 .. Count : records[i].retrievedAt \in 0 .. now
    BY TriedIsAttempted
<1>3. DOMAIN records = 1 .. Count /\ Primary \subseteq 1 .. Count /\ Count \in Nat /\ now \in Nat
    BY PrimaryIsFinite DEF EngineInv, WalkInv, WalkTyped
<1>4. /\ \A i \in 1 .. n : /\ plan.checks[i].source \in 1 .. Count
                           /\ CheckIsShaped(plan.checks[i])
      /\ \A i, j \in 1 .. n : plan.checks[i].checkId = plan.checks[j].checkId => i = j
    BY DEF EngineInv, Stages, PlanIsAccepted, PlanIsValid, Count
<1>5. \A i \in DOMAIN records : SourceIsPublishable(spec, records[i], i, ProducedAt)
    BY <1>2, <1>3 DEF SourceIsPublishable, Unpublishable, ProducedAt
<1>6. \A i \in DOMAIN claims : ClaimIsPublishable(records, claims[i])
    BY <1>3 DEF ClaimIsPublishable, Unpublishable, Rests
<1>7. n + m <= MaxChecks
    BY <1>1, <1>2, ListsAssumption DEF Unpublishable, ListsAssumption
<1>8. \A i \in 1 .. n :
         plan.checks[i].kind = "CATEGORICAL_MATCH" => RecordFits(plan.checks[i])
    BY DEF Unpublishable
<1>9. \A i \in 1 .. n : plan.checks[i].checkId \notin {Availability(j) : j \in 1 .. Count}
    BY DEF Unpublishable
<1> HIDE DEF n, m, tried, checks
<1>10. \A i \in 1 .. (n + m) : i \in 1 .. n \/ i \in (n + 1) .. (n + m)
    BY <1>1
<1>11. \A i \in DOMAIN checks : CheckIsPublishable(records, checks[i])
    <2>1. ASSUME NEW i \in 1 .. n PROVE CheckIsPublishable(records, checks[i])
        BY <1>1, <1>4, <1>8, RunIsPublishable
    <2>2. ASSUME NEW i \in (n + 1) .. (n + m) PROVE CheckIsPublishable(records, checks[i])
        BY <1>1, AvailabilityIsPublishable
    <2> QED
        BY <1>1, <1>10, <2>1, <2>2
<1>12. Distinct([i \in DOMAIN checks |-> checks[i].checkId])
    <2>1. \A i \in 1 .. n : checks[i].checkId = plan.checks[i].checkId
        <3>1. \A check : Run(spec, check, records).checkId = check.checkId
            BY DEF Run
        <3> QED
            BY <1>1, <3>1
    <2>2. \A i \in (n + 1) .. (n + m) :
             /\ checks[i].checkId = Availability(tried[i - n])
             /\ tried[i - n] \in 1 .. Count /\ i - n \in DOMAIN tried
        <3>1. \A k : AvailabilityCheck(records, k).checkId = Availability(k)
            BY DEF AvailabilityCheck
        <3> QED
            BY <1>1, <1>3, <3>1 DEF Tried
    <2>3. ASSUME NEW i \in 1 .. (n + m), NEW j \in 1 .. (n + m),
                 checks[i].checkId = checks[j].checkId
          PROVE  i = j
        <3>1. CASE i \in 1 .. n /\ j \in 1 .. n
            BY <1>4, <2>1, <2>3, <3>1 DEF n
        <3>2. CASE i \in 1 .. n /\ j \in (n + 1) .. (n + m)
            BY <1>9, <2>1, <2>2, <2>3, <3>2
        <3>3. CASE j \in 1 .. n /\ i \in (n + 1) .. (n + m)
            BY <1>9, <2>1, <2>2, <2>3, <3>3
        <3>4. CASE i \in (n + 1) .. (n + m) /\ j \in (n + 1) .. (n + m)
            <4>1. Availability(tried[i - n]) = Availability(tried[j - n])
                BY <2>2, <2>3, <3>4
            <4>2. tried[i - n] = tried[j - n]
                BY <4>1 DEF Availability
            <4>3. i - n = j - n
                BY <1>1, <2>2, <3>4, <4>2 DEF Distinct
            <4> QED
                BY <1>1, <3>4, <4>3
        <3> QED
            BY <1>10, <3>1, <3>2, <3>3, <3>4
    <2> QED
        BY <1>1, <2>3 DEF Distinct
<1> QED
    BY <1>1, <1>5, <1>6, <1>7, <1>11, <1>12 DEF PackageIsValid, checks

-----------------------------------------------------------------------------
(* The gates of a reading. *)

\* A proposal passed every gate,
LEMMA ProposalPassed ==
    ASSUME NEW reply, Weighed(reply).status = "PROPOSED"
    PROVE  LET checks == Checks(spec, plan, records)
           IN  /\ Weighed(reply).claims = Packaged(reply)
               /\ OutputIsValid(reply)
               /\ Violations(spec, records, Conflicts(plan, records), reply) = {}
               /\ PackageIsValid(spec, records, Packaged(reply), checks, ProducedAt)
PROOF
    BY DEF Weighed, NeedsReview, Returned, Assembled, Packaged

\* The decision itself never gives the schema as its reason,
LEMMA DecisionReasons ==
    ASSUME NEW edgeCases, NEW verdict, NEW encodes, NEW modelOutcome, NEW matched
    PROVE  DecideOutcome(edgeCases, verdict, encodes, modelOutcome, matched).reason
              # "PACKAGE_INVALID"
PROOF
    BY DEF DecideOutcome, Settles, Review

\* and a package that is refused passed all but the last.
LEMMA RefusalPassed ==
    ASSUME NEW reply, Weighed(reply).reason = "PACKAGE_INVALID"
    PROVE  LET checks == Checks(spec, plan, records)
           IN  /\ Weighed(reply).claims = Packaged(reply)
               /\ OutputIsValid(reply)
               /\ Violations(spec, records, Conflicts(plan, records), reply) = {}
               /\ ~PackageIsValid(spec, records, Packaged(reply), checks, ProducedAt)
PROOF
<1> DEFINE decision == DecideOutcome(spec.edgeCases, Verdict(spec, plan, records), plan.encodes,
                                     reply.outcome, reply.edgeCase)
<1>1. decision.reason # "PACKAGE_INVALID"
    BY DecisionReasons
<1> QED
    BY <1>1 DEF Weighed, NeedsReview, Returned, Assembled, Packaged

\* The reply of a model that answered has a list of claims.
LEMMA RepliesList ==
    ASSUME NEW event \in ModelEvents, CallFailure(event) = "none"
    PROVE  /\ Len(event.reply.claims) \in Nat
           /\ DOMAIN event.reply.claims = 1 .. Len(event.reply.claims)
PROOF
<1>1. event.kind # "throws"
    BY DEF CallFailure, ProviderErrorOf
<1> QED
    BY <1>1, ListsAssumption DEF ListsAssumption

-----------------------------------------------------------------------------
(* The theorems. *)

\* What is returned is returned once.
LEMMA ReturnsOnce ==
    ASSUME EngineInv, [Next]_engineVars
    PROVE  \/ result' = NoResult
           \/ UNCHANGED <<spec, plan, records, result>>
           \/ /\ UNCHANGED <<spec, plan, records>>
              /\ \/ result'.status \in {"NEEDS_REVIEW", "RESOLUTION_FAILED"}
                    /\ result'.reason # "PACKAGE_INVALID"
                 \/ /\ WalkOver
                    /\ \E event \in ModelEvents :
                          CallFailure(event) = "none" /\ result' = Weighed(event.reply)
PROOF
<1>1. CASE Walk
    BY <1>1 DEF Walk, EngineInv, Stages
<1>2. CASE Examine
    BY <1>2 DEF Examine, Finish, NeedsReview, Returned, EngineInv, Stages, walkVars
<1>3. CASE ModelFails
    BY <1>3 DEF ModelFails, Finish, Returned, FailureReason, walkVars
<1>4. CASE ModelAnswers
    BY <1>4 DEF ModelAnswers, Finish, EngineInv, Stages, walkVars
<1>5. CASE UNCHANGED engineVars
    BY <1>5 DEF engineVars, walkVars
<1> QED
    BY <1>1, <1>2, <1>3, <1>4, <1>5 DEF Next, Concluded

\* A payout that follows from what was read is still so when only the result changes.
LEMMA PaidIsObserved ==
    ASSUME UNCHANGED <<spec, plan, records>>, NEW p \in Primary,
           LET holds == \A i \in 1 .. Len(plan.checks) :
                           HoldsOf(plan.checks[i],
                                   ReadObservation(records[p], plan.checks[i].pointer))
           IN  (result'.outcome = "YES") = (holds = (plan.encodes = "successCondition"))
    PROVE  PaidAsObserved'
PROOF
<1>1. p \in Primary'
    BY DEF Primary, Count
<1> QED
    BY <1>1 DEF PaidAsObserved, HoldsOf

\* One step: what stands, stands; what is returned follows from the checks.
LEMMA PaidAsObservedStep ==
    ASSUME EngineInv, PaidAsObserved, [Next]_engineVars
    PROVE  PaidAsObserved'
PROOF
<1>1. CASE result' = NoResult
    BY <1>1 DEF PaidAsObserved, NoResult
<1>2. CASE UNCHANGED <<spec, plan, records, result>>
    <2> SUFFICES ASSUME result.status = "PROPOSED", result.outcome # "INVALID"
                 PROVE  PaidAsObserved'
        BY <1>2 DEF PaidAsObserved
    <2>1. PICK p \in Primary :
            LET holds == \A i \in 1 .. Len(plan.checks) :
                            HoldsOf(plan.checks[i],
                                    ReadObservation(records[p], plan.checks[i].pointer))
            IN  (result.outcome = "YES") = (holds = (plan.encodes = "successCondition"))
        BY DEF PaidAsObserved
    <2> QED
        BY <1>2, <2>1, PaidIsObserved
<1>3. ASSUME UNCHANGED <<spec, plan, records>>, result'.status # "PROPOSED"
      PROVE  PaidAsObserved'
    BY <1>3 DEF PaidAsObserved
<1>4. ASSUME UNCHANGED <<spec, plan, records>>, NEW reply, result' = Weighed(reply),
             result'.status = "PROPOSED", result'.outcome # "INVALID"
      PROVE  PaidAsObserved'
    <2>1. Established \in {"YES", "NO"} /\ result'.outcome = Established
        BY <1>4, WeighedFollowsChecks
    <2>2. PICK p \in Primary :
            LET holds == \A i \in 1 .. Len(plan.checks) :
                            HoldsOf(plan.checks[i],
                                    ReadObservation(records[p], plan.checks[i].pointer))
            IN  (result'.outcome = "YES") = (holds = (plan.encodes = "successCondition"))
        BY <2>1, EstablishedAsObserved
    <2> QED
        BY <1>4, <2>1, <2>2, PaidIsObserved
<1>5. ASSUME result'.outcome = "INVALID" PROVE PaidAsObserved'
    BY <1>5 DEF PaidAsObserved
<1> QED
    BY <1>1, <1>2, <1>3, <1>4, <1>5, ReturnsOnce

\* Whatever the model says, and whatever the scales and signs of the values, a payout
\* proposed to one side is what the approved value, read from the one source in
\* precedence, makes of the plan's own criteria, compared exactly.
THEOREM PaidAsIsObserved == Spec => []PaidAsObserved
PROOF
<1>1. EngineInit => PaidAsObserved
    BY DEF EngineInit, PaidAsObserved, NoResult
<1>2. EngineInv /\ PaidAsObserved /\ [Next]_engineVars => PaidAsObserved'
    BY PaidAsObservedStep
<1> QED
    BY <1>1, <1>2, EngineInvariant, PTL DEF Spec

\* One step: a package that passed has claims that rest on what was read.
LEMMA GroundedStep ==
    ASSUME EngineInv, ProposalIsGrounded, [Next]_engineVars
    PROVE  ProposalIsGrounded'
PROOF
<1>1. CASE result' = NoResult
    BY <1>1 DEF ProposalIsGrounded, NoResult
<1>2. CASE UNCHANGED <<spec, plan, records, result>>
    BY <1>2 DEF ProposalIsGrounded, Primary, Count, IsRead
<1>3. ASSUME result'.status # "PROPOSED" PROVE ProposalIsGrounded'
    BY <1>3 DEF ProposalIsGrounded
<1>4. ASSUME UNCHANGED <<spec, plan, records>>, NEW event \in ModelEvents,
             CallFailure(event) = "none", result' = Weighed(event.reply),
             result'.status = "PROPOSED"
      PROVE  ProposalIsGrounded'
    <2>1. PICK claims : claims = Packaged(event.reply)
        OBVIOUS
    <2>2. /\ result'.claims = claims
          /\ OutputIsValid(event.reply)
          /\ Violations(spec, records, Conflicts(plan, records), event.reply) = {}
          /\ PackageIsValid(spec, records, claims, Checks(spec, plan, records), ProducedAt)
        BY <1>4, <2>1, ProposalPassed
    <2>3. \A i \in DOMAIN claims : Rests(claims[i])
        BY <1>4, <2>1, <2>2, RepliesList, PackagedClaimsRest
    <2>4. \A i \in DOMAIN claims : Distinct(claims[i].cites)
        BY <2>2 DEF PackageIsValid, ClaimIsPublishable
    <2>5. Primary' = Primary
        BY <1>4 DEF Primary, Count
    <2>6. ASSUME NEW i \in DOMAIN claims
          PROVE  /\ Distinct(claims[i].cites) /\ Range(claims[i].cites) \subseteq Primary'
                 /\ claims[i].value # Null =>
                       \E k \in DOMAIN claims[i].cites :
                           IsRead(claims[i].value, claims[i].cites[k])'
        BY <1>4, <2>3, <2>4, <2>5, <2>6 DEF Rests, IsRead
    <2> QED
        BY <2>2, <2>6 DEF ProposalIsGrounded, IsRead
<1> QED
    BY <1>1, <1>2, <1>3, <1>4, ReturnsOnce

\* Every claim of a proposed package rests on sources that were read, cites none twice,
\* and has a value one of them carries: the engine's own claims by how they are made,
\* the model's by the checks they passed.
THEOREM ProposalsAreGrounded == Spec => []ProposalIsGrounded
PROOF
<1>1. EngineInit => ProposalIsGrounded
    BY DEF EngineInit, ProposalIsGrounded, NoResult
<1>2. EngineInv /\ ProposalIsGrounded /\ [Next]_engineVars => ProposalIsGrounded'
    BY GroundedStep
<1> QED
    BY <1>1, <1>2, EngineInvariant, PTL DEF Spec

\* One step: a package that is refused was unpublishable.
LEMMA ExplainedStep ==
    ASSUME EngineInv, RefusalIsExplained, [Next]_engineVars
    PROVE  RefusalIsExplained'
PROOF
<1>1. CASE result' = NoResult
    BY <1>1 DEF RefusalIsExplained, NoResult
<1>2. CASE UNCHANGED <<spec, plan, records, result>>
    BY <1>2 DEF RefusalIsExplained, Attempted, Count, RecordFits
<1>3. ASSUME result'.reason # "PACKAGE_INVALID" PROVE RefusalIsExplained'
    BY <1>3 DEF RefusalIsExplained
<1>4. ASSUME UNCHANGED <<spec, plan, records>>, WalkOver, NEW event \in ModelEvents,
             CallFailure(event) = "none", result' = Weighed(event.reply),
             result'.reason = "PACKAGE_INVALID"
      PROVE  RefusalIsExplained'
    <2> DEFINE claims == Packaged(event.reply)
    <2>1. /\ result'.claims = claims
          /\ OutputIsValid(event.reply)
          /\ Violations(spec, records, Conflicts(plan, records), event.reply) = {}
          /\ ~PackageIsValid(spec, records, claims, Checks(spec, plan, records), ProducedAt)
        BY <1>4, RefusalPassed
    <2>2. \A i \in DOMAIN claims : Rests(claims[i])
        BY <1>4, <2>1, RepliesList, PackagedClaimsRest
    <2> HIDE DEF claims
    <2>3. Unpublishable(claims)
        BY <1>4, <2>1, <2>2, RefusedIsUnpublishable
    <2> QED
        BY <1>4, <2>1, <2>3 DEF Unpublishable, RefusalIsExplained, Attempted, Count, RecordFits
<1> QED
    BY <1>1, <1>2, <1>3, <1>4, ReturnsOnce

\* A package that every gate let through is refused by its schema only for a URL the
\* rules may not publish, for checks the plan names badly or has too many of, for a
\* categorical check or a selected value too long to be put on record, or for a claim of
\* the model that cites a source twice.
THEOREM RefusalsAreExplained == Spec => []RefusalIsExplained
PROOF
<1>1. EngineInit => RefusalIsExplained
    BY DEF EngineInit, RefusalIsExplained, NoResult
<1>2. EngineInv /\ RefusalIsExplained /\ [Next]_engineVars => RefusalIsExplained'
    BY ExplainedStep
<1> QED
    BY <1>1, <1>2, EngineInvariant, PTL DEF Spec

==============================================================================
