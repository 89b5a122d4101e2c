------------------------------ MODULE Retrieval ------------------------------
(* How the backend reads the sources a specification approves: the walk in     *)
(* order of precedence, with its attempts, back-offs and budget                *)
(* (evidence/retriever.ts), the https adapter with its hops, name resolution   *)
(* and deadlines (evidence/https-adapter.ts), the URL policy                   *)
(* (evidence/url-policy.ts) and what makes an answer usable                    *)
(* (evidence/normalize.ts).  Time is the number of ticks since the walk began: *)
(* it advances only while a call or a sleep is outstanding, and never past a   *)
(* timer that is due.  Positions start at 1, where the code's indices start    *)
(* at 0.                                                                       *)
EXTENDS Integers, Sequences, FiniteSets, SequencesExt

CONSTANTS
    Specs,            \* the specifications a walk may be given
    AllowedPorts,     \* UrlPolicy.allowedPorts
    AllowedHosts,     \* UrlPolicy.allowedHosts, as sequences of labels, last label first
    BlockedIPv4,      \* the addresses in BLOCKED_IPV4's ranges
    BlockedIPv6,      \* the addresses in the IPv6 ranges the policy names
    Resolutions,      \* what a name lookup may return: sequences of addresses
    Answers,          \* what an https request may return
    TimeoutMs, MaxAttempts, RetryBackoffMs, MaxRedirects, TotalBudgetMs, AdapterGraceMs

ASSUME LimitsAssumption ==
    /\ {TimeoutMs, MaxAttempts, TotalBudgetMs} \subseteq Nat \ {0}
    /\ {RetryBackoffMs, MaxRedirects} \subseteq Nat
    /\ AdapterGraceMs \in Nat \ {0, 1}

ASSUME SourcesAssumption == \A s \in Specs : Len(s.sources) \in Nat

VARIABLES
    spec,       \* the specification, never written
    now,        \* Date.now() - startedAt
    at,         \* the approved source the walk has come to
    pc,         \* where the walk stands
    attempts,   \* attempts made at this source
    wake,       \* when the back-off ends
    call,       \* the adapter call in flight
    records     \* what became of each approved source

walkVars == <<spec, now, at, pc, attempts, wake, call, records>>

Count == Len(spec.sources)
NotYet == [status |-> "NOT_YET"]
NoCall == [deadline |-> 0, due |-> 0, requestDue |-> 0, hop |-> 0, target |-> 0, connected |-> <<>>]
NoPath == "none"

\* A document handed over out of band has no endpoint to read.
Supports(kind) == kind \in {"http_json", "http_html"}

Fault(kind, retryable) == [kind |-> kind, retryable |-> retryable]
NoFault == Fault("none", FALSE)
AtLeastOne(n) == IF n < 1 THEN 1 ELSE n

------------------------------------------------------------------------------
(* The URL policy. *)

\* An IPv6 address that carries an IPv4 one is judged by the address it carries.
AddressBlocked(address) ==
    CASE address.family = 4 -> address.ip \in BlockedIPv4
      [] address.family = 6 -> IF address.carries = NoPath THEN address.ip \in BlockedIPv6
                                                          ELSE address.carries \in BlockedIPv4
      [] OTHER -> TRUE

\* An operator's list of hosts admits each host and its subdomains; empty admits all.
HostIsAllowed(host) ==
    AllowedHosts = {} \/ \E entry \in AllowedHosts : IsPrefix(entry, host.labels)

\* Why a URL may not be requested.  The fragment is dropped, and nothing else.
UrlFault(url) ==
    IF ~url.parses \/ url.scheme # "https" THEN Fault("SOURCE_UNSUPPORTED", FALSE)
    ELSE IF \/ url.userinfo
            \/ url.port \notin AllowedPorts
            \/ url.host.literal /\ AddressBlocked(url.host.address)
            \/ ~HostIsAllowed(url.host)
         THEN Fault("SOURCE_FORBIDDEN", FALSE)
         ELSE NoFault

------------------------------------------------------------------------------
(* What makes an answer usable. *)

StatusFault(status) ==
    CASE status = 200 -> NoFault
      [] status \in {401, 403} -> Fault("SOURCE_FORBIDDEN", FALSE)
      [] status \in {404, 410} -> Fault("SOURCE_UNAVAILABLE", FALSE)
      [] status \in {408, 429} \/ status >= 500 -> Fault("SOURCE_UNAVAILABLE", TRUE)
      [] OTHER -> Fault("SOURCE_INVALID", FALSE)

\* A content type is required, and must be the kind's own; any +json will do for JSON.
TypeFault(kind, type) ==
    IF \/ kind = "http_json" /\ type \in {"application/json", "text/json", "+json"}
       \/ kind = "http_html" /\ type \in {"text/html", "application/xhtml+xml", "text/plain"}
    THEN NoFault
    ELSE Fault("SOURCE_INVALID", FALSE)

\* The value at a pointer, if there is one.
Undefined == [sort |-> "undefined"]
resolveJsonPointer(body, pointer) ==
    IF pointer \in DOMAIN body.at THEN body.at[pointer] ELSE Undefined

\* A JSON body is parsed, must have a canonical form (no floating point), and must
\* carry the approved data path; a page of HTML need only be text.
BodyFault(source, body) ==
    IF \/ ~body.utf8
       \/ source.kind = "http_json" /\ (~body.json \/ ~body.canonical)
    THEN Fault("SOURCE_MALFORMED", FALSE)
    ELSE IF /\ source.kind = "http_json"
            /\ source.dataPath # NoPath
            /\ resolveJsonPointer(body, source.dataPath) = Undefined
         THEN Fault("SOURCE_INVALID", FALSE)
         ELSE NoFault

\* The first of the three that fails.
AnswerFault(source, answer) ==
    LET status == StatusFault(answer.status)
        type == TypeFault(source.kind, answer.type)
    IN  IF status # NoFault THEN status
        ELSE IF type # NoFault THEN type
        ELSE BodyFault(source, answer.body)

\* The value at the approved data path, which a page of HTML has none of.
Selection(source, body) ==
    IF source.kind = "http_json" /\ source.dataPath # NoPath
    THEN [pointer |-> source.dataPath, value |-> resolveJsonPointer(body, source.dataPath)]
    ELSE [pointer |-> NoPath, value |-> [sort |-> "null"]]

------------------------------------------------------------------------------
(* The walk. *)

WalkInit ==
    /\ spec \in Specs
    /\ now = 0 /\ at = 1 /\ pc = "walk" /\ attempts = 0 /\ wake = 0
    /\ call = NoCall
    /\ records = [i \in 1..Count |-> NotYet]

\* Mutant of Primary: the walk stops at the first source that was tried.
FirstTried == {i \in 1..Count : records[i].status # "NOT_YET"}

Primary == {i \in 1..Count : records[i].status = "RETRIEVED"}
Attempted == {i \in 1..Count : records[i].status \notin {"NOT_YET", "NOT_ATTEMPTED"}}

\* The status a failed read is recorded under in the package.
FailureStatus(kind) ==
    IF kind \in {"SOURCE_INVALID", "SOURCE_MALFORMED"} THEN "MALFORMED" ELSE "UNAVAILABLE"

\* The record of the source at hand is final, and the walk goes on to the next.
Conclude(record) ==
    /\ records' = [records EXCEPT ![at] = record]
    /\ at' = at + 1
    /\ pc' = "walk" /\ attempts' = 0 /\ wake' = 0 /\ call' = NoCall
    /\ UNCHANGED <<spec, now>>

Failed(kind, tries) ==
    Conclude([status |-> FailureStatus(kind), failure |-> kind, retrievedAt |-> now,
              attempts |-> tries])

\* Everything after the source that was used, and everything the budget did not
\* reach, is recorded as not attempted.
Skip ==
    /\ pc = "walk" /\ at <= Count
    /\ Primary # {} \/ now >= TotalBudgetMs
    /\ Conclude([status |-> "NOT_ATTEMPTED", attempts |-> 0,
                 retrievedAt |-> IF Attempted = {} THEN 0
                                 ELSE Max({records[i].retrievedAt : i \in Attempted})])

\* A URL the policy refuses, or a kind no adapter reads, is not requested.
Refuse ==
    /\ pc = "walk" /\ at <= Count /\ Primary = {} /\ now < TotalBudgetMs
    /\ LET source == spec.sources[at]
       IN  \/ UrlFault(source.url) # NoFault /\ Failed(UrlFault(source.url).kind, 1)
           \/ /\ UrlFault(source.url) = NoFault
              /\ ~Supports(source.kind)
              /\ Failed("SOURCE_UNSUPPORTED", 0)

\* A hop of the adapter towards a URL: a literal address is connected to at once,
\* a name is looked up first.
Hop(c, url) ==
    IF url.host.literal
    THEN /\ pc' = "requesting"
         /\ call' = [c EXCEPT !.target = url, !.connected = <<url.host.address>>,
                              !.requestDue = now + AtLeastOne(c.deadline - now)]
    ELSE /\ pc' = "resolving"
         /\ call' = [c EXCEPT !.target = url]

\* Mutant of Attempt: the attempts are not counted.
AttemptUncounted ==
    /\ attempts' = attempts
    /\ Hop([NoCall EXCEPT !.deadline = now + TimeoutMs, !.due = now + TimeoutMs + AdapterGraceMs],
           spec.sources[at].url)
    /\ wake' = 0
    /\ UNCHANGED <<spec, now, at, records>>

\* An attempt spends its number before the budget is looked at; within the budget
\* it hands the request to the adapter, which is given TimeoutMs.
Attempt ==
    /\ attempts' = attempts + 1
    /\ Hop([NoCall EXCEPT !.deadline = now + TimeoutMs, !.due = now + TimeoutMs + AdapterGraceMs],
           spec.sources[at].url)
    /\ wake' = 0
    /\ UNCHANGED <<spec, now, at, records>>

Begin ==
    /\ pc = "walk" /\ at <= Count /\ Primary = {} /\ now < TotalBudgetMs
    /\ UrlFault(spec.sources[at].url) = NoFault
    /\ Supports(spec.sources[at].kind)
    /\ Attempt

\* Mutant of OverBudget: only the beginning of a source looks at the budget.
OverBudgetIgnored == now < 0

OverBudget == now >= TotalBudgetMs

\* The back-off is over.  The budget may have run out while it slept.
Retry ==
    /\ pc = "backoff" /\ now >= wake
    /\ \/ OverBudget /\ Failed("SOURCE_TIMEOUT", attempts + 1)
       \/ ~OverBudget /\ Attempt

\* An attempt that failed: only a transient fault is tried again, after a pause
\* that grows with the attempts made.
Fails(fault) ==
    IF fault.retryable /\ attempts < MaxAttempts
    THEN /\ pc' = "backoff" /\ wake' = now + RetryBackoffMs * attempts /\ call' = NoCall
         /\ UNCHANGED <<spec, now, at, attempts, records>>
    ELSE Failed(fault.kind, attempts)

------------------------------------------------------------------------------
(* The adapter. *)

\* The lookup answers: every address must be allowed, and one of them is used.
Resolved ==
    /\ pc = "resolving"
    /\ \E addresses \in Resolutions :
         IF addresses = <<>> THEN Fails(Fault("SOURCE_UNAVAILABLE", TRUE))
         ELSE IF \E i \in 1..Len(addresses) : AddressBlocked(addresses[i])
         THEN Fails(Fault("SOURCE_FORBIDDEN", FALSE))
         ELSE /\ pc' = "requesting"
              /\ call' = [call EXCEPT !.connected = addresses,
                                      !.requestDue = now + AtLeastOne(call.deadline - now)]
              /\ UNCHANGED <<spec, now, at, attempts, wake, records>>

\* When the lookup is given up: it has what is left of the attempt's time.
ResolveDue == call.deadline

\* A redirect is another hop, vetted like the first, within the same deadline.
Redirected(url) ==
    IF ~url.parses THEN Fails(Fault("SOURCE_INVALID", FALSE))
    ELSE IF UrlFault(url) # NoFault THEN Fails(UrlFault(url))
    ELSE IF call.hop >= MaxRedirects THEN Fails(Fault("SOURCE_INVALID", FALSE))
    ELSE IF now >= call.deadline THEN Fails(Fault("SOURCE_TIMEOUT", TRUE))
    ELSE /\ Hop([call EXCEPT !.hop = @ + 1, !.connected = <<>>], url)
         /\ UNCHANGED <<spec, now, at, attempts, wake, records>>

Read(answer) ==
    LET source == spec.sources[at]
        fault == AnswerFault(source, answer)
    IN  IF fault # NoFault THEN Fails(fault)
        ELSE Conclude([status |-> "RETRIEVED", retrievedAt |-> now, attempts |-> attempts,
                       body |-> answer.body, selection |-> Selection(source, answer.body)])

\* What a request may come to before its timer.
Answered ==
    /\ pc = "requesting"
    /\ \E answer \in Answers :
         \/ answer.kind = "redirect" /\ Redirected(answer.to)
         \/ answer.kind \in {"no location", "too large"} /\ Fails(Fault("SOURCE_INVALID", FALSE))
         \/ answer.kind = "broken" /\ Fails(Fault("SOURCE_UNAVAILABLE", TRUE))
         \/ answer.kind = "body" /\ Read(answer)

\* The retriever stops waiting for an adapter that does not return.
withDeadline == pc \in {"resolving", "requesting"} /\ now >= call.due

\* The lookup's timer, the request's timer, and the retriever's own backstop.
Expired ==
    /\ \/ pc = "resolving" /\ now >= ResolveDue
       \/ pc = "requesting" /\ now >= call.requestDue
       \/ withDeadline
    /\ Fails(Fault("SOURCE_TIMEOUT", TRUE))

\* Time passes until the next timer is due: timers are served on time.
Tick ==
    /\ \/ pc = "resolving" /\ now < Min({ResolveDue, call.due})
       \/ pc = "requesting" /\ now < Min({call.requestDue, call.due})
       \/ pc = "backoff" /\ now < wake
    /\ now' = now + 1
    /\ UNCHANGED <<spec, at, pc, attempts, wake, call, records>>

WalkOver == pc = "walk" /\ at > Count

WalkStep ==
    Skip \/ Refuse \/ Begin \/ Retry \/ Resolved \/ Answered \/ Expired \/ Tick

=============================================================================
