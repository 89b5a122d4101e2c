----------------------------- MODULE MCPipeline -----------------------------
(* Finite instances of ResolutionEngine for TLC. *)
EXTENDS ResolutionEngine

Number(name, digits, scale, negative) ==
    [sort |-> "decimal", word |-> name, fold |-> name, digits |-> digits, scale |-> scale,
     negative |-> negative, length |-> 4, trimmed |-> 4]
ten == Number("10", 10, 0, FALSE)
tenExactly == Number("10.0", 100, 1, FALSE)
almostTen == Number("9.95", 995, 2, FALSE)
minusTwo == Number("-2", 2, 0, TRUE)
Phrase(word, fold, length) ==
    [sort |-> "word", word |-> word, fold |-> fold, length |-> length, trimmed |-> length]
delivered == Phrase("Delivered", "delivered", 9)
report == Phrase("report", "report", 480)    \* fits as a value, not in a sentence about "/v"
essay == Phrase("essay", "essay", 600)       \* fits nowhere
yes == [sort |-> "boolean", word |-> "yes", fold |-> "yes", truth |-> TRUE, length |-> 3,
        trimmed |-> 3]
onTime == [sort |-> "instant", word |-> "t5", fold |-> "t5", second |-> 5, length |-> 700,
           trimmed |-> 700]
blank == [sort |-> "blank", word |-> "", fold |-> "", length |-> 2, trimmed |-> 0]
nested == [sort |-> "object"]

public == [family |-> 4, ip |-> "public", carries |-> "none"]
private == [family |-> 4, ip |-> "private", carries |-> "none"]
mapped == [family |-> 6, ip |-> "mapped", carries |-> "private"]
global6 == [family |-> 6, ip |-> "global", carries |-> "none"]

Named(labels) == [literal |-> FALSE, labels |-> labels]
Literal(address) == [literal |-> TRUE, labels |-> <<"literal">>, address |-> address]
Url(host) ==
    [parses |-> TRUE, scheme |-> "https", userinfo |-> FALSE, port |-> 443, host |-> host,
     credentialInQuery |-> FALSE]
first == Url(Named(<<"org", "data">>))
second == Url(Named(<<"org", "data", "mirror">>))

Source(url, kind, path) == [url |-> url, kind |-> kind, dataPath |-> path]
SpecOf(sources) == [sources |-> sources, edgeCases |-> <<"INVALID", "NO">>, deadline |-> 5,
                    committed |-> TRUE]
MCSpecs ==
    { SpecOf(<<Source(first, "http_json", "/v"), Source(second, "http_json", "/v")>>),
      SpecOf(<<Source(first, "manual_attestation", "none"), Source(second, "http_html", "/v"),
               Source(first, "http_json", "/v")>>),
      SpecOf(<<Source([first EXCEPT !.credentialInQuery = TRUE], "http_json", "/v")>>),
      SpecOf(<<Source([first EXCEPT !.port = 80], "http_json", "/v")>>),
      [SpecOf(<<Source(Url(Literal(public)), "http_json", "/v")>>) EXCEPT !.committed = FALSE] }

AtLeastTen(id, source) ==
    [checkId |-> id, kind |-> "NUMERIC_COMPARISON", source |-> source, pointer |-> "none",
     operator |-> "GREATER_THAN_OR_EQUAL", threshold |-> tenExactly]
InRange ==
    [checkId |-> Planned(2), kind |-> "NUMERIC_RANGE", source |-> 1, pointer |-> "/w",
     low |-> minusTwo, high |-> ten]
Status ==
    [checkId |-> Planned(1), kind |-> "CATEGORICAL_MATCH", source |-> 1, pointer |-> "/s",
     accepted |-> <<delivered>>, caseSensitive |-> TRUE]
Listed == [Status EXCEPT !.accepted = <<delivered, report, report>>, !.caseSensitive = FALSE]
Happened ==
    [checkId |-> Planned(2), kind |-> "BOOLEAN_MATCH", source |-> 1, pointer |-> "/b", expected |-> TRUE]
InTime ==
    [checkId |-> Planned(3), kind |-> "TEMPORAL_COMPARISON", source |-> 1, pointer |-> "/t",
     operator |-> "BEFORE"]
PlanOf(checks, encodes) == [checks |-> checks, encodes |-> encodes]
MCPlans ==
    { PlanOf(<<AtLeastTen(Planned(1), 1)>>, "successCondition"),
      PlanOf(<<AtLeastTen(Planned(1), 2)>>, "successCondition"),
      PlanOf(<<AtLeastTen(Availability(1), 1)>>, "successCondition"),
      PlanOf(<<AtLeastTen(Planned(1), 1), InRange>>, "failureCondition"),
      PlanOf(<<Status, Happened, InTime>>, "successCondition"),
      PlanOf(<<Listed>>, "successCondition") }
MCPathLength == [path \in {"/v"} |-> 500]

Body(v, w, s, extra) ==
    [utf8 |-> TRUE, json |-> TRUE, canonical |-> TRUE, truncated |-> FALSE,
     at |-> [p \in {"/v", "/w", "/s", "/b", "/t"} |->
               CASE p = "/v" -> v [] p = "/w" -> w [] p = "/s" -> s [] p = "/b" -> yes
                 [] p = "/t" -> onTime],
     mentions |-> {"delivered", "yes", "t5"} \cup extra]
Page == [utf8 |-> TRUE, json |-> FALSE, canonical |-> FALSE, truncated |-> FALSE,
         at |-> [p \in {} |-> Null], mentions |-> {"10"}]
Reply200(body) == [kind |-> "body", status |-> 200, type |-> "application/json", body |-> body]
good == Body(ten, minusTwo, delivered, {"10", "-2"})
MCAnswers ==
    { Reply200(good), Reply200(Body(almostTen, ten, blank, {"9.95", "10"})),
      Reply200(Body(nested, ten, delivered, {"10"})),
      Reply200(Body(report, ten, delivered, {})), Reply200(Body(essay, ten, delivered, {})),
      Reply200(Body(ten, ten, essay, {"10"})),
      Reply200([good EXCEPT !.canonical = FALSE]),
      Reply200(Page), [Reply200(Page) EXCEPT !.type = "text/html"],
      [Reply200(good) EXCEPT !.status = 404], [Reply200(good) EXCEPT !.status = 503],
      [kind |-> "redirect", to |-> second], [kind |-> "redirect", to |-> Url(Literal(mapped))],
      [kind |-> "redirect", to |-> Url(Literal(global6))],
      [kind |-> "redirect", to |-> [first EXCEPT !.parses = FALSE]],
      [kind |-> "no location"], [kind |-> "too large"], [kind |-> "broken"] }
MCResolutions == { <<>>, <<public>>, <<public, private>> }
MCAllowedHosts == { <<"org", "data">>, <<"literal">> }
MCBlockedIPv4 == {"private"}
MCBlockedIPv6 == {"loopback"}
MCAllowedPorts == {443}

Reading(outcome, claims, edge) ==
    [json |-> TRUE, outcome |-> outcome, claims |-> claims, confidenceBps |-> 2, edgeCase |-> edge,
     unresolvedReason |-> outcome = "NEEDS_REVIEW", namesHosts |-> {}, protocolValue |-> FALSE]
TenFrom(cites) == <<Claim(cites, tenExactly, "SUPPORTED", 20)>>
Word(cites) == <<Claim(cites, delivered, "SUPPORTED", 20)>>
Replies ==
    { Reading("RESOLVED_YES", TenFrom(<<1>>), 0), Reading("RESOLVED_YES", Word(<<1>>), 0),
      Reading("RESOLVED_YES", Word(<<1, 1>>), 0), Reading("RESOLVED_YES", Word(<<2>>), 1),
      Reading("RESOLVED_YES", Word(<<1, 2>>), 0), Reading("RESOLVED_YES", Word(<<1>>), 2),
      Reading("RESOLVED_NO", Word(<<1>>), 0), Reading("RESOLVED_NO", Word(<<2>>), 1),
      Reading("RESOLVED_NO", <<Claim(<<1>>, Null, "UNSUPPORTED", 20)>>, 3),
      Reading("RESOLVED_NO", <<Claim(<<1>>, Null, "SUPPORTED", 20)>>, 0),
      Reading("RESOLVED_YES", <<Claim(<<1>>, delivered, "SUPPORTED", 1001)>>, 0),
      Reading("NEEDS_REVIEW", <<>>, 0),
      [Reading("RESOLVED_YES", Word(<<1>>), 0) EXCEPT !.confidenceBps = 1],
      [Reading("RESOLVED_YES", Word(<<1>>), 0) EXCEPT !.namesHosts = {Named(<<"org", "else">>)}] }
MCModelEvents ==
    {[kind |-> "returns", stopReason |-> "end_turn", reply |-> r] : r \in Replies}
    \cup {[kind |-> "returns", stopReason |-> s, reply |-> Reading("NEEDS_REVIEW", <<>>, 0)] :
             s \in {"refusal", "max_tokens"}}
    \cup {[kind |-> "throws", cause |-> c] : c \in {"APIConnectionTimeoutError", "RateLimitError"}}

=============================================================================
