---------------------------- MODULE ProviderCalls ----------------------------
(*******************************************************************************)
(* The calls that agents make on one provider object, or on a chain of         *)
(* them: AnthropicProvider and OpenAIProvider (complete, stream, embed) and    *)
(* ProviderFallbackChain.  Calls of several agents overlap; what a provider    *)
(* learns about a model is shared by them.  A step is the code between two     *)
(* awaits of one call.                                                         *)
(*                                                                             *)
(* A request is known by the parameters it carries that a model may refuse,    *)
(* and by the instruction to reason in the prompt ("cot"); messages, schema,   *)
(* tools and cache marks are left out.  The remote API is external.            *)
(*******************************************************************************)
EXTENDS Naturals, Sequences, SequencesExt

CONSTANTS Callers,
          Models,
          Refuses,     \* of a model: parameters that its API rejects with a 400
          MaxChunks    \* bound: texts that one stream yields

Parameters == {"temperature", "thinking", "max_tokens"}

ASSUME ProviderAssumption ==
    Refuses \in [Models -> SUBSET Parameters] /\ MaxChunks \in Nat

VARIABLES chain,    \* the providers that a call may reach, in order
          rejected, \* _temp_rejected_models of the AnthropicProvider
          asked     \* of a caller: its call

providerVars == <<chain, rejected, asked>>

\* what, model, thinking: the request.  at: place in the chain.  sent: the requests to
\* the provider there.  outage: a provider failed for a reason of its own.
NoRequestYet == [what |-> "nothing", model |-> "none", thinking |-> FALSE, at |-> 1,
                 sent |-> <<>>, chunks |-> 0, outage |-> FALSE, answer |-> "none",
                 native |-> FALSE, cot |-> FALSE]

UnderWay(c) == asked[c].what # "nothing" /\ asked[c].answer = "none"
Provider(c) == chain[asked[c].at]

ProviderInit ==
    /\ chain \in {<<"anthropic">>, <<"openai">>, <<"anthropic", "openai">>,
                  <<"openai", "anthropic">>}
    /\ rejected = {}
    /\ asked = [c \in Callers |-> NoRequestYet]

-----------------------------------------------------------------------------
\* What goes over the wire.  known: the provider remembers that the model rejects
\* the temperature.
Sent(carries, model) == [carries |-> carries, known |-> model \in rejected]

\* Mutant: the temperature is sent to every model, learned or not.
FirstRequestForgetful(provider, what, model, thinking) ==
    CASE provider = "anthropic" /\ what = "complete" ->
            {"max_tokens"} \union (IF thinking THEN {"thinking"} ELSE {"temperature"})
      [] OTHER -> {"max_tokens", "temperature"}

\* complete and stream, up to their first await.  Anthropic's stream sends neither a
\* temperature nor a thinking budget; OpenAI never sends a budget.
FirstRequest(provider, what, model, thinking) ==
    CASE provider = "anthropic" /\ what = "complete" ->
            {"max_tokens"} \union (IF thinking THEN {"thinking"}
                                   ELSE IF model \in rejected THEN {} ELSE {"temperature"})
      [] provider = "anthropic" /\ what = "stream" -> {"max_tokens"}
      [] OTHER -> {"max_tokens", "temperature"}

Reach(call, at) ==
    [call EXCEPT !.at = at,
                 !.sent = <<Sent(FirstRequest(chain[at], call.what, call.model, call.thinking),
                                 call.model)>>]

Call(c) ==
    /\ asked[c].what = "nothing"
    /\ \E what \in {"complete", "stream"}, model \in Models, thinking \in BOOLEAN :
          asked' = [asked EXCEPT ![c] =
              Reach([NoRequestYet EXCEPT !.what = what, !.model = model, !.thinking = thinking], 1)]
    /\ UNCHANGED <<chain, rejected>>

\* embed of the first in the chain: Anthropic has none; one request to OpenAI.
Embed(c) ==
    /\ asked[c].what = "nothing"
    /\ asked' = [asked EXCEPT ![c] =
           IF chain[1] = "anthropic"
           THEN [NoRequestYet EXCEPT !.what = "embed", !.answer = "NotImplementedError"]
           ELSE [NoRequestYet EXCEPT !.what = "embed", !.sent = <<Sent({}, "none")>>]]
    /\ UNCHANGED <<chain, rejected>>

-----------------------------------------------------------------------------
\* classify_external_error: a rate limit, a timeout, a lost connection and any bad
\* request may be retried; an authentication error, and what has no known name, may not.
Tier(failure) == IF failure \in {"refused", "busy"} THEN "retryable" ELSE "fatal"

\* A provider has raised.  Only complete of a chain of several goes to the next one,
\* and at its end reports a degraded service.
RaisedBy(call, failure) ==
    IF call.what # "complete" \/ Len(chain) = 1 \/ Tier(failure) = "fatal"
    THEN [call EXCEPT !.answer = Tier(failure)]
    ELSE IF call.at < Len(chain) THEN Reach(call, call.at + 1)
    ELSE [call EXCEPT !.answer = "degraded"]

LastSent(c) == Last(asked[c].sent).carries

\* What the API says of a request: it names a parameter that it rejects.  Anthropic's
\* requires max_tokens.
Rejects(c, parameter) ==
    /\ UnderWay(c) /\ asked[c].what # "embed"
    /\ parameter \in LastSent(c) \intersect Refuses[asked[c].model]
    /\ parameter = "max_tokens" => Provider(c) = "openai"

Retried(c) == Len(asked[c].sent) > 1

Retry(c, carries) ==
    asked' = [asked EXCEPT ![c].sent = Append(@, [carries |-> carries, known |-> FALSE])]

\* The request of the retry: assembled from the one that failed.
Without(c, without, with) == (LastSent(c) \ without) \union with

\* complete of Anthropic: the first rejection is answered by a second request.
LearnTemperature(c) ==
    /\ Rejects(c, "temperature")
    /\ Provider(c) = "anthropic" /\ asked[c].what = "complete" /\ ~Retried(c)
    /\ rejected' = rejected \union {asked[c].model}
    /\ Retry(c, Without(c, {"temperature"}, {}))
    /\ UNCHANGED chain

FallBackToCoT(c) ==
    /\ Rejects(c, "thinking")
    /\ Provider(c) = "anthropic" /\ asked[c].what = "complete" /\ ~Retried(c)
    /\ Retry(c, Without(c, {"thinking"}, {"cot"}))
    /\ UNCHANGED <<chain, rejected>>

\* complete of OpenAI: a rejected parameter is taken for an o-series model.
DropUnsupported(c) ==
    /\ \E parameter \in Parameters : Rejects(c, parameter)
    /\ Provider(c) = "openai" /\ asked[c].what = "complete" /\ ~Retried(c)
    /\ Retry(c, Without(c, {"temperature", "max_tokens"}, {}))
    /\ UNCHANGED <<chain, rejected>>

\* ... and with a thinking budget, whatever else went wrong for a model without
\* reasoning of its own.
InjectCoT(c) ==
    /\ UnderWay(c) /\ Provider(c) = "openai"
    /\ asked[c].what = "complete" /\ asked[c].thinking /\ ~Retried(c)
    /\ asked' = [asked EXCEPT ![c].sent = Append(@, [carries |-> LastSent(c) \union {"cot"},
                                                    known   |-> FALSE]),
                              ![c].outage = TRUE]
    /\ UNCHANGED <<chain, rejected>>

\* Any other failure is classified and raised.
Absorbed(c, failure) ==
    /\ asked[c].what = "complete" /\ ~Retried(c)
    /\ failure = "refused" \/ (Provider(c) = "openai" /\ asked[c].thinking)

Fail(c) ==
    \E failure \in {"refused", "busy", "broken"} :
        /\ UnderWay(c) /\ ~Absorbed(c, failure)
        /\ failure = "refused" => \E parameter \in Parameters : Rejects(c, parameter)
        /\ asked' = [asked EXCEPT ![c] =
               RaisedBy([asked[c] EXCEPT !.outage = @ \/ failure # "refused"], failure)]
        /\ UNCHANGED <<chain, rejected>>

\* A response, and what its metadata say of the reasoning; a stream ends with its
\* final chunk.
Respond(c) ==
    /\ UnderWay(c)
    /\ \A parameter \in Parameters : ~Rejects(c, parameter)
    /\ asked' = [asked EXCEPT ![c].answer = "response",
                              ![c].native = asked[c].what = "complete" /\ asked[c].thinking
                                            /\ Provider(c) = "anthropic" /\ ~Retried(c),
                              ![c].cot = "cot" \in LastSent(c)]
    /\ UNCHANGED <<chain, rejected>>

Chunk(c) ==
    /\ UnderWay(c) /\ asked[c].what = "stream" /\ asked[c].chunks < MaxChunks
    /\ \A parameter \in Parameters : ~Rejects(c, parameter)
    /\ asked' = [asked EXCEPT ![c].chunks = @ + 1]
    /\ UNCHANGED <<chain, rejected>>

\* The caller has what it asked for and may call again.
Take(c) ==
    /\ asked[c].answer # "none"
    /\ asked' = [asked EXCEPT ![c] = NoRequestYet]
    /\ UNCHANGED <<chain, rejected>>

ProviderNext ==
    \E c \in Callers :
        \/ Call(c) \/ Embed(c) \/ LearnTemperature(c) \/ FallBackToCoT(c) \/ DropUnsupported(c)
        \/ InjectCoT(c) \/ Fail(c) \/ Respond(c) \/ Chunk(c) \/ Take(c)

ProviderSpec == ProviderInit /\ [][ProviderNext]_providerVars

-----------------------------------------------------------------------------
\* What a model refuses costs a call one more request and never its answer: without an
\* outage complete returns a response of the first provider, from at most two requests
\* ("Retry without rather than maintaining a model list here"); a model that is known to
\* reject the temperature is not sent one by any overlapping call ("remembered so
\* subsequent calls skip the wasted request+retry roundtrip"), and only such a model is
\* known as one; with a thinking budget an answer of Anthropic was reasoned for, natively
\* or by the prompt, and its metadata say which.
RefusalsAreAbsorbed ==
    /\ \A m \in rejected : "temperature" \in Refuses[m]
    /\ \A c \in Callers : LET call == asked[c] IN
          /\ Len(call.sent) <= 2
          /\ call.what = "complete" /\ Provider(c) = "anthropic" =>
                \A n \in DOMAIN call.sent :
                    call.sent[n].known => "temperature" \notin call.sent[n].carries
          /\ call.what = "complete" /\ ~call.outage =>
                call.answer \in {"none", "response"} /\ call.at = 1
          /\ call.answer = "response" /\ call.what = "complete" /\ Provider(c) = "anthropic" =>
                /\ call.thinking <=> call.native \/ call.cot
                /\ ~(call.native /\ call.cot)
                /\ call.native <=> "thinking" \in LastSent(c)
=============================================================================
