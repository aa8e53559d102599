------------------------------ MODULE AgentHooks ------------------------------
(*****************************************************************************)
(* One execution of a factory agent with lifecycle hooks: the template       *)
(* method BaseAgent.execute around _FactoryLLMAgent._execute, the handlers   *)
(* and wraps of a HookRegistry, and the tools that the LLM loop calls        *)
(* through wrap_tool_registry_with_hooks.                                    *)
(*                                                                           *)
(* Handlers and wraps are user code: a handler may keep, mutate or replace   *)
(* its context or raise; a wrap may call next any number of times, swallow   *)
(* what that raises, answer by itself or raise.  Texts and money are left    *)
(* out.                                                                      *)
(*****************************************************************************)
EXTENDS Naturals, Sequences

CONSTANTS HandlerModes, \* of the handlers of every event, in order of registration
          LlmWraps,     \* number of around_llm and ...
          ToolWraps,    \* ... around_tool handlers
          MaxInner      \* bound: loops and tools that one execution enters

ASSUME HooksAssumption ==
    /\ HandlerModes \in Seq({"sequential", "parallel"})
    /\ LlmWraps \in Nat /\ ToolWraps \in Nat /\ MaxInner \in Nat

VARIABLES stage,     \* the event that fires, the chain that is run, or another place
          layer,     \* in a chain: the wrap that has control
          inner,     \* loops and tools entered so far
          fired,     \* events of the execution, with the handlers that heard each
          toolFired, \* those of its tools
          failure,   \* the exception on its way up
          messages,  \* that are sent: as "built", or as a handler "mutated" them
          args,      \* of the tool call under way: as "given", or "replaced"
          audited,   \* events of the audit log
          recorded,  \* the cost tracker has the cost
          ended      \* what the caller gets

hooksVars == <<stage, layer, inner, fired, toolFired, failure, messages, args,
               audited, recorded, ended>>

HooksInit ==
    /\ stage = "new" /\ layer = 0 /\ inner = 0 /\ fired = <<>> /\ toolFired = <<>>
    /\ failure = "none"
    /\ messages = "built" /\ args = "given"
    /\ audited = <<>> /\ recorded = FALSE /\ ended = "no"

Outside == UNCHANGED <<audited, recorded, ended>>   \* of _execute
NothingFires == UNCHANGED <<fired, toolFired>>

-----------------------------------------------------------------------------
\* HookRegistry.fire: the sequential handlers in order, until one raises; then the
\* parallel ones, whose exceptions are swallowed.
Sequential == {n \in DOMAIN HandlerModes : HandlerModes[n] = "sequential"}

Heard(e) ==
    {[event |-> e, by |-> DOMAIN HandlerModes, raised |-> FALSE]}
        \union {[event |-> e, by |-> {m \in Sequential : m <= n}, raised |-> TRUE] :
                n \in Sequential}

\* What fire returns: the context it was given, the same with other fields, or one that
\* a handler put in its place; parallel handlers put none.
Contexts == IF Sequential = {} THEN {"given"} ELSE {"given", "mutated", "replaced"}

ToolEvents == {"pre_tool", "post_tool"}

\* Event e fires at a place: the code goes on at `next`, or with exception f at `caught`.
FiresAt(place, e, next, caught, f) ==
    /\ stage = place
    /\ \E h \in Heard(e) :
          /\ IF e \in ToolEvents
             THEN toolFired' = Append(toolFired, h) /\ UNCHANGED fired
             ELSE fired' = Append(fired, h) /\ UNCHANGED toolFired
          /\ stage' = IF h.raised THEN caught ELSE next
          /\ failure' = IF h.raised THEN f ELSE failure
    /\ layer' = IF next \in {"llm", "tool", "opening"} THEN 1 ELSE 0
    /\ UNCHANGED inner /\ Outside

Fires(e, next, caught, f) == FiresAt(e, e, next, caught, f)

-----------------------------------------------------------------------------
\* BaseAgent.execute: the limiter, the budget or the audit log raises before any hook.
Admit ==
    /\ stage = "new"
    /\ stage' = "pre_execute" /\ audited' = <<"start">>
    /\ NothingFires /\ UNCHANGED <<layer, inner, failure, messages, args, recorded, ended>>

RefuseExecution ==
    /\ stage = "new"
    /\ stage' = "done" /\ ended' = "raised" /\ failure' \in {"budget", "rate", "audit"}
    /\ NothingFires /\ UNCHANGED <<layer, inner, messages, args, audited, recorded>>

KeepData == UNCHANGED <<messages, args>>

\* Outside the try of _execute; what it returns is not read.
FirePreExecute == Fires("pre_execute", "pre_llm", "failing", "hook") /\ KeepData

\* messages = pre_llm_ctx.messages: of the context that was fired with.
FirePreLLM ==
    /\ Fires("pre_llm", IF LlmWraps = 0 THEN "loop" ELSE "llm", "on_error", "hook")
    /\ messages' \in {IF c = "mutated" THEN "mutated" ELSE "built" : c \in Contexts}
    /\ UNCHANGED args

\* args = result_ctx.args; a handler that raises aborts the tool call and no more: the
\* loop gets an error for a result.
FirePreTool ==
    /\ Fires("pre_tool", IF ToolWraps = 0 THEN "run_tool" ELSE "tool", "loop", "none")
    /\ args' \in {IF c = "given" THEN "given" ELSE "replaced" : c \in Contexts}
    /\ UNCHANGED messages

FirePostTool    == Fires("post_tool", "loop", "loop", "none") /\ KeepData
FirePostLLM     == Fires("post_llm", "post_execute", "on_error", "hook") /\ KeepData

\* Mutant: the try of _execute has POST_EXECUTE in it.
FirePostExecuteInTry == Fires("post_execute", "on_complete", "on_error", "hook") /\ KeepData

\* After the try: a handler that raises fails the execution and ON_ERROR does not fire.
FirePostExecute == Fires("post_execute", "on_complete", "failing", "hook") /\ KeepData
FireOnComplete  == Fires("on_complete", "answered", "failing", "hook") /\ KeepData

\* The except of _execute: the event of the exception's type, then the generic one.
FireOnBudget == Fires("on_budget_exceeded", "on_error", "failing", "hook") /\ KeepData
FireOnRate   == Fires("on_rate_limited", "on_error", "failing", "hook") /\ KeepData
FireOnError  == Fires("on_error", "failing", "failing", "hook") /\ KeepData

-----------------------------------------------------------------------------
\* apply_llm_wraps and apply_tool_wraps: the first registered is the outermost, and the
\* innermost calls the function.  Layer 0 is the code that applied the chain.
Caught(f) ==
    CASE f = "budget" -> "on_budget_exceeded"
      [] f = "rate"   -> "on_rate_limited"
      [] OTHER        -> "on_error"

\* Control comes back to layer l with exception f or with an answer; one of a tool
\* becomes a result of the call.
Back(chain, l, f) ==
    /\ layer' = l
    /\ stage' = CASE l > 0                         -> chain
                  [] l = 0 /\ chain = "llm"        -> IF f = "none" THEN "post_llm" ELSE Caught(f)
                  [] l = 0 /\ chain = "tool"       -> IF f = "none" THEN "post_tool" ELSE "loop"
                  [] l = 0 /\ chain = "opening"    -> IF f = "none" THEN "reading" ELSE "stopped"
    /\ failure' = IF l = 0 /\ chain = "tool" THEN "none" ELSE f
    /\ KeepData /\ NothingFires /\ Outside

CallNext ==
    /\ stage \in {"llm", "tool"} /\ inner < MaxInner
    /\ failure' = "none"
    /\ IF layer = (IF stage = "llm" THEN LlmWraps ELSE ToolWraps)
       THEN /\ stage' = IF stage = "llm" THEN "loop" ELSE "run_tool"
            /\ layer' = 0 /\ inner' = inner + 1
       ELSE layer' = layer + 1 /\ UNCHANGED <<stage, inner>>
    /\ KeepData /\ NothingFires /\ Outside

\* A wrap answers, or lets the exception pass, or raises one of its own.
WrapEnds ==
    /\ stage \in {"llm", "tool", "opening"}
    /\ \E f \in {"none", "wrap", failure} : Back(stage, layer - 1, f)
    /\ UNCHANGED inner

\* The loop ends over its providers, with an answer or with the last exception.
LoopEnds ==
    /\ stage = "loop"
    /\ \E f \in {"none", "provider", "budget", "rate"} : Back("llm", LlmWraps, f)
    /\ UNCHANGED inner

\* ToolRegistry.run: a tool that is not known is a result; one that the domain may not
\* use raises out of the loop.
ForbiddenTool ==
    /\ stage = "loop"
    /\ Back("llm", LlmWraps, "provider")
    /\ UNCHANGED inner

CallTool ==
    /\ stage = "loop" /\ inner < MaxInner
    /\ stage' = "pre_tool" /\ inner' = inner + 1
    /\ NothingFires /\ UNCHANGED <<layer, failure, messages, args>> /\ Outside

ToolEnds ==
    /\ stage = "run_tool"
    /\ \E f \in {"none", "tool"} : Back("tool", ToolWraps, f)
    /\ UNCHANGED inner

-----------------------------------------------------------------------------
\* BaseAgent.execute again.
EndExecution(outcome, event) ==
    /\ stage' = "done" /\ ended' = outcome /\ audited' = audited \o event
    /\ NothingFires /\ UNCHANGED <<layer, inner, failure, messages, args>>

\* record and log_complete, without an await between them
ReturnResult == stage = "answered" /\ recorded' = TRUE /\ EndExecution("returned", <<"complete">>)

\* One of the two raises inside the try of execute, the cost recorded or not: the
\* execution whose completion every hook has heard fails all the same.
CompleteFails ==
    /\ stage = "answered"
    /\ stage' = "failing" /\ failure' = "audit" /\ recorded' \in BOOLEAN
    /\ NothingFires /\ UNCHANGED <<layer, inner, messages, args, audited, ended>>

\* The except of execute; log_error may raise as well.
RaiseFailure ==
    /\ stage = "failing"
    /\ \E event \in {<<"error">>, <<>>} : EndExecution("raised", event)
    /\ UNCHANGED recorded

\* A cancelled execution passes every except Exception; where nothing is awaited, none is.
CancelExecution ==
    /\ stage \notin {"new", "answered", "failing", "done"}
    /\ EndExecution("cancelled", <<>>) /\ UNCHANGED recorded

-----------------------------------------------------------------------------
\* stream without tools: tokens from the provider, outside execute and _execute.

FireStreamPreLLM ==
    /\ FiresAt("new", "pre_llm", IF LlmWraps = 0 THEN "reading" ELSE "opening",
               "stopped", "hook")
    /\ messages' \in {IF c = "mutated" THEN "mutated" ELSE "built" : c \in Contexts}
    /\ UNCHANGED args

\* next of a wrap; the innermost gets the provider's stream, unread, and cannot fail.
OpenNext ==
    /\ stage = "opening" /\ layer < LlmWraps
    /\ layer' = layer + 1 /\ failure' = "none"
    /\ KeepData /\ NothingFires /\ UNCHANGED <<stage, inner>> /\ Outside

\* The last token, or a failure after any number of them.
StreamEnds ==
    /\ stage = "reading" /\ EndExecution("streamed", <<>>) /\ UNCHANGED recorded

StreamFails ==
    /\ stage \in {"reading", "stopped"} /\ EndExecution("raised", <<>>) /\ UNCHANGED recorded

HooksNext ==
    \/ Admit \/ RefuseExecution \/ FirePreExecute \/ FirePreLLM \/ FirePreTool \/ FirePostTool
    \/ FirePostLLM \/ FirePostExecute \/ FireOnComplete \/ FireOnBudget \/ FireOnRate
    \/ FireOnError \/ CallNext \/ WrapEnds \/ LoopEnds \/ ForbiddenTool \/ CallTool \/ ToolEnds
    \/ ReturnResult \/ CompleteFails \/ RaiseFailure \/ CancelExecution
    \/ FireStreamPreLLM \/ OpenNext \/ StreamEnds \/ StreamFails

HooksSpec == HooksInit /\ [][HooksNext]_hooksVars

-----------------------------------------------------------------------------
Events   == [n \in DOMAIN fired |-> fired[n].event]
Told     == {fired[n].event : n \in DOMAIN fired}
Fell     == {fired[n].event : n \in {m \in DOMAIN fired : fired[m].raised}}
OfStream == fired # <<>> /\ fired[1].event = "pre_llm"

\* Every handler of every event has heard of an execution that went well.
Completed ==
    /\ Events = <<"pre_execute", "pre_llm", "post_llm", "post_execute", "on_complete">>
    /\ \A n \in DOMAIN fired : ~fired[n].raised /\ fired[n].by = DOMAIN HandlerModes

\* What hooks and the audit log tell of an execution agrees with what its caller gets,
\* whatever handlers, wraps, tools and providers do.  Failure and completion are never
\* both told: ON_ERROR follows no POST_EXECUTE.  A result has been told to every handler
\* of every event, once, in order, however often a wrap called next, and its cost is
\* recorded.  No cost is recorded of an execution that was cancelled or that failed,
\* whatever its providers were paid, unless it completed and then the cost tracker or the
\* audit log raised: of those alone hooks tell a completion that its caller never gets.
\* Any other exception is told to ON_ERROR, unless it came before
\* PRE_LLM or after POST_LLM, or from the handler of the more special event; limits that
\* refuse the execution are told to nobody.  Hooks of a tool never fail the execution,
\* and POST_TOOL is told of the tool whose PRE_TOOL was told before, and passed.
\* A token stream tells PRE_LLM alone, to every handler when it is read to its end, and
\* neither the audit log nor the cost tracker hears of it.
HooksTellTheOutcome ==
    /\ "on_error" \in Told => "post_execute" \notin Told
    /\ recorded => Completed /\ (ended = "returned" \/ failure = "audit")
    /\ ended = "returned" =>
          /\ Completed /\ recorded
          /\ \A n \in DOMAIN toolFired :
                toolFired[n].raised \/ toolFired[n].by = DOMAIN HandlerModes
          /\ audited = <<"start", "complete">>
    /\ ended = "raised" =>
          /\ audited \in {<<>>, <<"start">>, <<"start", "error">>}
          /\ audited = <<>> <=> fired = <<>> \/ OfStream
          /\ "on_error" \in Told \/ audited = <<>> \/ (failure = "audit" /\ Completed)
                \/ Fell \intersect {"pre_execute", "post_execute", "on_complete",
                                    "on_budget_exceeded", "on_rate_limited"} # {}
    /\ ended = "cancelled" => OfStream \/ audited = <<"start">>
    /\ OfStream \/ ended = "streamed" =>
          Events = <<"pre_llm">> /\ toolFired = <<>> /\ audited = <<>>
    /\ ended = "streamed" => \A n \in DOMAIN fired : fired[n].by = DOMAIN HandlerModes
    /\ \A n \in DOMAIN toolFired : toolFired[n].event = "post_tool" =>
          n > 1 /\ toolFired[n - 1].event = "pre_tool" /\ ~toolFired[n - 1].raised
=============================================================================
