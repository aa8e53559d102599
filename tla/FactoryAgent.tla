---------------------------- MODULE FactoryAgent ----------------------------
(*******************************************************************************)
(* One Agent of the factory (ryuu/factory/agent.py) and the runs that share    *)
(* it: run() in the mode the agent was built with (plain, adaptive_compute,    *)
(* or the samples of a best-of-n run), and stream() with tools.  BatchRunner   *)
(* starts up to max_concurrent runs at once.                                   *)
(*                                                                             *)
(* All of them execute the same _FactoryLLMAgent and keep what belongs to      *)
(* one run in its fields: the provider failover is at, the model tier, the     *)
(* step-trace recorder and the callbacks.  A step is the code between two      *)
(* awaits of one run.  What a provider, a tool, a hook or the rate limiter     *)
(* answers is their choice; messages, tokens and cost are left out.            *)
(*******************************************************************************)
EXTENDS Naturals

CONSTANTS
    Runs,          \* bound: calls made on the agent; each is its own recorder and stream
    NoRun,        \* step_trace is None, callbacks are the ones the agent was built with
    Modes,         \* how run() may be configured: subset of RunModes
    Tiers,         \* what difficulty_fn may select
    BaseTier,      \* the model, iterations and max_tokens the agent was built with
    Fallbacks,     \* length of the fallback chain behind the primary provider, 0
    MaxIterations  \* rounds of the ReAct loop before the closing synthesis call

RunModes == {"run", "adaptive", "sample"}

ASSUME AgentAssumption ==
    /\ NoRun \notin Runs
    /\ Modes \subseteq RunModes /\ Modes # {}
    /\ BaseTier \notin Tiers
    /\ Fallbacks \in Nat /\ MaxIterations \in Nat

VARIABLES
    mode,     \* adaptive_compute, n_samples > 1 or neither: never changes
    agent,    \* the fields of the one _FactoryLLMAgent that runs change
    awaits,       \* what each run awaits
    run,      \* the locals of each run
    overlap   \* two runs have been in progress at the same time

factoryVars == <<mode, agent, awaits, run, overlap>>

-----------------------------------------------------------------------------
Providers == 0 .. Fallbacks
AsBuilt == [llm |-> 0, tier |-> BaseTier, trace |-> NoRun, callbacks |-> NoRun]

\* tier and callbacks: what was found and is put back at the end.  primary and
\* index: the failover loop.  model, recorder, listener: read when the ReAct loop
\* starts.  served: the provider of the call in progress.  trace: what rides in
\* the result.
NewRun == [kind |-> "run", tier |-> BaseTier, wanted |-> BaseTier, callbacks |-> NoRun,
           primary |-> 0, index |-> 0, model |-> BaseTier, recorder |-> NoRun,
           listener |-> NoRun, served |-> 0, round |-> 0, outcome |-> "none",
           trace |-> NoRun]

FactoryInit ==
    /\ mode \in Modes
    /\ agent = AsBuilt
    /\ awaits = [r \in Runs |-> "new"]
    /\ run = [r \in Runs |-> NewRun]
    /\ overlap = FALSE

InFlight == {r \in Runs : awaits[r] \notin {"new", "done"}}
InLoop(r) == awaits[r] \in {"calling", "tools"}

-----------------------------------------------------------------------------
\* The entry points, up to the first await in _agent.execute.
Begin(r) ==
    /\ awaits[r] = "new"
    /\ awaits' = [awaits EXCEPT ![r] = "started"]
    /\ overlap' = (overlap \/ InFlight # {})
    /\ UNCHANGED mode

BeginRun(r) ==
    /\ mode = "run"
    /\ Begin(r)
    /\ agent' = [agent EXCEPT !.trace = r]
    /\ run' = [run EXCEPT ![r].kind = "run", ![r].wanted = agent.tier]

\* _run_adaptive swaps three fields outside its try: the tables of models, of
\* iterations and of max_tokens are taken to list whatever difficulty_fn selects.
BeginAdaptive(r) ==
    /\ mode = "adaptive"
    /\ Begin(r)
    /\ \E tier \in Tiers :
         /\ agent' = [agent EXCEPT !.tier = tier]
         /\ run' = [run EXCEPT ![r].kind = "adaptive", ![r].wanted = tier,
                               ![r].tier = agent.tier]

BeginStream(r) ==
    /\ Begin(r)
    /\ agent' = [agent EXCEPT !.callbacks = r]
    /\ run' = [run EXCEPT ![r].kind = "stream", ![r].wanted = agent.tier,
                          ![r].callbacks = agent.callbacks]

BeginSample(r) ==
    /\ mode = "sample"
    /\ Begin(r)
    /\ run' = [run EXCEPT ![r].kind = "sample", ![r].wanted = agent.tier]
    /\ UNCHANGED agent

-----------------------------------------------------------------------------
\* _react_loop is entered with provider llm as self.llm; it reads the recorder
\* and the callbacks once and awaits self.llm.complete.
Attempt(r, llm, locals) ==
    /\ agent' = [agent EXCEPT !.llm = llm]
    /\ run' = [run EXCEPT ![r] = [locals EXCEPT
                  !.recorder = agent.trace, !.listener = agent.callbacks,
                  !.served = llm, !.round = 1]]
    /\ awaits' = [awaits EXCEPT ![r] = "calling"]

\* Spans, rate limiter and hooks have been awaited: _run_inner builds the request
\* and _react_loop_with_failover takes the provider it finds for the primary.
EnterLoop(r) ==
    /\ awaits[r] = "started"
    /\ Attempt(r, agent.llm, [run[r] EXCEPT !.model = agent.tier, !.primary = agent.llm])
    /\ UNCHANGED <<mode, overlap>>

\* The events of the loop go to the callbacks it read: those of a stream that has
\* ended raise.
ListenerOpen(r) ==
    IF run[r].listener = NoRun THEN TRUE ELSE awaits[run[r].listener] # "done"

\* The response has tool calls, and rounds are left.
CallTools(r) ==
    /\ awaits[r] = "calling"
    /\ run[r].round <= MaxIterations
    /\ ListenerOpen(r)
    /\ awaits' = [awaits EXCEPT ![r] = "tools"]
    /\ UNCHANGED <<mode, agent, run, overlap>>

\* The tools have answered: the next round (or the synthesis) calls self.llm, as
\* it is by now.
CallAgain(r) ==
    /\ awaits[r] = "tools"
    /\ run' = [run EXCEPT ![r].served = agent.llm, ![r].round = @ + 1]
    /\ awaits' = [awaits EXCEPT ![r] = "calling"]
    /\ UNCHANGED <<mode, agent, overlap>>

\* A final answer; failover's finally puts back what it took for the primary.
Answers(r) ==
    /\ awaits[r] = "calling"
    /\ ListenerOpen(r)
    /\ agent' = [agent EXCEPT !.llm = run[r].primary]
    /\ run' = [run EXCEPT ![r].outcome = "ok"]
    /\ awaits' = [awaits EXCEPT ![r] = "ending"]
    /\ UNCHANGED <<mode, overlap>>

\* The provider, a tool or a closed stream raised, and a fallback is left.
FailsOver(r) ==
    /\ InLoop(r)
    /\ run[r].index < Fallbacks
    /\ Attempt(r, run[r].index + 1, [run[r] EXCEPT !.index = @ + 1])
    /\ UNCHANGED <<mode, overlap>>

AllFailed(r) ==
    /\ InLoop(r)
    /\ run[r].index = Fallbacks
    /\ agent' = [agent EXCEPT !.llm = run[r].primary]
    /\ run' = [run EXCEPT ![r].outcome = "failed"]
    /\ awaits' = [awaits EXCEPT ![r] = "ending"]
    /\ UNCHANGED <<mode, overlap>>

\* The rate limiter, the budget or a hook before the loop raises, or a hook after it.
RunRefused(r) ==
    /\ \/ awaits[r] = "started"
       \/ awaits[r] = "ending" /\ run[r].outcome = "ok"
    /\ run' = [run EXCEPT ![r].outcome = "failed"]
    /\ awaits' = [awaits EXCEPT ![r] = "ending"]
    /\ UNCHANGED <<mode, agent, overlap>>

-----------------------------------------------------------------------------
\* Mutant of PutBack: stream() leaves its callbacks in place.
PutBackKeepingCallbacks(r, a) ==
    CASE run[r].kind = "run"      -> [a EXCEPT !.trace = NoRun]
      [] run[r].kind = "adaptive" -> [a EXCEPT !.tier = run[r].tier]
      [] OTHER                    -> a

\* The finally blocks of the entry points: what they put back into agent a.
PutBack(r, a) ==
    CASE run[r].kind = "run"      -> [a EXCEPT !.trace = NoRun]
      [] run[r].kind = "adaptive" -> [a EXCEPT !.tier = run[r].tier]
      [] run[r].kind = "stream"   -> [a EXCEPT !.callbacks = run[r].callbacks]
      [] OTHER                    -> a

\* The run is over, its locals with it.
Finish(r, outcome, trace) ==
    /\ run' = [run EXCEPT ![r] = [NewRun EXCEPT !.kind = run[r].kind,
                                                !.outcome = outcome, !.trace = trace]]
    /\ awaits' = [awaits EXCEPT ![r] = "done"]
    /\ UNCHANGED <<mode, overlap>>

\* execute has returned or raised.  run() takes the recorder from the agent: with
\* none there, rec.snapshot() raises and the answer is lost.
CallEnds(r) ==
    /\ awaits[r] = "ending"
    /\ agent' = PutBack(r, agent)
    /\ IF run[r].kind = "run" /\ run[r].outcome = "ok"
       THEN Finish(r, IF agent.trace = NoRun THEN "lost" ELSE "ok", agent.trace)
       ELSE Finish(r, run[r].outcome, NoRun)

\* The caller is cancelled: every finally block on the way runs, nothing is awaited.
Cancelled(r) ==
    /\ r \in InFlight
    /\ agent' = PutBack(r, IF InLoop(r) THEN [agent EXCEPT !.llm = run[r].primary] ELSE agent)
    /\ Finish(r, "cancelled", NoRun)

AllDone == (\A r \in Runs : awaits[r] = "done") /\ UNCHANGED factoryVars

Caller(r) ==
    \/ BeginRun(r) \/ BeginAdaptive(r) \/ BeginSample(r) \/ BeginStream(r)
    \/ Cancelled(r)

RunStep(r) ==
    \/ EnterLoop(r) \/ RunRefused(r) \/ CallTools(r) \/ CallAgain(r)
    \/ Answers(r) \/ FailsOver(r) \/ AllFailed(r) \/ CallEnds(r)

FactoryNext == (\E r \in Runs : Caller(r) \/ RunStep(r)) \/ AllDone

FactorySpec == FactoryInit /\ [][FactoryNext]_factoryVars

-----------------------------------------------------------------------------
\* Used by one run at a time, a run is served by the provider failover is at, with
\* the model it wanted, and records and tells only itself; and between runs the agent
\* is what it was built as, however they ended: failover, tier and callbacks leave no
\* trace.
SoloRunOwnsTheAgent ==
    ~overlap =>
        /\ InFlight = {} => agent = AsBuilt
        /\ \A r \in Runs : InLoop(r) =>
              /\ run[r].served = run[r].index
              /\ run[r].model = run[r].wanted
              /\ run[r].recorder = (IF run[r].kind = "run" THEN r ELSE NoRun)
              /\ run[r].listener = (IF run[r].kind = "stream" THEN r ELSE NoRun)

=============================================================================
